--------------------------- MODULE InviteFlowProofs ---------------------------
(***************************************************************************)
(* TLAPS proofs about InviteFlow, for any number of profiles, invites and  *)
(* keys, any quota and windows, and any length of time.                    *)
(***************************************************************************)
EXTENDS InviteFlow, FiniteSetTheorems, TLAPS

SendAts   == {"idle", "dedup", "quota", "replayed", "refused", "moderate", "insert", "cache", "done"}
SendRow(k) == [at : SendAts, from : Profiles \cup {"none"}, to : Profiles \cup {"none"},
               key : {k}, now : Nat]
AnswerRow == [at : {"idle", "mirror", "commit", "publish"}, mirror : SUBSET InviteIds]
InviteRow == [from : Profiles \cup {"none"}, to : Profiles \cup {"none"},
              status : {"none", "pending"} \cup Terminal, key : ClientKeys \cup {"none"},
              created : Nat]
Admission == [id : InviteIds, at : Nat]

InviteTypes ==
    /\ clock \in Nat
    /\ invite \in [InviteIds -> InviteRow]
    /\ send = [i \in InviteIds |-> send[i]]
    /\ \A i \in InviteIds : send[i] \in SendRow(send[i].key)
    /\ answer \in [InviteIds -> AnswerRow]
    /\ quota \in [Profiles -> SUBSET Admission]
    /\ \A p \in Profiles : IsFiniteSet(quota[p])

\* An invite is its request's: it is there only once the request has inserted
\* it, with the request's sender; what is being accepted is there.
RowsBelong ==
    \A i \in InviteIds :
        /\ invite[i].status # "none" =>
              send[i].at \in {"cache", "done"} /\ invite[i].from = send[i].from
        /\ invite[i].status = "none" => invite[i] = NoInvite
        /\ send[i].at \notin {"idle", "done"} => send[i].from \in Profiles
        /\ invite[i].status # "none" => invite[i].from \in Profiles
        /\ answer[i].at # "idle" => invite[i].status # "none"

\* The row lock: until the answer commits nobody else can close the invite.
LockHolds ==
    \A i \in InviteIds :
        /\ answer[i].at \in {"mirror", "commit"} => invite[i].status = "pending"
        /\ answer[i].at = "publish" => invite[i].status = "accepted"

\* j is the accepted invite the other way round, and will stay so.
IsMirror(i, j) == /\ invite[j].from = invite[i].to /\ invite[j].to = invite[i].from
                  /\ invite[j].status = "accepted"
MirrorsStand ==
    \A i \in InviteIds : answer[i].at \in {"commit", "publish"} =>
        \A j \in answer[i].mirror : IsMirror(i, j)

\* Who was admitted within the week is counted, under his own time.
Admitted(i) == send[i].at \in {"moderate", "insert", "cache"} \/ invite[i].status # "none"
AdmittedIsCounted ==
    \A i \in InviteIds : Admitted(i) /\ send[i].now > clock - Week =>
        [id |-> i, at |-> send[i].now] \in quota[send[i].from]

Limit(p) == IF Axis[p] > FreeQuota THEN Axis[p] ELSE FreeQuota
CountedWithin == \A p \in Profiles : Cardinality(InWindow(p)) <= Limit(p)

InviteInv == /\ InviteTypes /\ RowsBelong /\ LockHolds /\ MirrorsStand /\ MatchIsMutual
             /\ AdmittedIsCounted /\ CountedWithin

-----------------------------------------------------------------------------
(* Send requests *)

\* A request goes on to its next step.
LEMMA SendMoved ==
    ASSUME InviteTypes, NEW i \in InviteIds, NEW loc \in SendAts, SendTo(i, loc)
    PROVE  /\ send' = [j \in InviteIds |-> send'[j]]
           /\ \A j \in InviteIds : send'[j] \in SendRow(send'[j].key)
           /\ \A j \in InviteIds \ {i} : send'[j] = send[j]
           /\ \A j \in InviteIds : /\ send'[j].from = send[j].from /\ send'[j].now = send[j].now
                                   /\ send'[j].key = send[j].key
           /\ send'[i].at = loc
  <1>1. send[i] \in SendRow(send[i].key)
    BY DEF InviteTypes
  <1>2. PICK r : r = [send[i] EXCEPT !.at = loc]
    OBVIOUS
  <1>3. /\ r \in SendRow(r.key) /\ r.at = loc /\ r.from = send[i].from /\ r.now = send[i].now
        /\ r.key = send[i].key
    BY <1>1, <1>2 DEF SendRow
  <1>4. send' = [send EXCEPT ![i] = r]
    BY <1>2 DEF SendTo
  <1>5. send = [j \in InviteIds |-> send[j]]
    BY DEF InviteTypes
  <1>6. send' = [j \in InviteIds |-> IF j = i THEN r ELSE send[j]]
    BY <1>4, <1>5
  <1> QED
    BY <1>3, <1>6 DEF InviteTypes

\* The week moves on and nobody is admitted: the counts only shrink.
LEMMA WindowShrinks ==
    ASSUME InviteInv, clock' \in Nat, clock' >= clock, \A p \in Profiles : quota'[p] \subseteq quota[p]
    PROVE  CountedWithin'
  <1> SUFFICES ASSUME NEW p \in Profiles
               PROVE  Cardinality({e \in quota'[p] : e.at > clock' - Week}) <= Limit(p)
    BY DEF CountedWithin, InWindow, Limit
  <1> DEFINE W == {e \in quota'[p] : e.at > clock' - Week}
  <1>1. IsFiniteSet(InWindow(p)) /\ W \subseteq InWindow(p)
    <2>1. quota[p] \in SUBSET Admission /\ IsFiniteSet(quota[p]) /\ clock \in Nat /\ Week \in Nat
      BY InviteAssumption DEF InviteInv, InviteTypes
    <2>2. InWindow(p) \subseteq quota[p]
      BY DEF InWindow
    <2>3. IsFiniteSet(InWindow(p))
      BY <2>1, <2>2, FS_Subset
    <2>4. ASSUME NEW e \in W PROVE e \in InWindow(p)
      <3>1. e \in quota[p] /\ e.at \in Nat
        BY <2>1 DEF Admission
      <3> QED
        BY <2>1, <3>1 DEF InWindow
    <2> QED
      BY <2>3, <2>4
  <1>2. Cardinality(W) <= Cardinality(InWindow(p)) /\ Cardinality(W) \in Nat
    BY <1>1, FS_Subset, FS_CardinalityType
  <1>3. Cardinality(InWindow(p)) <= Limit(p) /\ Cardinality(InWindow(p)) \in Nat
    BY <1>1, FS_CardinalityType DEF InviteInv, CountedWithin
  <1>4. Limit(p) \in Int
    BY InviteAssumption DEF Limit
  <1> QED
    BY <1>2, <1>3, <1>4

\* Nothing about the invites themselves has changed.
RowsKept == UNCHANGED <<invite, answer, matches>>

LEMMA AnswersStand ==
    ASSUME InviteInv, RowsKept
    PROVE  LockHolds' /\ MirrorsStand' /\ MatchIsMutual'
  BY DEF InviteInv, RowsKept, LockHolds, MirrorsStand, IsMirror, MatchIsMutual

\* A request moves without being admitted.
LEMMA RequestMoves ==
    ASSUME InviteInv, RowsKept, UNCHANGED clock,
           NEW i \in InviteIds, NEW loc \in SendAts \ {"idle"}, SendTo(i, loc),
           send[i].at \notin {"idle", "done"}, send[i].at = "cache" => loc = "done",
           loc \in {"moderate", "insert", "cache"} => send[i].at \in {"moderate", "insert", "cache"},
           quota' \in [Profiles -> SUBSET Admission],
           \A p \in Profiles : InWindow(p) \subseteq quota'[p] /\ quota'[p] \subseteq quota[p]
    PROVE  InviteInv'
  <1>0. InviteTypes /\ RowsBelong /\ AdmittedIsCounted /\ Week \in Nat
    BY InviteAssumption DEF InviteInv
  <1>1. /\ send' = [j \in InviteIds |-> send'[j]]
        /\ \A j \in InviteIds : send'[j] \in SendRow(send'[j].key)
        /\ \A j \in InviteIds \ {i} : send'[j] = send[j]
        /\ \A j \in InviteIds : /\ send'[j].from = send[j].from /\ send'[j].now = send[j].now
                                /\ send'[j].key = send[j].key
        /\ send'[i].at = loc
    BY <1>0, SendMoved
  <1>2. InviteTypes'
    <2>1. \A p \in Profiles : IsFiniteSet(quota'[p])
      BY <1>0, FS_Subset DEF InviteTypes
    <2> QED
      BY <1>0, <1>1, <2>1 DEF InviteTypes, RowsKept
  <1>3. RowsBelong'
    <2> SUFFICES ASSUME NEW j \in InviteIds
                 PROVE  /\ invite[j].status # "none" =>
                              send'[j].at \in {"cache", "done"} /\ invite[j].from = send'[j].from
                        /\ send'[j].at \notin {"idle", "done"} => send'[j].from \in Profiles
      BY <1>0 DEF RowsBelong, RowsKept
    <2>1. CASE j = i
      BY <1>0, <1>1, <2>1 DEF RowsBelong
    <2>2. CASE j # i
      BY <1>0, <1>1, <2>2 DEF RowsBelong
    <2> QED
      BY <2>1, <2>2
  <1>4. AdmittedIsCounted'
    <2> SUFFICES ASSUME NEW j \in InviteIds, Admitted(j)', send'[j].now > clock' - Week
                 PROVE  [id |-> j, at |-> send'[j].now] \in quota'[send'[j].from]
      BY DEF AdmittedIsCounted
    <2>1. Admitted(j)
      BY <1>1 DEF Admitted, RowsKept
    <2>2. PICK n, p : n = send[j].now /\ p = send[j].from
      OBVIOUS
    <2>3. [id |-> j, at |-> n] \in quota[p] /\ n > clock - Week
      BY <1>0, <1>1, <2>1, <2>2 DEF AdmittedIsCounted
    <2>4. p \in Profiles
      BY <1>0, <2>1, <2>2 DEF RowsBelong, Admitted
    <2>5. [id |-> j, at |-> n] \in InWindow(p)
      BY <2>3 DEF InWindow
    <2> QED
      BY <1>1, <2>2, <2>4, <2>5
  <1>5. CountedWithin'
    BY <1>0, WindowShrinks DEF InviteTypes
  <1> QED
    BY <1>2, <1>3, <1>4, <1>5, AnswersStand DEF InviteInv

LEMMA SendSteps ==
    ASSUME InviteInv, NEW i \in InviteIds,
           Dedup(i) \/ QuotaExceeded(i) \/ Flagged(i) \/ Scanned(i) \/ InsertConflict(i)
             \/ CacheResponse(i) \/ Replay(i) \/ SendCrashes(i)
    PROVE  InviteInv'
  <1>0. /\ quota \in [Profiles -> SUBSET Admission]
        /\ \A p \in Profiles : InWindow(p) \subseteq quota[p]
    BY DEF InviteInv, InviteTypes, InWindow
  <1>1. CASE QuotaExceeded(i)
    <2>1. /\ RowsKept /\ UNCHANGED clock /\ SendTo(i, "refused") /\ send[i].at = "quota"
          /\ quota' = [quota EXCEPT ![send[i].from] = InWindow(send[i].from)]
      BY <1>1 DEF QuotaExceeded, RowsKept
    <2>2. send[i].from \in Profiles
      BY <2>1 DEF InviteInv, RowsBelong
    <2>3. /\ quota' \in [Profiles -> SUBSET Admission]
          /\ \A p \in Profiles : InWindow(p) \subseteq quota'[p] /\ quota'[p] \subseteq quota[p]
      BY <1>0, <2>1, <2>2
    <2> QED
      BY <2>1, <2>3, RequestMoves DEF SendAts
  <1>2. CASE ~QuotaExceeded(i)
    <2>1. RowsKept /\ UNCHANGED <<clock, quota>>
      BY <1>2 DEF Dedup, Flagged, Scanned, InsertConflict, CacheResponse, Replay, SendCrashes,
         RowsKept
    <2>2. PICK loc \in SendAts \ {"idle"} :
             /\ SendTo(i, loc) /\ send[i].at \notin {"idle", "done"}
             /\ send[i].at = "cache" => loc = "done"
             /\ loc \in {"moderate", "insert", "cache"} => send[i].at \in {"moderate", "insert", "cache"}
      <3>1. CASE Dedup(i)
        BY <3>1 DEF Dedup, SendAts
      <3>2. CASE Flagged(i) \/ InsertConflict(i) \/ CacheResponse(i) \/ Replay(i) \/ SendCrashes(i)
        BY <3>2 DEF Flagged, InsertConflict, CacheResponse, Replay, SendCrashes, SendAts
      <3>3. CASE Scanned(i)
        BY <3>3 DEF Scanned, SendAts
      <3> QED
        BY <1>2, <3>1, <3>2, <3>3
    <2>3. /\ quota' \in [Profiles -> SUBSET Admission]
          /\ \A p \in Profiles : InWindow(p) \subseteq quota'[p] /\ quota'[p] \subseteq quota[p]
      BY <1>0, <2>1
    <2> QED
      BY <2>1, <2>2, <2>3, RequestMoves
  <1> QED
    BY <1>1, <1>2

LEMMA SendStartStep ==
    ASSUME InviteInv, NEW i \in InviteIds, SendStart(i)
    PROVE  InviteInv'
  <1>0. InviteTypes /\ RowsBelong /\ AdmittedIsCounted
    BY DEF InviteInv
  <1>1. RowsKept /\ UNCHANGED <<clock, quota>> /\ send[i].at = "idle"
    BY DEF SendStart, RowsKept
  <1>p. PICK p \in Profiles, q \in Profiles :
           \E k : send' = [send EXCEPT ![i] =
                      [at |-> "dedup", from |-> p, to |-> q, key |-> k, now |-> clock]]
    BY DEF SendStart
  <1>2. PICK k : send' = [send EXCEPT ![i] =
                      [at |-> "dedup", from |-> p, to |-> q, key |-> k, now |-> clock]]
    BY <1>p
  <1>3. PICK r : r = [at |-> "dedup", from |-> p, to |-> q, key |-> k, now |-> clock]
    OBVIOUS
  <1>4. r \in SendRow(r.key) /\ r.at = "dedup" /\ r.from = p
    BY <1>0, <1>3 DEF SendRow, SendAts, InviteTypes
  <1>5. send' = [j \in InviteIds |-> IF j = i THEN r ELSE send[j]]
    BY <1>0, <1>2, <1>3 DEF InviteTypes
  <1>6. send'[i] = r /\ \A j \in InviteIds \ {i} : send'[j] = send[j]
    BY <1>5
  <1>7. invite[i].status = "none"
    BY <1>0, <1>1 DEF RowsBelong
  <1>8. InviteTypes'
    <2>1. send' = [j \in InviteIds |-> send'[j]]
      BY <1>5
    <2>2. ASSUME NEW j \in InviteIds PROVE send'[j] \in SendRow(send'[j].key)
      BY <1>0, <1>4, <1>6 DEF InviteTypes
    <2> QED
      BY <1>0, <1>1, <2>1, <2>2 DEF InviteTypes, RowsKept
  <1>9. RowsBelong'
    BY <1>0, <1>1, <1>4, <1>6, <1>7 DEF RowsBelong, RowsKept
  <1>10. AdmittedIsCounted'
    <2> SUFFICES ASSUME NEW j \in InviteIds, Admitted(j)', send'[j].now > clock' - Week
                 PROVE  [id |-> j, at |-> send'[j].now] \in quota'[send'[j].from]
      BY DEF AdmittedIsCounted
    <2>1. j # i
      BY <1>1, <1>4, <1>6, <1>7 DEF Admitted, RowsKept
    <2> QED
      BY <1>0, <1>1, <1>6, <2>1 DEF AdmittedIsCounted, Admitted, RowsKept
  <1>11. CountedWithin'
    BY <1>1 DEF InviteInv, CountedWithin, InWindow
  <1> QED
    BY <1>1, <1>8, <1>9, <1>10, <1>11, AnswersStand DEF InviteInv

\* The script's count is below the limit when it admits a send.
LEMMA AdmitsWithin ==
    ASSUME InviteInv, NEW i \in InviteIds, CheckQuota(i)
    PROVE  CountedWithin'
  <1>0. /\ quota \in [Profiles -> SUBSET Admission] /\ clock \in Nat /\ send[i].from \in Profiles
        /\ UNCHANGED clock /\ CountedWithin
    BY DEF CheckQuota, InviteInv, InviteTypes, RowsBelong
  <1>p. PICK p \in Profiles : p = send[i].from
    BY <1>0
  <1>1. PICK e : p = send[i].from /\ e = [id |-> i, at |-> clock]
    BY <1>p
  <1>2. quota' = [quota EXCEPT ![p] = InWindow(p) \cup {e}]
    BY <1>1 DEF CheckQuota
  <1>3. PICK limit \in Limits(p) : Cardinality(InWindow(p)) < limit
    BY <1>1 DEF CheckQuota
  <1>4. limit \in Int /\ limit <= Limit(p) /\ Limit(p) \in Int
    BY InviteAssumption DEF Limits, Limit
  <1>5. InWindow(p) \subseteq quota[p] /\ IsFiniteSet(InWindow(p))
    <2>1. InWindow(p) \subseteq quota[p] /\ IsFiniteSet(quota[p])
      BY DEF InWindow, InviteInv, InviteTypes
    <2> QED
      BY <2>1, FS_Subset
  <1>6. Cardinality(InWindow(p)') <= Limit(p)
    <2>1. InWindow(p)' \subseteq InWindow(p) \cup {e}
      BY <1>0, <1>2 DEF InWindow
    <2>2. /\ IsFiniteSet(InWindow(p) \cup {e})
          /\ Cardinality(InWindow(p) \cup {e}) <= Cardinality(InWindow(p)) + 1
          /\ Cardinality(InWindow(p)) \in Nat
      <3>1. Cardinality(InWindow(p)) \in Nat
        BY <1>5, FS_CardinalityType
      <3>2. PICK S : S = InWindow(p)
        OBVIOUS
      <3>3. /\ IsFiniteSet(S \cup {e})
            /\ Cardinality(S \cup {e}) = IF e \in S THEN Cardinality(S) ELSE Cardinality(S) + 1
        BY <1>5, <3>2, FS_AddElement
      <3> QED
        BY <3>1, <3>2, <3>3
    <2>3. Cardinality(InWindow(p)') <= Cardinality(InWindow(p) \cup {e})
      BY <2>1, <2>2, FS_Subset
    <2>4. /\ Cardinality(InWindow(p)') \in Nat /\ Cardinality(InWindow(p) \cup {e}) \in Nat
      BY <2>1, <2>2, FS_Subset, FS_CardinalityType
    <2> QED
      BY <1>3, <1>4, <2>2, <2>3, <2>4
  <1>7. ASSUME NEW x \in Profiles PROVE (Cardinality(InWindow(x)) <= Limit(x))'
    <2>1. CASE x = p
      BY <1>6, <2>1 DEF Limit
    <2>2. CASE x # p
      BY <1>0, <1>2, <2>2 DEF CountedWithin, InWindow, Limit
    <2> QED
      BY <2>1, <2>2
  <1> QED
    BY <1>7 DEF CountedWithin

LEMMA CheckQuotaStep ==
    ASSUME InviteInv, NEW i \in InviteIds, CheckQuota(i)
    PROVE  InviteInv'
  <1>0. InviteTypes /\ RowsBelong /\ AdmittedIsCounted /\ clock \in Nat /\ Week \in Nat
    BY InviteAssumption DEF InviteInv, InviteTypes
  <1>1. RowsKept /\ UNCHANGED clock /\ send[i].at = "quota"
    BY DEF CheckQuota, RowsKept
  <1>2. PICK p \in Profiles : p = send[i].from
    BY <1>0, <1>1 DEF RowsBelong
  <1>3. quota' = [quota EXCEPT ![p] = InWindow(p) \cup {[id |-> i, at |-> clock]}]
    BY <1>2 DEF CheckQuota
  <1>4. PICK r : r = [send[i] EXCEPT !.at = "moderate", !.now = clock]
    OBVIOUS
  <1>5. /\ r \in SendRow(r.key) /\ r.at = "moderate" /\ r.from = p /\ r.now = clock
    <2>1. send[i] \in SendRow(send[i].key)
      BY <1>0 DEF InviteTypes
    <2> QED
      BY <1>0, <1>2, <1>4, <2>1 DEF SendRow, SendAts
  <1>6. send' = [j \in InviteIds |-> IF j = i THEN r ELSE send[j]]
    <2>1. send' = [send EXCEPT ![i] = r]
      BY <1>0, <1>4 DEF CheckQuota, InviteTypes
    <2>2. send = [j \in InviteIds |-> send[j]]
      BY <1>0 DEF InviteTypes
    <2> QED
      BY <2>1, <2>2
  <1>7. send'[i] = r /\ \A j \in InviteIds \ {i} : send'[j] = send[j]
    BY <1>6
  <1>8. quota' \in [Profiles -> SUBSET Admission] /\ \A x \in Profiles : IsFiniteSet(quota'[x])
    <2>1. InWindow(p) \subseteq quota[p] /\ quota[p] \subseteq Admission /\ IsFiniteSet(quota[p])
      BY <1>0 DEF InWindow, InviteTypes
    <2>2. IsFiniteSet(InWindow(p))
      BY <2>1, FS_Subset
    <2>3. IsFiniteSet(InWindow(p) \cup {[id |-> i, at |-> clock]})
      BY <2>2, FS_AddElement
    <2>4. [id |-> i, at |-> clock] \in Admission
      BY <1>0 DEF Admission
    <2> QED
      BY <1>0, <1>3, <2>1, <2>3, <2>4 DEF InviteTypes
  <1>9. InviteTypes'
    <2>1. send' = [j \in InviteIds |-> send'[j]]
      BY <1>6
    <2>2. ASSUME NEW j \in InviteIds PROVE send'[j] \in SendRow(send'[j].key)
      BY <1>0, <1>5, <1>7 DEF InviteTypes
    <2> QED
      BY <1>0, <1>1, <1>8, <2>1, <2>2 DEF InviteTypes, RowsKept
  <1>10. RowsBelong'
    BY <1>0, <1>1, <1>5, <1>7 DEF RowsBelong, RowsKept
  <1>11. AdmittedIsCounted'
    <2> SUFFICES ASSUME NEW j \in InviteIds, Admitted(j)', send'[j].now > clock' - Week
                 PROVE  [id |-> j, at |-> send'[j].now] \in quota'[send'[j].from]
      BY DEF AdmittedIsCounted
    <2>1. CASE j = i
      BY <1>0, <1>3, <1>5, <1>7, <2>1 DEF InviteTypes
    <2>2. CASE j # i
      <3>1. Admitted(j) /\ send'[j] = send[j]
        BY <1>1, <1>7, <2>2 DEF Admitted, RowsKept
      <3>2. PICK n, x : n = send[j].now /\ x = send[j].from
        OBVIOUS
      <3>3. [id |-> j, at |-> n] \in quota[x] /\ n > clock - Week
        BY <1>0, <1>1, <3>1, <3>2 DEF AdmittedIsCounted
      <3>4. x \in Profiles
        BY <1>0, <3>1, <3>2 DEF RowsBelong, Admitted
      <3>5. [id |-> j, at |-> n] \in InWindow(x)
        BY <3>3 DEF InWindow
      <3>6. [id |-> j, at |-> n] \in quota'[x]
        BY <1>0, <1>3, <3>3, <3>4, <3>5 DEF InviteTypes
      <3> QED
        BY <3>1, <3>2, <3>6
    <2> QED
      BY <2>1, <2>2
  <1>12. CountedWithin'
    BY AdmitsWithin
  <1> QED
    BY <1>1, <1>9, <1>10, <1>11, <1>12, AnswersStand DEF InviteInv

LEMMA OutsideStep ==
    ASSUME InviteInv, Tick \/ CreateBlock \/ RemoveBlock \/ UNCHANGED vars
    PROVE  InviteInv'
  <1>1. /\ RowsKept /\ UNCHANGED <<quota, send>> /\ clock' \in Nat /\ clock' >= clock /\ clock \in Nat
    <2>1. clock \in Nat
      BY DEF InviteInv, InviteTypes
    <2>2. RowsKept /\ UNCHANGED <<quota, send>> /\ (clock' = clock \/ clock' = clock + 1)
      BY DEF Tick, CreateBlock, RemoveBlock, vars, RowsKept
    <2> QED
      BY <2>1, <2>2
  <1>2. InviteTypes' /\ RowsBelong'
    BY <1>1 DEF InviteInv, InviteTypes, RowsBelong, RowsKept
  <1>3. AdmittedIsCounted'
    <2> SUFFICES ASSUME NEW j \in InviteIds, Admitted(j), send[j].now > clock' - Week
                 PROVE  [id |-> j, at |-> send[j].now] \in quota[send[j].from]
      BY <1>1 DEF AdmittedIsCounted, Admitted, RowsKept
    <2>1. send[j] \in SendRow(send[j].key) /\ Week \in Nat
      BY InviteAssumption DEF InviteInv, InviteTypes
    <2>2. send[j].now \in Nat
      BY <2>1 DEF SendRow
    <2>3. send[j].now > clock - Week
      BY <1>1, <2>1, <2>2
    <2> QED
      BY <2>3 DEF InviteInv, AdmittedIsCounted
  <1>4. CountedWithin'
    BY <1>1, WindowShrinks
  <1> QED
    BY <1>1, <1>2, <1>3, <1>4, AnswersStand DEF InviteInv

-----------------------------------------------------------------------------
(* Invites and their answers *)

\* What a step that answers invites leaves of them: their two sides and their
\* key, and that they are there; one that is accepted stays so.
InvitesKept ==
    \A j \in InviteIds :
        /\ invite'[j].from = invite[j].from /\ invite'[j].to = invite[j].to
        /\ invite'[j].key = invite[j].key
        /\ invite[j].status = "none" => invite'[j] = invite[j]
        /\ invite[j].status # "none" => invite'[j].status # "none"
        /\ invite[j].status = "accepted" => invite'[j].status = "accepted"

LEMMA AnswersMove ==
    ASSUME InviteInv, InvitesKept, UNCHANGED <<clock, quota, send>>,
           invite' \in [InviteIds -> InviteRow], answer' \in [InviteIds -> AnswerRow],
           \A j \in InviteIds : answer'[j].at # "idle" => invite[j].status # "none",
           LockHolds', MirrorsStand', MatchIsMutual'
    PROVE  InviteInv'
  <1>1. InviteTypes'
    BY DEF InviteInv, InviteTypes
  <1>2. RowsBelong'
    BY DEF InviteInv, RowsBelong, InvitesKept
  <1>4. AdmittedIsCounted' /\ CountedWithin'
    BY DEF InviteInv, AdmittedIsCounted, Admitted, InvitesKept, CountedWithin, InWindow
  <1> QED
    BY <1>1, <1>2, <1>4 DEF InviteInv

LEMMA MatchesStand ==
    ASSUME InviteInv, InvitesKept, UNCHANGED matches PROVE MatchIsMutual'
  BY DEF InviteInv, MatchIsMutual, InvitesKept

\* Invites may only change by being closed, while they are pending and free.
ClosesOnly ==
    /\ UNCHANGED <<clock, quota, send, answer, matches>>
    /\ invite' \in [InviteIds -> InviteRow]
    /\ \A j \in InviteIds : \/ invite'[j] = invite[j]
                            \/ /\ Unlocked(j) /\ invite[j].status = "pending"
                               /\ \E st \in {"rejected", "cancelled", "expired"} :
                                     invite'[j] = [invite[j] EXCEPT !.status = st]

\* Reject, cancel and the expiry job close pending invites nobody holds.
LEMMA CloseStep ==
    ASSUME InviteInv, \/ Expire \/ \E i \in InviteIds : Reject(i) \/ Cancel(i)
    PROVE  InviteInv'
  <1>0. InviteTypes /\ LockHolds /\ MirrorsStand /\ RowsBelong
    BY DEF InviteInv
  <1>1. ClosesOnly
    <2>1. ASSUME NEW i \in InviteIds, NEW st \in {"rejected", "cancelled"},
                 Unlocked(i), invite[i].status = "pending", Close(i, st)
          PROVE  ClosesOnly
      <3>1. PICK r : r = [invite[i] EXCEPT !.status = st]
        OBVIOUS
      <3>2. invite[i] \in InviteRow
        BY <1>0 DEF InviteTypes
      <3>3. r \in InviteRow
        BY <3>1, <3>2 DEF InviteRow, Terminal
      <3>4. invite' = [invite EXCEPT ![i] = r] /\ UNCHANGED <<clock, quota, send, answer, matches>>
        BY <2>1, <3>1 DEF Close
      <3> QED
        BY <1>0, <2>1, <3>1, <3>3, <3>4 DEF InviteTypes, ClosesOnly
    <2>2. CASE Expire
      <3>1. \A j \in InviteIds : [invite[j] EXCEPT !.status = "expired"] \in InviteRow
        BY SMTT(20), <1>0 DEF InviteTypes, InviteRow, Terminal
      <3> QED
        BY <1>0, <2>2, <3>1 DEF Expire, Stale, InviteTypes, ClosesOnly
    <2> QED
      BY <2>1, <2>2 DEF Reject, Cancel
  <1>2. InvitesKept
    <2> SUFFICES ASSUME NEW j \in InviteIds
                 PROVE  /\ invite'[j].from = invite[j].from /\ invite'[j].to = invite[j].to
                        /\ invite'[j].key = invite[j].key
                        /\ invite[j].status = "none" => invite'[j] = invite[j]
                        /\ invite[j].status # "none" => invite'[j].status # "none"
                        /\ invite[j].status = "accepted" => invite'[j].status = "accepted"
      BY DEF InvitesKept
    <2>1. invite[j] \in InviteRow
      BY <1>0 DEF InviteTypes
    <2> QED
      BY <1>1, <2>1 DEF InviteRow, ClosesOnly
  <1>3. LockHolds'
    BY <1>0, <1>1, <1>2 DEF LockHolds, Unlocked, InvitesKept, ClosesOnly
  <1>4. MirrorsStand'
    <2> SUFFICES ASSUME NEW i \in InviteIds, answer[i].at \in {"commit", "publish"}, NEW j \in answer[i].mirror
                 PROVE  IsMirror(i, j)'
      BY <1>1 DEF MirrorsStand, ClosesOnly
    <2>1. IsMirror(i, j) /\ j \in InviteIds
      BY <1>0 DEF MirrorsStand, InviteTypes, AnswerRow
    <2> QED
      BY <1>2, <2>1 DEF IsMirror, InvitesKept
  <1>5. MatchIsMutual'
    BY <1>1, <1>2, MatchesStand DEF ClosesOnly
  <1> QED
    BY <1>0, <1>1, <1>2, <1>3, <1>4, <1>5, AnswersMove DEF InviteTypes, RowsBelong, ClosesOnly

\* One transaction of accept_invite goes on; the invites stay as they are.
LEMMA AnswerStep ==
    ASSUME InviteInv, NEW i \in InviteIds,
           AcceptLock(i) \/ ReadMirror(i) \/ PublishMatch(i) \/ PublishFails(i) \/ AcceptCrashes(i)
    PROVE  InviteInv'
  <1>0. InviteTypes /\ LockHolds /\ MirrorsStand /\ RowsBelong /\ answer[i] \in AnswerRow
        /\ MatchIsMutual
    BY DEF InviteInv, InviteTypes
  <1>1. UNCHANGED <<clock, quota, send, invite>>
    BY DEF AcceptLock, ReadMirror, PublishMatch, PublishFails, AcceptCrashes
  <1>2. PICK q \in AnswerRow :
           /\ answer' = [answer EXCEPT ![i] = q]
           /\ q.at # "idle" => invite[i].status = "pending"
           /\ q.at # "publish"
           /\ q.at = "commit" => \A j \in q.mirror : IsMirror(i, j)
    <2>n. NoAnswer \in AnswerRow /\ NoAnswer.at = "idle"
      BY DEF NoAnswer, AnswerRow
    <2>1. CASE AcceptLock(i)
      <3>1. PICK q : q = [answer[i] EXCEPT !.at = "mirror"]
        OBVIOUS
      <3>2. q \in AnswerRow /\ q.at = "mirror" /\ q.mirror = answer[i].mirror
        BY <1>0, <3>1 DEF AnswerRow
      <3>3. answer' = [answer EXCEPT ![i] = q] /\ answer[i].at = "idle" /\ invite[i].status = "pending"
        BY <2>1, <3>1, <1>0 DEF AcceptLock, InviteTypes
      <3> QED
        BY <3>2, <3>3
    <2>2. CASE ReadMirror(i)
      <3>1. CASE Cardinality(Mirrors(i)) > 1
        BY <2>2, <2>n, <3>1 DEF ReadMirror
      <3>2. CASE ~(Cardinality(Mirrors(i)) > 1)
        <4>1. PICK q : q = [at |-> "commit", mirror |-> Mirrors(i)]
          OBVIOUS
        <4>2. q \in AnswerRow /\ q.at = "commit" /\ q.mirror = Mirrors(i)
          BY <4>1 DEF AnswerRow, Mirrors
        <4>3. answer' = [answer EXCEPT ![i] = q] /\ invite[i].status = "pending"
          BY <1>0, <2>2, <3>2, <4>1 DEF ReadMirror, LockHolds
        <4> QED
          BY <4>2, <4>3 DEF Mirrors, IsMirror
      <3> QED
        BY <3>1, <3>2
    <2>3. CASE PublishMatch(i) \/ PublishFails(i) \/ AcceptCrashes(i)
      BY <2>3, <2>n DEF PublishMatch, PublishFails, AcceptCrashes
    <2> QED
      BY <2>1, <2>2, <2>3
  <1>3. /\ answer' \in [InviteIds -> AnswerRow] /\ answer'[i] = q
        /\ \A j \in InviteIds \ {i} : answer'[j] = answer[j]
    BY <1>0, <1>2 DEF InviteTypes
  <1>4. InvitesKept
    BY <1>1 DEF InvitesKept
  <1>5. LockHolds'
    BY <1>0, <1>1, <1>2, <1>3 DEF LockHolds
  <1>6. MirrorsStand'
    BY <1>0, <1>1, <1>2, <1>3 DEF MirrorsStand, IsMirror
  <1>7. MatchIsMutual'
    <2>1. CASE PublishMatch(i)
      <3>1. CASE answer[i].mirror = {}
        <4>1. matches' = matches
          BY <2>1, <3>1 DEF PublishMatch
        <4> QED
          BY <1>4, <4>1, MatchesStand
      <3>2. CASE answer[i].mirror # {}
        <4>1. PICK j \in InviteIds : IsMirror(i, j)
          BY <1>0, <2>1, <3>2 DEF MirrorsStand, PublishMatch, AnswerRow
        <4>2. invite[i].status = "accepted"
          BY <1>0, <2>1 DEF LockHolds, PublishMatch
        <4>3. matches' = matches \cup {{invite[i].from, invite[i].to}}
          BY <2>1, <3>2 DEF PublishMatch
        <4> QED
          BY <1>0, <1>1, <4>1, <4>2, <4>3 DEF MatchIsMutual, IsMirror
      <3> QED
        BY <3>1, <3>2
    <2>2. CASE ~PublishMatch(i)
      <3>1. UNCHANGED matches
        BY <2>2 DEF AcceptLock, ReadMirror, PublishFails, AcceptCrashes
      <3> QED
        BY <1>4, <3>1, MatchesStand
    <2> QED
      BY <2>1, <2>2
  <1>8. \A j \in InviteIds : answer'[j].at # "idle" => invite[j].status # "none"
    BY <1>0, <1>2, <1>3 DEF RowsBelong
  <1> QED
    BY <1>0, <1>1, <1>3, <1>4, <1>5, <1>6, <1>7, <1>8, AnswersMove DEF InviteTypes

LEMMA AcceptCommitStep ==
    ASSUME InviteInv, NEW i \in InviteIds, AcceptCommit(i)
    PROVE  InviteInv'
  <1>0. InviteTypes /\ LockHolds /\ MirrorsStand /\ RowsBelong
    BY DEF InviteInv
  <1>1. UNCHANGED <<clock, quota, send, matches>> /\ answer[i].at = "commit"
    BY DEF AcceptCommit
  <1>2. PICK r, q : r = [invite[i] EXCEPT !.status = "accepted"] /\ q = [answer[i] EXCEPT !.at = "publish"]
    OBVIOUS
  <1>3. /\ r \in InviteRow /\ r.status = "accepted" /\ r.from = invite[i].from /\ r.to = invite[i].to
        /\ r.key = invite[i].key
    <2>1. invite[i] \in InviteRow
      BY <1>0 DEF InviteTypes
    <2> QED
      BY <1>2, <2>1 DEF InviteRow, Terminal
  <1>4. q \in AnswerRow /\ q.at = "publish" /\ q.mirror = answer[i].mirror
    <2>1. answer[i] \in AnswerRow
      BY <1>0 DEF InviteTypes
    <2> QED
      BY <1>2, <2>1 DEF AnswerRow
  <1>5. invite' = [invite EXCEPT ![i] = r] /\ answer' = [answer EXCEPT ![i] = q]
    BY <1>2 DEF AcceptCommit
  <1>6. /\ invite' \in [InviteIds -> InviteRow] /\ invite'[i] = r
        /\ \A j \in InviteIds \ {i} : invite'[j] = invite[j]
        /\ answer' \in [InviteIds -> AnswerRow] /\ answer'[i] = q
        /\ \A j \in InviteIds \ {i} : answer'[j] = answer[j]
    BY <1>0, <1>3, <1>4, <1>5 DEF InviteTypes
  <1>7. invite[i].status = "pending"
    BY <1>0, <1>1 DEF LockHolds
  <1>8. InvitesKept
    BY <1>3, <1>6, <1>7 DEF InvitesKept
  <1>9. LockHolds'
    BY <1>0, <1>3, <1>4, <1>6 DEF LockHolds
  <1>10. MirrorsStand'
    <2> SUFFICES ASSUME NEW k \in InviteIds, answer'[k].at \in {"commit", "publish"},
                        NEW j \in answer'[k].mirror
                 PROVE  IsMirror(k, j)'
      BY DEF MirrorsStand
    <2>1. answer[k].at \in {"commit", "publish"} /\ answer'[k].mirror = answer[k].mirror
      BY <1>1, <1>4, <1>6
    <2>2. IsMirror(k, j) /\ j \in InviteIds
      BY <1>0, <2>1 DEF MirrorsStand, InviteTypes, AnswerRow
    <2> QED
      BY <1>8, <2>2 DEF IsMirror, InvitesKept
  <1>11. MatchIsMutual'
    BY <1>1, <1>8, MatchesStand
  <1>12. \A j \in InviteIds : answer'[j].at # "idle" => invite[j].status # "none"
    BY <1>0, <1>6, <1>7 DEF RowsBelong
  <1> QED
    BY <1>1, <1>6, <1>8, <1>9, <1>10, <1>11, <1>12, AnswersMove

\* The request's row is inserted: nothing has been admitted or accepted anew.
LEMMA InsertStep ==
    ASSUME InviteInv, NEW i \in InviteIds, Insert(i)
    PROVE  InviteInv'
  <1>0. /\ InviteTypes /\ RowsBelong /\ LockHolds /\ MirrorsStand /\ MatchIsMutual
        /\ AdmittedIsCounted /\ CountedWithin
    BY DEF InviteInv
  <1>1. /\ UNCHANGED <<clock, quota, answer, matches>> /\ send[i].at = "insert"
        /\ SendTo(i, "cache")
    BY DEF Insert
  <1>2. PICK k : k = StoredKey(i)
    OBVIOUS
  <1>3. k \in ClientKeys \cup {"none"}
    BY <1>2 DEF StoredKey
  <1>4. PICK r : r = [from |-> send[i].from, to |-> send[i].to, status |-> "pending",
                      key |-> k, created |-> clock]
    OBVIOUS
  <1>5. /\ r \in InviteRow /\ r.status = "pending" /\ r.from = send[i].from /\ r.key = k
        /\ r.from \in Profiles
    <2>1. send[i] \in SendRow(send[i].key) /\ send[i].from \in Profiles /\ clock \in Nat
      BY <1>0, <1>1 DEF InviteTypes, RowsBelong
    <2> QED
      BY <1>3, <1>4, <2>1 DEF InviteRow, SendRow
  <1>6. /\ invite' \in [InviteIds -> InviteRow] /\ invite'[i] = r
        /\ \A j \in InviteIds \ {i} : invite'[j] = invite[j]
    <2>1. invite' = [invite EXCEPT ![i] = r]
      BY <1>2, <1>4 DEF Insert
    <2> QED
      BY <1>0, <1>5, <2>1 DEF InviteTypes
  <1>7. "cache" \in SendAts
    BY DEF SendAts
  <1>8. /\ send' = [j \in InviteIds |-> send'[j]]
        /\ \A j \in InviteIds : send'[j] \in SendRow(send'[j].key)
        /\ \A j \in InviteIds \ {i} : send'[j] = send[j]
        /\ \A j \in InviteIds : send'[j].from = send[j].from /\ send'[j].now = send[j].now
        /\ send'[i].at = "cache"
    BY <1>0, <1>1, <1>7, SendMoved
  <1>9. invite[i].status = "none" /\ answer[i].at = "idle"
    BY <1>0, <1>1 DEF RowsBelong
  <1>10. InviteTypes'
    BY <1>0, <1>1, <1>6, <1>8 DEF InviteTypes
  <1>11. RowsBelong'
    <2> SUFFICES ASSUME NEW j \in InviteIds
                 PROVE  /\ invite'[j].status # "none" =>
                              send'[j].at \in {"cache", "done"} /\ invite'[j].from = send'[j].from
                        /\ invite'[j].status = "none" => invite'[j] = NoInvite
                        /\ send'[j].at \notin {"idle", "done"} => send'[j].from \in Profiles
                        /\ invite'[j].status # "none" => invite'[j].from \in Profiles
                        /\ answer'[j].at # "idle" => invite'[j].status # "none"
      BY DEF RowsBelong
    <2>1. CASE j = i
      BY <1>5, <1>6, <1>8, <2>1
    <2>2. CASE j # i
      BY <1>0, <1>1, <1>6, <1>8, <2>2 DEF RowsBelong
    <2> QED
      BY <2>1, <2>2
  <1>12. LockHolds'
    BY <1>0, <1>1, <1>6, <1>9 DEF LockHolds
  <1>13. MirrorsStand'
    <2> SUFFICES ASSUME NEW x \in InviteIds, answer[x].at \in {"commit", "publish"},
                        NEW j \in answer[x].mirror
                 PROVE  IsMirror(x, j)'
      BY <1>1 DEF MirrorsStand
    <2>1. IsMirror(x, j) /\ j \in InviteIds /\ x # i
      BY <1>0, <1>9 DEF MirrorsStand, InviteTypes, AnswerRow
    <2>2. j # i
      BY <1>9, <2>1 DEF IsMirror
    <2> QED
      BY <1>6, <2>1, <2>2 DEF IsMirror
  <1>14. MatchIsMutual'
    BY <1>0, <1>1, <1>6, <1>9 DEF MatchIsMutual
  <1>16. AdmittedIsCounted'
    <2> SUFFICES ASSUME NEW j \in InviteIds, Admitted(j)', send[j].now > clock - Week
                 PROVE  [id |-> j, at |-> send[j].now] \in quota[send[j].from]
      BY <1>1, <1>8 DEF AdmittedIsCounted
    <2>1. Admitted(j)
      BY <1>1, <1>6, <1>8 DEF Admitted
    <2> QED
      BY <1>0, <2>1 DEF AdmittedIsCounted
  <1>17. CountedWithin'
    BY <1>0, <1>1 DEF CountedWithin, InWindow
  <1> QED
    BY <1>10, <1>11, <1>12, <1>13, <1>14, <1>16, <1>17 DEF InviteInv

-----------------------------------------------------------------------------
(* The invariant holds in every reachable state *)

LEMMA InitInvite == Init => InviteInv
  <1> SUFFICES ASSUME Init PROVE InviteInv
    OBVIOUS
  <1>1. /\ \A i \in InviteIds : /\ invite[i] = NoInvite /\ send[i] = NoSend /\ answer[i] = NoAnswer
        /\ \A p \in Profiles : quota[p] = {}
    BY DEF Init
  <1>2. InviteTypes
    <2>1. NoInvite \in InviteRow /\ NoSend \in SendRow(NoSend.key) /\ NoAnswer \in AnswerRow
      BY DEF NoInvite, InviteRow, NoSend, SendRow, SendAts, NoAnswer, AnswerRow
    <2> QED
      BY <1>1, <2>1, FS_EmptySet DEF Init, InviteTypes
  <1>3. RowsBelong /\ LockHolds /\ MirrorsStand
    BY <1>1 DEF RowsBelong, LockHolds, MirrorsStand, NoInvite, NoSend, NoAnswer
  <1>4. MatchIsMutual
    BY DEF Init, MatchIsMutual
  <1>5. AdmittedIsCounted
    BY <1>1, InviteAssumption DEF AdmittedIsCounted, Admitted, NoInvite, NoSend
  <1>6. CountedWithin
    <2> SUFFICES ASSUME NEW p \in Profiles PROVE Cardinality(InWindow(p)) <= Limit(p)
      BY DEF CountedWithin
    <2>1. InWindow(p) = {}
      BY <1>1 DEF InWindow
    <2>2. Limit(p) \in Int /\ Limit(p) >= 0
      BY InviteAssumption DEF Limit
    <2> QED
      BY <2>1, <2>2, FS_EmptySet
  <1> QED
    BY <1>2, <1>3, <1>4, <1>5, <1>6 DEF InviteInv

LEMMA InviteStep == InviteInv /\ [Next]_vars => InviteInv'
  <1> SUFFICES ASSUME InviteInv, [Next]_vars PROVE InviteInv'
    OBVIOUS
  <1>1. CASE Tick \/ CreateBlock \/ RemoveBlock \/ UNCHANGED vars
    BY <1>1, OutsideStep
  <1>2. CASE Expire \/ \E i \in InviteIds : Reject(i) \/ Cancel(i)
    BY <1>2, CloseStep
  <1>3. ASSUME NEW i \in InviteIds, SendStart(i) \/ SendStep(i) \/ SendCrashes(i)
        PROVE  InviteInv'
    BY <1>3, SendStartStep, SendSteps, CheckQuotaStep, InsertStep DEF SendStep
  <1>4. ASSUME NEW i \in InviteIds, AcceptLock(i) \/ AcceptStep(i) \/ AcceptCrashes(i)
        PROVE  InviteInv'
    BY <1>4, AnswerStep, AcceptCommitStep DEF AcceptStep
  <1> QED
    BY <1>1, <1>2, <1>3, <1>4 DEF Next

\* Every request's local data, the event queue and the counted quota slots agree
\* with the rows, whatever sends, answers, expiries and crashes come between
\* (routers/invites.py, workers/ttl_tasks.py).
THEOREM InviteInvariant == Spec => []InviteInv
  <1> QED
    BY InitInvite, InviteStep, PTL DEF Spec

\* match.created only goes out for two profiles that have each accepted an
\* invite of the other, whatever answers, expiries and crashes come between
\* the row lock, the look for the mirror and the publication.
THEOREM MatchNeedsBoth == Spec => []MatchIsMutual
  <1>1. InviteInv => MatchIsMutual
    BY DEF InviteInv
  <1> QED
    BY <1>1, InviteInvariant, PTL

\* The rolling quota: no sender has more invites admitted within one week than
\* the larger of the limits that could apply, however many requests run at
\* once and whatever they do after the script has counted them.
THEOREM QuotaHolds == Spec => []WithinQuota
  <1>1. InviteInv => WithinQuota
    <2> SUFFICES ASSUME InviteInv, NEW p \in Profiles
                 PROVE  Cardinality({i \in InviteIds : invite[i].from = p /\ send[i].now > clock - Week})
                           <= Limit(p)
      BY DEF WithinQuota, Limit
    <2> DEFINE S == {i \in InviteIds : invite[i].from = p /\ send[i].now > clock - Week}
               f == [i \in S |-> [id |-> i, at |-> send[i].now]]
    <2>1. ASSUME NEW i \in S
          PROVE  [id |-> i, at |-> send[i].now] \in InWindow(p)
      <3>1. invite[i].status # "none"
        BY InviteAssumption DEF InviteInv, RowsBelong, NoInvite
      <3>2. p = send[i].from /\ Admitted(i)
        BY <3>1 DEF InviteInv, RowsBelong, Admitted
      <3> QED
        BY <3>2 DEF InviteInv, AdmittedIsCounted, InWindow
    <2>2. f \in [S -> InWindow(p)]
      BY <2>1
    <2>3. \A x, y \in S : f[x] = f[y] => x = y
      OBVIOUS
    <2>4. f \in Injection(S, InWindow(p))
      BY <2>2, <2>3 DEF Injection, IsInjective
    <2>5. IsFiniteSet(InWindow(p))
      <3>1. IsFiniteSet(quota[p]) /\ InWindow(p) \subseteq quota[p]
        BY DEF InviteInv, InviteTypes, InWindow
      <3> QED
        BY <3>1, FS_Subset
    <2>6. IsFiniteSet(S) /\ Cardinality(S) <= Cardinality(InWindow(p))
      <3> HIDE DEF f, S
      <3> QED
        BY <2>4, <2>5, FS_Injection
    <2>7. Cardinality(S) \in Nat /\ Cardinality(InWindow(p)) \in Nat
      BY <2>5, <2>6, FS_CardinalityType
    <2>8. Cardinality(InWindow(p)) <= Limit(p) /\ Limit(p) \in Int
      BY InviteAssumption DEF InviteInv, CountedWithin, Limit
    <2> QED
      BY <2>6, <2>7, <2>8
  <1> QED
    BY <1>1, InviteInvariant, PTL

\* Whoever closes an invite finds it pending: the row lock is held, or the
\* row was looked at in the statement that changes it.
LEMMA TerminalStays ==
    ASSUME InviteInv, [Next]_vars, NEW i \in InviteIds, invite[i].status \in Terminal
    PROVE  invite'[i] = invite[i]
  <1>0. /\ invite \in [InviteIds -> InviteRow] /\ invite[i].status \notin {"none", "pending"}
    BY DEF InviteInv, InviteTypes, Terminal
  <1>1. ASSUME NEW j \in InviteIds, Insert(j) PROVE invite'[i] = invite[i]
    <2>1. invite[j].status = "none"
      BY <1>1 DEF Insert, InviteInv, RowsBelong
    <2> QED
      BY <1>0, <1>1, <2>1 DEF Insert
  <1>2. ASSUME NEW j \in InviteIds, AcceptCommit(j) \/ Reject(j) \/ Cancel(j)
        PROVE  invite'[i] = invite[i]
    <2>1. invite[j].status = "pending"
      BY <1>2 DEF AcceptCommit, Reject, Cancel, InviteInv, LockHolds
    <2> QED
      BY <1>0, <1>2, <2>1 DEF AcceptCommit, Reject, Cancel, Close
  <1>3. CASE Expire
    BY <1>0, <1>3 DEF Expire, Stale
  <1>4. CASE Tick \/ CreateBlock \/ RemoveBlock \/ UNCHANGED vars
    BY <1>4 DEF Tick, CreateBlock, RemoveBlock, vars
  <1>5. ASSUME NEW j \in InviteIds, SendStart(j) \/ SendCrashes(j) \/ (SendStep(j) /\ ~Insert(j))
        PROVE  invite'[i] = invite[i]
    BY <1>5 DEF SendStart, SendCrashes, SendStep, Dedup, CheckQuota, QuotaExceeded, Flagged, Scanned,
       InsertConflict, CacheResponse, Replay
  <1>6. ASSUME NEW j \in InviteIds,
               AcceptLock(j) \/ AcceptCrashes(j) \/ (AcceptStep(j) /\ ~AcceptCommit(j))
        PROVE  invite'[i] = invite[i]
    BY <1>6 DEF AcceptLock, AcceptCrashes, AcceptStep, ReadMirror, PublishMatch, PublishFails
  <1> QED
    BY <1>1, <1>2, <1>3, <1>4, <1>5, <1>6 DEF Next

\* "pending -> accepted | rejected | expired | cancelled ... Rows are NEVER
\* deleted": an invite is answered once, however its two sides and the hourly
\* job race.
THEOREM AnswerIsFinal == Spec => AnsweredOnce
  <1>1. InviteInv /\ [Next]_vars =>
           [\A i \in InviteIds : invite[i].status \in Terminal => invite'[i] = invite[i]]_vars
    BY TerminalStays
  <1> QED
    BY <1>1, InviteInvariant, PTL DEF Spec, AnsweredOnce

===============================================================================
