---------------------------- MODULE LedgerProofs ----------------------------
(***************************************************************************)
(* SupplyChain implements CustodyLedger, keeps workspaces apart, and what  *)
(* is told of the ledger outside of it is true: the audit entries written  *)
(* with the rows, and the pushes made after the commit.  Each follows from *)
(* the locking invariant of SupplyChainProofs and one more invariant.      *)
(***************************************************************************)
EXTENDS SupplyChainProofs

-----------------------------------------------------------------------------
(* The abstract ledger *)

\* What the ledger keeps of a chain.
Entry(e) == [stage |-> e.stage, actorId |-> e.actorId]
Entries(evs) == [i \in 1..Len(evs) |-> Entry(evs[i])]

LEMMA EntriesAppend ==
  ASSUME NEW evs \in Seq(TraceEvents), NEW e \in TraceEvents
  PROVE  Entries(Append(evs, e)) = Append(Entries(evs), Entry(e))
<1> DEFINE S == {Entry(x) : x \in TraceEvents}
<1>1. /\ Len(evs) \in Nat /\ Len(Append(evs, e)) = Len(evs) + 1
      /\ Append(evs, e)[Len(evs) + 1] = e
      /\ \A i \in 1..Len(evs) : Append(evs, e)[i] = evs[i] /\ evs[i] \in TraceEvents
  OBVIOUS
<1>2. Entry(e) \in S /\ \A i \in 1..Len(evs) : Entry(evs[i]) \in S
  BY <1>1
<1> HIDE DEF S
<1>3. Entries(evs) \in Seq(S) /\ Len(Entries(evs)) = Len(evs)
      /\ \A i \in 1..Len(evs) : Entries(evs)[i] = Entry(evs[i])
  <2>1. Entries(evs) \in [1..Len(evs) -> S]
    BY <1>1, <1>2 DEF Entries
  <2> QED BY <1>1, <2>1 DEF Entries
<1>4. /\ Append(Entries(evs), Entry(e)) \in Seq(S)
      /\ Len(Append(Entries(evs), Entry(e))) = Len(evs) + 1
      /\ Append(Entries(evs), Entry(e))[Len(evs) + 1] = Entry(e)
      /\ \A i \in 1..Len(evs) : Append(Entries(evs), Entry(e))[i] = Entry(evs[i])
  BY <1>1, <1>2, <1>3
<1>5. Append(Entries(evs), Entry(e)) \in [1..(Len(evs) + 1) -> S]
  <2>1. ASSUME NEW q \in Seq(S) PROVE q \in [1..Len(q) -> S]
    BY <2>1
  <2> QED BY <1>4, <2>1
<1>6. Entries(Append(evs, e)) = [i \in 1..(Len(evs) + 1) |-> Entry(Append(evs, e)[i])]
  BY <1>1 DEF Entries
<1>7. \A i \in 1..(Len(evs) + 1) : Append(Entries(evs), Entry(e))[i] = Entry(Append(evs, e)[i])
  <2>1. \A i \in 1..(Len(evs) + 1) : i \in 1..Len(evs) \/ i = Len(evs) + 1
    BY <1>1
  <2> QED BY <1>1, <1>4, <2>1
<1> QED BY <1>5, <1>6, <1>7

-----------------------------------------------------------------------------
(* Who was authenticated as ADMIN is an overrider *)

AdminsKnown ==
  /\ \A a \in Actors : actors[a].role = "ADMIN" => a \in MayBeAdmin
  /\ \A r \in Requests : pc[r] # "idle" /\ dto[r].role = "ADMIN" => dto[r].actorId \in MayBeAdmin

LEMMA AdminsStart == Init => AdminsKnown
  BY DEF Init, AdminsKnown, MayBeAdmin

LEMMA AdminsStep ==
  ASSUME Typing, AdminsKnown, [Next]_vars
  PROVE  AdminsKnown'
<1>1. ASSUME UNCHANGED actors, NEW r \in Requests,
             \A s \in Requests : s # r => pc'[s] = pc[s] /\ dto'[s] = dto[s],
             pc'[r] = "idle" \/ (pc[r] # "idle" /\ dto'[r] = dto[r])
      PROVE  AdminsKnown'
  BY <1>1 DEF AdminsKnown
<1>2. CASE UNCHANGED <<actors, pc, dto>>
  BY <1>2 DEF AdminsKnown
<1>3. ASSUME NEW r \in Requests, Forget(r), UNCHANGED actors PROVE AdminsKnown'
  BY <1>1, <1>3 DEF Forget, Typing, TypeOK
<1>4. ASSUME NEW r \in Requests, Rollback(r) PROVE AdminsKnown'
  BY <1>3, <1>4 DEF Rollback
<1>5. ASSUME NEW r \in Requests, pc[r] # "idle", NEW at, pc' = [pc EXCEPT ![r] = at], UNCHANGED <<actors, dto>>
      PROVE  AdminsKnown'
  BY <1>1, <1>5 DEF Typing, TypeOK
<1>6. ASSUME NEW r \in Requests, Step(r) \/ Interrupted(r) PROVE AdminsKnown'
  <2>1. CASE Rollback(r) \/ EmitAnomalies(r) \/ EmitRecall(r)
    BY <1>3, <1>4, <2>1 DEF EmitAnomalies, EmitRecall
  <2>2. CASE ~Rollback(r) /\ (LockBatch(r) \/ HandOff(r) \/ InsertEvent(r) \/ StoreAnomalies(r) \/ AdvanceStage(r))
    <3>1. pc[r] # "idle" /\ UNCHANGED <<actors, dto>> /\ \E at : pc' = [pc EXCEPT ![r] = at]
      BY <2>2 DEF LockBatch, HandOff, InsertEvent, StoreAnomalies, AdvanceStage
    <3> QED BY <1>5, <3>1
  <2>3. CASE ~Rollback(r) /\ (CommitRecord(r) \/ MarkRecalled(r) \/ CommitRecall(r))
    <3>1. pc[r] # "idle" /\ UNCHANGED <<actors, dto>> /\ \E at : pc' = [pc EXCEPT ![r] = at]
      BY <2>3 DEF CommitRecord, MarkRecalled, CommitRecall, Committed
    <3> QED BY <1>5, <3>1
  <2> QED BY <1>6, <2>1, <2>2, <2>3 DEF Step, Interrupted
<1>7. ASSUME NEW r \in Requests, NEW a \in Actors, NEW b, NEW stage, NEW next, NEW at,
             Begin(r, a, b, stage, next, at)
      PROVE  AdminsKnown'
  <2>1. /\ dto'[r].actorId = a /\ dto'[r].role = actors[a].role /\ UNCHANGED actors
        /\ \A s \in Requests : s # r => dto'[s] = dto[s] /\ pc'[s] = pc[s]
    BY <1>7 DEF Begin, Typing, TypeOK
  <2> QED BY <2>1 DEF AdminsKnown
<1>8. CASE Arrival
  <2>1. CASE \E a \in Actors, b \in Batches : CreateBatch(a, b)
    BY <1>2, <2>1 DEF CreateBatch, scratch
  <2>2. ASSUME NEW r \in Requests, NEW a \in Actors, NEW b \in Batches,
               \/ \E stage \in DtoStages, next \in ActorRefs : RequestRecord(r, a, b, stage, next)
               \/ RequestRecall(r, a, b)
        PROVE  AdminsKnown'
    BY <1>7, <2>2 DEF RequestRecord, RequestRecall
  <2>3. ASSUME NEW adm \in Actors, NEW t \in ManagedActors, NEW on \in BOOLEAN, SetActorStatus(adm, t, on)
        PROVE  AdminsKnown'
    <3>1. /\ UNCHANGED <<pc, dto>> /\ t \in Actors
          /\ \A a \in Actors : actors'[a].role = actors[a].role
      BY <2>3, ActorAssumption DEF SetActorStatus, scratch, Typing, TypeOK, ActorRows
    <3> QED BY <3>1 DEF AdminsKnown
  <2>4. ASSUME NEW adm \in Actors, NEW t \in ManagedActors, NEW role \in GivenRoles, SetActorRole(adm, t, role)
        PROVE  AdminsKnown'
    <3>1. /\ UNCHANGED <<pc, dto>> /\ t \in Actors /\ actors'[t].role = role
          /\ \A a \in Actors : a # t => actors'[a] = actors[a]
      BY <2>4, ActorAssumption DEF SetActorRole, scratch, Typing, TypeOK, ActorRows
    <3> QED BY <3>1 DEF AdminsKnown, MayBeAdmin
  <2> QED BY <1>8, <2>1, <2>2, <2>3, <2>4 DEF Arrival
<1>9. CASE UNCHANGED vars
  BY <1>2, <1>9 DEF vars, scratch
<1> QED BY <1>6, <1>8, <1>9 DEF Next

-----------------------------------------------------------------------------
(* The refinement *)

LEMMA LedgerStart == Init => Ledger!Init
<1> SUFFICES ASSUME Init PROVE Ledger!Init
  OBVIOUS
<1>1. \A b \in Batches : /\ batches[b].createdBy = NoActor /\ batches[b].currentStage = NotStarted
                         /\ batches[b].assignedTo = NoActor /\ batches[b].isRecalled = FALSE
                         /\ events[b] = << >>
  BY DEF Init, NoRow
<1>2. \A b \in Batches : Entries(events[b]) = << >>
  BY <1>1 DEF Entries
<1>3. [b \in Batches |-> Entries(events[b])] = [b \in Batches |-> << >>]
  BY <1>2
<1>4. /\ [b \in Batches |-> batches[b].createdBy] = [b \in Batches |-> NoActor]
      /\ [b \in Batches |-> batches[b].currentStage] = [b \in Batches |-> NotStarted]
      /\ [b \in Batches |-> batches[b].assignedTo] = [b \in Batches |-> NoActor]
      /\ [b \in Batches |-> batches[b].isRecalled] = [b \in Batches |-> FALSE]
  BY <1>1
<1> QED BY <1>3, <1>4 DEF Ledger!Init, Entries, Entry, Ledger!NotStarted, NotStarted

LEMMA CreateOpens ==
  ASSUME Typing, TransactionsIsolated, NEW a \in Actors, NEW b \in Batches, CreateBatch(a, b)
  PROVE  Ledger!Open(b, a)
<1>1. batches[b] = NoRow /\ events[b] = << >>
  BY DEF CreateBatch, TransactionsIsolated, BatchInv
<1>2. /\ batches' = [batches EXCEPT ![b] = [NoRow EXCEPT !.createdBy = a, !.assignedTo = a]]
      /\ events' = events
  BY DEF CreateBatch
<1>3. /\ \A c \in Batches : c # b => batches'[c] = batches[c]
      /\ batches'[b] = [NoRow EXCEPT !.createdBy = a, !.assignedTo = a]
  BY <1>2 DEF Typing, TypeOK
<1>4. /\ batches'[b].createdBy = a /\ batches'[b].assignedTo = a
      /\ batches'[b].currentStage = batches[b].currentStage
      /\ batches'[b].isRecalled = batches[b].isRecalled /\ batches[b].createdBy = NoActor
  BY <1>1, <1>3 DEF NoRow
<1>5. [c \in Batches |-> batches[c].createdBy][b] = NoActor
  BY <1>4
<1>6. \A c \in Batches : /\ batches'[c].createdBy = IF c = b THEN a ELSE batches[c].createdBy
                         /\ batches'[c].assignedTo = IF c = b THEN a ELSE batches[c].assignedTo
                         /\ batches'[c].currentStage = batches[c].currentStage
                         /\ batches'[c].isRecalled = batches[c].isRecalled
  BY <1>3, <1>4
<1>7. [c \in Batches |-> batches'[c].createdBy] = [[c \in Batches |-> batches[c].createdBy] EXCEPT ![b] = a]
  BY <1>6
<1>8. [c \in Batches |-> batches'[c].assignedTo] = [[c \in Batches |-> batches[c].assignedTo] EXCEPT ![b] = a]
  BY <1>6
<1>9. /\ [c \in Batches |-> batches'[c].currentStage] = [c \in Batches |-> batches[c].currentStage]
      /\ [c \in Batches |-> batches'[c].isRecalled] = [c \in Batches |-> batches[c].isRecalled]
  BY <1>6
<1> QED BY <1>2, <1>5, <1>7, <1>8, <1>9 DEF Ledger!Open

LEMMA CommitRecords ==
  ASSUME Typing, TransactionsIsolated, AdminsKnown, NEW r \in Requests, CommitRecord(r)
  PROVE  \E b \in Batches : \E a \in Actors, stage \in Stages, next \in ActorRefs : Ledger!Record(b, a, stage, next)
<1>1. PICK b \in Batches, e \in TraceEvents : b = dto[r].batch /\ e = draft[r]
  BY CommittedEvent
<1>2. /\ seen[r] = batches[b] /\ Exists(b) /\ ~batches[b].isRecalled
      /\ HasCustody(dto[r], batches[b])
      /\ e.stage = dto[r].stage /\ e.actorId = dto[r].actorId
      /\ events' = [events EXCEPT ![b] = Append(@, e)]
      /\ batches' = [batches EXCEPT ![b] = mine[r]]
      /\ mine[r].createdBy = batches[b].createdBy
      /\ mine[r].isRecalled = FALSE
      /\ mine[r].currentStage = IF IsAdvancing(r) THEN e.stage ELSE batches[b].currentStage
      /\ mine[r].assignedTo = IF IsAdvancing(r) THEN nextAssignee[r] ELSE batches[b].assignedTo
  BY <1>1, CommittedEvent
<1>3. PICK next : next = nextAssignee[r]
  OBVIOUS
<1>4. /\ next \in ActorRefs /\ next = ResolvedAssignee(r) /\ pc[r] = "record_commit"
      /\ batches[b] \in BatchRows /\ events[b] \in Seq(TraceEvents)
      /\ e.stage \in Stages /\ e.actorId \in Actors
  BY <1>1, <1>3 DEF Typing, TypeOK, CommitRecord, TransactionsIsolated, RequestInv, DraftIsNext, HasEvent, TraceEvents
<1>5. /\ \A c \in Batches : c # b => batches'[c] = batches[c] /\ events'[c] = events[c]
      /\ batches'[b] = mine[r] /\ events'[b] = Append(events[b], e)
  BY <1>2 DEF Typing, TypeOK
<1>6. Entries(events'[b]) = Append(Entries(events[b]), Entry(e))
  BY <1>4, <1>5, EntriesAppend
<1>7. e.actorId \in MayBeAdmin \/ batches[b].assignedTo \in {NoActor, e.actorId}
  BY <1>2, <1>4 DEF HasCustody, AdminsKnown
<1>8. e.stage = TerminalStage /\ IsAdvancing(r) => next = NoActor
  BY <1>2, <1>4 DEF ResolvedAssignee, IsTerminal
<1>9. IsAdvancing(r) <=> e.stage > batches[b].currentStage
  BY <1>2 DEF IsAdvancing
<1>10. e.stage \in Int /\ batches[b].currentStage \in Int
  BY <1>4, StageTypes DEF BatchRows
<1>11. Ledger!Record(b, e.actorId, e.stage, next)
  <2>1. /\ [c \in Batches |-> batches[c].createdBy][b] # NoActor
        /\ ~[c \in Batches |-> batches[c].isRecalled][b]
    BY <1>2 DEF Exists
  <2>2. Ledger!MayRecord(b, e.actorId)
    BY <1>7 DEF Ledger!MayRecord
  <2>3. [c \in Batches |-> Entries(events'[c])]
          = [[c \in Batches |-> Entries(events[c])] EXCEPT ![b] = Append(@, Entry(e))]
    BY <1>5, <1>6
  <2>4. /\ [c \in Batches |-> batches'[c].createdBy] = [c \in Batches |-> batches[c].createdBy]
        /\ [c \in Batches |-> batches'[c].isRecalled] = [c \in Batches |-> batches[c].isRecalled]
    <3>1. batches[b].isRecalled = FALSE
      BY <1>2, <1>4 DEF BatchRows
    <3>2. \A c \in Batches : /\ batches'[c].createdBy = batches[c].createdBy
                             /\ batches'[c].isRecalled = batches[c].isRecalled
      BY <1>2, <1>5, <3>1
    <3> QED BY <3>2
  <2>5. CASE IsAdvancing(r)
    <3>1. \A c \in Batches : /\ batches'[c].currentStage = IF c = b THEN e.stage ELSE batches[c].currentStage
                             /\ batches'[c].assignedTo = IF c = b THEN next ELSE batches[c].assignedTo
      BY <1>2, <1>5, <1>3, <2>5
    <3>2. [c \in Batches |-> batches'[c].currentStage]
            = [[c \in Batches |-> batches[c].currentStage] EXCEPT ![b] = e.stage]
      BY <3>1
    <3>3. [c \in Batches |-> batches'[c].assignedTo]
            = [[c \in Batches |-> batches[c].assignedTo] EXCEPT ![b] = next]
      BY <3>1
    <3>4. e.stage > [c \in Batches |-> batches[c].currentStage][b]
      BY <1>9, <2>5
    <3>5. e.stage = Ledger!TerminalStage => next = NoActor
      BY <1>8, <2>5 DEF Ledger!TerminalStage, TerminalStage, Ledger!RETAIL, RETAIL
    <3>6. Ledger!Advance(b, e.stage, next)
      BY <3>2, <3>3, <3>4, <3>5 DEF Ledger!Advance
    <3> QED BY <2>1, <2>2, <2>3, <2>4, <3>6 DEF Ledger!Record, Entries, Entry
  <2>6. CASE ~IsAdvancing(r)
    <3>1. \A c \in Batches : /\ batches'[c].currentStage = batches[c].currentStage
                             /\ batches'[c].assignedTo = batches[c].assignedTo
      BY <1>2, <1>5, <2>6
    <3>2. /\ [c \in Batches |-> batches'[c].currentStage] = [c \in Batches |-> batches[c].currentStage]
          /\ [c \in Batches |-> batches'[c].assignedTo] = [c \in Batches |-> batches[c].assignedTo]
      BY <3>1
    <3>3. e.stage <= [c \in Batches |-> batches[c].currentStage][b]
      BY <1>9, <1>10, <2>6
    <3>4. Ledger!Backfill(b, e.actorId, e.stage)
      BY <3>2, <3>3 DEF Ledger!Backfill
    <3> QED BY <2>1, <2>2, <2>3, <2>4, <3>4 DEF Ledger!Record, Entries, Entry
  <2> QED BY <2>5, <2>6
<1>12. b \in Batches /\ e.actorId \in Actors /\ e.stage \in Stages /\ next \in ActorRefs
  BY <1>4
<1> QED BY <1>11, <1>12

LEMMA CommitRecalls ==
  ASSUME Typing, TransactionsIsolated, NEW r \in Requests, CommitRecall(r)
  PROVE  \E b \in Batches : Ledger!Recall(b)
<1>1. PICK b \in Batches :
        /\ Exists(b) /\ ~batches[b].isRecalled /\ events' = events
        /\ batches' = [batches EXCEPT ![b] = [@ EXCEPT !.isRecalled = TRUE]]
  BY CommittedRecall
<1>2. batches[b] \in BatchRows
  BY DEF Typing, TypeOK
<1>3. /\ \A c \in Batches : c # b => batches'[c] = batches[c]
      /\ batches'[b].isRecalled = TRUE /\ batches'[b].createdBy = batches[b].createdBy
      /\ batches'[b].currentStage = batches[b].currentStage /\ batches'[b].assignedTo = batches[b].assignedTo
  BY <1>1, <1>2 DEF Typing, TypeOK, BatchRows
<1>4. \A c \in Batches : /\ batches'[c].isRecalled = IF c = b THEN TRUE ELSE batches[c].isRecalled
                         /\ batches'[c].createdBy = batches[c].createdBy
                         /\ batches'[c].currentStage = batches[c].currentStage
                         /\ batches'[c].assignedTo = batches[c].assignedTo
  BY <1>3
<1>5. [c \in Batches |-> batches'[c].isRecalled] = [[c \in Batches |-> batches[c].isRecalled] EXCEPT ![b] = TRUE]
  BY <1>4
<1>6. /\ [c \in Batches |-> batches'[c].createdBy] = [c \in Batches |-> batches[c].createdBy]
      /\ [c \in Batches |-> batches'[c].currentStage] = [c \in Batches |-> batches[c].currentStage]
      /\ [c \in Batches |-> batches'[c].assignedTo] = [c \in Batches |-> batches[c].assignedTo]
  BY <1>4
<1>7. [c \in Batches |-> batches[c].createdBy][b] # NoActor /\ ~[c \in Batches |-> batches[c].isRecalled][b]
  BY <1>1 DEF Exists
<1>8. Ledger!Recall(b)
  BY <1>1, <1>5, <1>6, <1>7 DEF Ledger!Recall
<1> QED BY <1>8

LEMMA LedgerStep ==
  ASSUME Typing, TransactionsIsolated, AdminsKnown, [Next]_vars
  PROVE  [Ledger!Next]_(Ledger!vars)
<1>1. CASE \E b \in Batches : ~BatchUntouched(b)
  <2>1. PICK b \in Batches : ~BatchUntouched(b)
    BY <1>1
  <2>2. CASE \E a \in Actors : CreateBatch(a, b)
    BY <2>2, CreateOpens DEF Ledger!Next
  <2>3. CASE \E r \in Requests : CommitRecord(r)
    <3>1. \E c \in Batches : \E a \in Actors, stage \in Ledger!Stages, next \in Actors \cup {NoActor} :
            Ledger!Record(c, a, stage, next)
      BY <2>3, CommitRecords DEF ActorRefs, Stages, Ledger!Stages, HARVEST, RETAIL, Ledger!HARVEST, Ledger!RETAIL
    <3> QED BY <3>1 DEF Ledger!Next
  <2>4. CASE \E r \in Requests : CommitRecall(r)
    BY <2>4, CommitRecalls DEF Ledger!Next
  <2> QED BY <2>1, <2>2, <2>3, <2>4, WhoTouchesABatch
<1>2. CASE \A b \in Batches : BatchUntouched(b)
  BY <1>2 DEF BatchUntouched, Ledger!vars
<1> QED BY <1>1, <1>2

\* The interleaved transactions implement the ledger of one-step operations:
\* recordEvent, recallBatch and createBatch, whatever overlaps or is cut off.
THEOREM ServiceImplementsLedger == Spec => ImplementsLedger
<1>1. Spec => []AdminsKnown
  <2>1. Typing /\ AdminsKnown /\ [Next]_vars => AdminsKnown'
    BY AdminsStep
  <2> QED BY <2>1, AdminsStart, Isolation, PTL DEF Spec
<1>2. Typing /\ TransactionsIsolated /\ AdminsKnown /\ [Next]_vars => [Ledger!Next]_(Ledger!vars)
  BY LedgerStep
<1> QED BY <1>1, <1>2, LedgerStart, Isolation, PTL DEF Spec, ImplementsLedger, Ledger!Spec

-----------------------------------------------------------------------------
(* Workspaces are kept apart                                               *)

RequestApart(r) ==
  /\ pc[r] \in RecordPcs => Visible(dto[r].actorId, dto[r].batch)
  /\ pc[r] \in HasEvent /\ nextAssignee[r] # NoActor =>
       TenantOf[nextAssignee[r]] = TenantOfBatch(dto[r].batch)
  /\ pc[r] \in {"emit_anomalies", "emit_recall"} =>
       /\ Exists(dto[r].batch)
       /\ \A a \in recipients[r] : TenantOf[a] = TenantOfBatch(dto[r].batch)

RowApart(b) ==
  Exists(b) =>
    /\ batches[b].assignedTo # NoActor => TenantOf[batches[b].assignedTo] = TenantOfBatch(b)
    /\ \A i \in 1..Len(events[b]) : TenantOf[events[b][i].actorId] = TenantOfBatch(b)

PushApart(p) == Exists(p.batch) /\ \A a \in p.to : TenantOf[a] = TenantOfBatch(p.batch)

\* What a request has passed row-level security and the hand-off's check
\* with stays true of it to the end: no batch changes its creator.
KeptApart ==
  /\ \A r \in Requests : RequestApart(r)
  /\ \A b \in Batches : RowApart(b)
  /\ \A p \in pushes : PushApart(p)

LEMMA ApartStart == Init => KeptApart
  BY DEF Init, NoRow, KeptApart, RequestApart, RowApart, PushApart, Exists, RecordPcs, HasEvent

\* Whoever is involved in a batch is of its tenant.
LEMMA InvolvedApart ==
  ASSUME NEW evs, NEW c, NEW a, NEW t,
         c # NoActor => TenantOf[c] = t, a # NoActor => TenantOf[a] = t,
         \A i \in 1..Len(evs) : TenantOf[evs[i].actorId] = t,
         NEW x \in InvolvedActorIds(evs, c, a)
  PROVE  TenantOf[x] = t
  BY DEF InvolvedActorIds

LEMMA CreatorStays ==
  ASSUME Typing, TransactionsIsolated, [Next]_vars, NEW b \in Batches, Exists(b)
  PROVE  Exists(b)' /\ TenantOfBatch(b)' = TenantOfBatch(b)
<1>1. CASE BatchUntouched(b)
  BY <1>1 DEF BatchUntouched, Exists, TenantOfBatch
<1>2. ASSUME NEW a \in Actors, CreateBatch(a, b) PROVE FALSE
  BY <1>2 DEF CreateBatch
<1>3. ASSUME NEW r \in Requests, CommitRecord(r), dto[r].batch = b
      PROVE  batches'[b].createdBy = batches[b].createdBy
  BY <1>3, CommittedEvent DEF Typing, TypeOK
<1>4. ASSUME NEW r \in Requests, CommitRecall(r), dto[r].batch = b
      PROVE  batches'[b].createdBy = batches[b].createdBy
  <2>1. batches[b] \in BatchRows /\ batches' = [batches EXCEPT ![b] = [@ EXCEPT !.isRecalled = TRUE]]
    BY <1>4, CommittedRecall DEF Typing, TypeOK
  <2> QED BY <2>1 DEF Typing, TypeOK, BatchRows
<1> QED BY <1>1, <1>2, <1>3, <1>4, WhoTouchesABatch DEF Exists, TenantOfBatch

LEMMA RowsApart ==
  ASSUME Typing, TransactionsIsolated, KeptApart, [Next]_vars, NEW b \in Batches
  PROVE  RowApart(b)'
<1>1. RowApart(b)
  BY DEF KeptApart
<1>2. CASE BatchUntouched(b)
  BY <1>1, <1>2 DEF BatchUntouched, RowApart, Exists, TenantOfBatch
<1>3. ASSUME NEW a \in Actors, CreateBatch(a, b) PROVE RowApart(b)'
  <2>1. events'[b] = << >> /\ batches'[b] = [NoRow EXCEPT !.createdBy = a, !.assignedTo = a]
    BY <1>3 DEF CreateBatch, TransactionsIsolated, BatchInv, Typing, TypeOK
  <2>2. batches'[b].createdBy = a /\ batches'[b].assignedTo = a
    BY <2>1 DEF NoRow
  <2> QED BY <2>1, <2>2 DEF RowApart, TenantOfBatch
<1>4. ASSUME NEW r \in Requests, CommitRecord(r), dto[r].batch = b PROVE RowApart(b)'
  <2> DEFINE e == draft[r]
  <2>1. /\ Exists(b) /\ seen[r] = batches[b] /\ e.actorId = dto[r].actorId
        /\ events[b] \in Seq(TraceEvents) /\ e \in TraceEvents
        /\ events'[b] = Append(events[b], e)
        /\ batches'[b].assignedTo = IF IsAdvancing(r) THEN nextAssignee[r] ELSE batches[b].assignedTo
    <3>1. /\ Exists(b) /\ seen[r] = batches[b] /\ e.actorId = dto[r].actorId /\ e \in TraceEvents
          /\ events' = [events EXCEPT ![b] = Append(@, e)]
          /\ batches' = [batches EXCEPT ![b] = mine[r]]
          /\ mine[r].assignedTo = IF IsAdvancing(r) THEN nextAssignee[r] ELSE batches[b].assignedTo
      BY <1>4, CommittedEvent
    <3> HIDE DEF e
    <3> QED BY <3>1 DEF Typing, TypeOK
  <2>2. /\ TenantOf[dto[r].actorId] = TenantOfBatch(b)
        /\ nextAssignee[r] # NoActor => TenantOf[nextAssignee[r]] = TenantOfBatch(b)
    BY <1>4 DEF KeptApart, RequestApart, CommitRecord, RecordPcs, HasEvent, Visible
  <2>3. TenantOfBatch(b)' = TenantOfBatch(b)
    BY <2>1, CreatorStays
  <2>4. batches'[b].assignedTo # NoActor => TenantOf[batches'[b].assignedTo] = TenantOfBatch(b)
    BY <1>1, <2>1, <2>2 DEF RowApart
  <2>5. \A i \in 1..Len(events'[b]) : TenantOf[events'[b][i].actorId] = TenantOfBatch(b)
    <3> HIDE DEF e
    <3>1. \A i \in 1..Len(events'[b]) :
            \/ i \in 1..Len(events[b]) /\ events'[b][i] = events[b][i]
            \/ events'[b][i] = e
      BY <2>1
    <3> QED BY <1>1, <2>1, <2>2, <3>1 DEF RowApart
  <2> QED BY <2>3, <2>4, <2>5 DEF RowApart
<1>5. ASSUME NEW r \in Requests, CommitRecall(r), dto[r].batch = b PROVE RowApart(b)'
  <2>1. /\ Exists(b) /\ batches[b] \in BatchRows /\ events' = events
        /\ batches' = [batches EXCEPT ![b] = [@ EXCEPT !.isRecalled = TRUE]]
    BY <1>5, CommittedRecall DEF Typing, TypeOK
  <2>2. batches'[b].assignedTo = batches[b].assignedTo
    BY <2>1 DEF Typing, TypeOK, BatchRows
  <2>3. TenantOfBatch(b)' = TenantOfBatch(b)
    BY <2>1, CreatorStays
  <2> QED BY <1>1, <2>1, <2>2, <2>3 DEF RowApart
<1> QED BY <1>2, <1>3, <1>4, <1>5, WhoTouchesABatch

\* A request no step of which is taken.
LEMMA OthersApart ==
  ASSUME Typing, TransactionsIsolated, KeptApart, [Next]_vars, NEW q \in Requests,
         pc'[q] = pc[q], dto'[q] = dto[q], nextAssignee'[q] = nextAssignee[q],
         recipients'[q] = recipients[q]
  PROVE  RequestApart(q)'
<1>1. dto[q].batch \in Batches /\ RequestApart(q) /\ RequestInv(q)
  BY DEF Typing, TypeOK, Dtos, KeptApart, TransactionsIsolated
<1>2. pc[q] \in HasEvent => pc[q] \in RecordPcs
  BY DEF HasEvent, RecordPcs
<1>3. pc[q] \in RecordPcs \cup {"emit_anomalies", "emit_recall"} => Exists(dto[q].batch)
  BY <1>1 DEF RequestApart, Visible
<1>4. pc[q] \in RecordPcs \cup {"emit_anomalies", "emit_recall"} =>
        Exists(dto[q].batch)' /\ TenantOfBatch(dto[q].batch)' = TenantOfBatch(dto[q].batch)
  <2>1. \A b \in Batches : Exists(b) => Exists(b)' /\ TenantOfBatch(b)' = TenantOfBatch(b)
    BY CreatorStays
  <2> QED BY <1>1, <1>3, <2>1 DEF Exists, TenantOfBatch
<1> QED BY <1>1, <1>2, <1>4 DEF RequestApart, Visible, Exists, TenantOfBatch

LEMMA StepApart ==
  ASSUME Typing, TransactionsIsolated, KeptApart, [Next]_vars, NEW r \in Requests,
         Step(r) \/ Interrupted(r)
  PROVE  RequestApart(r)'
<1>0. PICK b \in Batches : b = dto[r].batch
  BY DEF Typing, TypeOK, Dtos
<1>1. /\ b = dto[r].batch /\ RequestApart(r) /\ RequestInv(r) /\ RowApart(b)
      /\ Exists(b) => Exists(b)' /\ TenantOfBatch(b)' = TenantOfBatch(b)
  BY <1>0, CreatorStays DEF KeptApart, TransactionsIsolated
<1>2. ASSUME pc'[r] = "idle" PROVE RequestApart(r)'
  BY <1>2 DEF RequestApart, RecordPcs, HasEvent
<1>3. ASSUME Rollback(r) \/ EmitAnomalies(r) \/ EmitRecall(r) PROVE RequestApart(r)'
  <2>1. pc'[r] = "idle"
    BY <1>3 DEF Rollback, EmitAnomalies, EmitRecall, Forget, Typing, TypeOK
  <2> QED BY <1>2, <2>1
<1>4. CASE LockBatch(r) /\ ~Rollback(r)
  <2>1. /\ Visible(dto[r].actorId, b) /\ dto' = dto /\ batches' = batches
        /\ pc'[r] = "record_handoff"
    BY <1>1, <1>4 DEF LockBatch, tables, Typing, TypeOK
  <2> QED BY <1>1, <2>1 DEF RequestApart, HasEvent, Visible, Exists, TenantOfBatch
<1>5. CASE HandOff(r) /\ ~Rollback(r)
  <2>1. /\ pc[r] = "record_handoff" /\ pc'[r] = "record_insert" /\ ~HandOffRefused(r)
        /\ dto' = dto /\ batches' = batches /\ nextAssignee'[r] = ResolvedAssignee(r)
    BY <1>5 DEF HandOff, tables, Typing, TypeOK
  <2>2. /\ Visible(dto[r].actorId, b) /\ seen[r] = batches[b]
    BY <1>1, <2>1 DEF RequestApart, RequestInv, ReadIsCurrent, RecordPcs
  <2>3. ResolvedAssignee(r) # NoActor => TenantOf[ResolvedAssignee(r)] = TenantOfBatch(b)
    BY <1>1, <2>1, <2>2 DEF ResolvedAssignee, HandOffRefused, CanTakeOver, Visible, RowApart
  <2> QED BY <1>1, <2>1, <2>2, <2>3 DEF RequestApart, HasEvent, Visible, Exists, TenantOfBatch
<1>6. CASE (InsertEvent(r) \/ StoreAnomalies(r) \/ AdvanceStage(r)) /\ ~Rollback(r)
  <2>1. /\ pc[r] \in {"record_insert", "record_detect", "record_advance"}
        /\ pc'[r] \in {"record_detect", "record_advance", "record_commit"}
        /\ dto' = dto /\ batches' = batches /\ nextAssignee' = nextAssignee
    BY <1>6 DEF InsertEvent, StoreAnomalies, AdvanceStage, tables, Typing, TypeOK
  <2>2. pc[r] \in RecordPcs /\ pc[r] \in HasEvent
    BY <2>1 DEF RecordPcs, HasEvent
  <2> QED BY <1>1, <2>1, <2>2 DEF RequestApart, Visible, Exists, TenantOfBatch
<1>7. CASE CommitRecord(r)
  <2>1. /\ pc'[r] = "emit_anomalies" /\ dto' = dto /\ Exists(b) /\ seen[r] = batches[b]
        /\ draft[r].actorId = dto[r].actorId /\ draft[r] \in TraceEvents
        /\ events[b] \in Seq(TraceEvents)
        /\ \/ recipients'[r] = {}
           \/ recipients'[r] = InvolvedActorIds(AllEvents(r), batches[b].createdBy, nextAssignee[r])
    <3>1. /\ Exists(b) /\ seen[r] = batches[b] /\ draft[r].actorId = dto[r].actorId /\ draft[r] \in TraceEvents
      BY <1>1, <1>7, CommittedEvent
    <3>2. /\ pc'[r] = "emit_anomalies" /\ dto' = dto
          /\ \/ recipients'[r] = {}
             \/ recipients'[r] = InvolvedActorIds(AllEvents(r), seen[r].createdBy, nextAssignee[r])
      BY <1>7 DEF CommitRecord, Committed, Typing, TypeOK
    <3>3. events[b] \in Seq(TraceEvents)
      BY <1>1 DEF Typing, TypeOK
    <3> QED BY <3>1, <3>2, <3>3
  <2>2. /\ TenantOf[dto[r].actorId] = TenantOfBatch(b)
        /\ nextAssignee[r] # NoActor => TenantOf[nextAssignee[r]] = TenantOfBatch(b)
    BY <1>1, <1>7 DEF RequestApart, CommitRecord, RecordPcs, HasEvent, Visible
  <2>3. \A i \in 1..Len(AllEvents(r)) : TenantOf[AllEvents(r)[i].actorId] = TenantOfBatch(b)
    <3>1. PICK e \in TraceEvents : e = draft[r]
      BY <2>1
    <3>2. PICK evs \in Seq(TraceEvents) : evs = events[b]
      BY <2>1
    <3>3. AllEvents(r) = Append(evs, e)
      BY <1>1, <3>1, <3>2 DEF AllEvents
    <3>4. \A i \in 1..Len(Append(evs, e)) :
            \/ i \in 1..Len(evs) /\ Append(evs, e)[i] = evs[i]
            \/ Append(evs, e)[i] = e
      OBVIOUS
    <3>5. /\ TenantOf[e.actorId] = TenantOfBatch(b)
          /\ \A i \in 1..Len(evs) : TenantOf[evs[i].actorId] = TenantOfBatch(b)
      BY <1>1, <2>1, <2>2, <3>1, <3>2 DEF RowApart
    <3> QED BY <3>3, <3>4, <3>5
  <2>4. \A a \in recipients'[r] : TenantOf[a] = TenantOfBatch(b)
    BY <2>1, <2>2, <2>3 DEF InvolvedActorIds, TenantOfBatch
  <2> QED BY <1>1, <2>1, <2>4 DEF RequestApart, RecordPcs, HasEvent, Exists, TenantOfBatch
<1>8. CASE MarkRecalled(r) /\ ~Rollback(r)
  <2>1. pc'[r] = "recall_commit"
    BY <1>8 DEF MarkRecalled, Typing, TypeOK
  <2> QED BY <2>1 DEF RequestApart, RecordPcs, HasEvent
<1>9. CASE CommitRecall(r)
  <2>1. Exists(b) /\ batches[b] \in BatchRows
    BY <1>1, <1>9, CommittedRecall DEF Typing, TypeOK
  <2>2. /\ pc[r] = "recall_commit" /\ pc'[r] = "emit_recall" /\ dto' = dto
        /\ recipients'[r] = InvolvedActorIds(events[b], mine[r].createdBy, mine[r].assignedTo)
    BY <1>1, <1>9 DEF CommitRecall, Committed, Typing, TypeOK
  <2>3. mine[r].createdBy = batches[b].createdBy /\ mine[r].assignedTo = batches[b].assignedTo
    BY <1>1, <2>1, <2>2 DEF RequestInv, OwnImage, BatchRows
  <2>4. \A a \in recipients'[r] : TenantOf[a] = TenantOfBatch(b)
    BY <1>1, <2>1, <2>2, <2>3 DEF RowApart, InvolvedActorIds, TenantOfBatch
  <2> QED BY <1>1, <2>1, <2>2, <2>4 DEF RequestApart, RecordPcs, HasEvent, Exists, TenantOfBatch
<1> QED BY <1>3, <1>4, <1>5, <1>6, <1>7, <1>8, <1>9 DEF Step, Interrupted

LEMMA RequestsApart ==
  ASSUME Typing, TransactionsIsolated, KeptApart, [Next]_vars, NEW q \in Requests
  PROVE  RequestApart(q)'
<1>1. ASSUME NEW r \in Requests, Step(r) \/ Interrupted(r) PROVE RequestApart(q)'
  <2>1. CASE q = r
    BY <1>1, <2>1, StepApart
  <2>2. CASE q # r
    <3>1. /\ pc'[q] = pc[q] /\ dto'[q] = dto[q] /\ nextAssignee'[q] = nextAssignee[q]
          /\ recipients'[q] = recipients[q]
      BY <1>1, <2>2 DEF Step, Interrupted, LockBatch, HandOff, InsertEvent, StoreAnomalies,
         AdvanceStage, CommitRecord, EmitAnomalies, MarkRecalled, CommitRecall, EmitRecall,
         Rollback, Forget, Committed, Typing, TypeOK
    <3> QED BY <3>1, OthersApart
  <2> QED BY <2>1, <2>2
<1>2. ASSUME NEW r \in Requests, NEW a, NEW b, NEW stage, NEW next,
             NEW at \in {"record_lock", "recall_update"}, Begin(r, a, b, stage, next, at)
      PROVE  RequestApart(q)'
  <2>1. CASE q = r
    <3>1. pc'[q] = at
      BY <1>2, <2>1 DEF Begin, Typing, TypeOK
    <3> QED BY <3>1 DEF RequestApart, RecordPcs, HasEvent
  <2>2. CASE q # r
    <3>1. /\ pc'[q] = pc[q] /\ dto'[q] = dto[q] /\ nextAssignee'[q] = nextAssignee[q]
          /\ recipients'[q] = recipients[q]
      BY <1>2, <2>2 DEF Begin, Typing, TypeOK
    <3> QED BY <3>1, OthersApart
  <2> QED BY <2>1, <2>2
<1>3. CASE Arrival
  <2>1. CASE UNCHANGED scratch /\ UNCHANGED pc
    BY <2>1, OthersApart DEF scratch
  <2>2. ASSUME NEW r \in Requests, NEW a \in Actors, NEW b \in Batches,
               \/ \E stage \in DtoStages, next \in ActorRefs : RequestRecord(r, a, b, stage, next)
               \/ RequestRecall(r, a, b)
        PROVE  RequestApart(q)'
    BY <1>2, <2>2 DEF RequestRecord, RequestRecall
  <2> QED BY <1>3, <2>1, <2>2 DEF Arrival, CreateBatch, SetActorStatus, SetActorRole
<1>4. CASE UNCHANGED vars
  BY <1>4, OthersApart DEF vars, scratch
<1> QED BY <1>1, <1>3, <1>4 DEF Next

LEMMA PushesApart ==
  ASSUME Typing, TransactionsIsolated, KeptApart, [Next]_vars, NEW p \in pushes'
  PROVE  PushApart(p)'
<1>1. ASSUME NEW b \in Batches, Exists(b), p.batch = b, \A a \in p.to : TenantOf[a] = TenantOfBatch(b)
      PROVE  PushApart(p)'
  BY <1>1, CreatorStays DEF PushApart, Exists, TenantOfBatch
<1>2. CASE p \in pushes
  <2>1. p.batch \in Batches
    BY <1>2 DEF Typing, TypeOK, Pushes
  <2> QED BY <1>1, <1>2, <2>1 DEF KeptApart, PushApart
<1>3. CASE p \notin pushes
  <2>1. PICK r \in Requests : EmitAnomalies(r) \/ EmitRecall(r)
    BY <1>3 DEF Next, Arrival, CreateBatch, RequestRecord, RequestRecall, Begin, SetActorStatus,
       SetActorRole, Step, Interrupted, LockBatch, HandOff, InsertEvent, StoreAnomalies, AdvanceStage,
       CommitRecord, MarkRecalled, CommitRecall, Rollback, Committed, vars
  <2>2. p.batch = dto[r].batch /\ p.to = recipients[r] /\ pc[r] \in {"emit_anomalies", "emit_recall"}
    BY <1>3, <2>1 DEF EmitAnomalies, EmitRecall
  <2>3. dto[r].batch \in Batches /\ RequestApart(r)
    BY DEF Typing, TypeOK, Dtos, KeptApart
  <2> QED BY <1>1, <2>2, <2>3 DEF RequestApart
<1> QED BY <1>2, <1>3

\* Nobody of another workspace is ever named by a batch row, its history or a
\* push about it, although the request names the batch and the next custodian.
THEOREM WorkspacesAreApart == Spec => []TenantIsolation
<1>1. Typing /\ TransactionsIsolated /\ KeptApart /\ [Next]_vars => KeptApart'
  BY RequestsApart, RowsApart, PushesApart DEF KeptApart
<1>2. KeptApart => TenantIsolation
  <2> SUFFICES ASSUME KeptApart PROVE TenantIsolation
    OBVIOUS
  <2>1. ASSUME NEW b \in Batches, Exists(b),
               NEW a \in InvolvedActorIds(events[b], batches[b].createdBy, batches[b].assignedTo)
        PROVE  TenantOf[a] = TenantOfBatch(b)
    BY <2>1, InvolvedApart DEF KeptApart, RowApart, TenantOfBatch
  <2> QED BY <2>1 DEF TenantIsolation, KeptApart, PushApart
<1> QED BY <1>1, <1>2, ApartStart, Isolation, PTL DEF Spec

-----------------------------------------------------------------------------
(* Whoever holds a batch can go on with it *)

\* Nobody who is active is deactivated or given another role.
NobodyLeaves == \A a \in Actors : actors[a].isActive => actors'[a] = actors[a]

CanGoOn(a, stage) == actors[a].isActive /\ stage + 1 \in ROLE_STAGES[actors[a].role]

\* Whom a batch is, or is about to be, handed to.
RequestProvides(r) ==
  pc[r] \in HasEvent /\ IsAdvancing(r) /\ nextAssignee[r] # NoActor =>
    CanGoOn(nextAssignee[r], dto[r].stage)
RowProvides(b) ==
  batches[b].assignedTo # NoActor => CanGoOn(batches[b].assignedTo, batches[b].currentStage)

Provided == (\A r \in Requests : RequestProvides(r)) /\ (\A b \in Batches : RowProvides(b))

LEMMA ProvidedStart == Init => Provided
BY DEF Init, NoRow, Provided, RequestProvides, RowProvides, HasEvent

LEMMA GoesOn ==
  ASSUME Typing, [NobodyLeaves]_vars, NEW a \in Actors, NEW stage, CanGoOn(a, stage)
  PROVE  CanGoOn(a, stage)'
BY DEF NobodyLeaves, CanGoOn, vars

LEMMA RowsProvide ==
  ASSUME Typing, TransactionsIsolated, Provided, [Next]_vars, [NobodyLeaves]_vars, NEW b \in Batches
  PROVE  RowProvides(b)'
<1>1. /\ batches[b] \in BatchRows /\ RowProvides(b)
      /\ \A a \in Actors, stage \in Stages \cup {NotStarted} : CanGoOn(a, stage) => CanGoOn(a, stage)'
  BY GoesOn DEF Typing, TypeOK, Provided
<1>2. batches[b].assignedTo # NoActor =>
        batches[b].assignedTo \in Actors /\ batches[b].currentStage \in Stages \cup {NotStarted}
  BY <1>1 DEF BatchRows, ActorRefs
<1>3. ASSUME batches'[b].assignedTo = batches[b].assignedTo, batches'[b].currentStage = batches[b].currentStage
      PROVE  RowProvides(b)'
  BY <1>1, <1>2, <1>3 DEF RowProvides, CanGoOn
<1>4. CASE BatchUntouched(b)
  BY <1>3, <1>4 DEF BatchUntouched
<1>5. ASSUME NEW a \in Actors, CreateBatch(a, b) PROVE RowProvides(b)'
  <2>1. /\ actors[a].isActive /\ actors[a].role \in CreatorRoles /\ actors' = actors
        /\ batches'[b] = [NoRow EXCEPT !.createdBy = a, !.assignedTo = a]
    BY <1>5 DEF CreateBatch, Typing, TypeOK
  <2>2. batches'[b].assignedTo = a /\ batches'[b].currentStage = NotStarted
    BY <2>1 DEF NoRow
  <2>3. NotStarted + 1 \in ROLE_STAGES[actors[a].role]
    BY <2>1 DEF CreatorRoles, ROLE_STAGES, Roles, Stages, NotStarted, HARVEST, RETAIL
  <2> QED BY <2>1, <2>2, <2>3 DEF RowProvides, CanGoOn
<1>6. ASSUME NEW r \in Requests, CommitRecord(r), dto[r].batch = b PROVE RowProvides(b)'
  <2>1. /\ pc[r] = "record_commit" /\ actors' = actors /\ batches'[b] = mine[r]
    BY <1>6 DEF CommitRecord, Committed, Typing, TypeOK
  <2>2. /\ seen[r] = batches[b]
        /\ mine[r] = IF IsAdvancing(r)
                     THEN [Appended(r) EXCEPT !.currentStage = dto[r].stage, !.assignedTo = nextAssignee[r]]
                     ELSE Appended(r)
    BY <1>6, <2>1 DEF TransactionsIsolated, RequestInv, ReadIsCurrent, OwnImage, RecordPcs
  <2>3. CASE ~IsAdvancing(r)
    <3>1. mine[r].assignedTo = batches[b].assignedTo /\ mine[r].currentStage = batches[b].currentStage
      BY <1>1, <2>2, <2>3 DEF Appended, BatchRows
    <3> QED BY <1>3, <2>1, <3>1
  <2>4. CASE IsAdvancing(r)
    <3>1. mine[r].assignedTo = nextAssignee[r] /\ mine[r].currentStage = dto[r].stage
      BY <1>1, <2>2, <2>4 DEF Appended, BatchRows
    <3>2. nextAssignee[r] # NoActor => CanGoOn(nextAssignee[r], dto[r].stage)
      BY <2>1, <2>4 DEF Provided, RequestProvides, HasEvent
    <3> QED BY <2>1, <3>1, <3>2 DEF RowProvides, CanGoOn
  <2> QED BY <2>3, <2>4
<1>7. ASSUME NEW r \in Requests, CommitRecall(r), dto[r].batch = b PROVE RowProvides(b)'
  <2>1. batches' = [batches EXCEPT ![b] = [@ EXCEPT !.isRecalled = TRUE]]
    BY <1>7, CommittedRecall
  <2>2. batches'[b].assignedTo = batches[b].assignedTo /\ batches'[b].currentStage = batches[b].currentStage
    BY <1>1, <2>1 DEF Typing, TypeOK, BatchRows
  <2> QED BY <1>3, <2>2
<1> QED BY <1>4, <1>5, <1>6, <1>7, WhoTouchesABatch

LEMMA RequestsProvide ==
  ASSUME Typing, TransactionsIsolated, Provided, [Next]_vars, [NobodyLeaves]_vars, NEW q \in Requests
  PROVE  RequestProvides(q)'
<1>1. /\ RequestProvides(q) /\ nextAssignee[q] \in ActorRefs /\ dto[q] \in Dtos
      /\ \A a \in Actors, stage \in Stages : CanGoOn(a, stage) => CanGoOn(a, stage)'
  BY GoesOn DEF Typing, TypeOK, Provided
<1>2. nextAssignee[q] # NoActor => nextAssignee[q] \in Actors /\ dto[q].stage \in Stages
  BY <1>1 DEF ActorRefs, Dtos
\* A step that leaves its draft and its hand-off as they are.
<1>3. ASSUME pc'[q] \in HasEvent => pc[q] \in HasEvent,
             dto'[q] = dto[q], seen'[q] = seen[q], nextAssignee'[q] = nextAssignee[q]
      PROVE  RequestProvides(q)'
  BY <1>1, <1>2, <1>3 DEF RequestProvides, IsAdvancing, CanGoOn
<1>4. ASSUME pc'[q] \notin HasEvent PROVE RequestProvides(q)'
  BY <1>4 DEF RequestProvides
<1>5. ASSUME NEW r \in Requests, Step(r) \/ Interrupted(r) PROVE RequestProvides(q)'
  <2>1. CASE q # r
    <3>1. /\ pc'[q] = pc[q] /\ dto'[q] = dto[q] /\ nextAssignee'[q] = nextAssignee[q]
          /\ seen'[q] = seen[q]
      BY <1>5, <2>1 DEF Step, Interrupted, LockBatch, HandOff, InsertEvent, StoreAnomalies,
         AdvanceStage, CommitRecord, EmitAnomalies, MarkRecalled, CommitRecall, EmitRecall,
         Rollback, Forget, Committed, Typing, TypeOK
    <3> QED BY <1>3, <3>1
  <2>2. CASE q = r /\ HandOff(r) /\ ~Rollback(r)
    <3>1. /\ ~HandOffRefused(q) /\ actors' = actors /\ dto' = dto /\ seen' = seen
          /\ nextAssignee'[q] = ResolvedAssignee(q)
      BY <2>2 DEF HandOff, Typing, TypeOK
    <3>2. IsAdvancing(q) /\ ResolvedAssignee(q) # NoActor => CanGoOn(ResolvedAssignee(q), dto[q].stage)
      BY <3>1 DEF ResolvedAssignee, HandOffRefused, CanTakeOver, CanGoOn
    <3> QED BY <3>1, <3>2 DEF RequestProvides, IsAdvancing, CanGoOn
  <2>3. CASE q = r /\ (InsertEvent(r) \/ StoreAnomalies(r) \/ AdvanceStage(r)) /\ ~Rollback(r)
    <3>1. /\ pc[q] \in HasEvent /\ dto' = dto /\ seen' = seen /\ nextAssignee' = nextAssignee
      BY <2>3 DEF InsertEvent, StoreAnomalies, AdvanceStage, HasEvent
    <3> QED BY <1>3, <3>1
  <2>4. CASE q = r /\ (LockBatch(r) \/ CommitRecord(r) \/ MarkRecalled(r) \/ CommitRecall(r)) /\ ~Rollback(r)
    <3>1. pc'[q] \in {"record_handoff", "emit_anomalies", "recall_commit", "emit_recall"}
      BY <2>4 DEF LockBatch, CommitRecord, MarkRecalled, CommitRecall, Committed, Typing, TypeOK
    <3> QED BY <1>4, <3>1 DEF HasEvent
  <2>5. CASE q = r /\ (EmitAnomalies(r) \/ EmitRecall(r) \/ Rollback(r))
    <3>1. pc'[q] = "idle"
      BY <2>5 DEF EmitAnomalies, EmitRecall, Rollback, Forget, Typing, TypeOK
    <3> QED BY <1>4, <3>1 DEF HasEvent
  <2> QED BY <1>5, <2>1, <2>2, <2>3, <2>4, <2>5 DEF Step, Interrupted
<1>6. CASE Arrival
  <2>1. CASE UNCHANGED scratch /\ UNCHANGED pc
    BY <1>3, <2>1 DEF scratch
  <2>2. ASSUME NEW r \in Requests, NEW a, NEW b, NEW stage, NEW next,
               NEW at \in {"record_lock", "recall_update"}, Begin(r, a, b, stage, next, at)
        PROVE  RequestProvides(q)'
    <3>1. CASE q = r
      <4>1. pc'[q] = at
        BY <2>2, <3>1 DEF Begin, Typing, TypeOK
      <4> QED BY <1>4, <4>1 DEF HasEvent
    <3>2. CASE q # r
      BY <1>3, <2>2, <3>2 DEF Begin, Typing, TypeOK
    <3> QED BY <3>1, <3>2
  <2>3. ASSUME NEW r \in Requests, NEW a \in Actors, NEW b \in Batches,
               \/ \E stage \in DtoStages, next \in ActorRefs : RequestRecord(r, a, b, stage, next)
               \/ RequestRecall(r, a, b)
        PROVE  RequestProvides(q)'
    BY <2>2, <2>3 DEF RequestRecord, RequestRecall
  <2> QED BY <1>6, <2>1, <2>3 DEF Arrival, CreateBatch, SetActorStatus, SetActorRole
<1>7. CASE UNCHANGED vars
  BY <1>3, <1>7 DEF vars, scratch
<1> QED BY <1>5, <1>6, <1>7 DEF Next

\* While nobody who is active is deactivated or given another role, whoever a
\* batch is assigned to is active and finds it in their queue: what
\* resolveNextAssignee read without a lock and checked before the event was
\* written still holds when the hand-off commits, and ever after.
THEOREM CustodiansHaveWork == Spec /\ [][NobodyLeaves]_vars => []CustodianHasWork
<1>1. Typing /\ TransactionsIsolated /\ Provided /\ [Next]_vars /\ [NobodyLeaves]_vars => Provided'
  BY RequestsProvide, RowsProvide DEF Provided
<1>2. Typing /\ TransactionsIsolated /\ TenantIsolation /\ Provided => CustodianHasWork
  <2> SUFFICES ASSUME Typing, TransactionsIsolated, TenantIsolation, Provided, NEW b \in Batches,
                      batches[b].assignedTo # NoActor, ~batches[b].isRecalled
               PROVE  actors[batches[b].assignedTo].isActive /\ b \in PendingFor(batches[b].assignedTo)
    BY DEF CustodianHasWork
  <2> DEFINE c == batches[b].assignedTo
  <2>1. CanGoOn(c, batches[b].currentStage)
    BY DEF Provided, RowProvides
  <2>2. Exists(b)
    BY DEF TransactionsIsolated, BatchInv, NoRow
  <2>3. c \in InvolvedActorIds(events[b], batches[b].createdBy, c)
    BY DEF InvolvedActorIds
  <2>4. TenantOf[c] = TenantOfBatch(b)
    BY <2>2, <2>3 DEF TenantIsolation
  <2> QED BY <2>1, <2>2, <2>4 DEF CanGoOn, PendingFor, Visible
<1> QED BY <1>1, <1>2, ProvidedStart, Isolation, WorkspacesAreApart, PTL DEF Spec

-----------------------------------------------------------------------------
(* Audit entries and pushes *)

\* How a step may change the rows of a batch.
LEMMA BatchEvolves ==
  ASSUME Typing, TransactionsIsolated, [Next]_vars, NEW b \in Batches, Exists(b)
  PROVE  /\ Exists(b)' /\ batches'[b].createdBy = batches[b].createdBy
         /\ Len(events[b]) <= Len(events'[b])
         /\ \A i \in 1..Len(events[b]) : events'[b][i] = events[b][i]
         /\ anomalies[b] \subseteq anomalies'[b]
         /\ batches[b].isRecalled => BatchUntouched(b)
<1>1. batches[b] \in BatchRows /\ events[b] \in Seq(TraceEvents) /\ Len(events[b]) \in Nat
  BY DEF Typing, TypeOK
<1>2. CASE BatchUntouched(b)
  BY <1>1, <1>2 DEF BatchUntouched, Exists
<1>3. ASSUME NEW a \in Actors, CreateBatch(a, b) PROVE FALSE
  BY <1>3 DEF CreateBatch
<1>4. ASSUME NEW r \in Requests, CommitRecord(r), dto[r].batch = b
      PROVE  /\ ~batches[b].isRecalled /\ batches'[b].createdBy = batches[b].createdBy
             /\ Len(events[b]) <= Len(events'[b])
             /\ \A i \in 1..Len(events[b]) : events'[b][i] = events[b][i]
             /\ anomalies[b] \subseteq anomalies'[b]
  <2>1. PICK e \in TraceEvents : e = draft[r]
    BY <1>4, CommittedEvent
  <2>2. /\ ~batches[b].isRecalled /\ mine[r].createdBy = batches[b].createdBy
        /\ events' = [events EXCEPT ![b] = Append(@, e)]
        /\ batches' = [batches EXCEPT ![b] = mine[r]]
        /\ anomalies' = [anomalies EXCEPT ![b] = @ \cup DetectNewAnomalies(Append(events[b], e))]
    BY <1>4, <2>1, CommittedEvent
  <2>3. /\ events'[b] = Append(events[b], e) /\ batches'[b] = mine[r]
        /\ anomalies[b] \subseteq anomalies'[b]
    BY <2>2 DEF Typing, TypeOK
  <2> QED BY <1>1, <2>2, <2>3
<1>5. ASSUME NEW r \in Requests, CommitRecall(r), dto[r].batch = b
      PROVE  /\ ~batches[b].isRecalled /\ batches'[b].createdBy = batches[b].createdBy
             /\ events' = events /\ anomalies' = anomalies
  <2>1. /\ ~batches[b].isRecalled /\ events' = events /\ anomalies' = anomalies
        /\ batches' = [batches EXCEPT ![b] = [@ EXCEPT !.isRecalled = TRUE]]
    BY <1>5, CommittedRecall
  <2> QED BY <1>1, <2>1 DEF Typing, TypeOK, BatchRows
<1> QED BY <1>1, <1>2, <1>3, <1>4, <1>5, WhoTouchesABatch DEF Exists

-----------------------------------------------------------------------------
(* Pushes                                                                  *)

\* What a push to the people in "to" says of an anomaly, or of a recall.
AnomalyTold(x, b, to) ==
  /\ Exists(b)
  /\ x \in anomalies[b]
  /\ x.eventSeq + 1 <= Len(events[b])
  /\ batches[b].createdBy \in to
  /\ \A i \in 1..(x.eventSeq + 1) : events[b][i].actorId \in to

RecallTold(b, to) ==
  /\ Exists(b)
  /\ batches[b].isRecalled
  /\ to = InvolvedActorIds(events[b], batches[b].createdBy, batches[b].assignedTo)

\* A request that has committed will tell the truth, as one that pushed has.
RequestTells(r) ==
  /\ pc[r] = "emit_anomalies" => \A x \in found[r] : AnomalyTold(x, dto[r].batch, recipients[r])
  /\ pc[r] = "emit_recall" => RecallTold(dto[r].batch, recipients[r])

PushTells(p) ==
  \/ p.kind = "recall" /\ RecallTold(p.batch, p.to)
  \/ p.kind = "anomaly" /\ AnomalyTold([type |-> p.type, eventSeq |-> p.eventSeq], p.batch, p.to)

TruthTold ==
  /\ \A r \in Requests : RequestTells(r)
  /\ \A p \in pushes : PushTells(p)

LEMMA TruthStart == Init => TruthTold
  BY DEF Init, TruthTold, RequestTells

\* What was true of a batch stays true: its history only grows, and nothing
\* of it changes after a recall.
LEMMA AnomalyStaysTold ==
  ASSUME Typing, TransactionsIsolated, [Next]_vars, NEW b \in Batches, NEW x \in Anomalies, NEW to,
         AnomalyTold(x, b, to)
  PROVE  /\ Exists(b)' /\ x \in anomalies'[b] /\ x.eventSeq + 1 <= Len(events'[b])
         /\ batches'[b].createdBy \in to
         /\ \A i \in 1..(x.eventSeq + 1) : events'[b][i].actorId \in to
<1>1. /\ Exists(b)' /\ batches'[b].createdBy = batches[b].createdBy
      /\ Len(events[b]) <= Len(events'[b])
      /\ \A i \in 1..Len(events[b]) : events'[b][i] = events[b][i]
      /\ anomalies[b] \subseteq anomalies'[b]
  BY BatchEvolves DEF AnomalyTold
<1>2. Len(events[b]) \in Nat /\ Len(events'[b]) \in Nat /\ x.eventSeq \in Nat
  <2>1. events'[b] \in Seq(TraceEvents)
    BY NextTyping DEF Typing, TypeOK
  <2> QED BY <2>1 DEF Typing, TypeOK, Anomalies
<1>3. \A i \in 1..(x.eventSeq + 1) : i \in 1..Len(events[b])
  BY <1>2 DEF AnomalyTold
<1>4. x.eventSeq + 1 <= Len(events'[b])
  <2>1. x.eventSeq + 1 <= Len(events[b])
    BY DEF AnomalyTold
  <2> QED BY <1>1, <1>2, <2>1
<1>5. ASSUME NEW i \in 1..(x.eventSeq + 1) PROVE events'[b][i].actorId \in to
  <2>1. events'[b][i] = events[b][i]
    BY <1>1, <1>3
  <2>2. events[b][i].actorId \in to
    BY DEF AnomalyTold
  <2> QED BY <2>1, <2>2
<1> QED BY <1>1, <1>4, <1>5 DEF AnomalyTold

LEMMA RecallStaysTold ==
  ASSUME Typing, TransactionsIsolated, [Next]_vars, NEW b \in Batches, NEW to, RecallTold(b, to)
  PROVE  /\ Exists(b)' /\ batches'[b].isRecalled
         /\ to = InvolvedActorIds(events'[b], batches'[b].createdBy, batches'[b].assignedTo)
  BY BatchEvolves DEF RecallTold, BatchUntouched

LEMMA OthersTell ==
  ASSUME Typing, TransactionsIsolated, TruthTold, [Next]_vars, NEW q \in Requests,
         pc'[q] = pc[q],
         pc[q] \in {"emit_anomalies", "emit_recall"} =>
           dto'[q] = dto[q] /\ found'[q] = found[q] /\ recipients'[q] = recipients[q]
  PROVE  RequestTells(q)'
<1>1. PICK b \in Batches : b = dto[q].batch
  BY DEF Typing, TypeOK, Dtos
<1>2. RequestTells(q) /\ found[q] \subseteq Anomalies
  BY DEF TruthTold, Typing, TypeOK
<1>3. CASE pc[q] = "emit_anomalies"
  <2>1. \A x \in found[q] : AnomalyTold(x, b, recipients[q])
    BY <1>1, <1>2, <1>3 DEF RequestTells
  <2>2. \A x \in found[q] :
          /\ Exists(b)' /\ x \in anomalies'[b] /\ x.eventSeq + 1 <= Len(events'[b])
          /\ batches'[b].createdBy \in recipients[q]
          /\ \A i \in 1..(x.eventSeq + 1) : events'[b][i].actorId \in recipients[q]
    BY <1>2, <2>1, AnomalyStaysTold
  <2>3. pc'[q] # "emit_recall" /\ dto'[q].batch = b /\ found'[q] = found[q] /\ recipients'[q] = recipients[q]
    BY <1>1, <1>3
  <2>4. \A x \in found'[q] : AnomalyTold(x, dto[q].batch, recipients[q])'
    BY <2>2, <2>3 DEF AnomalyTold, Exists
  <2> QED BY <2>3, <2>4 DEF RequestTells
<1>4. CASE pc[q] = "emit_recall"
  <2>1. RecallTold(b, recipients[q])
    BY <1>1, <1>2, <1>4 DEF RequestTells
  <2>2. /\ Exists(b)' /\ batches'[b].isRecalled
        /\ recipients[q] = InvolvedActorIds(events'[b], batches'[b].createdBy, batches'[b].assignedTo)
    BY <2>1, RecallStaysTold
  <2> QED BY <1>1, <1>4, <2>2 DEF RequestTells, RecallTold, Exists
<1>5. CASE pc[q] \notin {"emit_anomalies", "emit_recall"}
  BY <1>5 DEF RequestTells
<1> QED BY <1>3, <1>4, <1>5

\* The commit of an event: what is to be pushed is the new event's anomalies,
\* to everyone who recorded up to it.
LEMMA CommittedTells ==
  ASSUME Typing, TransactionsIsolated, [Next]_vars, NEW r \in Requests, CommitRecord(r)
  PROVE  RequestTells(r)'
<1>1. PICK b \in Batches, e \in TraceEvents : b = dto[r].batch /\ e = draft[r]
  BY CommittedEvent
<1>2. /\ seen[r] = batches[b] /\ Exists(b) /\ e.sequenceNumber = Len(events[b])
      /\ events' = [events EXCEPT ![b] = Append(@, e)]
      /\ anomalies' = [anomalies EXCEPT ![b] = @ \cup DetectNewAnomalies(Append(events[b], e))]
      /\ mine[r].createdBy = batches[b].createdBy
      /\ batches' = [batches EXCEPT ![b] = mine[r]]
  BY <1>1, CommittedEvent
<1>3. PICK evs \in Seq(TraceEvents) : evs = events[b]
  BY DEF Typing, TypeOK
<1>4. /\ events'[b] = Append(evs, e) /\ batches'[b].createdBy = batches[b].createdBy
      /\ DetectNewAnomalies(Append(evs, e)) \subseteq anomalies'[b]
  BY <1>2, <1>3 DEF Typing, TypeOK
<1>5. /\ pc'[r] = "emit_anomalies" /\ dto' = dto
      /\ found' = found /\ found[r] = DetectNewAnomalies(Append(evs, e))
      /\ recipients'[r] = IF found[r] = {} THEN {}
           ELSE InvolvedActorIds(Append(evs, e), batches[b].createdBy, nextAssignee[r])
  <2>1. RequestInv(r) /\ pc[r] = "record_commit" /\ AllEvents(r) = Append(evs, e)
    BY <1>1, <1>3 DEF TransactionsIsolated, CommitRecord, AllEvents
  <2>2. found[r] = DetectNewAnomalies(Append(evs, e))
    BY <2>1 DEF RequestInv, FoundIsNew
  <2> QED BY <1>2, <2>1, <2>2 DEF CommitRecord, Committed, Typing, TypeOK
<1>6. /\ Append(evs, e) # << >> /\ Len(Append(evs, e)) = Len(evs) + 1 /\ Len(evs) \in Nat
      /\ Append(evs, e)[Len(Append(evs, e))] = e
  OBVIOUS
<1>7. ASSUME NEW x \in found[r]
      PROVE  /\ x \in anomalies'[b] /\ x.eventSeq + 1 = Len(events'[b])
             /\ batches'[b].createdBy \in recipients'[r]
             /\ \A i \in 1..(x.eventSeq + 1) : events'[b][i].actorId \in recipients'[r]
  <2>1. x.eventSeq = Len(evs)
    BY <1>2, <1>3, <1>5, <1>6, <1>7 DEF DetectNewAnomalies
  <2>2. recipients'[r] = InvolvedActorIds(Append(evs, e), batches[b].createdBy, nextAssignee[r])
    BY <1>5, <1>7
  <2>3. batches[b].createdBy \in recipients'[r]
    BY <1>2, <2>2 DEF InvolvedActorIds, Exists
  <2>4. \A i \in 1..(Len(evs) + 1) : Append(evs, e)[i].actorId \in recipients'[r]
    BY <1>6, <2>2 DEF InvolvedActorIds
  <2> QED BY <1>4, <1>5, <1>6, <2>1, <2>3, <2>4
<1>8. Exists(b)' /\ Len(events'[b]) \in Nat
  BY <1>2, <1>4, <1>6 DEF Exists
<1> QED BY <1>1, <1>5, <1>7, <1>8 DEF RequestTells, AnomalyTold, Exists

LEMMA RecalledTells ==
  ASSUME Typing, TransactionsIsolated, [Next]_vars, NEW r \in Requests, CommitRecall(r)
  PROVE  RequestTells(r)'
<1>1. PICK b \in Batches : b = dto[r].batch
  BY DEF Typing, TypeOK, Dtos
<1>2. /\ Exists(b) /\ batches[b] \in BatchRows /\ events' = events
      /\ batches' = [batches EXCEPT ![b] = [@ EXCEPT !.isRecalled = TRUE]]
  BY <1>1, CommittedRecall DEF Typing, TypeOK
<1>3. /\ batches'[b].isRecalled /\ batches'[b].createdBy = batches[b].createdBy
      /\ batches'[b].assignedTo = batches[b].assignedTo
  BY <1>2 DEF Typing, TypeOK, BatchRows
<1>4. /\ pc[r] = "recall_commit" /\ pc'[r] = "emit_recall" /\ dto' = dto
      /\ recipients'[r] = InvolvedActorIds(events[b], mine[r].createdBy, mine[r].assignedTo)
  BY <1>1 DEF CommitRecall, Committed, Typing, TypeOK
<1>5. mine[r].createdBy = batches[b].createdBy /\ mine[r].assignedTo = batches[b].assignedTo
  BY <1>1, <1>2, <1>4 DEF TransactionsIsolated, RequestInv, OwnImage, BatchRows
<1> QED BY <1>1, <1>2, <1>3, <1>4, <1>5 DEF RequestTells, RecallTold, Exists

LEMMA RequestsTell ==
  ASSUME Typing, TransactionsIsolated, TruthTold, [Next]_vars, NEW q \in Requests
  PROVE  RequestTells(q)'
<1>1. ASSUME NEW r \in Requests, pc'[r] \notin {"emit_anomalies", "emit_recall"} PROVE RequestTells(r)'
  BY <1>1 DEF RequestTells
<1>2. ASSUME NEW r \in Requests, Rollback(r) \/ EmitAnomalies(r) \/ EmitRecall(r) PROVE RequestTells(q)'
  <2>1. Forget(r)
    BY <1>2 DEF Rollback, EmitAnomalies, EmitRecall
  <2>2. pc'[r] = "idle" /\ \A s \in Requests : s # r => /\ pc'[s] = pc[s] /\ dto'[s] = dto[s]
                                                      /\ found'[s] = found[s] /\ recipients'[s] = recipients[s]
    BY <2>1 DEF Forget, Typing, TypeOK
  <2> QED BY <1>1, <2>2, OthersTell
<1>3. ASSUME NEW r \in Requests, ~Rollback(r),
             LockBatch(r) \/ HandOff(r) \/ InsertEvent(r) \/ StoreAnomalies(r) \/ AdvanceStage(r) \/ MarkRecalled(r)
      PROVE  RequestTells(q)'
  <2>1. /\ pc[r] \notin {"emit_anomalies", "emit_recall"} /\ pc'[r] \notin {"emit_anomalies", "emit_recall"}
        /\ \A s \in Requests : s # r => /\ pc'[s] = pc[s] /\ dto'[s] = dto[s]
                                       /\ found'[s] = found[s] /\ recipients'[s] = recipients[s]
    BY <1>3 DEF LockBatch, HandOff, InsertEvent, StoreAnomalies, AdvanceStage, MarkRecalled, Typing, TypeOK
  <2> QED BY <1>1, <2>1, OthersTell
<1>4. ASSUME NEW r \in Requests, CommitRecord(r) \/ CommitRecall(r) PROVE RequestTells(q)'
  <2>1. \A s \in Requests : s # r => /\ pc'[s] = pc[s] /\ dto'[s] = dto[s]
                                    /\ found'[s] = found[s] /\ recipients'[s] = recipients[s]
    BY <1>4 DEF CommitRecord, CommitRecall, Committed, Typing, TypeOK
  <2> QED BY <1>4, <2>1, OthersTell, CommittedTells, RecalledTells
<1>5. ASSUME NEW r \in Requests, NEW a, NEW b, NEW stage, NEW next,
             NEW at \in {"record_lock", "recall_update"}, Begin(r, a, b, stage, next, at)
      PROVE  RequestTells(q)'
  <2>1. /\ pc'[r] = at /\ \A s \in Requests : s # r => pc'[s] = pc[s] /\ dto'[s] = dto[s]
        /\ found' = found /\ recipients' = recipients
    BY <1>5 DEF Begin, Typing, TypeOK
  <2> QED BY <1>1, <2>1, OthersTell
<1>6. CASE Arrival
  <2>1. CASE UNCHANGED scratch /\ UNCHANGED pc
    BY <2>1, OthersTell DEF scratch
  <2>2. ASSUME NEW r \in Requests, NEW a \in Actors, NEW b \in Batches,
               \/ \E stage \in DtoStages, next \in ActorRefs : RequestRecord(r, a, b, stage, next)
               \/ RequestRecall(r, a, b)
        PROVE  RequestTells(q)'
    BY <1>5, <2>2 DEF RequestRecord, RequestRecall
  <2> QED BY <1>6, <2>1, <2>2 DEF Arrival, CreateBatch, SetActorStatus, SetActorRole
<1>7. CASE UNCHANGED vars
  BY <1>7, OthersTell DEF vars, scratch
<1> QED BY <1>2, <1>3, <1>4, <1>6, <1>7 DEF Next, Step, Interrupted

LEMMA PushesTell ==
  ASSUME Typing, TransactionsIsolated, TruthTold, [Next]_vars, NEW p \in pushes'
  PROVE  PushTells(p)'
<1>1. ASSUME NEW b \in Batches, p.batch = b, p.kind = "recall", RecallTold(b, p.to)
      PROVE  PushTells(p)'
  <2>1. /\ Exists(b)' /\ batches'[b].isRecalled
        /\ p.to = InvolvedActorIds(events'[b], batches'[b].createdBy, batches'[b].assignedTo)
    BY <1>1, RecallStaysTold
  <2> QED BY <1>1, <2>1 DEF PushTells, RecallTold, Exists
<1>2. ASSUME NEW b \in Batches, p.batch = b, p.kind = "anomaly",
             NEW x \in Anomalies, x = [type |-> p.type, eventSeq |-> p.eventSeq], AnomalyTold(x, b, p.to)
      PROVE  PushTells(p)'
  <2>1. /\ Exists(b)' /\ x \in anomalies'[b] /\ x.eventSeq + 1 <= Len(events'[b])
        /\ batches'[b].createdBy \in p.to
        /\ \A i \in 1..(x.eventSeq + 1) : events'[b][i].actorId \in p.to
    BY <1>2, AnomalyStaysTold
  <2> QED BY <1>2, <2>1 DEF PushTells, AnomalyTold, Exists
<1>3. CASE p \in pushes
  <2>1. p \in Pushes /\ PushTells(p)
    BY <1>3 DEF Typing, TypeOK, TruthTold
  <2>2. CASE p.kind = "recall"
    BY <1>1, <2>1, <2>2 DEF Pushes, PushTells
  <2>3. CASE p.kind = "anomaly"
    <3>1. p.batch \in Batches /\ [type |-> p.type, eventSeq |-> p.eventSeq] \in Anomalies
      BY <2>1, <2>3 DEF Pushes, Anomalies
    <3> QED BY <1>2, <2>1, <2>3, <3>1 DEF PushTells
  <2> QED BY <2>1, <2>2, <2>3 DEF Pushes
<1>4. CASE p \notin pushes
  <2>1. PICK r \in Requests : EmitAnomalies(r) \/ EmitRecall(r)
    BY <1>4 DEF Next, Arrival, CreateBatch, RequestRecord, RequestRecall, Begin, SetActorStatus,
       SetActorRole, Step, Interrupted, LockBatch, HandOff, InsertEvent, StoreAnomalies, AdvanceStage,
       CommitRecord, MarkRecalled, CommitRecall, Rollback, Committed, vars
  <2>2. dto[r].batch \in Batches /\ RequestTells(r) /\ found[r] \subseteq Anomalies
    BY DEF Typing, TypeOK, Dtos, TruthTold
  <2>3. CASE EmitRecall(r)
    <3>1. /\ p.kind = "recall" /\ p.batch = dto[r].batch /\ p.to = recipients[r]
          /\ pc[r] = "emit_recall"
      BY <1>4, <2>3 DEF EmitRecall
    <3> QED BY <1>1, <2>2, <3>1 DEF RequestTells
  <2>4. CASE EmitAnomalies(r)
    <3>1. PICK x \in found[r] :
            /\ p.kind = "anomaly" /\ p.batch = dto[r].batch /\ p.to = recipients[r]
            /\ p.type = x.type /\ p.eventSeq = x.eventSeq /\ pc[r] = "emit_anomalies"
      BY <1>4, <2>4 DEF EmitAnomalies
    <3>2. x \in Anomalies /\ x = [type |-> p.type, eventSeq |-> p.eventSeq]
      BY <2>2, <3>1 DEF Anomalies
    <3> QED BY <1>2, <2>2, <3>1, <3>2 DEF RequestTells
  <2> QED BY <2>1, <2>3, <2>4
<1> QED BY <1>3, <1>4

\* Nobody is told of an anomaly or a recall that is not in the ledger, though
\* the push is made after the commit, from values kept in the request.
THEOREM PushesStayTrue == Spec => []PushesAreTrue
<1>1. Typing /\ TransactionsIsolated /\ TruthTold /\ [Next]_vars => TruthTold'
  BY RequestsTell, PushesTell DEF TruthTold
<1>2. TruthTold => PushesAreTrue
  BY DEF TruthTold, PushesAreTrue, PushTells, RecallTold, AnomalyTold
<1> QED BY <1>1, <1>2, TruthStart, Isolation, PTL DEF Spec

-----------------------------------------------------------------------------
(* The audit log                                                           *)

EventAudited(b) ==
  /\ \A x \in auditLog : x.action = "EVENT_RECORDED" /\ x.entity[1] = b =>
       \E i \in 1..Len(events[b]) : x.actorId = events[b][i].actorId /\ x.entity = <<b, i - 1>>
  /\ \A i \in 1..Len(events[b]) :
       AuditEntry("EVENT_RECORDED", events[b][i].actorId, <<b, i - 1>>) \in auditLog

RecallsOf(b) == {x \in auditLog : x.action = "BATCH_RECALLED" /\ x.entity = <<b>>}

RecallAudited(b) ==
  /\ \A x, y \in RecallsOf(b) : x = y
  /\ batches[b].isRecalled <=> RecallsOf(b) # {}

Audited == \A b \in Batches : EventAudited(b) /\ RecallAudited(b)

LEMMA AuditStart == Init => Audited
  BY DEF Init, NoRow, Audited, EventAudited, RecallAudited, RecallsOf

\* A step that writes neither an event of b nor a recall of it.
LEMMA NotAudited ==
  ASSUME Audited, NEW b \in Batches, events'[b] = events[b],
         batches'[b].isRecalled = batches[b].isRecalled,
         auditLog \subseteq auditLog',
         \A x \in auditLog' \ auditLog : /\ ~(x.action = "EVENT_RECORDED" /\ x.entity[1] = b)
                                         /\ ~(x.action = "BATCH_RECALLED" /\ x.entity = <<b>>)
  PROVE  EventAudited(b)' /\ RecallAudited(b)'
<1>1. EventAudited(b) /\ RecallAudited(b)
  BY DEF Audited
<1>2. EventAudited(b)'
  BY <1>1 DEF EventAudited
<1>3. RecallsOf(b)' = RecallsOf(b)
  BY DEF RecallsOf
<1>4. RecallAudited(b)'
  BY <1>1, <1>3 DEF RecallAudited
<1> QED BY <1>2, <1>4

LEMMA AuditStep ==
  ASSUME Typing, TransactionsIsolated, Audited, [Next]_vars
  PROVE  Audited'
<1> SUFFICES ASSUME NEW b \in Batches PROVE EventAudited(b)' /\ RecallAudited(b)'
  BY DEF Audited
<1>0. EventAudited(b) /\ RecallAudited(b)
  BY DEF Audited
<1>1. ASSUME UNCHANGED <<batches, events, auditLog>> PROVE EventAudited(b)' /\ RecallAudited(b)'
  BY <1>1, NotAudited
<1>2. ASSUME NEW action, NEW a, NEW entity, action \notin {"EVENT_RECORDED", "BATCH_RECALLED"},
             auditLog' = auditLog \cup {AuditEntry(action, a, entity)},
             events' = events, batches'[b].isRecalled = batches[b].isRecalled
      PROVE  EventAudited(b)' /\ RecallAudited(b)'
  BY <1>2, NotAudited DEF AuditEntry
<1>3. CASE Arrival
  <2>1. ASSUME NEW a \in Actors, NEW c \in Batches, CreateBatch(a, c)
        PROVE  EventAudited(b)' /\ RecallAudited(b)'
    <3>1. /\ ~Exists(c) => batches[c] = NoRow
          /\ ~Exists(c) /\ batches' = [batches EXCEPT ![c] = [NoRow EXCEPT !.createdBy = a, !.assignedTo = a]]
          /\ events' = events /\ auditLog' = auditLog \cup {AuditEntry("BATCH_CREATED", a, <<c>>)}
      BY <2>1 DEF CreateBatch, TransactionsIsolated, BatchInv
    <3>2. batches'[b].isRecalled = batches[b].isRecalled
      BY <3>1 DEF NoRow, Typing, TypeOK
    <3> QED BY <1>2, <3>1, <3>2
  <2>2. ASSUME NEW r \in Requests, NEW a \in Actors, NEW c \in Batches,
               \/ \E stage \in DtoStages, next \in ActorRefs : RequestRecord(r, a, c, stage, next)
               \/ RequestRecall(r, a, c)
        PROVE  EventAudited(b)' /\ RecallAudited(b)'
    BY <1>1, <2>2 DEF RequestRecord, RequestRecall, Begin, tables
  <2>3. ASSUME NEW adm \in Actors, NEW t \in ManagedActors, NEW on \in BOOLEAN, SetActorStatus(adm, t, on)
        PROVE  EventAudited(b)' /\ RecallAudited(b)'
    BY <1>2, <2>3 DEF SetActorStatus
  <2>4. ASSUME NEW adm \in Actors, NEW t \in ManagedActors, NEW role \in GivenRoles, SetActorRole(adm, t, role)
        PROVE  EventAudited(b)' /\ RecallAudited(b)'
    BY <1>2, <2>4 DEF SetActorRole
  <2> QED BY <1>3, <2>1, <2>2, <2>3, <2>4 DEF Arrival
<1>4. ASSUME NEW r \in Requests, Rollback(r) PROVE EventAudited(b)' /\ RecallAudited(b)'
  BY <1>1, <1>4 DEF Rollback, tables
<1>5. ASSUME NEW r \in Requests, Step(r), ~CommitRecord(r), ~CommitRecall(r)
      PROVE  EventAudited(b)' /\ RecallAudited(b)'
  <2>1. CASE Rollback(r)
    BY <1>4, <2>1
  <2>2. CASE ~Rollback(r)
    <3>1. UNCHANGED <<batches, events, auditLog>>
      BY <1>5, <2>2 DEF Step, LockBatch, HandOff, InsertEvent, StoreAnomalies, AdvanceStage,
         EmitAnomalies, MarkRecalled, EmitRecall, tables
    <3> QED BY <1>1, <3>1
  <2> QED BY <2>1, <2>2
<1>6. ASSUME NEW r \in Requests, CommitRecord(r) PROVE EventAudited(b)' /\ RecallAudited(b)'
  <2>1. PICK c \in Batches, e \in TraceEvents : c = dto[r].batch /\ e = draft[r]
    BY <1>6, CommittedEvent
  <2>2. /\ e.actorId = dto[r].actorId /\ e.sequenceNumber = Len(events[c])
        /\ events' = [events EXCEPT ![c] = Append(@, e)]
        /\ batches' = [batches EXCEPT ![c] = mine[r]]
        /\ mine[r].isRecalled = FALSE /\ ~batches[c].isRecalled
    BY <1>6, <2>1, CommittedEvent
  <2>3. /\ batches'[b].isRecalled = batches[b].isRecalled
        /\ c # b => events'[b] = events[b] /\ batches'[b] = batches[b]
        /\ c = b => events'[b] = Append(events[b], e)
    <3>1. batches[c] \in BatchRows
      BY DEF Typing, TypeOK
    <3> QED BY <2>2, <3>1 DEF Typing, TypeOK, BatchRows
  <2>4. auditLog' = auditLog \cup {AuditEntry("EVENT_RECORDED", e.actorId, <<c, e.sequenceNumber>>)}
    BY <1>6, <2>1, <2>2 DEF CommitRecord
  <2>5. CASE c # b
    BY <2>3, <2>4, <2>5, NotAudited DEF AuditEntry
  <2>6. CASE c = b
    <3>1. PICK evs \in Seq(TraceEvents) : evs = events[b]
      BY DEF Typing, TypeOK
    <3>2. /\ Len(evs) \in Nat /\ Len(Append(evs, e)) = Len(evs) + 1
          /\ Append(evs, e)[Len(evs) + 1] = e
          /\ \A i \in 1..Len(evs) : Append(evs, e)[i] = evs[i]
          /\ \A i \in 1..(Len(evs) + 1) : i \in 1..Len(evs) \/ i = Len(evs) + 1
          /\ Len(evs) + 1 \in 1..(Len(evs) + 1) /\ (Len(evs) + 1) - 1 = Len(evs)
          /\ \A i \in 1..Len(evs) : i \in 1..(Len(evs) + 1)
      OBVIOUS
    <3>3. PICK n : n = Len(evs) + 1
      OBVIOUS
    <3>4. /\ events'[b] = Append(evs, e) /\ e.sequenceNumber = n - 1
          /\ auditLog' = auditLog \cup {AuditEntry("EVENT_RECORDED", e.actorId, <<b, n - 1>>)}
      BY <2>2, <2>3, <2>4, <2>6, <3>1, <3>2, <3>3
    <3>5. ASSUME NEW x \in auditLog', x.action = "EVENT_RECORDED", x.entity[1] = b
          PROVE  \E i \in 1..Len(events'[b]) : x.actorId = events'[b][i].actorId /\ x.entity = <<b, i - 1>>
      <4>1. CASE x \in auditLog
        <5>1. PICK i \in 1..Len(evs) : x.actorId = evs[i].actorId /\ x.entity = <<b, i - 1>>
          BY <1>0, <3>1, <3>5, <4>1 DEF EventAudited
        <5> QED BY <3>2, <3>4, <5>1
      <4>2. CASE x \notin auditLog
        <5>1. x.actorId = e.actorId /\ x.entity = <<b, n - 1>>
          BY <3>4, <4>2 DEF AuditEntry
        <5>2. n \in 1..Len(events'[b]) /\ events'[b][n] = e
          BY <3>2, <3>3, <3>4
        <5> QED BY <5>1, <5>2
      <4> QED BY <4>1, <4>2
    <3>6. ASSUME NEW i \in 1..Len(events'[b])
          PROVE  AuditEntry("EVENT_RECORDED", events'[b][i].actorId, <<b, i - 1>>) \in auditLog'
      <4>1. CASE i = n
        BY <3>2, <3>3, <3>4, <4>1
      <4>2. CASE i # n
        <5>1. i \in 1..Len(evs) /\ events'[b][i] = evs[i]
          BY <3>2, <3>3, <3>4, <4>2
        <5> QED BY <1>0, <3>1, <3>4, <5>1 DEF EventAudited
      <4> QED BY <4>1, <4>2
    <3>7. EventAudited(b)'
      BY <3>5, <3>6 DEF EventAudited
    <3>8. \A x \in auditLog' : x.action = "BATCH_RECALLED" => x \in auditLog
      BY <3>4 DEF AuditEntry
    <3>9. RecallsOf(b)' = RecallsOf(b)
      BY <3>4, <3>8 DEF RecallsOf
    <3>10. RecallAudited(b)'
      BY <1>0, <2>3, <3>9 DEF RecallAudited
    <3> QED BY <3>7, <3>10
  <2> QED BY <2>5, <2>6
<1>7. ASSUME NEW r \in Requests, CommitRecall(r) PROVE EventAudited(b)' /\ RecallAudited(b)'
  <2>1. PICK c \in Batches : c = dto[r].batch
    BY DEF Typing, TypeOK, Dtos
  <2>2. /\ ~batches[c].isRecalled /\ events' = events /\ batches[c] \in BatchRows
        /\ batches' = [batches EXCEPT ![c] = [@ EXCEPT !.isRecalled = TRUE]]
    BY <1>7, <2>1, CommittedRecall DEF Typing, TypeOK
  <2>3. /\ c # b => batches'[b] = batches[b]
        /\ c = b => batches'[b].isRecalled
    BY <2>2 DEF Typing, TypeOK, BatchRows
  <2>4. PICK a : a = dto[r].actorId
    OBVIOUS
  <2>5. auditLog' = auditLog \cup {AuditEntry("BATCH_RECALLED", a, <<c>>)}
    BY <1>7, <2>1, <2>4 DEF CommitRecall
  <2>6. CASE c # b
    <3>1. \A x \in auditLog' \ auditLog : x.action = "BATCH_RECALLED" /\ x.entity = <<c>>
      BY <2>5 DEF AuditEntry
    <3>2. <<c>> # <<b>>
      BY <2>6
    <3>3. /\ auditLog \subseteq auditLog' /\ events'[b] = events[b]
          /\ batches'[b].isRecalled = batches[b].isRecalled
      BY <2>2, <2>3, <2>5, <2>6
    <3>4. \A x \in auditLog' \ auditLog : /\ ~(x.action = "EVENT_RECORDED" /\ x.entity[1] = b)
                                          /\ ~(x.action = "BATCH_RECALLED" /\ x.entity = <<b>>)
      BY <3>1, <3>2
    <3> QED BY <3>3, <3>4, NotAudited
  <2>7. CASE c = b
    <3>1. RecallsOf(b) = {}
      BY <1>0, <2>2, <2>7 DEF RecallAudited
    <3>2. RecallsOf(b)' = {AuditEntry("BATCH_RECALLED", a, <<b>>)}
      BY <2>5, <2>7, <3>1 DEF RecallsOf, AuditEntry
    <3>3. RecallAudited(b)'
      BY <2>3, <2>7, <3>2 DEF RecallAudited
    <3>4. \A x \in auditLog' : x.action = "EVENT_RECORDED" => x \in auditLog
      BY <2>5 DEF AuditEntry
    <3>5. EventAudited(b)'
      BY <1>0, <2>2, <2>5, <3>4 DEF EventAudited
    <3> QED BY <3>3, <3>5
  <2> QED BY <2>6, <2>7
<1>8. CASE UNCHANGED vars
  BY <1>1, <1>8 DEF vars, tables
<1> QED BY <1>3, <1>4, <1>5, <1>6, <1>7, <1>8 DEF Next, Interrupted

\* The audit log and the ledger always say the same, since each entry is
\* written by the transaction that writes the row.
THEOREM AuditIsExact == Spec => []AuditMatchesLedger
<1>1. Typing /\ TransactionsIsolated /\ Audited /\ [Next]_vars => Audited'
  BY AuditStep
<1>2. Audited => AuditMatchesLedger
  <2> SUFFICES ASSUME Audited, NEW b \in Batches
               PROVE  /\ {<<e.actorId, e.entity>> : e \in {x \in auditLog : x.action = "EVENT_RECORDED" /\ x.entity[1] = b}}
                           = {<<events[b][i].actorId, <<b, i - 1>> >> : i \in 1..Len(events[b])}
                      /\ LET recalls == {e \in auditLog : e.action = "BATCH_RECALLED" /\ e.entity = <<b>>}
                         IN IF batches[b].isRecalled THEN \E e \in recalls : recalls = {e} ELSE recalls = {}
    BY DEF AuditMatchesLedger
  <2>1. EventAudited(b) /\ RecallAudited(b)
    BY DEF Audited
  <2> DEFINE said == {x \in auditLog : x.action = "EVENT_RECORDED" /\ x.entity[1] = b}
             recalls == {e \in auditLog : e.action = "BATCH_RECALLED" /\ e.entity = <<b>>}
  <2>2. ASSUME NEW e \in said
        PROVE  \E i \in 1..Len(events[b]) : <<e.actorId, e.entity>> = <<events[b][i].actorId, <<b, i - 1>> >>
    BY <2>1 DEF EventAudited
  <2>3. ASSUME NEW i \in 1..Len(events[b])
        PROVE  \E e \in said : <<e.actorId, e.entity>> = <<events[b][i].actorId, <<b, i - 1>> >>
    <3>1. AuditEntry("EVENT_RECORDED", events[b][i].actorId, <<b, i - 1>>) \in auditLog
      BY <2>1 DEF EventAudited
    <3>2. <<b, i - 1>>[1] = b
      OBVIOUS
    <3> QED BY <3>1, <3>2 DEF AuditEntry
  <2>4. {<<e.actorId, e.entity>> : e \in said} = {<<events[b][i].actorId, <<b, i - 1>> >> : i \in 1..Len(events[b])}
    <3> HIDE DEF said
    <3>1. \A z : (\E e \in said : z = <<e.actorId, e.entity>>)
                 <=> \E i \in 1..Len(events[b]) : z = <<events[b][i].actorId, <<b, i - 1>> >>
      BY <2>2, <2>3
    <3> QED BY <3>1
  <2>5. IF batches[b].isRecalled THEN \E e \in recalls : recalls = {e} ELSE recalls = {}
    BY <2>1 DEF RecallAudited, RecallsOf
  <2> QED BY <2>4, <2>5
<1> QED BY <1>1, <1>2, AuditStart, Isolation, PTL DEF Spec

=============================================================================
