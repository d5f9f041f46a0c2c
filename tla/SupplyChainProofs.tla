------------------------- MODULE SupplyChainProofs --------------------------
(***************************************************************************)
(* Proofs about SupplyChain, for any number of requests, batches, actors   *)
(* and events.                                                             *)
(***************************************************************************)
EXTENDS SupplyChainInv, TLAPS

-----------------------------------------------------------------------------
(* Typing *)

LEMMA NoRowType == NoRow \in BatchRows
  BY DEF NoRow, BatchRows, ActorRefs, GENESIS_HASH, Hashes, NotStarted

LEMMA NoDtoType == NoDto \in Dtos
  BY ActorAssumption DEF NoDto, Dtos, ActorRefs, Roles, ROLE_STAGES, Stages,
     HARVEST, PROCESSING, QUALITY_CHECK, PACKAGING, DISTRIBUTION, RETAIL

LEMMA StageTypes == Stages = 0..5 /\ NotStarted = -1 /\ TerminalStage = 5 /\ HARVEST \in Stages
  BY DEF Stages, HARVEST, RETAIL, TerminalStage, NotStarted

LEMMA AppendType ==
  ASSUME NEW S, NEW s \in Seq(S), NEW e \in S
  PROVE  Append(s, e) \in Seq(S)
  OBVIOUS

\* The event recordEvent builds is a well-formed trace event.
LEMMA NewEventType ==
  ASSUME TypeOK, NEW r \in Requests, NEW salt \in Salts, dto[r].actorId \in Actors
  PROVE  /\ NewEvent(r, salt) \in TraceEvents
         /\ NewEvent(r, salt).batchId = dto[r].batch
         /\ NewEvent(r, salt).sequenceNumber = seen[r].eventCount
         /\ NewEvent(r, salt).prevHash = seen[r].headHash
         /\ NewEvent(r, salt).stage = dto[r].stage
         /\ NewEvent(r, salt).actorId = dto[r].actorId
         /\ NewEvent(r, salt).hashVersion = 2
         /\ NewEvent(r, salt).salt = salt
         /\ NewEvent(r, salt).hash = ComputeHash(NewEvent(r, salt))
<1> DEFINE u == [batchId        |-> dto[r].batch,
                 sequenceNumber |-> seen[r].eventCount,
                 prevHash       |-> seen[r].headHash,
                 hash           |-> GENESIS_HASH,
                 hashVersion    |-> CURRENT_HASH_VERSION,
                 salt           |-> salt,
                 stage          |-> dto[r].stage,
                 actorId        |-> dto[r].actorId]
<1>1. dto[r] \in Dtos /\ seen[r] \in BatchRows
  BY DEF TypeOK
<1>2. Preimage(u) = [v |-> 2, salt |-> salt, batchId |-> dto[r].batch,
                     sequenceNumber |-> seen[r].eventCount,
                     stage |-> dto[r].stage, actorId |-> dto[r].actorId]
  BY DEF Preimage, CURRENT_HASH_VERSION
<1>3. Preimage(u) \in Preimages
  BY <1>1, <1>2 DEF Preimages, Dtos, BatchRows
<1>4. ComputeHash(u) = Append(seen[r].headHash, Preimage(u))
  BY DEF ComputeHash
<1>5. ComputeHash(u) \in Hashes
  <2>1. seen[r].headHash \in Seq(Preimages)
    BY <1>1 DEF BatchRows, Hashes
  <2>2. Append(seen[r].headHash, Preimage(u)) \in Seq(Preimages)
    BY <2>1, <1>3, AppendType
  <2> QED BY <2>2, <1>4 DEF Hashes
<1>6. NewEvent(r, salt) = [u EXCEPT !.hash = ComputeHash(u)]
  BY DEF NewEvent
<1>7. NewEvent(r, salt) = [batchId        |-> dto[r].batch,
                           sequenceNumber |-> seen[r].eventCount,
                           prevHash       |-> seen[r].headHash,
                           hash           |-> ComputeHash(u),
                           hashVersion    |-> 2,
                           salt           |-> salt,
                           stage          |-> dto[r].stage,
                           actorId        |-> dto[r].actorId]
  BY <1>6 DEF CURRENT_HASH_VERSION
<1>8. ComputeHash(NewEvent(r, salt)) = ComputeHash(u)
  BY <1>7 DEF ComputeHash, Preimage, CURRENT_HASH_VERSION
<1> HIDE DEF u
<1> QED
  BY <1>1, <1>5, <1>7, <1>8 DEF TraceEvents, Dtos, BatchRows

\* What the pc adds to TypeOK: a request being served has an actor, and one
\* that has built its event has an event.
PcTyping ==
  \A r \in Requests :
    /\ pc[r] # "idle" => dto[r].actorId \in Actors
    /\ pc[r] \in HasEvent => draft[r] \in TraceEvents

Typing == TypeOK /\ PcTyping

LEMMA InitTyping == Init => Typing
<1> SUFFICES ASSUME Init PROVE Typing
  OBVIOUS
<1>1. TypeOK
  BY NoRowType, NoDtoType, ActorAssumption
     DEF Init, TypeOK, PcValues, ActorRows, ActorRefs
<1>2. PcTyping
  BY DEF Init, PcTyping, HasEvent
<1> QED BY <1>1, <1>2 DEF Typing

\* The anomalies of a well-typed history are well-typed.
LEMMA DetectType ==
  ASSUME NEW evs \in Seq(TraceEvents)
  PROVE  DetectNewAnomalies(evs) \in SUBSET Anomalies
<1>1. ASSUME NEW i \in 1..Len(evs) PROVE AnomaliesAt(evs, i) \subseteq Anomalies
  <2>1. evs[i] \in TraceEvents
    BY <1>1
  <2>2. evs[i].sequenceNumber \in Nat
    BY <2>1 DEF TraceEvents
  <2>3. TypesAt(evs, i) \subseteq StageAnomalyTypes
    BY DEF TypesAt, StageAnomalyTypes
  <2> QED BY <2>2, <2>3 DEF AnomaliesAt, Anomalies
<1>2. DetectAnomalies(evs) \subseteq Anomalies
  BY <1>1 DEF DetectAnomalies
<1> QED BY <1>2 DEF DetectNewAnomalies

LEMMA InvolvedType ==
  ASSUME NEW evs \in Seq(TraceEvents), NEW c \in ActorRefs, NEW a \in ActorRefs
  PROVE  InvolvedActorIds(evs, c, a) \in SUBSET Actors
<1>1. \A i \in 1..Len(evs) : evs[i] \in TraceEvents
  OBVIOUS
<1>2. \A i \in 1..Len(evs) : evs[i].actorId \in Actors
  BY <1>1 DEF TraceEvents
<1> QED BY <1>2 DEF InvolvedActorIds, ActorRefs

LEMMA ForgetTyping ==
  ASSUME Typing, NEW r \in Requests, Forget(r), UNCHANGED <<batches, events, anomalies>>
  PROVE  /\ pc' \in [Requests -> PcValues]
         /\ dto' \in [Requests -> Dtos]
         /\ seen' \in [Requests -> BatchRows]
         /\ mine' \in [Requests -> BatchRows]
         /\ nextAssignee' \in [Requests -> ActorRefs]
         /\ draft' \in [Requests -> TraceEvents \cup {NoEvent}]
         /\ found' \in [Requests -> SUBSET Anomalies]
         /\ recipients' \in [Requests -> SUBSET Actors]
         /\ PcTyping'
<1>1. PcTyping'
  BY DEF Forget, Typing, TypeOK, PcTyping, HasEvent
<1> QED
  BY <1>1, NoRowType, NoDtoType DEF Forget, Typing, TypeOK, PcValues, ActorRefs

LEMMA RollbackTyping ==
  ASSUME Typing, NEW r \in Requests, Rollback(r)
  PROVE  Typing'
<1>1. lock' \in [Batches -> Requests \cup {Free}]
  BY DEF Rollback, LocksWithout, Typing, TypeOK
<1>2. UNCHANGED <<batches, events, anomalies, auditLog, actors, pushes>> /\ Forget(r)
  BY DEF Rollback, tables
<1>3. TypeOK'
  BY <1>1, <1>2, ForgetTyping DEF Typing, TypeOK
<1> QED
  BY <1>2, <1>3, ForgetTyping DEF Typing

\* What the three UPDATEs of a batch row leave of it.
LEMMA RowUpdateType ==
  ASSUME NEW row \in BatchRows
  PROVE  /\ [row EXCEPT !.isRecalled = TRUE] \in BatchRows
         /\ \A h \in Hashes :
              [row EXCEPT !.headHash = h, !.eventCount = @ + 1] \in BatchRows
         /\ \A s \in Stages, a \in ActorRefs :
              [row EXCEPT !.currentStage = s, !.assignedTo = a] \in BatchRows
<1>1. [row EXCEPT !.isRecalled = TRUE] \in BatchRows
  BY DEF BatchRows
<1>2. ASSUME NEW h \in Hashes
      PROVE  [row EXCEPT !.headHash = h, !.eventCount = @ + 1] \in BatchRows
  <2>1. row.eventCount + 1 \in Nat
    BY DEF BatchRows
  <2>2. ASSUME NEW n \in Nat
        PROVE  [row EXCEPT !.headHash = h, !.eventCount = n] \in BatchRows
    BY DEF BatchRows
  <2> QED BY <2>1, <2>2
<1>3. ASSUME NEW s \in Stages, NEW a \in ActorRefs
      PROVE  [row EXCEPT !.currentStage = s, !.assignedTo = a] \in BatchRows
  BY DEF BatchRows
<1> QED BY <1>1, <1>2, <1>3

LEMMA BeginTyping ==
  ASSUME Typing, NEW r \in Requests, NEW a \in Actors, NEW b \in Batches,
         NEW stage \in Stages, NEW next \in ActorRefs,
         NEW at \in {"record_lock", "recall_update"},
         Begin(r, a, b, stage, next, at)
  PROVE  Typing'
<1>1. dto' \in [Requests -> Dtos]
  BY DEF Begin, Typing, TypeOK, Dtos, ActorRefs, ActorRows
<1>2. pc' \in [Requests -> PcValues]
  BY DEF Begin, Typing, TypeOK, PcValues
<1>3. TypeOK'
  BY <1>1, <1>2 DEF Begin, tables, Typing, TypeOK
<1>4. PcTyping'
  BY DEF Begin, Typing, TypeOK, PcTyping, HasEvent
<1> QED BY <1>3, <1>4 DEF Typing

LEMMA ArrivalTyping ==
  ASSUME Typing, Arrival
  PROVE  Typing'
<1>1. ASSUME NEW a \in Actors, NEW b \in Batches, CreateBatch(a, b)
      PROVE  Typing'
  <2>1. [NoRow EXCEPT !.createdBy = a, !.assignedTo = a] \in BatchRows
    BY NoRowType DEF BatchRows, ActorRefs
  <2>2. batches' \in [Batches -> BatchRows]
    BY <1>1, <2>1 DEF CreateBatch, Typing, TypeOK
  <2>3. \A e \in auditLog' : e.action \in AuditActions /\ e.actorId \in Actors
    BY <1>1 DEF CreateBatch, AuditEntry, AuditActions, Typing, TypeOK
  <2>4. TypeOK'
    BY <1>1, <2>2, <2>3 DEF CreateBatch, scratch, Typing, TypeOK
  <2> QED BY <1>1, <2>4 DEF CreateBatch, scratch, Typing, PcTyping
<1>2. ASSUME NEW r \in Requests, NEW a \in Actors, NEW b \in Batches,
             NEW stage \in DtoStages, NEW next \in ActorRefs,
             RequestRecord(r, a, b, stage, next)
      PROVE  Typing'
  BY <1>2, BeginTyping, ActorAssumption DEF RequestRecord
<1>3. ASSUME NEW r \in Requests, NEW a \in Actors, NEW b \in Batches, RequestRecall(r, a, b)
      PROVE  Typing'
  BY <1>3, BeginTyping, StageTypes DEF RequestRecall, ActorRefs
<1>4. ASSUME NEW adm \in Actors, NEW t \in ManagedActors, NEW isActive \in BOOLEAN,
             SetActorStatus(adm, t, isActive)
      PROVE  Typing'
  <2>1. actors' \in [Actors -> ActorRows]
    BY <1>4 DEF SetActorStatus, Typing, TypeOK, ActorRows
  <2>2. \A e \in auditLog' : e.action \in AuditActions /\ e.actorId \in Actors
    BY <1>4 DEF SetActorStatus, AuditEntry, AuditActions, Typing, TypeOK
  <2>3. TypeOK'
    BY <1>4, <2>1, <2>2 DEF SetActorStatus, scratch, Typing, TypeOK
  <2> QED BY <1>4, <2>3 DEF SetActorStatus, scratch, Typing, PcTyping
<1>5. ASSUME NEW adm \in Actors, NEW t \in ManagedActors, NEW role \in GivenRoles,
             SetActorRole(adm, t, role)
      PROVE  Typing'
  <2>1. actors' \in [Actors -> ActorRows]
    BY <1>5, ActorAssumption DEF SetActorRole, Typing, TypeOK, ActorRows
  <2>2. \A e \in auditLog' : e.action \in AuditActions /\ e.actorId \in Actors
    BY <1>5 DEF SetActorRole, AuditEntry, AuditActions, Typing, TypeOK
  <2>3. TypeOK'
    BY <1>5, <2>1, <2>2 DEF SetActorRole, scratch, Typing, TypeOK
  <2> QED BY <1>5, <2>3 DEF SetActorRole, scratch, Typing, PcTyping
<1> QED BY <1>1, <1>2, <1>3, <1>4, <1>5 DEF Arrival

LEMMA LockBatchTyping ==
  ASSUME Typing, NEW r \in Requests, LockBatch(r)
  PROVE  Typing'
<1>1. CASE Rollback(r)
  BY <1>1, RollbackTyping
<1>2. CASE ~Rollback(r)
  <2> DEFINE b == dto[r].batch
  <2>1. b \in Batches
    BY DEF Typing, TypeOK, Dtos
  <2>2. /\ pc[r] = "record_lock"
        /\ lock' = [lock EXCEPT ![b] = r]
        /\ seen' = [seen EXCEPT ![r] = batches[b]]
        /\ mine' = [mine EXCEPT ![r] = batches[b]]
        /\ pc' = [pc EXCEPT ![r] = "record_handoff"]
        /\ UNCHANGED <<tables, actors, dto, nextAssignee, draft, found, recipients, pushes>>
    BY <1>2 DEF LockBatch
  <2>3. TypeOK'
    BY <2>1, <2>2 DEF tables, Typing, TypeOK, PcValues, RecordPcs
  <2>4. PcTyping'
    BY <2>2 DEF Typing, TypeOK, PcTyping, HasEvent
  <2> QED BY <2>3, <2>4 DEF Typing
<1> QED BY <1>1, <1>2

LEMMA HandOffTyping ==
  ASSUME Typing, NEW r \in Requests, HandOff(r)
  PROVE  Typing'
<1>1. CASE Rollback(r)
  BY <1>1, RollbackTyping
<1>2. CASE ~Rollback(r)
  <2>1. PICK salt \in Salts :
          /\ pc[r] = "record_handoff"
          /\ nextAssignee' = [nextAssignee EXCEPT ![r] = ResolvedAssignee(r)]
          /\ draft' = [draft EXCEPT ![r] = NewEvent(r, salt)]
          /\ pc' = [pc EXCEPT ![r] = "record_insert"]
          /\ UNCHANGED <<tables, actors, lock, dto, seen, mine, found, recipients, pushes>>
    BY <1>2 DEF HandOff
  <2>2. dto[r].actorId \in Actors
    BY <2>1 DEF Typing, PcTyping
  <2>3. NewEvent(r, salt) \in TraceEvents
    BY <2>2, NewEventType DEF Typing
  <2>4. ResolvedAssignee(r) \in ActorRefs
    BY DEF ResolvedAssignee, Typing, TypeOK, Dtos, BatchRows, ActorRefs
  <2>5. TypeOK'
    BY <2>1, <2>3, <2>4 DEF tables, Typing, TypeOK, PcValues, RecordPcs
  <2>6. PcTyping'
    BY <2>1, <2>2, <2>3 DEF Typing, TypeOK, PcTyping, HasEvent
  <2> QED BY <2>5, <2>6 DEF Typing
<1> QED BY <1>1, <1>2

LEMMA InsertEventTyping ==
  ASSUME Typing, NEW r \in Requests, InsertEvent(r)
  PROVE  Typing'
<1>1. CASE Rollback(r)
  BY <1>1, RollbackTyping
<1>2. CASE ~Rollback(r)
  <2> DEFINE b == dto[r].batch
             row == [LatestRow(r) EXCEPT !.headHash = draft[r].hash, !.eventCount = @ + 1]
  <2>1. b \in Batches
    BY DEF Typing, TypeOK, Dtos
  <2>2. /\ pc[r] = "record_insert"
        /\ lock' = [lock EXCEPT ![b] = r]
        /\ mine' = [mine EXCEPT ![r] = row]
        /\ pc' = [pc EXCEPT ![r] = "record_detect"]
        /\ UNCHANGED <<tables, actors, dto, seen, nextAssignee, draft, found, recipients, pushes>>
    BY <1>2 DEF InsertEvent
  <2>3. draft[r] \in TraceEvents
    BY <2>2 DEF Typing, PcTyping, HasEvent
  <2>4. LatestRow(r) \in BatchRows
    BY <2>1 DEF LatestRow, Typing, TypeOK
  <2>5. row \in BatchRows
    BY <2>3, <2>4, RowUpdateType DEF TraceEvents
  <2>6. TypeOK'
    BY <2>1, <2>2, <2>5 DEF tables, Typing, TypeOK, PcValues, RecordPcs
  <2>7. PcTyping'
    BY <2>2, <2>3 DEF Typing, TypeOK, PcTyping, HasEvent
  <2> QED BY <2>6, <2>7 DEF Typing
<1> QED BY <1>1, <1>2

LEMMA AllEventsType ==
  ASSUME Typing, NEW r \in Requests, pc[r] \in HasEvent
  PROVE  AllEvents(r) \in Seq(TraceEvents)
<1>1. dto[r].batch \in Batches /\ draft[r] \in TraceEvents
  BY DEF Typing, TypeOK, PcTyping, Dtos
<1>2. events[dto[r].batch] \in Seq(TraceEvents)
  BY <1>1 DEF Typing, TypeOK
<1> QED BY <1>1, <1>2, AppendType DEF AllEvents

LEMMA StoreAnomaliesTyping ==
  ASSUME Typing, NEW r \in Requests, StoreAnomalies(r)
  PROVE  Typing'
<1>1. pc[r] \in HasEvent
  BY DEF StoreAnomalies, HasEvent
<1>2. DetectNewAnomalies(AllEvents(r)) \in SUBSET Anomalies
  BY <1>1, AllEventsType, DetectType
<1>3. TypeOK'
  BY <1>2 DEF StoreAnomalies, tables, Typing, TypeOK, PcValues, RecordPcs
<1>4. PcTyping'
  BY DEF StoreAnomalies, Typing, TypeOK, PcTyping, HasEvent
<1> QED BY <1>3, <1>4 DEF Typing

LEMMA AdvanceStageTyping ==
  ASSUME Typing, NEW r \in Requests, AdvanceStage(r)
  PROVE  Typing'
<1>1. CASE Rollback(r)
  BY <1>1, RollbackTyping
<1>2. CASE ~Rollback(r)
  <2> DEFINE row == IF IsAdvancing(r)
                    THEN [mine[r] EXCEPT !.currentStage = dto[r].stage,
                                         !.assignedTo = nextAssignee[r]]
                    ELSE mine[r]
  <2>1. /\ pc[r] = "record_advance"
        /\ mine' = [mine EXCEPT ![r] = row]
        /\ pc' = [pc EXCEPT ![r] = "record_commit"]
        /\ UNCHANGED <<tables, actors, lock, dto, seen, nextAssignee, draft,
                       found, recipients, pushes>>
    BY <1>2 DEF AdvanceStage
  <2>2. row \in BatchRows
    <3>1. mine[r] \in BatchRows /\ dto[r].stage \in Stages /\ nextAssignee[r] \in ActorRefs
      BY DEF Typing, TypeOK, Dtos
    <3> QED BY <3>1, RowUpdateType
  <2>3. TypeOK'
    BY <2>1, <2>2 DEF tables, Typing, TypeOK, PcValues, RecordPcs
  <2>4. PcTyping'
    BY <2>1 DEF Typing, TypeOK, PcTyping, HasEvent
  <2> QED BY <2>3, <2>4 DEF Typing
<1> QED BY <1>1, <1>2

LEMMA CommittedTyping ==
  ASSUME Typing, NEW r \in Requests, NEW next \in {"emit_anomalies", "emit_recall"},
         Committed(r, next), pc[r] # "idle", UNCHANGED <<dto, draft>>
  PROVE  /\ lock' \in [Batches -> Requests \cup {Free}]
         /\ pc' \in [Requests -> PcValues]
         /\ PcTyping'
<1>1. lock' \in [Batches -> Requests \cup {Free}]
  BY DEF Committed, LocksWithout, Typing, TypeOK
<1>2. pc' \in [Requests -> PcValues] /\ PcTyping'
  BY DEF Committed, Typing, TypeOK, PcTyping, HasEvent, PcValues
<1> QED BY <1>1, <1>2

LEMMA CommitRecordTyping ==
  ASSUME Typing, NEW r \in Requests, CommitRecord(r)
  PROVE  Typing'
<1> DEFINE b == dto[r].batch
<1>1. b \in Batches /\ pc[r] \in HasEvent /\ dto[r].actorId \in Actors
  BY DEF CommitRecord, HasEvent, Typing, TypeOK, PcTyping, Dtos
<1>2. AllEvents(r) \in Seq(TraceEvents)
  BY <1>1, AllEventsType
<1>3. InvolvedActorIds(AllEvents(r), seen[r].createdBy, nextAssignee[r]) \in SUBSET Actors
  BY <1>2, InvolvedType DEF Typing, TypeOK, BatchRows
<1>4. recipients' \in [Requests -> SUBSET Actors]
  BY <1>3 DEF CommitRecord, Typing, TypeOK
<1>5. \A e \in auditLog' : e.action \in AuditActions /\ e.actorId \in Actors
  BY <1>1 DEF CommitRecord, AuditEntry, AuditActions, Typing, TypeOK
<1>6. anomalies' \in [Batches -> SUBSET Anomalies]
  BY <1>1 DEF CommitRecord, Typing, TypeOK
<1>7. /\ batches' \in [Batches -> BatchRows]
      /\ events' \in [Batches -> Seq(TraceEvents)]
  BY <1>1, <1>2 DEF CommitRecord, Typing, TypeOK
<1>8. /\ lock' \in [Batches -> Requests \cup {Free}]
      /\ pc' \in [Requests -> PcValues]
      /\ PcTyping'
  BY CommittedTyping DEF CommitRecord
<1>9. TypeOK'
  BY <1>4, <1>5, <1>6, <1>7, <1>8 DEF CommitRecord, Committed, Typing, TypeOK
<1> QED BY <1>8, <1>9 DEF Typing

LEMMA MarkRecalledTyping ==
  ASSUME Typing, NEW r \in Requests, MarkRecalled(r)
  PROVE  Typing'
<1>1. CASE Rollback(r)
  BY <1>1, RollbackTyping
<1>2. CASE ~Rollback(r)
  <2> DEFINE b == dto[r].batch
  <2>1. b \in Batches
    BY DEF Typing, TypeOK, Dtos
  <2>2. /\ pc[r] = "recall_update"
        /\ lock' = [lock EXCEPT ![b] = r]
        /\ mine' = [mine EXCEPT ![r] = [batches[b] EXCEPT !.isRecalled = TRUE]]
        /\ pc' = [pc EXCEPT ![r] = "recall_commit"]
        /\ UNCHANGED <<tables, actors, dto, seen, nextAssignee, draft, found, recipients, pushes>>
    BY <1>2 DEF MarkRecalled
  <2>3. [batches[b] EXCEPT !.isRecalled = TRUE] \in BatchRows
    BY <2>1, RowUpdateType DEF Typing, TypeOK
  <2>4. TypeOK'
    BY <2>1, <2>2, <2>3 DEF tables, Typing, TypeOK, PcValues
  <2>5. PcTyping'
    BY <2>2 DEF Typing, TypeOK, PcTyping, HasEvent
  <2> QED BY <2>4, <2>5 DEF Typing
<1> QED BY <1>1, <1>2

LEMMA CommitRecallTyping ==
  ASSUME Typing, NEW r \in Requests, CommitRecall(r)
  PROVE  Typing'
<1> DEFINE b == dto[r].batch
<1>1. b \in Batches /\ dto[r].actorId \in Actors
  BY DEF CommitRecall, Typing, TypeOK, PcTyping, Dtos
<1>2. InvolvedActorIds(events[b], mine[r].createdBy, mine[r].assignedTo) \in SUBSET Actors
  BY <1>1, InvolvedType DEF Typing, TypeOK, BatchRows
<1>3. recipients' \in [Requests -> SUBSET Actors]
  BY <1>2 DEF CommitRecall, Typing, TypeOK
<1>4. \A e \in auditLog' : e.action \in AuditActions /\ e.actorId \in Actors
  BY <1>1 DEF CommitRecall, AuditEntry, AuditActions, Typing, TypeOK
<1>5. batches' \in [Batches -> BatchRows]
  BY <1>1 DEF CommitRecall, Typing, TypeOK
<1>6. /\ lock' \in [Batches -> Requests \cup {Free}]
      /\ pc' \in [Requests -> PcValues]
      /\ PcTyping'
  BY CommittedTyping DEF CommitRecall
<1>7. TypeOK'
  BY <1>3, <1>4, <1>5, <1>6 DEF CommitRecall, Committed, Typing, TypeOK
<1> QED BY <1>6, <1>7 DEF Typing

LEMMA EmitAnomaliesTyping ==
  ASSUME Typing, NEW r \in Requests, EmitAnomalies(r)
  PROVE  Typing'
<1>1. UNCHANGED <<batches, events, anomalies, auditLog, actors, lock>> /\ Forget(r)
  BY DEF EmitAnomalies, tables
<1>2. dto[r].batch \in Batches /\ found[r] \subseteq Anomalies /\ recipients[r] \in SUBSET Actors
  BY DEF Typing, TypeOK, Dtos
<1>3. ASSUME NEW a \in found[r]
      PROVE  [kind |-> "anomaly", batch |-> dto[r].batch, eventSeq |-> a.eventSeq,
              type |-> a.type, to |-> recipients[r]] \in Pushes
  BY <1>2 DEF Pushes, Anomalies
<1>4. pushes' \subseteq Pushes
  BY <1>3 DEF EmitAnomalies, Typing, TypeOK
<1>5. TypeOK'
  BY <1>1, <1>4, ForgetTyping DEF Typing, TypeOK
<1> QED BY <1>1, <1>5, ForgetTyping DEF Typing

LEMMA EmitRecallTyping ==
  ASSUME Typing, NEW r \in Requests, EmitRecall(r)
  PROVE  Typing'
<1>1. UNCHANGED <<batches, events, anomalies, auditLog, actors, lock>> /\ Forget(r)
  BY DEF EmitRecall, tables
<1>2. dto[r].batch \in Batches /\ recipients[r] \in SUBSET Actors
  BY DEF Typing, TypeOK, Dtos
<1>3. [kind |-> "recall", batch |-> dto[r].batch, to |-> recipients[r]] \in Pushes
  BY <1>2 DEF Pushes
<1>4. pushes' \subseteq Pushes
  BY <1>3 DEF EmitRecall, Typing, TypeOK
<1>5. TypeOK'
  BY <1>1, <1>4, ForgetTyping DEF Typing, TypeOK
<1> QED BY <1>1, <1>5, ForgetTyping DEF Typing

LEMMA NextTyping == Typing /\ [Next]_vars => Typing'
<1> SUFFICES ASSUME Typing, [Next]_vars PROVE Typing'
  OBVIOUS
<1>1. CASE Arrival
  BY <1>1, ArrivalTyping
<1>2. ASSUME NEW r \in Requests, Step(r) PROVE Typing'
  BY <1>2, LockBatchTyping, HandOffTyping, InsertEventTyping, StoreAnomaliesTyping,
     AdvanceStageTyping, CommitRecordTyping, EmitAnomaliesTyping, MarkRecalledTyping,
     CommitRecallTyping, EmitRecallTyping DEF Step
<1>3. ASSUME NEW r \in Requests, Interrupted(r) PROVE Typing'
  BY <1>3, RollbackTyping DEF Interrupted
<1>4. CASE UNCHANGED vars
  BY <1>4 DEF vars, tables, scratch, Typing, TypeOK, PcTyping
<1> QED BY <1>1, <1>2, <1>3, <1>4 DEF Next

\* Every reachable state is well-typed, a transaction's private copies
\* included: no request ever writes a row the schema would not hold.
THEOREM TypeCorrect == Spec => []TypeOK
<1>1. Typing => TypeOK
  BY DEF Typing
<1> QED BY <1>1, InitTyping, NextTyping, PTL DEF Spec

-----------------------------------------------------------------------------
(* Transactions are isolated.  A step of one request leaves the invariant  *)
(* of every other one alone, because it only writes a row whose lock it    *)
(* holds.                                                                  *)

LEMMA InitIsolated == Init => TransactionsIsolated
<1> SUFFICES ASSUME Init PROVE TransactionsIsolated
  OBVIOUS
<1>1. ASSUME NEW r \in Requests PROVE RequestInv(r)
  BY DEF Init, RequestInv, Locked, Holds, RecordPcs, ReadIsCurrent, DraftIsNext,
     HasEvent, OwnImage, FoundIsNew
<1>2. ASSUME NEW b \in Batches PROVE BatchInv(b)
  BY DEF Init, BatchInv, Linked, NoRow, EndHash, ExpectedPrevHash
<1> QED BY <1>1, <1>2 DEF TransactionsIsolated

\* What a step of request r leaves alone.
StepFrame(r) ==
  /\ \A q \in Requests \ {r} :
       /\ pc'[q] = pc[q] /\ dto'[q] = dto[q] /\ seen'[q] = seen[q]
       /\ mine'[q] = mine[q] /\ nextAssignee'[q] = nextAssignee[q]
       /\ draft'[q] = draft[q] /\ found'[q] = found[q]
  /\ \A c \in Batches : lock[c] \in Requests \ {r} =>
       lock'[c] = lock[c] /\ batches'[c] = batches[c] /\ events'[c] = events[c]

\* The frame of a request: nothing its invariant speaks of has changed.
LEMMA RequestFrame ==
  ASSUME Typing, NEW q \in Requests, RequestInv(q),
         pc'[q] = pc[q], dto'[q] = dto[q], seen'[q] = seen[q], mine'[q] = mine[q],
         nextAssignee'[q] = nextAssignee[q], draft'[q] = draft[q], found'[q] = found[q],
         Holds(q) => /\ lock'[dto[q].batch] = lock[dto[q].batch]
                     /\ batches'[dto[q].batch] = batches[dto[q].batch]
                     /\ events'[dto[q].batch] = events[dto[q].batch]
  PROVE  RequestInv(q)'
<1>1. Locked(q)'
  BY DEF RequestInv, Locked, Holds
<1>2. ReadIsCurrent(q)'
  BY DEF RequestInv, ReadIsCurrent, Holds, HasCustody
<1>3. DraftIsNext(q)'
  BY DEF RequestInv, DraftIsNext, NewEvent, ResolvedAssignee, IsAdvancing
<1>4. OwnImage(q)'
  BY DEF RequestInv, OwnImage, Holds, Appended, IsAdvancing, Exists
<1>5. FoundIsNew(q)'
  BY DEF RequestInv, FoundIsNew, Holds, AllEvents, RecordPcs
<1> QED BY <1>1, <1>2, <1>3, <1>4, <1>5 DEF RequestInv

LEMMA OthersIsolated ==
  ASSUME Typing, TransactionsIsolated, NEW r \in Requests, StepFrame(r),
         NEW q \in Requests \ {r}
  PROVE  RequestInv(q)'
<1>1. RequestInv(q) /\ dto[q].batch \in Batches
  BY DEF TransactionsIsolated, Typing, TypeOK, Dtos
<1>2. Holds(q) => lock[dto[q].batch] = q
  BY <1>1 DEF RequestInv, Locked
<1> QED BY <1>1, <1>2, RequestFrame DEF StepFrame

\* Nothing of a batch has changed.
LEMMA BatchFrame ==
  ASSUME NEW b \in Batches, BatchInv(b), batches'[b] = batches[b], events'[b] = events[b]
  PROVE  BatchInv(b)'
  BY DEF BatchInv, Exists, Linked

LEMMA RollbackIsolated ==
  ASSUME Typing, TransactionsIsolated, NEW r \in Requests, Rollback(r)
  PROVE  TransactionsIsolated'
<1>1. StepFrame(r)
  BY DEF Rollback, Forget, tables, LocksWithout, StepFrame, Typing, TypeOK
<1>2. RequestInv(r)'
  BY DEF Rollback, Forget, RequestInv, Locked, Holds, RecordPcs, ReadIsCurrent,
     DraftIsNext, HasEvent, OwnImage, FoundIsNew, Typing, TypeOK
<1>3. \A b \in Batches : BatchInv(b)'
  BY BatchFrame DEF Rollback, tables, TransactionsIsolated
<1> QED BY <1>1, <1>2, <1>3, OthersIsolated DEF TransactionsIsolated

LEMMA ArrivalIsolated ==
  ASSUME Typing, TransactionsIsolated, Arrival
  PROVE  TransactionsIsolated'
<1>1. ASSUME NEW a \in Actors, NEW b \in Batches, CreateBatch(a, b)
      PROVE  TransactionsIsolated'
  <2>1. ASSUME NEW q \in Requests PROVE RequestInv(q)'
    <3>1. RequestInv(q) /\ dto[q].batch \in Batches
      BY DEF TransactionsIsolated, Typing, TypeOK, Dtos
    <3>2. Holds(q) => Exists(dto[q].batch)
      BY <3>1 DEF Holds, RequestInv, ReadIsCurrent, OwnImage, Exists
    <3>3. Holds(q) => dto[q].batch # b
      BY <1>1, <3>2 DEF CreateBatch
    <3>4. Holds(q) => batches'[dto[q].batch] = batches[dto[q].batch]
      BY <1>1, <3>1, <3>3 DEF CreateBatch, Typing, TypeOK
    <3> QED BY <1>1, <3>1, <3>4, RequestFrame DEF CreateBatch, scratch
  <2>2. ASSUME NEW c \in Batches PROVE BatchInv(c)'
    <3>1. CASE c # b
      BY <1>1, <3>1, BatchFrame DEF CreateBatch, TransactionsIsolated, Typing, TypeOK
    <3>2. CASE c = b
      <4>1. batches[b] = NoRow /\ events[b] = << >> /\ Linked(b)
        BY <1>1 DEF CreateBatch, TransactionsIsolated, BatchInv
      <4>2. /\ batches'[b].createdBy = a /\ a # NoActor
            /\ batches'[b].headHash = batches[b].headHash
            /\ batches'[b].eventCount = batches[b].eventCount
            /\ events'[b] = events[b]
        BY <1>1, <4>1, ActorAssumption DEF CreateBatch, NoRow, Typing, TypeOK
      <4> QED BY <3>2, <4>1, <4>2 DEF BatchInv, Exists, Linked
    <3> QED BY <3>1, <3>2
  <2> QED BY <2>1, <2>2 DEF TransactionsIsolated
<1>2. ASSUME NEW r \in Requests, NEW a \in Actors, NEW b \in Batches,
             NEW stage \in Stages, NEW next \in ActorRefs,
             NEW at \in {"record_lock", "recall_update"},
             Begin(r, a, b, stage, next, at)
      PROVE  TransactionsIsolated'
  <2>1. StepFrame(r)
    BY <1>2 DEF Begin, tables, StepFrame, Typing, TypeOK
  <2>2. RequestInv(r)'
    BY <1>2 DEF Begin, RequestInv, Locked, Holds, RecordPcs, ReadIsCurrent,
       DraftIsNext, HasEvent, OwnImage, FoundIsNew, Typing, TypeOK
  <2>3. \A c \in Batches : BatchInv(c)'
    BY <1>2, BatchFrame DEF Begin, tables, TransactionsIsolated
  <2> QED BY <2>1, <2>2, <2>3, OthersIsolated DEF TransactionsIsolated
<1>3. ASSUME NEW adm \in Actors, NEW t \in ManagedActors,
             \/ \E isActive \in BOOLEAN : SetActorStatus(adm, t, isActive)
             \/ \E role \in GivenRoles : SetActorRole(adm, t, role)
      PROVE  TransactionsIsolated'
  <2>1. UNCHANGED <<batches, events, anomalies, lock, pc, scratch, pushes>>
    BY <1>3 DEF SetActorStatus, SetActorRole
  <2>2. \A q \in Requests : RequestInv(q)'
    BY <2>1, RequestFrame DEF scratch, TransactionsIsolated
  <2>3. \A c \in Batches : BatchInv(c)'
    BY <2>1, BatchFrame DEF TransactionsIsolated
  <2> QED BY <2>2, <2>3 DEF TransactionsIsolated
<1> QED
  BY <1>1, <1>2, <1>3, ActorAssumption, StageTypes
     DEF Arrival, RequestRecord, RequestRecall, ActorRefs

LEMMA LockBatchIsolated ==
  ASSUME Typing, TransactionsIsolated, NEW r \in Requests, LockBatch(r)
  PROVE  TransactionsIsolated'
<1>1. CASE Rollback(r)
  BY <1>1, RollbackIsolated
<1>2. CASE ~Rollback(r)
  <2> DEFINE b == dto[r].batch
  <2>1. b \in Batches
    BY DEF Typing, TypeOK, Dtos
  <2>2. /\ Visible(dto[r].actorId, b)
        /\ lock[b] = Free
        /\ ~batches[b].isRecalled
        /\ HasCustody(dto[r], batches[b])
        /\ lock' = [lock EXCEPT ![b] = r]
        /\ seen' = [seen EXCEPT ![r] = batches[b]]
        /\ mine' = [mine EXCEPT ![r] = batches[b]]
        /\ pc' = [pc EXCEPT ![r] = "record_handoff"]
        /\ UNCHANGED <<tables, actors, dto, nextAssignee, draft, found, recipients, pushes>>
    BY <1>2 DEF LockBatch, LockFree
  <2>3. StepFrame(r)
    BY <2>1, <2>2, ActorAssumption DEF StepFrame, tables, Typing, TypeOK
  <2>4. /\ lock'[b] = r /\ pc'[r] = "record_handoff" /\ dto' = dto
        /\ seen'[r] = batches[b] /\ mine'[r] = batches[b] /\ batches' = batches
    BY <2>1, <2>2 DEF tables, Typing, TypeOK
  <2>5. RequestInv(r)'
    BY <2>2, <2>4 DEF Visible, Exists, RequestInv, Locked, ReadIsCurrent, DraftIsNext,
       HasEvent, OwnImage, FoundIsNew, HasCustody
  <2>6. \A c \in Batches : BatchInv(c)'
    BY <2>2, BatchFrame DEF tables, TransactionsIsolated
  <2> QED BY <2>3, <2>5, <2>6, OthersIsolated DEF TransactionsIsolated
<1> QED BY <1>1, <1>2

LEMMA HandOffIsolated ==
  ASSUME Typing, TransactionsIsolated, NEW r \in Requests, HandOff(r)
  PROVE  TransactionsIsolated'
<1>1. CASE Rollback(r)
  BY <1>1, RollbackIsolated
<1>2. CASE ~Rollback(r)
  <2>1. PICK salt \in Salts :
          /\ pc[r] = "record_handoff"
          /\ nextAssignee' = [nextAssignee EXCEPT ![r] = ResolvedAssignee(r)]
          /\ draft' = [draft EXCEPT ![r] = NewEvent(r, salt)]
          /\ pc' = [pc EXCEPT ![r] = "record_insert"]
          /\ UNCHANGED <<tables, actors, lock, dto, seen, mine, found, recipients, pushes>>
    BY <1>2 DEF HandOff
  <2>2. StepFrame(r)
    BY <2>1 DEF StepFrame, tables, Typing, TypeOK
  <2>3. /\ pc'[r] = "record_insert" /\ draft'[r] = NewEvent(r, salt)
        /\ nextAssignee'[r] = ResolvedAssignee(r)
        /\ batches' = batches /\ lock' = lock /\ dto' = dto /\ seen' = seen /\ mine' = mine
    BY <2>1 DEF tables, Typing, TypeOK
  <2>4. DraftIsNext(r)'
    BY <2>3 DEF DraftIsNext, NewEvent, ResolvedAssignee, IsAdvancing
  <2>5. Locked(r)' /\ ReadIsCurrent(r)' /\ OwnImage(r)' /\ FoundIsNew(r)'
    BY <2>1, <2>3 DEF TransactionsIsolated, RequestInv, Locked, Holds, RecordPcs,
       ReadIsCurrent, OwnImage, FoundIsNew, HasCustody
  <2>6. \A c \in Batches : BatchInv(c)'
    BY <2>1, BatchFrame DEF tables, TransactionsIsolated
  <2> QED BY <2>2, <2>4, <2>5, <2>6, OthersIsolated DEF TransactionsIsolated, RequestInv
<1> QED BY <1>1, <1>2

LEMMA InsertEventIsolated ==
  ASSUME Typing, TransactionsIsolated, NEW r \in Requests, InsertEvent(r)
  PROVE  TransactionsIsolated'
<1>1. CASE Rollback(r)
  BY <1>1, RollbackIsolated
<1>2. CASE ~Rollback(r)
  <2> DEFINE b == dto[r].batch
  <2>1. b \in Batches /\ RequestInv(r)
    BY DEF Typing, TypeOK, Dtos, TransactionsIsolated
  <2>2. /\ pc[r] = "record_insert"
        /\ lock' = [lock EXCEPT ![b] = r]
        /\ mine' = [mine EXCEPT ![r] = [LatestRow(r) EXCEPT
                        !.headHash = draft[r].hash, !.eventCount = @ + 1]]
        /\ pc' = [pc EXCEPT ![r] = "record_detect"]
        /\ UNCHANGED <<tables, actors, dto, seen, nextAssignee, draft, found, recipients, pushes>>
    BY <1>2 DEF InsertEvent
  <2>3. lock[b] = r /\ mine[r] = seen[r]
    BY <2>1, <2>2 DEF RequestInv, Locked, Holds, RecordPcs, OwnImage
  <2>4. StepFrame(r)
    BY <2>1, <2>2, <2>3 DEF StepFrame, tables, Typing, TypeOK
  <2>5. /\ pc'[r] = "record_detect" /\ mine'[r] = Appended(r) /\ lock'[b] = r
        /\ batches' = batches /\ dto' = dto /\ seen' = seen /\ draft' = draft
        /\ nextAssignee' = nextAssignee
    BY <2>1, <2>2, <2>3 DEF LatestRow, Appended, tables, Typing, TypeOK
  <2>6. Locked(r)' /\ ReadIsCurrent(r)' /\ FoundIsNew(r)'
    BY <2>1, <2>2, <2>5 DEF RequestInv, Locked, RecordPcs, ReadIsCurrent, FoundIsNew, HasCustody
  <2>7. DraftIsNext(r)'
    BY <2>1, <2>2, <2>5 DEF RequestInv, DraftIsNext, HasEvent, NewEvent,
       ResolvedAssignee, IsAdvancing
  <2>8. OwnImage(r)'
    BY <2>5 DEF OwnImage, Appended
  <2>9. \A c \in Batches : BatchInv(c)'
    BY <2>2, BatchFrame DEF tables, TransactionsIsolated
  <2> QED BY <2>4, <2>6, <2>7, <2>8, <2>9, OthersIsolated DEF TransactionsIsolated, RequestInv
<1> QED BY <1>1, <1>2

LEMMA StoreAnomaliesIsolated ==
  ASSUME Typing, TransactionsIsolated, NEW r \in Requests, StoreAnomalies(r)
  PROVE  TransactionsIsolated'
<1>1. StepFrame(r)
  BY DEF StoreAnomalies, StepFrame, tables, Typing, TypeOK
<1>2. /\ pc[r] = "record_detect" /\ pc'[r] = "record_advance"
      /\ found'[r] = DetectNewAnomalies(AllEvents(r))
      /\ batches' = batches /\ events' = events /\ lock' = lock /\ dto' = dto
      /\ seen' = seen /\ mine' = mine /\ draft' = draft /\ nextAssignee' = nextAssignee
  BY DEF StoreAnomalies, tables, Typing, TypeOK
<1>3. RequestInv(r)
  BY DEF TransactionsIsolated
<1>4. Locked(r)' /\ ReadIsCurrent(r)'
  BY <1>2, <1>3 DEF RequestInv, Locked, Holds, RecordPcs, ReadIsCurrent, HasCustody
<1>5. DraftIsNext(r)' /\ OwnImage(r)'
  BY <1>2, <1>3 DEF RequestInv, DraftIsNext, HasEvent, NewEvent, ResolvedAssignee,
     IsAdvancing, OwnImage, Appended
<1>6. FoundIsNew(r)'
  BY <1>2 DEF FoundIsNew, AllEvents
<1>7. \A c \in Batches : BatchInv(c)'
  BY <1>2, BatchFrame DEF TransactionsIsolated
<1> QED BY <1>1, <1>4, <1>5, <1>6, <1>7, OthersIsolated DEF TransactionsIsolated, RequestInv

LEMMA AdvanceStageIsolated ==
  ASSUME Typing, TransactionsIsolated, NEW r \in Requests, AdvanceStage(r)
  PROVE  TransactionsIsolated'
<1>1. CASE Rollback(r)
  BY <1>1, RollbackIsolated
<1>2. CASE ~Rollback(r)
  <2>1. /\ pc[r] = "record_advance"
        /\ mine' = [mine EXCEPT ![r] =
                      IF IsAdvancing(r)
                      THEN [@ EXCEPT !.currentStage = dto[r].stage,
                                     !.assignedTo = nextAssignee[r]]
                      ELSE @]
        /\ pc' = [pc EXCEPT ![r] = "record_commit"]
        /\ UNCHANGED <<tables, actors, lock, dto, seen, nextAssignee, draft,
                       found, recipients, pushes>>
    BY <1>2 DEF AdvanceStage
  <2>2. StepFrame(r)
    BY <2>1 DEF StepFrame, tables, Typing, TypeOK
  <2>3. /\ pc'[r] = "record_commit"
        /\ mine'[r] = IF IsAdvancing(r)
                      THEN [mine[r] EXCEPT !.currentStage = dto[r].stage,
                                           !.assignedTo = nextAssignee[r]]
                      ELSE mine[r]
        /\ batches' = batches /\ events' = events /\ lock' = lock /\ dto' = dto
        /\ seen' = seen /\ draft' = draft /\ nextAssignee' = nextAssignee /\ found' = found
    BY <2>1 DEF tables, Typing, TypeOK
  <2>4. RequestInv(r) /\ mine[r] = Appended(r)
    BY <2>1 DEF TransactionsIsolated, RequestInv, OwnImage
  <2>5. Locked(r)' /\ ReadIsCurrent(r)' /\ FoundIsNew(r)'
    BY <2>1, <2>3, <2>4 DEF RequestInv, Locked, Holds, RecordPcs, ReadIsCurrent,
       HasCustody, FoundIsNew, AllEvents
  <2>6. DraftIsNext(r)'
    BY <2>1, <2>3, <2>4 DEF RequestInv, DraftIsNext, HasEvent, NewEvent,
       ResolvedAssignee, IsAdvancing
  <2>7. OwnImage(r)'
    BY <2>3, <2>4 DEF OwnImage, Appended, IsAdvancing
  <2>8. \A c \in Batches : BatchInv(c)'
    BY <2>3, BatchFrame DEF TransactionsIsolated
  <2> QED BY <2>2, <2>5, <2>6, <2>7, <2>8, OthersIsolated DEF TransactionsIsolated, RequestInv
<1> QED BY <1>1, <1>2

\* A linked chain stays linked when the next event is appended.
LEMMA AppendLinked ==
  ASSUME NEW s \in Seq(TraceEvents), NEW e \in TraceEvents,
         \A i \in 1..Len(s) : LinksToPrevious(s, i) /\ MatchesStoredHash(s[i], FALSE),
         e.sequenceNumber = Len(s), e.prevHash = EndHash(s), e.hash = ComputeHash(e),
         e.hashVersion = 2, e.salt \in Salts
  PROVE  /\ Len(Append(s, e)) = Len(s) + 1
         /\ EndHash(Append(s, e)) = e.hash
         /\ \A i \in 1..Len(Append(s, e)) :
              LinksToPrevious(Append(s, e), i) /\ MatchesStoredHash(Append(s, e)[i], FALSE)
<1> DEFINE t == Append(s, e)
<1>1. /\ Len(s) \in Nat
      /\ Len(t) = Len(s) + 1
      /\ t[Len(s) + 1] = e
      /\ \A i \in 1..Len(s) : t[i] = s[i]
  OBVIOUS
<1> HIDE DEF t
<1>2. EndHash(t) = e.hash
  BY <1>1 DEF EndHash, ExpectedPrevHash
<1>3. ASSUME NEW i \in 1..Len(s)
      PROVE  LinksToPrevious(t, i) /\ MatchesStoredHash(t[i], FALSE)
  <2>1. i = 1 \/ i - 1 \in 1..Len(s)
    BY <1>1
  <2> QED BY <1>1, <2>1 DEF LinksToPrevious, ExpectedPrevHash
<1>4. LinksToPrevious(t, Len(s) + 1)
  <2>1. Len(s) = 0 \/ Len(s) \in 1..Len(s)
    BY <1>1
  <2> QED BY <1>1, <2>1 DEF LinksToPrevious, ExpectedPrevHash, EndHash
<1>5. MatchesStoredHash(t[Len(s) + 1], FALSE)
  BY <1>1, SaltAssumption DEF MatchesStoredHash, Recomputable
<1>6. \A i \in 1..Len(t) : i \in 1..Len(s) \/ i = Len(s) + 1
  BY <1>1
<1>7. \A i \in 1..Len(t) : LinksToPrevious(t, i) /\ MatchesStoredHash(t[i], FALSE)
  BY <1>3, <1>4, <1>5, <1>6
<1> QED BY <1>1, <1>2, <1>7 DEF t

\* What CommitRecord publishes, in terms of what was committed before.
LEMMA CommittedEvent ==
  ASSUME Typing, TransactionsIsolated, NEW r \in Requests, CommitRecord(r)
  PROVE  LET b == dto[r].batch
             e == draft[r]
         IN /\ b \in Batches /\ lock[b] = r
            /\ seen[r] = batches[b] /\ Exists(b) /\ ~batches[b].isRecalled
            /\ HasCustody(dto[r], batches[b])
            /\ e \in TraceEvents /\ e.stage = dto[r].stage /\ e.actorId = dto[r].actorId
            /\ e.sequenceNumber = Len(events[b]) /\ e.prevHash = EndHash(events[b])
            /\ e.hash = ComputeHash(e) /\ e.hashVersion = 2 /\ e.salt \in Salts
            /\ events' = [events EXCEPT ![b] = Append(@, e)]
            /\ batches' = [batches EXCEPT ![b] = mine[r]]
            /\ anomalies' = [anomalies EXCEPT ![b] = @ \cup DetectNewAnomalies(Append(events[b], e))]
            /\ mine[r].createdBy = batches[b].createdBy
            /\ mine[r].isRecalled = FALSE
            /\ mine[r].headHash = e.hash
            /\ mine[r].eventCount = batches[b].eventCount + 1
            /\ mine[r].currentStage = IF IsAdvancing(r) THEN e.stage ELSE batches[b].currentStage
            /\ mine[r].assignedTo = IF IsAdvancing(r) THEN nextAssignee[r] ELSE batches[b].assignedTo
<1> DEFINE b == dto[r].batch
           e == draft[r]
<1>1. /\ b \in Batches /\ RequestInv(r) /\ BatchInv(b)
      /\ batches[b] \in BatchRows /\ dto[r].actorId \in Actors /\ pc[r] = "record_commit"
  BY DEF CommitRecord, Typing, TypeOK, PcTyping, Dtos, TransactionsIsolated
<1>2. /\ lock[b] = r /\ seen[r] = batches[b] /\ Exists(b) /\ ~batches[b].isRecalled
      /\ HasCustody(dto[r], batches[b])
  BY <1>1 DEF RequestInv, Locked, Holds, RecordPcs, ReadIsCurrent, Exists
<1>3. PICK salt \in Salts : e = NewEvent(r, salt)
  BY <1>1 DEF RequestInv, DraftIsNext, HasEvent
<1>4. /\ e \in TraceEvents /\ e.stage = dto[r].stage /\ e.actorId = dto[r].actorId
      /\ e.sequenceNumber = batches[b].eventCount /\ e.prevHash = batches[b].headHash
      /\ e.hash = ComputeHash(e) /\ e.hashVersion = 2 /\ e.salt \in Salts
  BY <1>1, <1>2, <1>3, NewEventType DEF Typing
<1>5. e.sequenceNumber = Len(events[b]) /\ e.prevHash = EndHash(events[b])
  BY <1>1, <1>4 DEF BatchInv, Linked
<1>6. /\ events' = [events EXCEPT ![b] = Append(@, e)]
      /\ batches' = [batches EXCEPT ![b] = mine[r]]
  BY <1>1 DEF CommitRecord, AllEvents
<1>7. anomalies' = [anomalies EXCEPT ![b] = @ \cup DetectNewAnomalies(Append(events[b], e))]
  BY <1>1 DEF CommitRecord, RequestInv, FoundIsNew, AllEvents
<1>8. /\ mine[r].createdBy = batches[b].createdBy
      /\ mine[r].isRecalled = batches[b].isRecalled
      /\ mine[r].headHash = e.hash
      /\ mine[r].eventCount = batches[b].eventCount + 1
      /\ mine[r].currentStage = IF IsAdvancing(r) THEN e.stage ELSE batches[b].currentStage
      /\ mine[r].assignedTo = IF IsAdvancing(r) THEN nextAssignee[r] ELSE batches[b].assignedTo
  <2>1. Appended(r) = [batches[b] EXCEPT !.headHash = e.hash,
                                         !.eventCount = batches[b].eventCount + 1]
    BY <1>2 DEF Appended
  <2>2. mine[r] = IF IsAdvancing(r)
                  THEN [Appended(r) EXCEPT !.currentStage = e.stage,
                                           !.assignedTo = nextAssignee[r]]
                  ELSE Appended(r)
    BY <1>1, <1>4 DEF RequestInv, OwnImage
  <2> HIDE DEF b, e
  <2>3. /\ Appended(r).createdBy = batches[b].createdBy
        /\ Appended(r).isRecalled = batches[b].isRecalled
        /\ Appended(r).headHash = e.hash
        /\ Appended(r).eventCount = batches[b].eventCount + 1
        /\ Appended(r).currentStage = batches[b].currentStage
        /\ Appended(r).assignedTo = batches[b].assignedTo
        /\ DOMAIN Appended(r) = {"createdBy", "currentStage", "assignedTo",
                                 "isRecalled", "headHash", "eventCount"}
    BY <1>1, <2>1 DEF BatchRows
  <2> QED BY <2>2, <2>3
<1>9. mine[r].isRecalled = FALSE
  BY <1>1, <1>2, <1>8 DEF BatchRows
<1> QED BY <1>1, <1>2, <1>4, <1>5, <1>6, <1>7, <1>8, <1>9

LEMMA CommitRecordIsolated ==
  ASSUME Typing, TransactionsIsolated, NEW r \in Requests, CommitRecord(r)
  PROVE  TransactionsIsolated'
<1> DEFINE b == dto[r].batch
           e == draft[r]
<1>1. /\ b \in Batches /\ lock[b] = r /\ Exists(b) /\ e \in TraceEvents
      /\ e.sequenceNumber = Len(events[b]) /\ e.prevHash = EndHash(events[b])
      /\ e.hash = ComputeHash(e) /\ e.hashVersion = 2 /\ e.salt \in Salts
      /\ events' = [events EXCEPT ![b] = Append(@, e)]
      /\ batches' = [batches EXCEPT ![b] = mine[r]]
      /\ mine[r].createdBy = batches[b].createdBy
      /\ mine[r].headHash = e.hash /\ mine[r].eventCount = batches[b].eventCount + 1
  BY CommittedEvent
<1>2. StepFrame(r)
  BY <1>1 DEF CommitRecord, Committed, LocksWithout, StepFrame, Typing, TypeOK
<1>3. RequestInv(r)'
  BY DEF CommitRecord, Committed, RequestInv, Locked, Holds, RecordPcs, ReadIsCurrent,
     DraftIsNext, HasEvent, OwnImage, FoundIsNew, Typing, TypeOK
<1>4. ASSUME NEW c \in Batches PROVE BatchInv(c)'
  <2>1. CASE c # b
    BY <1>1, <2>1, BatchFrame DEF TransactionsIsolated, Typing, TypeOK
  <2>2. CASE c = b
    <3>1. events[b] \in Seq(TraceEvents) /\ Linked(b)
      BY <1>1 DEF Typing, TypeOK, TransactionsIsolated, BatchInv
    <3>2. events'[b] = Append(events[b], e) /\ batches'[b] = mine[r]
      BY <1>1 DEF Typing, TypeOK
    <3>3. \A i \in 1..Len(events[b]) :
            LinksToPrevious(events[b], i) /\ MatchesStoredHash(events[b][i], FALSE)
      BY <3>1 DEF Linked
    <3>4. /\ Len(events'[b]) = Len(events[b]) + 1
          /\ EndHash(events'[b]) = e.hash
          /\ \A i \in 1..Len(events'[b]) :
               LinksToPrevious(events'[b], i) /\ MatchesStoredHash(events'[b][i], FALSE)
      <4> HIDE DEF e, b
      <4> QED BY <1>1, <3>1, <3>2, <3>3, AppendLinked
    <3>5. Len(events[b]) = batches[b].eventCount
      BY <3>1 DEF Linked
    <3> QED BY <1>1, <2>2, <3>2, <3>4, <3>5 DEF BatchInv, Exists, Linked
  <2> QED BY <2>1, <2>2
<1> QED BY <1>2, <1>3, <1>4, OthersIsolated DEF TransactionsIsolated

LEMMA MarkRecalledIsolated ==
  ASSUME Typing, TransactionsIsolated, NEW r \in Requests, MarkRecalled(r)
  PROVE  TransactionsIsolated'
<1>1. CASE Rollback(r)
  BY <1>1, RollbackIsolated
<1>2. CASE ~Rollback(r)
  <2> DEFINE b == dto[r].batch
  <2>1. b \in Batches
    BY DEF Typing, TypeOK, Dtos
  <2>2. /\ Visible(dto[r].actorId, b) /\ ~batches[b].isRecalled
        /\ lock[b] = Free
        /\ lock' = [lock EXCEPT ![b] = r]
        /\ mine' = [mine EXCEPT ![r] = [batches[b] EXCEPT !.isRecalled = TRUE]]
        /\ pc' = [pc EXCEPT ![r] = "recall_commit"]
        /\ UNCHANGED <<tables, actors, dto, seen, nextAssignee, draft, found, recipients, pushes>>
    BY <1>2 DEF MarkRecalled, LockFree
  <2>3. StepFrame(r)
    BY <2>1, <2>2, ActorAssumption DEF StepFrame, tables, Typing, TypeOK
  <2>4. /\ lock'[b] = r /\ pc'[r] = "recall_commit" /\ dto' = dto /\ batches' = batches
        /\ mine'[r] = [batches[b] EXCEPT !.isRecalled = TRUE]
    BY <2>1, <2>2 DEF tables, Typing, TypeOK
  <2>5. RequestInv(r)'
    BY <2>2, <2>4 DEF Visible, Exists, RequestInv, Locked, ReadIsCurrent, RecordPcs,
       DraftIsNext, HasEvent, OwnImage, FoundIsNew
  <2>6. \A c \in Batches : BatchInv(c)'
    BY <2>2, BatchFrame DEF tables, TransactionsIsolated
  <2> QED BY <2>3, <2>5, <2>6, OthersIsolated DEF TransactionsIsolated
<1> QED BY <1>1, <1>2

\* What CommitRecall publishes.
LEMMA CommittedRecall ==
  ASSUME Typing, TransactionsIsolated, NEW r \in Requests, CommitRecall(r)
  PROVE  LET b == dto[r].batch
         IN /\ b \in Batches /\ lock[b] = r /\ Exists(b) /\ ~batches[b].isRecalled
            /\ batches' = [batches EXCEPT ![b] = [@ EXCEPT !.isRecalled = TRUE]]
            /\ UNCHANGED <<events, anomalies>>
  BY DEF CommitRecall, Typing, TypeOK, Dtos, TransactionsIsolated, RequestInv, Locked,
     Holds, OwnImage

LEMMA CommitRecallIsolated ==
  ASSUME Typing, TransactionsIsolated, NEW r \in Requests, CommitRecall(r)
  PROVE  TransactionsIsolated'
<1> DEFINE b == dto[r].batch
<1>1. /\ b \in Batches /\ lock[b] = r /\ Exists(b)
      /\ batches' = [batches EXCEPT ![b] = [@ EXCEPT !.isRecalled = TRUE]]
      /\ UNCHANGED events
  BY CommittedRecall
<1>2. StepFrame(r)
  BY <1>1 DEF CommitRecall, Committed, LocksWithout, StepFrame, Typing, TypeOK
<1>3. RequestInv(r)'
  BY DEF CommitRecall, Committed, RequestInv, Locked, Holds, RecordPcs, ReadIsCurrent,
     DraftIsNext, HasEvent, OwnImage, FoundIsNew, Typing, TypeOK
<1>4. ASSUME NEW c \in Batches PROVE BatchInv(c)'
  <2>1. CASE c # b
    BY <1>1, <2>1, BatchFrame DEF TransactionsIsolated, Typing, TypeOK
  <2>2. CASE c = b
    <3>1. batches[b] \in BatchRows
      BY <1>1 DEF Typing, TypeOK
    <3>2. /\ batches'[b].createdBy = batches[b].createdBy
          /\ batches'[b].headHash = batches[b].headHash
          /\ batches'[b].eventCount = batches[b].eventCount
      BY <1>1, <3>1 DEF BatchRows, Typing, TypeOK
    <3> QED BY <1>1, <2>2, <3>2 DEF TransactionsIsolated, BatchInv, Exists, Linked
  <2> QED BY <2>1, <2>2
<1> QED BY <1>2, <1>3, <1>4, OthersIsolated DEF TransactionsIsolated

LEMMA EmitIsolated ==
  ASSUME Typing, TransactionsIsolated, NEW r \in Requests,
         EmitAnomalies(r) \/ EmitRecall(r)
  PROVE  TransactionsIsolated'
<1>1. Forget(r) /\ UNCHANGED <<batches, events, lock>>
  BY DEF EmitAnomalies, EmitRecall, tables
<1>2. StepFrame(r)
  BY <1>1 DEF Forget, StepFrame, Typing, TypeOK
<1>3. RequestInv(r)'
  BY <1>1 DEF Forget, RequestInv, Locked, Holds, RecordPcs, ReadIsCurrent,
     DraftIsNext, HasEvent, OwnImage, FoundIsNew, Typing, TypeOK
<1>4. \A c \in Batches : BatchInv(c)'
  BY <1>1, BatchFrame DEF TransactionsIsolated
<1> QED BY <1>2, <1>3, <1>4, OthersIsolated DEF TransactionsIsolated

LEMMA NextIsolated ==
  Typing /\ TransactionsIsolated /\ [Next]_vars => TransactionsIsolated'
<1> SUFFICES ASSUME Typing, TransactionsIsolated, [Next]_vars
             PROVE  TransactionsIsolated'
  OBVIOUS
<1>1. CASE Arrival
  BY <1>1, ArrivalIsolated
<1>2. ASSUME NEW r \in Requests, Step(r) PROVE TransactionsIsolated'
  BY <1>2, LockBatchIsolated, HandOffIsolated, InsertEventIsolated, StoreAnomaliesIsolated,
     AdvanceStageIsolated, CommitRecordIsolated, MarkRecalledIsolated,
     CommitRecallIsolated, EmitIsolated DEF Step
<1>3. ASSUME NEW r \in Requests, Interrupted(r) PROVE TransactionsIsolated'
  BY <1>3, RollbackIsolated DEF Interrupted
<1>4. CASE UNCHANGED vars
  <2>1. \A q \in Requests : RequestInv(q)'
    BY <1>4, RequestFrame DEF vars, tables, scratch, TransactionsIsolated
  <2>2. \A c \in Batches : BatchInv(c)'
    BY <1>4, BatchFrame DEF vars, tables, TransactionsIsolated
  <2> QED BY <2>1, <2>2 DEF TransactionsIsolated
<1> QED BY <1>1, <1>2, <1>3, <1>4 DEF Next

\* The inductive invariant: open transactions work on current, locked rows
\* and every committed chain is linked up to the head its batch row holds.
THEOREM Isolation == Spec => [](Typing /\ TransactionsIsolated)
<1>1. Init => Typing /\ TransactionsIsolated
  BY InitTyping, InitIsolated
<1>2. Typing /\ TransactionsIsolated /\ [Next]_vars => (Typing /\ TransactionsIsolated)'
  BY NextTyping, NextIsolated
<1> QED BY <1>1, <1>2, PTL DEF Spec

\* Concurrent recordings, recalls and rollbacks never fork, truncate or
\* break a committed chain: verifyChainDetailed accepts what the service wrote.
THEOREM ChainsStayIntact == Spec => []ChainIntact
<1>1. TransactionsIsolated => ChainIntact
  <2> SUFFICES ASSUME TransactionsIsolated, NEW b \in Batches
               PROVE  VerifyChain(events[b], RecordedHead(b), FALSE)
    BY DEF ChainIntact
  <2>1. Linked(b)
    BY DEF TransactionsIsolated, BatchInv
  <2>2. Broken(events[b], FALSE) = {}
    BY <2>1 DEF Linked, Broken
  <2>3. HeadMatches(events[b], RecordedHead(b))
    BY <2>1 DEF Linked, HeadMatches, RecordedHead
  <2> QED BY <2>2, <2>3 DEF VerifyChain, ChainProblem
<1> QED BY <1>1, Isolation, PTL

-----------------------------------------------------------------------------
(* What is committed.  Only three actions touch the rows of a batch.       *)

BatchUntouched(b) ==
  batches'[b] = batches[b] /\ events'[b] = events[b] /\ anomalies'[b] = anomalies[b]

LEMMA WhoTouchesABatch ==
  ASSUME Typing, [Next]_vars, NEW b \in Batches
  PROVE  \/ BatchUntouched(b)
         \/ \E a \in Actors : CreateBatch(a, b)
         \/ \E r \in Requests : CommitRecord(r) /\ dto[r].batch = b
         \/ \E r \in Requests : CommitRecall(r) /\ dto[r].batch = b
<1> USE DEF BatchUntouched
<1>1. CASE Arrival
  <2>1. ASSUME NEW a \in Actors, NEW c \in Batches, CreateBatch(a, c), c # b
        PROVE  BatchUntouched(b)
    BY <2>1 DEF CreateBatch, Typing, TypeOK
  <2>2. ASSUME ~ \E a \in Actors, c \in Batches : CreateBatch(a, c)
        PROVE  BatchUntouched(b)
    BY <1>1, <2>2 DEF Arrival, RequestRecord, RequestRecall, Begin, SetActorStatus,
       SetActorRole, tables
  <2> QED BY <2>1, <2>2
<1>2. ASSUME NEW r \in Requests, Rollback(r) PROVE BatchUntouched(b)
  BY <1>2 DEF Rollback, tables
<1>3. ASSUME NEW r \in Requests, Step(r), ~CommitRecord(r), ~CommitRecall(r)
      PROVE  BatchUntouched(b)
  BY <1>2, <1>3 DEF Step, LockBatch, HandOff, InsertEvent, StoreAnomalies, AdvanceStage,
     EmitAnomalies, MarkRecalled, EmitRecall, tables
<1>4. ASSUME NEW r \in Requests, CommitRecord(r) \/ CommitRecall(r), dto[r].batch # b
      PROVE  BatchUntouched(b)
  BY <1>4 DEF CommitRecord, CommitRecall, Typing, TypeOK, Dtos
<1>5. CASE UNCHANGED vars
  BY <1>5 DEF vars, tables
<1> QED BY <1>1, <1>2, <1>3, <1>4, <1>5 DEF Next, Interrupted

\* A recalled batch never changes again: a recording that had passed its
\* checks before the recall cannot commit after it, nor a second recall.
THEOREM RecallIsFinal == Spec => RecallFreezesBatch
<1>1. ASSUME Typing, TransactionsIsolated, [Next]_vars,
             NEW b \in Batches, batches[b].isRecalled
      PROVE  BatchUntouched(b)
  <2>1. ASSUME NEW a \in Actors, CreateBatch(a, b) PROVE FALSE
    BY <1>1, <2>1 DEF CreateBatch, TransactionsIsolated, BatchInv, NoRow
  <2>2. ASSUME NEW r \in Requests, CommitRecord(r), dto[r].batch = b PROVE FALSE
    BY <1>1, <2>2, CommittedEvent
  <2>3. ASSUME NEW r \in Requests, CommitRecall(r), dto[r].batch = b PROVE FALSE
    BY <1>1, <2>3, CommittedRecall
  <2> QED BY <1>1, <2>1, <2>2, <2>3, WhoTouchesABatch
<1>2. Typing /\ TransactionsIsolated /\ [Next]_vars =>
        [\A b \in Batches : batches[b].isRecalled =>
           /\ batches'[b] = batches[b]
           /\ events'[b] = events[b]
           /\ anomalies'[b] = anomalies[b]]_vars
  BY <1>1 DEF BatchUntouched
<1> QED BY <1>2, Isolation, PTL DEF Spec, RecallFreezesBatch

\* An event only ever becomes visible while its recorder is the custodian,
\* custody is open or the recorder was authenticated as ADMIN.
THEOREM CustodyIsRespected == Spec => CustodyRespected
<1> DEFINE Entitled(b) ==
      LET a == events'[b][Len(events'[b])].actorId
      IN \/ batches[b].assignedTo \in {NoActor, a}
         \/ \E r \in Requests : /\ pc[r] = "record_commit"
                                /\ dto[r].batch = b
                                /\ dto[r].actorId = a
                                /\ dto[r].role = "ADMIN"
<1>1. ASSUME Typing, TransactionsIsolated, [Next]_vars,
             NEW b \in Batches, Len(events'[b]) > Len(events[b])
      PROVE  Entitled(b)
  <2>1. ASSUME events'[b] = events[b] PROVE FALSE
    <3>1. Len(events[b]) \in Nat
      BY DEF Typing, TypeOK
    <3> QED BY <1>1, <2>1, <3>1
  <2>2. PICK r \in Requests : CommitRecord(r) /\ dto[r].batch = b
    BY <1>1, <2>1, WhoTouchesABatch DEF BatchUntouched, CreateBatch, CommitRecall
  <2>3. /\ HasCustody(dto[r], batches[b])
        /\ draft[r].actorId = dto[r].actorId
        /\ draft[r] \in TraceEvents
        /\ events' = [events EXCEPT ![b] = Append(@, draft[r])]
    BY <1>1, <2>2, CommittedEvent
  <2>4. events'[b] = Append(events[b], draft[r]) /\ events[b] \in Seq(TraceEvents)
    BY <1>1, <2>3 DEF Typing, TypeOK
  <2>5. events'[b][Len(events'[b])] = draft[r]
    BY <2>3, <2>4
  <2> QED BY <2>2, <2>3, <2>5 DEF HasCustody, CommitRecord
<1>2. Typing /\ TransactionsIsolated /\ [Next]_vars =>
        [\A b \in Batches : Len(events'[b]) > Len(events[b]) => Entitled(b)]_vars
  BY <1>1
<1> QED BY <1>2, Isolation, PTL DEF Spec, CustodyRespected

\* The stage column follows the history exactly, although it is advanced by
\* a statement of its own and only when the recording is a forward step.
THEOREM StageFollowsHistory == Spec => []StageIsFrontier
<1> DEFINE Frontier(evs, stage) ==
      /\ \A i \in 1..Len(evs) : evs[i].stage <= stage
      /\ \/ stage = NotStarted /\ evs = << >>
         \/ \E i \in 1..Len(evs) : evs[i].stage = stage
<1>1. Init => StageIsFrontier
  BY DEF Init, StageIsFrontier, NoRow
<1>2. ASSUME Typing, TransactionsIsolated, StageIsFrontier, [Next]_vars
      PROVE  StageIsFrontier'
  <2>1. ASSUME NEW b \in Batches PROVE Frontier(events'[b], batches'[b].currentStage)
    <3>1. /\ Frontier(events[b], batches[b].currentStage)
          /\ batches[b] \in BatchRows /\ events[b] \in Seq(TraceEvents)
      BY <1>2 DEF StageIsFrontier, Typing, TypeOK
    <3>2. CASE BatchUntouched(b)
      BY <3>1, <3>2 DEF BatchUntouched
    <3>3. ASSUME NEW a \in Actors, CreateBatch(a, b)
          PROVE  Frontier(events'[b], batches'[b].currentStage)
      <4>1. events'[b] = << >> /\ batches'[b].currentStage = NotStarted
        BY <1>2, <3>3 DEF CreateBatch, TransactionsIsolated, BatchInv, NoRow, Typing, TypeOK
      <4> QED BY <4>1
    <3>4. ASSUME NEW r \in Requests, CommitRecall(r), dto[r].batch = b
          PROVE  Frontier(events'[b], batches'[b].currentStage)
      <4>1. events'[b] = events[b] /\ batches'[b].currentStage = batches[b].currentStage
        <5>1. /\ batches' = [batches EXCEPT ![b] = [@ EXCEPT !.isRecalled = TRUE]]
              /\ events' = events
          BY <1>2, <3>4, CommittedRecall
        <5>2. batches'[b] = [batches[b] EXCEPT !.isRecalled = TRUE]
          BY <1>2, <5>1 DEF Typing, TypeOK
        <5> QED BY <3>1, <5>1, <5>2 DEF BatchRows
      <4> QED BY <3>1, <4>1
    <3>5. ASSUME NEW r \in Requests, CommitRecord(r), dto[r].batch = b
          PROVE  Frontier(events'[b], batches'[b].currentStage)
      <4>1. /\ seen[r] = batches[b] /\ draft[r] \in TraceEvents
            /\ draft[r].stage = dto[r].stage
            /\ events' = [events EXCEPT ![b] = Append(@, draft[r])]
            /\ batches' = [batches EXCEPT ![b] = mine[r]]
            /\ mine[r].currentStage = IF IsAdvancing(r) THEN draft[r].stage
                                      ELSE batches[b].currentStage
        BY <1>2, <3>5, CommittedEvent
      <4> DEFINE evs == events[b]
                 e == draft[r]
                 old == batches[b].currentStage
                 new == IF e.stage > old THEN e.stage ELSE old
      <4>2. events'[b] = Append(evs, e) /\ batches'[b].currentStage = new
        BY <1>2, <3>5, <4>1 DEF IsAdvancing, Typing, TypeOK
      <4>3. evs \in Seq(TraceEvents) /\ e.stage \in 0..5 /\ old \in -1..5
        BY <3>1, <4>1, StageTypes DEF BatchRows, TraceEvents
      <4>4. /\ Len(Append(evs, e)) = Len(evs) + 1 /\ Len(evs) \in Nat
            /\ Append(evs, e)[Len(evs) + 1] = e
            /\ \A i \in 1..Len(evs) : Append(evs, e)[i] = evs[i] /\ evs[i].stage \in 0..5
        <5>1. \A i \in 1..Len(evs) : evs[i] \in TraceEvents
          BY <4>3
        <5>2. \A i \in 1..Len(evs) : evs[i].stage \in 0..5
          BY <5>1, StageTypes DEF TraceEvents
        <5> HIDE DEF evs, e
        <5> QED BY <4>3, <5>2
      <4>5. Frontier(evs, old)
        BY <3>1
      <4> HIDE DEF evs, e, old
      <4>6. \A i \in 1..Len(Append(evs, e)) : Append(evs, e)[i].stage <= new
        BY <4>3, <4>4, <4>5
      <4>7. \E i \in 1..Len(Append(evs, e)) : Append(evs, e)[i].stage = new
        <5>1. CASE e.stage > old
          BY <4>4, <5>1
        <5>2. CASE ~(e.stage > old)
          BY <4>3, <4>4, <4>5, <5>2, StageTypes
        <5> QED BY <5>1, <5>2
      <4> QED BY <4>2, <4>6, <4>7
    <3> QED BY <1>2, <3>2, <3>3, <3>4, <3>5, WhoTouchesABatch
  <2> QED BY <2>1 DEF StageIsFrontier
<1>3. Typing /\ TransactionsIsolated /\ StageIsFrontier /\ [Next]_vars => StageIsFrontier'
  BY <1>2
<1> QED BY <1>1, <1>3, Isolation, PTL DEF Spec

\* Scanning one event more finds what was found before and the new event's
\* own anomalies: what event i gives rise to depends on earlier events only.
LEMMA DetectAppend ==
  ASSUME NEW s \in Seq(TraceEvents), NEW e \in TraceEvents,
         \A i \in 1..Len(s) : s[i].sequenceNumber = i - 1,
         e.sequenceNumber = Len(s)
  PROVE  DetectAnomalies(Append(s, e)) = DetectAnomalies(s) \cup DetectNewAnomalies(Append(s, e))
<1> DEFINE t == Append(s, e)
<1>0. /\ Len(s) \in Nat /\ Len(t) = Len(s) + 1
      /\ t[Len(s) + 1] = e
      /\ \A i \in 1..Len(s) : t[i] = s[i]
  OBVIOUS
<1>1. /\ Len(s) \in Nat /\ Len(t) = Len(s) + 1 /\ t # << >>
      /\ t[Len(s) + 1] = e
      /\ \A i \in 1..Len(s) : t[i] = s[i]
  BY <1>0
<1> HIDE DEF t
<1>2. ASSUME NEW i \in 1..Len(s) PROVE AnomaliesAt(t, i) = AnomaliesAt(s, i)
  <2>1. \A j \in 1..(i - 1) : t[j] = s[j]
    BY <1>1
  <2>2. SeenBefore(t, i) = SeenBefore(s, i)
    BY <2>1 DEF SeenBefore
  <2>3. HighestBefore(t, i) = HighestBefore(s, i)
    BY <2>2 DEF HighestBefore
  <2>4. TypesAt(t, i) = TypesAt(s, i)
    BY <1>1, <2>2, <2>3 DEF TypesAt
  <2> QED BY <1>1, <2>4 DEF AnomaliesAt
<1>3. 1..Len(t) = 1..Len(s) \cup {Len(s) + 1}
  BY <1>1
<1>4. DetectAnomalies(t) = DetectAnomalies(s) \cup AnomaliesAt(t, Len(s) + 1)
  BY <1>2, <1>3 DEF DetectAnomalies
<1>5. \A a \in AnomaliesAt(t, Len(s) + 1) : a.eventSeq = t[Len(t)].sequenceNumber
  BY <1>1 DEF AnomaliesAt
<1>6. AnomaliesAt(t, Len(s) + 1) \subseteq DetectNewAnomalies(t)
  BY <1>1, <1>4, <1>5 DEF DetectNewAnomalies
<1>7. DetectNewAnomalies(t) \subseteq DetectAnomalies(t)
  BY DEF DetectNewAnomalies
<1>8. DetectAnomalies(t) = DetectAnomalies(s) \cup DetectNewAnomalies(t)
  BY <1>4, <1>6, <1>7
<1> QED BY <1>8 DEF t

\* Storing at each recording the new event's anomalies only adds up to what
\* a scan of the whole committed history reports.
THEOREM AnomaliesAddUp == Spec => []AnomaliesComplete
<1>1. Init => AnomaliesComplete
  BY DEF Init, AnomaliesComplete, DetectAnomalies
<1>2. ASSUME Typing, TransactionsIsolated, AnomaliesComplete, [Next]_vars
      PROVE  AnomaliesComplete'
  <2>1. ASSUME NEW b \in Batches PROVE anomalies'[b] = DetectAnomalies(events'[b])
    <3>1. /\ anomalies[b] = DetectAnomalies(events[b])
          /\ events[b] \in Seq(TraceEvents)
          /\ \A i \in 1..Len(events[b]) : events[b][i].sequenceNumber = i - 1
      BY <1>2 DEF AnomaliesComplete, Typing, TypeOK, TransactionsIsolated, BatchInv, Linked,
         LinksToPrevious
    <3>2. CASE BatchUntouched(b)
      BY <3>1, <3>2 DEF BatchUntouched
    <3>3. ASSUME NEW a \in Actors, CreateBatch(a, b)
          PROVE  anomalies'[b] = DetectAnomalies(events'[b])
      BY <3>1, <3>3 DEF CreateBatch
    <3>4. ASSUME NEW r \in Requests, CommitRecall(r), dto[r].batch = b
          PROVE  anomalies'[b] = DetectAnomalies(events'[b])
      BY <3>1, <3>4 DEF CommitRecall
    <3>5. ASSUME NEW r \in Requests, CommitRecord(r), dto[r].batch = b
          PROVE  anomalies'[b] = DetectAnomalies(events'[b])
      <4> DEFINE e == draft[r]
      <4>1. /\ e \in TraceEvents /\ e.sequenceNumber = Len(events[b])
            /\ events' = [events EXCEPT ![b] = Append(@, e)]
            /\ anomalies' = [anomalies EXCEPT ![b] =
                               @ \cup DetectNewAnomalies(Append(events[b], e))]
        BY <1>2, <3>5, CommittedEvent
      <4>2. /\ events'[b] = Append(events[b], e)
            /\ anomalies'[b] = anomalies[b] \cup DetectNewAnomalies(Append(events[b], e))
        BY <1>2, <4>1 DEF Typing, TypeOK
      <4> HIDE DEF e
      <4>3. DetectAnomalies(Append(events[b], e)) =
              DetectAnomalies(events[b]) \cup DetectNewAnomalies(Append(events[b], e))
        BY <3>1, <4>1, DetectAppend
      <4> QED BY <3>1, <4>2, <4>3
    <3> QED BY <1>2, <3>2, <3>3, <3>4, <3>5, WhoTouchesABatch
  <2> QED BY <2>1 DEF AnomaliesComplete
<1>3. Typing /\ TransactionsIsolated /\ AnomaliesComplete /\ [Next]_vars => AnomaliesComplete'
  BY <1>2
<1> QED BY <1>1, <1>3, Isolation, PTL DEF Spec
=============================================================================
