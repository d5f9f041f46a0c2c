---------------------------- MODULE SupplyChain -----------------------------
(***************************************************************************)
(* backend/src/services/supplyChainService.ts over PostgreSQL: batches,    *)
(* their event ledger, hand-off of custody, recall, stage anomalies, audit *)
(* log and realtime pushes.                                                *)
(*                                                                         *)
(* Every service call is one READ COMMITTED transaction                    *)
(* (Database.withTenant).  The model keeps one action per statement that   *)
(* can wait, refuse or be cut off: what a transaction has written but not  *)
(* committed lives in per-request variables (mine, draft, found), what is  *)
(* committed in the tables (batches, events, anomalies, auditLog).  A      *)
(* request is a slot of Requests: an HTTP request being served by any      *)
(* replica.                                                                *)
(***************************************************************************)
EXTENDS HashChain, AnomalyDetector

CONSTANTS Tenants,
          Requests,       \* concurrent requests
          NoActor,        \* a NULL actor reference
          NoEvent,        \* no event built yet
          Free,           \* no transaction holds the row lock
          TenantOf,       \* the tenant of each actor; never changes
          InitRole,       \* the role each actor starts with
          DtoStages,      \* stages the run's requests name
          ManagedActors,  \* actors whose role or status the run's admins change
          GivenRoles,     \* roles those changes give
          MaxEvents       \* no recording is requested on a batch this long

ASSUME ActorAssumption ==
  /\ Batches # {}
  /\ NoActor \notin Actors
  /\ Free \notin Requests
  /\ TenantOf \in [Actors -> Tenants]
  /\ InitRole \in [Actors -> Roles]
  /\ DtoStages \subseteq Stages
  /\ ManagedActors \subseteq Actors
  /\ GivenRoles \subseteq Roles
  /\ MaxEvents \in Nat

VARIABLES
  batches,       \* table batches
  events,        \* table trace_events, per batch in sequence_number order
  anomalies,     \* table anomalies, per batch, the stage anomalies
  auditLog,      \* table audit_logs, the entries about batches and actors
  actors,        \* table actors: role and is_active
  lock,          \* the transaction holding the row lock of each batch
  pc,            \* where each request stands
  dto,           \* the request: req.actor as authenticated, and the body
  seen,          \* the batch row findByIdForUpdate returned
  mine,          \* the batch row as the open transaction has updated it
  nextAssignee,  \* what resolveNextAssignee returned
  draft,         \* the event the open transaction inserts
  found,         \* the anomalies the open transaction inserts
  recipients,    \* whom the committed transaction will notify
  pushes         \* realtime messages handed to Socket.IO so far

tables  == <<batches, events, anomalies, auditLog>>
scratch == <<dto, seen, mine, nextAssignee, draft, found, recipients>>
vars    == <<tables, actors, lock, pc, scratch, pushes>>

-----------------------------------------------------------------------------
(* Types *)

ActorRefs == Actors \cup {NoActor}

BatchRows ==
  [createdBy: ActorRefs, currentStage: Stages \cup {NotStarted},
   assignedTo: ActorRefs, isRecalled: BOOLEAN,
   headHash: Hashes, eventCount: Nat]

ActorRows == [role: Roles, isActive: BOOLEAN]

Dtos == [actorId: ActorRefs, role: Roles, batch: Batches,
         stage: Stages, assignNextTo: ActorRefs]

AuditActions == {"BATCH_CREATED", "EVENT_RECORDED", "BATCH_RECALLED",
                 "ACTOR_ACTIVATED", "ACTOR_DEACTIVATED", "ACTOR_ROLE_CHANGED"}

Pushes == [kind: {"anomaly"}, batch: Batches, eventSeq: Nat,
           type: StageAnomalyTypes, to: SUBSET Actors]
          \cup [kind: {"recall"}, batch: Batches, to: SUBSET Actors]

RecordPcs == {"record_handoff", "record_insert", "record_detect",
              "record_advance", "record_commit"}
PcValues  == {"idle", "record_lock", "recall_update", "recall_commit",
              "emit_anomalies", "emit_recall"} \cup RecordPcs

\* A row that is not there yet, and what an idle request's variables hold.
NoRow == [createdBy |-> NoActor, currentStage |-> NotStarted,
          assignedTo |-> NoActor, isRecalled |-> FALSE,
          headHash |-> GENESIS_HASH, eventCount |-> 0]

-----------------------------------------------------------------------------
(* What the statements see *)

Exists(b) == batches[b].createdBy # NoActor

\* The tenant of a batch is its creator's (composite foreign key).
TenantOfBatch(b) == TenantOf[batches[b].createdBy]

\* findById / findByIdForUpdate return a row: row-level security and the
\* service's own check leave the rows of the requester's tenant.
Visible(a, b) == Exists(b) /\ TenantOfBatch(b) = TenantOf[a]

\* Mutant of HasCustody: the creator always has custody.
HasCustodyOrCreated(d, row) ==
  d.role = "ADMIN" \/ row.assignedTo \in {NoActor, d.actorId} \/ row.createdBy = d.actorId

\* assertCustody does not throw.
HasCustody(d, row) ==
  \/ d.role = "ADMIN"
  \/ row.assignedTo \in {NoActor, d.actorId}

\* Mutants of IsAdvancing: >= for >; only the very next stage advances.
IsAdvancingOrSame(r) == dto[r].stage >= seen[r].currentStage
IsNextStage(r)       == dto[r].stage = seen[r].currentStage + 1

IsAdvancing(r) == dto[r].stage > seen[r].currentStage

IsTerminal(stage) == stage = TerminalStage

\* Mutants of CanTakeOver: without the check of the role; of the tenant.
CanTakeOverAnyRole(a, n, stage) ==
  n # NoActor /\ TenantOf[n] = TenantOf[a] /\ actors[n].isActive
CanTakeOverAnyTenant(a, n, stage) ==
  n # NoActor /\ actors[n].isActive /\ stage \in ROLE_STAGES[actors[n].role]

\* The checks of resolveNextAssignee on the actor row it reads.
CanTakeOver(a, n, stage) ==
  /\ n # NoActor
  /\ TenantOf[n] = TenantOf[a]
  /\ actors[n].isActive
  /\ stage \in ROLE_STAGES[actors[n].role]

HandOffRefused(r) ==
  /\ IsAdvancing(r)
  /\ ~IsTerminal(dto[r].stage)
  /\ IF dto[r].assignNextTo = NoActor
     THEN dto[r].role # "ADMIN"
     ELSE ~CanTakeOver(dto[r].actorId, dto[r].assignNextTo, dto[r].stage + 1)

ResolvedAssignee(r) ==
  IF ~IsAdvancing(r) THEN seen[r].assignedTo
  ELSE IF IsTerminal(dto[r].stage) THEN NoActor ELSE dto[r].assignNextTo

\* Mutants of NewEvent: hashed before the salt is drawn; signed by the
\* custodian, whoever records.
NewEventUnsalted(r, salt) ==
  LET unhashed == [batchId |-> dto[r].batch, sequenceNumber |-> seen[r].eventCount,
                   prevHash |-> seen[r].headHash, hash |-> GENESIS_HASH,
                   hashVersion |-> CURRENT_HASH_VERSION, salt |-> NoSalt,
                   stage |-> dto[r].stage, actorId |-> dto[r].actorId]
  IN [unhashed EXCEPT !.hash = ComputeHash(unhashed), !.salt = salt]
NewEventByCustodian(r, salt) ==
  LET unhashed == [batchId |-> dto[r].batch, sequenceNumber |-> seen[r].eventCount,
                   prevHash |-> seen[r].headHash, hash |-> GENESIS_HASH,
                   hashVersion |-> CURRENT_HASH_VERSION, salt |-> salt,
                   stage |-> dto[r].stage, actorId |-> seen[r].assignedTo]
  IN [unhashed EXCEPT !.hash = ComputeHash(unhashed)]

\* The event recordEvent builds from the row it read.
NewEvent(r, salt) ==
  LET unhashed == [batchId        |-> dto[r].batch,
                   sequenceNumber |-> seen[r].eventCount,
                   prevHash       |-> seen[r].headHash,
                   hash           |-> GENESIS_HASH,
                   hashVersion    |-> CURRENT_HASH_VERSION,
                   salt           |-> salt,
                   stage          |-> dto[r].stage,
                   actorId        |-> dto[r].actorId]
  IN [unhashed EXCEPT !.hash = ComputeHash(unhashed)]

\* Mutants of InvolvedActorIds: NULL references kept; the history forgotten.
InvolvedActorIdsAndNull(evs, createdBy, assignedTo) ==
  {createdBy, assignedTo} \cup {evs[i].actorId : i \in 1..Len(evs)}
InvolvedActorIdsNow(evs, createdBy, assignedTo) == {createdBy, assignedTo} \ {NoActor}

\* getInvolvedActorIds.
InvolvedActorIds(evs, createdBy, assignedTo) ==
  ({createdBy, assignedTo} \ {NoActor}) \cup {evs[i].actorId : i \in 1..Len(evs)}

AuditEntry(action, actor, entity) ==
  [action |-> action, actorId |-> actor, entity |-> entity]

-----------------------------------------------------------------------------
TypeOK ==
  /\ batches \in [Batches -> BatchRows]
  /\ events \in [Batches -> Seq(TraceEvents)]
  /\ anomalies \in [Batches -> SUBSET Anomalies]
  /\ \A e \in auditLog : e.action \in AuditActions /\ e.actorId \in Actors
  /\ actors \in [Actors -> ActorRows]
  /\ lock \in [Batches -> Requests \cup {Free}]
  /\ pc \in [Requests -> PcValues]
  /\ dto \in [Requests -> Dtos]
  /\ seen \in [Requests -> BatchRows]
  /\ mine \in [Requests -> BatchRows]
  /\ nextAssignee \in [Requests -> ActorRefs]
  /\ draft \in [Requests -> TraceEvents \cup {NoEvent}]
  /\ found \in [Requests -> SUBSET Anomalies]
  /\ recipients \in [Requests -> SUBSET Actors]
  /\ pushes \subseteq Pushes

NoDto == [actorId |-> NoActor, role |-> "ADMIN", batch |-> CHOOSE b \in Batches : TRUE,
          stage |-> HARVEST, assignNextTo |-> NoActor]

Init ==
  /\ batches = [b \in Batches |-> NoRow]
  /\ events = [b \in Batches |-> << >>]
  /\ anomalies = [b \in Batches |-> {}]
  /\ auditLog = {}
  /\ actors = [a \in Actors |-> [role |-> InitRole[a], isActive |-> TRUE]]
  /\ lock = [b \in Batches |-> Free]
  /\ pc = [r \in Requests |-> "idle"]
  /\ dto = [r \in Requests |-> NoDto]
  /\ seen = [r \in Requests |-> NoRow]
  /\ mine = [r \in Requests |-> NoRow]
  /\ nextAssignee = [r \in Requests |-> NoActor]
  /\ draft = [r \in Requests |-> NoEvent]
  /\ found = [r \in Requests |-> {}]
  /\ recipients = [r \in Requests |-> {}]
  /\ pushes = {}

-----------------------------------------------------------------------------
(* How a request begins and ends *)

\* Mutants of LocksWithout: everybody's locks go; none goes.
AllLocksGone(r) == [b \in Batches |-> Free]
LocksKept(r)    == lock

\* Row locks go when the transaction does.
LocksWithout(r) == [b \in Batches |-> IF lock[b] = r THEN Free ELSE lock[b]]

\* The request is over; nothing of it is left.
Forget(r) ==
  /\ pc' = [pc EXCEPT ![r] = "idle"]
  /\ dto' = [dto EXCEPT ![r] = NoDto]
  /\ seen' = [seen EXCEPT ![r] = NoRow]
  /\ mine' = [mine EXCEPT ![r] = NoRow]
  /\ nextAssignee' = [nextAssignee EXCEPT ![r] = NoActor]
  /\ draft' = [draft EXCEPT ![r] = NoEvent]
  /\ found' = [found EXCEPT ![r] = {}]
  /\ recipients' = [recipients EXCEPT ![r] = {}]

\* An exception inside the transaction: ROLLBACK, and the error response.
Rollback(r) ==
  /\ lock' = LocksWithout(r)
  /\ Forget(r)
  /\ UNCHANGED <<tables, actors, pushes>>

\* COMMIT: the tables were published by the caller.  What is still to be
\* pushed survives in found and recipients.
Committed(r, next) ==
  /\ lock' = LocksWithout(r)
  /\ pc' = [pc EXCEPT ![r] = next]
  /\ UNCHANGED <<actors, pushes>>

\* statement_timeout, idle-in-transaction timeout, a lost connection or the
\* death of the process, at any point: the server rolls the transaction
\* back, and a push not yet made is never made.
Interrupted(r) == pc[r] # "idle" /\ Rollback(r)

\* Authentication (requireAuth) loads the actor's row once; the handler uses
\* that copy to the end.
Begin(r, a, b, stage, next, at) ==
  /\ pc[r] = "idle"
  /\ actors[a].isActive
  /\ dto' = [dto EXCEPT ![r] = [actorId |-> a, role |-> actors[a].role,
                                batch |-> b, stage |-> stage, assignNextTo |-> next]]
  /\ pc' = [pc EXCEPT ![r] = at]
  /\ UNCHANGED <<tables, actors, lock, seen, mine, nextAssignee, draft, found,
                 recipients, pushes>>

-----------------------------------------------------------------------------
(* createBatch: INSERT of the batch and of its audit entry.  Nobody else   *)
(* can see or lock the row before the commit, so the call is one step.     *)

CreateBatch(a, b) ==
  /\ actors[a].isActive
  /\ actors[a].role \in CreatorRoles
  /\ ~Exists(b)
  /\ batches' = [batches EXCEPT ![b] = [NoRow EXCEPT !.createdBy = a, !.assignedTo = a]]
  /\ auditLog' = auditLog \cup {AuditEntry("BATCH_CREATED", a, <<b>>)}
  /\ UNCHANGED <<events, anomalies, actors, lock, pc, scratch, pushes>>

-----------------------------------------------------------------------------
(* recordEvent *)

\* The role check is made on req.actor before the transaction is opened.
RequestRecord(r, a, b, stage, next) ==
  /\ stage \in ROLE_STAGES[actors[a].role]
  /\ Len(events[b]) < MaxEvents
  /\ Begin(r, a, b, stage, next, "record_lock")

\* Mutant of LockFree: nobody waits (no FOR UPDATE, no row lock).
NeverWaits(b) == TRUE

\* A statement that wants the row lock of b need not wait.
LockFree(b) == lock[b] = Free

\* findByIdForUpdate, then the checks on the row it returns.
LockBatch(r) ==
  LET b == dto[r].batch
  IN /\ pc[r] = "record_lock"
     /\ IF ~Visible(dto[r].actorId, b)
        THEN Rollback(r)
        ELSE /\ LockFree(b)
             /\ IF batches[b].isRecalled \/ ~HasCustody(dto[r], batches[b])
                THEN Rollback(r)
                ELSE /\ lock' = [lock EXCEPT ![b] = r]
                     /\ seen' = [seen EXCEPT ![r] = batches[b]]
                     /\ mine' = [mine EXCEPT ![r] = batches[b]]
                     /\ pc' = [pc EXCEPT ![r] = "record_handoff"]
                     /\ UNCHANGED <<tables, actors, dto, nextAssignee, draft,
                                    found, recipients, pushes>>

\* resolveNextAssignee reads the next actor's row without locking it; then
\* the event is built and hashed in memory.
HandOff(r) ==
  /\ pc[r] = "record_handoff"
  /\ IF HandOffRefused(r)
     THEN Rollback(r)
     ELSE /\ nextAssignee' = [nextAssignee EXCEPT ![r] = ResolvedAssignee(r)]
          /\ \E salt \in Salts : draft' = [draft EXCEPT ![r] = NewEvent(r, salt)]
          /\ pc' = [pc EXCEPT ![r] = "record_insert"]
          /\ UNCHANGED <<tables, actors, lock, dto, seen, mine, found, recipients, pushes>>

\* The row the ledger trigger reads and locks: the transaction's own image
\* when it holds the lock, else the last committed one.
LatestRow(r) == IF lock[dto[r].batch] = r THEN mine[r] ELSE batches[dto[r].batch]

\* The RAISEs of ledger_append_event.
LedgerRefuses(row, e) ==
  \/ row.isRecalled
  \/ e.sequenceNumber # row.eventCount
  \/ e.prevHash # row.headHash

\* INSERT INTO trace_events, with its BEFORE INSERT trigger.
InsertEvent(r) ==
  LET b == dto[r].batch
  IN /\ pc[r] = "record_insert"
     /\ lock[b] \in {Free, r}
     /\ IF LedgerRefuses(LatestRow(r), draft[r])
        THEN Rollback(r)
        ELSE /\ lock' = [lock EXCEPT ![b] = r]
             /\ mine' = [mine EXCEPT ![r] = [LatestRow(r) EXCEPT
                             !.headHash = draft[r].hash, !.eventCount = @ + 1]]
             /\ pc' = [pc EXCEPT ![r] = "record_detect"]
             /\ UNCHANGED <<tables, actors, dto, seen, nextAssignee, draft,
                            found, recipients, pushes>>

\* findByBatchId inside the transaction: the committed rows and its own.
AllEvents(r) == Append(events[dto[r].batch], draft[r])

\* detectNewAnomalies, and one INSERT per anomaly.
StoreAnomalies(r) ==
  /\ pc[r] = "record_detect"
  /\ found' = [found EXCEPT ![r] = DetectNewAnomalies(AllEvents(r))]
  /\ pc' = [pc EXCEPT ![r] = "record_advance"]
  /\ UNCHANGED <<tables, actors, lock, dto, seen, mine, nextAssignee, draft,
                 recipients, pushes>>

\* batches_guard_update raises when the stage would go back.
StageRegresses(row, stage) == stage < row.currentStage

\* advanceStage: the stage and the custodian, only on a forward step.
AdvanceStage(r) ==
  /\ pc[r] = "record_advance"
  /\ IF IsAdvancing(r) /\ StageRegresses(mine[r], dto[r].stage)
     THEN Rollback(r)
     ELSE /\ mine' = [mine EXCEPT ![r] =
                        IF IsAdvancing(r)
                        THEN [@ EXCEPT !.currentStage = dto[r].stage,
                                       !.assignedTo = nextAssignee[r]]
                        ELSE @]
          /\ pc' = [pc EXCEPT ![r] = "record_commit"]
          /\ UNCHANGED <<tables, actors, lock, dto, seen, nextAssignee, draft,
                         found, recipients, pushes>>

\* The audit entry, the recipients, COMMIT.
CommitRecord(r) ==
  LET b == dto[r].batch
  IN /\ pc[r] = "record_commit"
     /\ batches' = [batches EXCEPT ![b] = mine[r]]
     /\ events' = [events EXCEPT ![b] = AllEvents(r)]
     /\ anomalies' = [anomalies EXCEPT ![b] = @ \cup found[r]]
     /\ auditLog' = auditLog \cup
          {AuditEntry("EVENT_RECORDED", dto[r].actorId, <<b, draft[r].sequenceNumber>>)}
     /\ recipients' = [recipients EXCEPT ![r] =
          IF found[r] = {} THEN {}
          ELSE InvolvedActorIds(AllEvents(r), seen[r].createdBy, nextAssignee[r])]
     /\ Committed(r, "emit_anomalies")
     /\ UNCHANGED <<dto, seen, mine, nextAssignee, draft, found>>

\* The loop over newAnomalies after the transaction; the response.
EmitAnomalies(r) ==
  /\ pc[r] = "emit_anomalies"
  /\ pushes' = pushes \cup
       {[kind |-> "anomaly", batch |-> dto[r].batch, eventSeq |-> a.eventSeq,
         type |-> a.type, to |-> recipients[r]] : a \in found[r]}
  /\ Forget(r)
  /\ UNCHANGED <<tables, actors, lock>>

-----------------------------------------------------------------------------
(* recallBatch *)

RequestRecall(r, a, b) ==
  /\ actors[a].role \in RecallRoles
  /\ Begin(r, a, b, HARVEST, NoActor, "recall_update")

\* UPDATE ... WHERE id = $1 AND NOT is_recalled: waits for the row lock only
\* when the row matches, and looks at the row again once it has it.
MarkRecalled(r) ==
  LET b == dto[r].batch
  IN /\ pc[r] = "recall_update"
     /\ IF ~Visible(dto[r].actorId, b) \/ batches[b].isRecalled
        THEN Rollback(r)
        ELSE /\ LockFree(b)
             /\ lock' = [lock EXCEPT ![b] = r]
             /\ mine' = [mine EXCEPT ![r] = [batches[b] EXCEPT !.isRecalled = TRUE]]
             /\ pc' = [pc EXCEPT ![r] = "recall_commit"]
             /\ UNCHANGED <<tables, actors, dto, seen, nextAssignee, draft,
                            found, recipients, pushes>>

\* The audit entry, the events for the recipients, COMMIT.
CommitRecall(r) ==
  LET b == dto[r].batch
  IN /\ pc[r] = "recall_commit"
     /\ batches' = [batches EXCEPT ![b] = mine[r]]
     /\ auditLog' = auditLog \cup {AuditEntry("BATCH_RECALLED", dto[r].actorId, <<b>>)}
     /\ recipients' = [recipients EXCEPT ![r] =
          InvolvedActorIds(events[b], mine[r].createdBy, mine[r].assignedTo)]
     /\ Committed(r, "emit_recall")
     /\ UNCHANGED <<events, anomalies, dto, seen, mine, nextAssignee, draft, found>>

EmitRecall(r) ==
  /\ pc[r] = "emit_recall"
  /\ pushes' = pushes \cup {[kind |-> "recall", batch |-> dto[r].batch, to |-> recipients[r]]}
  /\ Forget(r)
  /\ UNCHANGED <<tables, actors, lock>>

-----------------------------------------------------------------------------
(* adminService.setActorStatus / setActorRole, seen from the ledger: one   *)
(* UPDATE of an actor's row and its audit entry, by an active admin of the *)
(* same tenant.  No batch row is involved.  Authorisation and UPDATE are   *)
(* one step here.                                                          *)

ActorAdmin(adm, t) ==
  /\ actors[adm].isActive
  /\ actors[adm].role = "ADMIN"
  /\ TenantOf[adm] = TenantOf[t]

SetActorStatus(adm, t, isActive) ==
  /\ ActorAdmin(adm, t)
  /\ adm = t => isActive
  /\ actors' = [actors EXCEPT ![t].isActive = isActive]
  /\ auditLog' = auditLog \cup
       {AuditEntry(IF isActive THEN "ACTOR_ACTIVATED" ELSE "ACTOR_DEACTIVATED", adm, <<t>>)}
  /\ UNCHANGED <<batches, events, anomalies, lock, pc, scratch, pushes>>

SetActorRole(adm, t, role) ==
  /\ ActorAdmin(adm, t)
  /\ adm # t
  /\ actors' = [actors EXCEPT ![t].role = role]
  /\ auditLog' = auditLog \cup {AuditEntry("ACTOR_ROLE_CHANGED", adm, <<t, role>>)}
  /\ UNCHANGED <<batches, events, anomalies, lock, pc, scratch, pushes>>

-----------------------------------------------------------------------------
\* What the code of request r does once the request is there.
Step(r) ==
  \/ LockBatch(r) \/ HandOff(r) \/ InsertEvent(r) \/ StoreAnomalies(r)
  \/ AdvanceStage(r) \/ CommitRecord(r) \/ EmitAnomalies(r)
  \/ MarkRecalled(r) \/ CommitRecall(r) \/ EmitRecall(r)

Arrival ==
  \/ \E a \in Actors, b \in Batches : CreateBatch(a, b)
  \/ \E r \in Requests, a \in Actors, b \in Batches :
       \/ \E stage \in DtoStages, next \in ActorRefs : RequestRecord(r, a, b, stage, next)
       \/ RequestRecall(r, a, b)
  \/ \E adm \in Actors, t \in ManagedActors :
       \/ \E isActive \in BOOLEAN : SetActorStatus(adm, t, isActive)
       \/ \E role \in GivenRoles : SetActorRole(adm, t, role)

Next ==
  \/ Arrival
  \/ \E r \in Requests : Step(r) \/ Interrupted(r)

Spec == Init /\ [][Next]_vars

-----------------------------------------------------------------------------
(* Safety *)

RecordedHead(b) == [hash |-> batches[b].headHash, eventCount |-> batches[b].eventCount]

\* Whatever requests interleave, fail or are cut off, the committed chain of
\* every batch verifies against the head its row records: appends neither
\* fork nor lose an event (findByIdForUpdate and the trigger of migration 007).
ChainIntact == \A b \in Batches : VerifyChain(events[b], RecordedHead(b), FALSE)

\* current_stage is the furthest stage the history reaches, although it is
\* written by a statement of its own, from a row read earlier in the
\* transaction, and only when the recording advances.
StageIsFrontier ==
  \A b \in Batches :
    /\ \A i \in 1..Len(events[b]) : events[b][i].stage <= batches[b].currentStage
    /\ \/ batches[b].currentStage = NotStarted /\ events[b] = << >>
       \/ \E i \in 1..Len(events[b]) : events[b][i].stage = batches[b].currentStage

\* Storing only the newest event's anomalies at each write adds up to what a
\* scan of the whole history reports: none missed, none twice, none left
\* behind by a transaction that was rolled back.
AnomaliesComplete == \A b \in Batches : anomalies[b] = DetectAnomalies(events[b])

\* A hand-off never strands a batch: while roles and statuses stay as they
\* are, whoever holds custody of a live batch finds it in the work queue.
PendingFor(a) ==
  {b \in Batches :
     /\ Visible(a, b)
     /\ ~batches[b].isRecalled
     /\ batches[b].currentStage + 1 \in ROLE_STAGES[actors[a].role]
     /\ \/ actors[a].role = "ADMIN"
        \/ batches[b].assignedTo \in {NoActor, a}}

CustodianHasWork ==
  \A b \in Batches :
    LET c == batches[b].assignedTo
    IN c # NoActor /\ ~batches[b].isRecalled => actors[c].isActive /\ b \in PendingFor(c)

\* Everyone a batch row, its history or a push about it names is of the
\* batch's own tenant, although assignNextTo and the batch id are client input.
TenantIsolation ==
  /\ \A b \in Batches : Exists(b) =>
       \A a \in InvolvedActorIds(events[b], batches[b].createdBy, batches[b].assignedTo) :
         TenantOf[a] = TenantOfBatch(b)
  /\ \A p \in pushes : \A a \in p.to : TenantOf[a] = TenantOfBatch(p.batch)

\* The audit log and the ledger say the same: an entry for each event, by
\* the actor who recorded it, none for an event that is not there; and one
\* recall entry for a recalled batch, none for another.
AuditMatchesLedger ==
  \A b \in Batches :
    /\ {<<e.actorId, e.entity>> : e \in {x \in auditLog : x.action = "EVENT_RECORDED" /\ x.entity[1] = b}}
         = {<<events[b][i].actorId, <<b, i - 1>> >> : i \in 1..Len(events[b])}
    /\ LET recalls == {e \in auditLog : e.action = "BATCH_RECALLED" /\ e.entity = <<b>>}
       IN IF batches[b].isRecalled THEN \E e \in recalls : recalls = {e} ELSE recalls = {}

\* Nobody is told of an anomaly or a recall that was rolled back.  An anomaly
\* reaches the creator and everyone who had recorded up to it; a recall goes to
\* exactly the people the polling endpoint would tell, at the time and ever
\* after, since the batch is frozen by then.
PushesAreTrue ==
  \A p \in pushes :
    \/ /\ p.kind = "recall"
       /\ batches[p.batch].isRecalled
       /\ p.to = InvolvedActorIds(events[p.batch], batches[p.batch].createdBy, batches[p.batch].assignedTo)
    \/ /\ p.kind = "anomaly"
       /\ [type |-> p.type, eventSeq |-> p.eventSeq] \in anomalies[p.batch]
       /\ batches[p.batch].createdBy \in p.to
       /\ \A i \in 1..(p.eventSeq + 1) : events[p.batch][i].actorId \in p.to

-----------------------------------------------------------------------------
(* Action properties *)

\* A recall is final: nothing of the batch changes after it, not by a request
\* that had passed its own checks before.
RecallFreezesBatch ==
  [][\A b \in Batches : batches[b].isRecalled =>
       /\ batches'[b] = batches[b]
       /\ events'[b] = events[b]
       /\ anomalies'[b] = anomalies[b]]_vars

\* At the moment an event becomes visible its recorder still is the custodian
\* (or custody is open, or the recorder was authenticated as ADMIN): no
\* hand-off slips in between the check and the commit.
CustodyRespected ==
  [][\A b \in Batches : Len(events'[b]) > Len(events[b]) =>
       LET a == events'[b][Len(events'[b])].actorId
       IN \/ batches[b].assignedTo \in {NoActor, a}
          \/ \E r \in Requests : /\ pc[r] = "record_commit"
                                 /\ dto[r].batch = b
                                 /\ dto[r].actorId = a
                                 /\ dto[r].role = "ADMIN"]_vars

-----------------------------------------------------------------------------
(* Implementation of the abstract ledger *)

MayBeAdmin ==
  {a \in Actors : \/ InitRole[a] = "ADMIN"
                  \/ a \in ManagedActors /\ "ADMIN" \in GivenRoles}

Ledger == INSTANCE CustodyLedger WITH
  Overriders <- MayBeAdmin,
  creator    <- [b \in Batches |-> batches[b].createdBy],
  history    <- [b \in Batches |-> [i \in 1..Len(events[b]) |->
                   [stage |-> events[b][i].stage, actorId |-> events[b][i].actorId]]],
  frontier   <- [b \in Batches |-> batches[b].currentStage],
  custodian  <- [b \in Batches |-> batches[b].assignedTo],
  recalled   <- [b \in Batches |-> batches[b].isRecalled]

\* The interleaved transactions look, to whoever reads committed data, like
\* the one-step operations of the abstract ledger.
ImplementsLedger == Ledger!Spec
=============================================================================
