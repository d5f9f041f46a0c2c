------------------------------ MODULE MCLedger ------------------------------
(***************************************************************************)
(* Small instances of what goes on around the ledger at once: scans of     *)
(* IntegrityScan that wait for one another's alerts, beside recording; and *)
(* requests of SupplyChain that wait for one another's row locks, while    *)
(* admins change accounts.  The two share no state here: a behaviour is    *)
(* one part's, and the other stays as it began.                            *)
(***************************************************************************)
EXTENDS IntegrityScan, TLC

CONSTANTS Parts,     \* the parts a run is about
          farmer, processor, admin, outsider,
          People,    \* the Actors of SupplyChain, and what else it is given
          NoActor, NoEvent, Free, RequestStages, ManagedActors, GivenRoles

VARIABLES part,
          batches, events, anomalies, auditLog, actors, lock, requestPc, dto, seen,
          mine, nextAssignee, draft, found, recipients, pushes

requestVars == <<batches, events, anomalies, auditLog, actors, lock, requestPc, dto, seen,
                 mine, nextAssignee, draft, found, recipients, pushes>>

\* A workspace of three, and one actor of another tenant.
Service == INSTANCE SupplyChain WITH
  pc <- requestPc, Requests <- Scanners, Batches <- {"b1"}, Actors <- People, Tenants <- {"t1", "t2"},
  TenantOf <- [a \in People |-> IF a = outsider THEN "t2" ELSE "t1"],
  InitRole <- [a \in People |-> CASE a = farmer    -> "FARMER"
                                  [] a = processor -> "PROCESSOR"
                                  [] OTHER         -> "ADMIN"],
  DtoStages <- RequestStages, MaxEvents <- 1

\* Of the scans and of the requests, which have the same names.
ServerSymmetry == Permutations(Scanners)

-----------------------------------------------------------------------------
AroundInit == part \in Parts /\ Init /\ Service!Init

AroundNext ==
  /\ UNCHANGED part
  /\ \/ part = "scans" /\ Next /\ UNCHANGED requestVars
     \/ part = "requests" /\ Service!Next /\ UNCHANGED vars

AroundSpec == AroundInit /\ [][AroundNext]_<<vars, requestVars, part>>

\* A scan or a request once begun runs on.  PostgreSQL queues who waits for a row
\* lock, and wakes an INSERT that waits for another scan's alert each time that
\* one's transaction ends, so none is passed over for ever.  Nothing makes
\* anybody begin.
RunsOn(r) ==
  \/ part = "scans" /\ ScanStep(r) /\ UNCHANGED <<requestVars, part>>
  \/ part = "requests" /\ Service!Step(r) /\ UNCHANGED <<vars, part>>

IsServed(r) ==
  \/ part = "scans" /\ CheckBatch(r) /\ UNCHANGED <<requestVars, part>>
  \/ part = "requests" /\ (Service!LockBatch(r) \/ Service!MarkRecalled(r)) /\ UNCHANGED <<vars, part>>

FairAroundSpec ==
  /\ AroundSpec
  /\ \A r \in Scanners : /\ WF_<<vars, requestVars, part>>(RunsOn(r))
                         /\ SF_<<vars, requestVars, part>>(IsServed(r))

-----------------------------------------------------------------------------
\* Nobody of another workspace is named by a batch, its history or a push, while
\* requests of both name each other's batch and actors.
TenantIsolation == Service!TenantIsolation

AtRest(r) == pc[r] = "ready" /\ requestPc[r] = "idle"

\* A request that waits for a row lock, or holds one, does not do so for ever; and
\* a scan that is not cut off ends, also when scans wait for one another's
\* uncommitted alerts.
WorkEnds == \A r \in Scanners : ~AtRest(r) ~> AtRest(r)
=============================================================================
