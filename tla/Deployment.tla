----------------------------- MODULE Deployment -----------------------------
(***************************************************************************)
(* A deployment as it rolls out: migration jobs (backend/src/db/migrate.ts *)
(* and migrator.ts) and API replicas that check the schema, seed the demo  *)
(* tenant, serve and shut down (bootstrap.ts, sampleData.ts, index.ts).    *)
(* Any process may be killed between two of its transactions; some run an  *)
(* older set of migration files than others.                               *)
(***************************************************************************)
EXTENDS AnomalyDetector, FiniteSets, SequencesExt

CONSTANTS Migrators, Servers,
          NoMigrator,   \* nobody holds the advisory lock
          MaxVersion,   \* the newest migration there is
          MaxRequests   \* requests a replica serves at once

ASSUME DeploymentAssumption == MaxVersion \in Nat /\ MaxRequests \in Nat /\ NoMigrator \notin Migrators

VARIABLES
  config,     \* shouldSeedDemoData, and the newest migration each process ships
  applied,    \* table schema_migrations: the versions recorded
  ran,        \* how often each version's SQL was committed
  advisory,   \* the session holding MIGRATION_LOCK_KEY
  jobs,       \* where each migration job stands
  demo,       \* role of each demo account there is
  filled,     \* how many transactions of the sample data each replica committed
  servers,    \* where each replica stands
  overlap,    \* history: two replicas found the demo tenant empty at once
  torn        \* history: replicas killed in the middle of filling it

schemaVars == <<applied, ran, advisory, jobs>>
seedVars   == <<demo, filled, overlap, torn>>
deployVars == <<config, schemaVars, seedVars, servers>>

Versions == 1..MaxVersion
Files(p) == 1..config.files[p]
Configs  == [seedDemo: BOOLEAN, files: [Migrators \cup Servers -> Versions]]

-----------------------------------------------------------------------------
(* The sample data *)

Step(by, stage, to) == [role |-> by, stage |-> stage, to |-> to]
NoOne == "nobody"

\* Mutant of Pipeline: quality control hands over to the distributor.
PipelineWrongHandOff ==
  << Step("FARMER", HARVEST, "PROCESSOR"), Step("PROCESSOR", PROCESSING, "INSPECTOR"),
     Step("INSPECTOR", QUALITY_CHECK, "DISTRIBUTOR"), Step("PROCESSOR", PACKAGING, "DISTRIBUTOR"),
     Step("DISTRIBUTOR", DISTRIBUTION, "RETAILER"), Step("RETAILER", RETAIL, NoOne) >>

\* The way all sample batches go; each role has one demo account.
Pipeline ==
  << Step("FARMER", HARVEST, "PROCESSOR"), Step("PROCESSOR", PROCESSING, "INSPECTOR"),
     Step("INSPECTOR", QUALITY_CHECK, "PROCESSOR"), Step("PROCESSOR", PACKAGING, "DISTRIBUTOR"),
     Step("DISTRIBUTOR", DISTRIBUTION, "RETAILER"), Step("RETAILER", RETAIL, NoOne) >>

\* SAMPLE_BATCHES: how far each one gets; the last is recalled.
Sample == [i \in 1..7 |-> SubSeq(Pipeline, 1, <<6, 6, 1, 2, 4, 1, 3>>[i])]

\* Mutant of Messy: the stage to be skipped is there.
MessyInOrder == << <<Step("ADMIN", HARVEST, NoOne), Step("ADMIN", PROCESSING, NoOne)>>,
                   <<Step("ADMIN", HARVEST, NoOne), Step("ADMIN", HARVEST, NoOne)>> >>

\* ANOMALY_BATCHES, and the anomaly each is there to show.
Messy == << <<Step("ADMIN", HARVEST, NoOne), Step("ADMIN", PACKAGING, NoOne)>>,
            <<Step("ADMIN", HARVEST, NoOne), Step("ADMIN", HARVEST, NoOne)>> >>
MessyShows == << "STAGE_SKIPPED", "DUPLICATE_STAGE" >>

\* The transactions of seedSampleBatches: creating (0), recording, recalling.
TxsOf(steps, recalled) ==
  [i \in 1..(Len(steps) + IF recalled THEN 2 ELSE 1) |-> [steps |-> steps, n |-> i - 1]]
SeedTxs == FlattenSeq([i \in 1..9 |-> IF i <= 7 THEN TxsOf(Sample[i], i = 7)
                                                ELSE TxsOf(Messy[i - 7], FALSE)])

\* Stage and custodian of a batch after n of its steps.
RowAfter(steps, n) ==
  LET row[i \in 0..n] ==
        IF i = 0 THEN [stage |-> NotStarted, holder |-> steps[1].role]
        ELSE IF steps[i].stage > row[i - 1].stage
             THEN [stage |-> steps[i].stage, holder |-> steps[i].to] ELSE row[i - 1]
  IN row[n]

\* recordEvent does not throw: the role, the custody and the hand-off.
RecordAllowed(steps, n) ==
  LET step == steps[n]
      row  == RowAfter(steps, n - 1)
  IN /\ step.stage \in ROLE_STAGES[demo[step.role]]
     /\ demo[step.role] = "ADMIN" \/ row.holder \in {NoOne, step.role}
     /\ step.stage <= row.stage \/ step.stage = TerminalStage
        \/ (IF step.to = NoOne THEN demo[step.role] = "ADMIN"
            ELSE step.stage + 1 \in ROLE_STAGES[demo[step.to]])

SeedTxAllowed(tx) == tx.n \notin 1..Len(tx.steps) \/ RecordAllowed(tx.steps, tx.n)

DEMO_ACCOUNTS == <<"FARMER", "PROCESSOR", "INSPECTOR", "DISTRIBUTOR", "RETAILER", "ADMIN">>

-----------------------------------------------------------------------------
(* Migration jobs *)

\* assertNoDrift throws: the database has a version this process does not.
Drift(p) == ~(applied \subseteq Files(p))

JobRows == [at: {"idle", "lock", "read", "apply"}, pending: SUBSET Versions]
Stopped == [at |-> "idle", pending |-> {}]
JobAt(m, place) == jobs' = [jobs EXCEPT ![m].at = place]

StartJob(m) ==
  /\ jobs[m] = Stopped
  /\ JobAt(m, "lock")
  /\ UNCHANGED <<config, applied, ran, advisory, servers, seedVars>>

\* Mutant of LockFree: pg_advisory_lock does not wait.
LockFreeAlways == TRUE

LockFree == advisory = NoMigrator

\* pg_advisory_lock
LockSchema(m) ==
  /\ jobs[m].at = "lock" /\ LockFree
  /\ advisory' = m
  /\ JobAt(m, "read")
  /\ UNCHANGED <<config, applied, ran, servers, seedVars>>

\* readApplied; what is pending is settled here, for the whole run.
ReadApplied(m) ==
  /\ jobs[m].at = "read" /\ ~Drift(m)
  /\ jobs' = [jobs EXCEPT ![m] = [at |-> "apply", pending |-> Files(m) \ applied]]
  /\ UNCHANGED <<config, applied, ran, advisory, servers, seedVars>>

\* Mutant of Record: the SQL is committed on its own, its row later or never.
RecordLater(v) == applied' \in {applied, applied \cup {v}}

Record(v) == applied' = applied \cup {v}

\* One pending file, the lowest: its SQL and its row in one transaction.
ApplyMigration(m) ==
  /\ jobs[m].at = "apply"
  /\ \E v \in jobs[m].pending \ applied :
       /\ \A w \in jobs[m].pending : v <= w
       /\ ran' = [ran EXCEPT ![v] = @ + 1]
       /\ Record(v)
       /\ jobs' = [jobs EXCEPT ![m].pending = @ \ {v}]
  /\ UNCHANGED <<config, advisory, servers, seedVars>>

\* Mutant of UnlockedBy: the lock outlives its session.
UnlockedNever(m) == advisory

\* pg_advisory_unlock; a session that dies loses it too.
UnlockedBy(m) == IF advisory = m THEN NoMigrator ELSE advisory

\* All applied; or drift, a failing file and its ROLLBACK, exit(1); or killed.
EndJob(m) ==
  /\ jobs[m].at # "idle"
  /\ jobs' = [jobs EXCEPT ![m] = Stopped]
  /\ advisory' = UnlockedBy(m)
  /\ UNCHANGED <<config, applied, ran, servers, seedVars>>

-----------------------------------------------------------------------------
(* API replicas *)

ServerRows ==
  [at: {"down", "schema", "account", "provision", "look", "fill", "serving", "draining"},
   account: 1..6, requests: 0..MaxRequests, refused: BOOLEAN]

Down == [at |-> "down", account |-> 1, requests |-> 0, refused |-> FALSE]
ServerAt(p, place) == servers' = [servers EXCEPT ![p].at = place]

Start(p) ==
  /\ servers[p].at = "down"
  /\ servers' = [servers EXCEPT ![p] = [Down EXCEPT !.at = "schema"]]
  /\ UNCHANGED <<config, schemaVars, seedVars>>

\* Mutant of SchemaUpToDate: only drift is looked for.
SchemaNotDrifted(p) == ~Drift(p)

\* assertSchemaUpToDate does not throw.
SchemaUpToDate(p) == ~Drift(p) /\ Files(p) \ applied = {}

\* The demo tenant itself is there: a migration inserts it.
CheckSchema(p) ==
  /\ servers[p].at = "schema" /\ SchemaUpToDate(p)
  /\ ServerAt(p, IF config.seedDemo THEN "account" ELSE "serving")
  /\ UNCHANGED <<config, schemaVars, seedVars>>

Account(p) == DEMO_ACCOUNTS[servers[p].account]
Missing    == {i \in 1..Len(DEMO_ACCOUNTS) : DEMO_ACCOUNTS[i] \notin DOMAIN demo}

\* The loop of lookups comes to the next account there is not, or to its end.
LookUpAccounts(p) ==
  /\ servers[p].at = "account"
  /\ IF Missing = {} THEN ServerAt(p, "look")
     ELSE servers' = [servers EXCEPT ![p].at = "provision", ![p].account = Min(Missing)]
  /\ UNCHANGED <<config, schemaVars, seedVars>>

\* Mutant of ProvisionedRole: the demo tenant is not there before its first
\* account, who becomes its ADMIN.
FounderIsAdmin(p) == IF demo = << >> THEN "ADMIN" ELSE Account(p)

\* Mutant of ProvisionedRole: the role is not passed on.
NoRoleGiven(p) == NoOne

\* The tenant is there: the role is the one asked for.
ProvisionedRole(p) == Account(p)

\* provisionActor; an account that came to exist meanwhile is a ConflictError,
\* which ends this replica (EndServer).
ProvisionAccount(p) ==
  /\ servers[p].at = "provision" /\ Account(p) \notin DOMAIN demo
  /\ demo' = [r \in DOMAIN demo \cup {Account(p)} |-> IF r = Account(p) THEN ProvisionedRole(p) ELSE demo[r]]
  /\ servers' = [servers EXCEPT ![p].at = "account", ![p].account = 1]
  /\ UNCHANGED <<config, schemaVars, filled, overlap, torn>>

\* Mutant of HasBatches: every boot fills the tenant.
HasBatchesNever == FALSE

HasBatches == \E q \in Servers : filled[q] > 0

\* tenantHasBatches
LookForBatches(p) ==
  /\ servers[p].at = "look"
  /\ IF HasBatches
     THEN ServerAt(p, "serving") /\ UNCHANGED overlap
     ELSE /\ ServerAt(p, "fill")
          /\ overlap' = (overlap \/ \E q \in Servers : servers[q].at = "fill")
  /\ UNCHANGED <<config, schemaVars, demo, filled, torn>>

\* The next transaction of the sample data, committed or refused.
Fill(p) ==
  /\ servers[p].at = "fill" /\ ~servers[p].refused /\ filled[p] < Len(SeedTxs)
  /\ IF SeedTxAllowed(SeedTxs[filled[p] + 1])
     THEN filled' = [filled EXCEPT ![p] = @ + 1] /\ UNCHANGED servers
     ELSE servers' = [servers EXCEPT ![p].refused = TRUE] /\ UNCHANGED filled
  /\ UNCHANGED <<config, schemaVars, demo, overlap, torn>>

\* Mutant of Listen: the filling is not awaited.
ListenUnawaited(p) ==
  /\ servers[p].at = "fill" /\ filled[p] > 0
  /\ ServerAt(p, "serving")
  /\ UNCHANGED <<config, schemaVars, seedVars>>

\* httpServer.listen
Listen(p) ==
  /\ servers[p].at = "fill" /\ filled[p] = Len(SeedTxs)
  /\ ServerAt(p, "serving")
  /\ UNCHANGED <<config, schemaVars, seedVars>>

Accept(p) ==
  /\ servers[p].at = "serving" /\ servers[p].requests < MaxRequests
  /\ servers' = [servers EXCEPT ![p].requests = @ + 1]
  /\ UNCHANGED <<config, schemaVars, seedVars>>

Answer(p) ==
  /\ servers[p].requests > 0
  /\ servers' = [servers EXCEPT ![p].requests = @ - 1]
  /\ UNCHANGED <<config, schemaVars, seedVars>>

\* SIGTERM or SIGINT; a second one is ignored.
Signal(p) ==
  /\ servers[p].at = "serving"
  /\ ServerAt(p, "draining")
  /\ UNCHANGED <<config, schemaVars, seedVars>>

\* httpServer.close calls back, the pool is closed: exit(0).
Exit(p) ==
  /\ servers[p].at = "draining" /\ servers[p].requests = 0
  /\ servers' = [servers EXCEPT ![p] = Down]
  /\ UNCHANGED <<config, schemaVars, seedVars>>

\* Mutant of ForceExit: the timer waits for the requests as well.
ForceExitWhenIdle(p) == Exit(p)

\* SHUTDOWN_GRACE_MS is over: exit(1).
ForceExit(p) ==
  /\ servers[p].at = "draining"
  /\ servers' = [servers EXCEPT ![p] = Down]
  /\ UNCHANGED <<config, schemaVars, seedVars>>

\* bootstrap throws and main exits, or the process is killed.
EndServer(p) ==
  /\ servers[p].at # "down"
  /\ torn' = IF servers[p].at = "fill" /\ filled[p] > 0 THEN torn \cup {p} ELSE torn
  /\ servers' = [servers EXCEPT ![p] = Down]
  /\ UNCHANGED <<config, schemaVars, demo, filled, overlap>>

-----------------------------------------------------------------------------
DeploymentInit ==
  /\ config \in Configs
  /\ applied \in {1..v : v \in 0..MaxVersion} /\ advisory = NoMigrator
  /\ ran = [v \in Versions |-> IF v \in applied THEN 1 ELSE 0]
  /\ jobs = [m \in Migrators |-> Stopped]
  /\ demo = << >> /\ filled = [p \in Servers |-> 0] /\ overlap = FALSE /\ torn = {}
  /\ servers = [p \in Servers |-> Down]

JobStep(m)  == LockSchema(m) \/ ReadApplied(m) \/ ApplyMigration(m) \/ EndJob(m)
BootStep(p) == \/ CheckSchema(p) \/ LookUpAccounts(p) \/ ProvisionAccount(p)
               \/ LookForBatches(p) \/ Fill(p) \/ Listen(p)

DeploymentNext ==
  \/ \E m \in Migrators : StartJob(m) \/ JobStep(m)
  \/ \E p \in Servers :
       \/ Start(p) \/ BootStep(p) \/ EndServer(p)
       \/ Accept(p) \/ Answer(p) \/ Signal(p) \/ Exit(p) \/ ForceExit(p)

JobOver(m) == \/ jobs[m].at = "read" /\ Drift(m)
              \/ jobs[m].at = "apply" /\ jobs[m].pending = {}

\* Mutant of BootThrows: main does not catch.
BootThrowsUncaught(p) == FALSE

BootThrows(p) == \/ servers[p].at = "schema" /\ ~SchemaUpToDate(p)
                 \/ servers[p].at = "provision" /\ Account(p) \in DOMAIN demo
                 \/ servers[p].refused

\* Jobs and replicas run, those waiting for the advisory lock are queued, the
\* shutdown timer goes off.  Nothing makes a request come to its end, and
\* nothing makes anybody start, stop or kill a process.
DeploymentFairness ==
  /\ \A m \in Migrators : /\ SF_deployVars(LockSchema(m))
                          /\ WF_deployVars(ReadApplied(m) \/ ApplyMigration(m))
                          /\ WF_deployVars(JobOver(m) /\ EndJob(m))
  /\ \A p \in Servers : /\ WF_deployVars(BootStep(p))
                        /\ WF_deployVars(BootThrows(p) /\ EndServer(p))
                        /\ WF_deployVars(ForceExit(p))

DeploymentSpec == DeploymentInit /\ [][DeploymentNext]_deployVars /\ DeploymentFairness

-----------------------------------------------------------------------------
(* Properties *)

DeploymentTypeOK ==
  /\ config \in Configs /\ applied \subseteq Versions /\ ran \in [Versions -> Nat]
  /\ advisory \in Migrators \cup {NoMigrator} /\ jobs \in [Migrators -> JobRows]
  /\ DOMAIN demo \subseteq Roles /\ \A r \in DOMAIN demo : demo[r] \in Roles
  /\ filled \in [Servers -> 0..Len(SeedTxs)] /\ overlap \in BOOLEAN /\ torn \subseteq Servers
  /\ servers \in [Servers -> ServerRows]

\* Every migration's SQL is committed once, together with its row, and in
\* order, whichever jobs run at once or are killed in between.
MigratedOnce ==
  /\ \A v \in Versions : ran[v] = (IF v \in applied THEN 1 ELSE 0)
  /\ \A v \in applied : 1..v \subseteq applied

\* What a job found pending is still pending when it comes to apply it: the
\* advisory lock spans the look and the writes.
PendingIsCurrent ==
  \A m \in Migrators : jobs[m].pending \cap applied = {}

\* "Refuses to serve traffic against a schema that's behind": whatever a
\* replica's code relies on has been applied before it seeds or serves.
SchemaIsComplete ==
  \A p \in Servers : servers[p].at \notin {"down", "schema"} => Files(p) \subseteq applied

\* Demo accounts keep the role they are listed with: the tenant pre-exists,
\* so provisionActor makes none of them its ADMIN by the way.
DemoRolesAsListed == \A r \in DOMAIN demo : demo[r] = r

\* No step of the sample data is refused by the rules recordEvent enforces.
SampleDataIsLegal == \A p \in Servers : ~servers[p].refused

\* What the detector finds in the events of transaction i's batch.
Shown(i) ==
  {a.type : a \in DetectAnomalies(
     [j \in 1..SeedTxs[i].n |-> [stage |-> SeedTxs[i].steps[j].stage, sequenceNumber |-> j - 1]])}
Faithful == {i \in 1..Len(SeedTxs) :
               LET steps == SeedTxs[i].steps IN
               \/ SeedTxs[i].n # Len(steps)
               \/ Shown(i) = {} /\ steps \in ToSet(Sample)
               \/ \E k \in 1..2 : steps = Messy[k] /\ Shown(i) = {MessyShows[k]}}

\* Each messy sample shows exactly the anomaly its comment announces, and no
\* other sample shows any.
SamplesShowWhatTheySay == \A p \in Servers : 1..filled[p] \subseteq Faithful

\* "It only ever fills a demo tenant that has no batches yet": a tenant filled
\* twice was found empty by two replicas at the same time.
FilledTwiceOnlyByOverlap ==
  Cardinality({p \in Servers : filled[p] > 0}) > 1 => overlap

\* A replica serves a partial demo only while another is filling it or because
\* one was killed over it - then for good, as the next boot finds batches.
PartialDemoHasACause ==
  config.seedDemo => \A p \in Servers : servers[p].at \in {"serving", "draining"} =>
    \E q \in Servers : \/ filled[q] = Len(SeedTxs) \/ q \in torn
                      \/ (servers[q].at = "fill" /\ filled[q] > 0)

\* A job that waits for the lock gets it or ends, though others are killed
\* while they hold it.
JobsGetTheLock == \A m \in Migrators : jobs[m].at = "lock" ~> jobs[m].at # "lock"

\* A boot comes to serve or exits.
BootsEnd ==
  \A p \in Servers : servers[p].at \in {"schema", "account", "provision", "look", "fill"}
                     ~> servers[p].at \in {"serving", "down"}

\* A signalled replica is gone at last, even if some request never ends.
ShutdownsEnd == \A p \in Servers : servers[p].at = "draining" ~> servers[p].at = "down"

\* Jobs that overlap or die leave each migration applied once, in order, and
\* no replica runs on a schema behind its code.
SchemaIsSound == MigratedOnce /\ PendingIsCurrent /\ SchemaIsComplete

\* Demo data obey the rules of the supply chain and show what they are meant
\* to show, and the tenant is filled with them once and whole, overlaps and
\* kills aside.
DemoIsSound ==
  /\ DemoRolesAsListed /\ SampleDataIsLegal /\ SamplesShowWhatTheySay
  /\ FilledTwiceOnlyByOverlap /\ PartialDemoHasACause

\* Jobs get their turn, boots and shutdowns come to their end.
DeploymentProgress == JobsGetTheLock /\ BootsEnd /\ ShutdownsEnd
=============================================================================
