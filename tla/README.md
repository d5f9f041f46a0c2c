# TraceChain: formal model

TLA+ modules, TLC configurations and TLAPS proofs for the supply-chain
traceability service in this repository (backend in TypeScript over PostgreSQL,
frontend in React). Paths below are relative to the repository; `services/`,
`db/` and so on are under `backend/src/`.

## 1. The system

| Component | State it keeps | Operations | Correct means |
|---|---|---|---|
| Domain vocabulary (`domain/types.ts`) | none | stage order, roles, `ROLE_STAGES` | shared by all below |
| Ledger hash chain (`ledger/hashChain.ts`, `canonicalJson.ts`) | none | hash an event (v1 HMAC, v2 salted SHA-256), verify a chain against its recorded head | accepts exactly what was written |
| Anomaly detector (`services/anomalyDetector.ts`) | none | scan a history; the part of the newest event | increments add up to the whole |
| Supply chain service (`services/supplyChainService.ts`) | `batches`, `trace_events`, `anomalies`, `audit_logs` | `createBatch`, `recordEvent`, `recallBatch`, the work queue | one history per batch, custody, recall, tenant isolation, all or nothing |
| Database ledger guards (migrations 006 to 009) | head of each chain in its batch row | insert trigger, stage guard, append-only triggers, open-alert index, row-level security | backstop for every writer |
| Integrity scan (`services/adminService.ts`) | tamper alerts | `scanForTamperedChains`, `resolveAnomaly` | tampering is found, once, and nothing else is |
| Trace and public verification (`services/traceService.ts`) | none | `trace`, `publicTrace`, `verifyPublic` | `isValid` says what was written |
| Directory (`services/adminService.ts`) | `actors` | `setActorStatus`, `setActorRole` | a tenant keeps an admin; changes take effect at once |
| Authentication and sessions (`services/authService.ts`) | `refresh_tokens`, access tokens | login, refresh, logout, change password, purge | a refresh token is used once; deactivation ends access |
| Registration and invitations (`services/authService.ts`) | `tenants`, `invitations` | found a workspace, invite, revoke, redeem | one code, one account; no orphan tenant |
| Transactions and pool (`db/database.ts`, `db/pool.ts`) | pooled connections, the scope in `AsyncLocalStorage` | `withTenant`, `withoutTenant` | no leak of a tenant or of an open transaction |
| Realtime and notifications (`realtime.ts`, `index.ts`) | sockets in rooms | `emitAnomaly`, `emitRecall`, polling | told is who is involved, and only of what was committed |
| Start-up (`bootstrap.ts`, `sampleData.ts`, `db/migrator.ts`) | `schema_migrations`, demo data | migrate, seed, first scan, drain | safe with several replicas and after a crash |
| Browser session (`frontend/src/api/client.ts`, `context/AuthContext.tsx`) | tokens, one socket | silent refresh, restore, retry | one refresh at a time, no loop, the page acts for whom it shows |
| Pages (`frontend/src/pages`, `components`) | a form or a list each | load, submit, navigate | one form, one write; a late answer does no harm |
| Statistics, OpenAPI, validation, report export | none | read, parse, format | not modelled: no state of their own |

How they interact: a request is authenticated (`requireAuth` reads the actor's
row), passes a role gate, and calls a service. A service call is one tenant
transaction of several statements, each a round trip to PostgreSQL at READ
COMMITTED, so other requests, of this process or another replica, run between
any two of them. Pushes are handed to Socket.IO after COMMIT. Scans and traces
read the same tables beside the writers.

The hard behaviours are the interleaving of statements of several requests on one
batch (row lock, trigger, checks on rows read earlier); a look and the insert it
was for, with a password hash between them; a transaction cut off at any
statement (statement and idle timeouts, lost connections, a dying process); two
statements of one reader that see two snapshots; replicas that migrate, seed
and scan at the same time; refresh tokens that rotate under several tabs; and,
in the browser, answers that are late, lost or overtaken by others.
`PROJECT.json` lists each of them at its line under `hazards`.

## 2. Modules

```
Domain ── HashChain ──┬── SupplyChain ── SupplyChainInv ──┬── MCSupplyChain
       └─ AnomalyDetector ┘      │ Ledger!Spec             └── SupplyChainProofs ── LedgerProofs
                      │          └ CustodyLedger (abstract)
                      └── StoredLedger ──┬── IntegrityScan ─┬─ ScanProofs
                                         │     SupplyChain ─┴─ MCLedger
                                         ├── TraceRead ────── TraceProofs
                                         └── StoredLedgerProofs (lemmas)
Domain ── Accounts, ConnectionPool ─┬── MCServer ── ServerProofs
                         TraceRead ─┘                 └─ TraceProofs
Domain ── BatchPages ── BatchPagesProofs ─┐
Domain ── Deployment                      ├── ClientsProofs
RealtimeAlerts, Sessions, ListPages, SignUpForm
   all six ── MCClients ──────────────────┘
```

The ledger:

* **Domain**: stages as their index in `STAGE_ORDER`, roles, route gates.
* **HashChain**: preimage, hash and `verifyChainDetailed`. A hash is the sequence
  of the preimages back to the genesis: SHA-256 and canonical JSON are
  idealised as injective. Stage and actor stand for all hashed fields.
* **AnomalyDetector**: the scan of a history and its newest part.
* **SupplyChain**: the service over PostgreSQL. `Requests` are slots for HTTP
  requests in progress. One action per statement that can wait or refuse:

  | Code | Action |
  |---|---|
  | `requireAuth`, role check before the transaction | `RequestRecord`, `RequestRecall` |
  | `findByIdForUpdate`, tenant, recall and custody checks | `LockBatch` |
  | `resolveNextAssignee` (unlocked read of the actor), building the event | `HandOff` |
  | `eventRepo.create` with trigger `ledger_append_event` | `InsertEvent` |
  | `findByBatchId`, `detectNewAnomalies`, inserts | `StoreAnomalies` |
  | `advanceStage` with trigger `batches_guard_update` | `AdvanceStage` |
  | audit entry, recipients, COMMIT | `CommitRecord` |
  | pushes after the transaction, response | `EmitAnomalies` |
  | `markRecalled` (waits, then looks at the row again) | `MarkRecalled` |
  | audit entry, recipients, COMMIT; push | `CommitRecall`, `EmitRecall` |
  | any exception, ROLLBACK | the `Rollback` branches |
  | timeout, lost connection, crash | `Interrupted` |
  | `createBatch`, `setActorStatus`, `setActorRole` | one action each |

  What an open transaction has written (`mine`, `draft`, `found`) is apart from
  what is committed (`batches`, `events`, `anomalies`, `auditLog`); other
  requests see only the latter. The lock is taken by `FOR UPDATE` and again in
  the trigger, as in the code.
* **CustodyLedger**: the abstract specification: per batch an append-only
  history, one custodian, forward hand-offs, a final recall, each in one step.
  `SupplyChain!Ledger` maps the committed tables to it.
* **SupplyChainInv**: the inductive invariant of the locking protocol.
* **SupplyChainProofs**, **LedgerProofs**: section 5, on the service.
* **StoredLedger**: committed rows and heads, recorded to (`Record`, the
  commit of `recordEvent`) and changed from outside: a field edited, a row
  deleted, a row changed with it and all after it hashed again. That is what
  docs/DATABASE.md 3.4 says a superuser with triggers off can do; rewriting the
  head as well is the limit stated there and is left out.
* **IntegrityScan**: scans over StoredLedger, statement by statement, with
  pages, the unique index on open alerts, resolution and cut-off scans.
* **TraceRead**: the two statements of a trace request over StoredLedger.
* **StoredLedgerProofs** holds the lemmas about chains that **ScanProofs** and
  **TraceProofs** share.

The rest of the server:

* **Accounts** (`authService.ts`, `adminService.ts`): `registerWorkspace`,
  `registerWithInvite`, `provisionActor` with its one retry, `createInvitation`,
  `revokeInvitation`, expiry, `setActorStatus`, `setActorRole`. A call looks,
  hashes, then writes in a transaction whose unique indexes and row locks
  decide: an action per look and one per transaction, named by `calls[r].at`.
  `crossed` remembers the workspaces in which an operation ran for somebody who
  had stopped being an administrator since `requireAuth` read them.
* **ConnectionPool** (`db/database.ts`): a flow is a call chain with its
  `AsyncLocalStorage` scope, a connection has a transaction status and the
  `app.tenant_id` setting. BEGIN, `set_config`, the body, COMMIT and ROLLBACK
  are steps that the server may refuse or that find the connection dead; an
  answer may be lost under COMMIT. A nested call of the same tenant joins.
* **Sessions** (`authService.ts`, `refreshTokenRepo.ts`, `client.ts`,
  `AuthContext.tsx`): both ends of login, refresh, logout, purge, expiry and
  refused calls. `wire` holds what is under way; tabs share the cookie and each
  keeps its access token and the user it shows. The refresh is two
  transactions, as in the code: consume, then issue.
* **RealtimeAlerts** (`realtime.ts`, `index.ts`, `client.ts`,
  `components/RealtimeAlerts.tsx`): the handshake that reads the account
  (`AdmitSocket`), the rooms it joins afterwards by that copy (`JoinRooms`), the
  two emitters, one socket per page that breaks and reconnects, toasts, and what
  the notifications endpoint would list to the same reader, with the account as
  at the handshake and as it is now. A watcher's tenant is `WatcherTenant`.
* **Deployment** (`migrate.ts`, `migrator.ts`, `bootstrap.ts`, `sampleData.ts`,
  `index.ts`): migration jobs under the advisory lock, replicas that check the
  schema, provision the demo accounts, fill the demo tenant, listen, drain and
  exit; any of them killed between two of its transactions.

The browser's pages:

* **BatchPages**: NewBatch, RecordEvent with HandoffSelect, BatchDetail with
  RecallDialog, over `createBatch`, `recordEvent`, `recallBatch` in one step
  each (their statements are SupplyChain's matter). A page has a visit number;
  an answer carries the number of the page that asked. The reload after a recall
  keeps the id that the dialog's closure saw.
* **ListPages**: fourteen pages that load rows under a key and change them, as
  one machine with a record of what each does (`spins`, `blanks`, `marks`, ...).
  Loads are numbered and overlap; `heard` is the number of the one whose answer
  came last.
* **SignUpForm** (`Register.tsx`): invitation checks that are not cancelled,
  the two sign-up forms and their answers.

Instances:

* **MCSupplyChain**: SupplyChain, one batch.
* **MCLedger**: IntegrityScan, and SupplyChain with two tenants or with fairness,
  side by side: who waits for whom around the ledger.
* **MCServer**: Accounts, ConnectionPool and TraceRead side by side;
  **MCClients**: Deployment and everything that runs in the browser. These
  modules share no state, so a behaviour is one part's (`part`, chosen from the
  constant `Parts`), and the others rest. One run then asks its question of
  each part, and each part's types hold in every state of every part.

## 3. Runs

| Run | Instance | Shows |
|---|---|---|
| `record` | 1 batch; farmer, processor, admin; 2 requests; stages 0, 1 and the terminal 5; 2 events (3 when two requests race at the bound) | the safety and action properties of the service, the locking invariant, `ImplementsLedger` |
| `ledger`, scans | 2 scanners, pages of 1, 2 batches, recording, deletions, resolved alerts | one open alert at most, no tampering missed |
| `ledger`, requests | 4 actors of 2 tenants, 2 requests naming anybody, one stage, the processor's role and status changing | `TenantIsolation` |
| `ledger_progress`, scans | 2 scanners, pages of 2, 3 batches, deletions, nothing recorded | the short last page, no false alert, `WorkEnds` |
| `ledger_progress`, requests | 2 requests on a batch | `WorkEnds` |
| `server`, sign-ups | 2 calls, 3 accounts, 3 e-mails, 2 slugs, 1 code | `NoNameTwice`, `MembershipIsGranted`, `OnlyOpenInvitations` |
| `server`, governance | 1 workspace, 2 calls, 3 accounts | `AdminLostOnlyByCrossing` |
| `server`, pool | 2 flows, 2 connections, 2 workspaces and no tenant | `UnitOfWork` |
| `server`, traces | a chain of a v1 and a v2 event, up to 4 events and 3 changes, a reader | `VerdictsAreRight`, `DamageShows` |
| `clients`, alerts | 3 watchers of 2 tenants, 2 alerts, 2 breaks | `AlertsAreTheWatchers` |
| `clients`, deployment | 2 migrators, 2 servers, 2 versions, old and new files | `SchemaIsSound`, `DemoIsSound` |
| `clients`, two tabs, two users | 3 tokens, 2 log-ins, 1 mishap | `OneSuccessor`, `ActsAsShown` |
| `clients`, farmer, inspector, retailer, admin | 2 batches, 3 page visits, 1 change from elsewhere, 1 failure or lost answer | `WritesAsAsked`, `RefusedForAReason` |
| `clients`, lists | 2 things, 3 loads, 1 failure | `ListIsCurrent` |
| `clients`, sign-up | 2 codes, 2 addresses, 2 checks, 1 submission, 1 hitch | `InvitationAsShown` |
| `progress` | deployment, one tab, two tabs without a mishap, three of the users, lists and sign-up, with less to do, and fairness | `DeploymentProgress`, `SessionsProgress`, `PagesProgress` |
| `late_list` | the list pages of `clients` | the rows of a former filter stay (`ShowsItsFilter`) |
| `late_preview` | the sign-up page of `clients` | one code's preview, another code redeemed (`ShownWhenJoining`) |
| `scan_race`, `stranded`, `last_admin`, `stale_message` | as small as the case needs | the other disagreements of section 6 |

`ledger`, `ledger_progress`, `server` and `clients` are one run each; the rows
tell their parts apart.

Bounds. `MaxEvents` only stops new requests, so with `n` requests a chain grows
to `MaxEvents + n - 1`. Two events and three stages give every kind of
anomaly (repeated, late, skipped), an advancing and a backfilling step, and a
hand-off that succeeds and one that is refused. The protocol relates one batch
and the requests on it, so batches interact only in scans, hence several of
them there alone; for three requests and more there are the proofs.
`MaxTamperings`, `MaxResolved` bound the changes from outside and the
resolutions. Salts are one value: uniqueness of salts is about guessing, not
about anything here. `HasLegacyKey` is TRUE: without the key v1 rows are
reported `UNVERIFIABLE_LEGACY` by design. Two calls are enough for every race
of a look with an insert, and three accounts for two administrators and one
who joins. Two connections and two flows let a connection return dirty and be
handed to the other tenant. `MaxMishaps`, `MaxBreaks`, `MaxSlips`, `MaxNews`,
`MaxTroubles` and `MaxHitches` bound failures, lost answers, expiries and
changes from elsewhere; `MaxVisits`, `MaxLoads`, `MaxChecks`, `MaxSubmits` and
the number of tokens and log-ins bound what a user does. One failure is enough
to be crossed with every order of the answers to two or three requests, which
is what the pages' properties are about; the sessions, the pool and the sockets
have proofs for any number.

Requests, scanners, calls, e-mails, slugs and codes are symmetric, except under
liveness. `CHECK_DEADLOCK FALSE` is said of MCServer and MCClients alone, where the bounds
let every part come to its end.

Simplifications that are not bounds. In SupplyChain an admin's authorisation
and update are one step (Accounts has the two apart). `createBatch` is one step,
since nobody sees the row before its commit. Only personal rooms are counted
among a push's recipients there; the oversight room is RealtimeAlerts' matter.
Timestamps, ids, messages and metadata are left out, and resolving a stage
anomaly changes nothing that is modelled.

## 4. Fairness

* `SupplyChain`, in MCLedger: weak fairness of each request's next statement, since Node and
  PostgreSQL run what can run, and strong fairness of the two statements that
  wait for a row lock, since the server queues waiters; `statement_timeout` would
  end the wait otherwise (`db/pool.ts`). Nothing obliges a client to send a
  request or an interruption to happen.
* `IntegrityScan`, in MCLedger: weak fairness of a scan's steps and strong fairness of the
  insert that waits for another scan's uncommitted alert; nobody is obliged to
  start a scan.
* `Deployment`: strong fairness of `LockSchema`, since waiters for the advisory
  lock are queued; weak fairness of a job's other steps and of a boot's, of the
  exit of a process whose boot failed or whose work is done, and of the timer
  that forces a shutdown. Nothing obliges a request to end, or anybody to
  start, signal or kill a process.
* `Sessions`: weak fairness, per tab and kind, of a request's progress: it is
  served or fails, and the answer arrives or is lost.
* `BatchPages`, `ListPages`, `SignUpForm`: weak fairness of the server's steps
  (serving or failing) and of hearing the answers. Nothing obliges the user to
  do anything, so that a page left alone must come to rest by itself.

## 5. Proofs

For any values of the constants, from the assumptions stated beside them:
`ActorAssumption`, `SaltAssumption`, `LedgerAssumption`, `ScanAssumption`,
`PoolAssumption`, `AccountsAssumption`, `ViasAssumption`,
`DeploymentAssumption`, `SessionsAssumption`, `RealtimeAssumption`,
`SignUpAssumption`, `ListAssumption`, `BatchPagesAssumption`. They only keep
markers such as `NoActor` out of the sets they mark, and say that there is a
batch, that every actor has a tenant and a role, and that bounds are numbers
which allow for the page one starts on.

| Module | Theorem | Property |
|---|---|---|
| SupplyChainProofs | `TypeCorrect` | `TypeOK` |
| | `Isolation` | `TransactionsIsolated` |
| | `ChainsStayIntact` | `ChainIntact` |
| | `RecallIsFinal` | `RecallFreezesBatch` |
| | `CustodyIsRespected` | `CustodyRespected` |
| | `StageFollowsHistory` | `StageIsFrontier` |
| | `AnomaliesAddUp` | `AnomaliesComplete` |
| LedgerProofs | `ServiceImplementsLedger` | `ImplementsLedger` |
| | `WorkspacesAreApart` | `TenantIsolation` |
| | `CustodiansHaveWork` | `CustodianHasWork`, while nobody active leaves or changes role |
| | `PushesStayTrue` | `PushesAreTrue` |
| | `AuditIsExact` | `AuditMatchesLedger` |
| TraceProofs | `TracesAreTyped` | `TypeOK` |
| | `DamageAlwaysShows` | `DamageShows`, the v1 key at hand |
| | `VerifiedRowsAreWritten` | its half that needs no key |
| | `VerdictsStayRight` | `VerdictsAreRight`, the v1 key at hand |
| ScanProofs | `ScansAreTyped` | `TypeOK` |
| | `AlertsAreSingle` | `OneOpenAlert` |
| | `ScansFindWhatIsWrong` | `ScanFindsTampering` |
| | `AlertsMeanTampering` | `AlertMeansTampering`, the v1 key at hand, nothing recorded between a scan's two statements |
| ServerProofs | `NamesAreWonOnce` | `NoNameTwice` |
| | `OneCodeOneAccount` | `MembershipIsGranted` |
| | `AdminsAreLostByCrossing` | `AdminLostOnlyByCrossing` |
| | `ClosedCodesStayUnused` | `OnlyOpenInvitations` |
| | `PoolIsSafe` | `UnitOfWork` |
| | `ServerKeepsTypes` | `ServerTypeOK` |
| ClientsProofs | `RotationIsSafe` | `OneSuccessor` |
| | `PagesActAsShown` | `ActsAsShown` |
| | `AlertsReachTheirWatchers` | `AlertsAreTheWatchers` |
| | `ListsAreCurrent` | `ListIsCurrent` |
| | `InvitationsAreAsShown` | `InvitationAsShown` |
| | `SchemaStaysSound` | `SchemaIsSound` |
| | `DemoStaysSound` | `DemoIsSound` |
| | `ClientsKeepTypes` | `ClientsTypeOK` |
| BatchPagesProofs | `WritesStayAsAsked` | `WritesAsAsked` |
| | `RefusalsHaveAReason` | `RefusedForAReason` |

Types are part of each inductive invariant (`AccountsAreTyped`, `PoolTypes`,
`SessionsAreTyped` and `PagesAreTyped` state them alone). `ServerKeepsTypes` and
`ClientsKeepTypes` put the invariants of the parts side by side: a part's step
leaves the others' variables alone, so each invariant is kept by all. Two
bounds took an argument: the page numbers (`VisitsFit`: the one page beyond the
last the user opens is a batch's, which a late answer moves but never replaces), and who
joined (`SignUpsFit`: a code that was checked, shown or submitted was typed).

Three theorems have a hypothesis beyond the specification, and each is one the
code needs:

* `KeyAtHand`: the server has the v1 key, or no v1 event is stored. A server
  without it answers `UNVERIFIABLE_LEGACY` by design, about rows nobody touched.
* `Quiet`, of steps: nothing is recorded while a scan stands between reading
  the heads and reading the events. Without it the theorem is false: `scan_race`.
* `NobodyLeaves`, of steps: who is active is not deactivated nor given another
  role. Without it the theorem is false: `stranded`. Newcomers, and the return
  of the inactive, are allowed.

**The locking protocol.** `ChainIntact` is not inductive: it says nothing of
the copies the requests hold. `TransactionsIsolated` adds, of each request that
holds or will publish something: it holds the lock of its batch from the
statement that read the row to the commit (`Locked`), its copy is the committed
row (`ReadIsCurrent`), its draft is the next event on that head (`DraftIsNext`),
its own image of the row is the committed one plus what it did (`OwnImage`), and
the anomalies found are those of the new history's last event (`FoundIsNew`);
and of each batch that its committed chain is linked to the recorded head, its
stage is the furthest of its history and its anomalies are complete
(`BatchInv`). Since a row lock has one holder, a commit changes nothing another
request's copy speaks of (`OthersIsolated`); the committing request itself
publishes an extension of a linked chain (`AppendLinked`), a stage
(`CommittedEvent`) and anomalies (`DetectAppend`). The action properties follow
from the same invariant: only the two commits touch a batch's tables
(`WhoTouchesABatch`), and they do so holding the lock on a row that was neither
recalled nor handed on since it was checked.

**The refinement.** Each step maps to one of CustodyLedger's or to a stutter:
`createBatch` to `Open`, the commits to `Record` and `Recall`, everything else to nothing, since it
leaves the committed tables alone. What the abstract step asks of the actor was
checked statements earlier; `AdminsKnown` adds that who was authenticated as
ADMIN had that role, and `TransactionsIsolated` that the row is still the one
checked.

**Tenants.** `KeptApart`: what passed row-level security and the hand-off check
is of the batch's tenant, in the tables, in the requests and in the pushes; no
batch changes its creator, who gives it its tenant.

**Records.** `TruthTold`: what a committed request has still to push is true
and stays so, because histories only grow and recalled batches are frozen.
`Audited`: the audit log has an entry per event, creation and recall and no other.

**Custodians.** `Provided`: whom a batch is assigned to, or will be when the
request that chose them commits, is active and has a role for the stage that
follows. `HandOff` checked it on a row it did not lock; the hypothesis is what
keeps it true until the commit.

**Chains.** `LedgerInv`: the rows the service wrote are linked to the recorded
head, as many of them are v1 as were there at the start, and what is stored is
what was written until the first change from outside. An event's hash contains
the preimages of all events before it, so a stored chain whose row at the head
has the head's hash agrees with the written one in every row before. The
argument is by the least row that disagrees; `LeastNumber` gets it from the
library's well-foundedness of `<` (`WFMin`), which asks for a set where
the induction theorems ask for an operator. Rows changed and hashed again up to the end
have another last hash than the head; a row edited alone fails its own
hash; a deleted row leaves a gap or a chain that ends short of the head.

**Traces.** The head a request has read is the head of a prefix of what
was written, and stays one, since histories grow. The rows it then reads either agree with
that prefix, go on beyond it (HEAD_MISMATCH, recording overtook), or have been
changed from outside.

**The scan.** `AlertsInv`: alerts that scans have inserted and not committed are
pairwise disjoint, and none is of a batch with an open alert: the unique index
makes the second insert wait. `ScanFacts` says where a scan is in the list of
batches: each batch of `dueAlerts`, those damaged since the scan began, is
still ahead of the cursor, or on the page in hand and failing its check there,
or has an alert. Pages partition the batches since the cursor is an id (`UpTo`).
The proof found the first form of `ScanFindsTampering` false: with a
batch damaged before the scan, and changed twice from outside while the scan was between
its two statements, a scan may read rows that fit the head. Three changes within one
scan were beyond the run's bound. `dueAlerts` now drops a batch that is changed
from outside in that moment, and the theorem holds for any number of changes.

**Accounts.** An account that says how it came to be has the row that let it:
its tenant was founded by one account, its code names it. A call whose look
passed proves nothing until its transaction, so the invariant says of calls
only what cannot change (a retried provisioning finds its tenant).
For administrators: the one who acts is an active ADMIN of the workspace, or the
workspace is in `crossed`; since nobody acts on themselves, the actor remains.

**The pool.** Per connection and flow: a connection has at most one holder, what
is idle has neither transaction nor tenant, and a flow's place tells what its
connection is in.

**Start-up.** `SchemaInv`: who reads or applies holds the advisory lock, and
what they have still to apply is what their files have beyond the table, so
that an unlocked look (`pending` of a replica) is only ever too old in the safe
direction. `DemoInv`: unless two boots overlapped (`overlap`), at most one
replica is between seeing no batch and its last one; a demo that is half there
has a cause that stays recorded (`Caused`: a boot killed or failed in it).
`StaffInv`: who looks for batches, or fills the tenant, has found all accounts
there, each in its listed role. Each sample is a beginning of the one pipeline,
whose steps are linked by role and stage, or one of two events out of order; so
`recordEvent` refuses none of them (`SamplesAreAllowed`), and the histories show
no anomaly, or the one meant (`RisingIsClean`, `TwoEventsShow`). What the folds over
the samples compute is shown by exhibiting the function their definition asks for.

**Sessions.** A log-in has one holder: a live token, or a refresh between
consuming it and issuing the next; a log-out that finds the token leaves none.
For what pages show: unless somebody logged in over another user's traces
(`mixed`), cookie, wire and access token of a tab that shows a user are that
user's.

**Alerts.** `RealtimeInv`: an open socket is in exactly the rooms that the
account called for as the handshake read it, whatever has become of the account
since (`RoomsAreCurrent`), so by that copy it hears what it could list, all of it
and no more; every alert astray or missed is so by the account of now alone.

**Lists.** `ListInv`: loads have numbers of their own and any number of them
may be under way. Of the newest, under way and then heard, it says that it is for
the key the page shows, unless a button's closure asked for it under a former key
(`astray`), and that what it brings is what is listed now, unless somebody else has
changed something since it was served or the answer of a change was lost
(`excused`), or a change of the page's own has been answered and the reload after
it is still to come (`Unheard`). So whenever the answer heard last is the newest's,
the page is current, whatever was overtaken or failed before. While an older
answer was the last one heard nothing is promised: `late_list` shows why.

**The sign-up form.** `SignUpInv`: an address is bound only by the preview that
is shown, and a preview's answer is that of the code it was asked for, whichever
checks are under way; the preview over a code, on the page and in a submission, is
that code's, or its answer came while this very code stood in the field already
(`late`, pair by pair). The address filled in is the invitation's without
that exception (`AddressFitsInvitation`).

**The forms.** `PagesInv`: what is under way for the visit on the page is what
its state calls for, one write at most (`Traffic`); what a form holds, and what
a write carries, was offered from rows that the page had read (`FormFits`, `CallsFit`),
and either those rows are still the server's or somebody changed them
(`Steady`, hence no refusal `unexplained`); and per visit the writes made, those under
way and those the form could yet send are at most one, plus the answers lost
(`Counted`).

Only model-checked is liveness (`WorkEnds`, `DeploymentProgress`,
`SessionsProgress`, `PagesProgress`): fairness and ENABLED are beyond the prover. Every invariant and every action property of a passing
run is the matter of a theorem above.

## 6. Disagreements found

* `scan_race`: the scan reads heads and events by two READ COMMITTED statements
  (`services/adminService.ts:199-200`). An event committed between them makes it
  raise a CRITICAL tamper alert about a batch nobody touched. The start-up scan
  runs beside traffic.
* `stranded`: deactivating or re-roling an actor leaves the batches assigned to
  them; `domain/types.ts:70` calls the assignee the one actor authorized to
  record next. Only an ADMIN can then move the batch on.
* `last_admin`: an administrator may not deactivate or demote themselves
  (`services/adminService.ts:80`, `92`), but two may do it to one another at once;
  `services/authService.ts:103-104` says every tenant needs at least one.
  `AdminLostOnlyByCrossing` bounds it: this is the only way.
* `late_list`: the dashboard's effect asks anew on every change of the filter and
  takes every answer (`pages/Dashboard.tsx:160-172`); when the former filter's
  comes last, its rows stay under the new one, against
  docs/MANHINH_THEO_VAITRO.md:50 ("lọc theo khâu gần nhất"). `ListIsCurrent` bounds
  it: whenever the answer heard last is the newest request's, the rows are those
  of the filter shown, but for the stale closure told below.
* `late_preview`: checks of a code are not cancelled when the code is edited, and
  each answer sets the preview (`pages/Register.tsx:52-66`), so the form can say
  whose workspace one joins by one code and redeem another, against
  `api/routes/auth.ts:74-75`. `InvitationAsShown` bounds it: only a preview that
  came over the very code redeemed, and never with an address that is refused.
* `stale_message`: NewBatch chooses its error text by the `created` its closure
  saw (`pages/NewBatch.tsx:71-75`, against the comment at `:34`), so that it says
  the batch could not be created when the harvest after it has failed.

Met while modelling and told here without a run of their own:

* `trace`, `publicTrace` and `verifyPublic` read head and events by two
  statements likewise (`services/traceService.ts:53-57`, `76-85`, `131`) and may
  answer `isValid = false` beside a recording. `VerdictsAreRight` bounds the
  damage: the problem is then HEAD_MISMATCH with more events than the head
  counts, and a wrong `isValid = true` never occurs.
* docs/README.md:117 says that CRITICAL and HIGH anomalies block the action;
  `recordEvent` commits the event and stores the anomaly.
* HandoffSelect chooses a single candidate by itself, so that an ADMIN cannot
  leave that hand-off open, though the menu offers it.
* A socket keeps the rooms of its handshake (`index.ts:47-49`): `setActorRole` and
  `setActorStatus` look for no socket, so a reader who becomes an overseer
  misses what `/notifications` lists for them, and one who ceases to be, or is
  deactivated, goes on hearing the workspace, although
  `services/notificationScope.ts:6-8` says that the two channels cannot drift out of
  sync. `AlertsAreTheWatchers` bounds it: by such a change alone, and until the
  socket connects anew.
* A record form that has been left still runs its `navigate()` when the answer comes
  (`pages/RecordEvent.tsx:107`) and moves an open BatchDetail to another batch. The
  two loads may answer in either order, and the boxes ticked in RecallDialog are
  the dialog's, not the batch's (`components/RecallDialog.tsx:33-35`): the recall
  can be confirmed for one batch and submitted for another. `RecallAsConfirmed`
  excepts pages so moved, and says that nothing else misdirects a recall.
* AnomalyMonitor's `handleResolve` calls the `load` of its own closure
  (`pages/AnomalyMonitor.tsx:43-48`): when the filter was changed while an alert was being
  resolved, the newest request is for the former filter and its rows stay
  (`astray` in `ListIsCurrent`).
* Other pages that load by a key (AuditLog, AnomalyMonitor) take every answer as
  the dashboard does; `late_list` stands for them.
* On the sign-up page Enter submits an invitation code before any preview was
  shown (`ShownWhenJoining` and `JoinsAsShown` allow it: nothing false is shown).
* Toasts stay up to six seconds, beyond a log-out.

## 7. Not modelled

* Statistics, report export, OpenAPI document, request parsing, logging:
  reading, parsing and formatting without state of their own.
* `changePassword` and `updateProfile` (where the last writer wins,
  `services/authService.ts:395`): passwords and names are no state here, and
  refresh tokens are revoked one at a time by `Sessions`' `DropToken`.
* The connection-role check and the parsing of the environment at start-up.
* The socket's old access token after a silent refresh (`client.ts:114`): it
  matters only when the token expires before a reconnection, which
  `RealtimeAlerts` has as a refused handshake.
* Of the pages: layout, wording, stage-specific fields, the profile's
  password form, creating invitations (the server's side is in `Accounts`).
* An exhausted pool is a `ConnectTimeout`; the queue for connections itself is
  node-postgres' own.

## 8. Running

`tlc -config MCSupplyChain_record.cfg MCSupplyChain` and likewise for the other
cfg files: `MCIntegrityScan_race.cfg` with IntegrityScan, `MCLedger*.cfg` with
MCLedger, `MCServer*.cfg` with MCServer, `MCClients*.cfg` with MCClients.
`tlapm SupplyChainProofs.tla` and likewise for each module whose name ends in
`Proofs`. `PROJECT.json` maps each definition to the lines it models and names,
for each property, a plausible mistake in the code under which its run fails.
