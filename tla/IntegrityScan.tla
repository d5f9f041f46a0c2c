--------------------------- MODULE IntegrityScan ----------------------------
(***************************************************************************)
(* adminService.scanForTamperedChains and resolveAnomaly, with the unique  *)
(* index on open CHAIN_TAMPERED alerts (migration 008), beside a ledger    *)
(* that is recorded to and tampered with meanwhile.                        *)
(*                                                                         *)
(* A scan walks one tenant's batches in pages by id, one READ COMMITTED    *)
(* transaction per page: the batches are read by one statement, their      *)
(* events by a second, alerts are inserted by more.  Tenants are walked    *)
(* one after the other and share nothing, so the model has one.  The       *)
(* foreign keys of an alert make its INSERT wait for a recordEvent in      *)
(* progress; recordEvent being one step here, that delay is not visible.   *)
(***************************************************************************)
EXTENDS StoredLedger, FiniteSets

CONSTANTS Scanners,       \* scans in progress: replicas booting, the admin's button
          SCAN_PAGE_SIZE,
          MaxResolved     \* bound on resolved alerts per batch

ASSUME ScanAssumption ==
  /\ Batches \subseteq Nat \ {0}
  /\ SCAN_PAGE_SIZE \in Nat \ {0}
  /\ MaxResolved \in Nat

VARIABLES
  open,       \* committed open CHAIN_TAMPERED alerts of each batch
  resolved,   \* resolved ones
  flagged,    \* CHAIN_INTEGRITY_SCAN_FLAGGED audit entries of each batch
  pc,         \* where each scan stands
  afterId,    \* its keyset cursor, 0 for null
  page,       \* the page's batches
  headsRead,  \* the heads the page's first statement returned
  chainsRead, \* the events its second statement returned
  unchecked,  \* the page's batches still to be verified
  inserted,   \* alerts inserted by the open transaction
  dueAlerts   \* ghost: batches whose rows have been wrong ever since the scan
              \* began, and no alert about them resolved meanwhile

alerts == <<open, resolved, flagged>>
scan   == <<pc, afterId, page, headsRead, chainsRead, unchecked, inserted, dueAlerts>>
vars   == <<ledger, alerts, scan>>

ScanPcs == {"ready", "page", "events", "check", "done"}

TypeOK ==
  /\ LedgerTypeOK
  /\ open \in [Batches -> Nat]
  /\ resolved \in [Batches -> 0..MaxResolved]
  /\ flagged \in [Batches -> Nat]
  /\ pc \in [Scanners -> ScanPcs]
  /\ afterId \in [Scanners -> Batches \cup {0}]
  /\ page \in [Scanners -> SUBSET Batches]
  /\ \A s \in Scanners :
       /\ headsRead[s] \in [page[s] -> ChainHeads]
       /\ chainsRead[s] \in [page[s] -> Seq(TraceEvents)] \cup {<< >>}
  /\ unchecked \in [Scanners -> SUBSET Batches]
  /\ inserted \in [Scanners -> SUBSET Batches]
  /\ dueAlerts \in [Scanners -> SUBSET Batches]

Init ==
  /\ LedgerInit
  /\ open = [b \in Batches |-> 0]
  /\ resolved = [b \in Batches |-> 0]
  /\ flagged = [b \in Batches |-> 0]
  /\ pc = [s \in Scanners |-> "ready"]
  /\ afterId = [s \in Scanners |-> 0]
  /\ page = [s \in Scanners |-> {}]
  /\ headsRead = [s \in Scanners |-> << >>]
  /\ chainsRead = [s \in Scanners |-> << >>]
  /\ unchecked = [s \in Scanners |-> {}]
  /\ inserted = [s \in Scanners |-> {}]
  /\ dueAlerts = [s \in Scanners |-> {}]

-----------------------------------------------------------------------------
\* The scan is called: at startup once the server listens, or by an admin.
StartScan(s) ==
  /\ pc[s] = "ready"
  /\ pc' = [pc EXCEPT ![s] = "page"]
  /\ afterId' = [afterId EXCEPT ![s] = 0]
  /\ dueAlerts' = [dueAlerts EXCEPT ![s] = {b \in Batches : ~Intact(b)}]
  /\ UNCHANGED <<ledger, alerts, page, headsRead, chainsRead, unchecked, inserted>>

\* findPageAfter: the first SCAN_PAGE_SIZE ids after the cursor.
PageAfter(id) ==
  {b \in Batches : b > id /\ Cardinality({c \in Batches : id < c /\ c <= b}) <= SCAN_PAGE_SIZE}

ReadPage(s) ==
  /\ pc[s] = "page"
  /\ page' = [page EXCEPT ![s] = PageAfter(afterId[s])]
  /\ headsRead' = [headsRead EXCEPT ![s] = [b \in PageAfter(afterId[s]) |-> heads[b]]]
  /\ pc' = [pc EXCEPT ![s] = "events"]
  /\ UNCHANGED <<ledger, alerts, afterId, chainsRead, unchecked, inserted, dueAlerts>>

\* findByBatchIds: a statement, and so a snapshot, of its own.
ReadEvents(s) ==
  /\ pc[s] = "events"
  /\ chainsRead' = [chainsRead EXCEPT ![s] = [b \in page[s] |-> rows[b]]]
  /\ unchecked' = [unchecked EXCEPT ![s] = page[s]]
  /\ pc' = [pc EXCEPT ![s] = "check"]
  /\ UNCHANGED <<ledger, alerts, afterId, page, headsRead, inserted, dueAlerts>>

\* Mutant of NextUnchecked: pages without ORDER BY, so two scans may go over
\* the same batches in opposite orders.
NextUnordered(s) ==
  CHOOSE b \in unchecked[s] :
    \A c \in unchecked[s] : IF s = (CHOOSE o \in Scanners : TRUE) THEN b <= c ELSE b >= c

\* The loop goes over the page in id order.
NextUnchecked(s) == CHOOSE b \in unchecked[s] : \A c \in unchecked[s] : b <= c

\* Mutant of Fails: the options of verifyChain are not passed.
FailsWithoutKey(s, b) == ~VerifyChain(chainsRead[s][b], headsRead[s][b], FALSE)

Fails(s, b) == ~VerifyChain(chainsRead[s][b], headsRead[s][b], HasLegacyKey)

\* Mutant of InsertWaits: an index that does not cover uncommitted alerts.
InsertNeverWaits(s, b) == FALSE

\* Another transaction has inserted the same alert and not committed yet:
\* ON CONFLICT waits for it.
InsertWaits(s, b) == \E o \in Scanners \ {s} : b \in inserted[o]

\* Mutant of HasOpenAlert: always taken for granted.
AnyOpenAlert(b) == TRUE

\* A row WHERE type = 'CHAIN_TAMPERED' AND NOT resolved.
HasOpenAlert(b) == open[b] > 0

\* verifyChain and createTamperAlertIfAbsent: nothing is inserted while a
\* committed alert is open.
CheckBatch(s) ==
  /\ pc[s] = "check"
  /\ unchecked[s] # {}
  /\ LET b == NextUnchecked(s)
     IN /\ unchecked' = [unchecked EXCEPT ![s] = @ \ {b}]
        /\ \/ /\ ~Fails(s, b)
              /\ UNCHANGED inserted
           \/ /\ Fails(s, b)
              /\ ~InsertWaits(s, b)
              /\ inserted' = [inserted EXCEPT ![s] = IF HasOpenAlert(b) THEN @ ELSE @ \cup {b}]
  /\ UNCHANGED <<ledger, alerts, pc, afterId, page, headsRead, chainsRead, dueAlerts>>

\* Mutant of LastId: the cursor is moved one too far.
OnePastLastId(S) == 1 + CHOOSE b \in S : \A c \in S : c <= b

LastId(S) == CHOOSE b \in S : \A c \in S : c <= b

\* Mutant of LastPage: a full page is taken for the last one.
LastIfFull(s) == Cardinality(page[s]) <= SCAN_PAGE_SIZE

LastPage(s) == Cardinality(page[s]) < SCAN_PAGE_SIZE

\* The page's transaction commits, with an audit entry per alert; a short
\* page is the last one.
CommitPage(s) ==
  /\ pc[s] = "check"
  /\ unchecked[s] = {}
  /\ open' = [b \in Batches |-> IF b \in inserted[s] THEN open[b] + 1 ELSE open[b]]
  /\ flagged' = [b \in Batches |-> IF b \in inserted[s] THEN flagged[b] + 1 ELSE flagged[b]]
  /\ IF LastPage(s)
     THEN pc' = [pc EXCEPT ![s] = "done"] /\ UNCHANGED afterId
     ELSE /\ pc' = [pc EXCEPT ![s] = "page"]
          /\ afterId' = [afterId EXCEPT ![s] = LastId(page[s])]
  /\ page' = [page EXCEPT ![s] = {}]
  /\ headsRead' = [headsRead EXCEPT ![s] = << >>]
  /\ chainsRead' = [chainsRead EXCEPT ![s] = << >>]
  /\ inserted' = [inserted EXCEPT ![s] = {}]
  /\ UNCHANGED <<ledger, resolved, unchecked, dueAlerts>>

\* The list of alerts created has been returned; the slot may scan again.
EndScan(s) ==
  /\ pc[s] = "done"
  /\ pc' = [pc EXCEPT ![s] = "ready"]
  /\ dueAlerts' = [dueAlerts EXCEPT ![s] = {}]
  /\ UNCHANGED <<ledger, alerts, afterId, page, headsRead, chainsRead, unchecked, inserted>>

\* A timeout, a lost connection, the process dies: the open page is rolled
\* back, the pages before it stand, and the scan is not resumed.
ScanInterrupted(s) ==
  /\ pc[s] \in {"page", "events", "check"}
  /\ pc' = [pc EXCEPT ![s] = "ready"]
  /\ page' = [page EXCEPT ![s] = {}]
  /\ headsRead' = [headsRead EXCEPT ![s] = << >>]
  /\ chainsRead' = [chainsRead EXCEPT ![s] = << >>]
  /\ unchecked' = [unchecked EXCEPT ![s] = {}]
  /\ inserted' = [inserted EXCEPT ![s] = {}]
  /\ dueAlerts' = [dueAlerts EXCEPT ![s] = {}]
  /\ UNCHANGED <<ledger, alerts, afterId>>

-----------------------------------------------------------------------------
\* resolveAnomaly by an admin: UPDATE ... WHERE NOT resolved, so the second
\* of two changes nothing.
ResolveAnomaly(b) ==
  /\ HasOpenAlert(b)
  /\ resolved[b] < MaxResolved
  /\ open' = [open EXCEPT ![b] = @ - 1]
  /\ resolved' = [resolved EXCEPT ![b] = @ + 1]
  /\ dueAlerts' = [s \in Scanners |-> dueAlerts[s] \ {b}]
  /\ UNCHANGED <<ledger, flagged, pc, afterId, page, headsRead, chainsRead,
                 unchecked, inserted>>

\* The ledger goes on.  A batch put right again is no longer due an alert, nor
\* is one changed from outside once more between a scan's two statements: its
\* rows may then be made to end where the head was read.
LedgerStep ==
  /\ LedgerNext
  /\ dueAlerts' = [s \in Scanners |->
       {b \in dueAlerts[s] : /\ ~Intact(b)'
                             /\ pc[s] = "events" => tamperings'[b] = tamperings[b]}]
  /\ UNCHANGED <<alerts, pc, afterId, page, headsRead, chainsRead, unchecked, inserted>>

ScanStep(s) ==
  ReadPage(s) \/ ReadEvents(s) \/ CheckBatch(s) \/ CommitPage(s) \/ EndScan(s)

Next ==
  \/ LedgerStep
  \/ \E s \in Scanners : StartScan(s) \/ ScanStep(s) \/ ScanInterrupted(s)
  \/ \E b \in Batches : ResolveAnomaly(b)

Spec == Init /\ [][Next]_vars

-----------------------------------------------------------------------------
\* However many replicas scan at once, a batch has at most one open alert
\* (uq_anomalies_open_chain_tampered), and every alert ever raised has its
\* audit entry.
OneOpenAlert ==
  \A b \in Batches :
    /\ open[b] <= 1
    /\ flagged[b] = open[b] + resolved[b]
    /\ Cardinality({s \in Scanners : b \in inserted[s]}) + open[b] <= 1

\* A scan that ran to its end has looked at every batch: one whose rows were
\* wrong before it began and stayed so has an open alert, unless an admin
\* resolved one while it ran, or its rows were changed from outside yet again
\* just between the statements that read the batch and its events.
ScanFindsTampering ==
  \A s \in Scanners : pc[s] = "done" =>
    \A b \in dueAlerts[s] : open[b] = 1

\* An alert means that the batch was tampered with.  It holds
\* of a scan that nobody records beside;
\* with recording it does not, since heads and events are read by two
\* statements with a snapshot each.
AlertMeansTampering ==
  \A b \in Batches : open[b] + resolved[b] > 0 => tamperings[b] > 0
=============================================================================
