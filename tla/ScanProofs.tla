----------------------------- MODULE ScanProofs -----------------------------
(***************************************************************************)
(* Proofs about integrity scans, for any number of replicas that scan at   *)
(* once, pages of any size and chains of any length: a batch never gets    *)
(* two open alerts, a scan that ends has raised one about every batch      *)
(* whose rows were wrong, and the only way to a false one is the race      *)
(* between the two statements of a page.                                   *)
(***************************************************************************)
EXTENDS IntegrityScan, StoredLedgerProofs, FiniteSetTheorems

-----------------------------------------------------------------------------
(* Pages *)

\* The ids from behind the cursor up to b.
UpTo(id, b) == {c \in Batches : id < c /\ c <= b}

LEMMA UpToIsFinite ==
  ASSUME NEW id \in Nat, NEW b \in Nat
  PROVE  IsFiniteSet(UpTo(id, b)) /\ Cardinality(UpTo(id, b)) \in Nat
<1>1. UpTo(id, b) \in SUBSET Nat /\ \A c \in UpTo(id, b) : c <= b
  BY ScanAssumption DEF UpTo
<1>2. IsFiniteSet(UpTo(id, b))
  BY <1>1, FS_BoundedSetOfNaturals
<1> QED BY <1>2, FS_CardinalityType

LEMMA PageMembers ==
  ASSUME NEW id \in Nat, NEW b
  PROVE  b \in PageAfter(id) <=>
           b \in Batches /\ b > id /\ Cardinality(UpTo(id, b)) <= SCAN_PAGE_SIZE
  BY Zenon DEF PageAfter, UpTo

\* Ids up to one on the page are on it.
LEMMA PageIsConvex ==
  ASSUME NEW id \in Nat, NEW b \in PageAfter(id), NEW c \in Batches, id < c, c <= b
  PROVE  c \in PageAfter(id)
<1>1. b \in Batches /\ b > id /\ Cardinality(UpTo(id, b)) <= SCAN_PAGE_SIZE
  BY PageMembers
<1>2. b \in Nat /\ c \in Nat /\ SCAN_PAGE_SIZE \in Nat
  BY <1>1, ScanAssumption
<1>3. UpTo(id, c) \in SUBSET UpTo(id, b)
  <2>1. ASSUME NEW d \in Batches, id < d, d <= c PROVE d <= b
    <3>1. d \in Nat
      BY ScanAssumption
    <3> QED BY <1>2, <2>1, <3>1
  <2> QED BY <2>1 DEF UpTo
<1>4. Cardinality(UpTo(id, c)) <= Cardinality(UpTo(id, b))
  BY <1>2, <1>3, UpToIsFinite, FS_Subset
<1>5. Cardinality(UpTo(id, c)) \in Nat /\ Cardinality(UpTo(id, b)) \in Nat
  BY <1>2, UpToIsFinite
<1>6. Cardinality(UpTo(id, c)) <= SCAN_PAGE_SIZE
  BY <1>1, <1>2, <1>4, <1>5
<1>7. c > id
  BY <1>2
<1> QED BY <1>6, <1>7, PageMembers

\* A page that is not empty has a last id.
LEMMA PageHasLast ==
  ASSUME NEW id \in Nat, PageAfter(id) # {}
  PROVE  /\ LastId(PageAfter(id)) \in PageAfter(id)
         /\ \A c \in PageAfter(id) : c <= LastId(PageAfter(id))
<1> DEFINE Count(b) == Cardinality(UpTo(id, b))
           Room == {SCAN_PAGE_SIZE - Count(b) : b \in PageAfter(id)}
<1>1. \A b \in PageAfter(id) : /\ b \in Batches /\ b > id /\ b \in Nat
                               /\ IsFiniteSet(UpTo(id, b)) /\ Count(b) \in Nat
                               /\ Count(b) <= SCAN_PAGE_SIZE
  BY PageMembers, UpToIsFinite, ScanAssumption
<1>2. SCAN_PAGE_SIZE \in Nat
  BY ScanAssumption
<1> HIDE DEF Count
<1>3. Room \subseteq Nat /\ Room # {}
  BY <1>1, <1>2
<1>4. PICK m \in Room : \A k \in Room : m <= k
  <2> HIDE DEF Room
  <2> QED BY <1>3, LeastNumber
<1>5. PICK b \in PageAfter(id) : \A c \in PageAfter(id) : Count(c) <= Count(b)
  <2>1. PICK b \in PageAfter(id) : m = SCAN_PAGE_SIZE - Count(b)
    OBVIOUS
  <2>2. \A c \in PageAfter(id) : SCAN_PAGE_SIZE - Count(b) <= SCAN_PAGE_SIZE - Count(c)
    BY <1>4, <2>1
  <2> HIDE DEF Room
  <2> QED BY <1>1, <1>2, <2>2
<1>6. ASSUME NEW c \in PageAfter(id) PROVE c <= b
  <2>1. SUFFICES ASSUME b < c PROVE FALSE
    BY <1>1
  <2>2. UpTo(id, b) \in SUBSET UpTo(id, c) /\ c \in UpTo(id, c) /\ c \notin UpTo(id, b)
    <3>1. b \in Nat /\ c \in Nat /\ c \in Batches /\ id < c
      BY <1>1
    <3>2. ASSUME NEW d \in Batches, id < d, d <= b PROVE d <= c
      <4>1. d \in Nat
        BY ScanAssumption
      <4> QED BY <2>1, <3>1, <3>2, <4>1
    <3>3. ~(c <= b) /\ c <= c
      BY <2>1, <3>1
    <3> QED BY <3>1, <3>2, <3>3 DEF UpTo
  <2>3. Count(b) <= Count(c) /\ (Count(c) = Count(b) => UpTo(id, c) = UpTo(id, b))
    BY <1>1, <2>2, FS_Subset DEF Count
  <2> QED BY <1>1, <1>5, <2>2, <2>3
<1>7. \E l \in PageAfter(id) : \A c \in PageAfter(id) : c <= l
  BY <1>6
<1> QED BY <1>7, Zenon DEF LastId

\* A short page is all there is behind the cursor.
LEMMA ShortPageIsLast ==
  ASSUME NEW id \in Nat, Cardinality(PageAfter(id)) < SCAN_PAGE_SIZE,
         NEW b \in Batches, b > id
  PROVE  b \in PageAfter(id)
<1> DEFINE Missed == {c \in Batches : c > id /\ c \notin PageAfter(id)}
<1>1. SUFFICES ASSUME Missed # {} PROVE FALSE
  OBVIOUS
<1>2. PICK c \in Missed : \A d \in Missed : c <= d
  <2>1. Missed \subseteq Nat
    BY ScanAssumption
  <2> HIDE DEF Missed
  <2> QED BY <1>1, <2>1, LeastNumber
<1>3. c \in Batches /\ c > id /\ c \notin PageAfter(id) /\ c \in Nat /\ SCAN_PAGE_SIZE \in Nat
  BY ScanAssumption
<1>4. \A d \in Batches : id < d /\ d < c => d \in PageAfter(id)
  <2>1. ASSUME NEW d \in Batches, id < d, d < c, d \notin PageAfter(id) PROVE FALSE
    <3>1. d \in Nat
      BY ScanAssumption
    <3>2. d \in Missed
      BY <2>1, <3>1
    <3> HIDE DEF Missed
    <3> QED BY <1>2, <1>3, <2>1, <3>1, <3>2
  <2> QED BY <2>1
<1>5. PageAfter(id) \in SUBSET UpTo(id, c)
  <2>1. ASSUME NEW d \in PageAfter(id) PROVE d \in Batches /\ id < d /\ d <= c
    <3>1. d \in Batches /\ d > id /\ d \in Nat
      BY PageMembers, ScanAssumption
    <3>2. ASSUME c < d PROVE FALSE
      <4>1. id < c /\ c <= d
        BY <1>3, <3>1, <3>2
      <4> QED BY <1>3, <4>1, PageIsConvex
    <3> QED BY <1>3, <3>1, <3>2
  <2> QED BY <2>1 DEF UpTo
<1>6. IsFiniteSet(PageAfter(id)) /\ Cardinality(PageAfter(id)) \in Nat
  BY <1>3, <1>5, UpToIsFinite, FS_Subset, FS_CardinalityType
<1>7. UpTo(id, c) \in SUBSET (PageAfter(id) \cup {c})
  <2>1. ASSUME NEW d \in Batches, id < d, d <= c, d # c PROVE d < c
    <3>1. d \in Nat
      BY ScanAssumption
    <3> QED BY <1>3, <2>1, <3>1
  <2> QED BY <1>4, <2>1 DEF UpTo
<1>8. /\ IsFiniteSet(PageAfter(id) \cup {c})
      /\ Cardinality(PageAfter(id) \cup {c}) = Cardinality(PageAfter(id)) + 1
  BY <1>3, <1>6, FS_AddElement
<1>9. Cardinality(UpTo(id, c)) <= Cardinality(PageAfter(id)) + 1
  BY <1>7, <1>8, FS_Subset
<1>10. Cardinality(UpTo(id, c)) \in Nat
  BY <1>3, UpToIsFinite
<1>11. Cardinality(UpTo(id, c)) <= SCAN_PAGE_SIZE
  BY <1>3, <1>6, <1>9, <1>10
<1> QED BY <1>3, <1>11, PageMembers

\* What a page leaves to the next begins behind its last id.
LEMMA PagesJoin ==
  ASSUME NEW id \in Nat, ~(Cardinality(PageAfter(id)) < SCAN_PAGE_SIZE)
  PROVE  /\ LastId(PageAfter(id)) \in Batches
         /\ \A b \in Batches : b <= LastId(PageAfter(id)) => b <= id \/ b \in PageAfter(id)
<1>1. PageAfter(id) # {}
  BY FS_EmptySet, ScanAssumption
<1>2. LastId(PageAfter(id)) \in PageAfter(id)
  BY <1>1, PageHasLast
<1>3. LastId(PageAfter(id)) \in Batches
  BY <1>2, PageMembers
<1>4. ASSUME NEW b \in Batches, b <= LastId(PageAfter(id)), ~(b <= id)
      PROVE  b \in PageAfter(id)
  <2>1. id < b
    BY <1>4, ScanAssumption
  <2> QED BY <1>2, <1>4, <2>1, PageIsConvex
<1> QED BY <1>3, <1>4

-----------------------------------------------------------------------------
(* One open alert *)

AlertTypes ==
  /\ open \in [Batches -> Nat]
  /\ resolved \in [Batches -> Nat]
  /\ flagged \in [Batches -> Nat]
  /\ DOMAIN inserted = Scanners

\* Two scans never hold an alert for one batch, and none for a batch whose
\* alert is committed and open.
InsertedApart ==
  \A s \in Scanners : \A b \in inserted[s] :
    /\ \A o \in Scanners : b \in inserted[o] => o = s
    /\ b \in Batches => open[b] = 0

AlertsCounted == \A b \in Batches : open[b] <= 1 /\ flagged[b] = open[b] + resolved[b]

AlertsInv == AlertTypes /\ InsertedApart /\ AlertsCounted

LEMMA AlertsStart == Init => AlertsInv
  BY DEF Init, AlertsInv, AlertTypes, InsertedApart, AlertsCounted

LEMMA AlertsFrame ==
  ASSUME AlertsInv, UNCHANGED alerts, DOMAIN inserted' = Scanners,
         \A s \in Scanners : inserted'[s] \subseteq inserted[s]
  PROVE  AlertsInv'
<1>1. AlertTypes' /\ AlertsCounted'
  BY DEF AlertsInv, AlertTypes, AlertsCounted, alerts
<1>2. InsertedApart'
  BY DEF AlertsInv, InsertedApart, alerts
<1> QED BY <1>1, <1>2 DEF AlertsInv

LEMMA CheckKeeps ==
  ASSUME AlertsInv, NEW s \in Scanners, CheckBatch(s)
  PROVE  AlertsInv'
<1> DEFINE b == NextUnchecked(s)
<1>0. /\ UNCHANGED alerts
      /\ \/ UNCHANGED inserted
         \/ /\ ~InsertWaits(s, b)
            /\ inserted' = [inserted EXCEPT ![s] = IF HasOpenAlert(b) THEN @ ELSE @ \cup {b}]
  BY DEF CheckBatch
<1> HIDE DEF b
<1>1. CASE UNCHANGED inserted \/ HasOpenAlert(b)
  <2>1. DOMAIN inserted' = Scanners /\ \A o \in Scanners : inserted'[o] \subseteq inserted[o]
    BY <1>0, <1>1 DEF AlertsInv, AlertTypes
  <2> QED BY <1>0, <2>1, AlertsFrame
<1>2. CASE ~(UNCHANGED inserted) /\ ~HasOpenAlert(b)
  <2>1. /\ UNCHANGED alerts /\ ~InsertWaits(s, b) /\ ~HasOpenAlert(b)
        /\ inserted' = [inserted EXCEPT ![s] = @ \cup {b}]
    BY <1>0, <1>2
  <2>2. /\ DOMAIN inserted' = Scanners /\ inserted'[s] = inserted[s] \cup {b}
        /\ \A o \in Scanners : o # s => inserted'[o] = inserted[o] /\ b \notin inserted[o]
    BY <2>1 DEF AlertsInv, AlertTypes, InsertWaits
  <2>3. b \in Batches => open[b] = 0
    BY <2>1 DEF HasOpenAlert, AlertsInv, AlertTypes
  <2>4. InsertedApart'
    BY <2>1, <2>2, <2>3 DEF AlertsInv, InsertedApart, alerts
  <2> QED BY <2>1, <2>2, <2>4 DEF AlertsInv, AlertTypes, AlertsCounted, alerts
<1> QED BY <1>1, <1>2

LEMMA CommitKeeps ==
  ASSUME AlertsInv, NEW s \in Scanners, CommitPage(s)
  PROVE  AlertsInv'
<1>1. /\ open' = [b \in Batches |-> IF b \in inserted[s] THEN open[b] + 1 ELSE open[b]]
      /\ flagged' = [b \in Batches |-> IF b \in inserted[s] THEN flagged[b] + 1 ELSE flagged[b]]
      /\ resolved' = resolved /\ inserted' = [inserted EXCEPT ![s] = {}]
  BY DEF CommitPage
<1>2. /\ inserted'[s] = {} /\ DOMAIN inserted' = Scanners
      /\ \A o \in Scanners : o # s => inserted'[o] = inserted[o]
  BY <1>1 DEF AlertsInv, AlertTypes
<1>3. \A b \in Batches : /\ b \in inserted[s] => open[b] = 0 /\ open'[b] = 1 /\ flagged'[b] = flagged[b] + 1
                         /\ b \notin inserted[s] => open'[b] = open[b] /\ flagged'[b] = flagged[b]
  BY <1>1 DEF AlertsInv, InsertedApart, AlertTypes
<1>4. AlertTypes'
  BY <1>1, <1>2 DEF AlertsInv, AlertTypes
<1>5. AlertsCounted'
  BY <1>1, <1>3 DEF AlertsInv, AlertsCounted, AlertTypes
<1>6. InsertedApart'
  <2>1. \A o \in Scanners : o # s => \A b \in inserted[o] : b \notin inserted[s]
    BY DEF AlertsInv, InsertedApart
  <2> QED BY <1>2, <1>3, <2>1 DEF AlertsInv, InsertedApart
<1> QED BY <1>4, <1>5, <1>6 DEF AlertsInv

LEMMA ResolveKeeps ==
  ASSUME AlertsInv, NEW b \in Batches, ResolveAnomaly(b)
  PROVE  AlertsInv'
<1>1. /\ open[b] = 1 /\ inserted' = inserted /\ flagged' = flagged
      /\ open' = [open EXCEPT ![b] = @ - 1] /\ resolved' = [resolved EXCEPT ![b] = @ + 1]
  BY DEF ResolveAnomaly, HasOpenAlert, AlertsInv, AlertTypes, AlertsCounted
<1>2. /\ open'[b] = 0 /\ resolved'[b] = resolved[b] + 1
      /\ \A c \in Batches : c # b => open'[c] = open[c] /\ resolved'[c] = resolved[c]
  BY <1>1 DEF AlertsInv, AlertTypes
<1>3. AlertTypes'
  BY <1>1 DEF AlertsInv, AlertTypes
<1>4. AlertsCounted'
  BY <1>1, <1>2 DEF AlertsInv, AlertsCounted, AlertTypes
<1>5. InsertedApart'
  BY <1>1, <1>2 DEF AlertsInv, InsertedApart
<1> QED BY <1>3, <1>4, <1>5 DEF AlertsInv

LEMMA AlertsKept == AlertsInv /\ [Next]_vars => AlertsInv'
<1> SUFFICES ASSUME AlertsInv, [Next]_vars PROVE AlertsInv'
  OBVIOUS
<1>1. ASSUME UNCHANGED alerts, UNCHANGED inserted PROVE AlertsInv'
  BY <1>1, AlertsFrame DEF AlertsInv, AlertTypes
<1>2. CASE LedgerStep \/ UNCHANGED vars
  BY <1>1, <1>2 DEF LedgerStep, vars, scan
<1>3. ASSUME NEW s \in Scanners, StartScan(s) \/ ReadPage(s) \/ ReadEvents(s) \/ EndScan(s) PROVE AlertsInv'
  BY <1>1, <1>3 DEF StartScan, ReadPage, ReadEvents, EndScan
<1>4. ASSUME NEW s \in Scanners, ScanInterrupted(s) PROVE AlertsInv'
  <2>1. /\ UNCHANGED alerts /\ DOMAIN inserted' = Scanners
        /\ \A o \in Scanners : inserted'[o] \subseteq inserted[o]
    BY <1>4 DEF ScanInterrupted, AlertsInv, AlertTypes
  <2> QED BY <2>1, AlertsFrame
<1> QED BY <1>2, <1>3, <1>4, CheckKeeps, CommitKeeps, ResolveKeeps DEF Next, ScanStep

\* Whatever replicas scan at once, are cut off or see an alert resolved, a
\* batch has at most one open alert, counting those not yet committed.
THEOREM AlertsAreSingle == Spec => []OneOpenAlert
<1>1. ASSUME AlertsInv, NEW b \in Batches
      PROVE  Cardinality({s \in Scanners : b \in inserted[s]}) + open[b] <= 1
  <2>1. CASE \E s \in Scanners : b \in inserted[s]
    <3>1. PICK s \in Scanners : b \in inserted[s]
      BY <2>1
    <3>2. {o \in Scanners : b \in inserted[o]} = {s} /\ open[b] = 0
      BY <1>1, <3>1 DEF AlertsInv, InsertedApart
    <3>3. Cardinality({s}) = 1
      BY FS_Singleton
    <3>4. Cardinality({o \in Scanners : b \in inserted[o]}) = 1
      BY <3>2, <3>3
    <3> QED BY <3>2, <3>4
  <2>2. CASE ~ \E s \in Scanners : b \in inserted[s]
    <3>1. {o \in Scanners : b \in inserted[o]} = {}
      BY <2>2
    <3>2. Cardinality({o \in Scanners : b \in inserted[o]}) = 0
      BY <3>1, FS_EmptySet
    <3> QED BY <1>1, <3>2 DEF AlertsInv, AlertTypes, AlertsCounted
  <2> QED BY <2>1, <2>2
<1>2. AlertsInv => OneOpenAlert
  BY <1>1 DEF AlertsInv, AlertsCounted, OneOpenAlert
<1> QED BY <1>2, AlertsStart, AlertsKept, PTL DEF Spec

-----------------------------------------------------------------------------
(* What a scan finds *)

\* Of one scan: the page it is on, and what is known of each batch that is due
\* an alert - it has one if the cursor is past it or it has been checked, and
\* it fails its check otherwise.
ScanFacts(s) ==
  /\ pc[s] \in {"events", "check"} => page[s] = PageAfter(afterId[s])
  /\ pc[s] = "check" => unchecked[s] \subseteq page[s]
  /\ pc[s] = "events" =>
       \A b \in page[s] : headsRead[s][b].eventCount <= heads[b].eventCount
  /\ \A b \in dueAlerts[s] :
       /\ ~Intact(b)
       /\ pc[s] \in {"page", "events", "check"} /\ b <= afterId[s] => open[b] >= 1
       /\ pc[s] = "events" /\ b \in page[s] =>
            ~VerifyChain(rows[b], headsRead[s][b], HasLegacyKey)
       /\ pc[s] = "check" /\ b \in unchecked[s] => Fails(s, b)
       /\ pc[s] = "check" /\ b \in page[s] \ unchecked[s] => open[b] >= 1 \/ b \in inserted[s]
       /\ pc[s] = "done" => open[b] >= 1

ScanTypes ==
  /\ LedgerInv /\ TypeOK
  /\ DOMAIN headsRead = Scanners /\ DOMAIN chainsRead = Scanners
  /\ \A s \in Scanners : IF pc[s] = "check" THEN chainsRead[s] \in [page[s] -> Seq(TraceEvents)]
                                            ELSE chainsRead[s] = << >>

ScanInv == ScanTypes /\ AlertsInv /\ \A s \in Scanners : ScanFacts(s)

\* A scan that another one's step, or an admin's, leaves alone.
LEMMA FactsFrame ==
  ASSUME NEW s \in Scanners, ScanFacts(s), UNCHANGED ledger, dueAlerts'[s] \subseteq dueAlerts[s],
         /\ pc'[s] = pc[s] /\ afterId'[s] = afterId[s] /\ page'[s] = page[s]
         /\ headsRead'[s] = headsRead[s] /\ chainsRead'[s] = chainsRead[s]
         /\ unchecked'[s] = unchecked[s] /\ inserted'[s] = inserted[s],
         \A b \in dueAlerts'[s] : open[b] >= 1 => open'[b] >= 1
  PROVE  ScanFacts(s)'
<1>1. rows' = rows /\ written' = written /\ heads' = heads
  BY DEF ledger
<1>2. \A b : /\ Intact(b)' <=> Intact(b)
             /\ Fails(s, b)' <=> Fails(s, b)
  BY <1>1 DEF Intact, Fails
<1>3. PageAfter(afterId[s])' = PageAfter(afterId[s])
  BY DEF PageAfter
<1> QED BY <1>1, <1>2, <1>3 DEF ScanFacts

\* Rows that fail against a head go on failing while events are recorded.
LEMMA StillFails ==
  ASSUME LedgerInv, [LedgerNext]_ledger, NEW b \in Batches, NEW head \in ChainHeads,
         head.eventCount <= heads[b].eventCount
  PROVE  /\ head.eventCount <= heads'[b].eventCount
         /\ ~VerifyChain(rows[b], head, HasLegacyKey) /\ tamperings'[b] = tamperings[b] =>
              ~VerifyChain(rows'[b], head, HasLegacyKey)
<1>1. /\ heads[b] \in ChainHeads /\ rows[b] \in Seq(TraceEvents) /\ tamperings[b] \in Nat
      /\ tamperings[b] + 1 # tamperings[b]
  BY LedgerAssumption DEF LedgerInv, LedgerTypeOK
<1>2. head.eventCount \in Nat /\ heads[b].eventCount \in Nat
  BY <1>1 DEF ChainHeads
<1>3. CASE /\ written'[b] = written[b] /\ rows'[b] = rows[b]
           /\ heads'[b] = heads[b] /\ tamperings'[b] = tamperings[b]
  BY <1>3
<1>4. ASSUME NEW e \in TraceEvents, e.sequenceNumber = heads[b].eventCount,
             rows'[b] = Append(rows[b], e), heads'[b] = HeadAfter(e)
      PROVE  /\ head.eventCount <= heads'[b].eventCount
             /\ ~VerifyChain(rows'[b], head, HasLegacyKey)
  <2> DEFINE c == Append(rows[b], e)
  <2>1. heads'[b].eventCount = heads[b].eventCount + 1
    BY <1>4 DEF HeadAfter
  <2>2. Len(c) = Len(rows[b]) + 1 /\ Len(rows[b]) \in Nat /\ c[Len(c)] = e /\ Len(c) \in 1..Len(c)
    BY <1>1
  <2> HIDE DEF c
  <2>3. ASSUME VerifyChain(c, head, HasLegacyKey) PROVE FALSE
    <3>1. Linked(c) /\ HeadMatches(c, head)
      BY <2>3, NoProblemMeansSound, UnbrokenIsLinked
    <3>2. e.sequenceNumber = Len(c) - 1 /\ head.eventCount = Len(c)
      BY <2>2, <3>1 DEF Linked, LinksToPrevious, HeadMatches
    <3> QED BY <1>2, <1>4, <2>2, <3>2
  <2> QED BY <1>2, <1>4, <2>1, <2>3 DEF c
<1>5. CASE heads'[b] = heads[b] /\ tamperings'[b] = tamperings[b] + 1
  BY <1>1, <1>5
<1> QED BY <1>3, <1>4, <1>5, StepOnBatch

LEMMA ScansStart == Init => ScanInv
<1> SUFFICES ASSUME Init PROVE ScanInv
  OBVIOUS
<1>1. LedgerInv /\ AlertsInv
  BY LedgerStarts, AlertsStart DEF Init
<1>2. << >> \in [{} -> ChainHeads]
  OBVIOUS
<1>3. TypeOK
  BY <1>1, <1>2, ScanAssumption DEF Init, TypeOK, ScanPcs, LedgerInv
<1> QED BY <1>1, <1>3 DEF Init, ScanInv, ScanTypes, ScanFacts

LEMMA LedgerStepKeepsScans ==
  ASSUME ScanInv, [LedgerNext]_ledger,
         UNCHANGED <<alerts, pc, afterId, page, headsRead, chainsRead, unchecked, inserted>>,
         \/ UNCHANGED <<ledger, dueAlerts>>
         \/ dueAlerts' = [s \in Scanners |->
              {b \in dueAlerts[s] : /\ ~Intact(b)'
                                    /\ pc[s] = "events" => tamperings'[b] = tamperings[b]}]
  PROVE  ScanInv'
<1>1. /\ open' = open /\ resolved' = resolved /\ flagged' = flagged
      /\ pc' = pc /\ afterId' = afterId /\ page' = page /\ headsRead' = headsRead
      /\ chainsRead' = chainsRead /\ unchecked' = unchecked /\ inserted' = inserted
  BY DEF alerts
<1>2. LedgerInv' /\ LedgerTypeOK'
  BY LedgerKeeps DEF ScanInv, ScanTypes, LedgerInv
<1>3. ASSUME NEW s \in Scanners
      PROVE  /\ dueAlerts'[s] \subseteq dueAlerts[s]
             /\ \A b \in dueAlerts'[s] : /\ ~Intact(b)'
                                         /\ pc[s] = "events" => tamperings'[b] = tamperings[b]
  <2>1. CASE UNCHANGED <<ledger, dueAlerts>>
    BY <2>1 DEF ScanInv, ScanFacts, Intact, ledger
  <2>2. CASE ~UNCHANGED <<ledger, dueAlerts>>
    BY <2>2
  <2> QED BY <2>1, <2>2
<1>4. TypeOK'
  <2>1. dueAlerts' \in [Scanners -> SUBSET Batches]
    <3>1. dueAlerts \in [Scanners -> SUBSET Batches]
      BY DEF ScanInv, ScanTypes, TypeOK
    <3>2. DOMAIN dueAlerts' = Scanners /\ dueAlerts' = [s \in Scanners |-> dueAlerts'[s]]
      BY <3>1
    <3> QED BY <1>3, <3>1, <3>2
  <2> QED BY <1>1, <1>2, <2>1 DEF ScanInv, ScanTypes, TypeOK
<1>5. AlertsInv'
  BY <1>1, AlertsFrame DEF ScanInv, AlertsInv, AlertTypes, alerts
<1>6. ASSUME NEW s \in Scanners PROVE ScanFacts(s)'
  <2>1. /\ PageAfter(afterId[s])' = PageAfter(afterId[s])
        /\ \A b : Fails(s, b)' <=> Fails(s, b)
    BY <1>1 DEF PageAfter, Fails
  <2>2. ASSUME pc[s] = "events", NEW b \in page[s]
        PROVE  /\ headsRead[s][b].eventCount <= heads'[b].eventCount
               /\ b \in dueAlerts'[s] => ~VerifyChain(rows'[b], headsRead[s][b], HasLegacyKey)
    <3>1. b \in Batches /\ headsRead[s][b] \in ChainHeads
      BY DEF ScanInv, ScanTypes, TypeOK
    <3>2. /\ headsRead[s][b].eventCount <= heads[b].eventCount
          /\ b \in dueAlerts[s] => ~VerifyChain(rows[b], headsRead[s][b], HasLegacyKey)
      BY <2>2 DEF ScanInv, ScanFacts
    <3> QED BY <1>3, <2>2, <3>1, <3>2, StillFails DEF ScanInv, ScanTypes
  <2> QED BY <1>1, <1>3, <2>1, <2>2 DEF ScanInv, ScanFacts
<1> QED BY <1>1, <1>2, <1>4, <1>5, <1>6 DEF ScanInv, ScanTypes

\* What scans of other slots are worth after a step of s.
LEMMA OthersKeepFacts ==
  ASSUME ScanInv, NEW s \in Scanners, UNCHANGED ledger,
         \A o \in Scanners \ {s} :
           /\ pc'[o] = pc[o] /\ afterId'[o] = afterId[o] /\ page'[o] = page[o]
           /\ headsRead'[o] = headsRead[o] /\ chainsRead'[o] = chainsRead[o]
           /\ unchecked'[o] = unchecked[o] /\ inserted'[o] = inserted[o]
           /\ dueAlerts'[o] \subseteq dueAlerts[o],
         \A b \in Batches : open[b] >= 1 => open'[b] >= 1
  PROVE  \A o \in Scanners \ {s} : ScanFacts(o)'
<1> SUFFICES ASSUME NEW o \in Scanners \ {s} PROVE ScanFacts(o)'
  OBVIOUS
<1>1. dueAlerts[o] \subseteq Batches
  BY DEF ScanInv, ScanTypes, TypeOK
<1>2. \A b \in dueAlerts'[o] : open[b] >= 1 => open'[b] >= 1
  BY <1>1
<1>3. ScanFacts(o)
  BY DEF ScanInv
<1> QED BY <1>2, <1>3, FactsFrame

LEMMA StartKeepsScans ==
  ASSUME ScanInv, AlertsInv', NEW s \in Scanners, StartScan(s)
  PROVE  ScanInv'
<1>1. /\ pc[s] = "ready" /\ pc' = [pc EXCEPT ![s] = "page"] /\ afterId' = [afterId EXCEPT ![s] = 0]
      /\ dueAlerts' = [dueAlerts EXCEPT ![s] = {b \in Batches : ~Intact(b)}]
      /\ written' = written /\ rows' = rows /\ heads' = heads /\ tamperings' = tamperings
      /\ open' = open /\ resolved' = resolved /\ flagged' = flagged
      /\ page' = page /\ headsRead' = headsRead /\ chainsRead' = chainsRead
      /\ unchecked' = unchecked /\ inserted' = inserted
  BY DEF StartScan, ledger, alerts
<1>2. LedgerInv' /\ UNCHANGED ledger
  BY LedgerKeeps DEF StartScan, ScanInv, ScanTypes
<1>3. TypeOK'
  BY <1>1, <1>2 DEF ScanInv, ScanTypes, TypeOK, ScanPcs, LedgerInv
<1>4. \A o \in Scanners \ {s} : ScanFacts(o)'
  BY <1>1, <1>2, OthersKeepFacts DEF ScanInv, ScanTypes, TypeOK
<1>5. ScanFacts(s)'
  <2>1. pc'[s] = "page" /\ afterId'[s] = 0 /\ dueAlerts'[s] = {b \in Batches : ~Intact(b)}
    BY <1>1 DEF ScanInv, ScanTypes, TypeOK
  <2>2. \A b \in Batches : ~(b <= 0)
    BY ScanAssumption
  <2> QED BY <1>1, <2>1, <2>2 DEF ScanFacts, Intact
<1>6. ScanTypes'
  BY <1>1, <1>2, <1>3 DEF ScanInv, ScanTypes, TypeOK
<1> QED BY <1>4, <1>5, <1>6 DEF ScanInv

LEMMA ReadPageKeepsScans ==
  ASSUME ScanInv, AlertsInv', NEW s \in Scanners, ReadPage(s)
  PROVE  ScanInv'
<1> DEFINE P == PageAfter(afterId[s])
           H == [b \in P |-> heads[b]]
<1>1. /\ pc[s] = "page" /\ pc' = [pc EXCEPT ![s] = "events"]
      /\ page' = [page EXCEPT ![s] = P] /\ headsRead' = [headsRead EXCEPT ![s] = H]
      /\ written' = written /\ rows' = rows /\ heads' = heads /\ tamperings' = tamperings
      /\ open' = open /\ resolved' = resolved /\ flagged' = flagged
      /\ afterId' = afterId /\ chainsRead' = chainsRead
      /\ unchecked' = unchecked /\ inserted' = inserted /\ dueAlerts' = dueAlerts
  BY DEF ReadPage, ledger, alerts
<1>2. LedgerInv' /\ UNCHANGED ledger
  BY LedgerKeeps DEF ReadPage, ScanInv, ScanTypes
<1>3. P \subseteq Batches /\ H \in [P -> ChainHeads] /\ \A b \in P : H[b] = heads[b]
  BY DEF PageAfter, ScanInv, ScanTypes, TypeOK, LedgerTypeOK
<1>4. PageAfter(afterId[s])' = P
  BY <1>1 DEF PageAfter
<1> HIDE DEF P, H
<1>5. /\ pc'[s] = "events" /\ page'[s] = P /\ headsRead'[s] = H /\ DOMAIN headsRead' = Scanners
      /\ \A o \in Scanners \ {s} : pc'[o] = pc[o] /\ page'[o] = page[o] /\ headsRead'[o] = headsRead[o]
  BY <1>1 DEF ScanInv, ScanTypes, TypeOK
<1>6. TypeOK'
  <2>1. \A o \in Scanners : /\ headsRead'[o] \in [page'[o] -> ChainHeads]
                            /\ chainsRead'[o] \in [page'[o] -> Seq(TraceEvents)] \cup {<< >>}
    <3>1. chainsRead[s] = << >>
      BY <1>1 DEF ScanInv, ScanTypes
    <3> QED BY <1>1, <1>3, <1>5, <3>1 DEF ScanInv, ScanTypes, TypeOK
  <2> QED BY <1>1, <1>2, <1>3, <2>1 DEF ScanInv, ScanTypes, TypeOK, ScanPcs, LedgerInv
<1>7. \A o \in Scanners \ {s} : ScanFacts(o)'
  BY <1>1, <1>2, <1>5, OthersKeepFacts
<1>8. ScanFacts(s)'
  <2>1. ASSUME NEW b \in P PROVE heads[b].eventCount <= heads[b].eventCount
    BY <1>3 DEF ScanInv, ScanTypes, TypeOK, LedgerTypeOK, ChainHeads
  <2>2. ASSUME NEW b \in dueAlerts[s] PROVE ~VerifyChain(rows[b], heads[b], HasLegacyKey)
    <3>1. b \in Batches /\ ~Intact(b)
      BY DEF ScanInv, ScanTypes, ScanFacts, TypeOK
    <3> QED BY <3>1, VerifiedIsWritten DEF ScanInv, ScanTypes, LedgerInv, LedgerTypeOK, Intact
  <2>3. /\ page'[s] = PageAfter(afterId[s])'
        /\ \A b \in page'[s] : headsRead'[s][b].eventCount <= heads'[b].eventCount
    BY <1>1, <1>3, <1>4, <1>5, <2>1
  <2>4. ASSUME NEW b \in dueAlerts[s]
        PROVE  /\ ~Intact(b)'
               /\ b <= afterId'[s] => open'[b] >= 1
               /\ b \in page'[s] => ~VerifyChain(rows'[b], headsRead'[s][b], HasLegacyKey)
    <3>1. ~Intact(b) /\ (b <= afterId[s] => open[b] >= 1)
      BY <1>1 DEF ScanInv, ScanFacts
    <3> QED BY <1>1, <1>3, <1>5, <2>2, <3>1 DEF Intact
  <2> QED BY <1>1, <1>5, <2>3, <2>4 DEF ScanFacts
<1>9. ScanTypes'
  BY <1>1, <1>2, <1>5, <1>6 DEF ScanInv, ScanTypes, TypeOK
<1> QED BY <1>7, <1>8, <1>9 DEF ScanInv

LEMMA ReadEventsKeepsScans ==
  ASSUME ScanInv, AlertsInv', NEW s \in Scanners, ReadEvents(s)
  PROVE  ScanInv'
<1> DEFINE C == [b \in page[s] |-> rows[b]]
<1>1. /\ pc[s] = "events" /\ pc' = [pc EXCEPT ![s] = "check"]
      /\ chainsRead' = [chainsRead EXCEPT ![s] = C] /\ unchecked' = [unchecked EXCEPT ![s] = page[s]]
      /\ written' = written /\ rows' = rows /\ heads' = heads /\ tamperings' = tamperings
      /\ open' = open /\ resolved' = resolved /\ flagged' = flagged
      /\ afterId' = afterId /\ page' = page /\ headsRead' = headsRead
      /\ inserted' = inserted /\ dueAlerts' = dueAlerts
  BY DEF ReadEvents, ledger, alerts
<1>2. LedgerInv' /\ UNCHANGED ledger
  BY LedgerKeeps DEF ReadEvents, ScanInv, ScanTypes
<1>3. /\ page[s] \subseteq Batches /\ C \in [page[s] -> Seq(TraceEvents)]
      /\ \A b \in page[s] : C[b] = rows[b]
  BY DEF ScanInv, ScanTypes, TypeOK, LedgerTypeOK
<1> HIDE DEF C
<1>4. /\ pc'[s] = "check" /\ chainsRead'[s] = C /\ unchecked'[s] = page[s] /\ DOMAIN chainsRead' = Scanners
      /\ \A o \in Scanners \ {s} : /\ pc'[o] = pc[o] /\ chainsRead'[o] = chainsRead[o]
                                   /\ unchecked'[o] = unchecked[o]
  BY <1>1 DEF ScanInv, ScanTypes, TypeOK
<1>5. TypeOK'
  <2>1. \A o \in Scanners : /\ headsRead'[o] \in [page'[o] -> ChainHeads]
                            /\ chainsRead'[o] \in [page'[o] -> Seq(TraceEvents)] \cup {<< >>}
    BY <1>1, <1>3, <1>4 DEF ScanInv, ScanTypes, TypeOK
  <2> QED BY <1>1, <1>2, <1>3, <2>1 DEF ScanInv, ScanTypes, TypeOK, ScanPcs, LedgerInv
<1>6. \A o \in Scanners \ {s} : ScanFacts(o)'
  BY <1>1, <1>2, <1>4, OthersKeepFacts
<1>7. ScanFacts(s)'
  <2>1. page[s] = PageAfter(afterId[s])' /\ ScanFacts(s)
    BY <1>1 DEF ScanInv, ScanFacts, PageAfter
  <2>2. ASSUME NEW b \in dueAlerts[s]
        PROVE  /\ ~Intact(b)'
               /\ b <= afterId[s] => open[b] >= 1
               /\ b \in page[s] => Fails(s, b)'
    <3>1. /\ ~Intact(b) /\ (b <= afterId[s] => open[b] >= 1)
          /\ b \in page[s] => ~VerifyChain(rows[b], headsRead[s][b], HasLegacyKey)
      BY <1>1 DEF ScanInv, ScanFacts
    <3>2. Intact(b)' <=> Intact(b)
      BY <1>1 DEF Intact
    <3>3. b \in page[s] => chainsRead'[s][b] = rows[b]
      BY <1>3, <1>4
    <3> QED BY <1>1, <3>1, <3>2, <3>3 DEF Fails
  <2> QED BY <1>1, <1>4, <2>1, <2>2 DEF ScanFacts
<1>8. ScanTypes'
  BY <1>1, <1>2, <1>3, <1>4, <1>5 DEF ScanInv, ScanTypes, TypeOK
<1> QED BY <1>6, <1>7, <1>8 DEF ScanInv

\* The batch that is checked next is one of those that are not yet.
LEMMA NextIsUnchecked ==
  ASSUME ScanInv, NEW s \in Scanners, unchecked[s] # {}
  PROVE  NextUnchecked(s) \in unchecked[s] /\ NextUnchecked(s) \in Batches
<1>1. unchecked[s] \subseteq Batches /\ unchecked[s] \subseteq Nat
  BY ScanAssumption DEF ScanInv, ScanTypes, TypeOK
<1>2. \E b \in unchecked[s] : \A c \in unchecked[s] : b <= c
  BY <1>1, LeastNumber
<1>3. NextUnchecked(s) \in unchecked[s]
  BY <1>2, Zenon DEF NextUnchecked
<1> QED BY <1>1, <1>3

LEMMA CheckKeepsScans ==
  ASSUME ScanInv, AlertsInv', NEW s \in Scanners, CheckBatch(s)
  PROVE  ScanInv'
<1> DEFINE b == NextUnchecked(s)
<1>1. /\ pc[s] = "check" /\ unchecked[s] # {} /\ unchecked' = [unchecked EXCEPT ![s] = @ \ {b}]
      /\ \/ ~Fails(s, b) /\ inserted' = inserted
         \/ Fails(s, b) /\ inserted' = [inserted EXCEPT ![s] = IF HasOpenAlert(b) THEN @ ELSE @ \cup {b}]
      /\ written' = written /\ rows' = rows /\ heads' = heads /\ tamperings' = tamperings
      /\ open' = open /\ resolved' = resolved /\ flagged' = flagged /\ pc' = pc
      /\ afterId' = afterId /\ page' = page /\ headsRead' = headsRead
      /\ chainsRead' = chainsRead /\ dueAlerts' = dueAlerts
  BY DEF CheckBatch, ledger, alerts
<1>2. LedgerInv' /\ UNCHANGED ledger
  BY LedgerKeeps DEF CheckBatch, ScanInv, ScanTypes
<1>3. b \in unchecked[s] /\ b \in Batches
  BY <1>1, NextIsUnchecked
<1> HIDE DEF b
<1>4. /\ unchecked'[s] = unchecked[s] \ {b} /\ inserted[s] \subseteq inserted'[s]
      /\ Fails(s, b) => open[b] >= 1 \/ b \in inserted'[s]
      /\ \A o \in Scanners \ {s} : unchecked'[o] = unchecked[o] /\ inserted'[o] = inserted[o]
  <2>1. inserted \in [Scanners -> SUBSET Batches] /\ unchecked \in [Scanners -> SUBSET Batches]
    BY DEF ScanInv, ScanTypes, TypeOK
  <2>2. HasOpenAlert(b) => open[b] >= 1
    BY <1>3 DEF HasOpenAlert, ScanInv, ScanTypes, TypeOK
  <2> QED BY <1>1, <2>1, <2>2
<1>5. TypeOK'
  <2>1. inserted' \in [Scanners -> SUBSET Batches] /\ unchecked' \in [Scanners -> SUBSET Batches]
    <3>1. inserted \in [Scanners -> SUBSET Batches] /\ unchecked \in [Scanners -> SUBSET Batches]
      BY DEF ScanInv, ScanTypes, TypeOK
    <3> QED BY <1>1, <1>3, <3>1
  <2> QED BY <1>1, <1>2, <2>1 DEF ScanInv, ScanTypes, TypeOK, LedgerInv
<1>6. \A o \in Scanners \ {s} : ScanFacts(o)'
  BY <1>1, <1>2, <1>4, OthersKeepFacts
<1>7. ScanFacts(s)'
  <2>1. page[s] = PageAfter(afterId[s])' /\ ScanFacts(s) /\ (\A d : Fails(s, d)' <=> Fails(s, d))
    BY <1>1 DEF ScanInv, ScanFacts, PageAfter, Fails
  <2>2. unchecked'[s] \subseteq page[s]
    BY <1>1, <1>4, <2>1 DEF ScanFacts
  <2>3. ASSUME NEW d \in dueAlerts[s]
        PROVE  /\ ~Intact(d)'
               /\ d <= afterId[s] => open[d] >= 1
               /\ d \in unchecked'[s] => Fails(s, d)
               /\ d \in page[s] \ unchecked'[s] => open[d] >= 1 \/ d \in inserted'[s]
    <3>1. /\ ~Intact(d) /\ (d <= afterId[s] => open[d] >= 1)
          /\ d \in unchecked[s] => Fails(s, d)
          /\ d \in page[s] \ unchecked[s] => open[d] >= 1 \/ d \in inserted[s]
      BY <1>1, <2>1 DEF ScanFacts
    <3>2. Intact(d)' <=> Intact(d)
      BY <1>1 DEF Intact
    <3> QED BY <1>3, <1>4, <3>1, <3>2
  <2> QED BY <1>1, <2>1, <2>2, <2>3 DEF ScanFacts
<1>8. ScanTypes'
  BY <1>1, <1>2, <1>5 DEF ScanInv, ScanTypes, TypeOK
<1> QED BY <1>6, <1>7, <1>8 DEF ScanInv

LEMMA CommitKeepsScans ==
  ASSUME ScanInv, AlertsInv', NEW s \in Scanners, CommitPage(s)
  PROVE  ScanInv'
<1> DEFINE id == afterId[s]
<1>1. /\ pc[s] = "check" /\ unchecked[s] = {}
      /\ open' = [b \in Batches |-> IF b \in inserted[s] THEN open[b] + 1 ELSE open[b]]
      /\ flagged' = [b \in Batches |-> IF b \in inserted[s] THEN flagged[b] + 1 ELSE flagged[b]]
      /\ \/ LastPage(s) /\ pc' = [pc EXCEPT ![s] = "done"] /\ afterId' = afterId
         \/ /\ ~LastPage(s) /\ pc' = [pc EXCEPT ![s] = "page"]
            /\ afterId' = [afterId EXCEPT ![s] = LastId(page[s])]
      /\ page' = [page EXCEPT ![s] = {}] /\ headsRead' = [headsRead EXCEPT ![s] = << >>]
      /\ chainsRead' = [chainsRead EXCEPT ![s] = << >>] /\ inserted' = [inserted EXCEPT ![s] = {}]
      /\ written' = written /\ rows' = rows /\ heads' = heads /\ tamperings' = tamperings
      /\ resolved' = resolved /\ unchecked' = unchecked /\ dueAlerts' = dueAlerts
  BY DEF CommitPage, ledger
<1>2. LedgerInv' /\ UNCHANGED ledger
  BY LedgerKeeps DEF CommitPage, ScanInv, ScanTypes
<1>3. id \in Nat /\ page[s] = PageAfter(id) /\ (LastPage(s) <=> Cardinality(PageAfter(id)) < SCAN_PAGE_SIZE)
  <2>1. id \in Nat
    <3>1. afterId[s] \in Batches \cup {0}
      BY DEF ScanInv, ScanTypes, TypeOK
    <3>2. \A b \in Batches \cup {0} : b \in Nat
      BY ScanAssumption
    <3> QED BY <3>1, <3>2
  <2>2. page[s] = PageAfter(id)
    BY <1>1 DEF ScanInv, ScanFacts
  <2> QED BY <2>1, <2>2 DEF LastPage
<1>4. ~LastPage(s) => /\ LastId(page[s]) \in Batches
                      /\ \A b \in Batches : b <= LastId(page[s]) => b <= id \/ b \in page[s]
  BY <1>3, PagesJoin
<1>5. LastPage(s) => \A b \in Batches : b <= id \/ b \in page[s]
  <2>1. ASSUME LastPage(s), NEW b \in Batches, ~(b <= id) PROVE b \in page[s]
    <3>1. b > id
      BY <1>3, <2>1, ScanAssumption
    <3> QED BY <1>3, <2>1, <3>1, ShortPageIsLast
  <2> QED BY <2>1
<1>6. /\ \/ LastPage(s) /\ pc'[s] = "done"
         \/ ~LastPage(s) /\ pc'[s] = "page" /\ afterId'[s] = LastId(page[s])
      /\ page'[s] = {} /\ headsRead'[s] = << >> /\ chainsRead'[s] = << >>
      /\ \A o \in Scanners \ {s} :
           /\ pc'[o] = pc[o] /\ afterId'[o] = afterId[o] /\ page'[o] = page[o]
           /\ headsRead'[o] = headsRead[o] /\ chainsRead'[o] = chainsRead[o] /\ inserted'[o] = inserted[o]
  BY <1>1 DEF ScanInv, ScanTypes, TypeOK
<1>7. \A b \in Batches : /\ open[b] >= 1 => open'[b] >= 1
                         /\ b \in inserted[s] => open'[b] >= 1
                         /\ open'[b] \in Nat /\ flagged'[b] \in Nat
  BY <1>1 DEF ScanInv, ScanTypes, TypeOK
<1>8. TypeOK' /\ DOMAIN headsRead' = Scanners /\ DOMAIN chainsRead' = Scanners
  <2>1. /\ open' \in [Batches -> Nat] /\ flagged' \in [Batches -> Nat]
        /\ DOMAIN headsRead' = Scanners /\ DOMAIN chainsRead' = Scanners
    BY <1>1, <1>7 DEF ScanInv, ScanTypes
  <2>2. /\ pc' \in [Scanners -> ScanPcs] /\ afterId' \in [Scanners -> Batches \cup {0}]
        /\ page' \in [Scanners -> SUBSET Batches] /\ inserted' \in [Scanners -> SUBSET Batches]
    <3>1. /\ pc \in [Scanners -> ScanPcs] /\ afterId \in [Scanners -> Batches \cup {0}]
          /\ page \in [Scanners -> SUBSET Batches] /\ inserted \in [Scanners -> SUBSET Batches]
      BY DEF ScanInv, ScanTypes, TypeOK
    <3>2. pc' \in [Scanners -> ScanPcs]
      BY <1>1, <3>1 DEF ScanPcs
    <3>3. afterId' \in [Scanners -> Batches \cup {0}]
      BY <1>1, <1>4, <3>1
    <3>4. page' \in [Scanners -> SUBSET Batches] /\ inserted' \in [Scanners -> SUBSET Batches]
      BY <1>1, <3>1
    <3> QED BY <3>2, <3>3, <3>4
  <2>3. << >> \in [{} -> ChainHeads]
    OBVIOUS
  <2>4. \A o \in Scanners : /\ headsRead'[o] \in [page'[o] -> ChainHeads]
                            /\ chainsRead'[o] \in [page'[o] -> Seq(TraceEvents)] \cup {<< >>}
    BY <1>6, <2>3 DEF ScanInv, ScanTypes, TypeOK
  <2> QED BY <1>1, <1>2, <2>1, <2>2, <2>4 DEF ScanInv, ScanTypes, TypeOK, LedgerInv
<1>9. \A o \in Scanners \ {s} : ScanFacts(o)'
  BY <1>1, <1>2, <1>6, <1>7, OthersKeepFacts
<1>10. ScanFacts(s)'
  <2>1. ASSUME NEW b \in dueAlerts[s]
        PROVE  /\ ~Intact(b)'
               /\ pc'[s] = "page" /\ b <= afterId'[s] => open'[b] >= 1
               /\ pc'[s] = "done" => open'[b] >= 1
    <3>1. /\ b \in Batches /\ ~Intact(b) /\ (b <= id => open[b] >= 1)
          /\ b \in page[s] => open[b] >= 1 \/ b \in inserted[s]
      BY <1>1 DEF ScanInv, ScanFacts, ScanTypes, TypeOK
    <3>2. Intact(b)' <=> Intact(b)
      BY <1>1 DEF Intact
    <3>3. b <= id \/ b \in page[s] => open'[b] >= 1
      BY <1>7, <3>1
    <3> QED BY <1>4, <1>5, <1>6, <3>1, <3>2, <3>3
  <2> QED BY <1>1, <1>6, <2>1 DEF ScanFacts
<1>11. ScanTypes'
  BY <1>2, <1>6, <1>8 DEF ScanInv, ScanTypes
<1> QED BY <1>9, <1>10, <1>11 DEF ScanInv

LEMMA EndKeepsScans ==
  ASSUME ScanInv, AlertsInv', NEW s \in Scanners, EndScan(s) \/ ScanInterrupted(s)
  PROVE  ScanInv'
<1>1. /\ pc' = [pc EXCEPT ![s] = "ready"] /\ dueAlerts' = [dueAlerts EXCEPT ![s] = {}]
      /\ page' \in {page, [page EXCEPT ![s] = {}]} /\ unchecked' \in {unchecked, [unchecked EXCEPT ![s] = {}]}
      /\ inserted' \in {inserted, [inserted EXCEPT ![s] = {}]}
      /\ \/ /\ page' = [page EXCEPT ![s] = {}] /\ headsRead' = [headsRead EXCEPT ![s] = << >>]
            /\ chainsRead' = [chainsRead EXCEPT ![s] = << >>]
         \/ pc[s] = "done" /\ page' = page /\ headsRead' = headsRead /\ chainsRead' = chainsRead
      /\ written' = written /\ rows' = rows /\ heads' = heads /\ tamperings' = tamperings
      /\ open' = open /\ resolved' = resolved /\ flagged' = flagged /\ afterId' = afterId
  BY DEF EndScan, ScanInterrupted, ledger, alerts
<1>2. LedgerInv' /\ UNCHANGED ledger
  BY LedgerKeeps DEF EndScan, ScanInterrupted, ScanInv, ScanTypes
<1>3. /\ pc'[s] = "ready" /\ dueAlerts'[s] = {} /\ chainsRead'[s] = << >>
      /\ DOMAIN headsRead' = Scanners /\ DOMAIN chainsRead' = Scanners
      /\ headsRead'[s] \in [page'[s] -> ChainHeads]
      /\ \A o \in Scanners \ {s} :
           /\ pc'[o] = pc[o] /\ page'[o] = page[o] /\ headsRead'[o] = headsRead[o]
           /\ chainsRead'[o] = chainsRead[o] /\ unchecked'[o] = unchecked[o]
           /\ inserted'[o] = inserted[o] /\ dueAlerts'[o] = dueAlerts[o]
  <2>1. << >> \in [{} -> ChainHeads]
    OBVIOUS
  <2>2. \/ page'[s] = {} /\ headsRead'[s] = << >>
        \/ page'[s] = page[s] /\ headsRead'[s] = headsRead[s]
    BY <1>1 DEF ScanInv, ScanTypes, TypeOK
  <2>3. headsRead[s] \in [page[s] -> ChainHeads]
    BY DEF ScanInv, ScanTypes, TypeOK
  <2>4. chainsRead'[s] = << >>
    BY <1>1 DEF ScanInv, ScanTypes
  <2> QED BY <1>1, <2>1, <2>2, <2>3, <2>4 DEF ScanInv, ScanTypes, TypeOK
<1>4. TypeOK'
  <2>1. /\ pc' \in [Scanners -> ScanPcs] /\ page' \in [Scanners -> SUBSET Batches]
        /\ inserted' \in [Scanners -> SUBSET Batches] /\ unchecked' \in [Scanners -> SUBSET Batches]
        /\ dueAlerts' \in [Scanners -> SUBSET Batches]
    BY <1>1 DEF ScanInv, ScanTypes, TypeOK, ScanPcs
  <2>2. \A o \in Scanners : /\ headsRead'[o] \in [page'[o] -> ChainHeads]
                            /\ chainsRead'[o] \in [page'[o] -> Seq(TraceEvents)] \cup {<< >>}
    BY <1>3 DEF ScanInv, ScanTypes, TypeOK
  <2> QED BY <1>1, <1>2, <2>1, <2>2 DEF ScanInv, ScanTypes, TypeOK, LedgerInv
<1>5. \A o \in Scanners \ {s} : ScanFacts(o)'
  BY <1>1, <1>2, <1>3, OthersKeepFacts
<1>6. ScanFacts(s)'
  BY <1>3 DEF ScanFacts
<1>7. ScanTypes'
  BY <1>2, <1>3, <1>4 DEF ScanInv, ScanTypes
<1> QED BY <1>5, <1>6, <1>7 DEF ScanInv

LEMMA ResolveKeepsScans ==
  ASSUME ScanInv, AlertsInv', NEW b \in Batches, ResolveAnomaly(b)
  PROVE  ScanInv'
<1>1. /\ open[b] > 0 /\ resolved[b] < MaxResolved
      /\ open' = [open EXCEPT ![b] = @ - 1] /\ resolved' = [resolved EXCEPT ![b] = @ + 1]
      /\ dueAlerts' = [s \in Scanners |-> dueAlerts[s] \ {b}]
      /\ written' = written /\ rows' = rows /\ heads' = heads /\ tamperings' = tamperings
      /\ flagged' = flagged /\ pc' = pc /\ afterId' = afterId /\ page' = page
      /\ headsRead' = headsRead /\ chainsRead' = chainsRead /\ unchecked' = unchecked
      /\ inserted' = inserted
  BY DEF ResolveAnomaly, HasOpenAlert, ledger
<1>2. LedgerInv' /\ UNCHANGED ledger
  BY LedgerKeeps DEF ResolveAnomaly, ScanInv, ScanTypes
<1>3. TypeOK'
  <2>1. open' \in [Batches -> Nat] /\ resolved' \in [Batches -> 0..MaxResolved]
    BY <1>1, ScanAssumption DEF ScanInv, ScanTypes, TypeOK
  <2>2. dueAlerts' \in [Scanners -> SUBSET Batches]
    BY <1>1 DEF ScanInv, ScanTypes, TypeOK
  <2> QED BY <1>1, <1>2, <2>1, <2>2 DEF ScanInv, ScanTypes, TypeOK, LedgerInv
<1>4. ASSUME NEW s \in Scanners PROVE ScanFacts(s)'
  <2>1. dueAlerts'[s] = dueAlerts[s] \ {b} /\ dueAlerts[s] \subseteq Batches
    BY <1>1 DEF ScanInv, ScanTypes, TypeOK
  <2>2. \A d \in dueAlerts'[s] : open'[d] = open[d]
    BY <1>1, <2>1 DEF ScanInv, ScanTypes, TypeOK
  <2> QED BY <1>1, <1>2, <2>1, <2>2, FactsFrame DEF ScanInv
<1>5. ScanTypes'
  BY <1>1, <1>2, <1>3 DEF ScanInv, ScanTypes
<1> QED BY <1>4, <1>5 DEF ScanInv

LEMMA ScansKept == ScanInv /\ [Next]_vars => ScanInv'
<1> SUFFICES ASSUME ScanInv, [Next]_vars PROVE ScanInv'
  OBVIOUS
<1>1. AlertsInv'
  BY AlertsKept DEF ScanInv
<1>2. CASE LedgerStep
  BY <1>2, LedgerStepKeepsScans DEF LedgerStep
<1>3. CASE UNCHANGED vars
  <2>1. UNCHANGED ledger /\ UNCHANGED dueAlerts
        /\ UNCHANGED <<alerts, pc, afterId, page, headsRead, chainsRead, unchecked, inserted>>
    BY <1>3 DEF vars, scan
  <2> QED BY <2>1, LedgerStepKeepsScans
<1> QED BY <1>1, <1>2, <1>3, StartKeepsScans, ReadPageKeepsScans, ReadEventsKeepsScans,
           CheckKeepsScans, CommitKeepsScans, EndKeepsScans, ResolveKeepsScans DEF Next, ScanStep

\* The scans, what they have read and the alerts keep their types.
THEOREM ScansAreTyped == Spec => []TypeOK
<1>1. ScanInv => TypeOK
  BY DEF ScanInv, ScanTypes
<1> QED BY <1>1, ScansStart, ScansKept, PTL DEF Spec

\* A scan that runs to its end, page after page, has raised an alert about
\* every batch whose rows were wrong when it began and stayed so, however
\* recording and other scans fall between its statements; v1 events do not
\* need the key for that.
THEOREM ScansFindWhatIsWrong == Spec => []ScanFindsTampering
<1>1. ScanInv => ScanFindsTampering
  <2> SUFFICES ASSUME ScanInv, NEW s \in Scanners, pc[s] = "done", NEW b \in dueAlerts[s]
               PROVE  open[b] = 1
    BY DEF ScanFindsTampering
  <2>1. b \in Batches /\ open[b] >= 1 /\ open[b] <= 1 /\ open[b] \in Nat
    BY DEF ScanInv, ScanTypes, ScanFacts, TypeOK, AlertsInv, AlertsCounted
  <2> QED BY <2>1
<1> QED BY <1>1, ScansStart, ScansKept, PTL DEF Spec

-----------------------------------------------------------------------------
(* What an alert means *)

\* Nothing is recorded while a scan is between the statement that reads heads
\* and the one that reads events.
Quiet == (\E s \in Scanners : pc[s] = "events") => written' = written

\* With that, heads and events a scan has read fit, and only batches changed
\* from outside fail their check.
QuietInv ==
  /\ \A s \in Scanners :
       /\ pc[s] = "events" => \A b \in page[s] : headsRead[s][b] = heads[b]
       /\ pc[s] = "check" => \A b \in unchecked[s] : tamperings[b] = 0 => ~Fails(s, b)
       /\ \A b \in inserted[s] : tamperings[b] > 0
  /\ AlertMeansTampering

LEMMA QuietStarts == Init => QuietInv
  BY DEF Init, QuietInv, AlertMeansTampering

\* A change from outside is never forgotten, and heads change with what is
\* written only.
LEMMA HeadsFollowWritten ==
  ASSUME LedgerInv, [LedgerNext]_ledger, NEW b \in Batches
  PROVE  /\ tamperings[b] \in Nat /\ tamperings'[b] \in Nat /\ tamperings[b] <= tamperings'[b]
         /\ written' = written => heads'[b] = heads[b]
<1>1. tamperings[b] \in Nat /\ tamperings'[b] \in Nat
  BY LedgerAssumption, LedgerKeeps DEF LedgerInv, LedgerTypeOK
<1>2. tamperings[b] <= tamperings'[b]
  BY <1>1, StepOnBatch
<1>3. ASSUME NEW e \in TraceEvents, written'[b] = Append(written[b], e) PROVE written' # written
  <2>1. written[b] \in Seq(TraceEvents)
    BY DEF LedgerInv, LedgerTypeOK
  <2>2. Len(Append(written[b], e)) # Len(written[b])
    BY <2>1
  <2> QED BY <1>3, <2>2
<1> QED BY <1>1, <1>2, <1>3, StepOnBatch

LEMMA QuietFrame ==
  ASSUME ScanInv, QuietInv, [LedgerNext]_ledger, Quiet, NEW s \in Scanners,
         /\ pc'[s] = pc[s] /\ page'[s] = page[s] /\ headsRead'[s] = headsRead[s]
         /\ chainsRead'[s] = chainsRead[s] /\ unchecked'[s] = unchecked[s]
         /\ inserted'[s] = inserted[s]
  PROVE  /\ pc'[s] = "events" => \A b \in page'[s] : headsRead'[s][b] = heads'[b]
         /\ pc'[s] = "check" => \A b \in unchecked'[s] : tamperings'[b] = 0 => ~Fails(s, b)'
         /\ \A b \in inserted'[s] : tamperings'[b] > 0
<1>1. page[s] \subseteq Batches /\ unchecked[s] \subseteq Batches /\ inserted[s] \subseteq Batches
  BY DEF ScanInv, ScanTypes, TypeOK
<1>2. \A b \in Batches : /\ tamperings'[b] = 0 => tamperings[b] = 0
                         /\ tamperings[b] > 0 => tamperings'[b] > 0
                         /\ written' = written => heads'[b] = heads[b]
  <2> TAKE b \in Batches
  <2>1. /\ tamperings[b] \in Nat /\ tamperings'[b] \in Nat /\ tamperings[b] <= tamperings'[b]
        /\ written' = written => heads'[b] = heads[b]
    BY HeadsFollowWritten DEF ScanInv, ScanTypes
  <2> QED BY <2>1
<1>3. \A b : Fails(s, b)' <=> Fails(s, b)
  BY DEF Fails
<1> QED BY <1>1, <1>2, <1>3 DEF QuietInv, Quiet

LEMMA QuietKept == KeyAtHand /\ ScanInv /\ QuietInv /\ [Next]_vars /\ [Quiet]_vars => QuietInv'
<1> SUFFICES ASSUME KeyAtHand, ScanInv, QuietInv, [Next]_vars, [Quiet]_vars PROVE QuietInv'
  OBVIOUS
<1>0. /\ page \in [Scanners -> SUBSET Batches] /\ unchecked \in [Scanners -> SUBSET Batches]
      /\ inserted \in [Scanners -> SUBSET Batches] /\ pc \in [Scanners -> ScanPcs]
      /\ DOMAIN headsRead = Scanners /\ DOMAIN chainsRead = Scanners
      /\ open \in [Batches -> Nat] /\ resolved \in [Batches -> Nat] /\ LedgerInv
  BY DEF ScanInv, ScanTypes, TypeOK
<1>1. [LedgerNext]_ledger
  BY DEF Next, ScanStep, LedgerStep, StartScan, ReadPage, ReadEvents, CheckBatch, CommitPage,
         EndScan, ScanInterrupted, ResolveAnomaly, vars
<1>2. Quiet
  BY DEF Quiet, vars, ledger
<1>3. ASSUME UNCHANGED alerts PROVE AlertMeansTampering'
  <2> SUFFICES ASSUME NEW b \in Batches, open[b] + resolved[b] > 0 PROVE tamperings'[b] > 0
    BY <1>3 DEF AlertMeansTampering, alerts
  <2>1. tamperings[b] > 0 /\ tamperings[b] \in Nat /\ tamperings'[b] \in Nat /\ tamperings[b] <= tamperings'[b]
    BY <1>0, <1>1, HeadsFollowWritten DEF QuietInv, AlertMeansTampering
  <2> QED BY <2>1
<1>4. CASE LedgerStep \/ UNCHANGED vars
  <2>1. UNCHANGED <<alerts, pc, afterId, page, headsRead, chainsRead, unchecked, inserted>>
    BY <1>4 DEF LedgerStep, vars, scan
  <2> QED BY <1>1, <1>2, <1>3, <2>1, QuietFrame DEF QuietInv
<1>5. ASSUME NEW s \in Scanners, StartScan(s) \/ ScanStep(s) \/ ScanInterrupted(s),
             \A o \in Scanners \ {s} :
               /\ pc'[o] = pc[o] /\ page'[o] = page[o] /\ headsRead'[o] = headsRead[o]
               /\ chainsRead'[o] = chainsRead[o] /\ unchecked'[o] = unchecked[o]
               /\ inserted'[o] = inserted[o],
             /\ pc'[s] = "events" => \A b \in page'[s] : headsRead'[s][b] = heads'[b]
             /\ pc'[s] = "check" => \A b \in unchecked'[s] : tamperings'[b] = 0 => ~Fails(s, b)'
             /\ \A b \in inserted'[s] : tamperings'[b] > 0,
             AlertMeansTampering'
      PROVE  QuietInv'
  BY <1>1, <1>2, <1>5, QuietFrame DEF QuietInv
<1>6. ASSUME NEW s \in Scanners, StartScan(s) PROVE QuietInv'
  <2>1. /\ pc' = [pc EXCEPT ![s] = "page"] /\ page' = page /\ headsRead' = headsRead
        /\ chainsRead' = chainsRead /\ unchecked' = unchecked /\ inserted' = inserted
        /\ UNCHANGED alerts /\ tamperings' = tamperings
    BY <1>6 DEF StartScan, ledger
  <2>2. /\ pc'[s] = "page" /\ inserted'[s] = inserted[s]
        /\ \A o \in Scanners \ {s} : pc'[o] = pc[o]
    BY <1>0, <2>1
  <2> QED BY <1>3, <1>5, <1>6, <2>1, <2>2 DEF QuietInv
<1>7. ASSUME NEW s \in Scanners, ReadPage(s) PROVE QuietInv'
  <2>1. /\ pc' = [pc EXCEPT ![s] = "events"] /\ page' = [page EXCEPT ![s] = PageAfter(afterId[s])]
        /\ headsRead' = [headsRead EXCEPT ![s] = [b \in PageAfter(afterId[s]) |-> heads[b]]]
        /\ chainsRead' = chainsRead /\ unchecked' = unchecked /\ inserted' = inserted
        /\ UNCHANGED alerts /\ tamperings' = tamperings /\ heads' = heads
    BY <1>7 DEF ReadPage, ledger
  <2>2. /\ pc'[s] = "events" /\ inserted'[s] = inserted[s] /\ page'[s] = PageAfter(afterId[s])
        /\ headsRead'[s] = [b \in PageAfter(afterId[s]) |-> heads[b]]
        /\ \A o \in Scanners \ {s} : pc'[o] = pc[o] /\ page'[o] = page[o] /\ headsRead'[o] = headsRead[o]
    BY <1>0, <2>1
  <2> QED BY <1>3, <1>5, <1>7, <2>1, <2>2 DEF QuietInv, ScanStep
<1>8. ASSUME NEW s \in Scanners, ReadEvents(s) PROVE QuietInv'
  <2>1. /\ pc[s] = "events" /\ pc' = [pc EXCEPT ![s] = "check"]
        /\ chainsRead' = [chainsRead EXCEPT ![s] = [b \in page[s] |-> rows[b]]]
        /\ unchecked' = [unchecked EXCEPT ![s] = page[s]]
        /\ page' = page /\ headsRead' = headsRead /\ inserted' = inserted
        /\ UNCHANGED alerts /\ tamperings' = tamperings
    BY <1>8 DEF ReadEvents, ledger
  <2>2. /\ pc'[s] = "check" /\ inserted'[s] = inserted[s] /\ unchecked'[s] = page[s]
        /\ \A b \in page[s] : chainsRead'[s][b] = rows[b]
        /\ \A o \in Scanners \ {s} : /\ pc'[o] = pc[o] /\ chainsRead'[o] = chainsRead[o]
                                     /\ unchecked'[o] = unchecked[o]
    BY <1>0, <2>1
  <2>3. ASSUME NEW b \in page[s], tamperings[b] = 0 PROVE ~Fails(s, b)'
    <3>1. b \in Batches /\ headsRead[s][b] = heads[b]
      BY <1>0, <2>1 DEF QuietInv
    <3>2. VerifyChain(rows[b], heads[b], HasLegacyKey)
      BY <1>0, <2>3, <3>1, WrittenVerifies DEF LedgerInv, LedgerTypeOK, Intact
    <3>3. chainsRead'[s][b] = rows[b] /\ headsRead'[s][b] = heads[b]
      BY <2>1, <2>2, <3>1
    <3> QED BY <3>2, <3>3 DEF Fails
  <2> QED BY <1>3, <1>5, <1>8, <2>1, <2>2, <2>3 DEF QuietInv, ScanStep
<1>9. ASSUME NEW s \in Scanners, CheckBatch(s) PROVE QuietInv'
  <2> DEFINE b == NextUnchecked(s)
  <2>1. /\ pc[s] = "check" /\ unchecked[s] # {} /\ unchecked' = [unchecked EXCEPT ![s] = @ \ {b}]
        /\ \/ inserted' = inserted
           \/ Fails(s, b) /\ inserted' = [inserted EXCEPT ![s] = IF HasOpenAlert(b) THEN @ ELSE @ \cup {b}]
        /\ pc' = pc /\ page' = page /\ headsRead' = headsRead /\ chainsRead' = chainsRead
        /\ UNCHANGED alerts /\ tamperings' = tamperings
    BY <1>9 DEF CheckBatch, ledger
  <2>2. b \in unchecked[s] /\ b \in Batches /\ tamperings[b] \in Nat
    BY <1>0, <1>1, <2>1, NextIsUnchecked, HeadsFollowWritten
  <2> HIDE DEF b
  <2>3. Fails(s, b) => tamperings[b] > 0
    BY <2>1, <2>2 DEF QuietInv
  <2>4. /\ unchecked'[s] = unchecked[s] \ {b}
        /\ inserted'[s] \subseteq IF Fails(s, b) THEN inserted[s] \cup {b} ELSE inserted[s]
        /\ \A o \in Scanners \ {s} : unchecked'[o] = unchecked[o] /\ inserted'[o] = inserted[o]
    BY <1>0, <2>1
  <2>5. \A d : Fails(s, d)' <=> Fails(s, d)
    BY <2>1 DEF Fails
  <2>6. \A d \in inserted'[s] : tamperings'[d] > 0
    BY <2>1, <2>3, <2>4 DEF QuietInv
  <2>7. \A d \in unchecked'[s] : tamperings'[d] = 0 => ~Fails(s, d)'
    BY <2>1, <2>4, <2>5 DEF QuietInv
  <2> QED BY <1>3, <1>5, <1>9, <2>1, <2>4, <2>6, <2>7 DEF ScanStep
<1>10. ASSUME NEW s \in Scanners, CommitPage(s) PROVE QuietInv'
  <2>1. /\ pc'[s] \in {"done", "page"} /\ inserted'[s] = {} /\ tamperings' = tamperings
        /\ open' = [b \in Batches |-> IF b \in inserted[s] THEN open[b] + 1 ELSE open[b]]
        /\ resolved' = resolved /\ unchecked' = unchecked
        /\ \A o \in Scanners \ {s} :
             /\ pc'[o] = pc[o] /\ page'[o] = page[o] /\ headsRead'[o] = headsRead[o]
             /\ chainsRead'[o] = chainsRead[o] /\ inserted'[o] = inserted[o]
    BY <1>0, <1>10 DEF CommitPage, ledger
  <2>2. AlertMeansTampering'
    <3> SUFFICES ASSUME NEW b \in Batches, open'[b] + resolved[b] > 0 PROVE tamperings[b] > 0
      BY <2>1 DEF AlertMeansTampering
    <3>1. CASE b \in inserted[s]
      BY <3>1 DEF QuietInv
    <3>2. CASE b \notin inserted[s]
      BY <2>1, <3>2 DEF QuietInv, AlertMeansTampering
    <3> QED BY <3>1, <3>2
  <2> QED BY <1>5, <1>10, <2>1, <2>2 DEF ScanStep
<1>11. ASSUME NEW s \in Scanners, EndScan(s) \/ ScanInterrupted(s) PROVE QuietInv'
  <2>1. /\ pc'[s] = "ready" /\ (inserted'[s] = {} \/ inserted'[s] = inserted[s])
        /\ UNCHANGED alerts /\ tamperings' = tamperings
        /\ \A o \in Scanners \ {s} :
             /\ pc'[o] = pc[o] /\ page'[o] = page[o] /\ headsRead'[o] = headsRead[o]
             /\ chainsRead'[o] = chainsRead[o] /\ unchecked'[o] = unchecked[o]
             /\ inserted'[o] = inserted[o]
    BY <1>0, <1>11 DEF EndScan, ScanInterrupted, ledger
  <2> QED BY <1>3, <1>5, <1>11, <2>1 DEF QuietInv, ScanStep
<1>12. ASSUME NEW b \in Batches, ResolveAnomaly(b) PROVE QuietInv'
  <2>1. /\ open[b] > 0 /\ tamperings' = tamperings
        /\ open' = [open EXCEPT ![b] = @ - 1] /\ resolved' = [resolved EXCEPT ![b] = @ + 1]
        /\ pc' = pc /\ page' = page /\ headsRead' = headsRead /\ chainsRead' = chainsRead
        /\ unchecked' = unchecked /\ inserted' = inserted
    BY <1>12 DEF ResolveAnomaly, HasOpenAlert, ledger
  <2>2. \A c \in Batches : open'[c] + resolved'[c] = open[c] + resolved[c]
    BY <1>0, <2>1
  <2>3. AlertMeansTampering'
    BY <2>1, <2>2 DEF QuietInv, AlertMeansTampering
  <2> QED BY <1>1, <1>2, <2>1, <2>3, QuietFrame DEF QuietInv
<1> QED BY <1>4, <1>6, <1>7, <1>8, <1>9, <1>10, <1>11, <1>12 DEF Next, ScanStep

\* The race between a page's two statements is the only way to an alert about
\* a batch nobody touched: without an event committed just there, an alert
\* means that rows were changed from outside.
THEOREM AlertsMeanTampering ==
  KeyAtHand /\ Spec /\ [][Quiet]_vars => []AlertMeansTampering
<1> SUFFICES ASSUME KeyAtHand PROVE Spec /\ [][Quiet]_vars => []AlertMeansTampering
  OBVIOUS
<1>1. QuietInv => AlertMeansTampering
  BY DEF QuietInv
<1>2. ScanInv /\ QuietInv /\ [Next]_vars /\ [Quiet]_vars => QuietInv'
  BY QuietKept
<1> QED BY <1>1, <1>2, QuietStarts, ScansStart, ScansKept, PTL DEF Spec

=============================================================================
