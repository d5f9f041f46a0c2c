--------------------------- MODULE SupplyChainInv ---------------------------
(***************************************************************************)
(* The inductive invariant behind the safety properties of SupplyChain:    *)
(* what each open transaction may rely on, given that it holds the row     *)
(* lock of its batch, and what the committed rows of a batch satisfy.      *)
(***************************************************************************)
EXTENDS SupplyChain

\* Where a request's transaction holds the row lock of its batch.
Holds(r) == pc[r] \in RecordPcs \cup {"recall_commit"}

\* From recordEvent's hashing on, the request has built its event.
HasEvent == {"record_insert", "record_detect", "record_advance", "record_commit"}

Locked(r) == Holds(r) => lock[dto[r].batch] = r

\* What recordEvent read and checked still is what is committed.
ReadIsCurrent(r) ==
  pc[r] \in RecordPcs =>
    /\ seen[r] = batches[dto[r].batch]
    /\ seen[r].createdBy # NoActor
    /\ ~seen[r].isRecalled
    /\ HasCustody(dto[r], seen[r])

\* The event is the one recordEvent builds from that row.
DraftIsNext(r) ==
  pc[r] \in HasEvent =>
    /\ \E salt \in Salts : draft[r] = NewEvent(r, salt)
    /\ nextAssignee[r] = ResolvedAssignee(r)

\* The row as the transaction itself sees it.
Appended(r) == [seen[r] EXCEPT !.headHash = draft[r].hash, !.eventCount = @ + 1]

OwnImage(r) ==
  /\ pc[r] \in {"record_handoff", "record_insert"} => mine[r] = seen[r]
  /\ pc[r] \in {"record_detect", "record_advance"} => mine[r] = Appended(r)
  /\ pc[r] = "record_commit" =>
       mine[r] = IF IsAdvancing(r)
                 THEN [Appended(r) EXCEPT !.currentStage = dto[r].stage,
                                          !.assignedTo = nextAssignee[r]]
                 ELSE Appended(r)
  /\ pc[r] = "recall_commit" =>
       /\ Exists(dto[r].batch)
       /\ ~batches[dto[r].batch].isRecalled
       /\ mine[r] = [batches[dto[r].batch] EXCEPT !.isRecalled = TRUE]

\* The anomalies the transaction stored are those of its event.
FoundIsNew(r) ==
  pc[r] \in {"record_advance", "record_commit"} =>
    found[r] = DetectNewAnomalies(AllEvents(r))

RequestInv(r) ==
  Locked(r) /\ ReadIsCurrent(r) /\ DraftIsNext(r) /\ OwnImage(r) /\ FoundIsNew(r)

\* The rows of a batch: none before it is created, then a chain without a
\* broken link, with its head and length in the batch row.
Linked(b) ==
  /\ Len(events[b]) = batches[b].eventCount
  /\ EndHash(events[b]) = batches[b].headHash
  /\ \A i \in 1..Len(events[b]) : /\ LinksToPrevious(events[b], i)
                                  /\ MatchesStoredHash(events[b][i], FALSE)

BatchInv(b) ==
  /\ ~Exists(b) => batches[b] = NoRow /\ events[b] = << >>
  /\ Linked(b)

\* Every open transaction works on the committed row of a batch nobody else
\* is writing, and every committed chain is linked: the reason why appends
\* serialise (findByIdForUpdate, then the checks, then the trigger).
TransactionsIsolated ==
  /\ \A r \in Requests : RequestInv(r)
  /\ \A b \in Batches : BatchInv(b)
=============================================================================
