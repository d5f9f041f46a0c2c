----------------------------- MODULE TraceRead ------------------------------
(***************************************************************************)
(* traceService: what a trace request (trace, publicTrace, verifyPublic)   *)
(* says about a batch while it is being recorded to.  Each runs in one     *)
(* READ COMMITTED transaction: the batch row, and with it the recorded     *)
(* head, comes from one statement, the events from a later one.            *)
(***************************************************************************)
EXTENDS StoredLedger

CONSTANT Readers   \* trace requests in progress

VARIABLES
  pc,        \* where each request stands
  batch,     \* the batch it is about
  headRead,  \* the head its first statement returned
  response   \* the events it returns, and the problem verification found

reads == <<pc, batch, headRead, response>>
vars  == <<ledger, reads>>

NoResponse == [events |-> << >>, problem |-> "NONE"]

Problems == {"NONE", "BROKEN_LINK", "TAMPERED_EVENT", "UNVERIFIABLE_LEGACY", "HEAD_MISMATCH"}

TypeOK ==
  /\ LedgerTypeOK
  /\ pc \in [Readers -> {"ready", "events", "answered"}]
  /\ batch \in [Readers -> Batches]
  /\ headRead \in [Readers -> ChainHeads]
  /\ \A q \in Readers : /\ response[q].events \in Seq(TraceEvents)
                        /\ response[q].problem \in Problems

Init ==
  /\ LedgerInit
  /\ pc = [q \in Readers |-> "ready"]
  /\ batch \in [Readers -> Batches]
  /\ headRead = [q \in Readers |-> GenesisHead]
  /\ response = [q \in Readers |-> NoResponse]

\* findById, in the tenant's scope.
ReadBatch(q) ==
  /\ pc[q] = "ready"
  /\ headRead' = [headRead EXCEPT ![q] = heads[batch[q]]]
  /\ pc' = [pc EXCEPT ![q] = "events"]
  /\ UNCHANGED <<ledger, batch, response>>

\* findByBatchId and verifyChainDetailed; the response.
ReadAndVerify(q) ==
  /\ pc[q] = "events"
  /\ response' = [response EXCEPT ![q] =
       [events  |-> rows[batch[q]],
        problem |-> ChainProblem(rows[batch[q]], headRead[q], HasLegacyKey)]]
  /\ pc' = [pc EXCEPT ![q] = "answered"]
  /\ UNCHANGED <<ledger, batch, headRead>>

Next ==
  \/ LedgerNext /\ UNCHANGED reads
  \/ \E q \in Readers : ReadBatch(q) \/ ReadAndVerify(q)

Spec == Init /\ [][Next]_vars

-----------------------------------------------------------------------------
Answered(q) == pc[q] = "answered"

IsPrefixOf(s, t) == Len(s) <= Len(t) /\ s = SubSeq(t, 1, Len(s))

\* A response that says isValid shows the events as the service wrote them,
\* all of those up to the head it read, however recording and changes from
\* outside fall between its two statements.
ValidMeansWritten ==
  \A q \in Readers : Answered(q) /\ response[q].problem = "NONE" =>
    /\ IsPrefixOf(response[q].events, written[batch[q]])
    /\ Len(response[q].events) = headRead[q].eventCount

\* The only problem a batch nobody has touched can be accused of is
\* HEAD_MISMATCH, and then because more events were read than the head counts;
\* its events are never said to be changed or out of line.
UntouchedOnlyMismatches ==
  \A q \in Readers :
    Answered(q) /\ tamperings[batch[q]] = 0 /\ response[q].problem # "NONE" =>
      /\ response[q].problem = "HEAD_MISMATCH"
      /\ Len(response[q].events) > headRead[q].eventCount

\* A request that reads in the middle of recordings is never told that rows are
\* sound when they are not, and of sound rows at worst that the head disagrees.
VerdictsAreRight == ValidMeansWritten /\ UntouchedOnlyMismatches
=============================================================================
