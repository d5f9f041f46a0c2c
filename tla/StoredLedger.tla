---------------------------- MODULE StoredLedger ----------------------------
(***************************************************************************)
(* The committed ledger as verification finds it: the rows of trace_events *)
(* and the head each batch row records, while events are recorded and      *)
(* while rows are changed behind the application's back (a restore, a      *)
(* superuser with triggers off: docs/DATABASE.md 3.4).  recordEvent is the *)
(* one step that its commit is; SupplyChain has its inside.                *)
(***************************************************************************)
EXTENDS HashChain

CONSTANTS HasLegacyKey,   \* LEDGER_SIGNING_KEY is still configured
          InitEvents,     \* events of each chain at the start
          LegacyEvents,   \* how many of those were written before v2
          DtoStages,      \* stages recorded, and stages rows are changed to
          MaxEvents,      \* bound on the events of a batch
          MaxTamperings   \* bound on changes from outside, per batch

ASSUME LedgerAssumption ==
  /\ HasLegacyKey \in BOOLEAN
  /\ InitEvents \in Nat /\ MaxEvents \in Nat /\ MaxTamperings \in Nat
  /\ LegacyEvents \in 0..InitEvents
  /\ DtoStages \subseteq Stages

VARIABLES
  written,     \* ghost: the events as the service wrote them
  rows,        \* table trace_events, in sequence_number order
  heads,       \* batches.head_hash and batches.event_count
  tamperings   \* changes from outside each batch has had

ledger == <<written, rows, heads, tamperings>>

LedgerTypeOK ==
  /\ written \in [Batches -> Seq(TraceEvents)]
  /\ rows \in [Batches -> Seq(TraceEvents)]
  /\ heads \in [Batches -> ChainHeads]
  /\ tamperings \in [Batches -> 0..MaxTamperings]

-----------------------------------------------------------------------------
\* The event recordEvent appends on a head; v1 events carry no salt.
EventOn(b, head, version, salt, stage, a) ==
  LET unhashed == [batchId        |-> b,
                   sequenceNumber |-> head.eventCount,
                   prevHash       |-> head.hash,
                   hash           |-> GENESIS_HASH,
                   hashVersion    |-> version,
                   salt           |-> IF version = 2 THEN salt ELSE NoSalt,
                   stage          |-> stage,
                   actorId        |-> a]
  IN [unhashed EXCEPT !.hash = ComputeHash(unhashed)]

\* Mutant of HeadAfter: the count moves the wrong way.
HeadAfterMinus(e) == [hash |-> e.hash, eventCount |-> e.sequenceNumber - 1]

HeadAfter(e) == [hash |-> e.hash, eventCount |-> e.sequenceNumber + 1]

GenesisHead == [hash |-> GENESIS_HASH, eventCount |-> 0]

\* A chain the service has written: n events, the first LegacyEvents v1.
InitialChain(b, salt, stage, a) ==
  LET chain[i \in 0..InitEvents] ==
        IF i = 0 THEN << >>
        ELSE LET head == IF i = 1 THEN GenesisHead ELSE HeadAfter(chain[i - 1][i - 1])
             IN Append(chain[i - 1],
                       EventOn(b, head, IF i <= LegacyEvents THEN 1 ELSE 2, salt, stage, a))
  IN chain[InitEvents]

LedgerInit ==
  /\ \E salt \in Salts, stage \in DtoStages, a \in Actors :
       written = [b \in Batches |-> InitialChain(b, salt, stage, a)]
  /\ rows = written
  /\ heads = [b \in Batches |-> IF written[b] = << >> THEN GenesisHead
                                ELSE HeadAfter(written[b][InitEvents])]
  /\ tamperings = [b \in Batches |-> 0]

\* recordEvent commits.  The new row's number is the head's count, so it is
\* the last in order whatever has become of the rows before it.
Record(b, salt, stage, a) ==
  LET e == EventOn(b, heads[b], CURRENT_HASH_VERSION, salt, stage, a)
  IN /\ heads[b].eventCount < MaxEvents
     /\ written' = [written EXCEPT ![b] = Append(@, e)]
     /\ rows' = [rows EXCEPT ![b] = Append(@, e)]
     /\ heads' = [heads EXCEPT ![b] = HeadAfter(e)]
     /\ UNCHANGED tamperings

-----------------------------------------------------------------------------
(* Changes from outside.  They leave the recorded head alone: rewriting    *)
(* rows and head together is the limit docs/DATABASE.md states.            *)

Tamper(b, chain) ==
  /\ tamperings[b] < MaxTamperings
  /\ tamperings' = [tamperings EXCEPT ![b] = @ + 1]
  /\ rows' = [rows EXCEPT ![b] = chain]
  /\ UNCHANGED <<written, heads>>

\* A hashed field of a row is changed.
EditRow(b, i, stage) == Tamper(b, [rows[b] EXCEPT ![i].stage = stage])

\* A row is deleted, the last one or another.
DeleteRow(b, i) ==
  Tamper(b, SubSeq(rows[b], 1, i - 1) \o SubSeq(rows[b], i + 1, Len(rows[b])))

\* A row is changed, and it and all after it are hashed again.
RewriteFrom(b, i, stage) ==
  LET edited == [rows[b] EXCEPT ![i].stage = stage]
      rehashed[k \in 1..Len(rows[b])] ==
        IF k < i THEN rows[b][k]
        ELSE LET linked == [edited[k] EXCEPT !.prevHash =
                              IF k = 1 THEN GENESIS_HASH ELSE rehashed[k - 1].hash]
             IN [linked EXCEPT !.hash = ComputeHash(linked)]
  IN Tamper(b, rehashed)

LedgerNext ==
  \E b \in Batches :
    \/ \E salt \in Salts, stage \in DtoStages, a \in Actors : Record(b, salt, stage, a)
    \/ \E i \in 1..Len(rows[b]), stage \in DtoStages :
         \/ stage # rows[b][i].stage /\ EditRow(b, i, stage)
         \/ stage # rows[b][i].stage /\ RewriteFrom(b, i, stage)
    \/ \E i \in 1..Len(rows[b]) : DeleteRow(b, i)

-----------------------------------------------------------------------------
Intact(b) == rows[b] = written[b]

\* Tamper evidence: the verifier accepts the stored rows of a batch against
\* its recorded head exactly when they are the rows the service wrote, for
\* chains of v2 events and chains that begin with v1 events alike, and also
\* when recording went on after the change.
TamperingShows ==
  \A b \in Batches : VerifyChain(rows[b], heads[b], HasLegacyKey) <=> Intact(b)

\* A missing tail is what the head comparison is for: rows that are a proper
\* beginning of what was written are reported as HEAD_MISMATCH and as nothing
\* else.
TruncationIsHeadMismatch ==
  \A b \in Batches :
    LET n == Len(rows[b])
    IN n < Len(written[b]) /\ rows[b] = SubSeq(written[b], 1, n)
       => ChainProblem(rows[b], heads[b], HasLegacyKey) = "HEAD_MISMATCH"

\* Whatever is done to the stored rows is found, and a cut tail is called so.
DamageShows == TamperingShows /\ TruncationIsHeadMismatch
=============================================================================
