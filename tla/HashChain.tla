----------------------------- MODULE HashChain ------------------------------
(***************************************************************************)
(* The per-batch hash chain and its verifier                               *)
(* (backend/src/ledger/hashChain.ts).                                      *)
(*                                                                         *)
(* SHA-256 is idealised as collision-free: a hash is the sequence of the   *)
(* preimages from the genesis on, so two hashes are equal exactly when the *)
(* hashed fields and prev_hash are.  The fields the code hashes but no     *)
(* property tells apart (timestamp, location, notes, data) are stood for   *)
(* by stage and actorId: an edit of any hashed field is an edit of those.  *)
(***************************************************************************)
EXTENDS Domain, Sequences

CONSTANTS Batches,   \* batch ids
          Actors,    \* actor ids
          Salts,     \* values newEventSalt can return
          NoSalt     \* the salt column is NULL (legacy v1 rows)

ASSUME SaltAssumption == NoSalt \notin Salts

CURRENT_HASH_VERSION == 2

Preimages == [v: 1..2, salt: Salts \cup {NoSalt}, batchId: Batches,
              sequenceNumber: Nat, stage: Stages, actorId: Actors]
Hashes    == Seq(Preimages)

GENESIS_HASH == << >>

TraceEvents == [batchId: Batches, sequenceNumber: Nat, prevHash: Hashes,
                hash: Hashes, hashVersion: 1..2, salt: Salts \cup {NoSalt},
                stage: Stages, actorId: Actors]

ChainHeads == [hash: Hashes, eventCount: Nat]

-----------------------------------------------------------------------------
\* Mutant of Preimage: the stage is left out of what is hashed.
PreimageWithoutStage(e) ==
  [v |-> e.hashVersion, salt |-> IF e.hashVersion = 2 THEN e.salt ELSE NoSalt,
   batchId |-> e.batchId, sequenceNumber |-> e.sequenceNumber,
   stage |-> HARVEST, actorId |-> e.actorId]

(* eventPreimageV2 and legacyPayloadV1: the version is part of what is     *)
(* hashed, and a v1 payload carries no salt.                               *)
Preimage(e) ==
  [v              |-> e.hashVersion,
   salt           |-> IF e.hashVersion = 2 THEN e.salt ELSE NoSalt,
   batchId        |-> e.batchId,
   sequenceNumber |-> e.sequenceNumber,
   stage          |-> e.stage,
   actorId        |-> e.actorId]

\* computeEventHashV2 / computeEventHashV1.
ComputeHash(e) == Append(e.prevHash, Preimage(e))

-----------------------------------------------------------------------------
(* verifyChainDetailed.  `chain' is the rows in sequence_number order,     *)
(* hasLegacyKey says whether options.legacyKey is set.                     *)

ExpectedPrevHash(chain, i) ==
  IF i = 1 THEN GENESIS_HASH ELSE chain[i - 1].hash

LinksToPrevious(chain, i) ==
  /\ chain[i].prevHash = ExpectedPrevHash(chain, i)
  /\ chain[i].sequenceNumber = i - 1

\* Mutant of Recomputable: every version is asked for its salt.
RecomputableWithSalt(e, hasLegacyKey) == e.salt # NoSalt

\* recomputedHash is not null.
Recomputable(e, hasLegacyKey) ==
  IF e.hashVersion = 2 THEN e.salt # NoSalt ELSE hasLegacyKey

MatchesStoredHash(e, hasLegacyKey) ==
  /\ Recomputable(e, hasLegacyKey)
  /\ ComputeHash(e) = e.hash

Broken(chain, hasLegacyKey) ==
  {i \in 1..Len(chain) : \/ ~LinksToPrevious(chain, i)
                         \/ ~MatchesStoredHash(chain[i], hasLegacyKey)}

\* expectedPrevHash once the loop is over.
EndHash(chain) == ExpectedPrevHash(chain, Len(chain) + 1)

\* Mutants of HeadMatches: the head is not compared; only its count is.
HeadIgnored(chain, head)      == TRUE
HeadCountMatches(chain, head) == head.eventCount = Len(chain)

HeadMatches(chain, head) ==
  /\ head.eventCount = Len(chain)
  /\ head.hash = EndHash(chain)

EventProblem(chain, i, hasLegacyKey) ==
  IF ~LinksToPrevious(chain, i)
  THEN "BROKEN_LINK"
  ELSE IF chain[i].hashVersion = 1 /\ ~Recomputable(chain[i], hasLegacyKey)
       THEN "UNVERIFIABLE_LEGACY"
       ELSE "TAMPERED_EVENT"

\* The field `problem' of the result; "NONE" for undefined.
ChainProblem(chain, head, hasLegacyKey) ==
  IF Broken(chain, hasLegacyKey) # {}
  THEN LET first == CHOOSE i \in Broken(chain, hasLegacyKey) :
                      \A j \in Broken(chain, hasLegacyKey) : i <= j
       IN EventProblem(chain, first, hasLegacyKey)
  ELSE IF ~HeadMatches(chain, head) THEN "HEAD_MISMATCH" ELSE "NONE"

VerifyChain(chain, head, hasLegacyKey) ==
  ChainProblem(chain, head, hasLegacyKey) = "NONE"
=============================================================================
