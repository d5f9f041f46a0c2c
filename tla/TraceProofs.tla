---------------------------- MODULE TraceProofs -----------------------------
(***************************************************************************)
(* What a trace request answers beside recording and changes from outside, *)
(* proved from what verification finds in a chain (StoredLedgerProofs).    *)
(***************************************************************************)
EXTENDS TraceRead, StoredLedgerProofs

\* What was written only grows, one event at a time, and changes from outside
\* are not undone.
LEMMA WrittenGrows ==
  ASSUME LedgerInv, [LedgerNext]_ledger, NEW b \in Batches
  PROVE  /\ written'[b] = written[b] \/ \E e \in TraceEvents : written'[b] = Append(written[b], e)
         /\ tamperings'[b] = 0 => tamperings[b] = 0
<1>1. tamperings[b] \in Nat /\ tamperings[b] + 1 # 0
  BY LedgerAssumption DEF LedgerInv, LedgerTypeOK
<1> QED BY <1>1, StepOnBatch

\* The head a request read ends an earlier state of what was written.
HeadIsEarlier(q) ==
  LET w == written[batch[q]]
      n == headRead[q].eventCount
  IN n <= Len(w) /\ AsWritten(SubSeq(w, 1, n), headRead[q])

TraceInv ==
  /\ LedgerInv
  /\ TypeOK /\ DOMAIN response = Readers
  /\ \A q \in Readers : pc[q] # "ready" => HeadIsEarlier(q)
  /\ ValidMeansWritten
  /\ KeyAtHand => UntouchedOnlyMismatches

LEMMA TraceInvStarts == Init => TraceInv
<1> SUFFICES ASSUME Init PROVE TraceInv
  OBVIOUS
<1>1. LedgerInv
  BY LedgerStarts DEF Init
<1>2. GenesisHead \in ChainHeads
  BY DEF GenesisHead, ChainHeads, GENESIS_HASH, Hashes
<1>3. NoResponse.events \in Seq(TraceEvents) /\ NoResponse.problem \in Problems
  BY DEF NoResponse, Problems
<1>4. TypeOK /\ DOMAIN response = Readers
  BY <1>1, <1>2, <1>3 DEF Init, TypeOK, LedgerInv
<1> QED BY <1>1, <1>4 DEF Init, TraceInv, ValidMeansWritten, UntouchedOnlyMismatches, Answered

\* A beginning of a chain is a beginning of what the chain grows to.
LEMMA PrefixOfGrown ==
  ASSUME NEW S, NEW w \in Seq(S), NEW e \in S, NEW n \in Nat, n <= Len(w)
  PROVE  SubSeq(Append(w, e), 1, n) = SubSeq(w, 1, n) /\ Len(w) <= Len(Append(w, e))
  OBVIOUS

LEMMA LedgerStepKeepsTraces ==
  ASSUME TraceInv, [LedgerNext]_ledger, UNCHANGED reads
  PROVE  TraceInv'
<1>1. LedgerInv'
  BY LedgerKeeps DEF TraceInv
<1>2. pc' = pc /\ batch' = batch /\ headRead' = headRead /\ response' = response
  BY DEF reads
<1>3. TypeOK' /\ DOMAIN response' = Readers
  BY <1>1, <1>2 DEF TraceInv, TypeOK, LedgerInv
<1>4. ASSUME NEW q \in Readers
      PROVE  /\ batch[q] \in Batches /\ written[batch[q]] \in Seq(TraceEvents)
             /\ headRead[q].eventCount \in Nat /\ Len(response[q].events) \in Nat
             /\ \A n \in Nat : n <= Len(written[batch[q]]) =>
                  /\ n <= Len(written'[batch[q]])
                  /\ SubSeq(written'[batch[q]], 1, n) = SubSeq(written[batch[q]], 1, n)
             /\ tamperings'[batch[q]] = 0 => tamperings[batch[q]] = 0
  <2>1. /\ batch[q] \in Batches /\ written[batch[q]] \in Seq(TraceEvents) /\ headRead[q] \in ChainHeads
        /\ response[q].events \in Seq(TraceEvents)
    BY DEF TraceInv, TypeOK, LedgerTypeOK
  <2>2. headRead[q].eventCount \in Nat /\ Len(response[q].events) \in Nat
    BY <2>1 DEF ChainHeads
  <2>3. /\ \/ written'[batch[q]] = written[batch[q]]
           \/ \E e \in TraceEvents : written'[batch[q]] = Append(written[batch[q]], e)
        /\ tamperings'[batch[q]] = 0 => tamperings[batch[q]] = 0
    BY <2>1, WrittenGrows DEF TraceInv
  <2>4. ASSUME NEW n \in Nat, n <= Len(written[batch[q]])
        PROVE  /\ n <= Len(written'[batch[q]])
               /\ SubSeq(written'[batch[q]], 1, n) = SubSeq(written[batch[q]], 1, n)
    <3>1. CASE written'[batch[q]] = written[batch[q]]
      BY <2>4, <3>1
    <3>2. CASE \E e \in TraceEvents : written'[batch[q]] = Append(written[batch[q]], e)
      <4>1. PICK e \in TraceEvents : written'[batch[q]] = Append(written[batch[q]], e)
        BY <3>2
      <4>2. SubSeq(Append(written[batch[q]], e), 1, n) = SubSeq(written[batch[q]], 1, n)
        BY <2>1, <2>4, PrefixOfGrown
      <4>3. n <= Len(Append(written[batch[q]], e))
        BY <2>1, <2>4
      <4> QED BY <4>1, <4>2, <4>3
    <3> QED BY <2>3, <3>1, <3>2
  <2> QED BY <2>1, <2>2, <2>3, <2>4
<1>5. \A q \in Readers : pc'[q] # "ready" => HeadIsEarlier(q)'
  BY <1>2, <1>4 DEF TraceInv, HeadIsEarlier
<1>6. ValidMeansWritten'
  BY <1>2, <1>4 DEF TraceInv, ValidMeansWritten, Answered, IsPrefixOf
<1>7. KeyAtHand => UntouchedOnlyMismatches'
  BY <1>2, <1>4 DEF TraceInv, UntouchedOnlyMismatches, Answered
<1> QED BY <1>1, <1>3, <1>5, <1>6, <1>7 DEF TraceInv, KeyAtHand

LEMMA ReadBatchKeepsTraces ==
  ASSUME TraceInv, NEW q \in Readers, ReadBatch(q)
  PROVE  TraceInv'
<1>1. /\ pc[q] = "ready" /\ headRead' = [headRead EXCEPT ![q] = heads[batch[q]]]
      /\ pc' = [pc EXCEPT ![q] = "events"] /\ batch' = batch /\ response' = response
      /\ written' = written /\ rows' = rows /\ heads' = heads /\ tamperings' = tamperings
  BY DEF ReadBatch, ledger
<1>2. LedgerInv'
  BY LedgerKeeps DEF ReadBatch, TraceInv
<1>3. /\ batch[q] \in Batches /\ written[batch[q]] \in Seq(TraceEvents) /\ heads[batch[q]] \in ChainHeads
      /\ AsWritten(written[batch[q]], heads[batch[q]])
  BY DEF TraceInv, TypeOK, LedgerTypeOK, LedgerInv
<1>4. TypeOK' /\ DOMAIN response' = Readers
  BY <1>1, <1>2, <1>3 DEF TraceInv, TypeOK, LedgerInv
<1>5. ASSUME NEW o \in Readers, pc'[o] # "ready" PROVE HeadIsEarlier(o)'
  <2>1. CASE o = q
    <3>1. headRead'[q] = heads[batch[q]]
      BY <1>1 DEF TraceInv, TypeOK
    <3>2. heads[batch[q]].eventCount = Len(written[batch[q]])
      BY <1>3 DEF AsWritten, HeadMatches
    <3>3. SubSeq(written[batch[q]], 1, Len(written[batch[q]])) = written[batch[q]]
      BY <1>3
    <3>4. Len(written[batch[q]]) <= Len(written[batch[q]])
      BY <1>3
    <3> QED BY <1>1, <1>3, <2>1, <3>1, <3>2, <3>3, <3>4 DEF HeadIsEarlier
  <2>2. CASE o # q
    <3>1. pc'[o] = pc[o] /\ headRead'[o] = headRead[o]
      BY <1>1, <2>2 DEF TraceInv, TypeOK
    <3> QED BY <1>1, <1>5, <3>1 DEF TraceInv, HeadIsEarlier
  <2> QED BY <2>1, <2>2
<1>6. \A o \in Readers : pc'[o] = "answered" => o # q /\ pc[o] = "answered" /\ headRead'[o] = headRead[o]
  BY <1>1 DEF TraceInv, TypeOK
<1>7. ValidMeansWritten'
  BY <1>1, <1>6 DEF TraceInv, ValidMeansWritten, Answered
<1>8. KeyAtHand => UntouchedOnlyMismatches'
  BY <1>1, <1>6 DEF TraceInv, UntouchedOnlyMismatches, Answered
<1> QED BY <1>2, <1>4, <1>5, <1>7, <1>8 DEF TraceInv, KeyAtHand

\* What the second statement finds is judged by a head that may be older.
LEMMA VerdictOnOlderHead ==
  ASSUME TraceInv, NEW q \in Readers, HeadIsEarlier(q)
  PROVE  LET b == batch[q]
             head == headRead[q]
             problem == ChainProblem(rows[b], head, HasLegacyKey)
         IN /\ problem = "NONE" => IsPrefixOf(rows[b], written[b]) /\ Len(rows[b]) = head.eventCount
            /\ KeyAtHand /\ tamperings[b] = 0 /\ problem # "NONE" =>
                 problem = "HEAD_MISMATCH" /\ Len(rows[b]) > head.eventCount
<1> DEFINE b == batch[q]
           w == written[b]
           n == headRead[q].eventCount
           p == SubSeq(w, 1, n)
<1>1. /\ b \in Batches /\ w \in Seq(TraceEvents) /\ rows[b] \in Seq(TraceEvents)
      /\ headRead[q] \in ChainHeads /\ AsWritten(w, heads[b])
      /\ \A i \in 1..Len(rows[b]) : SaltFits(rows[b][i])
      /\ tamperings[b] = 0 => rows[b] = w
  BY DEF TraceInv, TypeOK, LedgerTypeOK, LedgerInv, Intact
<1>2. n \in Nat /\ n <= Len(w) /\ AsWritten(p, headRead[q])
  BY <1>1 DEF HeadIsEarlier, ChainHeads
<1> HIDE DEF w, b
<1>3. p \in Seq(TraceEvents) /\ Len(p) = n
  BY <1>1, <1>2
<1>4. ASSUME ChainProblem(rows[b], headRead[q], HasLegacyKey) = "NONE"
      PROVE  IsPrefixOf(rows[b], w) /\ Len(rows[b]) = n
  <2>1. VerifyChain(rows[b], headRead[q], HasLegacyKey)
    BY <1>4 DEF VerifyChain
  <2> HIDE DEF p
  <2>2. rows[b] = p
    BY <1>1, <1>2, <1>3, <2>1, VerifiedIsWritten
  <2> QED BY <1>2, <1>3, <2>2 DEF IsPrefixOf, p
<1>5. ASSUME KeyAtHand, tamperings[b] = 0, ChainProblem(rows[b], headRead[q], HasLegacyKey) # "NONE"
      PROVE  ChainProblem(rows[b], headRead[q], HasLegacyKey) = "HEAD_MISMATCH" /\ Len(rows[b]) > n
  <2>1. rows[b] = w
    BY <1>1, <1>5
  <2>2. Broken(rows[b], HasLegacyKey) = {}
    BY <1>1, <1>5, <2>1, WrittenIsUnbroken
  <2>3. ~HeadMatches(rows[b], headRead[q])
    BY <1>5, <2>2 DEF ChainProblem
  <2>4. ASSUME Len(w) = n PROVE FALSE
    <3>1. p = w
      BY <1>1, <2>4
    <3> QED BY <1>2, <2>1, <2>3, <3>1 DEF AsWritten
  <2> QED BY <1>1, <1>2, <2>1, <2>2, <2>3, <2>4 DEF ChainProblem
<1> QED BY <1>4, <1>5 DEF b, w

LEMMA ReadAndVerifyKeepsTraces ==
  ASSUME TraceInv, NEW q \in Readers, ReadAndVerify(q)
  PROVE  TraceInv'
<1> DEFINE found == [events  |-> rows[batch[q]],
                     problem |-> ChainProblem(rows[batch[q]], headRead[q], HasLegacyKey)]
<1>1. /\ pc[q] = "events" /\ response' = [response EXCEPT ![q] = found]
      /\ pc' = [pc EXCEPT ![q] = "answered"] /\ batch' = batch /\ headRead' = headRead
      /\ written' = written /\ rows' = rows /\ heads' = heads /\ tamperings' = tamperings
  BY DEF ReadAndVerify, ledger
<1>2. LedgerInv'
  BY LedgerKeeps DEF ReadAndVerify, TraceInv
<1>3. found.events \in Seq(TraceEvents) /\ found.problem \in Problems
  <2>1. rows[batch[q]] \in Seq(TraceEvents)
    BY DEF TraceInv, TypeOK, LedgerTypeOK
  <2>2. ChainProblem(rows[batch[q]], headRead[q], HasLegacyKey) \in Problems
    BY DEF ChainProblem, EventProblem, Problems
  <2> QED BY <2>1, <2>2
<1>4. HeadIsEarlier(q)
  BY <1>1 DEF TraceInv
<1>5. /\ found.problem = "NONE" =>
           IsPrefixOf(found.events, written[batch[q]]) /\ Len(found.events) = headRead[q].eventCount
      /\ KeyAtHand /\ tamperings[batch[q]] = 0 /\ found.problem # "NONE" =>
           found.problem = "HEAD_MISMATCH" /\ Len(found.events) > headRead[q].eventCount
  BY <1>4, VerdictOnOlderHead
<1> HIDE DEF found
<1>6. /\ response'[q] = found /\ DOMAIN response' = Readers
      /\ \A o \in Readers : o # q => response'[o] = response[o] /\ pc'[o] = pc[o]
  BY <1>1 DEF TraceInv, TypeOK
<1>7. TypeOK'
  BY <1>1, <1>2, <1>3, <1>6 DEF TraceInv, TypeOK, LedgerInv
<1>8. ASSUME NEW o \in Readers, pc'[o] # "ready" PROVE HeadIsEarlier(o)'
  BY <1>1, <1>4, <1>6, <1>8 DEF TraceInv, HeadIsEarlier
<1>9. ValidMeansWritten'
  BY <1>1, <1>5, <1>6 DEF TraceInv, ValidMeansWritten, Answered
<1>10. KeyAtHand => UntouchedOnlyMismatches'
  BY <1>1, <1>5, <1>6 DEF TraceInv, UntouchedOnlyMismatches, Answered
<1> QED BY <1>2, <1>6, <1>7, <1>8, <1>9, <1>10 DEF TraceInv, KeyAtHand

LEMMA TracesKept == TraceInv /\ [Next]_vars => TraceInv'
<1> SUFFICES ASSUME TraceInv, [Next]_vars PROVE TraceInv'
  OBVIOUS
<1>1. CASE LedgerNext /\ UNCHANGED reads
  BY <1>1, LedgerStepKeepsTraces
<1>2. CASE UNCHANGED vars
  <2>1. UNCHANGED ledger /\ UNCHANGED reads
    BY <1>2 DEF vars
  <2> QED BY <2>1, LedgerStepKeepsTraces
<1> QED BY <1>1, <1>2, ReadBatchKeepsTraces, ReadAndVerifyKeepsTraces DEF Next

\* The committed ledger, the requests and what they answer keep their types.
THEOREM TracesAreTyped == Spec => []TypeOK
<1>1. TraceInv => TypeOK
  BY DEF TraceInv
<1> QED BY <1>1, TraceInvStarts, TracesKept, PTL DEF Spec

\* Whatever is done to stored rows behind the application's back, once or many
\* times, before, between or after recordings, verification of the batch
\* against its recorded head fails from then on until the rows are back; rows
\* nobody changed always verify.  Where v1 events are stored, that is said of
\* a server which still has the key they were signed with.
THEOREM DamageAlwaysShows == KeyAtHand /\ Spec => []DamageShows
<1> SUFFICES ASSUME KeyAtHand PROVE Spec => []DamageShows
  OBVIOUS
<1>1. TraceInv => DamageShows
  BY EveryChangeShows DEF TraceInv
<1> QED BY <1>1, TraceInvStarts, TracesKept, PTL DEF Spec

\* The half of it that needs no key: what verifies is what was written.
THEOREM VerifiedRowsAreWritten ==
  Spec => [](\A b \in Batches : VerifyChain(rows[b], heads[b], HasLegacyKey) => Intact(b))
<1>1. TraceInv => \A b \in Batches : VerifyChain(rows[b], heads[b], HasLegacyKey) => Intact(b)
  BY VerifiedIsWritten DEF TraceInv, LedgerInv, LedgerTypeOK, Intact
<1> QED BY <1>1, TraceInvStarts, TracesKept, PTL DEF Spec

\* A trace request that says isValid shows what the service wrote, up to the
\* head it read; what it says of a batch nobody touched is at worst that the
\* head disagrees, and then recording overtook it between its statements.
THEOREM VerdictsStayRight == KeyAtHand /\ Spec => []VerdictsAreRight
<1> SUFFICES ASSUME KeyAtHand PROVE Spec => []VerdictsAreRight
  OBVIOUS
<1>1. TraceInv => VerdictsAreRight
  BY DEF TraceInv, VerdictsAreRight
<1> QED BY <1>1, TraceInvStarts, TracesKept, PTL DEF Spec
=============================================================================
