------------------------- MODULE StoredLedgerProofs -------------------------
(***************************************************************************)
(* Proofs about StoredLedger, for chains of any length and any number of   *)
(* changes from outside.                                                   *)
(*                                                                         *)
(* That a verified chain is the one the service wrote takes an induction   *)
(* down the chain, and that the chains which LedgerInit and RewriteFrom    *)
(* compute exist takes one up.  Both go by the least number for which the  *)
(* claim fails, as the least of a SET of numbers (LeastNumber).            *)
(***************************************************************************)
EXTENDS StoredLedger, SequenceTheorems, WellFoundedInduction, TLAPS

-----------------------------------------------------------------------------
(* Least numbers *)

Less == {p \in Nat \X Nat : p[1] < p[2]}

\* The order of the natural numbers, as a set of pairs, is well-founded.
LEMMA LessIsWellFounded == IsWellFoundedOn(Less, Nat)
  BY NatLessThanWellFounded, Zenon DEF Less, OpToRel

\* Every set of natural numbers that has an element has a least one.
LEMMA LeastNumber ==
  ASSUME NEW S, S \subseteq Nat, S # {}
  PROVE  \E m \in S : \A k \in S : m <= k
<1>1. PICK m \in S : \A k \in S : <<k, m>> \notin Less
  BY LessIsWellFounded, WFMin
<1>2. ASSUME NEW k \in S PROVE m <= k
  <2>1. k \in Nat /\ m \in Nat
    OBVIOUS
  <2>2. <<k, m>> \in Less <=> k < m
    BY <2>1 DEF Less
  <2> QED BY <1>1, <2>1, <2>2
<1> QED BY <1>2

-----------------------------------------------------------------------------
(* Chains *)

\* What a row looks like that the service wrote, whatever was changed since:
\* v1 rows have no salt.
SaltFits(e) == e.hashVersion = 1 => e.salt = NoSalt

\* Every row is linked to the one before it and hashed right.
Linked(chain) ==
  \A i \in 1..Len(chain) : LinksToPrevious(chain, i) /\ ComputeHash(chain[i]) = chain[i].hash

\* A sequence is determined by what was appended last and what to.
LEMMA AppendIsInjective ==
  ASSUME NEW S, NEW s \in Seq(S), NEW t \in Seq(S), NEW x \in S, NEW y \in S,
         Append(s, x) = Append(t, y)
  PROVE  s = t /\ x = y
<1>1. /\ Len(Append(s, x)) = Len(s) + 1 /\ Len(Append(t, y)) = Len(t) + 1
      /\ Append(s, x)[Len(s) + 1] = x /\ Append(t, y)[Len(t) + 1] = y
  OBVIOUS
<1>2. Len(s) = Len(t) /\ x = y
  BY <1>1
<1>3. \A i \in 1..Len(s) : s[i] = Append(s, x)[i] /\ t[i] = Append(t, y)[i]
  BY <1>2
<1> QED BY <1>2, <1>3

\* The hash of a row determines its prevHash and all that is hashed.
LEMMA HashIsInjective ==
  ASSUME NEW e \in TraceEvents, NEW f \in TraceEvents, ComputeHash(e) = ComputeHash(f)
  PROVE  e.prevHash = f.prevHash /\ Preimage(e) = Preimage(f)
<1>1. /\ e.prevHash \in Seq(Preimages) /\ f.prevHash \in Seq(Preimages)
      /\ Preimage(e) \in Preimages /\ Preimage(f) \in Preimages
  BY DEF TraceEvents, Hashes, Preimage, Preimages
<1> QED BY <1>1, AppendIsInjective DEF ComputeHash

\* A row whose hash is another's is that row.
LEMMA RowIsHashed ==
  ASSUME NEW e \in TraceEvents, NEW f \in TraceEvents, SaltFits(e), SaltFits(f),
         ComputeHash(e) = e.hash, ComputeHash(f) = f.hash, e.hash = f.hash
  PROVE  e = f
<1>1. e.prevHash = f.prevHash /\ Preimage(e) = Preimage(f)
  BY HashIsInjective
<1>2. /\ e.hashVersion = f.hashVersion /\ e.batchId = f.batchId
      /\ e.sequenceNumber = f.sequenceNumber /\ e.stage = f.stage /\ e.actorId = f.actorId
      /\ (IF e.hashVersion = 2 THEN e.salt ELSE NoSalt) = (IF f.hashVersion = 2 THEN f.salt ELSE NoSalt)
  BY <1>1 DEF Preimage
<1>3. e.salt = f.salt
  BY <1>2 DEF SaltFits, TraceEvents
<1> QED BY <1>1, <1>2, <1>3 DEF TraceEvents

\* Two linked chains of one length that end with one hash are the same.
LEMMA EndHashDeterminesChain ==
  ASSUME NEW c \in Seq(TraceEvents), NEW d \in Seq(TraceEvents),
         Linked(c), Linked(d), Len(c) = Len(d), EndHash(c) = EndHash(d),
         \A i \in 1..Len(c) : SaltFits(c[i]) /\ SaltFits(d[i])
  PROVE  c = d
<1> DEFINE n == Len(c)
           Differ == {k \in 0..(n - 1) : c[n - k].hash # d[n - k].hash}
<1>1. n \in Nat /\ \A i \in 1..n : c[i] \in TraceEvents /\ d[i] \in TraceEvents
  OBVIOUS
<1>2. Differ = {}
  <2> SUFFICES ASSUME Differ # {} PROVE FALSE
    OBVIOUS
  <2>1. PICK m \in Differ : \A k \in Differ : m <= k
    <3> Differ \subseteq Nat
      BY <1>1
    <3> QED BY LeastNumber
  <2>2. m \in 0..(n - 1) /\ c[n - m].hash # d[n - m].hash
    BY <2>1
  <2>3. CASE m = 0
    <3>1. n - m = n /\ n + 1 # 1 /\ n + 1 - 1 = n
      BY <1>1, <2>2, <2>3
    <3>2. EndHash(c) = c[n].hash
      BY <3>1 DEF EndHash, ExpectedPrevHash
    <3>3. EndHash(d) = d[n].hash
      BY <3>1 DEF EndHash, ExpectedPrevHash
    <3> QED BY <2>2, <3>1, <3>2, <3>3
  <2>4. CASE m # 0
    <3> DEFINE i == n - (m - 1)
    <3>1. i \in 1..n /\ i - 1 = n - m /\ i # 1
      BY <1>1, <2>2, <2>4
    <3>2. m - 1 \notin Differ
      <4>1. m \in Int /\ \A k \in Differ : m <= k
        BY <1>1, <2>1, <2>2
      <4> HIDE DEF Differ
      <4> QED BY <4>1
    <3>3. c[i].hash = d[i].hash
      BY <1>1, <2>2, <2>4, <3>2
    <3>4. /\ c[i].prevHash = c[i - 1].hash /\ ComputeHash(c[i]) = c[i].hash
          /\ d[i].prevHash = d[i - 1].hash /\ ComputeHash(d[i]) = d[i].hash
      BY <1>1, <3>1 DEF Linked, LinksToPrevious, ExpectedPrevHash
    <3>5. c[i].prevHash = d[i].prevHash
      BY <1>1, <3>1, <3>3, <3>4, HashIsInjective
    <3> QED BY <2>2, <3>1, <3>4, <3>5
  <2> QED BY <2>3, <2>4
<1>3. ASSUME NEW i \in 1..n PROVE c[i] = d[i]
  <2>1. n - i \in 0..(n - 1) /\ n - (n - i) = i
    BY <1>1
  <2>2. n - i \notin Differ
    BY <1>2
  <2>3. c[i].hash = d[i].hash
    BY <2>1, <2>2
  <2>4. c[i] \in TraceEvents /\ d[i] \in TraceEvents /\ SaltFits(c[i]) /\ SaltFits(d[i])
    BY <1>1
  <2>5. ComputeHash(c[i]) = c[i].hash /\ ComputeHash(d[i]) = d[i].hash
    BY <1>1 DEF Linked
  <2> QED BY <2>3, <2>4, <2>5, RowIsHashed
<1> QED BY <1>3

-----------------------------------------------------------------------------
(* What the service writes *)

\* A chain as recordEvent and its v1 predecessor leave it, with its head.
AsWritten(chain, head) ==
  /\ Linked(chain)
  /\ HeadMatches(chain, head)
  /\ \A i \in 1..Len(chain) :
       /\ SaltFits(chain[i])
       /\ chain[i].hashVersion = 2 => chain[i].salt # NoSalt
       /\ chain[i].hashVersion = 1 => i <= LegacyEvents

\* The event built on a head is well-formed, and hashed right.
LEMMA EventOnHead ==
  ASSUME NEW b \in Batches, NEW head \in ChainHeads, NEW version \in 1..2,
         NEW salt \in Salts, NEW stage \in Stages, NEW a \in Actors
  PROVE  LET e == EventOn(b, head, version, salt, stage, a) IN
         /\ e \in TraceEvents
         /\ e.sequenceNumber = head.eventCount /\ e.prevHash = head.hash
         /\ e.hash = ComputeHash(e)
         /\ e.hashVersion = version
         /\ e.salt = IF version = 2 THEN salt ELSE NoSalt
<1> DEFINE u == [batchId |-> b, sequenceNumber |-> head.eventCount, prevHash |-> head.hash,
                 hash |-> GENESIS_HASH, hashVersion |-> version,
                 salt |-> IF version = 2 THEN salt ELSE NoSalt, stage |-> stage, actorId |-> a]
           e == [u EXCEPT !.hash = ComputeHash(u)]
<1>1. e = EventOn(b, head, version, salt, stage, a)
  BY DEF EventOn
<1>2. /\ head.hash \in Seq(Preimages) /\ head.eventCount \in Nat
  BY DEF ChainHeads, Hashes
<1>3. u.prevHash \in Seq(Preimages) /\ Preimage(u) \in Preimages
  BY <1>2 DEF Preimage, Preimages
<1>4. ComputeHash(u) \in Hashes
  BY <1>3 DEF ComputeHash, Hashes
<1>5. e = [batchId |-> b, sequenceNumber |-> head.eventCount, prevHash |-> head.hash,
           hash |-> ComputeHash(u), hashVersion |-> version,
           salt |-> IF version = 2 THEN salt ELSE NoSalt, stage |-> stage, actorId |-> a]
  OBVIOUS
<1>6. ComputeHash(e) = ComputeHash(u)
  BY <1>5 DEF ComputeHash, Preimage
<1>7. e \in TraceEvents
  BY <1>2, <1>4, <1>5 DEF TraceEvents, Hashes
<1> HIDE DEF u
<1>8. /\ e.sequenceNumber = head.eventCount /\ e.prevHash = head.hash /\ e.hash = ComputeHash(u)
      /\ e.hashVersion = version /\ e.salt = IF version = 2 THEN salt ELSE NoSalt
  BY <1>5
<1> HIDE DEF e
<1> QED BY <1>1, <1>6, <1>7, <1>8

\* What is appended to a chain on its own head keeps it as the service writes.
LEMMA AppendAsWritten ==
  ASSUME NEW b \in Batches, NEW chain \in Seq(TraceEvents), NEW head \in ChainHeads,
         NEW version \in 1..2, NEW salt \in Salts, NEW stage \in Stages, NEW a \in Actors,
         AsWritten(chain, head), version = 1 => Len(chain) < LegacyEvents
  PROVE  LET e == EventOn(b, head, version, salt, stage, a) IN
         /\ Append(chain, e) \in Seq(TraceEvents)
         /\ HeadAfter(e) \in ChainHeads
         /\ AsWritten(Append(chain, e), HeadAfter(e))
<1> DEFINE e == EventOn(b, head, version, salt, stage, a)
           t == Append(chain, e)
           n == Len(chain)
<1>1. /\ e \in TraceEvents /\ e.sequenceNumber = head.eventCount /\ e.prevHash = head.hash
      /\ e.hash = ComputeHash(e) /\ e.hashVersion = version
      /\ e.salt = IF version = 2 THEN salt ELSE NoSalt
  BY EventOnHead
<1> HIDE DEF e
<1>2. /\ n \in Nat /\ t \in Seq(TraceEvents) /\ Len(t) = n + 1
      /\ t[n + 1] = e /\ \A i \in 1..n : t[i] = chain[i]
  BY <1>1
<1> HIDE DEF t
<1>3. head.eventCount = n /\ head.hash = EndHash(chain)
  BY DEF AsWritten, HeadMatches
<1>4. ASSUME NEW i \in 1..(n + 1) PROVE LinksToPrevious(t, i) /\ ComputeHash(t[i]) = t[i].hash
  <2>1. CASE i = n + 1
    <3>1. ExpectedPrevHash(t, n + 1) = EndHash(chain)
      <4>1. CASE n = 0
        BY <4>1 DEF EndHash, ExpectedPrevHash
      <4>2. CASE n # 0
        <5>1. n \in 1..n /\ n + 1 # 1 /\ n + 1 - 1 = n
          BY <1>2, <4>2
        <5> QED BY <1>2, <5>1 DEF EndHash, ExpectedPrevHash
      <4> QED BY <4>1, <4>2
    <3> QED BY <1>1, <1>2, <1>3, <2>1, <3>1 DEF LinksToPrevious
  <2>2. CASE i # n + 1
    <3>1. i \in 1..n /\ (i = 1 \/ i - 1 \in 1..n)
      BY <1>2, <2>2
    <3>2. LinksToPrevious(chain, i) /\ ComputeHash(chain[i]) = chain[i].hash
      BY <3>1 DEF AsWritten, Linked
    <3>3. t[i] = chain[i] /\ ExpectedPrevHash(t, i) = ExpectedPrevHash(chain, i)
      BY <1>2, <3>1 DEF ExpectedPrevHash
    <3> QED BY <3>2, <3>3 DEF LinksToPrevious
  <2> QED BY <2>1, <2>2
<1>5. Linked(t)
  BY <1>2, <1>4 DEF Linked
<1>6. HeadMatches(t, HeadAfter(e)) /\ HeadAfter(e) \in ChainHeads
  <2>1. n + 1 + 1 # 1 /\ n + 1 + 1 - 1 = n + 1
    BY <1>2
  <2>2. EndHash(t) = e.hash
    BY <1>2, <2>1 DEF EndHash, ExpectedPrevHash
  <2> QED BY <1>1, <1>2, <1>3, <2>2 DEF HeadMatches, HeadAfter, ChainHeads, TraceEvents
<1>7. ASSUME NEW i \in 1..(n + 1)
      PROVE  /\ SaltFits(t[i])
             /\ t[i].hashVersion = 2 => t[i].salt # NoSalt
             /\ t[i].hashVersion = 1 => i <= LegacyEvents
  <2>1. CASE i = n + 1
    BY <1>1, <1>2, <2>1, SaltAssumption, LedgerAssumption DEF SaltFits
  <2>2. CASE i # n + 1
    BY <1>2, <2>2 DEF AsWritten
  <2> QED BY <2>1, <2>2
<1>8. AsWritten(t, HeadAfter(e))
  BY <1>2, <1>5, <1>6, <1>7 DEF AsWritten
<1> QED BY <1>2, <1>6, <1>8 DEF e, t

\* A chain of n events that InitialChain computes, one from the one before.
ChainStep(g, i, b, salt, stage, a) ==
  IF i = 0 THEN << >>
  ELSE LET head == IF i = 1 THEN GenesisHead ELSE HeadAfter(g[i - 1][i - 1])
       IN Append(g[i - 1], EventOn(b, head, IF i <= LegacyEvents THEN 1 ELSE 2, salt, stage, a))

Computes(g, n, b, salt, stage, a) ==
  g = [i \in 0..n |-> ChainStep(g, i, b, salt, stage, a)]

LEMMA ChainStepIsLocal ==
  \A g, h, i, b, salt, stage, a :
    (i = 0 \/ g[i - 1] = h[i - 1])
      => ChainStep(g, i, b, salt, stage, a) = ChainStep(h, i, b, salt, stage, a)
  BY DEF ChainStep

LEMMA ChainsCanBeComputed ==
  \A b, salt, stage, a : \A n \in Nat :
    \E g : Computes(g, n, b, salt, stage, a)
<1> TAKE b, salt, stage, a
<1> DEFINE Good(m) == \E g : Computes(g, m, b, salt, stage, a)
           Bad == {m \in Nat : ~Good(m)}
<1>1. Bad = {}
  <2> SUFFICES ASSUME Bad # {} PROVE FALSE
    OBVIOUS
  <2>1. PICK m \in Bad : \A k \in Bad : m <= k
    <3> Bad \subseteq Nat
      OBVIOUS
    <3> HIDE DEF Bad
    <3> QED BY LeastNumber
  <2>2. m \in Nat /\ ~Good(m)
    OBVIOUS
  <2>3. \A k \in Nat : k < m => Good(k)
    <3> HIDE DEF Good
    <3>1. ASSUME NEW k \in Nat, k < m, ~Good(k) PROVE FALSE
      <4>1. k \in Bad
        BY <3>1
      <4> QED BY <2>1, <2>2, <3>1, <4>1
    <3> QED BY <3>1
  <2>4. CASE m = 0
    <3> DEFINE g == [i \in 0..0 |-> << >>]
    <3>1. g = [i \in 0..0 |-> ChainStep(g, i, b, salt, stage, a)]
      BY DEF ChainStep
    <3>2. Computes(g, 0, b, salt, stage, a)
      BY <3>1 DEF Computes
    <3> HIDE DEF g
    <3> QED BY <2>2, <2>4, <3>2
  <2>5. CASE m # 0
    <3>1. m - 1 \in Nat /\ m - 1 < m
      BY <2>2, <2>5
    <3>2. PICK g : g = [i \in 0..(m - 1) |-> ChainStep(g, i, b, salt, stage, a)]
      BY <2>3, <3>1 DEF Computes
    <3> DEFINE h == [i \in 0..m |-> IF i = m THEN ChainStep(g, m, b, salt, stage, a) ELSE g[i]]
    <3>3. ASSUME NEW i \in 0..m PROVE h[i] = ChainStep(h, i, b, salt, stage, a)
      <4>1. i = 0 \/ g[i - 1] = h[i - 1]
        BY <2>2
      <4>2. ChainStep(g, i, b, salt, stage, a) = ChainStep(h, i, b, salt, stage, a)
        <5> HIDE DEF h
        <5> QED BY <4>1, ChainStepIsLocal
      <4>3. h[i] = ChainStep(g, i, b, salt, stage, a)
        BY <2>2, <3>2
      <4> QED BY <4>2, <4>3
    <3>4. h = [i \in 0..m |-> ChainStep(h, i, b, salt, stage, a)]
      <4>1. h = [i \in 0..m |-> h[i]]
        OBVIOUS
      <4> HIDE DEF h
      <4> QED BY <3>3, <4>1
    <3>5. Computes(h, m, b, salt, stage, a)
      BY <3>4 DEF Computes
    <3> HIDE DEF h
    <3> QED BY <2>2, <3>5
  <2> QED BY <2>4, <2>5
<1> QED BY <1>1

\* The chains of the initial state are chains the service wrote.
LEMMA InitialChainAsWritten ==
  ASSUME NEW b \in Batches, NEW salt \in Salts, NEW stage \in Stages, NEW a \in Actors
  PROVE  LET chain == InitialChain(b, salt, stage, a) IN
         /\ chain \in Seq(TraceEvents)
         /\ Len(chain) = InitEvents
         /\ (IF chain = << >> THEN GenesisHead ELSE HeadAfter(chain[InitEvents])) \in ChainHeads
         /\ AsWritten(chain, IF chain = << >> THEN GenesisHead ELSE HeadAfter(chain[InitEvents]))
<1>0. InitEvents \in Nat
  BY LedgerAssumption
<1>1. \E g : Computes(g, InitEvents, b, salt, stage, a)
  BY <1>0, ChainsCanBeComputed
<1>2. PICK g : /\ g = [i \in 0..InitEvents |-> ChainStep(g, i, b, salt, stage, a)]
               /\ InitialChain(b, salt, stage, a) = g[InitEvents]
  <2>1. InitialChain(b, salt, stage, a) = (CHOOSE g : Computes(g, InitEvents, b, salt, stage, a))[InitEvents]
    BY Zenon DEF InitialChain, Computes, ChainStep
  <2>2. Computes(CHOOSE g : Computes(g, InitEvents, b, salt, stage, a), InitEvents, b, salt, stage, a)
    BY <1>1, Zenon
  <2> QED BY <2>1, <2>2, Zenon DEF Computes
<1> DEFINE HeadOf(i) == IF i = 0 THEN GenesisHead ELSE HeadAfter(g[i][i])
           Good(i) == /\ g[i] \in Seq(TraceEvents) /\ Len(g[i]) = i
                      /\ HeadOf(i) \in ChainHeads /\ AsWritten(g[i], HeadOf(i))
           Bad == {i \in 0..InitEvents : ~Good(i)}
<1>3. Bad = {}
  <2> SUFFICES ASSUME Bad # {} PROVE FALSE
    OBVIOUS
  <2>1. PICK m \in Bad : \A k \in Bad : m <= k
    <3> Bad \subseteq Nat
      BY <1>0
    <3> HIDE DEF Bad
    <3> QED BY LeastNumber
  <2>2. m \in 0..InitEvents /\ ~Good(m) /\ m \in Nat
    BY <1>0
  <2>3. CASE m = 0
    <3>1. g[0] = << >>
      BY <1>0, <1>2 DEF ChainStep
    <3>2. GenesisHead \in ChainHeads
      BY DEF GenesisHead, ChainHeads, GENESIS_HASH, Hashes
    <3>3. AsWritten(<< >>, GenesisHead)
      BY DEF AsWritten, Linked, HeadMatches, EndHash, ExpectedPrevHash, GenesisHead
    <3> QED BY <2>2, <2>3, <3>1, <3>2, <3>3
  <2>4. CASE m # 0
    <3> DEFINE version == IF m <= LegacyEvents THEN 1 ELSE 2
               e == EventOn(b, HeadOf(m - 1), version, salt, stage, a)
    <3>1. m - 1 \in 0..InitEvents /\ m - 1 < m
      BY <1>0, <2>2, <2>4
    <3>2. Good(m - 1)
      <4> HIDE DEF Good
      <4>1. m - 1 \in Bad => m <= m - 1
        BY <2>1
      <4> QED BY <2>2, <3>1, <4>1
    <3>3. g[m] = Append(g[m - 1], e)
      <4>1. g[m] = ChainStep(g, m, b, salt, stage, a)
        BY <1>2, <2>2
      <4>2. m = 1 <=> m - 1 = 0
        BY <2>2
      <4> QED BY <2>4, <4>1, <4>2 DEF ChainStep
    <3>4. version \in 1..2 /\ (version = 1 => Len(g[m - 1]) < LegacyEvents)
      BY <2>2, <3>2, LedgerAssumption
    <3> HIDE DEF version, HeadOf
    <3>5. /\ Append(g[m - 1], e) \in Seq(TraceEvents) /\ HeadAfter(e) \in ChainHeads
          /\ AsWritten(Append(g[m - 1], e), HeadAfter(e))
      BY <3>2, <3>4, AppendAsWritten
    <3>6. e \in TraceEvents
      BY <3>2, <3>4, EventOnHead
    <3>7. Len(g[m]) = m /\ g[m][m] = e
      <4> HIDE DEF e
      <4> QED BY <2>2, <2>4, <3>2, <3>3, <3>6
    <3>8. HeadOf(m) = HeadAfter(e)
      BY <2>4, <3>7 DEF HeadOf
    <3> HIDE DEF e
    <3> QED BY <2>2, <3>3, <3>5, <3>7, <3>8
  <2> QED BY <2>3, <2>4
<1>4. Good(InitEvents)
  BY <1>0, <1>3
<1>5. g[InitEvents] = << >> <=> InitEvents = 0
  BY <1>0, <1>4
<1> QED BY <1>2, <1>4, <1>5

-----------------------------------------------------------------------------
(* What changes from outside leave *)

\* The row k of a chain c that is hashed again from row i on, whose stage is
\* changed.
RewriteStep(g, k, c, i, stage) ==
  LET edited == [c EXCEPT ![i].stage = stage]
      linked == [edited[k] EXCEPT !.prevHash = IF k = 1 THEN GENESIS_HASH ELSE g[k - 1].hash]
  IN IF k < i THEN c[k] ELSE [linked EXCEPT !.hash = ComputeHash(linked)]

Rewritten(g, n, c, i, stage) == g = [k \in 1..n |-> RewriteStep(g, k, c, i, stage)]

LEMMA RewriteStepIsLocal ==
  \A g, h, k, c, i, stage :
    (k = 1 \/ g[k - 1] = h[k - 1]) => RewriteStep(g, k, c, i, stage) = RewriteStep(h, k, c, i, stage)
<1> TAKE g, h, k, c, i, stage
<1>1. CASE k = 1
  BY <1>1 DEF RewriteStep
<1>2. CASE k # 1 /\ g[k - 1] = h[k - 1]
  BY <1>2 DEF RewriteStep
<1> QED BY <1>1, <1>2

LEMMA ChainsCanBeRewritten ==
  \A c, i, stage : \A n \in Nat : \E g : Rewritten(g, n, c, i, stage)
<1> TAKE c, i, stage
<1> DEFINE Good(m) == \E g : Rewritten(g, m, c, i, stage)
           Bad == {m \in Nat : ~Good(m)}
<1>1. Bad = {}
  <2> SUFFICES ASSUME Bad # {} PROVE FALSE
    OBVIOUS
  <2>1. PICK m \in Bad : \A k \in Bad : m <= k
    <3> Bad \subseteq Nat
      OBVIOUS
    <3> HIDE DEF Bad
    <3> QED BY LeastNumber
  <2>2. m \in Nat /\ ~Good(m)
    OBVIOUS
  <2>3. \A k \in Nat : k < m => Good(k)
    <3> HIDE DEF Good
    <3>1. ASSUME NEW k \in Nat, k < m, ~Good(k) PROVE FALSE
      <4>1. k \in Bad
        BY <3>1
      <4> QED BY <2>1, <2>2, <3>1, <4>1
    <3> QED BY <3>1
  <2>4. CASE m = 0
    <3> DEFINE g == [k \in 1..0 |-> c]
    <3>1. Rewritten(g, 0, c, i, stage)
      BY DEF Rewritten
    <3> HIDE DEF g
    <3> QED BY <2>2, <2>4, <3>1
  <2>5. CASE m # 0
    <3>1. m - 1 \in Nat /\ m - 1 < m
      BY <2>2, <2>5
    <3>2. PICK g : g = [k \in 1..(m - 1) |-> RewriteStep(g, k, c, i, stage)]
      BY <2>3, <3>1 DEF Rewritten
    <3> DEFINE h == [k \in 1..m |-> IF k = m THEN RewriteStep(g, m, c, i, stage) ELSE g[k]]
    <3>3. ASSUME NEW k \in 1..m PROVE h[k] = RewriteStep(h, k, c, i, stage)
      <4>1. k = 1 \/ g[k - 1] = h[k - 1]
        BY <2>2
      <4>2. RewriteStep(g, k, c, i, stage) = RewriteStep(h, k, c, i, stage)
        <5> HIDE DEF h
        <5> QED BY <4>1, RewriteStepIsLocal
      <4>3. h[k] = RewriteStep(g, k, c, i, stage)
        BY <2>2, <3>2
      <4> QED BY <4>2, <4>3
    <3>4. h = [k \in 1..m |-> RewriteStep(h, k, c, i, stage)]
      <4>1. h = [k \in 1..m |-> h[k]]
        OBVIOUS
      <4> HIDE DEF h
      <4> QED BY <3>3, <4>1
    <3>5. Rewritten(h, m, c, i, stage)
      BY <3>4 DEF Rewritten
    <3> HIDE DEF h
    <3> QED BY <2>2, <3>5
  <2> QED BY <2>4, <2>5
<1> QED BY <1>1

\* Hashing again changes nothing but a stage, links and hashes.
LEMMA RewrittenChain ==
  ASSUME NEW c \in Seq(TraceEvents), \A k \in 1..Len(c) : SaltFits(c[k]),
         NEW i \in 1..Len(c), NEW stage \in Stages, NEW g, Rewritten(g, Len(c), c, i, stage)
  PROVE  g \in Seq(TraceEvents) /\ Len(g) = Len(c) /\ \A k \in 1..Len(g) : SaltFits(g[k])
<1> DEFINE n == Len(c)
           Good(k) == g[k] \in TraceEvents /\ SaltFits(g[k])
           Bad == {k \in 1..n : ~Good(k)}
<1>1. n \in Nat /\ \A k \in 1..n : c[k] \in TraceEvents
  OBVIOUS
<1>2. /\ DOMAIN g = 1..n /\ g = [k \in 1..n |-> g[k]]
      /\ \A k \in 1..n : g[k] = RewriteStep(g, k, c, i, stage)
  BY DEF Rewritten
<1>3. Bad = {}
  <2> SUFFICES ASSUME Bad # {} PROVE FALSE
    OBVIOUS
  <2>1. PICK m \in Bad : \A k \in Bad : m <= k
    <3> Bad \subseteq Nat
      BY <1>1
    <3> HIDE DEF Bad
    <3> QED BY LeastNumber
  <2>2. m \in 1..n /\ ~Good(m) /\ m \in Nat
    BY <1>1
  <2>3. CASE m < i
    <3>1. g[m] = c[m]
      BY <1>2, <2>2, <2>3 DEF RewriteStep
    <3> QED BY <1>1, <2>2, <3>1
  <2>4. CASE ~(m < i)
    <3> DEFINE link == IF m = 1 THEN GENESIS_HASH ELSE g[m - 1].hash
               row == [c EXCEPT ![i].stage = stage][m]
               linked == [row EXCEPT !.prevHash = link]
    <3>1. link \in Hashes
      <4>1. CASE m = 1
        BY <4>1 DEF GENESIS_HASH, Hashes
      <4>2. CASE m # 1
        <5>1. m - 1 \in 1..n /\ m - 1 < m
          BY <1>1, <2>2, <4>2
        <5>2. Good(m - 1)
          <6> HIDE DEF Good
          <6>1. m - 1 \in Bad => m <= m - 1
            BY <2>1
          <6> QED BY <2>2, <5>1, <6>1
        <5> QED BY <4>2, <5>2 DEF TraceEvents
      <4> QED BY <4>1, <4>2
    <3>2. row \in TraceEvents /\ SaltFits(row)
      <4>1. row = c[m] \/ row = [c[m] EXCEPT !.stage = stage]
        BY <1>1, <2>2
      <4>2. c[m] \in TraceEvents /\ SaltFits(c[m])
        BY <1>1, <2>2
      <4> HIDE DEF row
      <4> QED BY <4>1, <4>2 DEF TraceEvents, SaltFits
    <3> HIDE DEF link, row
    <3>3. linked \in TraceEvents /\ SaltFits(linked)
      BY <3>1, <3>2 DEF TraceEvents, SaltFits
    <3> HIDE DEF linked
    <3>4. ComputeHash(linked) \in Hashes
      BY <3>3 DEF ComputeHash, Preimage, Preimages, TraceEvents, Hashes
    <3>5. g[m] = [linked EXCEPT !.hash = ComputeHash(linked)]
      BY <1>2, <2>2, <2>4 DEF RewriteStep, linked, row, link
    <3>6. Good(m)
      BY <3>3, <3>4, <3>5 DEF TraceEvents, SaltFits
    <3> QED BY <2>2, <3>6
  <2> QED BY <2>3, <2>4
<1>4. \A k \in 1..n : Good(k)
  BY <1>3
<1> QED BY <1>1, <1>2, <1>4

-----------------------------------------------------------------------------
(* The invariant *)

\* What was written is a chain that ends at the recorded head; what is stored
\* may be anything else once something was changed from outside, except that
\* v1 rows keep their missing salt.
LedgerInv ==
  /\ LedgerTypeOK
  /\ \A b \in Batches :
       /\ AsWritten(written[b], heads[b])
       /\ \A i \in 1..Len(rows[b]) : SaltFits(rows[b][i])
       /\ tamperings[b] = 0 => Intact(b)

LEMMA LedgerStarts == LedgerInit => LedgerInv
<1> SUFFICES ASSUME LedgerInit PROVE LedgerInv
  OBVIOUS
<1>1. PICK salt \in Salts, stage \in DtoStages, a \in Actors :
        written = [b \in Batches |-> InitialChain(b, salt, stage, a)]
  BY DEF LedgerInit
<1>2. stage \in Stages /\ MaxTamperings \in Nat
  BY LedgerAssumption
<1>3. /\ rows = written /\ tamperings = [b \in Batches |-> 0]
      /\ heads = [b \in Batches |-> IF written[b] = << >> THEN GenesisHead
                                    ELSE HeadAfter(written[b][InitEvents])]
  BY DEF LedgerInit
<1>4. ASSUME NEW b \in Batches
      PROVE  written[b] \in Seq(TraceEvents) /\ heads[b] \in ChainHeads /\ AsWritten(written[b], heads[b])
  <2>1. written[b] = InitialChain(b, salt, stage, a)
    BY <1>1
  <2>2. heads[b] = IF written[b] = << >> THEN GenesisHead ELSE HeadAfter(written[b][InitEvents])
    BY <1>3
  <2> QED BY <1>2, <2>1, <2>2, InitialChainAsWritten
<1>5. LedgerTypeOK
  BY <1>1, <1>2, <1>3, <1>4 DEF LedgerTypeOK
<1> QED BY <1>3, <1>4, <1>5 DEF LedgerInv, AsWritten, Intact

LEMMA RecordKeeps ==
  ASSUME LedgerInv, NEW b \in Batches, NEW salt \in Salts, NEW stage \in DtoStages, NEW a \in Actors,
         Record(b, salt, stage, a)
  PROVE  LedgerInv'
<1> DEFINE e == EventOn(b, heads[b], CURRENT_HASH_VERSION, salt, stage, a)
<1>1. /\ written' = [written EXCEPT ![b] = Append(@, e)] /\ rows' = [rows EXCEPT ![b] = Append(@, e)]
      /\ heads' = [heads EXCEPT ![b] = HeadAfter(e)] /\ tamperings' = tamperings
  BY DEF Record
<1>2. /\ stage \in Stages /\ CURRENT_HASH_VERSION \in 1..2 /\ CURRENT_HASH_VERSION # 1
      /\ written[b] \in Seq(TraceEvents) /\ rows[b] \in Seq(TraceEvents) /\ heads[b] \in ChainHeads
      /\ AsWritten(written[b], heads[b])
  BY LedgerAssumption DEF LedgerInv, LedgerTypeOK, CURRENT_HASH_VERSION
<1>3. e \in TraceEvents /\ SaltFits(e)
  BY <1>2, EventOnHead DEF SaltFits
<1>4. /\ Append(written[b], e) \in Seq(TraceEvents) /\ HeadAfter(e) \in ChainHeads
      /\ AsWritten(Append(written[b], e), HeadAfter(e))
  BY <1>2, AppendAsWritten
<1> HIDE DEF e
<1>5. LedgerTypeOK'
  BY <1>1, <1>2, <1>3, <1>4 DEF LedgerInv, LedgerTypeOK
<1>6. ASSUME NEW c \in Batches
      PROVE  /\ AsWritten(written'[c], heads'[c])
             /\ \A i \in 1..Len(rows'[c]) : SaltFits(rows'[c][i])
             /\ tamperings'[c] = 0 => rows'[c] = written'[c]
  <2>1. CASE c = b
    <3>1. written'[b] = Append(written[b], e) /\ heads'[b] = HeadAfter(e) /\ rows'[b] = Append(rows[b], e)
      BY <1>1 DEF LedgerInv, LedgerTypeOK
    <3>2. tamperings'[b] = 0 => rows[b] = written[b]
      BY <1>1 DEF LedgerInv, Intact
    <3>3. \A i \in 1..Len(rows[b]) : SaltFits(rows[b][i])
      BY DEF LedgerInv
    <3>4. \A i \in 1..Len(rows'[b]) : SaltFits(rows'[b][i])
      BY <1>2, <1>3, <3>1, <3>3
    <3> QED BY <1>4, <2>1, <3>1, <3>2, <3>4
  <2>2. CASE c # b
    BY <1>1, <2>2 DEF LedgerInv, LedgerTypeOK, Intact
  <2> QED BY <2>1, <2>2
<1> QED BY <1>5, <1>6 DEF LedgerInv, Intact

LEMMA TamperKeeps ==
  ASSUME LedgerInv, NEW b \in Batches, NEW chain \in Seq(TraceEvents),
         \A i \in 1..Len(chain) : SaltFits(chain[i]), Tamper(b, chain)
  PROVE  LedgerInv'
<1>1. /\ tamperings[b] < MaxTamperings /\ tamperings' = [tamperings EXCEPT ![b] = @ + 1]
      /\ rows' = [rows EXCEPT ![b] = chain] /\ written' = written /\ heads' = heads
  BY DEF Tamper
<1>2. tamperings[b] \in Nat /\ tamperings[b] + 1 # 0 /\ tamperings[b] + 1 \in 0..MaxTamperings
  BY <1>1, LedgerAssumption DEF LedgerInv, LedgerTypeOK
<1>3. LedgerTypeOK'
  BY <1>1, <1>2 DEF LedgerInv, LedgerTypeOK
<1>4. ASSUME NEW c \in Batches
      PROVE  /\ AsWritten(written'[c], heads'[c])
             /\ \A i \in 1..Len(rows'[c]) : SaltFits(rows'[c][i])
             /\ tamperings'[c] = 0 => rows'[c] = written'[c]
  BY <1>1, <1>2 DEF LedgerInv, LedgerTypeOK, Intact
<1> QED BY <1>3, <1>4 DEF LedgerInv, Intact

LEMMA LedgerKeeps == LedgerInv /\ [LedgerNext]_ledger => LedgerInv'
<1> SUFFICES ASSUME LedgerInv, [LedgerNext]_ledger PROVE LedgerInv'
  OBVIOUS
<1>1. ASSUME NEW b \in Batches, NEW salt \in Salts, NEW stage \in DtoStages, NEW a \in Actors,
             Record(b, salt, stage, a)
      PROVE  LedgerInv'
  BY <1>1, RecordKeeps
<1>2. ASSUME NEW b \in Batches, NEW i \in 1..Len(rows[b]), NEW stage \in DtoStages
      PROVE  /\ EditRow(b, i, stage) => LedgerInv'
             /\ RewriteFrom(b, i, stage) => LedgerInv'
  <2> DEFINE c == rows[b]
  <2>1. c \in Seq(TraceEvents) /\ stage \in Stages /\ \A k \in 1..Len(c) : SaltFits(c[k])
    BY LedgerAssumption DEF LedgerInv, LedgerTypeOK
  <2> HIDE DEF c
  <2>2. /\ Len(c) \in Nat /\ i \in 1..Len(c)
        /\ \A k \in 1..Len(c) : c[k] \in TraceEvents
    BY <2>1 DEF c
  <2>3. ASSUME EditRow(b, i, stage) PROVE LedgerInv'
    <3> DEFINE d == [c EXCEPT ![i].stage = stage]
    <3>1. \A k \in 1..Len(c) : d[k] = c[k] \/ d[k] = [c[k] EXCEPT !.stage = stage]
      BY <2>1, <2>2
    <3>2. d \in [1..Len(c) -> TraceEvents]
      BY <2>1, <2>2 DEF TraceEvents
    <3> HIDE DEF d
    <3>3. d \in Seq(TraceEvents) /\ Len(d) = Len(c)
      BY <2>2, <3>2
    <3>4. ASSUME NEW k \in 1..Len(d) PROVE SaltFits(d[k])
      <4>1. c[k] \in TraceEvents /\ SaltFits(c[k])
        BY <2>1, <2>2, <3>3
      <4>2. d[k] = c[k] \/ d[k] = [c[k] EXCEPT !.stage = stage]
        BY <3>1, <3>3
      <4> QED BY <4>1, <4>2 DEF SaltFits, TraceEvents
    <3>5. Tamper(b, d)
      BY <2>3 DEF EditRow, d, c
    <3> QED BY <3>3, <3>4, <3>5, TamperKeeps
  <2>4. ASSUME RewriteFrom(b, i, stage) PROVE LedgerInv'
    <3>1. \E g : Rewritten(g, Len(c), c, i, stage)
      BY <2>2, ChainsCanBeRewritten
    <3> DEFINE d == CHOOSE g : Rewritten(g, Len(c), c, i, stage)
    <3>2. Rewritten(d, Len(c), c, i, stage)
      BY <3>1, Zenon
    <3>3. Tamper(b, d)
      BY <2>4, Zenon DEF RewriteFrom, Rewritten, RewriteStep, c
    <3> HIDE DEF d
    <3>4. d \in Seq(TraceEvents) /\ \A k \in 1..Len(d) : SaltFits(d[k])
      BY <2>1, <2>2, <3>2, RewrittenChain
    <3> QED BY <3>3, <3>4, TamperKeeps
  <2> QED BY <2>3, <2>4
<1>3. ASSUME NEW b \in Batches, NEW i \in 1..Len(rows[b]), DeleteRow(b, i)
      PROVE  LedgerInv'
  <2> DEFINE c == rows[b]
  <2>1. c \in Seq(TraceEvents) /\ \A k \in 1..Len(c) : SaltFits(c[k])
    BY DEF LedgerInv, LedgerTypeOK
  <2> HIDE DEF c
  <2>2. /\ Len(c) \in Nat /\ i \in 1..Len(c)
        /\ \A k \in 1..Len(c) : c[k] \in TraceEvents
    BY <2>1 DEF c
  <2> DEFINE l == SubSeq(c, 1, i - 1)
             r == SubSeq(c, i + 1, Len(c))
  <2>3. /\ l \in Seq(TraceEvents) /\ Len(l) = i - 1 /\ \A k \in 1..(i - 1) : l[k] = c[k]
        /\ r \in Seq(TraceEvents) /\ Len(r) = Len(c) - i
        /\ \A k \in 1..(Len(c) - i) : r[k] = c[k + i]
    BY <2>1, <2>2
  <2> HIDE DEF l, r
  <2>4. /\ l \o r \in Seq(TraceEvents) /\ Len(l \o r) = Len(c) - 1
        /\ \A k \in 1..(Len(c) - 1) : (l \o r)[k] = IF k <= i - 1 THEN l[k] ELSE r[k - (i - 1)]
    <3>1. /\ l \o r \in Seq(TraceEvents) /\ Len(l \o r) = Len(l) + Len(r)
          /\ \A k \in 1..(Len(l) + Len(r)) : (l \o r)[k] = IF k <= Len(l) THEN l[k] ELSE r[k - Len(l)]
      BY <2>3, ConcatProperties
    <3>2. Len(l) + Len(r) = Len(c) - 1
      BY <2>2, <2>3
    <3> QED BY <2>3, <3>1, <3>2
  <2>5. \A k \in 1..Len(l \o r) : SaltFits((l \o r)[k])
    <3> SUFFICES ASSUME NEW k \in 1..(Len(c) - 1) PROVE SaltFits((l \o r)[k])
      BY <2>4
    <3>1. k <= i - 1 => k \in 1..(i - 1) /\ k \in 1..Len(c)
      BY <2>2
    <3>2. ~(k <= i - 1) => k - (i - 1) \in 1..(Len(c) - i) /\ k - (i - 1) + i \in 1..Len(c)
      BY <2>2
    <3> QED BY <2>1, <2>3, <2>4, <3>1, <3>2
  <2>6. Tamper(b, l \o r)
    BY <1>3 DEF DeleteRow, l, r, c
  <2> QED BY <2>4, <2>5, <2>6, TamperKeeps
<1>4. CASE UNCHANGED ledger
  <2>1. written' = written /\ rows' = rows /\ heads' = heads /\ tamperings' = tamperings
    BY <1>4 DEF ledger
  <2>2. LedgerTypeOK'
    BY <2>1 DEF LedgerInv, LedgerTypeOK
  <2> QED BY <2>1, <2>2 DEF LedgerInv, Intact
<1> QED BY <1>1, <1>2, <1>3, <1>4 DEF LedgerNext

\* What a step of the ledger does to one batch: nothing, or it records an
\* event on the batch's head, or it changes the rows from outside.
LEMMA StepOnBatch ==
  ASSUME LedgerInv, [LedgerNext]_ledger, NEW b \in Batches
  PROVE  \/ /\ written'[b] = written[b] /\ rows'[b] = rows[b]
            /\ heads'[b] = heads[b] /\ tamperings'[b] = tamperings[b]
         \/ \E e \in TraceEvents :
              /\ e.sequenceNumber = heads[b].eventCount
              /\ written'[b] = Append(written[b], e) /\ rows'[b] = Append(rows[b], e)
              /\ heads'[b] = HeadAfter(e) /\ tamperings'[b] = tamperings[b]
         \/ /\ written'[b] = written[b] /\ heads'[b] = heads[b]
            /\ tamperings'[b] = tamperings[b] + 1
<1>1. ASSUME NEW c \in Batches, NEW salt \in Salts, NEW stage \in DtoStages, NEW a \in Actors,
             Record(c, salt, stage, a)
      PROVE  \/ /\ written'[b] = written[b] /\ rows'[b] = rows[b]
                /\ heads'[b] = heads[b] /\ tamperings'[b] = tamperings[b]
             \/ \E e \in TraceEvents :
                  /\ e.sequenceNumber = heads[b].eventCount
                  /\ written'[b] = Append(written[b], e) /\ rows'[b] = Append(rows[b], e)
                  /\ heads'[b] = HeadAfter(e) /\ tamperings'[b] = tamperings[b]
  <2> DEFINE e == EventOn(c, heads[c], CURRENT_HASH_VERSION, salt, stage, a)
  <2>1. stage \in Stages /\ CURRENT_HASH_VERSION \in 1..2 /\ heads[c] \in ChainHeads
    BY LedgerAssumption DEF LedgerInv, LedgerTypeOK, CURRENT_HASH_VERSION
  <2>2. e \in TraceEvents /\ e.sequenceNumber = heads[c].eventCount
    BY <2>1, EventOnHead
  <2>3. /\ written' = [written EXCEPT ![c] = Append(@, e)] /\ rows' = [rows EXCEPT ![c] = Append(@, e)]
        /\ heads' = [heads EXCEPT ![c] = HeadAfter(e)] /\ tamperings' = tamperings
    BY <1>1 DEF Record
  <2> HIDE DEF e
  <2> QED BY <2>2, <2>3 DEF LedgerInv, LedgerTypeOK
<1>2. ASSUME NEW c \in Batches, NEW chain, Tamper(c, chain)
      PROVE  /\ written'[b] = written[b] /\ heads'[b] = heads[b]
             /\ \/ rows'[b] = rows[b] /\ tamperings'[b] = tamperings[b]
                \/ tamperings'[b] = tamperings[b] + 1
  BY <1>2 DEF Tamper, LedgerInv, LedgerTypeOK
<1>3. ASSUME NEW c \in Batches, NEW i, NEW stage, EditRow(c, i, stage) \/ RewriteFrom(c, i, stage) \/ DeleteRow(c, i)
      PROVE  \E chain : Tamper(c, chain)
  BY <1>3, Zenon DEF EditRow, RewriteFrom, DeleteRow
<1>4. CASE UNCHANGED ledger
  BY <1>4 DEF ledger
<1>5. CASE LedgerNext
  <2>1. PICK c \in Batches :
          \/ \E salt \in Salts, stage \in DtoStages, a \in Actors : Record(c, salt, stage, a)
          \/ \E i, stage : EditRow(c, i, stage) \/ RewriteFrom(c, i, stage) \/ DeleteRow(c, i)
    BY <1>5, Zenon DEF LedgerNext
  <2>2. CASE \E salt \in Salts, stage \in DtoStages, a \in Actors : Record(c, salt, stage, a)
    BY <1>1, <2>2
  <2>3. CASE \E chain : Tamper(c, chain)
    BY <1>2, <2>3
  <2> QED BY <1>3, <2>1, <2>2, <2>3
<1> QED BY <1>4, <1>5

-----------------------------------------------------------------------------
(* What verification answers *)

\* Every version of hash in use can be computed again.
KeyAtHand == HasLegacyKey \/ LegacyEvents = 0

\* An answer without a problem means no broken row and the recorded end.
LEMMA NoProblemMeansSound ==
  ASSUME NEW chain, NEW head, NEW key
  PROVE  VerifyChain(chain, head, key) <=> Broken(chain, key) = {} /\ HeadMatches(chain, head)
<1>1. \A i : EventProblem(chain, i, key) # "NONE"
  BY DEF EventProblem
<1>2. CASE Broken(chain, key) = {}
  BY <1>2 DEF VerifyChain, ChainProblem
<1>3. CASE Broken(chain, key) # {}
  <2> DEFINE first == CHOOSE i \in Broken(chain, key) : \A j \in Broken(chain, key) : i <= j
  <2>1. ChainProblem(chain, head, key) = EventProblem(chain, first, key)
    BY <1>3 DEF ChainProblem
  <2> HIDE DEF first
  <2> QED BY <1>1, <1>3, <2>1 DEF VerifyChain
<1> QED BY <1>2, <1>3

\* Rows without a broken one are linked.
LEMMA UnbrokenIsLinked ==
  ASSUME NEW chain, NEW key, Broken(chain, key) = {}
  PROVE  Linked(chain)
<1>1. ASSUME NEW i \in 1..Len(chain)
      PROVE  LinksToPrevious(chain, i) /\ ComputeHash(chain[i]) = chain[i].hash
  <2>1. i \notin Broken(chain, key)
    OBVIOUS
  <2>2. LinksToPrevious(chain, i) /\ MatchesStoredHash(chain[i], key)
    BY <2>1, Zenon DEF Broken
  <2> QED BY <2>2 DEF MatchesStoredHash
<1> QED BY <1>1 DEF Linked

\* No row of a beginning of a chain the service wrote is broken.
LEMMA WrittenIsUnbroken ==
  ASSUME KeyAtHand, NEW chain \in Seq(TraceEvents), NEW head, AsWritten(chain, head),
         NEW n \in 0..Len(chain), NEW part \in Seq(TraceEvents), Len(part) = n,
         \A i \in 1..n : part[i] = chain[i]
  PROVE  Broken(part, HasLegacyKey) = {}
<1>1. ASSUME NEW i \in 1..n PROVE LinksToPrevious(part, i) /\ MatchesStoredHash(part[i], HasLegacyKey)
  <2>1. i \in 1..Len(chain) /\ (i = 1 \/ i - 1 \in 1..n)
    OBVIOUS
  <2>2. LinksToPrevious(chain, i) /\ ComputeHash(chain[i]) = chain[i].hash
    BY <2>1 DEF AsWritten, Linked
  <2>3. part[i] = chain[i] /\ ExpectedPrevHash(part, i) = ExpectedPrevHash(chain, i)
    BY <2>1 DEF ExpectedPrevHash
  <2>4. chain[i].hashVersion \in 1..2
    <3>1. chain[i] \in TraceEvents
      BY <2>1
    <3> QED BY <3>1 DEF TraceEvents
  <2>5. Recomputable(chain[i], HasLegacyKey)
    <3>1. CASE chain[i].hashVersion = 2
      BY <2>1, <3>1 DEF AsWritten, Recomputable
    <3>2. CASE chain[i].hashVersion = 1
      <4>1. i <= LegacyEvents /\ i >= 1
        BY <2>1, <3>2 DEF AsWritten
      <4>2. HasLegacyKey
        BY <4>1 DEF KeyAtHand
      <4> QED BY <3>2, <4>2 DEF Recomputable
    <3> QED BY <2>4, <3>1, <3>2
  <2> QED BY <2>2, <2>3, <2>5 DEF LinksToPrevious, MatchesStoredHash
<1> QED BY <1>1, Zenon DEF Broken

\* Rows that verify against a head which ends a chain the service wrote are
\* the rows of that chain, whether the legacy key is at hand or not.
LEMMA VerifiedIsWritten ==
  ASSUME NEW chain \in Seq(TraceEvents), NEW head, AsWritten(chain, head),
         NEW stored \in Seq(TraceEvents), \A i \in 1..Len(stored) : SaltFits(stored[i]),
         NEW key, VerifyChain(stored, head, key)
  PROVE  stored = chain
<1>1. Broken(stored, key) = {} /\ HeadMatches(stored, head)
  BY NoProblemMeansSound
<1>2. Linked(stored) /\ Linked(chain)
  BY <1>1, UnbrokenIsLinked DEF AsWritten
<1>3. Len(stored) = Len(chain) /\ EndHash(stored) = EndHash(chain)
  BY <1>1 DEF AsWritten, HeadMatches
<1>4. \A i \in 1..Len(chain) : SaltFits(stored[i]) /\ SaltFits(chain[i])
  BY <1>3 DEF AsWritten
<1> QED BY <1>2, <1>3, <1>4, EndHashDeterminesChain

\* A chain the service wrote verifies against the head it ends at.
LEMMA WrittenVerifies ==
  ASSUME KeyAtHand, NEW chain \in Seq(TraceEvents), NEW head, AsWritten(chain, head)
  PROVE  VerifyChain(chain, head, HasLegacyKey)
<1>1. Broken(chain, HasLegacyKey) = {}
  BY WrittenIsUnbroken
<1> QED BY <1>1, NoProblemMeansSound DEF AsWritten

\* Tamper evidence follows from the invariant, for chains of any length,
\* whatever was done to the stored rows and whatever was recorded since.
LEMMA EveryChangeShows == LedgerInv /\ KeyAtHand => DamageShows
<1> SUFFICES ASSUME LedgerInv, KeyAtHand, NEW b \in Batches
             PROVE  /\ VerifyChain(rows[b], heads[b], HasLegacyKey) <=> Intact(b)
                    /\ LET n == Len(rows[b])
                       IN n < Len(written[b]) /\ rows[b] = SubSeq(written[b], 1, n)
                          => ChainProblem(rows[b], heads[b], HasLegacyKey) = "HEAD_MISMATCH"
  BY DEF DamageShows, TamperingShows, TruncationIsHeadMismatch
<1>1. /\ written[b] \in Seq(TraceEvents) /\ rows[b] \in Seq(TraceEvents)
      /\ AsWritten(written[b], heads[b]) /\ \A i \in 1..Len(rows[b]) : SaltFits(rows[b][i])
  BY DEF LedgerInv, LedgerTypeOK
<1>2. VerifyChain(rows[b], heads[b], HasLegacyKey) => Intact(b)
  BY <1>1, VerifiedIsWritten DEF Intact
<1>3. Intact(b) => VerifyChain(rows[b], heads[b], HasLegacyKey)
  BY <1>1, WrittenVerifies DEF Intact
<1>4. ASSUME Len(rows[b]) < Len(written[b]), rows[b] = SubSeq(written[b], 1, Len(rows[b]))
      PROVE  ChainProblem(rows[b], heads[b], HasLegacyKey) = "HEAD_MISMATCH"
  <2> DEFINE n == Len(rows[b])
  <2>1. n \in 0..Len(written[b]) /\ \A i \in 1..n : rows[b][i] = written[b][i]
    BY <1>1, <1>4
  <2>2. Broken(rows[b], HasLegacyKey) = {}
    BY <1>1, <2>1, WrittenIsUnbroken
  <2>3. ~HeadMatches(rows[b], heads[b])
    BY <1>1, <1>4 DEF AsWritten, HeadMatches
  <2> QED BY <2>2, <2>3 DEF ChainProblem
<1> QED BY <1>2, <1>3, <1>4
=============================================================================
