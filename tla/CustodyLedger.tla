--------------------------- MODULE CustodyLedger ----------------------------
(***************************************************************************)
(* What the service promises its users, with no transactions, locks or     *)
(* hashes in it: each batch has one append-only history; an entry is made  *)
(* by whoever holds custody (or by an overriding administrator); custody   *)
(* moves only together with a forward step; a recall ends the history.     *)
(***************************************************************************)
EXTENDS Domain, Sequences

CONSTANTS Batches, Actors, NoActor,
          Overriders   \* actors that may at some time act as administrator

VARIABLES creator,     \* who opened the batch, NoActor before that
          history,     \* what was recorded: stage and actor
          frontier,    \* the furthest stage reached
          custodian,   \* who is to make the next entry, NoActor: anyone
          recalled

vars == <<creator, history, frontier, custodian, recalled>>

Init ==
  /\ creator = [b \in Batches |-> NoActor]
  /\ history = [b \in Batches |-> << >>]
  /\ frontier = [b \in Batches |-> NotStarted]
  /\ custodian = [b \in Batches |-> NoActor]
  /\ recalled = [b \in Batches |-> FALSE]

Open(b, a) ==
  /\ creator[b] = NoActor
  /\ creator' = [creator EXCEPT ![b] = a]
  /\ custodian' = [custodian EXCEPT ![b] = a]
  /\ UNCHANGED <<history, frontier, recalled>>

MayRecord(b, a) == a \in Overriders \/ custodian[b] \in {NoActor, a}

\* An entry that reaches no further than the batch already has: custody stays.
Backfill(b, a, stage) ==
  /\ stage <= frontier[b]
  /\ UNCHANGED <<frontier, custodian>>

\* A forward step names the next custodian; the last stage leaves none.
Advance(b, stage, next) ==
  /\ stage > frontier[b]
  /\ stage = TerminalStage => next = NoActor
  /\ frontier' = [frontier EXCEPT ![b] = stage]
  /\ custodian' = [custodian EXCEPT ![b] = next]

Record(b, a, stage, next) ==
  /\ creator[b] # NoActor
  /\ ~recalled[b]
  /\ MayRecord(b, a)
  /\ history' = [history EXCEPT ![b] = Append(@, [stage |-> stage, actorId |-> a])]
  /\ Backfill(b, a, stage) \/ Advance(b, stage, next)
  /\ UNCHANGED <<creator, recalled>>

Recall(b) ==
  /\ creator[b] # NoActor
  /\ ~recalled[b]
  /\ recalled' = [recalled EXCEPT ![b] = TRUE]
  /\ UNCHANGED <<creator, history, frontier, custodian>>

Next ==
  \E b \in Batches :
    \/ \E a \in Actors : Open(b, a)
    \/ \E a \in Actors, stage \in Stages, next \in Actors \cup {NoActor} :
         Record(b, a, stage, next)
    \/ Recall(b)

Spec == Init /\ [][Next]_vars
=============================================================================
