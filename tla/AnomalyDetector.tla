-------------------------- MODULE AnomalyDetector ---------------------------
(***************************************************************************)
(* backend/src/services/anomalyDetector.ts: the scan over a batch's event  *)
(* history that derives the stage anomalies.  An anomaly is named by its   *)
(* type and the sequence number of the event it is about; ids, messages    *)
(* and timestamps are left out.                                            *)
(***************************************************************************)
EXTENDS Domain, Sequences

Severity ==
  [DUPLICATE_STAGE |-> "MEDIUM",
   OUT_OF_ORDER    |-> "HIGH",
   STAGE_SKIPPED   |-> "HIGH",
   CHAIN_TAMPERED  |-> "CRITICAL"]

StageAnomalyTypes == {"DUPLICATE_STAGE", "OUT_OF_ORDER", "STAGE_SKIPPED"}

Anomalies == [type: StageAnomalyTypes, eventSeq: Nat]

\* seenStages and highestStageIndex as they stand when event i is looked at.
SeenBefore(events, i) == {events[j].stage : j \in 1..(i - 1)}

HighestBefore(events, i) ==
  CHOOSE m \in SeenBefore(events, i) \cup {-1} :
    \A s \in SeenBefore(events, i) : s <= m

\* The anomaly types event i gives rise to.
TypesAt(events, i) ==
  LET stage   == events[i].stage
      highest == HighestBefore(events, i)
  IN (IF stage \in SeenBefore(events, i) THEN {"DUPLICATE_STAGE"} ELSE {})
     \cup (IF stage < highest THEN {"OUT_OF_ORDER"}
           ELSE IF stage > highest + 1 THEN {"STAGE_SKIPPED"} ELSE {})

AnomaliesAt(events, i) ==
  {[type |-> t, eventSeq |-> events[i].sequenceNumber] : t \in TypesAt(events, i)}

DetectAnomalies(events) == UNION {AnomaliesAt(events, i) : i \in 1..Len(events)}

\* Mutant of DetectNewAnomalies: takes the last sequence number for the length.
DetectNewByLength(events) ==
  {a \in DetectAnomalies(events) : a.eventSeq = Len(events)}

\* Those of the newest event: the filter on eventId, which sequence_number
\* stands for.
DetectNewAnomalies(events) ==
  IF events = << >> THEN {}
  ELSE {a \in DetectAnomalies(events) :
          a.eventSeq = events[Len(events)].sequenceNumber}
=============================================================================
