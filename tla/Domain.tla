------------------------------- MODULE Domain -------------------------------
(***************************************************************************)
(* The supply-chain vocabulary every other module shares: the six stages   *)
(* in their order, the roles and the stages each role may record           *)
(* (backend/src/domain/types.ts).  A stage is represented by its index in  *)
(* STAGE_ORDER, which is how the code compares stages everywhere.          *)
(***************************************************************************)
EXTENDS Integers

HARVEST       == 0
PROCESSING    == 1
QUALITY_CHECK == 2
PACKAGING     == 3
DISTRIBUTION  == 4
RETAIL        == 5

Stages        == HARVEST..RETAIL
TerminalStage == RETAIL

\* current_stage IS NULL: STAGE_ORDER.indexOf is never asked, the code uses -1.
NotStarted    == -1

ROLE_STAGES ==
  [FARMER      |-> {HARVEST},
   PROCESSOR   |-> {PROCESSING, PACKAGING},
   INSPECTOR   |-> {QUALITY_CHECK},
   DISTRIBUTOR |-> {DISTRIBUTION},
   RETAILER    |-> {RETAIL},
   ADMIN       |-> Stages]

Roles == DOMAIN ROLE_STAGES

\* Roles the routes admit to createBatch and to recallBatch.
CreatorRoles == {"FARMER", "ADMIN"}
RecallRoles  == {"ADMIN", "INSPECTOR"}
=============================================================================
