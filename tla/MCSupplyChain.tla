--------------------------- MODULE MCSupplyChain ----------------------------
(***************************************************************************)
(* Small instances of SupplyChain for TLC.                                 *)
(***************************************************************************)
EXTENDS SupplyChainInv, TLC

CONSTANTS farmer, processor, admin, outsider

\* A workspace of three, and one actor of another tenant.
MCTenantOf ==
  [a \in Actors |-> IF a = outsider THEN "t2" ELSE "t1"]

MCInitRole ==
  [a \in Actors |-> CASE a = farmer    -> "FARMER"
                      [] a = processor -> "PROCESSOR"
                      [] a = outsider  -> "ADMIN"
                      [] OTHER         -> "ADMIN"]

MCTenants == {"t1", "t2"}

RequestSymmetry == Permutations(Requests)
=============================================================================
