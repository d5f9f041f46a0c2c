------------------------------ MODULE MCServer ------------------------------
(***************************************************************************)
(* Small instances of the server's parts that share no state with the      *)
(* supply chain service nor with one another, side by side: accounts, the  *)
(* connection pool, trace requests.  A behaviour is one part's; the others *)
(* stay in a state where nothing is under way.                             *)
(***************************************************************************)
EXTENDS Accounts, ConnectionPool, TraceRead, TLC

CONSTANT Parts   \* the parts a run is about

VARIABLE part

serverVars == <<accountsVars, poolVars, vars, part>>

-----------------------------------------------------------------------------
(* Instances: where a part begins and what it leaves out *)

\* Sign-ups of every kind in two workspaces.
SignUpCalls ==
  \A r \in Calls : /\ calls'[r].at \notin {"status", "role"}
                   /\ calls'[r].at \in {"prov_find", "prov_tx", "invite"} => calls'[r].role = "FARMER"

\* One workspace, governed by administrators who act on one another.
GovernanceCalls ==
  /\ Cardinality((tenants' \cup {calls'[r].slug : r \in Calls}) \ {Nobody}) <= 1
  /\ \A r \in Calls :
       calls'[r].at \in {"idle", "ws_slug", "ws_tx", "prov_find", "prov_tx", "status", "role"}

TracesStart ==
  /\ Init
  /\ part # "traces" => \A b \in Batches : written[b] # << >> => written[b][1].stage = 0

-----------------------------------------------------------------------------
ServerInit ==
  /\ part \in Parts
  /\ AccountsInit /\ PoolInit /\ TracesStart

ServerNext ==
  /\ UNCHANGED part
  /\ \/ /\ part = "sign-ups" /\ AccountsNext /\ SignUpCalls
        /\ UNCHANGED <<poolVars, vars>>
     \/ /\ part = "governance" /\ AccountsNext /\ GovernanceCalls
        /\ UNCHANGED <<poolVars, vars>>
     \/ /\ part = "pool" /\ PoolNext
        /\ UNCHANGED <<accountsVars, vars>>
     \/ /\ part = "traces" /\ Next
        /\ UNCHANGED <<accountsVars, poolVars>>

ServerSpec == ServerInit /\ [][ServerNext]_serverVars

ServerSymmetry == Permutations(Calls) \cup Permutations(Emails) \cup Permutations(Slugs) \cup Permutations(Codes)

-----------------------------------------------------------------------------
\* Every part keeps its types, in its own steps and in the others'.
ServerTypeOK == AccountsTypeOK /\ PoolTypeOK /\ TypeOK
=============================================================================
