----------------------------- MODULE MCClients ------------------------------
(***************************************************************************)
(* Small instances of a deployment and of what runs in the browser, side   *)
(* by side: the alerts' socket, sessions in tabs, a batch's pages, the     *)
(* lists, the sign-up form.  They share no state with one another.  A      *)
(* behaviour is one part's; the others stay in a state where nothing is    *)
(* under way.                                                              *)
(***************************************************************************)
EXTENDS TLC, RealtimeAlerts, Deployment, Sessions, BatchPages, ListPages, SignUpForm

CONSTANTS Parts,     \* the parts a run is about
          ben, m1, m2, p1, p2, u2, tab2, b1, b2, o1, i1, d1   \* values named below

VARIABLE part

clientVars == <<alertVars, deployVars, sessionVars, pageVars, listVars, signUpVars, part>>

\* Ben is in another workspace.
MCWatcherTenant(u) == IF u = ben THEN "t2" ELSE "t1"

-----------------------------------------------------------------------------
(* Instances: where a part begins and what it leaves out *)

AlertsStart ==
  /\ RealtimeInit
  /\ part # "alerts" => \A u \in Watchers : ~watchers[u].oversight

\* Demo: the schema is up to date.  Production: an old and a new set of files.
DeploymentStarts ==
  /\ DeploymentInit
  /\ IF config.seedDemo
     THEN applied = Versions /\ \A p \in Migrators \cup Servers : config.files[p] = MaxVersion
     ELSE config.files = [p \in Migrators \cup Servers |-> IF p \in {m1, p1} THEN 2 ELSE 1]
  /\ part # "deployment" => ~config.seedDemo /\ applied = {}

DeploymentSmall ==
  config.seedDemo => (\A m \in Migrators : jobs'[m] = Stopped) /\ \A p \in Servers : servers'[p].requests = 0

\* Two tabs of one user who logs in once (calm: without a mishap); one such
\* tab; or two users in one tab.
SessionsSmall ==
  /\ part # "two users" => \A q \in wire' : q.user # u2 /\ q.login # 2
  /\ part \notin {"two tabs", "calm tabs"} => ~tabs'[tab2].open
  /\ part = "calm tabs" => mishaps' = mishaps

Held(s, c) == [exists |-> TRUE, stage |-> s, custodian |-> c, recalled |-> FALSE]

\* Of each role one user, with the batches that make its forms differ.
PagesStart ==
  /\ BatchPagesInit
  /\ people[o1].role = (IF part = "retailer" THEN "RETAILER" ELSE "PROCESSOR")
  /\ LET row == [b \in Batches |-> batches[b]] IN
     CASE part = "inspector" -> MyRole = "INSPECTOR" /\ row[b1] = Held(PROCESSING, Me) /\ row[b2] = Held(RETAIL, Unassigned)
       [] part = "retailer"  -> MyRole = "RETAILER" /\ row[b1] = Held(DISTRIBUTION, Me) /\ row[b2] = NoRow
       [] part = "admin"     -> MyRole = "ADMIN" /\ row[b1] = Held(HARVEST, o1) /\ row[b2] = NoRow
       [] OTHER              -> MyRole = "FARMER" /\ row[b1] = NoRow /\ row[b2] = NoRow

PagesSmall ==
  /\ part = "farmer" => page'.kind # "record"
  /\ part = "inspector" => page'.kind # "tasks" \/ page'.visit = 1
  /\ part # "inspector" => page'.visit <= 2 \/ page'.visit = page.visit \/ page'.flash = "recorded"
  /\ part \in {"retailer", "admin"} =>
       page'.kind # "new" /\ (page'.kind = "batch" => page.kind # "tasks")

ListsStart ==
  /\ ListInit
  /\ part # "lists" => list.shows = ChainVerifier /\ standing = {}

\* One invitation for one address, and one for anybody.
SignUpStarts ==
  /\ SignUpInit
  /\ \A i \in InviteCodes : invites[i].address = (IF i = i1 THEN d1 ELSE NoAddress)
  /\ part # "sign-up" => form = BlankForm

-----------------------------------------------------------------------------
ClientsInit ==
  /\ part \in Parts
  /\ AlertsStart /\ DeploymentStarts /\ SessionsInit /\ PagesStart /\ ListsStart /\ SignUpStarts

ClientsNext ==
  /\ UNCHANGED part
  /\ \/ /\ part = "alerts" /\ RealtimeNext
        /\ UNCHANGED <<deployVars, sessionVars, pageVars, listVars, signUpVars>>
     \/ /\ part = "deployment" /\ DeploymentNext /\ DeploymentSmall
        /\ UNCHANGED <<alertVars, sessionVars, pageVars, listVars, signUpVars>>
     \/ /\ part \in {"one tab", "two tabs", "calm tabs", "two users"} /\ SessionsNext /\ SessionsSmall
        /\ UNCHANGED <<alertVars, deployVars, pageVars, listVars, signUpVars>>
     \/ /\ part \in {"farmer", "inspector", "retailer", "admin"} /\ BatchPagesNext /\ PagesSmall
        /\ UNCHANGED <<alertVars, deployVars, sessionVars, listVars, signUpVars>>
     \/ /\ part = "lists" /\ ListNext
        /\ UNCHANGED <<alertVars, deployVars, sessionVars, pageVars, signUpVars>>
     \/ /\ part = "sign-up" /\ SignUpNext
        /\ UNCHANGED <<alertVars, deployVars, sessionVars, pageVars, listVars>>

ClientsSpec == ClientsInit /\ [][ClientsNext]_clientVars

\* The fairness of the parts that must make progress.
FairClientsSpec ==
  /\ ClientsSpec
  /\ DeploymentFairness /\ SessionsFairness /\ BatchPagesFairness /\ ListFairness /\ SignUpFairness

-----------------------------------------------------------------------------
\* Every part keeps its types, in its own steps and in the others'.
ClientsTypeOK ==
  /\ RealtimeTypeOK /\ DeploymentTypeOK /\ SessionsTypeOK
  /\ BatchPagesTypeOK /\ ListTypeOK /\ SignUpTypeOK

\* Every form, spinner and button comes back, whatever becomes of the requests.
PagesProgress == SubmitEnds /\ LoadingEnds /\ SignUpEnds
=============================================================================
