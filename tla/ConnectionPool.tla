--------------------------- MODULE ConnectionPool ---------------------------
(***************************************************************************)
(* backend/src/db/database.ts: the unit of work every service call runs    *)
(* in.  A flow is an asynchronous call chain with its AsyncLocalStorage    *)
(* scope; a connection is one of the pool's, with what PostgreSQL keeps    *)
(* for it: whether a transaction is open and the app.tenant_id setting     *)
(* that row-level security reads.  Any statement may be refused by the     *)
(* server or find its connection broken.                                   *)
(***************************************************************************)
CONSTANTS Flows, Conns, Workspaces, NoTenant, NoConn

ASSUME PoolAssumption == NoTenant \notin Workspaces /\ NoConn \notin Conns

VARIABLES
  conns,   \* per connection: open or closed, its transaction and setting
  flows,   \* per flow: where it stands, and its scope
  answer   \* per flow: what the last call told its caller, and what is true

poolVars == <<conns, flows, answer>>

Scopes == Workspaces \cup {NoTenant}

ConnRows == [open: BOOLEAN, tx: {"none", "open", "failed"}, setting: Scopes]
FlowRows == [at: {"idle", "connect", "begin", "set_config", "body", "commit", "rollback"},
             conn: Conns \cup {NoConn}, tenantId: Scopes]
Answers  == [told: {"nothing", "result", "error"}, committed: BOOLEAN, cut: BOOLEAN]

Closed   == [open |-> FALSE, tx |-> "none", setting |-> NoTenant]
NoScope  == [at |-> "idle", conn |-> NoConn, tenantId |-> NoTenant]
NoAnswer == [told |-> "nothing", committed |-> FALSE, cut |-> FALSE]

PoolTypeOK == /\ conns \in [Conns -> ConnRows]
              /\ flows \in [Flows -> FlowRows]
              /\ answer \in [Flows -> Answers]

-----------------------------------------------------------------------------
\* The pool hands out a connection nobody holds, opening it when needed.
Available(c) == \A f \in Flows : flows[f].conn # c

\* Mutant of EndTx: another null than the one the policies test for.
EndTxUnset(row) == [row EXCEPT !.tx = "none", !.setting = NoConn]

\* The connection as COMMIT or ROLLBACK leaves it (is_local = true).
EndTx(row) == [row EXCEPT !.tx = "none", !.setting = NoTenant]

\* Mutant of Joins: a nested call never joins the outer transaction.
JoinsNever(f, t) == flows[f].at # "body"

\* withTenant, withoutTenant inside a scope: the same tenant joins.
Joins(f, t) == flows[f].tenantId = t

MoveTo(f, place) == flows' = [flows EXCEPT ![f].at = place]

\* withTenant(t), withoutTenant() from outside any scope.
OpenScope(f, t) ==
  /\ flows[f].at = "idle"
  /\ flows' = [flows EXCEPT ![f] = [at |-> "connect", conn |-> NoConn, tenantId |-> t]]
  /\ answer' = [answer EXCEPT ![f] = NoAnswer]
  /\ UNCHANGED conns

\* pool.connect()
Connect(f, c) ==
  /\ flows[f].at = "connect"
  /\ Available(c)
  /\ conns' = [conns EXCEPT ![c].open = TRUE]
  /\ flows' = [flows EXCEPT ![f].at = "begin", ![f].conn = c]
  /\ UNCHANGED answer

\* connectionTimeoutMillis, or no server: the call fails before the try block.
ConnectTimeout(f) ==
  /\ flows[f].at = "connect"
  /\ flows' = [flows EXCEPT ![f] = NoScope]
  /\ answer' = [answer EXCEPT ![f].told = "error"]
  /\ UNCHANGED conns

\* Mutant of Begin: set_config is skipped.
BeginUnscoped(f) ==
  /\ flows[f].at = "begin"
  /\ conns' = [conns EXCEPT ![flows[f].conn].tx = "open"]
  /\ MoveTo(f, "body")
  /\ UNCHANGED answer

Begin(f) ==
  /\ flows[f].at = "begin"
  /\ conns' = [conns EXCEPT ![flows[f].conn].tx = "open"]
  /\ MoveTo(f, IF flows[f].tenantId = NoTenant THEN "body" ELSE "set_config")
  /\ UNCHANGED answer

\* SELECT set_config('app.tenant_id', $1, true)
SetTenant(f) ==
  /\ flows[f].at = "set_config"
  /\ conns' = [conns EXCEPT ![flows[f].conn].setting = flows[f].tenantId]
  /\ MoveTo(f, "body")
  /\ UNCHANGED answer

\* A repository's query() inside fn goes to the scope's connection; a nested
\* withTenant for the same tenant runs its fn there too.
Nest(f, t) ==
  /\ flows[f].at = "body"
  /\ IF Joins(f, t)
     THEN UNCHANGED flows
     ELSE IF t # flows[f].tenantId
          THEN MoveTo(f, "rollback")     \* Cannot switch tenant ...
          ELSE MoveTo(f, "connect")
  /\ UNCHANGED <<conns, answer>>

\* fn returned.
Return(f) == flows[f].at = "body" /\ MoveTo(f, "commit") /\ UNCHANGED <<conns, answer>>

\* Mutant of Throw: the error is swallowed and the transaction committed.
Swallow(f) ==
  /\ flows[f].at = "body"
  /\ \E tx \in {"open", "failed"} : conns' = [conns EXCEPT ![flows[f].conn].tx = tx]
  /\ MoveTo(f, "commit")
  /\ UNCHANGED answer

\* fn threw, or one of its statements failed.
Throw(f) ==
  /\ flows[f].at = "body"
  /\ \E tx \in {"open", "failed"} : conns' = [conns EXCEPT ![flows[f].conn].tx = tx]
  /\ MoveTo(f, "rollback")
  /\ UNCHANGED answer

\* COMMIT; of a transaction a statement has failed in, PostgreSQL makes it a
\* ROLLBACK and reports no error.
Commit(f) ==
  /\ flows[f].at = "commit"
  /\ conns' = [conns EXCEPT ![flows[f].conn] = EndTx(@)]
  /\ flows' = [flows EXCEPT ![f] = NoScope]
  /\ answer' = [answer EXCEPT ![f].told = "result",
                              ![f].committed = conns[flows[f].conn].tx = "open"]

\* BEGIN or set_config is refused (statement_timeout, an overloaded server).
Refused(f) ==
  /\ flows[f].at \in {"begin", "set_config"}
  /\ MoveTo(f, "rollback")
  /\ UNCHANGED <<conns, answer>>

Rollback(f) ==
  /\ flows[f].at = "rollback"
  /\ conns[flows[f].conn].open
  /\ conns' = [conns EXCEPT ![flows[f].conn] = EndTx(@)]
  /\ flows' = [flows EXCEPT ![f] = NoScope]
  /\ answer' = [answer EXCEPT ![f].told = "error"]

\* The network or idle_in_transaction_session_timeout cuts a connection in
\* use: the server drops its transaction - unless COMMIT had got through.
CutConnection(f) ==
  /\ flows[f].at \in {"begin", "set_config", "body", "commit", "rollback"}
  /\ conns[flows[f].conn].open
  /\ \E through \in {FALSE, flows[f].at = "commit"} :
       answer' = [answer EXCEPT ![f].cut = TRUE, ![f].committed = through]
  /\ conns' = [conns EXCEPT ![flows[f].conn].open = FALSE]
  /\ MoveTo(f, "rollback")

\* Mutant of Destroy: the broken connection goes back to the pool as it is.
ReturnAnyway(c) == conns' = [conns EXCEPT ![c].open = TRUE]

\* client.release(err)
Destroy(c) == conns' = [conns EXCEPT ![c] = Closed]

\* ROLLBACK fails on a broken connection.
RollbackFails(f) ==
  /\ flows[f].at = "rollback"
  /\ ~conns[flows[f].conn].open
  /\ Destroy(flows[f].conn)
  /\ flows' = [flows EXCEPT ![f] = NoScope]
  /\ answer' = [answer EXCEPT ![f].told = "error"]

PoolInit ==
  /\ conns = [c \in Conns |-> Closed]
  /\ flows = [f \in Flows |-> NoScope]
  /\ answer = [f \in Flows |-> NoAnswer]

PoolNext ==
  \E f \in Flows :
    \/ \E t \in Scopes : OpenScope(f, t) \/ Nest(f, t)
    \/ \E c \in Conns : Connect(f, c)
    \/ ConnectTimeout(f) \/ Begin(f) \/ SetTenant(f) \/ Return(f) \/ Throw(f)
    \/ Commit(f) \/ Refused(f) \/ Rollback(f) \/ CutConnection(f) \/ RollbackFails(f)

PoolSpec == PoolInit /\ [][PoolNext]_poolVars

-----------------------------------------------------------------------------
\* "A pooled connection can never leak one request's tenant into the next
\* request": what nobody holds has no transaction open and no tenant set, so
\* an unscoped query sees no tenant's rows and the next scope starts clean.
PoolClean ==
  \A c \in Conns : Available(c) => conns[c].tx = "none" /\ conns[c].setting = NoTenant

\* While fn runs, its queries see exactly the tenant its scope names (or the
\* connection is dead and they fail), and no other flow has its connection.
ScopeSeesItsTenant ==
  \A f \in Flows : flows[f].at \in {"body", "commit"} =>
    /\ conns[flows[f].conn].setting = flows[f].tenantId
    /\ \A g \in Flows \ {f} : flows[g].conn # flows[f].conn

\* Nobody waits for a connection while holding one, so nested calls cannot
\* exhaust the pool against each other.
NoHoldAndWait == \A f \in Flows : flows[f].at = "connect" => flows[f].conn = NoConn

\* A result is told only of what was committed; an error is told of something
\* committed only when the connection was cut under COMMIT.
AnswersAreTrue ==
  \A f \in Flows :
    /\ answer[f].told = "result" => answer[f].committed
    /\ answer[f].told = "error" /\ answer[f].committed => answer[f].cut

\* What the unit of work owes to its callers: no tenant leaks from one to the
\* next, each sees its own, none starves another, and none is lied to.
UnitOfWork == PoolClean /\ ScopeSeesItsTenant /\ NoHoldAndWait /\ AnswersAreTrue
=============================================================================
