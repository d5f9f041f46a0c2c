------------------------------ MODULE Sessions ------------------------------
(***************************************************************************)
(* Sessions end to end: the refresh tokens the server keeps (backend       *)
(* authService.ts, refreshTokenRepo.ts, migration 009) and a browser whose *)
(* tabs share one cookie jar but keep their access tokens to themselves    *)
(* (frontend api/client.ts, context/AuthContext.tsx).                      *)
(*                                                                         *)
(* wire holds what is under way between the two: a request is sent, takes  *)
(* effect in the server's statements, and is answered; the answer reaches  *)
(* the page, is lost, or finds the page gone (live is FALSE).  A revoked,  *)
(* expired or purged token is a token the server does not know.            *)
(***************************************************************************)
EXTENDS Naturals

CONSTANTS Users, NoUser,
          Tabs,
          Tokens, NoToken,
          Logins,       \* log-ins by password, each the origin of one session
          NoLogin,
          MaxMishaps    \* bound: mishaps, failures, lost answers, expiries and the like

ASSUME SessionsAssumption ==
  /\ NoUser \notin Users /\ NoToken \notin Tokens /\ NoLogin \notin Logins
  /\ MaxMishaps \in Nat

VARIABLES
  tokens,    \* live refresh tokens: owner, and the log-in they descend from
  active,    \* users with is_active
  cookie,    \* the refreshToken cookie
  tabs,      \* per tab: AuthContext's actor, the module's access token, waits
  wire,      \* requests under way
  logins,    \* log-ins not made yet
  mishaps,   \* mishaps still to come
  ended,     \* history: sessions whose log-out found their token live
  mixed      \* history: somebody logged in over another user's traces

sessionVars == <<tokens, active, cookie, tabs, wire, logins, mishaps, ended, mixed>>

TokenRows == [owner: Users, login: Logins]

\* open: a page of the site is loaded.  view: the actor in AuthContext's state.
\* access: whose access token the module holds; fresh: it has not expired.
\* mounting: the restore on mount is pending.  retry: a refused call waits for
\* the refresh.
TabRows == [open: BOOLEAN, view: Users \cup {NoUser}, access: Users \cup {NoUser}, fresh: BOOLEAN,
            mounting: BOOLEAN, retry: BOOLEAN]

WireRows == [kind: {"refresh", "login", "logout", "call"}, tab: Tabs, live: BOOLEAN,
             at: {"sent", "checked", "ok", "refused", "failed"},
             token: Tokens \cup {NoToken}, user: Users \cup {NoUser},
             login: Logins \cup {NoLogin}, fresh: BOOLEAN, retried: BOOLEAN]

SessionsTypeOK ==
  /\ DOMAIN tokens \subseteq Tokens /\ tokens \in [DOMAIN tokens -> TokenRows]
  /\ active \subseteq Users
  /\ cookie \in Tokens \cup {NoToken}
  /\ tabs \in [Tabs -> TabRows]
  /\ wire \subseteq WireRows
  /\ logins \subseteq Logins /\ mishaps \in 0..MaxMishaps
  /\ ended \subseteq Logins /\ mixed \in BOOLEAN

-----------------------------------------------------------------------------
(* Requests *)

Blank(t, kind) == [kind |-> kind, tab |-> t, live |-> TRUE, at |-> "sent",
                   token |-> NoToken, user |-> NoUser, login |-> NoLogin,
                   fresh |-> FALSE, retried |-> FALSE]

\* The browser adds the cookie as it stands when the request leaves.
RefreshRequest(t) == [Blank(t, "refresh") EXCEPT !.token = cookie]
CallRequest(t, again) ==
  [Blank(t, "call") EXCEPT !.user = tabs[t].access, !.fresh = tabs[t].fresh, !.retried = again]

\* Mutant of Refreshing: refreshPromise is not shared.
RefreshingNever(t) == FALSE

\* refreshPromise is set.
Refreshing(t) == \E q \in wire : q.kind = "refresh" /\ q.tab = t /\ q.live

\* The page goes: nobody listens any more; reads need not be followed further.
PageGone(t) ==
  {IF q.tab = t THEN [q EXCEPT !.live = FALSE] ELSE q :
     q \in {p \in wire : p.tab # t \/ (p.kind # "call" /\ p.at \in {"sent", "checked"})}}

\* A document loads, AuthProvider mounts: nothing is kept but the cookie.
Loading == [open |-> TRUE, view |-> NoUser, access |-> NoUser, fresh |-> FALSE, mounting |-> TRUE, retry |-> FALSE]

Load(t) ==
  /\ tabs' = [tabs EXCEPT ![t] = Loading]
  /\ wire' = PageGone(t) \cup {RefreshRequest(t)}

Mishap == mishaps > 0 /\ mishaps' = mishaps - 1

\* An answer nobody waits for is gone.
Replaced(q, r) == wire' = (wire \ {q}) \cup {p \in {r} : p.live \/ p.at \in {"sent", "checked"}}
Answered(q, at) == Replaced(q, [q EXCEPT !.at = at])
Unreferenced(k) == cookie # k /\ \A q \in wire : q.token # k
FreeTokens == {k \in Tokens \ DOMAIN tokens : Unreferenced(k)}

-----------------------------------------------------------------------------
(* The user *)

\* A tab is opened, for the first time or again.
Open(t) ==
  /\ ~tabs[t].open
  /\ Load(t)
  /\ UNCHANGED <<tokens, active, cookie, logins, mishaps, ended, mixed>>

Reload(t) ==
  /\ tabs[t].open /\ Mishap
  /\ Load(t)
  /\ UNCHANGED <<tokens, active, cookie, logins, ended, mixed>>

\* The form of pages/Login.tsx is there at any time, restored or not.
SubmitLogin(t, u) ==
  /\ tabs[t].open /\ ~ \E q \in wire : q.kind = "login" /\ q.tab = t /\ q.live
  /\ \E l \in logins :
       /\ logins' = logins \ {l}
       /\ wire' = wire \cup {[Blank(t, "login") EXCEPT !.user = u, !.login = l]}
  /\ UNCHANGED <<tokens, active, cookie, tabs, mishaps, ended, mixed>>

\* What log-out leaves of the page's state, at once.
ClearedTab(t) == [tabs[t] EXCEPT !.view = NoUser, !.access = NoUser, !.fresh = FALSE]

Logout(t) ==
  /\ tabs[t].view # NoUser
  /\ wire' = wire \cup {[Blank(t, "logout") EXCEPT !.token = cookie]}
  /\ tabs' = [tabs EXCEPT ![t] = ClearedTab(t)]
  /\ UNCHANGED <<tokens, active, cookie, logins, mishaps, ended, mixed>>

\* A page calls the API: private pages are shown to a signed-in user only.
Call(t) ==
  /\ tabs[t].view # NoUser /\ ~tabs[t].retry
  /\ ~ \E q \in wire : q.kind = "call" /\ q.tab = t
  /\ wire' = wire \cup {CallRequest(t, FALSE)}
  /\ UNCHANGED <<tokens, active, cookie, tabs, logins, mishaps, ended, mixed>>

-----------------------------------------------------------------------------
(* The server *)

\* Mutant of Consumes: the token is looked up, and revoked with the new pair.
ConsumesLater(q) == tokens

\* auth_consume_refresh_token: check and revoke in one statement.
Consumes(q) == [k \in DOMAIN tokens \ {q.token} |-> tokens[k]]

ServeRefresh(q) ==
  /\ q.kind = "refresh" /\ q.at = "sent"
  /\ IF q.token \in DOMAIN tokens
     THEN /\ tokens' = Consumes(q)
          /\ Replaced(q, [q EXCEPT !.at = "checked", !.token = NoToken,
               !.user = tokens[q.token].owner, !.login = tokens[q.token].login])
     ELSE Answered(q, "refused") /\ UNCHANGED tokens
  /\ UNCHANGED <<active, cookie, tabs, logins, mishaps, ended, mixed>>

\* login reads the account, then compares the password outside any transaction.
CheckLogin(q) ==
  /\ q.kind = "login" /\ q.at = "sent"
  /\ Answered(q, IF q.user \in active THEN "checked" ELSE "refused")
  /\ UNCHANGED <<tokens, active, cookie, tabs, logins, mishaps, ended, mixed>>

\* refresh reads the account again; login does not.
MayIssue(q) == q.kind = "login" \/ q.user \in active

\* issueTokens
Issue(q) ==
  /\ q.kind \in {"refresh", "login"} /\ q.at = "checked"
  /\ IF MayIssue(q)
     THEN LET k == CHOOSE i \in FreeTokens : TRUE IN
            /\ FreeTokens # {}
            /\ tokens' = [j \in DOMAIN tokens \cup {k} |->
                 IF j = k THEN [owner |-> q.user, login |-> q.login] ELSE tokens[j]]
            /\ Replaced(q, [q EXCEPT !.at = "ok", !.token = k, !.login = NoLogin])
     ELSE Answered(q, "refused") /\ UNCHANGED tokens
  /\ UNCHANGED <<active, cookie, tabs, logins, mishaps, ended, mixed>>

\* auth_revoke_refresh_token
ServeLogout(q) ==
  /\ q.kind = "logout" /\ q.at = "sent"
  /\ tokens' = [k \in DOMAIN tokens \ {q.token} |-> tokens[k]]
  /\ ended' = IF q.token \in DOMAIN tokens THEN ended \cup {tokens[q.token].login} ELSE ended
  /\ Answered(q, "ok")
  /\ UNCHANGED <<active, cookie, tabs, logins, mishaps, mixed>>

\* requireAuth: the access token and the account as it is now.
ServeCall(q) ==
  /\ q.kind = "call" /\ q.at = "sent"
  /\ Answered(q, IF q.fresh /\ q.user \in active THEN "ok" ELSE "refused")
  /\ UNCHANGED <<tokens, active, cookie, tabs, logins, mishaps, ended, mixed>>

\* The process dies over the request, or its database does.
ServerFails(q) ==
  /\ Mishap
  /\ q.at \in {"sent", "checked"}
  /\ Answered(q, "failed")
  /\ UNCHANGED <<tokens, active, cookie, tabs, logins, ended, mixed>>

\* revokeSession from a signed-in page; or the token's seven days are over.
DropToken(k) ==
  /\ Mishap
  /\ k \in DOMAIN tokens
  /\ tokens' = [j \in DOMAIN tokens \ {k} |-> tokens[j]]
  /\ UNCHANGED <<active, cookie, tabs, wire, logins, ended, mixed>>

ExpireAccess(t) ==
  /\ Mishap
  /\ tabs[t].fresh
  /\ tabs' = [tabs EXCEPT ![t].fresh = FALSE]
  /\ UNCHANGED <<tokens, active, cookie, wire, logins, ended, mixed>>

\* setActorStatus(user, FALSE)
Deactivate(u) ==
  /\ Mishap
  /\ u \in active
  /\ active' = active \ {u}
  /\ UNCHANGED <<tokens, cookie, tabs, wire, logins, ended, mixed>>

-----------------------------------------------------------------------------
(* Answers reach the page *)

\* Set-Cookie of the answer.
Stored(q) == IF q.at # "ok" THEN cookie
             ELSE CASE q.kind \in {"refresh", "login"} -> q.token
                    [] q.kind = "logout" -> NoToken
                    [] OTHER -> cookie

\* Mutant of RefreshOk: those who waited are not told.
RefreshOkForgets(q) ==
  /\ tabs' = [tabs EXCEPT ![q.tab].access = q.user, ![q.tab].fresh = TRUE, ![q.tab].mounting = FALSE,
                          ![q.tab].view = IF tabs[q.tab].mounting THEN q.user ELSE @]
  /\ wire' = wire \ {q}

\* performRefresh resolves: its setAccessToken, then those who waited.
RefreshOk(q) ==
  LET t == q.tab
      tab == [tabs[t] EXCEPT !.access = q.user, !.fresh = TRUE, !.mounting = FALSE, !.retry = FALSE,
                             !.view = IF tabs[t].mounting THEN q.user ELSE tabs[t].view]
  IN /\ tabs' = [tabs EXCEPT ![t] = tab]
     /\ wire' = (wire \ {q}) \cup
          (IF tabs[t].retry
           THEN {[Blank(t, "call") EXCEPT !.user = q.user, !.fresh = TRUE, !.retried = TRUE]}
           ELSE {})

\* Mutant of RefreshFailed: the refresh goes through the intercepted client.
RefreshFailedRedirects(q) == Load(q.tab)

\* ... or rejects: a waiting call redirects to /login, which loads the page
\* anew; the restore just settles for an anonymous visitor.
RefreshFailed(q) ==
  IF tabs[q.tab].retry THEN Load(q.tab)
  ELSE /\ tabs' = [tabs EXCEPT ![q.tab].mounting = FALSE,
                               ![q.tab].view = IF tabs[q.tab].mounting THEN NoUser ELSE @]
       /\ wire' = wire \ {q}

\* Mutant of LoggedIn: the module's access token is not set.
LoggedInViewOnly(q) == [tabs[q.tab] EXCEPT !.view = q.user]

\* Mutant of LoggedIn: the refresh token is kept for an access token.
LoggedInWithToken(q) == [tabs[q.tab] EXCEPT !.view = q.user, !.access = q.token, !.fresh = TRUE]

\* AuthContext's login.
LoggedIn(q) == [tabs[q.tab] EXCEPT !.view = q.user, !.access = q.user, !.fresh = TRUE]

\* config._retry is not set yet.
MayRetry(q) == ~q.retried

\* The response interceptor on a refused call: refresh, once, or /login.
CallRefused(q) ==
  LET t == q.tab IN
  IF ~MayRetry(q) THEN Load(t)
  ELSE /\ tabs' = [tabs EXCEPT ![t].retry = TRUE]
       /\ wire' = (wire \ {q}) \cup (IF Refreshing(t) THEN {} ELSE {RefreshRequest(t)})

Settle(q) ==
  CASE q.kind = "refresh" /\ q.at = "ok"    -> RefreshOk(q)
    [] q.kind = "refresh" /\ q.at # "ok"    -> RefreshFailed(q)
    [] q.kind = "login" /\ q.at = "ok"      -> tabs' = [tabs EXCEPT ![q.tab] = LoggedIn(q)] /\ wire' = wire \ {q}
    [] q.kind = "call" /\ q.at = "refused"  -> CallRefused(q)
    [] OTHER                                -> UNCHANGED tabs /\ wire' = wire \ {q}

\* Traces of another user: the cookie, a token or a request on its way that
\* belongs to them, a tab that shows or acts for them.
TracesOfOthers(u) ==
  \/ (cookie \in DOMAIN tokens /\ tokens[cookie].owner # u)
  \/ \E q \in wire : q.kind # "call" /\ (q.user \notin {u, NoUser}
                       \/ (q.token \in DOMAIN tokens /\ tokens[q.token].owner # u))
  \/ \E t \in Tabs : {tabs[t].view, tabs[t].access} \ {u, NoUser} # {}

Deliver(q) ==
  /\ q.at \in {"ok", "refused", "failed"} /\ q.live
  /\ cookie' = Stored(q)
  /\ Settle(q)
  /\ mixed' = (mixed \/ (q.kind = "login" /\ q.at = "ok" /\ TracesOfOthers(q.user)))
  /\ UNCHANGED <<tokens, active, logins, mishaps, ended>>

\* The connection breaks: the page sees a failure (of a call, no 401), and the
\* server, if the request got there, goes on by itself.
Disconnect(q) ==
  /\ Mishap
  /\ q.live
  /\ LET lost == [q EXCEPT !.live = FALSE] IN
     IF q.kind = "refresh" /\ tabs[q.tab].retry
     THEN Load(q.tab)
     ELSE /\ tabs' = IF q.kind = "refresh"
                     THEN [tabs EXCEPT ![q.tab].mounting = FALSE,
                             ![q.tab].view = IF tabs[q.tab].mounting THEN NoUser ELSE @]
                     ELSE tabs
          /\ wire' = (wire \ {q}) \cup {p \in {lost} : p.kind # "call" /\ p.at \in {"sent", "checked"}}
  /\ UNCHANGED <<tokens, active, cookie, logins, ended, mixed>>

-----------------------------------------------------------------------------
SessionsInit ==
  /\ tokens = [k \in {} |-> k] /\ active = Users /\ cookie = NoToken
  /\ tabs = [t \in Tabs |-> [Loading EXCEPT !.open = FALSE, !.mounting = FALSE]]
  /\ wire = {}
  /\ logins = Logins /\ mishaps = MaxMishaps /\ ended = {} /\ mixed = FALSE

Progress(q) ==
  \/ ServeRefresh(q) \/ CheckLogin(q) \/ Issue(q) \/ ServeLogout(q) \/ ServeCall(q)
  \/ Deliver(q)

SessionsNext ==
  \/ \E t \in Tabs : \/ Open(t) \/ Reload(t) \/ Logout(t) \/ Call(t) \/ ExpireAccess(t)
                     \/ \E u \in Users : SubmitLogin(t, u)
  \/ \E k \in Tokens : DropToken(k)
  \/ \E u \in Users : Deactivate(u)
  \/ \E q \in wire : Progress(q) \/ ServerFails(q) \/ Disconnect(q)

\* Requests are served and answered; nothing makes the user do anything.
SessionsFairness ==
  \A t \in Tabs, kind \in {"refresh", "call"} :
    WF_sessionVars(\E q \in wire : q.tab = t /\ q.kind = kind /\ Progress(q))

SessionsSpec == SessionsInit /\ [][SessionsNext]_sessionVars /\ SessionsFairness

-----------------------------------------------------------------------------
(* Properties *)

\* "Rotation is a single atomic consume": a log-in has one successor at any
\* time - a live token, or a refresh between consuming and issuing - whatever
\* races, crashes and lost answers the chain has been through.
RotationKeepsOne ==
  /\ \A j, k \in DOMAIN tokens : tokens[j].login = tokens[k].login => j = k
  /\ \A q \in wire : q.at = "checked" =>
       /\ \A k \in DOMAIN tokens : tokens[k].login # q.login
       /\ \A p \in wire : p.at = "checked" /\ p.login = q.login => p = q

\* A session is over for good once a log-out has found its token live: no
\* refresh that was or comes under way revives it.  (A log-out that crosses a
\* rotation finds the token consumed, and the session goes on.)
LogoutEndsSession ==
  \A l \in ended : /\ \A k \in DOMAIN tokens : tokens[k].login # l
                   /\ \A q \in wire : q.at = "checked" => q.login # l

\* A page acts for the user it shows, unless somebody logged in over another
\* user's traces: then a refresh under way, or one that adopts the other tab's
\* cookie, may change the access token behind the page.
ActsAsShown ==
  ~mixed => \A t \in Tabs : tabs[t].view # NoUser => tabs[t].access = tabs[t].view

\* "A rotated refresh token is never raced against by two callers" of one page:
\* the restore on mount and any number of refused calls share one refresh.
NeverRacedByPage ==
  \A p, q \in wire :
    p.kind = "refresh" /\ q.kind = "refresh" /\ p.tab = q.tab /\ p.live /\ q.live => p = q

\* The restore on mount settles: no reload loop, signed in or not.
RestoreEnds == \A t \in Tabs : tabs[t].mounting ~> ~tabs[t].mounting

\* A call comes to an answer or to the log-in page: no call refreshes and
\* retries forever.
CallsEnd == \A t \in Tabs :
  (tabs[t].retry \/ \E q \in wire : q.kind = "call" /\ q.tab = t)
    ~> ~(tabs[t].retry \/ \E q \in wire : q.kind = "call" /\ q.tab = t)

\* One session, one successor: no race, crash or lost answer forks a log-in,
\* and none revives it.
OneSuccessor == RotationKeepsOne /\ LogoutEndsSession /\ NeverRacedByPage

\* No page is left reloading or retrying.
SessionsProgress == RestoreEnds /\ CallsEnd
=============================================================================
