--------------------------- MODULE ClientsProofs ----------------------------
(***************************************************************************)
(* Proofs about what runs in the browser, for any users, tabs, rooms,      *)
(* lists and invitations, and any number of requests and mishaps; and      *)
(* about a deployment, for any migration files, jobs and replicas.         *)
(***************************************************************************)
EXTENDS MCClients, BatchPagesProofs, SequenceTheorems

-----------------------------------------------------------------------------
(* The push channel agrees with the polling endpoint as it was at the
   handshake: an open socket is in exactly the rooms its account called for. *)

ReaderTypes ==
  /\ watchers \in [Watchers -> AccountRows]
  /\ token \in Watchers \cup {NoWatcher}
  /\ socket \in SocketRows
  /\ inbox \subseteq Messages

\* The rooms are the ones the account at the handshake called for, and what is
\* on its way was its reader's to list.
RoomsAreCurrent ==
  /\ socket.state # "open" => socket.rooms = {} /\ inbox = {}
  /\ socket.state \in {"admitted", "open"} => socket.actor.active
  /\ socket.state = "open" => token \in Watchers /\ socket.rooms = RoomsOf(token, socket.actor)
  /\ \A e \in inbox : Listable(token, socket.actor, e)

RealtimeInv == ReaderTypes /\ RoomsAreCurrent /\ SocketKeepsHandshake /\ SocketIsWatchers

\* A socket in the rooms of u gets exactly the alerts u could list.
LEMMA RoomsDecide ==
  ASSUME NEW u \in Watchers, NEW row \in AccountRows, row.active, NEW e \in Messages,
         socket.state = "open", socket.rooms = RoomsOf(u, row)
  PROVE  Receives(e) <=> Listable(u, row, e)
<1>1. e.involved \subseteq Watchers /\ u # NoWatcher
  BY RealtimeAssumption DEF Messages
<1>2. \A t1, t2, w1, w2 : Room(t1, w1) = Room(t2, w2) <=> t1 = t2 /\ w1 = w2
  BY DEF Room
<1> DEFINE called == {OversightRoom(e.tenant)} \cup {Room(e.tenant, w) : w \in e.involved}
<1>3. ActorRoom(u) \in called <=> WatcherTenant(u) = e.tenant /\ u \in e.involved
  BY <1>1, <1>2 DEF ActorRoom, OversightRoom
<1>4. OversightRoom(WatcherTenant(u)) \in called <=> WatcherTenant(u) = e.tenant
  <2>1. \A w \in e.involved : w # NoWatcher
    BY <1>1, RealtimeAssumption
  <2> QED BY <1>2, <2>1 DEF OversightRoom
<1>5. Receives(e) <=> \E room \in RoomsOf(u, row) : room \in called
  BY DEF Receives
<1> HIDE DEF called
<1>6. (\E room \in RoomsOf(u, row) : room \in called)
        <=> ActorRoom(u) \in called \/ (row.oversight /\ OversightRoom(WatcherTenant(u)) \in called)
  BY DEF RoomsOf
<1> QED BY <1>3, <1>4, <1>5, <1>6 DEF Listable

LEMMA RealtimeStart == RealtimeInit => RealtimeInv
<1> SUFFICES ASSUME RealtimeInit PROVE RealtimeInv
  OBVIOUS
<1>1. watchers \in [Watchers -> AccountRows]
  <2>1. [active: {TRUE}, oversight: BOOLEAN] \subseteq AccountRows
    BY DEF AccountRows
  <2> QED BY <2>1 DEF RealtimeInit
<1>2. socket \in SocketRows /\ socket.state = "none" /\ socket.rooms = {}
  BY DEF RealtimeInit, NoSocket, SocketRows, Nobody, AccountRows
<1> QED BY <1>1, <1>2 DEF RealtimeInit, RealtimeInv, ReaderTypes, RoomsAreCurrent, SocketKeepsHandshake, SocketIsWatchers

\* The socket is closed, given up or connecting again: nothing is heard.
LEMMA ClosingKeeps ==
  ASSUME RealtimeInv, watchers' = watchers, token' = token, strays' = strays, missed' = missed,
         inbox' = {}, socket' \in SocketRows, socket'.state \notin {"admitted", "open"},
         socket'.rooms = {}, socket'.auth = socket.auth, token # NoWatcher
  PROVE  RealtimeInv'
  BY DEF RealtimeInv, ReaderTypes, RoomsAreCurrent, SocketKeepsHandshake, SocketIsWatchers

LEMMA TakeTokenKeeps ==
  ASSUME RealtimeInv, NEW u \in Watchers, TakeToken(u)
  PROVE  RealtimeInv'
<1>1. /\ token' = u /\ socket' = [state |-> "connecting", auth |-> u, actor |-> Nobody, rooms |-> {}]
      /\ watchers' = watchers /\ strays' = strays /\ missed' = missed
      /\ inbox' = IF socket' = socket THEN inbox ELSE {}
  BY DEF TakeToken, SocketFor, NoSocket
<1>2. inbox' = {}
  BY <1>1 DEF RealtimeInv, RoomsAreCurrent
<1>3. socket' \in SocketRows
  BY <1>1 DEF SocketRows, Nobody, AccountRows
<1> QED
  BY <1>1, <1>2, <1>3, RealtimeAssumption
     DEF RealtimeInv, ReaderTypes, RoomsAreCurrent, SocketKeepsHandshake, SocketIsWatchers

LEMMA AdmitKeeps ==
  ASSUME RealtimeInv, AdmitSocket
  PROVE  RealtimeInv'
<1>1. /\ socket.state = "connecting" /\ watchers[socket.auth].active
      /\ socket' = [socket EXCEPT !.state = "admitted", !.actor = watchers[socket.auth]]
      /\ token' = token /\ inbox' = inbox /\ watchers' = watchers /\ strays' = strays /\ missed' = missed
  BY DEF AdmitSocket
<1>2. token \in Watchers /\ socket.auth = token /\ inbox = {} /\ socket.rooms = {}
  BY <1>1 DEF RealtimeInv, ReaderTypes, SocketIsWatchers, NoSocket, RoomsAreCurrent
<1>3. watchers[token] \in AccountRows
  BY <1>2 DEF RealtimeInv, ReaderTypes
<1>4. socket' = [state |-> "admitted", auth |-> token, actor |-> watchers[token], rooms |-> {}]
  BY <1>1, <1>2 DEF RealtimeInv, ReaderTypes, SocketRows
<1>5. socket' \in SocketRows
  BY <1>2, <1>3, <1>4 DEF SocketRows
<1>6. ReaderTypes' /\ SocketKeepsHandshake'
  BY <1>1, <1>5 DEF RealtimeInv, ReaderTypes, SocketKeepsHandshake
<1>7. RoomsAreCurrent'
  BY <1>1, <1>2, <1>4 DEF RoomsAreCurrent
<1>8. SocketIsWatchers'
  BY <1>1, <1>2, <1>4, RealtimeAssumption DEF SocketIsWatchers
<1> QED BY <1>6, <1>7, <1>8 DEF RealtimeInv

LEMMA JoinKeeps ==
  ASSUME RealtimeInv, JoinRooms
  PROVE  RealtimeInv'
<1>1. /\ socket.state = "admitted"
      /\ socket' = [socket EXCEPT !.state = "open", !.rooms = RoomsOf(socket.auth, socket.actor)]
      /\ token' = token /\ inbox' = inbox /\ watchers' = watchers /\ strays' = strays /\ missed' = missed
  BY DEF JoinRooms
<1>2. token \in Watchers /\ socket.auth = token /\ inbox = {} /\ socket.actor.active
  BY <1>1 DEF RealtimeInv, ReaderTypes, SocketIsWatchers, NoSocket, RoomsAreCurrent
<1>3. socket' = [state |-> "open", auth |-> token, actor |-> socket.actor, rooms |-> RoomsOf(token, socket.actor)]
  BY <1>1, <1>2 DEF RealtimeInv, ReaderTypes, SocketRows
<1>4. RoomsOf(token, socket.actor) \subseteq Rooms /\ ActorRoom(token) \in RoomsOf(token, socket.actor)
  BY <1>2, RealtimeAssumption DEF RoomsOf, ActorRoom, OversightRoom, Room, Rooms
<1>5. ReaderTypes'
  BY <1>1, <1>2, <1>3, <1>4 DEF RealtimeInv, ReaderTypes, SocketRows
<1>6. RoomsAreCurrent'
  BY <1>1, <1>2, <1>3 DEF RoomsAreCurrent, RoomsOf, ActorRoom, OversightRoom
<1>7. SocketKeepsHandshake' /\ SocketIsWatchers'
  BY <1>1, <1>2, <1>3, <1>4, RealtimeAssumption DEF RealtimeInv, SocketKeepsHandshake, SocketIsWatchers, ActorRoom
<1> QED BY <1>5, <1>6, <1>7 DEF RealtimeInv

LEMMA CutKeeps ==
  ASSUME RealtimeInv, RefuseSocket \/ CutSocket \/ GoodBye
  PROVE  RealtimeInv'
<1>1. /\ watchers' = watchers /\ token' = token /\ strays' = strays /\ missed' = missed
      /\ socket \in SocketRows
  BY DEF RefuseSocket, CutSocket, GoodBye, RealtimeInv, ReaderTypes
<1>2. token = NoWatcher => socket = NoSocket /\ inbox = {}
  BY DEF RealtimeInv, SocketIsWatchers
<1>3. CASE RefuseSocket
  <2>1. /\ socket.state = "connecting" /\ socket' = [socket EXCEPT !.state = "given_up"] /\ inbox' = inbox
    BY <1>3 DEF RefuseSocket
  <2>2. inbox = {} /\ socket.rooms = {} /\ token # NoWatcher
    BY <1>2, <2>1 DEF RealtimeInv, RoomsAreCurrent, NoSocket
  <2>3. /\ socket' \in SocketRows /\ socket'.state = "given_up" /\ socket'.rooms = {} /\ socket'.auth = socket.auth
    BY <1>1, <2>1, <2>2 DEF SocketRows
  <2> QED BY <1>1, <2>1, <2>2, <2>3, ClosingKeeps
<1>4. ASSUME NEW to \in {"connecting", "given_up"}, socket' = Disconnected(to), inbox' = {}, socket.state # "none"
      PROVE  RealtimeInv'
  <2>1. token # NoWatcher
    BY <1>2, <1>4 DEF NoSocket
  <2>2. socket' = [state |-> to, auth |-> socket.auth, actor |-> Nobody, rooms |-> {}]
    BY <1>4 DEF Disconnected, NoSocket
  <2>3. socket' \in SocketRows
    BY <1>1, <2>2 DEF SocketRows, Nobody, AccountRows
  <2> QED BY <1>1, <1>4, <2>1, <2>2, <2>3, ClosingKeeps
<1>5. CASE CutSocket /\ socket.state \notin {"admitted", "open"}
  <2>1. socket' = socket /\ inbox' = {}
    BY <1>5 DEF CutSocket
  <2> QED BY <1>1, <1>5, <2>1 DEF RealtimeInv, ReaderTypes, RoomsAreCurrent, SocketKeepsHandshake, SocketIsWatchers
<1>6. CASE CutSocket /\ socket.state \in {"admitted", "open"}
  BY <1>4, <1>6 DEF CutSocket
<1>7. CASE GoodBye
  BY <1>4, <1>7 DEF GoodBye
<1> QED BY <1>3, <1>5, <1>6, <1>7

LEMMA EmitKeeps ==
  ASSUME RealtimeInv, NEW e \in Messages, Emit(e)
  PROVE  RealtimeInv'
<1>1. /\ watchers' = watchers /\ token' = token /\ socket' = socket /\ strays' = strays
      /\ inbox' = IF Receives(e) THEN inbox \cup {e} ELSE inbox
      /\ missed' = missed \cup
           {<<e.alert, v>> : v \in {v \in Views : socket.state = "open" /\ ListableBy(v, e) /\ ~Receives(e)}}
  BY DEF Emit
<1>2. Receives(e) => socket.state = "open"
  BY DEF Receives
<1>3. socket.state = "open" => (Receives(e) <=> Listable(token, socket.actor, e))
  BY RoomsDecide DEF RealtimeInv, RoomsAreCurrent, ReaderTypes, SocketRows
<1>4. SocketKeepsHandshake'
  <2>1. socket.state = "open" /\ ListableBy("handshake", e) => Receives(e)
    BY <1>3 DEF ListableBy, ViewOf
  <2>2. ASSUME NEW d \in missed', d \notin missed PROVE d[2] = "now"
    <3>1. PICK v \in Views : d = <<e.alert, v>> /\ socket.state = "open" /\ ListableBy(v, e) /\ ~Receives(e)
      BY <1>1, <2>2
    <3> QED BY <2>1, <3>1 DEF Views
  <2> QED BY <1>1, <2>2 DEF RealtimeInv, SocketKeepsHandshake
<1>5. ReaderTypes'
  BY <1>1 DEF RealtimeInv, ReaderTypes
<1>6. SocketIsWatchers'
  <2>1. token = NoWatcher => socket.state # "open"
    BY DEF RealtimeInv, SocketIsWatchers, NoSocket
  <2> QED BY <1>1, <1>2, <2>1 DEF RealtimeInv, SocketIsWatchers
<1>7. RoomsAreCurrent'
  <2>1. ASSUME NEW x \in inbox' PROVE Listable(token, socket.actor, x)
    BY <1>1, <1>2, <1>3 DEF RealtimeInv, RoomsAreCurrent
  <2>2. socket'.state # "open" => inbox' = {} /\ socket'.rooms = {}
    BY <1>1, <1>2 DEF RealtimeInv, RoomsAreCurrent
  <2> QED BY <1>1, <2>1, <2>2 DEF RealtimeInv, RoomsAreCurrent
<1> QED BY <1>4, <1>5, <1>6, <1>7 DEF RealtimeInv

LEMMA HearKeeps ==
  ASSUME RealtimeInv, NEW e \in inbox, HearAlert(e)
  PROVE  RealtimeInv'
<1>1. /\ watchers' = watchers /\ token' = token /\ socket' = socket /\ missed' = missed
      /\ inbox' = inbox \ {e}
      /\ strays' = strays \cup {<<e.alert, v>> : v \in {v \in Views : ~ListableBy(v, e)}}
  BY DEF HearAlert
<1>2. ListableBy("handshake", e)
  BY DEF ListableBy, ViewOf, RealtimeInv, RoomsAreCurrent
<1>3. SocketKeepsHandshake'
  <2>1. ASSUME NEW d \in strays', d \notin strays PROVE d[2] = "now"
    <3>1. PICK v \in Views : d = <<e.alert, v>> /\ ~ListableBy(v, e)
      BY <1>1, <2>1
    <3> QED BY <1>2, <3>1 DEF Views
  <2> QED BY <1>1, <2>1 DEF RealtimeInv, SocketKeepsHandshake
<1>4. RoomsAreCurrent'
  BY <1>1 DEF RealtimeInv, RoomsAreCurrent
<1> QED BY <1>1, <1>3, <1>4 DEF RealtimeInv, ReaderTypes, SocketIsWatchers

\* A change of the reader's account, which the socket does not look at.
LEMMA ChangeKeeps ==
  ASSUME RealtimeInv, NEW u \in Watchers, ChangeAccount(u)
  PROVE  RealtimeInv'
<1>1. /\ watchers' \in [Watchers -> AccountRows] /\ token' = token /\ socket' = socket /\ inbox' = inbox
      /\ strays' = strays /\ missed' = missed
  BY DEF ChangeAccount, RealtimeInv, ReaderTypes
<1> QED BY <1>1 DEF RealtimeInv, ReaderTypes, RoomsAreCurrent, SocketKeepsHandshake, SocketIsWatchers

LEMMA RealtimeKept == RealtimeInv /\ [RealtimeNext]_alertVars => RealtimeInv'
<1> SUFFICES ASSUME RealtimeInv, [RealtimeNext]_alertVars PROVE RealtimeInv'
  OBVIOUS
<1>1. ASSUME UNCHANGED <<watchers, token, socket, inbox, strays, missed>> PROVE RealtimeInv'
  BY <1>1 DEF RealtimeInv, ReaderTypes, RoomsAreCurrent, SocketKeepsHandshake, SocketIsWatchers
<1>2. CASE DropSocket
  <2>1. /\ token' = NoWatcher /\ socket' = NoSocket /\ inbox' = {} /\ watchers' = watchers
        /\ strays' = strays /\ missed' = missed
    BY <1>2 DEF DropSocket
  <2>2. NoSocket \in SocketRows /\ NoSocket.state = "none" /\ NoSocket.rooms = {}
    BY DEF NoSocket, SocketRows, Nobody, AccountRows
  <2> QED BY <2>1, <2>2 DEF RealtimeInv, ReaderTypes, RoomsAreCurrent, SocketKeepsHandshake, SocketIsWatchers
<1>3. CASE ServerStarts \/ ExpireToken \/ (\E t \in toasts : ToastOver(t)) \/ UNCHANGED alertVars
  BY <1>1, <1>3 DEF ServerStarts, ExpireToken, ToastOver, alertVars
<1> QED
  BY <1>2, <1>3, TakeTokenKeeps, AdmitKeeps, JoinKeeps, CutKeeps, EmitKeeps, HearKeeps, ChangeKeeps DEF RealtimeNext

\* Whatever breaks, restarts, log-ins over another session or changes of
\* accounts come between: with the account as it was when the socket was
\* admitted, what a page hears is what its reader could list, an open socket
\* misses nothing of it, and nobody hears over another's socket.
THEOREM AlertsReachTheirWatchers == RealtimeSpec => []AlertsAreTheWatchers
<1>1. RealtimeInv => AlertsAreTheWatchers
  BY DEF RealtimeInv, AlertsAreTheWatchers
<1> QED BY <1>1, RealtimeStart, RealtimeKept, PTL DEF RealtimeSpec

-----------------------------------------------------------------------------
(* Sessions *)

\* What requests at each place carry.
GoodRows ==
  {q \in WireRows :
     /\ q.at = "checked" =>
          q.kind \in {"refresh", "login"} /\ q.user \in Users /\ q.login \in Logins
     /\ q.kind = "refresh" /\ q.at = "ok" => q.user \in Users
     /\ q.at = "sent" => (q.login \in Logins <=> q.kind = "login")}

\* The log-in may still be given a token by this request.
Bears(q) == q.at \in {"sent", "checked"} /\ q.login \in Logins

\* Nothing on either side can continue the log-in.
Over(l) ==
  /\ \A k \in DOMAIN tokens : tokens[k].login # l
  /\ \A q \in wire : Bears(q) => q.login # l

\* One holder of a log-in at most, token or request.
OneHolder ==
  /\ \A j, k \in DOMAIN tokens : tokens[j].login = tokens[k].login => j = k
  /\ \A q \in wire : Bears(q) =>
       /\ \A k \in DOMAIN tokens : tokens[k].login # q.login
       /\ \A p \in wire : Bears(p) /\ p.login = q.login => p = q
  /\ \A l \in logins \cup ended : Over(l)
  /\ logins \cap ended = {}

\* All that a browser keeps is of one user, log-ins under way apart.
Of(u, q) ==
  q.kind = "refresh" =>
    /\ q.token \in DOMAIN tokens => tokens[q.token].owner = u
    /\ q.user \in {u, NoUser}

OnlyUser(u) ==
  /\ cookie \in DOMAIN tokens => tokens[cookie].owner = u
  /\ \A q \in wire : Of(u, q)
  /\ \A t \in Tabs : tabs[t].view \in {u, NoUser} /\ tabs[t].access \in {u, NoUser}

OneUser == mixed \/ \E u \in Users \cup {NoUser} : OnlyUser(u)

SessionsTyped == SessionsTypeOK /\ wire \subseteq GoodRows

SessionsInv == SessionsTyped /\ OneHolder /\ NeverRacedByPage /\ OneUser /\ ActsAsShown

-----------------------------------------------------------------------------
(* Sessions: how requests move on *)

\* A request after a step that does not continue a log-in.
Same(p, q) ==
  /\ p.kind = q.kind /\ p.tab = q.tab /\ (p.live => q.live)
  /\ Bears(p) => Bears(q) /\ p.login = q.login
  /\ p.kind = "refresh" => p.token = q.token /\ p.user = q.user

\* Every request is an earlier one, moved on by f, or a new one.
Moved(f, N) ==
  /\ wire' \subseteq GoodRows
  /\ \A n \in N : ~Bears(n) /\ (n.kind = "refresh" => n.token = cookie /\ n.user = NoUser)
  /\ \A p \in wire' \ N : \E q \in wire : p = f[q] /\ Same(p, q)
  /\ \A n \in N : n.kind = "refresh" =>
       \A p \in wire' : p.kind = "refresh" /\ p.tab = n.tab /\ p.live => p = n

TokensShrink ==
  DOMAIN tokens' \subseteq DOMAIN tokens /\ \A k \in DOMAIN tokens' : tokens'[k] = tokens[k]

LEMMA BlankRows ==
  ASSUME NEW t \in Tabs, NEW kind \in {"refresh", "login", "logout", "call"}
  PROVE  Blank(t, kind) \in WireRows
  BY DEF Blank, WireRows

LEMMA RequestRows ==
  ASSUME SessionsTyped, NEW t \in Tabs
  PROVE  /\ RefreshRequest(t) \in GoodRows /\ ~Bears(RefreshRequest(t))
         /\ RefreshRequest(t).kind = "refresh" /\ RefreshRequest(t).tab = t /\ RefreshRequest(t).live
         /\ RefreshRequest(t).token = cookie /\ RefreshRequest(t).user = NoUser
<1>1. cookie \in Tokens \cup {NoToken}
  BY DEF SessionsTyped, SessionsTypeOK
<1> QED BY <1>1, SessionsAssumption DEF RefreshRequest, Blank, GoodRows, WireRows, Bears

LEMMA CallRows ==
  ASSUME NEW t \in Tabs, NEW u \in Users \cup {NoUser}, NEW fresh \in BOOLEAN, NEW again \in BOOLEAN
  PROVE  LET row == [Blank(t, "call") EXCEPT !.user = u, !.fresh = fresh, !.retried = again]
         IN row \in GoodRows /\ ~Bears(row) /\ row.kind = "call"
  BY SessionsAssumption DEF Blank, GoodRows, WireRows, Bears

LEMMA LostRows ==
  ASSUME NEW q \in GoodRows
  PROVE  LET p == [q EXCEPT !.live = FALSE] IN p \in GoodRows /\ Same(p, q) /\ ~p.live
  BY DEF GoodRows, WireRows, Same, Bears

LEMMA AnsweredRows ==
  ASSUME NEW q \in GoodRows, NEW at \in {"ok", "refused", "failed"},
         at = "ok" => q.kind \in {"logout", "call"}
  PROVE  LET p == [q EXCEPT !.at = at] IN p \in GoodRows /\ Same(p, q) /\ ~Bears(p)
  BY DEF GoodRows, WireRows, Same, Bears

LEMMA LoadMoves ==
  ASSUME SessionsInv, NEW t \in Tabs, Load(t)
  PROVE  /\ Moved([q \in wire |-> IF q.tab = t THEN [q EXCEPT !.live = FALSE] ELSE q], {RefreshRequest(t)})
         /\ tabs' \in [Tabs -> TabRows]
<1> DEFINE f == [q \in wire |-> IF q.tab = t THEN [q EXCEPT !.live = FALSE] ELSE q]
           n == RefreshRequest(t)
<1>1. wire \subseteq GoodRows /\ tabs \in [Tabs -> TabRows]
  BY DEF SessionsInv, SessionsTyped, SessionsTypeOK
<1>2. n \in GoodRows /\ ~Bears(n) /\ n.kind = "refresh" /\ n.tab = t /\ n.token = cookie /\ n.user = NoUser
  BY RequestRows DEF SessionsInv
<1>3. ASSUME NEW p \in PageGone(t)
      PROVE  p \in GoodRows /\ (p.tab = t => ~p.live) /\ \E q \in wire : p = f[q] /\ Same(p, q)
  <2>1. PICK q \in wire : p = IF q.tab = t THEN [q EXCEPT !.live = FALSE] ELSE q
    BY DEF PageGone
  <2>2. p = f[q] /\ q \in GoodRows
    BY <1>1, <2>1
  <2>3. CASE q.tab = t
    BY <2>1, <2>2, <2>3, LostRows
  <2>4. CASE q.tab # t
    BY <2>1, <2>2, <2>4 DEF Same
  <2> QED BY <2>2, <2>3, <2>4
<1>4. wire' = PageGone(t) \cup {n}
  BY DEF Load
<1>5. Loading \in TabRows
  BY DEF Loading, TabRows
<1>6. tabs' \in [Tabs -> TabRows]
  BY <1>1, <1>5 DEF Load
<1> HIDE DEF f, n
<1>7. wire' \subseteq GoodRows
  BY <1>2, <1>3, <1>4
<1>8. \A p \in wire' \ {n} : \E q \in wire : p = f[q] /\ Same(p, q)
  BY <1>3, <1>4
<1>9. \A p \in wire' : p.tab = t /\ p.live => p = n
  BY <1>3, <1>4
<1>10. Moved(f, {n})
  BY <1>2, <1>7, <1>8, <1>9 DEF Moved
<1> QED BY <1>6, <1>10 DEF f, n

LEMMA ReplacedMoves ==
  ASSUME SessionsInv, NEW q \in wire, NEW r \in GoodRows, Same(r, q), Replaced(q, r)
  PROVE  Moved([p \in wire |-> IF p = q THEN r ELSE p], {})
<1> DEFINE f == [p \in wire |-> IF p = q THEN r ELSE p]
<1>1. wire \subseteq GoodRows /\ wire' \subseteq (wire \ {q}) \cup {r}
  BY DEF SessionsInv, SessionsTyped, Replaced
<1>2. ASSUME NEW p \in wire' PROVE \E o \in wire : p = f[o] /\ Same(p, o)
  <2>1. CASE p \in wire \ {q}
    BY <2>1 DEF Same
  <2>2. CASE p = r
    BY <2>2
  <2> QED BY <1>1, <2>1, <2>2
<1> HIDE DEF f
<1>3. Moved(f, {})
  BY <1>1, <1>2 DEF Moved
<1> QED BY <1>3 DEF f

LEMMA AddedMoves ==
  ASSUME SessionsInv, NEW N, N \subseteq GoodRows, wire' \subseteq wire \cup N,
         \A n \in N : ~Bears(n) /\ (n.kind = "refresh" =>
           n.token = cookie /\ n.user = NoUser
           /\ \A p \in wire' : p.kind = "refresh" /\ p.tab = n.tab /\ p.live => p = n)
  PROVE  Moved([p \in wire |-> p], N)
<1> DEFINE f == [p \in wire |-> p]
<1>1. wire \subseteq GoodRows
  BY DEF SessionsInv, SessionsTyped
<1>2. \A p \in wire' \ N : \E q \in wire : p = f[q] /\ Same(p, q)
  BY DEF Same
<1> HIDE DEF f
<1>3. Moved(f, N)
  BY <1>1, <1>2 DEF Moved
<1> QED BY <1>3 DEF f

-----------------------------------------------------------------------------
(* Sessions: what such a step keeps *)

LEMMA MovedKeepsHolders ==
  ASSUME SessionsInv, NEW f, NEW N, Moved(f, N), TokensShrink, UNCHANGED logins,
         ended \subseteq ended', \A l \in ended' \ ended : Over(l)' /\ l \notin logins
  PROVE  OneHolder'
<1>1. OneHolder
  BY DEF SessionsInv
<1>2. \A p \in wire' : Bears(p) => \E q \in wire : p = f[q] /\ Bears(q) /\ p.login = q.login
  BY DEF Moved, Same
<1>3. \A j, k \in DOMAIN tokens' : tokens'[j].login = tokens'[k].login => j = k
  BY <1>1 DEF OneHolder, TokensShrink
<1>4. ASSUME NEW q \in wire', Bears(q)
      PROVE  /\ \A k \in DOMAIN tokens' : tokens'[k].login # q.login
             /\ \A p \in wire' : Bears(p) /\ p.login = q.login => p = q
  <2>1. PICK o \in wire : q = f[o] /\ Bears(o) /\ q.login = o.login
    BY <1>2, <1>4
  <2>2. \A k \in DOMAIN tokens' : tokens'[k].login # q.login
    BY <1>1, <2>1 DEF OneHolder, TokensShrink
  <2>3. ASSUME NEW p \in wire', Bears(p), p.login = q.login PROVE p = q
    <3>1. PICK m \in wire : p = f[m] /\ Bears(m) /\ p.login = m.login
      BY <1>2, <2>3
    <3>2. m = o
      BY <1>1, <2>1, <2>3, <3>1 DEF OneHolder
    <3> QED BY <2>1, <3>1, <3>2
  <2> QED BY <2>2, <2>3
<1>5. \A l \in logins' \cup ended' : Over(l)'
  <2>1. \A l : Over(l) => Over(l)'
    BY <1>2 DEF Over, TokensShrink, Bears
  <2> QED BY <1>1, <2>1 DEF OneHolder
<1>6. logins' \cap ended' = {}
  BY <1>1 DEF OneHolder
<1>7. \A q \in wire' : Bears(q)' => Bears(q)
  BY DEF Bears
<1> QED BY <1>3, <1>4, <1>5, <1>6, <1>7 DEF OneHolder, Bears

LEMMA MovedKeepsOneRefresh ==
  ASSUME SessionsInv, NEW f, NEW N, Moved(f, N)
  PROVE  NeverRacedByPage'
<1> SUFFICES ASSUME NEW p \in wire', NEW q \in wire', p.kind = "refresh", q.kind = "refresh",
                    p.tab = q.tab, p.live, q.live
             PROVE  p = q
  BY DEF NeverRacedByPage
<1>1. CASE p \in N \/ q \in N
  BY <1>1 DEF Moved
<1>2. CASE p \notin N /\ q \notin N
  <2>1. PICK o \in wire : p = f[o] /\ Same(p, o)
    BY <1>2 DEF Moved
  <2>2. PICK m \in wire : q = f[m] /\ Same(q, m)
    BY <1>2 DEF Moved
  <2>3. o = m
    BY <2>1, <2>2 DEF Same, SessionsInv, NeverRacedByPage
  <2> QED BY <2>1, <2>2, <2>3
<1> QED BY <1>1, <1>2

\* The requests stay one user's, if the cookie they go with is.
LEMMA MovedKeepsOwner ==
  ASSUME SessionsInv, NEW f, NEW N, Moved(f, N), TokensShrink, NEW u, OnlyUser(u)
  PROVE  \A q \in wire' : Of(u, q)'
<1> SUFFICES ASSUME NEW q \in wire', q.kind = "refresh"
             PROVE  /\ q.token \in DOMAIN tokens' => tokens'[q.token].owner = u
                    /\ q.user \in {u, NoUser}
  BY DEF Of
<1>1. CASE q \in N
  BY <1>1 DEF Moved, OnlyUser, TokensShrink
<1>2. CASE q \notin N
  <2>1. PICK o \in wire : Same(q, o)
    BY <1>2 DEF Moved
  <2>2. Of(u, o) /\ o.kind = "refresh" /\ q.token = o.token /\ q.user = o.user
    BY <2>1 DEF OnlyUser, Same
  <2> QED BY <2>2 DEF Of, TokensShrink
<1> QED BY <1>1, <1>2

\* A tab shows and acts for whom it did, or shows nobody any more.
TabsQuiet ==
  /\ tabs' \in [Tabs -> TabRows]
  /\ \A t \in Tabs :
       /\ tabs'[t].view \in {tabs[t].view, NoUser} /\ tabs'[t].access \in {tabs[t].access, NoUser}
       /\ tabs'[t].view # NoUser => tabs'[t].access = tabs[t].access

RestTyped ==
  /\ DOMAIN tokens' \subseteq Tokens /\ tokens' \in [DOMAIN tokens' -> TokenRows]
  /\ active' \subseteq Users /\ cookie' \in Tokens \cup {NoToken}
  /\ logins' \subseteq Logins /\ mishaps' \in 0..MaxMishaps
  /\ ended' \subseteq Logins /\ mixed' \in BOOLEAN

LEMMA RestUnchanged ==
  ASSUME SessionsInv, UNCHANGED <<tokens, active, cookie, logins, ended, mixed>>,
         Mishap \/ UNCHANGED mishaps
  PROVE  RestTyped /\ TokensShrink
<1>1. mishaps' \in 0..MaxMishaps
  BY SessionsAssumption DEF SessionsInv, SessionsTyped, SessionsTypeOK, Mishap
<1> QED BY <1>1 DEF SessionsInv, SessionsTyped, SessionsTypeOK, RestTyped, TokensShrink

LEMMA QuietKeeps ==
  ASSUME SessionsInv, NEW f, NEW N, Moved(f, N), RestTyped, TokensShrink, TabsQuiet,
         UNCHANGED <<logins, mixed>>, cookie' \in {cookie, NoToken},
         ended \subseteq ended', \A l \in ended' \ ended : Over(l)' /\ l \notin logins
  PROVE  SessionsInv'
<1>1. SessionsTyped'
  <2>1. wire' \subseteq GoodRows
    BY DEF Moved
  <2>2. wire' \subseteq WireRows
    BY <2>1 DEF GoodRows
  <2> QED BY <2>1, <2>2 DEF SessionsTyped, SessionsTypeOK, RestTyped, TabsQuiet, GoodRows
<1>2. OneHolder' /\ NeverRacedByPage'
  BY MovedKeepsHolders, MovedKeepsOneRefresh
<1>3. OneUser'
  <2>1. ASSUME NEW u \in Users \cup {NoUser}, OnlyUser(u) PROVE OnlyUser(u)'
    <3>1. \A q \in wire' : Of(u, q)'
      BY <2>1, MovedKeepsOwner
    <3>2. cookie' \in DOMAIN tokens' => tokens'[cookie'].owner = u
      BY <2>1, SessionsAssumption DEF OnlyUser, TokensShrink, RestTyped
    <3>3. \A t \in Tabs : tabs'[t].view \in {u, NoUser} /\ tabs'[t].access \in {u, NoUser}
      BY <2>1 DEF OnlyUser, TabsQuiet
    <3> QED BY <3>1, <3>2, <3>3 DEF OnlyUser
  <2> QED BY <2>1 DEF OneUser, SessionsInv
<1>4. ActsAsShown'
  BY DEF TabsQuiet, ActsAsShown, SessionsInv
<1> QED BY <1>1, <1>2, <1>3, <1>4 DEF SessionsInv

LEMMA TabsUnchanged ==
  ASSUME SessionsInv, UNCHANGED tabs
  PROVE  TabsQuiet
  BY DEF SessionsInv, SessionsTyped, SessionsTypeOK, TabsQuiet

LEMMA LoadIsQuiet ==
  ASSUME SessionsInv, NEW t \in Tabs, Load(t)
  PROVE  TabsQuiet
<1>1. tabs' \in [Tabs -> TabRows]
  BY LoadMoves
<1>2. tabs \in [Tabs -> TabRows]
  BY DEF SessionsInv, SessionsTyped, SessionsTypeOK
<1> QED BY <1>1, <1>2 DEF Load, Loading, TabsQuiet

LEMMA StandsStill ==
  ASSUME SessionsInv, UNCHANGED wire
  PROVE  Moved([p \in wire |-> p], {})
  BY AddedMoves

-----------------------------------------------------------------------------
(* Sessions: the user *)

LEMMA OpenKeeps ==
  ASSUME SessionsInv, NEW t \in Tabs, Open(t) \/ Reload(t)
  PROVE  SessionsInv'
<1>1. Load(t) /\ UNCHANGED <<tokens, active, cookie, logins, ended, mixed>> /\ (Mishap \/ UNCHANGED mishaps)
  BY DEF Open, Reload
<1> QED BY <1>1, RestUnchanged, LoadMoves, LoadIsQuiet, QuietKeeps

LEMMA SubmitLoginKeeps ==
  ASSUME SessionsInv, NEW t \in Tabs, NEW u \in Users, SubmitLogin(t, u)
  PROVE  SessionsInv'
<1>1. PICK l \in logins :
        /\ logins' = logins \ {l}
        /\ wire' = wire \cup {[Blank(t, "login") EXCEPT !.user = u, !.login = l]}
        /\ UNCHANGED <<tokens, active, cookie, tabs, mishaps, ended, mixed>>
  BY DEF SubmitLogin
<1>2. l \in Logins /\ SessionsTypeOK /\ wire \subseteq GoodRows
  BY DEF SessionsInv, SessionsTyped, SessionsTypeOK
<1>3. PICK n \in GoodRows : wire' = wire \cup {n} /\ n.login = l /\ n.kind = "login"
  <2> DEFINE n == [Blank(t, "login") EXCEPT !.user = u, !.login = l]
  <2>1. n \in GoodRows /\ n.login = l /\ n.kind = "login"
    BY <1>2 DEF Blank, GoodRows, WireRows
  <2> QED BY <1>1, <2>1
<1>4. SessionsTyped'
  <2>1. wire' \subseteq GoodRows
    BY <1>2, <1>3
  <2>2. wire' \subseteq WireRows
    BY <2>1 DEF GoodRows
  <2> QED BY <1>1, <1>2, <2>1, <2>2 DEF SessionsTyped, SessionsTypeOK, GoodRows
<1>5. OneHolder'
  <2>1. OneHolder /\ Over(l) /\ UNCHANGED <<tokens, ended>> /\ logins' \subseteq logins /\ l \notin logins' \cup ended'
    BY <1>1 DEF SessionsInv, OneHolder
  <2>2. \A q \in wire' : Bears(q) =>
          /\ \A k \in DOMAIN tokens' : tokens'[k].login # q.login
          /\ \A p \in wire' : Bears(p) /\ p.login = q.login => p = q
    BY <1>3, <2>1 DEF OneHolder, Over
  <2>3. \A m \in logins' \cup ended' : Over(m)'
    BY <1>3, <2>1 DEF OneHolder, Over, Bears
  <2> QED BY <2>1, <2>2, <2>3 DEF OneHolder, Bears
<1>6. NeverRacedByPage' /\ OneUser' /\ ActsAsShown'
  BY <1>1, <1>3 DEF SessionsInv, NeverRacedByPage, OneUser, OnlyUser, Of, ActsAsShown
<1> QED BY <1>4, <1>5, <1>6 DEF SessionsInv

LEMMA LogoutKeeps ==
  ASSUME SessionsInv, NEW t \in Tabs, Logout(t)
  PROVE  SessionsInv'
<1> DEFINE n == [Blank(t, "logout") EXCEPT !.token = cookie]
<1>1. wire' = wire \cup {n} /\ UNCHANGED <<tokens, active, cookie, logins, mishaps, ended, mixed>>
  BY DEF Logout
<1>2. SessionsTypeOK
  BY DEF SessionsInv, SessionsTyped
<1>3. n \in GoodRows /\ ~Bears(n) /\ n.kind = "logout"
  BY <1>2, SessionsAssumption DEF SessionsTypeOK, Blank, GoodRows, WireRows, Bears
<1> HIDE DEF n
<1>4. Moved([p \in wire |-> p], {n})
  BY <1>1, <1>3, AddedMoves
<1>5. TabsQuiet
  <2>1. ClearedTab(t) \in TabRows /\ ClearedTab(t).view = NoUser /\ ClearedTab(t).access = NoUser
    BY <1>2 DEF SessionsTypeOK, ClearedTab, TabRows
  <2> HIDE DEF ClearedTab
  <2> QED BY <1>2, <2>1 DEF SessionsTypeOK, Logout, TabsQuiet
<1> QED BY <1>1, <1>4, <1>5, RestUnchanged, QuietKeeps

LEMMA CallKeeps ==
  ASSUME SessionsInv, NEW t \in Tabs, Call(t)
  PROVE  SessionsInv'
<1>1. /\ wire' = wire \cup {CallRequest(t, FALSE)}
      /\ UNCHANGED <<tokens, active, cookie, tabs, logins, mishaps, ended, mixed>>
  BY DEF Call
<1>2. tabs[t].access \in Users \cup {NoUser} /\ tabs[t].fresh \in BOOLEAN
  BY DEF SessionsInv, SessionsTyped, SessionsTypeOK, TabRows
<1>3. CallRequest(t, FALSE) \in GoodRows /\ ~Bears(CallRequest(t, FALSE)) /\ CallRequest(t, FALSE).kind = "call"
  BY <1>2, CallRows DEF CallRequest
<1>4. Moved([p \in wire |-> p], {CallRequest(t, FALSE)})
  BY <1>1, <1>3, AddedMoves
<1> QED BY <1>1, <1>4, TabsUnchanged, RestUnchanged, QuietKeeps

-----------------------------------------------------------------------------
(* Sessions: the server *)

\* A request that is refused, failed, or answered without a token.
LEMMA AnsweredKeeps ==
  ASSUME SessionsInv, NEW q \in wire, NEW at \in {"ok", "refused", "failed"},
         at = "ok" => q.kind \in {"logout", "call"}, Answered(q, at),
         UNCHANGED <<tokens, active, cookie, tabs, logins, ended, mixed>>, Mishap \/ UNCHANGED mishaps
  PROVE  SessionsInv'
<1>1. q \in GoodRows
  BY DEF SessionsInv, SessionsTyped
<1>2. PICK r \in GoodRows : Same(r, q) /\ Replaced(q, r)
  BY <1>1, AnsweredRows DEF Answered
<1>3. Moved([p \in wire |-> IF p = q THEN r ELSE p], {})
  BY <1>2, ReplacedMoves
<1> QED BY <1>3, TabsUnchanged, RestUnchanged, QuietKeeps

LEMMA CheckLoginKeeps ==
  ASSUME SessionsInv, NEW q \in wire, CheckLogin(q)
  PROVE  SessionsInv'
<1>1. q \in GoodRows /\ q.kind = "login" /\ q.at = "sent" /\ active \subseteq Users
      /\ UNCHANGED <<tokens, active, cookie, tabs, logins, mishaps, ended, mixed>>
  BY DEF SessionsInv, SessionsTyped, SessionsTypeOK, CheckLogin
<1>2. CASE Answered(q, "refused")
  BY <1>1, <1>2, AnsweredKeeps
<1>3. CASE q.user \in active /\ Answered(q, "checked")
  <2> DEFINE r == [q EXCEPT !.at = "checked"]
  <2>1. r \in GoodRows /\ Same(r, q)
    BY <1>1, <1>3 DEF GoodRows, WireRows, Same, Bears
  <2>2. Replaced(q, r)
    BY <1>3 DEF Answered
  <2>3. PICK p \in GoodRows : Same(p, q) /\ Replaced(q, p)
    BY <2>1, <2>2
  <2>4. Moved([o \in wire |-> IF o = q THEN p ELSE o], {})
    BY <2>3, ReplacedMoves
  <2> QED BY <1>1, <2>4, TabsUnchanged, RestUnchanged, QuietKeeps
<1> QED BY <1>2, <1>3 DEF CheckLogin

\* A request put in another's place: one refresh to a page still.
LEMMA ReplacedKeepsOneRefresh ==
  ASSUME SessionsInv, NEW q \in wire, NEW r, r.kind = q.kind, r.tab = q.tab, r.live = q.live,
         Replaced(q, r)
  PROVE  NeverRacedByPage'
  BY DEF SessionsInv, NeverRacedByPage, Replaced

LEMMA ServeRefreshKeeps ==
  ASSUME SessionsInv, NEW q \in wire, ServeRefresh(q)
  PROVE  SessionsInv'
<1>1. q \in GoodRows /\ q.kind = "refresh" /\ q.at = "sent" /\ SessionsTypeOK /\ wire \subseteq GoodRows
      /\ UNCHANGED <<active, cookie, tabs, logins, mishaps, ended, mixed>>
  BY DEF SessionsInv, SessionsTyped, ServeRefresh
<1>2. CASE q.token \notin DOMAIN tokens
  BY <1>1, <1>2, AnsweredKeeps DEF ServeRefresh
<1>3. CASE q.token \in DOMAIN tokens
  <2> DEFINE row == tokens[q.token]
             r == [q EXCEPT !.at = "checked", !.token = NoToken, !.user = row.owner, !.login = row.login]
  <2>1. row.owner \in Users /\ row.login \in Logins /\ tokens \in [DOMAIN tokens -> TokenRows]
    BY <1>1, <1>3 DEF SessionsTypeOK, TokenRows
  <2>2. /\ tokens' = [k \in DOMAIN tokens \ {q.token} |-> tokens[k]] /\ Replaced(q, r)
    BY <1>3 DEF ServeRefresh, Consumes
  <2>3. /\ r \in GoodRows /\ r.kind = "refresh" /\ r.tab = q.tab /\ r.live = q.live
        /\ r.token = NoToken /\ r.user = row.owner /\ r.login = row.login
    BY <1>1, <2>1 DEF GoodRows, WireRows
  <2> HIDE DEF r
  <2>4. wire' \subseteq (wire \ {q}) \cup {r}
    BY <2>2 DEF Replaced
  <2>5. /\ DOMAIN tokens' = DOMAIN tokens \ {q.token} /\ \A k \in DOMAIN tokens' : tokens'[k] = tokens[k]
        /\ tokens' \in [DOMAIN tokens' -> TokenRows]
    BY <2>1, <2>2
  <2>6. SessionsTyped'
    <3>1. wire' \subseteq GoodRows
      BY <1>1, <2>3, <2>4
    <3>2. wire' \subseteq WireRows
      BY <3>1 DEF GoodRows
    <3> QED BY <1>1, <2>5, <3>1, <3>2 DEF SessionsTyped, SessionsTypeOK, GoodRows
  <2>7. OneHolder'
    <3>1. OneHolder
      BY DEF SessionsInv
    <3>2. \A k \in DOMAIN tokens' : tokens'[k].login # row.login
      BY <1>3, <2>5, <3>1 DEF OneHolder
    <3>3. \A p \in wire : Bears(p) => p.login # row.login
      BY <1>3, <3>1 DEF OneHolder
    <3>4. \A l \in logins' \cup ended' : l # row.login
      BY <1>1, <1>3, <3>1 DEF OneHolder, Over
    <3> HIDE DEF row
    <3>5. \A p \in wire' : Bears(p) =>
            /\ \A k \in DOMAIN tokens' : tokens'[k].login # p.login
            /\ \A o \in wire' : Bears(o) /\ o.login = p.login => o = p
      BY <2>3, <2>4, <2>5, <3>1, <3>2, <3>3 DEF OneHolder
    <3>6. \A l \in logins' \cup ended' : Over(l)'
      BY <1>1, <2>3, <2>4, <2>5, <3>1, <3>4 DEF OneHolder, Over, Bears
    <3>7. logins' \cap ended' = {} /\ \A j, k \in DOMAIN tokens' : tokens'[j].login = tokens'[k].login => j = k
      BY <1>1, <2>5, <3>1 DEF OneHolder
    <3> QED BY <3>5, <3>6, <3>7 DEF OneHolder, Bears
  <2>8. NeverRacedByPage'
    BY <1>1, <2>2, <2>3, ReplacedKeepsOneRefresh
  <2>9. OneUser'
    <3>1. ASSUME NEW u \in Users \cup {NoUser}, OnlyUser(u) PROVE OnlyUser(u)'
      <4>1. row.owner = u
        BY <1>1, <1>3, <3>1 DEF OnlyUser, Of
      <4>2. NoToken \notin DOMAIN tokens'
        BY <1>1, <2>5, SessionsAssumption DEF SessionsTypeOK
      <4>3. \A p \in wire' : Of(u, p)'
        BY <2>3, <2>4, <2>5, <3>1, <4>1, <4>2 DEF OnlyUser, Of
      <4> QED BY <1>1, <2>5, <3>1, <4>3 DEF OnlyUser
    <3> QED BY <1>1, <3>1 DEF SessionsInv, OneUser
  <2>10. ActsAsShown'
    BY <1>1 DEF SessionsInv, ActsAsShown
  <2> QED BY <2>6, <2>7, <2>8, <2>9, <2>10 DEF SessionsInv
<1> QED BY <1>2, <1>3

LEMMA IssueKeeps ==
  ASSUME SessionsInv, NEW q \in wire, Issue(q)
  PROVE  SessionsInv'
<1>1. /\ q \in GoodRows /\ q.kind \in {"refresh", "login"} /\ q.at = "checked" /\ SessionsTypeOK
      /\ wire \subseteq GoodRows /\ UNCHANGED <<active, cookie, tabs, logins, mishaps, ended, mixed>>
  BY DEF SessionsInv, SessionsTyped, Issue
<1>2. CASE ~MayIssue(q)
  BY <1>1, <1>2, AnsweredKeeps DEF Issue
<1>3. CASE MayIssue(q)
  <2>1. PICK k \in FreeTokens :
          /\ tokens' = [j \in DOMAIN tokens \cup {k} |->
               IF j = k THEN [owner |-> q.user, login |-> q.login] ELSE tokens[j]]
          /\ Replaced(q, [q EXCEPT !.at = "ok", !.token = k, !.login = NoLogin])
    BY <1>3 DEF Issue
  <2>2. k \in Tokens \ DOMAIN tokens /\ cookie # k /\ \A p \in wire : p.token # k
    BY <2>1 DEF FreeTokens, Unreferenced
  <2>3. q.user \in Users /\ q.login \in Logins /\ Bears(q)
    BY <1>1 DEF GoodRows, Bears
  <2> DEFINE r == [q EXCEPT !.at = "ok", !.token = k, !.login = NoLogin]
  <2>4. /\ r \in GoodRows /\ r.kind = q.kind /\ r.tab = q.tab /\ r.live = q.live
        /\ r.token = k /\ r.user = q.user /\ ~Bears(r)
    BY <1>1, <2>2, <2>3 DEF GoodRows, WireRows, Bears
  <2>5. Replaced(q, r)
    BY <2>1
  <2> HIDE DEF r
  <2>6. wire' \subseteq (wire \ {q}) \cup {r}
    BY <2>5 DEF Replaced
  <2>7. /\ DOMAIN tokens' = DOMAIN tokens \cup {k} /\ \A j \in DOMAIN tokens : tokens'[j] = tokens[j]
        /\ tokens'[k].owner = q.user /\ tokens'[k].login = q.login
        /\ tokens' \in [DOMAIN tokens' -> TokenRows]
    BY <1>1, <2>1, <2>2, <2>3 DEF SessionsTypeOK, TokenRows
  <2>8. SessionsTyped'
    <3>1. wire' \subseteq GoodRows
      BY <1>1, <2>4, <2>6
    <3>2. wire' \subseteq WireRows
      BY <3>1 DEF GoodRows
    <3> QED BY <1>1, <2>2, <2>7, <3>1, <3>2 DEF SessionsTyped, SessionsTypeOK, GoodRows
  <2>9. OneHolder'
    <3>1. OneHolder
      BY DEF SessionsInv
    <3>2. \A j \in DOMAIN tokens : tokens[j].login # q.login
      BY <2>3, <3>1 DEF OneHolder
    <3>3. \A p \in wire \ {q} : Bears(p) => p.login # q.login
      BY <2>3, <3>1 DEF OneHolder
    <3>4. \A l \in logins' \cup ended' : l # q.login
      BY <1>1, <2>3, <3>1 DEF OneHolder, Over
    <3>5. \A p \in wire' : Bears(p) =>
            /\ \A j \in DOMAIN tokens' : tokens'[j].login # p.login
            /\ \A o \in wire' : Bears(o) /\ o.login = p.login => o = p
      BY <2>4, <2>6, <2>7, <3>1, <3>3 DEF OneHolder
    <3>6. \A l \in logins' \cup ended' : Over(l)'
      BY <1>1, <2>4, <2>6, <2>7, <3>1, <3>4 DEF OneHolder, Over, Bears
    <3>7. logins' \cap ended' = {} /\ \A i, j \in DOMAIN tokens' : tokens'[i].login = tokens'[j].login => i = j
      BY <1>1, <2>7, <3>1, <3>2 DEF OneHolder
    <3> QED BY <3>5, <3>6, <3>7 DEF OneHolder, Bears
  <2>10. NeverRacedByPage'
    BY <2>4, <2>5, ReplacedKeepsOneRefresh
  <2>11. OneUser'
    <3>1. ASSUME NEW u \in Users \cup {NoUser}, OnlyUser(u) PROVE OnlyUser(u)'
      <4>1. q.kind = "refresh" => q.user = u
        BY <2>3, <3>1, SessionsAssumption DEF OnlyUser, Of
      <4>2. \A p \in wire' : Of(u, p)'
        BY <2>2, <2>4, <2>6, <2>7, <3>1, <4>1 DEF OnlyUser, Of
      <4> QED BY <1>1, <2>2, <2>7, <3>1, <4>2 DEF OnlyUser
    <3> QED BY <1>1, <3>1 DEF SessionsInv, OneUser
  <2>12. ActsAsShown'
    BY <1>1 DEF SessionsInv, ActsAsShown
  <2> QED BY <2>8, <2>9, <2>10, <2>11, <2>12 DEF SessionsInv
<1> QED BY <1>2, <1>3

\* A token that is dropped continues no log-in.
LEMMA DroppedTyped ==
  ASSUME SessionsInv, NEW k, tokens' = [j \in DOMAIN tokens \ {k} |-> tokens[j]]
  PROVE  /\ TokensShrink /\ DOMAIN tokens' = DOMAIN tokens \ {k}
         /\ DOMAIN tokens' \subseteq Tokens /\ tokens' \in [DOMAIN tokens' -> TokenRows]
  BY DEF SessionsInv, SessionsTyped, SessionsTypeOK, TokensShrink

LEMMA ServeLogoutKeeps ==
  ASSUME SessionsInv, NEW q \in wire, ServeLogout(q)
  PROVE  SessionsInv'
<1>1. /\ q \in GoodRows /\ q.kind = "logout" /\ Answered(q, "ok") /\ SessionsTypeOK
      /\ tokens' = [k \in DOMAIN tokens \ {q.token} |-> tokens[k]]
      /\ UNCHANGED <<active, cookie, tabs, logins, mishaps, mixed>>
  BY DEF SessionsInv, SessionsTyped, ServeLogout
<1>2. PICK r \in GoodRows : Same(r, q) /\ Replaced(q, r)
  BY <1>1, AnsweredRows DEF Answered
<1>3. Moved([p \in wire |-> IF p = q THEN r ELSE p], {})
  BY <1>2, ReplacedMoves
<1>4. \A p \in wire' : Bears(p) => \E o \in wire : Bears(o) /\ o.login = p.login
  BY <1>3 DEF Moved, Same
<1>5. TokensShrink /\ DOMAIN tokens' = DOMAIN tokens \ {q.token}
  BY <1>1, DroppedTyped
<1>6. ended \subseteq ended' /\ ended' \subseteq Logins /\ \A l \in ended' \ ended : Over(l)' /\ l \notin logins
  <2>1. CASE q.token \in DOMAIN tokens
    <3>1. PICK m \in Logins : m = tokens[q.token].login /\ ended' = ended \cup {m}
      BY <1>1, <2>1 DEF ServeLogout, SessionsTypeOK, TokenRows
    <3>2. m \notin logins
      BY <2>1, <3>1 DEF SessionsInv, OneHolder, Over
    <3>3. \A k \in DOMAIN tokens' : tokens'[k].login # m
      BY <1>5, <2>1, <3>1 DEF SessionsInv, OneHolder, TokensShrink
    <3>4. \A p \in wire : Bears(p) => p.login # m
      BY <2>1, <3>1 DEF SessionsInv, OneHolder
    <3>5. Over(m)'
      BY <1>4, <3>3, <3>4 DEF Over, Bears
    <3> QED BY <1>1, <3>1, <3>2, <3>5 DEF SessionsTypeOK
  <2>2. CASE q.token \notin DOMAIN tokens
    BY <1>1, <2>2 DEF ServeLogout, SessionsTypeOK
  <2> QED BY <2>1, <2>2
<1>7. RestTyped
  <2>1. DOMAIN tokens' \subseteq Tokens /\ tokens' \in [DOMAIN tokens' -> TokenRows]
    BY <1>1, DroppedTyped
  <2> QED BY <1>1, <1>6, <2>1 DEF SessionsTypeOK, RestTyped
<1> QED BY <1>1, <1>3, <1>5, <1>6, <1>7, TabsUnchanged, QuietKeeps

LEMMA FailKeeps ==
  ASSUME SessionsInv, NEW q \in wire, ServeCall(q) \/ ServerFails(q)
  PROVE  SessionsInv'
  BY AnsweredKeeps DEF ServeCall, ServerFails

LEMMA MishapKeeps ==
  ASSUME SessionsInv,
         \/ \E k \in Tokens : DropToken(k)
         \/ \E t \in Tabs : ExpireAccess(t)
         \/ \E u \in Users : Deactivate(u)
  PROVE  SessionsInv'
<1>1. SessionsTypeOK /\ mishaps' \in 0..MaxMishaps
  <2>1. Mishap
    BY DEF DropToken, ExpireAccess, Deactivate
  <2>2. SessionsTypeOK
    BY DEF SessionsInv, SessionsTyped
  <2> QED BY <2>1, <2>2, SessionsAssumption DEF SessionsTypeOK, Mishap
<1>2. ASSUME NEW k \in Tokens, DropToken(k) PROVE SessionsInv'
  <2>1. tokens' = [j \in DOMAIN tokens \ {k} |-> tokens[j]]
        /\ UNCHANGED <<active, cookie, tabs, wire, logins, ended, mixed>>
    BY <1>2 DEF DropToken
  <2>2. TokensShrink /\ DOMAIN tokens' \subseteq Tokens /\ tokens' \in [DOMAIN tokens' -> TokenRows]
    BY <2>1, DroppedTyped
  <2>3. RestTyped
    BY <1>1, <2>1, <2>2 DEF SessionsTypeOK, RestTyped
  <2> QED BY <2>1, <2>2, <2>3, StandsStill, TabsUnchanged, QuietKeeps
<1>3. ASSUME NEW t \in Tabs, ExpireAccess(t) PROVE SessionsInv'
  <2>1. UNCHANGED <<tokens, active, cookie, wire, logins, ended, mixed>> /\ tabs' = [tabs EXCEPT ![t].fresh = FALSE]
    BY <1>3 DEF ExpireAccess
  <2>2. TabsQuiet
    BY <1>1, <2>1 DEF SessionsTypeOK, TabRows, TabsQuiet
  <2>3. RestTyped /\ TokensShrink
    BY <1>1, <2>1 DEF SessionsTypeOK, RestTyped, TokensShrink
  <2> QED BY <2>1, <2>2, <2>3, StandsStill, QuietKeeps
<1>4. ASSUME NEW u \in Users, Deactivate(u) PROVE SessionsInv'
  <2>1. UNCHANGED <<tokens, cookie, tabs, wire, logins, ended, mixed>> /\ active' = active \ {u}
    BY <1>4 DEF Deactivate
  <2>2. RestTyped /\ TokensShrink
    BY <1>1, <2>1 DEF SessionsTypeOK, RestTyped, TokensShrink
  <2> QED BY <2>1, <2>2, StandsStill, TabsUnchanged, QuietKeeps
<1> QED BY <1>2, <1>3, <1>4

-----------------------------------------------------------------------------
(* Sessions: answers *)

\* The page of a refresh that came to nothing settles for nobody.
LEMMA SettledIsQuiet ==
  ASSUME SessionsInv, NEW t \in Tabs,
         tabs' = [tabs EXCEPT ![t].mounting = FALSE,
                              ![t].view = IF tabs[t].mounting THEN NoUser ELSE @]
  PROVE  TabsQuiet
<1>1. tabs \in [Tabs -> TabRows]
  BY DEF SessionsInv, SessionsTyped, SessionsTypeOK
<1>2. PICK row \in TabRows :
        /\ tabs' = [tabs EXCEPT ![t] = row]
        /\ row.view \in {tabs[t].view, NoUser} /\ row.access = tabs[t].access
  <2> DEFINE row == [tabs[t] EXCEPT !.mounting = FALSE,
                       !.view = IF tabs[t].mounting THEN NoUser ELSE tabs[t].view]
  <2>1. row \in TabRows /\ row.view \in {tabs[t].view, NoUser} /\ row.access = tabs[t].access
    BY <1>1 DEF TabRows
  <2>2. tabs' = [tabs EXCEPT ![t] = row]
    BY <1>1
  <2> QED BY <2>1, <2>2
<1> QED BY <1>1, <1>2 DEF TabsQuiet

\* Answers that tell the page nothing about who it acts for.
LEMMA QuietAnswerKeeps ==
  ASSUME SessionsInv, NEW q \in wire, NEW N, Moved([p \in wire |-> p], N), TabsQuiet,
         Stored(q) \in {cookie, NoToken}, cookie' = Stored(q),
         UNCHANGED <<tokens, active, logins, mishaps, ended, mixed>>
  PROVE  SessionsInv'
<1>1. RestTyped /\ TokensShrink
  BY DEF SessionsInv, SessionsTyped, SessionsTypeOK, RestTyped, TokensShrink
<1> QED BY <1>1, QuietKeeps

LEMMA RefreshOkKeeps ==
  ASSUME SessionsInv, NEW q \in wire, Deliver(q), q.kind = "refresh", q.at = "ok"
  PROVE  SessionsInv'
<1> DEFINE t == q.tab
           tab == [tabs[t] EXCEPT !.access = q.user, !.fresh = TRUE, !.mounting = FALSE, !.retry = FALSE,
                                  !.view = IF tabs[t].mounting THEN q.user ELSE tabs[t].view]
           again == [Blank(t, "call") EXCEPT !.user = q.user, !.fresh = TRUE, !.retried = TRUE]
<1>1. /\ RefreshOk(q) /\ cookie' = q.token /\ UNCHANGED <<tokens, active, logins, mishaps, ended>>
      /\ mixed' = mixed
  BY DEF Deliver, Settle, Stored, SessionsInv, SessionsTyped, SessionsTypeOK
<1>2. /\ SessionsTypeOK /\ q.user \in Users /\ q.token \in Tokens \cup {NoToken} /\ t \in Tabs
      /\ q \in GoodRows
  BY DEF SessionsInv, SessionsTyped, GoodRows, WireRows
<1>3. again \in GoodRows /\ ~Bears(again) /\ again.kind = "call"
  BY <1>2, CallRows
<1>4. PICK N : N \subseteq {again} /\ wire' = (wire \ {q}) \cup N
  BY <1>1 DEF RefreshOk
<1>5. tab \in TabRows /\ tab.access = q.user
      /\ tab.view = IF tabs[t].mounting THEN q.user ELSE tabs[t].view
  BY <1>2 DEF SessionsTypeOK, TabRows
<1>6. tabs' = [tabs EXCEPT ![t] = tab]
  BY <1>1 DEF RefreshOk
<1> HIDE DEF again, tab
<1>7. Moved([p \in wire |-> p], N)
  BY <1>3, <1>4, AddedMoves
<1>8. SessionsTyped'
  <2>1. tabs' \in [Tabs -> TabRows]
    BY <1>2, <1>5, <1>6 DEF SessionsTypeOK
  <2>2. wire' \subseteq GoodRows
    BY <1>7 DEF Moved
  <2>3. wire' \subseteq WireRows
    BY <2>2 DEF GoodRows
  <2> QED BY <1>1, <1>2, <2>1, <2>2, <2>3 DEF SessionsTyped, SessionsTypeOK, GoodRows
<1>9. TokensShrink
  BY <1>1 DEF TokensShrink
<1>10. OneHolder' /\ NeverRacedByPage'
  BY <1>1, <1>7, <1>9, MovedKeepsHolders, MovedKeepsOneRefresh
<1>11. ASSUME ~mixed, NEW u \in Users \cup {NoUser}, OnlyUser(u)
       PROVE  OnlyUser(u)' /\ q.user = u
  <2>1. q.user = u /\ (q.token \in DOMAIN tokens => tokens[q.token].owner = u)
    BY <1>2, <1>11, SessionsAssumption DEF OnlyUser, Of
  <2>2. \A p \in wire' : Of(u, p)'
    BY <1>7, <1>9, <1>11, MovedKeepsOwner
  <2>3. \A s \in Tabs : tabs'[s].view \in {u, NoUser} /\ tabs'[s].access \in {u, NoUser}
    BY <1>2, <1>5, <1>6, <1>11, <2>1 DEF OnlyUser, SessionsTypeOK
  <2> QED BY <1>1, <2>1, <2>2, <2>3 DEF OnlyUser
<1>12. OneUser'
  BY <1>1, <1>11 DEF OneUser, SessionsInv
<1>13. ActsAsShown'
  <2>1. ASSUME ~mixed, NEW s \in Tabs, tabs'[s].view # NoUser PROVE tabs'[s].access = tabs'[s].view
    <3>1. PICK u \in Users \cup {NoUser} : OnlyUser(u)
      BY <2>1 DEF OneUser, SessionsInv
    <3>2. q.user = u
      BY <1>11, <2>1, <3>1
    <3>3. CASE s = t
      BY <1>2, <1>5, <1>6, <2>1, <3>1, <3>2, <3>3 DEF OnlyUser, SessionsTypeOK
    <3>4. CASE s # t
      BY <1>2, <1>6, <2>1, <3>4 DEF SessionsInv, ActsAsShown, SessionsTypeOK
    <3> QED BY <3>3, <3>4
  <2> QED BY <1>1, <2>1 DEF ActsAsShown
<1> QED BY <1>8, <1>10, <1>12, <1>13 DEF SessionsInv

LEMMA LoginOkKeeps ==
  ASSUME SessionsInv, NEW q \in wire, Deliver(q), q.kind = "login", q.at = "ok"
  PROVE  SessionsInv'
<1>1. /\ tabs' = [tabs EXCEPT ![q.tab] = LoggedIn(q)] /\ wire' = wire \ {q} /\ cookie' = q.token
      /\ UNCHANGED <<tokens, active, logins, mishaps, ended>>
      /\ mixed' = (mixed \/ TracesOfOthers(q.user))
  BY DEF Deliver, Settle, Stored
<1>2. /\ SessionsTypeOK /\ q.user \in Users \cup {NoUser} /\ q.token \in Tokens \cup {NoToken} /\ q.tab \in Tabs
      /\ q \in GoodRows
  BY DEF SessionsInv, SessionsTyped, GoodRows, WireRows
<1>3. /\ LoggedIn(q) \in TabRows /\ LoggedIn(q).view = q.user /\ LoggedIn(q).access = q.user
  BY <1>2 DEF SessionsTypeOK, LoggedIn, TabRows
<1>4. Moved([p \in wire |-> p], {})
  BY <1>1, AddedMoves
<1>5. SessionsTyped'
  <2>1. tabs' \in [Tabs -> TabRows]
    BY <1>1, <1>2, <1>3 DEF SessionsTypeOK
  <2>2. wire' \subseteq GoodRows
    BY <1>4 DEF Moved
  <2>3. wire' \subseteq WireRows
    BY <2>2 DEF GoodRows
  <2>4. mixed' \in BOOLEAN
    BY <1>1, <1>2 DEF SessionsTypeOK
  <2> QED BY <1>1, <1>2, <2>1, <2>2, <2>3, <2>4 DEF SessionsTyped, SessionsTypeOK, GoodRows
<1>6. OneHolder' /\ NeverRacedByPage'
  <2>1. TokensShrink
    BY <1>1 DEF TokensShrink
  <2> QED BY <1>1, <1>4, <2>1, MovedKeepsHolders, MovedKeepsOneRefresh
<1>7. ASSUME ~mixed' PROVE OnlyUser(q.user)' /\ ActsAsShown'
  <2> DEFINE u == q.user
  <2>1. ~mixed /\ ~TracesOfOthers(u)
    BY <1>1, <1>7
  <2>2. /\ \A p \in wire : p.kind # "call" => p.user \in {u, NoUser}
              /\ (p.token \in DOMAIN tokens => tokens[p.token].owner = u)
        /\ \A s \in Tabs : tabs[s].view \in {u, NoUser} /\ tabs[s].access \in {u, NoUser}
    BY <2>1 DEF TracesOfOthers
  <2> HIDE DEF u
  <2>3. \A p \in wire' : Of(u, p)'
    BY <1>1, <2>2 DEF Of
  <2>4. tokens' = tokens /\ (cookie' \in DOMAIN tokens => tokens[cookie'].owner = u)
    BY <1>1, <2>2
  <2>5. \A s \in Tabs : tabs'[s].view \in {u, NoUser} /\ tabs'[s].access \in {u, NoUser}
    BY <1>1, <1>2, <1>3, <2>2 DEF SessionsTypeOK, u
  <2>6. ActsAsShown'
    BY <1>1, <1>2, <1>3, <2>1 DEF SessionsInv, ActsAsShown, SessionsTypeOK
  <2>7. OnlyUser(u)'
    BY <2>3, <2>4, <2>5 DEF OnlyUser
  <2> QED BY <2>6, <2>7 DEF u
<1>8. OneUser' /\ ActsAsShown'
  BY <1>2, <1>7 DEF OneUser, ActsAsShown
<1> QED BY <1>5, <1>6, <1>8 DEF SessionsInv

LEMMA DeliverKeeps ==
  ASSUME SessionsInv, NEW q \in wire, Deliver(q)
  PROVE  SessionsInv'
<1>1. /\ q \in GoodRows /\ q.tab \in Tabs /\ q.live /\ q.at \in {"ok", "refused", "failed"} /\ SessionsTypeOK
      /\ q.kind \in {"refresh", "login", "logout", "call"}
      /\ Settle(q) /\ cookie' = Stored(q) /\ UNCHANGED <<tokens, active, logins, mishaps, ended>>
  BY DEF SessionsInv, SessionsTyped, GoodRows, WireRows, Deliver
<1>2. CASE q.kind \in {"refresh", "login"} /\ q.at = "ok"
  BY <1>2, RefreshOkKeeps, LoginOkKeeps
<1>3. CASE ~(q.kind \in {"refresh", "login"} /\ q.at = "ok")
  <2>1. Stored(q) \in {cookie, NoToken}
    BY <1>1, <1>3 DEF Stored
  <2>2. mixed' = mixed
    BY <1>1, <1>3 DEF Deliver, SessionsTypeOK
  <2>3. RestTyped /\ TokensShrink
    BY <1>1, <2>1, <2>2 DEF SessionsTypeOK, RestTyped, TokensShrink
  <2>4. ASSUME NEW f, NEW N, Moved(f, N), TabsQuiet PROVE SessionsInv'
    BY <1>1, <2>1, <2>2, <2>3, <2>4, QuietKeeps
  <2>5. CASE Load(q.tab)
    BY <1>1, <2>4, <2>5, LoadMoves, LoadIsQuiet
  <2>6. CASE wire' = wire \ {q} /\ TabsQuiet
    <3>1. Moved([p \in wire |-> p], {})
      BY <2>6, AddedMoves
    <3> QED BY <2>4, <2>6, <3>1
  <2>7. CASE q.kind = "refresh"
    <3>1. RefreshFailed(q)
      BY <1>1, <1>3, <2>7 DEF Settle
    <3>2. CASE ~Load(q.tab)
      BY <1>1, <2>6, <3>1, <3>2, SettledIsQuiet DEF RefreshFailed
    <3> QED BY <2>5, <3>2
  <2>8. CASE q.kind = "call" /\ q.at = "refused"
    <3>1. CallRefused(q)
      BY <1>1, <2>8 DEF Settle
    <3>2. CASE ~MayRetry(q)
      BY <2>5, <3>1, <3>2 DEF CallRefused
    <3>3. CASE MayRetry(q)
      <4>1. /\ tabs' = [tabs EXCEPT ![q.tab].retry = TRUE]
            /\ wire' = (wire \ {q}) \cup (IF Refreshing(q.tab) THEN {} ELSE {RefreshRequest(q.tab)})
        BY <3>1, <3>3 DEF CallRefused
      <4>2. TabsQuiet
        BY <1>1, <4>1 DEF SessionsTypeOK, TabRows, TabsQuiet
      <4>3. CASE Refreshing(q.tab)
        BY <2>6, <4>1, <4>2, <4>3
      <4>4. CASE ~Refreshing(q.tab)
        <5> DEFINE n == RefreshRequest(q.tab)
        <5>1. n \in GoodRows /\ ~Bears(n) /\ n.token = cookie /\ n.user = NoUser /\ n.tab = q.tab
          BY <1>1, RequestRows DEF SessionsInv
        <5> HIDE DEF n
        <5>2. wire' = (wire \ {q}) \cup {n}
          BY <4>1, <4>4 DEF n
        <5>3. \A p \in wire' : p.kind = "refresh" /\ p.tab = n.tab /\ p.live => p = n
          BY <4>4, <5>1, <5>2 DEF Refreshing
        <5>4. Moved([p \in wire |-> p], {n})
          BY <5>1, <5>2, <5>3, AddedMoves
        <5> QED BY <2>4, <4>2, <5>4
      <4> QED BY <4>3, <4>4
    <3> QED BY <3>2, <3>3
  <2>9. CASE q.kind # "refresh" /\ ~(q.kind = "call" /\ q.at = "refused")
    <3>1. UNCHANGED tabs /\ wire' = wire \ {q}
      BY <1>1, <1>3, <2>9 DEF Settle
    <3> QED BY <2>6, <3>1, TabsUnchanged
  <2> QED BY <2>7, <2>8, <2>9
<1> QED BY <1>2, <1>3

LEMMA DisconnectKeeps ==
  ASSUME SessionsInv, NEW q \in wire, Disconnect(q)
  PROVE  SessionsInv'
<1> DEFINE lost == [q EXCEPT !.live = FALSE]
<1>1. /\ q \in GoodRows /\ q.tab \in Tabs /\ UNCHANGED <<tokens, active, cookie, logins, ended, mixed>> /\ Mishap
  BY DEF SessionsInv, SessionsTyped, GoodRows, WireRows, Disconnect
<1>2. RestTyped /\ TokensShrink
  BY <1>1, RestUnchanged
<1>3. CASE Load(q.tab)
  BY <1>1, <1>2, <1>3, LoadMoves, LoadIsQuiet, QuietKeeps
<1>4. CASE ~Load(q.tab)
  <2>1. /\ tabs' = IF q.kind = "refresh"
                   THEN [tabs EXCEPT ![q.tab].mounting = FALSE,
                           ![q.tab].view = IF tabs[q.tab].mounting THEN NoUser ELSE @]
                   ELSE tabs
        /\ wire' \subseteq (wire \ {q}) \cup {lost}
    BY <1>4 DEF Disconnect
  <2>2. lost \in GoodRows /\ Same(lost, q)
    BY <1>1, LostRows
  <2>3. TabsQuiet
    BY <1>1, <2>1, SettledIsQuiet, TabsUnchanged
  <2> HIDE DEF lost
  <2> DEFINE f == [p \in wire |-> IF p = q THEN lost ELSE p]
  <2>4. wire' \subseteq GoodRows
    BY <2>1, <2>2 DEF SessionsInv, SessionsTyped
  <2>5. ASSUME NEW p \in wire' PROVE \E o \in wire : p = f[o] /\ Same(p, o)
    <3>1. CASE p \in wire \ {q}
      BY <3>1 DEF Same
    <3>2. CASE p = lost
      BY <2>2, <3>2
    <3> QED BY <2>1, <3>1, <3>2
  <2> HIDE DEF f
  <2>6. Moved(f, {})
    BY <2>4, <2>5 DEF Moved
  <2> QED BY <1>1, <1>2, <2>3, <2>6, QuietKeeps
<1> QED BY <1>3, <1>4

-----------------------------------------------------------------------------
(* Sessions: the specification *)

LEMMA SessionsStart == SessionsInit => SessionsInv
<1> SUFFICES ASSUME SessionsInit PROVE SessionsInv
  OBVIOUS
<1>1. /\ DOMAIN tokens = {} /\ tokens \in [DOMAIN tokens -> TokenRows] /\ active = Users /\ cookie = NoToken
      /\ wire = {} /\ logins = Logins /\ mishaps = MaxMishaps /\ ended = {} /\ mixed = FALSE
  BY DEF SessionsInit
<1>2. tabs \in [Tabs -> TabRows] /\ \A t \in Tabs : tabs[t].view = NoUser /\ tabs[t].access = NoUser
  BY DEF SessionsInit, Loading, TabRows
<1>3. SessionsTyped
  <2>1. DOMAIN tokens \subseteq Tokens /\ cookie \in Tokens \cup {NoToken} /\ mixed \in BOOLEAN
    BY <1>1
  <2>2. wire \subseteq GoodRows /\ wire \subseteq WireRows /\ logins \subseteq Logins /\ ended \subseteq Logins
    BY <1>1
  <2>3. mishaps \in 0..MaxMishaps
    BY <1>1, SessionsAssumption
  <2> QED BY <1>1, <1>2, <2>1, <2>2, <2>3 DEF SessionsTyped, SessionsTypeOK
<1>4. OneHolder /\ NeverRacedByPage /\ ActsAsShown
  BY <1>1, <1>2 DEF OneHolder, Over, NeverRacedByPage, ActsAsShown
<1>5. OnlyUser(NoUser)
  BY <1>1, <1>2 DEF OnlyUser
<1> QED BY <1>3, <1>4, <1>5 DEF SessionsInv, OneUser

LEMMA SessionsStep == SessionsInv /\ [SessionsNext]_sessionVars => SessionsInv'
<1> SUFFICES ASSUME SessionsInv, [SessionsNext]_sessionVars PROVE SessionsInv'
  OBVIOUS
<1>1. ASSUME NEW q \in wire, Progress(q) PROVE SessionsInv'
  BY <1>1, ServeRefreshKeeps, CheckLoginKeeps, IssueKeeps, ServeLogoutKeeps, FailKeeps, DeliverKeeps DEF Progress
<1>2. CASE SessionsNext
  BY <1>1, <1>2, OpenKeeps, LogoutKeeps, CallKeeps, SubmitLoginKeeps, MishapKeeps, FailKeeps,
     DisconnectKeeps DEF SessionsNext
<1>3. CASE UNCHANGED sessionVars
  <2>1. UNCHANGED <<tokens, active, cookie, tabs, wire, logins, mishaps, ended, mixed>>
    BY <1>3 DEF sessionVars
  <2> QED BY <2>1, RestUnchanged, StandsStill, TabsUnchanged, QuietKeeps
<1> QED BY <1>2, <1>3

LEMMA SessionsAlways == SessionsSpec => []SessionsInv
  BY SessionsStart, SessionsStep, PTL DEF SessionsSpec

\* Tokens, tabs and requests keep their columns (Sessions).
THEOREM SessionsAreTyped == SessionsSpec => []SessionsTypeOK
<1>1. SessionsInv => SessionsTypeOK
  BY DEF SessionsInv, SessionsTyped
<1> QED BY <1>1, SessionsAlways, PTL

\* Rotation by an atomic consume: a log-in has one holder at most, a log-out
\* that found the token ends it for good, and a page never races itself
\* (auth_consume_refresh_token, refreshPromise).
THEOREM RotationIsSafe == SessionsSpec => []OneSuccessor
<1>1. SessionsInv => OneSuccessor
  <2> SUFFICES ASSUME SessionsInv PROVE OneSuccessor
    OBVIOUS
  <2>1. \A q \in wire : q.at = "checked" => Bears(q)
    BY DEF SessionsInv, SessionsTyped, GoodRows, Bears
  <2>2. RotationKeepsOne /\ LogoutEndsSession
    BY <2>1 DEF SessionsInv, OneHolder, Over, RotationKeepsOne, LogoutEndsSession
  <2> QED BY <2>2 DEF SessionsInv, OneSuccessor
<1> QED BY <1>1, SessionsAlways, PTL

\* A page acts for the user it shows, through any restore, retry and rotation
\* (AuthContext, api/client.ts).
THEOREM PagesActAsShown == SessionsSpec => []ActsAsShown
<1>1. SessionsInv => ActsAsShown
  BY DEF SessionsInv
<1> QED BY <1>1, SessionsAlways, PTL

-----------------------------------------------------------------------------
(* Lists *)

\* The pages that read their rows when they mount: all but one.
Ordinary(p) ==
  /\ ~p.form /\ p.form \in BOOLEAN /\ p.button \in {"none", "ends", "switches"}
  /\ p.spins \in BOOLEAN /\ p.blanks \in BOOLEAN

LEMMA PageKinds == ASSUME NEW p \in Pages PROVE Ordinary(p) \/ p = ChainVerifier
<1>1. /\ Ordinary(Dashboard) /\ Ordinary(KanbanBoard) /\ Ordinary(AuditLog)
      /\ Ordinary(AnomalyMonitor) /\ Ordinary(NavBar) /\ Ordinary(Actors) /\ Ordinary(ActorDetail)
  BY DEF Ordinary, PlainPage, Dashboard, KanbanBoard, AuditLog, AnomalyMonitor, NavBar, Actors,
         ActorDetail
<1>2. /\ Ordinary(InvitePanel) /\ Ordinary(Profile) /\ Ordinary(TaskQueue)
      /\ Ordinary(NotificationCenter) /\ Ordinary(Provenance)
  BY DEF Ordinary, PlainPage, InvitePanel, Profile, TaskQueue, NotificationCenter, Provenance
<1>3. Ordinary(Reports)
  BY DEF Ordinary, PlainPage, Reports
<1> QED BY <1>1, <1>2, <1>3, Zenon DEF Pages

LEMMA PageButtons ==
  ASSUME NEW p \in Pages
  PROVE  /\ p.button \in {"none", "ends", "switches"}
         /\ p.spins \in BOOLEAN /\ p.form \in BOOLEAN /\ p.blanks \in BOOLEAN
<1>1. /\ ChainVerifier.form = TRUE /\ ChainVerifier.button = "none"
      /\ ChainVerifier.spins = TRUE /\ ChainVerifier.blanks = FALSE
  BY DEF PlainPage, ChainVerifier
<1> QED BY <1>1, PageKinds DEF Ordinary

\* A change the page has not heard of yet, and will read its rows again for.
Unheard == \E a \in acts : a.answer # "none" /\ ReloadsAfter(a)

\* These rows are what the server has under a key.
Fresh(key, rows, live) == rows = Listed(key) /\ live = standing

ListTypes ==
  /\ standing \subseteq Things /\ list \in ListRows
  /\ loads \subseteq LoadRows /\ acts \subseteq ActRows /\ asked \in Nat
  /\ heard \in 0..asked /\ astray \in BOOLEAN /\ excused \in BOOLEAN

\* Each request for the rows has a number of its own, heard once.
LoadsInOrder ==
  /\ \A q \in loads : q.n \in 1..asked /\ q.n # heard
  /\ \A q, r \in loads : q.n = r.n => q = r

\* The answer of the newest request, under way and then heard.
NewestIsFresh ==
  /\ \A q \in loads : q.n = asked =>
       /\ q.key = list.key \/ astray
       /\ q.answer = "ok" => excused \/ Unheard \/ Fresh(q.key, q.rows, q.live)
  /\ heard = asked /\ list.of # "nothing" =>
       /\ list.of = list.key \/ astray
       /\ excused \/ Unheard \/ Fresh(list.of, list.rows, list.live)

ListInv ==
  /\ ListTypes /\ LoadsInOrder /\ NewestIsFresh
  /\ \A a \in acts : list.shows.button = "switches" \/ ~a.to

LEMMA ListInvStarts == ListInit => ListInv
<1> SUFFICES ASSUME ListInit PROVE ListInv
  OBVIOUS
<1>1. PICK shows \in Pages :
       /\ list = [shows |-> shows, key |-> IF shows = AnomalyMonitor THEN "standing" ELSE "all", of |-> "nothing",
                  rows |-> {}, live |-> {}, loading |-> shows.spins /\ ~shows.form, failed |-> FALSE, busy |-> {}]
       /\ loads = IF shows.form THEN {}
                  ELSE {[n |-> 1, key |-> list.key, rows |-> {}, live |-> {}, answer |-> "none"]}
       /\ asked = IF shows.form THEN 0 ELSE 1
  BY DEF ListInit
<1>2. list \in ListRows /\ list.of = "nothing" /\ list.shows = shows
  BY <1>1, PageButtons DEF ListRows, ListKeys
<1>3. loads \subseteq LoadRows /\ asked \in Nat
  BY <1>1, <1>2 DEF LoadRows, ListKeys, ListRows
<1>4. standing \subseteq Things /\ acts = {} /\ heard = 0 /\ astray = FALSE /\ excused = FALSE
  BY DEF ListInit
<1>5. /\ \A q, r \in loads : q = r
      /\ \A q \in loads : q.key = list.key /\ q.answer = "none" /\ q.n = 1 /\ asked = 1
  <2>1. CASE shows.form
    BY <1>1, <2>1
  <2>2. CASE ~shows.form
    <3>1. loads = {[n |-> 1, key |-> list.key, rows |-> {}, live |-> {}, answer |-> "none"]} /\ asked = 1
      BY <1>1, <2>2
    <3> QED BY <3>1
  <2> QED BY <2>1, <2>2
<1>6. ListTypes
  <2>1. 0 \in 0..asked
    BY <1>3
  <2> QED BY <1>2, <1>3, <1>4, <2>1 DEF ListTypes
<1>7. LoadsInOrder /\ NewestIsFresh
  BY <1>2, <1>3, <1>4, <1>5 DEF LoadsInOrder, NewestIsFresh
<1> QED BY <1>2, <1>3, <1>4, <1>6, <1>7 DEF ListInv

\* Asking for the rows: what was heard before is not the newest request's.
LEMMA AskingKeeps ==
  ASSUME ListInv, NEW p \in ListRows, NEW key \in ListKeys, Asks(p, key, loads),
         p.shows = list.shows, UNCHANGED <<standing, excused, heard>>, acts' \subseteq acts
  PROVE  ListInv'
<1> DEFINE q == [n |-> asked + 1, key |-> key, rows |-> {}, live |-> {}, answer |-> "none"]
<1>1. /\ asked' = asked + 1 /\ loads' = loads \cup {q} /\ astray' = (key # p.key)
      /\ list' = [p EXCEPT !.loading = @ \/ p.shows.spins, !.failed = FALSE]
  BY DEF Asks
<1>2. q \in LoadRows /\ asked \in Nat /\ heard \in 0..asked
  BY DEF LoadRows, ListInv, ListTypes
<1>3. q.key = key /\ q.answer = "none" /\ q.n = asked + 1
  OBVIOUS
<1> HIDE DEF q
<1>4. list' \in ListRows /\ list'.shows = list.shows /\ list'.key = p.key
  BY <1>1, PageButtons DEF ListRows
<1>5. ListTypes'
  BY <1>1, <1>2, <1>4 DEF ListInv, ListTypes
<1>6. \A r \in loads : r.n \in 1..asked
  BY DEF ListInv, LoadsInOrder
<1>7. LoadsInOrder'
  BY <1>1, <1>2, <1>3, <1>6 DEF ListInv, LoadsInOrder
<1>8. NewestIsFresh'
  <2>1. heard' # asked' /\ \A r \in loads' : r.n = asked' => r = q
    BY <1>1, <1>2, <1>6
  <2>2. q.key = list'.key \/ astray'
    BY <1>1, <1>3, <1>4
  <2> QED BY <1>3, <2>1, <2>2 DEF NewestIsFresh
<1> QED BY <1>4, <1>5, <1>7, <1>8 DEF ListInv

\* An answer is given to a request: its number and key stay.
LEMMA AnsweringKeeps ==
  ASSUME ListInv, NEW q \in loads, NEW r \in LoadRows, loads' = (loads \ {q}) \cup {r},
         r.n = q.n, r.key = q.key, UNCHANGED <<standing, list, acts, asked, heard, astray>>,
         r.answer = "ok" => Fresh(r.key, r.rows, r.live),
         excused' = excused \/ (q.n = asked /\ r.answer = "ok" /\ excused' = FALSE)
  PROVE  ListInv'
<1>1. ListTypes'
  BY DEF ListInv, ListTypes
<1>2. LoadsInOrder'
  BY DEF ListInv, LoadsInOrder
<1>3. /\ \A k, rows, live : Fresh(k, rows, live)' <=> Fresh(k, rows, live)
      /\ Unheard' <=> Unheard
  BY DEF Fresh, Listed, Unheard, ReloadsAfter
<1>4. \A x \in loads' : x.n = asked => x = r \/ (x \in loads /\ q.n # asked)
  BY DEF ListInv, LoadsInOrder
<1>5. heard = asked => q.n # asked
  BY DEF ListInv, LoadsInOrder
<1>6. NewestIsFresh'
  BY <1>3, <1>4, <1>5 DEF ListInv, NewestIsFresh
<1> QED BY <1>1, <1>2, <1>6 DEF ListInv

LEMMA ListKept == ListInv /\ [ListNext]_listVars => ListInv'
<1> SUFFICES ASSUME ListInv, [ListNext]_listVars PROVE ListInv'
  OBVIOUS
<1>0. ListTypes /\ list.shows \in Pages /\ list.key \in ListKeys
  BY DEF ListInv, ListTypes, ListRows
<1>1. CASE UNCHANGED listVars
  <2>1. Unheard' <=> Unheard
    BY <1>1 DEF listVars, Unheard, ReloadsAfter
  <2>2. \A k, rows, live : Fresh(k, rows, live)' <=> Fresh(k, rows, live)
    BY <1>1 DEF listVars, Fresh, Listed
  <2>3. ListTypes' /\ LoadsInOrder'
    BY <1>1 DEF listVars, ListInv, ListTypes, LoadsInOrder
  <2>4. NewestIsFresh'
    BY <1>1, <2>1, <2>2 DEF listVars, ListInv, NewestIsFresh
  <2> QED BY <1>1, <2>3, <2>4 DEF listVars, ListInv
<1>2. CASE ChangeKey
  <2>1. PICK key \in ListKeys \ {list.key} : KeyEffect(key)
    BY <1>2 DEF ChangeKey
  <2> DEFINE p == [list EXCEPT !.key = key]
  <2>2. /\ p \in ListRows /\ p.shows = list.shows
        /\ Asks(p, key, loads) /\ UNCHANGED <<standing, excused, heard>> /\ acts' = acts
    BY <1>0, <1>2, <2>1 DEF ChangeKey, KeyEffect, ListTypes, ListRows
  <2> HIDE DEF p
  <2> QED BY <2>2, AskingKeeps
<1>3. CASE SubmitVerify
  <2>1. PICK key \in ListKeys :
          Asks([list EXCEPT !.key = key, !.of = "nothing", !.rows = {}, !.live = {}], key, loads)
    BY <1>3 DEF SubmitVerify
  <2> DEFINE p == [list EXCEPT !.key = key, !.of = "nothing", !.rows = {}, !.live = {}]
  <2>2. p \in ListRows /\ p.shows = list.shows
    BY <1>0 DEF ListTypes, ListRows
  <2>3. Asks(p, key, loads) /\ UNCHANGED <<standing, excused, heard>> /\ acts' = acts
    BY <1>3, <2>1 DEF SubmitVerify
  <2> HIDE DEF p
  <2> QED BY <2>2, <2>3, AskingKeeps
<1>4. ASSUME NEW x \in Things, PressButton(x) PROVE ListInv'
  <2>1. PICK to \in ButtonOn(x) :
          acts' = acts \cup {[thing |-> x, to |-> to, key |-> list.key, answer |-> "none"]}
    BY <1>4 DEF PressButton
  <2> DEFINE a == [thing |-> x, to |-> to, key |-> list.key, answer |-> "none"]
  <2>2. to \in BOOLEAN /\ (list.shows.button = "switches" \/ ~to)
    BY <1>0, PageButtons DEF ButtonOn
  <2>3. a \in ActRows /\ a.answer = "none" /\ a.to = to /\ acts' = acts \cup {a}
    BY <1>0, <2>1, <2>2 DEF ActRows
  <2> HIDE DEF a
  <2>4. /\ UNCHANGED <<standing, loads, asked, heard, astray, excused>>
        /\ list' = [list EXCEPT !.busy = IF list.shows.marks THEN {x} ELSE {}]
    BY <1>4 DEF PressButton
  <2>5. /\ list' \in ListRows /\ list'.shows = list.shows /\ list'.key = list.key /\ list'.of = list.of
        /\ list'.rows = list.rows /\ list'.live = list.live
    BY <1>0, <2>4 DEF ListTypes, ListRows
  <2>6. ListTypes' /\ LoadsInOrder'
    BY <2>3, <2>4, <2>5 DEF ListInv, ListTypes, LoadsInOrder
  <2>7. /\ Unheard' <=> Unheard
        /\ \A k, rows, live : Fresh(k, rows, live)' <=> Fresh(k, rows, live)
    BY <2>3, <2>4, <2>5 DEF Unheard, ReloadsAfter, Fresh, Listed
  <2>8. NewestIsFresh'
    BY <2>4, <2>5, <2>7 DEF ListInv, NewestIsFresh
  <2> QED BY <2>2, <2>3, <2>5, <2>6, <2>8 DEF ListInv
<1>5. ASSUME NEW q \in loads, ServeLoad(q) PROVE ListInv'
  <2> DEFINE r == [q EXCEPT !.answer = "ok", !.rows = Listed(q.key), !.live = standing]
  <2>1. /\ loads' = (loads \ {q}) \cup {r} /\ excused' = (excused /\ q.n # asked)
        /\ UNCHANGED <<standing, list, acts, asked, heard, astray>>
    BY <1>5 DEF ServeLoad
  <2>2. q \in LoadRows /\ Listed(q.key) \subseteq Things
    BY <1>0 DEF Listed, ListTypes
  <2>3. /\ r \in LoadRows /\ r.n = q.n /\ r.key = q.key /\ r.answer = "ok"
        /\ r.rows = Listed(q.key) /\ r.live = standing
    BY <1>0, <2>2 DEF LoadRows, ListTypes
  <2> HIDE DEF r
  <2>4. excused \in BOOLEAN
    BY <1>0 DEF ListTypes
  <2> QED BY <2>1, <2>3, <2>4, AnsweringKeeps DEF Fresh
<1>6. ASSUME NEW q \in loads, FailLoad(q) PROVE ListInv'
  <2> DEFINE r == [q EXCEPT !.answer = "failed"]
  <2>1. loads' = (loads \ {q}) \cup {r} /\ UNCHANGED <<standing, list, acts, asked, heard, astray, excused>>
    BY <1>6 DEF FailLoad
  <2>2. r \in LoadRows /\ r.n = q.n /\ r.key = q.key /\ r.answer = "failed"
    BY DEF LoadRows, ListInv, ListTypes
  <2> HIDE DEF r
  <2> QED BY <2>1, <2>2, AnsweringKeeps
<1>7. ASSUME NEW q \in loads, HearLoad(q) PROVE ListInv'
  <2>1. /\ loads' = loads \ {q} /\ UNCHANGED <<standing, acts, asked, astray, excused>> /\ q.answer # "none"
        /\ list' = IF q.answer = "failed" THEN LoadFailed
                   ELSE [list EXCEPT !.loading = FALSE, !.of = q.key, !.rows = q.rows, !.live = q.live]
        /\ heard' = IF q.answer = "failed" THEN 0 ELSE q.n
    BY <1>7 DEF HearLoad
  <2>2. q \in LoadRows /\ q.n \in 1..asked /\ asked \in Nat
    BY DEF ListInv, ListTypes, LoadsInOrder
  <2>3. /\ list' \in ListRows /\ list'.shows = list.shows /\ list'.key = list.key
        /\ q.answer # "failed" => list'.of = q.key /\ list'.rows = q.rows /\ list'.live = q.live
    <3>1. CASE q.answer = "failed"
      BY <1>0, <2>1, <3>1 DEF LoadFailed, ListTypes, ListRows
    <3>2. CASE q.answer # "failed"
      BY <1>0, <2>1, <2>2, <3>2 DEF ListTypes, ListRows, LoadRows
    <3> QED BY <3>1, <3>2
  <2>4. ListTypes'
    BY <2>1, <2>2, <2>3 DEF ListInv, ListTypes
  <2>5. LoadsInOrder'
    BY <2>1, <2>2 DEF ListInv, LoadsInOrder
  <2>6. /\ Unheard' <=> Unheard
        /\ \A k, rows, live : Fresh(k, rows, live)' <=> Fresh(k, rows, live)
    BY <2>1, <2>3 DEF Unheard, ReloadsAfter, Fresh, Listed
  <2>7. heard' = asked' => q.answer = "ok" /\ q.n = asked
    BY <2>1, <2>2 DEF LoadRows
  <2>8. NewestIsFresh'
    BY <2>1, <2>3, <2>6, <2>7 DEF ListInv, NewestIsFresh
  <2> QED BY <2>1, <2>3, <2>4, <2>5, <2>8 DEF ListInv
<1>8. ASSUME NEW a \in acts, ServeAct(a) PROVE ListInv'
  <2> DEFINE ok == list.shows.button = "switches" \/ a.thing \in standing
             b == [a EXCEPT !.answer = IF ok THEN "ok" ELSE "failed"]
  <2>1. /\ standing' = IF a.to THEN standing \cup {a.thing} ELSE standing \ {a.thing}
        /\ acts' = (acts \ {a}) \cup {b} /\ a.answer = "none"
        /\ UNCHANGED <<list, loads, asked, heard, astray, excused>>
    BY <1>8 DEF ServeAct
  <2>2. a \in ActRows
    BY <1>0 DEF ListTypes
  <2>3. b \in ActRows /\ b.to = a.to /\ b.answer = IF ok THEN "ok" ELSE "failed"
    BY <2>2 DEF ActRows
  <2>4. ~ok => standing' = standing
    BY <2>1 DEF ListInv
  <2> HIDE DEF b, ok
  <2>5. standing' \subseteq Things
    BY <1>0, <2>1, <2>2 DEF ListTypes, ActRows
  <2>6. ListTypes' /\ LoadsInOrder'
    BY <2>1, <2>3, <2>5 DEF ListInv, ListTypes, LoadsInOrder
  <2>7. /\ ok => Unheard'
        /\ Unheard => Unheard'
    BY <2>1, <2>3 DEF Unheard, ReloadsAfter
  <2>8. ~ok => \A k, rows, live : Fresh(k, rows, live)' <=> Fresh(k, rows, live)
    BY <2>1, <2>4 DEF Listed, Fresh
  <2>9. NewestIsFresh'
    BY <2>1, <2>7, <2>8 DEF ListInv, NewestIsFresh
  <2> QED BY <2>1, <2>3, <2>6, <2>9 DEF ListInv
<1>9. ASSUME NEW a \in acts, FailAct(a) PROVE ListInv'
  <2> DEFINE b == [a EXCEPT !.answer = "failed"]
  <2>1. /\ acts' = (acts \ {a}) \cup {b} /\ a.answer \in {"none", "ok"}
        /\ excused' = (excused \/ (a.answer = "ok" /\ ~list.shows.rereads))
        /\ UNCHANGED <<standing, list, loads, asked, heard, astray>>
    BY <1>9 DEF FailAct
  <2>2. b \in ActRows /\ b.answer = "failed" /\ b.to = a.to
    BY DEF ActRows, ListInv, ListTypes
  <2> HIDE DEF b
  <2>3. ListTypes' /\ LoadsInOrder'
    BY <2>1, <2>2 DEF ListInv, ListTypes, LoadsInOrder
  <2>4. excused \/ Unheard => excused' \/ Unheard'
    BY <2>1, <2>2 DEF Unheard, ReloadsAfter
  <2>5. \A k, rows, live : Fresh(k, rows, live)' <=> Fresh(k, rows, live)
    BY <2>1 DEF Listed, Fresh
  <2>6. NewestIsFresh'
    BY <2>1, <2>4, <2>5 DEF ListInv, NewestIsFresh
  <2> QED BY <2>1, <2>2, <2>3, <2>6 DEF ListInv
<1>10. ASSUME NEW a \in acts, HearAct(a) PROVE ListInv'
  <2> DEFINE p == [list EXCEPT !.busy = {}]
  <2>1. /\ acts' = acts \ {a} /\ UNCHANGED <<standing, heard, excused>> /\ a.answer # "none"
        /\ IF ReloadsAfter(a) THEN Asks(p, a.key, loads) ELSE list' = p /\ UNCHANGED <<loads, asked, astray>>
    BY <1>10 DEF HearAct, ReloadRows
  <2>2. /\ p \in ListRows /\ p.shows = list.shows /\ p.key = list.key /\ p.of = list.of
        /\ p.rows = list.rows /\ p.live = list.live
    BY <1>0 DEF ListTypes, ListRows
  <2>3. a.key \in ListKeys
    BY <1>0 DEF ListTypes, ActRows
  <2> HIDE DEF p
  <2>4. CASE ReloadsAfter(a)
    BY <2>1, <2>2, <2>3, <2>4, AskingKeeps
  <2>5. CASE ~ReloadsAfter(a)
    <3>1. ListTypes' /\ LoadsInOrder'
      BY <2>1, <2>2, <2>5 DEF ListInv, ListTypes, LoadsInOrder
    <3>2. Unheard => Unheard'
      BY <2>1, <2>2, <2>5 DEF Unheard, ReloadsAfter
    <3>3. \A k, rows, live : Fresh(k, rows, live)' <=> Fresh(k, rows, live)
      BY <2>1 DEF Listed, Fresh
    <3>4. NewestIsFresh'
      BY <2>1, <2>2, <2>5, <3>2, <3>3 DEF ListInv, NewestIsFresh
    <3> QED BY <2>1, <2>2, <2>5, <3>1, <3>4 DEF ListInv
  <2> QED BY <2>4, <2>5
<1>11. CASE Elsewhere
  <2>1. excused' = TRUE /\ UNCHANGED <<list, loads, acts, asked, heard, astray>> /\ standing' \subseteq Things
    BY <1>0, <1>11 DEF Elsewhere, ListTypes
  <2>2. ListTypes' /\ LoadsInOrder'
    BY <2>1 DEF ListInv, ListTypes, LoadsInOrder
  <2>3. NewestIsFresh'
    BY <2>1 DEF ListInv, NewestIsFresh
  <2> QED BY <2>1, <2>2, <2>3 DEF ListInv
<1> QED BY <1>1, <1>2, <1>3, <1>4, <1>5, <1>6, <1>7, <1>8, <1>9, <1>10, <1>11
        DEF ListNext, ServeLoads, HearLoads, ServeActs, HearActs

\* For any number of rows, requests, failures and users elsewhere, however the
\* requests overlap: once the newest request's answer is the one heard last and
\* no change of the page's own is under way, it shows what the server has, unless
\* others have changed it since or the answer of a change was lost; and under the
\* page's key, unless that request was a closure's, for a former key.
THEOREM ListsAreCurrent == ListSpec => []ListIsCurrent
<1>1. ListInv /\ acts = {} => ~Unheard
  BY DEF Unheard
<1>2. ListInv => ListIsCurrent
  BY <1>1 DEF ListInv, NewestIsFresh, ListIsCurrent, Fresh
<1> QED BY <1>2, ListInvStarts, ListKept, PTL DEF ListSpec

-----------------------------------------------------------------------------
(* Sign-ups *)

SignUpTypes ==
  /\ invites \in [InviteCodes -> InviteRows] /\ form \in FormRows
  /\ checks \subseteq CheckRows /\ signups \subseteq SignUpRows
  /\ checked \in Nat /\ submitted \in Nat

\* The preview over this code is of this code, or came late.
ShownOver(code, shown) == shown \in {code, NoCode} \/ <<code, shown>> \in late

\* What a preview says is what the invitation shown says, its address is the
\* one filled in, and both are what was submitted with it; and the invitation
\* shown is the one typed, unless its answer came late.
SignUpInv ==
  /\ SignUpTypes
  /\ form.shown # NoCode => form.bound = invites[form.shown].address
  /\ form.bound # NoAddress => form.address = form.bound /\ form.shown # NoCode
  /\ \A q \in checks : q.answer = "ok" => q.bound = invites[q.code].address
  /\ \A q \in signups : q.shown # NoCode =>
       invites[q.shown].address \in {NoAddress, q.address}
  /\ ShownOver(form.code, form.shown)
  /\ \A q \in signups : q.mode = "invite" => ShownOver(q.code, q.shown)
  /\ InvitationAsShown

LEMMA SignUpInvStarts == SignUpInit => SignUpInv
<1> SUFFICES ASSUME SignUpInit PROVE SignUpInv
  OBVIOUS
<1>1. BlankForm \in FormRows
  BY DEF BlankForm, FormRows
<1>2. /\ invites \in [InviteCodes -> InviteRows] /\ signups = {} /\ submitted = 0
      /\ joined = {} /\ mismatched = FALSE
  BY DEF SignUpInit
<1>3. CASE form = BlankForm /\ checks = {} /\ checked = 0
  BY <1>1, <1>2, <1>3 DEF SignUpInv, SignUpTypes, ShownOver, BlankForm, InvitationAsShown,
                          JoinsAsShown, AddressFitsInvitation
<1>4. ASSUME NEW c \in InviteCodes, form = [BlankForm EXCEPT !.code = c, !.checking = TRUE],
             checks = {[n |-> 1, code |-> c, bound |-> NoAddress, answer |-> "none"]}, checked = 1
      PROVE  SignUpInv
  <2>1. /\ form \in FormRows /\ form.code = c /\ form.shown = NoCode /\ form.bound = NoAddress
    BY <1>1, <1>4 DEF FormRows, BlankForm
  <2>2. checks \subseteq CheckRows /\ \A q \in checks : q.answer = "none" /\ q.code = c
    BY <1>4 DEF CheckRows
  <2> QED BY <1>2, <1>4, <2>1, <2>2 DEF SignUpInv, SignUpTypes, ShownOver, InvitationAsShown,
                                        JoinsAsShown, AddressFitsInvitation
<1> QED BY <1>3, <1>4 DEF SignUpInit

\* Invitations open and close, but the address one is for stays.
LEMMA AddressesStay ==
  ASSUME SignUpInv, [SignUpNext]_signUpVars, NEW c \in InviteCodes
  PROVE  invites' \in [InviteCodes -> InviteRows] /\ invites'[c].address = invites[c].address
<1>1. invites \in [InviteCodes -> InviteRows]
  BY DEF SignUpInv, SignUpTypes
<1>2. ASSUME NEW d, invites' = [invites EXCEPT ![d].open = FALSE]
      PROVE  invites' \in [InviteCodes -> InviteRows] /\ invites'[c].address = invites[c].address
  BY <1>1, <1>2 DEF InviteRows
<1>3. invites' = invites \/ \E d : invites' = [invites EXCEPT ![d].open = FALSE]
  BY DEF SignUpNext, TypeCode, LeaveCode, SwitchTab, FillIn, Edits, HandleSubmit, ServeSignUps, ServeCheck,
         FailCheck, ServeRegister, ServeSignIn, FailSignUp, HearSignUps, HearCheck, HearSignUp, InviteGone,
         signUpVars
<1> QED BY <1>1, <1>2, <1>3

\* A step that touches neither the form, nor the checks, nor the sign-ups, or
\* leaves the sign-ups as they were submitted.
LEMMA SignUpFrame ==
  ASSUME SignUpInv, [SignUpNext]_signUpVars, form' = form, checks' = checks, checked' = checked,
         submitted' = submitted, late' = late, signups' \subseteq SignUpRows,
         \A r \in signups' : \E q \in signups : /\ r.shown = q.shown /\ r.address = q.address
                                                /\ r.mode = q.mode /\ r.code = q.code,
         InvitationAsShown'
  PROVE  SignUpInv'
<1>1. SignUpTypes'
  <2>1. invites' \in [InviteCodes -> InviteRows]
    <3>1. CASE InviteCodes = {}
      BY <3>1 DEF SignUpInv, SignUpTypes, SignUpNext, TypeCode, LeaveCode, SwitchTab, FillIn, Edits, HandleSubmit, ServeSignUps, ServeCheck,
         FailCheck, ServeRegister, ServeSignIn, FailSignUp, HearSignUps, HearCheck, HearSignUp, InviteGone,
         signUpVars
    <3>2. CASE InviteCodes # {}
      BY <3>2, AddressesStay
    <3> QED BY <3>1, <3>2
  <2> QED BY <2>1 DEF SignUpInv, SignUpTypes
<1>2. \A c \in InviteCodes : invites'[c].address = invites[c].address
  BY AddressesStay
<1>3. /\ form.shown # NoCode => form.shown \in InviteCodes
      /\ \A q \in checks : q.code \in InviteCodes
      /\ \A q \in signups : q.shown # NoCode => q.shown \in InviteCodes
  BY DEF SignUpInv, SignUpTypes, FormRows, CheckRows, SignUpRows
<1>4. \A r \in signups' : r.shown # NoCode => invites'[r.shown].address \in {NoAddress, r.address}
  BY <1>2, <1>3 DEF SignUpInv
<1>5. /\ form.shown # NoCode => form.bound = invites'[form.shown].address
      /\ \A q \in checks : q.answer = "ok" => q.bound = invites'[q.code].address
  BY <1>2, <1>3 DEF SignUpInv
<1>6. /\ ShownOver(form.code, form.shown)'
      /\ \A r \in signups' : r.mode = "invite" => ShownOver(r.code, r.shown)'
  BY DEF SignUpInv, ShownOver
<1> QED BY <1>1, <1>4, <1>5, <1>6 DEF SignUpInv

\* A step of the form or of the checks that leaves the invitations and the
\* submissions alone.
LEMMA FormFrame ==
  ASSUME SignUpInv, UNCHANGED <<invites, signups, submitted, joined, mismatched>>,
         late \subseteq late', form' \in FormRows, checks' \subseteq CheckRows, checked' \in Nat,
         form'.shown # NoCode => form'.bound = invites[form'.shown].address,
         form'.bound # NoAddress => form'.address = form'.bound /\ form'.shown # NoCode,
         \A q \in checks' : q.answer = "ok" => q.bound = invites[q.code].address,
         ShownOver(form.code, form.shown)'
  PROVE  SignUpInv'
<1>1. SignUpTypes'
  BY DEF SignUpInv, SignUpTypes
<1>2. InvitationAsShown'
  BY DEF SignUpInv, InvitationAsShown, JoinsAsShown, AddressFitsInvitation
<1>3. \A q \in signups' : q.mode = "invite" => ShownOver(q.code, q.shown)'
  BY DEF SignUpInv, ShownOver
<1> QED BY <1>1, <1>2, <1>3 DEF SignUpInv

LEMMA EditsKeep ==
  ASSUME SignUpInv, TypeCode \/ SwitchTab \/ FillIn
  PROVE  SignUpInv'
<1>1. /\ form \in FormRows /\ checks \subseteq CheckRows /\ checked \in Nat
      /\ NoAddress \notin Addresses
  BY SignUpAssumption DEF SignUpInv, SignUpTypes
<1>2. CASE TypeCode
  <2> PICK c \in InviteCodes \ {form.code} : Edits(CodeTyped(c))
    BY <1>2 DEF TypeCode
  <2>1. form' \in FormRows /\ form'.shown = NoCode /\ form'.bound = NoAddress
    BY <1>1 DEF Edits, CodeTyped, FormRows
  <2>2. UNCHANGED <<invites, checks, checked, signups, submitted, joined, late, mismatched>>
    BY DEF Edits
  <2> QED BY <1>1, <2>1, <2>2, FormFrame DEF SignUpInv, ShownOver
<1>3. CASE SwitchTab
  <2> PICK m \in {"invite", "workspace"} \ {form.mode} : Edits([form EXCEPT !.mode = m, !.error = "none"])
    BY <1>3 DEF SwitchTab
  <2>1. /\ form' \in FormRows /\ form'.shown = form.shown /\ form'.bound = form.bound
        /\ form'.address = form.address /\ form'.code = form.code
    BY <1>1 DEF Edits, FormRows
  <2> QED BY <1>1, <1>3, <2>1, FormFrame DEF SignUpInv, ShownOver, Edits
<1>4. CASE FillIn
  <2> PICK a \in IF form.bound = NoAddress THEN Addresses ELSE {form.address} :
             Edits([form EXCEPT !.address = a, !.filled = TRUE])
    BY <1>4 DEF FillIn
  <2>1. form.bound # NoAddress => a = form.address
    OBVIOUS
  <2>2. a \in Addresses \cup {NoAddress}
    BY <1>1 DEF FormRows
  <2>3. /\ form' \in FormRows /\ form'.shown = form.shown /\ form'.bound = form.bound
        /\ form'.address = a /\ form'.code = form.code
    BY <1>1, <2>2 DEF Edits, FormRows
  <2> QED BY <1>1, <1>4, <2>1, <2>3, FormFrame DEF SignUpInv, ShownOver, Edits
<1> QED BY <1>2, <1>3, <1>4

\* A check that is asked, answered or heard; the answer tells what the code opens.
LEMMA ChecksKeep ==
  ASSUME SignUpInv,
         LeaveCode \/ \E q \in checks : ServeCheck(q) \/ FailCheck(q) \/ HearCheck(q)
  PROVE  SignUpInv'
<1>1. /\ form \in FormRows /\ checks \subseteq CheckRows /\ checked \in Nat
      /\ invites \in [InviteCodes -> InviteRows] /\ NoCode \notin InviteCodes
  BY SignUpAssumption DEF SignUpInv, SignUpTypes
<1>2. CASE LeaveCode
  <2> DEFINE new == [n |-> checked + 1, code |-> form.code, bound |-> NoAddress, answer |-> "none"]
  <2>1. new \in CheckRows /\ new.code = form.code /\ new.answer = "none"
    BY <1>1, <1>2 DEF LeaveCode, CheckRows, FormRows
  <2>2. checks' = checks \cup {new} /\ checked' = checked + 1
    BY <1>2 DEF LeaveCode, Check
  <2>3. form' \in FormRows /\ form'.shown = NoCode /\ form'.bound = NoAddress /\ form'.code = form.code
    BY <1>1, <1>2 DEF LeaveCode, Check, FormRows
  <2> HIDE DEF new
  <2>4. UNCHANGED <<invites, signups, submitted, joined, mismatched, late>>
    BY <1>2 DEF LeaveCode
  <2> QED BY <1>1, <2>1, <2>2, <2>3, <2>4, FormFrame DEF SignUpInv, ShownOver
<1>3. ASSUME NEW q \in checks, ServeCheck(q) \/ FailCheck(q) PROVE SignUpInv'
  <2>1. PICK r : /\ CheckAnswered(q, r) /\ r \in CheckRows /\ r.code = q.code
                 /\ r.answer = "ok" => r.bound = invites[q.code].address
    <3> DEFINE bad == [q EXCEPT !.answer = "bad"]
               ok == [q EXCEPT !.answer = "ok", !.bound = invites[q.code].address]
    <3>1. bad \in CheckRows /\ bad.code = q.code /\ bad.answer = "bad"
      BY <1>1 DEF CheckRows
    <3>2. invites[q.code].address \in Addresses \cup {NoAddress}
      BY <1>1 DEF CheckRows, InviteRows
    <3>3. ok \in CheckRows /\ ok.code = q.code /\ ok.bound = invites[q.code].address
      BY <1>1, <3>2 DEF CheckRows
    <3>4. CheckAnswered(q, ok) \/ CheckAnswered(q, bad)
      BY <1>3 DEF ServeCheck, FailCheck
    <3> HIDE DEF ok, bad
    <3> QED BY <3>1, <3>3, <3>4
  <2>2. UNCHANGED <<invites, form, signups, checked, submitted, joined, late, mismatched>>
    BY <1>3 DEF ServeCheck, FailCheck
  <2>3. checks' \subseteq checks \cup {r}
    BY <2>1 DEF CheckAnswered
  <2> QED BY <1>1, <2>1, <2>2, <2>3, FormFrame DEF SignUpInv, ShownOver
<1>4. ASSUME NEW q \in checks, HearCheck(q) PROVE SignUpInv'
  <2>1. /\ UNCHANGED <<invites, signups, checked, submitted, joined, mismatched>> /\ checks' \subseteq checks
        /\ late' = IF q.answer = "ok" /\ q.code # form.code THEN late \cup {<<form.code, q.code>>} ELSE late
    BY <1>4 DEF HearCheck
  <2>2. q \in CheckRows /\ q.code # NoCode
    BY <1>1 DEF CheckRows
  <2>3. CASE q.answer = "ok"
    <3>1. /\ form' \in FormRows /\ form'.shown = q.code /\ form'.bound = q.bound /\ form'.code = form.code
          /\ q.bound # NoAddress => form'.address = q.bound
      BY <1>1, <1>4, <2>2, <2>3 DEF HearCheck, Previewed, FormRows, CheckRows
    <3>2. ShownOver(form.code, form.shown)'
      BY <2>1, <2>3, <3>1 DEF ShownOver
    <3> QED BY <1>1, <2>1, <2>2, <2>3, <3>1, <3>2, FormFrame DEF SignUpInv
  <2>4. CASE q.answer # "ok"
    <3>1. /\ form' \in FormRows /\ form'.shown = form.shown /\ form'.bound = form.bound
          /\ form'.address = form.address /\ form'.code = form.code
      BY <1>1, <1>4, <2>4 DEF HearCheck, FormRows
    <3>2. late' = late
      BY <2>1, <2>4
    <3> QED BY <1>1, <2>1, <3>1, <3>2, FormFrame DEF SignUpInv, ShownOver
  <2> QED BY <2>3, <2>4
<1> QED BY <1>2, <1>3, <1>4

\* What is submitted names the invitation on show and the address it is for.
LEMMA SubmitKeeps ==
  ASSUME SignUpInv, HandleSubmit
  PROVE  SignUpInv'
<1>1. /\ form \in FormRows /\ signups \subseteq SignUpRows /\ submitted \in Nat
  BY DEF SignUpInv, SignUpTypes
<1> DEFINE code == IF form.mode = "invite" THEN form.code ELSE NoCode
           new == [n |-> submitted + 1, mode |-> form.mode, code |-> code, shown |-> form.shown,
                   address |-> form.address, filled |-> form.filled, step |-> "register", answer |-> "none"]
<1>2. code \in InviteCodes \cup {NoCode} /\ (form.mode = "invite" => code = form.code)
  BY <1>1 DEF FormRows
<1>3. signups' = signups \cup {new} /\ submitted' = submitted + 1
      /\ form' = [form EXCEPT !.loading = TRUE, !.error = "none"]
      /\ UNCHANGED <<invites, checks, checked, joined, late, mismatched>>
  BY DEF HandleSubmit
<1> HIDE DEF code
<1>4. /\ new \in SignUpRows /\ new.mode = form.mode /\ new.code = code /\ new.shown = form.shown
      /\ new.address = form.address
  BY <1>1, <1>2 DEF FormRows, SignUpRows
<1>5. /\ form' \in FormRows /\ form'.shown = form.shown /\ form'.bound = form.bound
      /\ form'.address = form.address /\ form'.code = form.code
  BY <1>1, <1>3 DEF FormRows
<1> HIDE DEF new
<1>6. SignUpTypes' /\ InvitationAsShown'
  BY <1>1, <1>3, <1>4, <1>5 DEF SignUpInv, SignUpTypes, InvitationAsShown, JoinsAsShown, AddressFitsInvitation
<1>7. new.shown # NoCode => invites[new.shown].address \in {NoAddress, new.address}
  BY <1>4 DEF SignUpInv
<1>8. new.mode = "invite" => ShownOver(new.code, new.shown)
  BY <1>2, <1>4 DEF SignUpInv
<1> QED BY <1>3, <1>5, <1>6, <1>7, <1>8 DEF SignUpInv, ShownOver

\* An answer to a submission leaves what was submitted as it was.
LEMMA AnswersKeep ==
  ASSUME SignUpInv, NEW q \in signups,
         ServeRegister(q) \/ ServeSignIn(q) \/ FailSignUp(q)
  PROVE  SignUpInv'
<1>1. signups \subseteq SignUpRows
  BY DEF SignUpInv, SignUpTypes
<1>2. PICK a \in {"ok", "rejected", "failed"} : SignUpAnswered(q, a)
  BY DEF ServeRegister, ServeSignIn, FailSignUp
<1> DEFINE r == [q EXCEPT !.answer = a]
<1>3. /\ r \in SignUpRows /\ r.shown = q.shown /\ r.address = q.address /\ r.mode = q.mode /\ r.code = q.code
  BY <1>1 DEF SignUpRows
<1>4. signups' = (signups \ {q}) \cup {r}
  BY <1>2 DEF SignUpAnswered
<1> HIDE DEF r
<1>5. UNCHANGED <<form, checks, checked, submitted, late>>
  BY DEF ServeRegister, ServeSignIn, FailSignUp
<1>6. [SignUpNext]_signUpVars
  BY DEF SignUpNext, ServeSignUps
<1>7. /\ joined' \subseteq joined \cup {<<q.code, q.shown>>}
      /\ (q.mode # "invite" => joined' = joined)
  BY DEF ServeRegister, ServeSignIn, FailSignUp
<1>8. ~mismatched => ~mismatched'
  <2>1. q.shown # NoCode /\ q.shown = q.code => ~WrongAddress(q)
    BY DEF SignUpInv, WrongAddress
  <2>2. mismatched' => mismatched \/ (WrongAddress(q) /\ q.shown # NoCode /\ q.shown = q.code)
    BY DEF ServeRegister, ServeSignIn, FailSignUp
  <2> QED BY <2>1, <2>2
<1>9. InvitationAsShown'
  <2>1. q.mode = "invite" => ShownOver(q.code, q.shown)
    BY DEF SignUpInv
  <2>2. JoinsAsShown'
    BY <1>5, <1>7, <2>1 DEF SignUpInv, ShownOver, InvitationAsShown, JoinsAsShown
  <2>3. AddressFitsInvitation'
    BY <1>5, <1>8 DEF SignUpInv, InvitationAsShown, AddressFitsInvitation
  <2> QED BY <2>2, <2>3 DEF InvitationAsShown
<1> QED BY <1>1, <1>3, <1>4, <1>5, <1>6, <1>9, SignUpFrame

LEMMA AnswersHeard ==
  ASSUME SignUpInv, NEW q \in signups, HearSignUp(q)
  PROVE  SignUpInv'
<1>1. form \in FormRows /\ signups \subseteq SignUpRows
  BY DEF SignUpInv, SignUpTypes
<1> DEFINE r == [q EXCEPT !.step = "login", !.answer = "none"]
<1>2. /\ r \in SignUpRows /\ r.shown = q.shown /\ r.address = q.address /\ r.mode = q.mode /\ r.code = q.code
  BY <1>1 DEF SignUpRows
<1>3. signups' \subseteq signups \cup {r}
  BY DEF HearSignUp
<1>4. /\ form' \in FormRows /\ form'.shown = form.shown /\ form'.bound = form.bound
      /\ form'.address = form.address /\ form'.code = form.code
  <2>1. q.answer \in {"ok", "rejected", "failed"}
    BY <1>1 DEF SignUpRows, HearSignUp
  <2>2. CASE q.answer # "ok"
    BY <1>1, <2>1, <2>2 DEF HearSignUp, SignUpFailed, FormRows
  <2>3. CASE q.answer = "ok" /\ q.step = "register"
    BY <1>1, <2>3 DEF HearSignUp
  <2>4. CASE q.answer = "ok" /\ q.step # "register"
    BY <1>1, <2>4 DEF HearSignUp, FormRows
  <2> QED BY <2>2, <2>3, <2>4
<1>5. UNCHANGED <<invites, checks, checked, submitted, joined, late, mismatched>>
  BY DEF HearSignUp
<1> HIDE DEF r
<1>6. SignUpTypes' /\ InvitationAsShown'
  BY <1>1, <1>2, <1>3, <1>4, <1>5
     DEF SignUpInv, SignUpTypes, InvitationAsShown, JoinsAsShown, AddressFitsInvitation
<1>7. r.shown # NoCode => invites[r.shown].address \in {NoAddress, r.address}
  BY <1>2 DEF SignUpInv
<1>8. r.mode = "invite" => ShownOver(r.code, r.shown)
  BY <1>2 DEF SignUpInv
<1> QED BY <1>3, <1>4, <1>5, <1>6, <1>7, <1>8 DEF SignUpInv, ShownOver

LEMMA SignUpKept ==
  ASSUME SignUpInv, [SignUpNext]_signUpVars
  PROVE  SignUpInv'
<1>1. CASE TypeCode \/ SwitchTab \/ FillIn
  BY <1>1, EditsKeep
<1>2. CASE LeaveCode \/ \E q \in checks : ServeCheck(q) \/ FailCheck(q) \/ HearCheck(q)
  BY <1>2, ChecksKeep
<1>3. CASE HandleSubmit
  BY <1>3, SubmitKeeps
<1>4. CASE \E q \in signups : ServeRegister(q) \/ ServeSignIn(q) \/ FailSignUp(q)
  BY <1>4, AnswersKeep
<1>5. CASE \E q \in signups : HearSignUp(q)
  BY <1>5, AnswersHeard
<1>6. CASE InviteGone \/ UNCHANGED signUpVars
  <2>1. UNCHANGED <<form, checks, signups, checked, submitted, joined, late, mismatched>>
    BY <1>6 DEF InviteGone, signUpVars
  <2>2. signups \subseteq SignUpRows /\ InvitationAsShown'
    BY <2>1 DEF SignUpInv, SignUpTypes, InvitationAsShown, JoinsAsShown, AddressFitsInvitation
  <2> QED BY <2>1, <2>2, SignUpFrame
<1> QED BY <1>1, <1>2, <1>3, <1>4, <1>5, <1>6 DEF SignUpNext, ServeSignUps, HearSignUps

\* For any codes and addresses, any number of checks and submissions, answered
\* in any order, also while the code is edited: another preview than that of the
\* code redeemed was on show only if its answer came late, over this very code;
\* and a form that shows the preview of its code is never refused for the address
\* (checkInvite and handleSubmit, Register.tsx; registerWithInvite).
THEOREM InvitationsAreAsShown == SignUpSpec => []InvitationAsShown
<1>1. SignUpSpec => []SignUpInv
  BY SignUpInvStarts, SignUpKept, PTL DEF SignUpSpec
<1>2. SignUpInv => InvitationAsShown
  BY DEF SignUpInv
<1> QED BY <1>1, <1>2, PTL

-----------------------------------------------------------------------------
(* A deployment: the schema *)

\* The lock is the one a job is under; only its list of what is pending counts,
\* and it is what its process ships and the database has not.
SchemaInv ==
  /\ config \in Configs /\ applied \subseteq Versions /\ ran \in [Versions -> Nat]
  /\ jobs \in [Migrators -> JobRows] /\ servers \in [Servers -> ServerRows]
  /\ \A m \in Migrators : jobs[m].at \in {"read", "apply"} => advisory = m
  /\ \A m \in Migrators : jobs[m].at # "apply" => jobs[m].pending = {}
  /\ \A m \in Migrators : jobs[m].at = "apply" => jobs[m].pending = Files(m) \ applied
  /\ SchemaIsSound

LEMMA SchemaStarts == DeploymentInit => SchemaInv
<1> SUFFICES ASSUME DeploymentInit PROVE SchemaInv
  OBVIOUS
<1> PICK k \in 0..MaxVersion : applied = 1..k
  BY DEF DeploymentInit
<1>1. MaxVersion \in Nat /\ k \in Nat /\ k <= MaxVersion
  BY DeploymentAssumption
<1>2. applied \subseteq Versions /\ ran = [v \in Versions |-> IF v \in applied THEN 1 ELSE 0]
  BY <1>1 DEF DeploymentInit, Versions
<1>3. \A m \in Migrators : jobs[m].at = "idle" /\ jobs[m].pending = {}
  BY DEF DeploymentInit, Stopped
<1>4. \A p \in Servers : servers[p].at = "down"
  BY DEF DeploymentInit, Down
<1>5. ran \in [Versions -> Nat] /\ jobs \in [Migrators -> JobRows]
  BY <1>2 DEF DeploymentInit, JobRows, Stopped
<1>6. servers \in [Servers -> ServerRows]
  <2>1. MaxRequests \in Nat => Down \in ServerRows
    BY DEF Down, ServerRows
  <2> QED BY <2>1, DeploymentAssumption DEF DeploymentInit
<1>7. MigratedOnce
  <2>1. \A v \in Versions : ran[v] = (IF v \in applied THEN 1 ELSE 0)
    BY <1>2
  <2>2. \A v \in applied : 1..v \subseteq applied
    BY <1>1
  <2> QED BY <2>1, <2>2 DEF MigratedOnce
<1> QED BY <1>2, <1>3, <1>4, <1>5, <1>6, <1>7
        DEF SchemaInv, SchemaIsSound, PendingIsCurrent, SchemaIsComplete, DeploymentInit

\* What a migration job does: it takes the lock, looks, applies the lowest of
\* what is pending, and gives the lock back as it ends.
LEMMA JobsKeepSchema ==
  ASSUME SchemaInv, NEW m \in Migrators, StartJob(m) \/ JobStep(m)
  PROVE  SchemaInv'
<1>1. /\ config \in Configs /\ applied \subseteq Versions /\ ran \in [Versions -> Nat]
      /\ jobs \in [Migrators -> JobRows] /\ NoMigrator \notin Migrators
      /\ UNCHANGED <<config, servers>>
  BY DeploymentAssumption DEF SchemaInv, StartJob, JobStep, LockSchema, ReadApplied, ApplyMigration, EndJob
<1>2. \A n \in Migrators : Files(n) \subseteq Versions /\ config.files[n] \in Nat
  BY <1>1, DeploymentAssumption DEF Configs, Files, Versions
<1>3. \A w \in Versions : w \in Nat
  BY DeploymentAssumption DEF Versions
<1>4. CASE StartJob(m) \/ LockSchema(m)
  <2>1. PICK place \in {"lock", "read"} : jobs' = [jobs EXCEPT ![m].at = place]
    BY <1>4 DEF StartJob, LockSchema, JobAt
  <2>2. /\ jobs' \in [Migrators -> JobRows] /\ jobs'[m].at = place /\ jobs'[m].pending = jobs[m].pending
        /\ \A n \in Migrators \ {m} : jobs'[n] = jobs[n]
    BY <1>1, <2>1 DEF JobRows
  <2>3. jobs[m].pending = {}
    BY <1>4 DEF SchemaInv, StartJob, LockSchema, Stopped
  <2>4. \A n \in Migrators : jobs'[n].at \in {"read", "apply"} => advisory' = n
    <3>1. CASE StartJob(m)
      BY <1>1, <2>2, <3>1 DEF StartJob, JobAt, SchemaInv
    <3>2. CASE LockSchema(m)
      BY <1>1, <2>2, <3>2 DEF LockSchema, LockFree, SchemaInv
    <3> QED BY <1>4, <3>1, <3>2
  <2>5. UNCHANGED <<applied, ran>>
    BY <1>4 DEF StartJob, LockSchema
  <2>6. /\ \A n \in Migrators : jobs'[n].at # "apply" => jobs'[n].pending = {}
        /\ \A n \in Migrators : jobs'[n].at = "apply" => jobs'[n].pending = Files(n) \ applied
    BY <2>2, <2>3 DEF SchemaInv
  <2> QED BY <1>1, <2>2, <2>3, <2>4, <2>5, <2>6
          DEF SchemaInv, SchemaIsSound, MigratedOnce, PendingIsCurrent, SchemaIsComplete, Files, Drift
<1>5. CASE ReadApplied(m)
  <2> DEFINE pending == Files(m) \ applied
  <2>1. /\ jobs' \in [Migrators -> JobRows] /\ jobs'[m].at = "apply" /\ jobs'[m].pending = pending
        /\ \A n \in Migrators \ {m} : jobs'[n] = jobs[n]
    BY <1>1, <1>2, <1>5 DEF ReadApplied, JobRows
  <2>2. UNCHANGED <<applied, ran, advisory>> /\ jobs[m].at = "read"
    BY <1>5 DEF ReadApplied
  <2> QED BY <1>1, <2>1, <2>2
          DEF SchemaInv, SchemaIsSound, MigratedOnce, PendingIsCurrent, SchemaIsComplete, Files, Drift
<1>6. CASE ApplyMigration(m)
  <2>1. PICK v \in jobs[m].pending \ applied :
          /\ \A w \in jobs[m].pending : v <= w
          /\ ran' = [ran EXCEPT ![v] = @ + 1]
          /\ applied' = applied \cup {v}
          /\ jobs' = [jobs EXCEPT ![m].pending = @ \ {v}]
    BY <1>6 DEF ApplyMigration, Record
  <2>2. jobs[m].at = "apply" /\ advisory' = advisory
    BY <1>6 DEF ApplyMigration
  <2>3. jobs[m].pending = Files(m) \ applied /\ advisory = m
    BY <2>2 DEF SchemaInv
  <2>4. v \in Files(m) /\ v \in Versions /\ v \in Nat /\ v \notin applied
    BY <1>2, <1>3, <2>1, <2>3
  <2>5. /\ jobs' \in [Migrators -> JobRows] /\ jobs'[m].at = "apply" /\ jobs'[m].pending = jobs[m].pending \ {v}
        /\ \A n \in Migrators \ {m} : jobs'[n] = jobs[n]
    BY <1>1, <2>1, <2>2 DEF JobRows
  <2>6. \A n \in Migrators \ {m} : jobs[n].at \notin {"read", "apply"} /\ jobs[n].pending = {}
    BY <2>3 DEF SchemaInv
  <2>7. MigratedOnce'
    <3>1. \A w \in Versions : ran'[w] = (IF w \in applied' THEN 1 ELSE 0)
      BY <1>1, <2>1, <2>4 DEF SchemaInv, SchemaIsSound, MigratedOnce
    <3>2. 1..v \subseteq applied'
      <4> SUFFICES ASSUME NEW w \in 1..v, w # v PROVE w \in applied
        BY <2>1
      <4>1. w \in Files(m) /\ ~(v <= w)
        BY <1>2, <2>4 DEF Files
      <4> QED BY <2>1, <2>3, <4>1
    <3>3. \A w \in applied : 1..w \subseteq applied
      BY DEF SchemaInv, SchemaIsSound, MigratedOnce
    <3> QED BY <2>1, <3>1, <3>2, <3>3 DEF MigratedOnce
  <2>8. ran' \in [Versions -> Nat] /\ applied' \subseteq Versions
    BY <1>1, <2>1, <2>4
  <2>9. jobs'[m].pending = Files(m) \ applied'
    BY <2>1, <2>3, <2>5
  <2>10. PendingIsCurrent'
    BY <2>5, <2>6, <2>9 DEF PendingIsCurrent
  <2>11. SchemaIsComplete'
    BY <1>1, <2>1 DEF SchemaInv, SchemaIsSound, SchemaIsComplete, Files
  <2>12. Files(m)' = Files(m)
    BY <1>1 DEF Files
  <2> QED BY <1>1, <2>2, <2>3, <2>5, <2>6, <2>7, <2>8, <2>9, <2>10, <2>11, <2>12 DEF SchemaInv, SchemaIsSound
<1>7. CASE EndJob(m)
  <2>1. Stopped \in JobRows
    BY DEF Stopped, JobRows
  <2>2. /\ jobs' \in [Migrators -> JobRows] /\ jobs'[m] = Stopped
        /\ \A n \in Migrators \ {m} : jobs'[n] = jobs[n]
    BY <1>1, <1>7, <2>1 DEF EndJob
  <2>3. jobs'[m].at = "idle" /\ jobs'[m].pending = {}
    BY <2>2 DEF Stopped
  <2>4. UNCHANGED <<applied, ran>> /\ advisory' = (IF advisory = m THEN NoMigrator ELSE advisory)
    BY <1>7 DEF EndJob, UnlockedBy
  <2> QED BY <1>1, <2>2, <2>3, <2>4
          DEF SchemaInv, SchemaIsSound, MigratedOnce, PendingIsCurrent, SchemaIsComplete, Files, Drift
<1> QED BY <1>4, <1>5, <1>6, <1>7 DEF JobStep

\* A replica: its place moves, and past the check of the schema only by it.
LEMMA ReplicaSteps ==
  ASSUME servers \in [Servers -> ServerRows], NEW p \in Servers,
         \/ Start(p) \/ BootStep(p) \/ EndServer(p)
         \/ Accept(p) \/ Answer(p) \/ Signal(p) \/ Exit(p) \/ ForceExit(p)
  PROVE  /\ UNCHANGED <<config, schemaVars>> /\ servers' \in [Servers -> ServerRows]
         /\ \A q \in Servers \ {p} : servers'[q] = servers[q]
         /\ servers'[p].at \in {"down", "schema", servers[p].at} \/ servers[p].at \notin {"down", "schema"}
            \/ CheckSchema(p)
<1>1. Down \in ServerRows /\ MaxRequests \in Nat
  BY DeploymentAssumption DEF Down, ServerRows
<1>2. CASE Start(p)
  BY <1>1, <1>2 DEF Start, ServerRows, schemaVars
<1>3. CASE CheckSchema(p) \/ LookForBatches(p) \/ Listen(p) \/ Signal(p)
  BY <1>3 DEF CheckSchema, LookForBatches, Listen, Signal, ServerAt, ServerRows, schemaVars
<1>4. CASE LookUpAccounts(p)
  <2>1. Missing # {} => Min(Missing) \in 1..6
    <3>1. \A i \in Missing : i \in {1, 2, 3, 4, 5, 6}
      BY DEF Missing, DEMO_ACCOUNTS
    <3> HIDE DEF Missing
    <3>2. Missing # {} => \E i \in Missing : \A j \in Missing : i <= j
      BY <3>1
    <3>3. Missing # {} => Min(Missing) \in Missing
      BY <3>2 DEF Min
    <3> QED BY <3>1, <3>3
  <2>2. CASE Missing = {}
    <3>1. servers' = [servers EXCEPT ![p].at = "look"] /\ servers[p].at = "account"
      BY <1>4, <2>2 DEF LookUpAccounts, ServerAt
    <3>2. UNCHANGED <<config, schemaVars>>
      BY <1>4 DEF LookUpAccounts
    <3> QED BY <3>1, <3>2 DEF ServerRows
  <2>3. CASE Missing # {}
    <3> DEFINE least == Min(Missing)
    <3>1. servers' = [servers EXCEPT ![p].at = "provision", ![p].account = least] /\ servers[p].at = "account"
      BY <1>4, <2>3 DEF LookUpAccounts
    <3>2. least \in 1..6 /\ UNCHANGED <<config, schemaVars>>
      BY <1>4, <2>1, <2>3 DEF LookUpAccounts
    <3> HIDE DEF least
    <3> QED BY <3>1, <3>2 DEF ServerRows
  <2> QED BY <2>2, <2>3
<1>5. CASE ProvisionAccount(p)
  <2> DEFINE first == 1
  <2>1. servers' = [servers EXCEPT ![p].at = "account", ![p].account = first] /\ servers[p].at = "provision"
    BY <1>5 DEF ProvisionAccount
  <2>2. first \in 1..6 /\ UNCHANGED <<config, schemaVars>>
    BY <1>5 DEF ProvisionAccount
  <2> HIDE DEF first
  <2> QED BY <2>1, <2>2 DEF ServerRows
<1>6. CASE Fill(p)
  BY <1>6 DEF Fill, ServerRows, schemaVars
<1>7. CASE Accept(p) \/ Answer(p)
  BY <1>1, <1>7 DEF Accept, Answer, ServerRows, schemaVars
<1>8. CASE EndServer(p) \/ Exit(p) \/ ForceExit(p)
  BY <1>1, <1>8 DEF EndServer, Exit, ForceExit, ServerRows, schemaVars, Down
<1> QED BY <1>2, <1>3, <1>4, <1>5, <1>6, <1>7, <1>8 DEF BootStep

LEMMA SchemaKept ==
  ASSUME SchemaInv, [DeploymentNext]_deployVars
  PROVE  SchemaInv'
<1>1. ASSUME NEW m \in Migrators, StartJob(m) \/ JobStep(m) PROVE SchemaInv'
  BY <1>1, JobsKeepSchema
<1>2. ASSUME NEW p \in Servers,
             \/ Start(p) \/ BootStep(p) \/ EndServer(p)
             \/ Accept(p) \/ Answer(p) \/ Signal(p) \/ Exit(p) \/ ForceExit(p)
      PROVE  SchemaInv'
  <2>1. servers \in [Servers -> ServerRows]
    BY DEF SchemaInv
  <2>2. /\ UNCHANGED <<config, applied, ran, advisory, jobs>> /\ servers' \in [Servers -> ServerRows]
        /\ \A q \in Servers \ {p} : servers'[q] = servers[q]
        /\ servers'[p].at \in {"down", "schema", servers[p].at} \/ servers[p].at \notin {"down", "schema"}
           \/ CheckSchema(p)
    BY <1>2, <2>1, ReplicaSteps DEF schemaVars
  <2>3. CheckSchema(p) => Files(p) \subseteq applied
    BY DEF CheckSchema, SchemaUpToDate
  <2>4. SchemaIsComplete'
    BY <2>2, <2>3 DEF SchemaInv, SchemaIsSound, SchemaIsComplete, Files
  <2> QED BY <2>2, <2>4 DEF SchemaInv, SchemaIsSound, MigratedOnce, PendingIsCurrent, Files
<1>3. CASE UNCHANGED deployVars
  BY <1>3 DEF deployVars, schemaVars, SchemaInv, SchemaIsSound, MigratedOnce, PendingIsCurrent, SchemaIsComplete,
              Files
<1> QED BY <1>1, <1>2, <1>3 DEF DeploymentNext

\* Each migration's SQL is committed once, with its row, in order and under the
\* lock, and no replica seeds or serves on a schema behind its code (migrate and
\* assertSchemaUpToDate, migrator.ts), for any number of jobs and replicas, of
\* any mix of releases, killed anywhere.
THEOREM SchemaStaysSound == DeploymentSpec => []SchemaIsSound
<1>1. DeploymentSpec => []SchemaInv
  BY SchemaStarts, SchemaKept, PTL DEF DeploymentSpec
<1>2. SchemaInv => SchemaIsSound
  BY DEF SchemaInv
<1> QED BY <1>1, <1>2, PTL

-----------------------------------------------------------------------------
(* A deployment: the demo tenant *)

Booted(p) == servers[p].at \in {"serving", "draining"}
Filling(p) == servers[p].at = "fill"

\* Somebody filled the tenant to the end, was killed over it, or is at it.
Caused == \E q \in Servers : \/ filled[q] = Len(SeedTxs) \/ q \in torn
                             \/ (servers[q].at = "fill" /\ filled[q] > 0)

\* Two replicas do not fill the tenant, nor does one look for batches and fill
\* it after another has, unless they found it empty at the same time.
DemoInv ==
  /\ servers \in [Servers -> ServerRows] /\ filled \in [Servers -> Nat]
  /\ DemoRolesAsListed
  /\ ~overlap => \A p, q \in Servers : p # q =>
       /\ Filling(p) => ~Filling(q)
       /\ filled[p] > 0 => ~Filling(q) /\ filled[q] = 0
  /\ HasBatches => Caused
  /\ config.seedDemo => \A p \in Servers : Booted(p) => Caused

LEMMA DemoStarts == DeploymentInit => DemoInv
<1> SUFFICES ASSUME DeploymentInit PROVE DemoInv
  OBVIOUS
<1>1. servers \in [Servers -> ServerRows] /\ \A p \in Servers : servers[p].at = "down"
  BY DeploymentAssumption DEF DeploymentInit, Down, ServerRows
<1>2. filled = [p \in Servers |-> 0] /\ demo = << >>
  BY DEF DeploymentInit
<1>3. DOMAIN demo = {}
  BY <1>2
<1> QED BY <1>1, <1>2, <1>3 DEF DemoInv, DemoRolesAsListed, Booted, Filling, HasBatches

\* A step that leaves what is filled alone, and no replica begins to fill or to serve.
LEMMA DemoFrame ==
  ASSUME DemoInv, NEW p \in Servers, UNCHANGED <<config, filled, overlap>>, torn \subseteq torn',
         DemoRolesAsListed', servers' \in [Servers -> ServerRows],
         \A q \in Servers \ {p} : servers'[q] = servers[q],
         Filling(p) /\ filled[p] > 0 /\ ~Filling(p)' => p \in torn' \/ filled[p] = Len(SeedTxs),
         Filling(p)' => Filling(p), Booted(p)' => Booted(p) \/ ~config.seedDemo \/ Caused
  PROVE  DemoInv'
<1>1. \A q \in Servers \ {p} : Filling(q)' = Filling(q) /\ Booted(q)' = Booted(q)
  BY DEF Filling, Booted
<1>2. Caused => Caused'
  <2> SUFFICES ASSUME NEW q \in Servers, \/ filled[q] = Len(SeedTxs) \/ q \in torn
                                         \/ (Filling(q) /\ filled[q] > 0)
               PROVE  Caused'
    BY DEF Caused, Filling
  <2>1. \/ filled'[q] = Len(SeedTxs) \/ q \in torn' \/ (Filling(q)' /\ filled'[q] > 0)
    BY <1>1
  <2> QED BY <2>1 DEF Caused, Filling
<1>3. HasBatches' <=> HasBatches
  BY DEF HasBatches
<1>4. ~overlap' => \A r, q \in Servers : r # q =>
        /\ Filling(r)' => ~Filling(q)'
        /\ filled'[r] > 0 => ~Filling(q)' /\ filled'[q] = 0
  BY <1>1 DEF DemoInv
<1>5. config'.seedDemo => \A q \in Servers : Booted(q)' => Caused'
  BY <1>1, <1>2 DEF DemoInv
<1> QED BY <1>2, <1>3, <1>4, <1>5 DEF DemoInv

\* A replica that finds the tenant empty, and one that adds to it.
LEMMA FillingKeeps ==
  ASSUME DemoInv, NEW p \in Servers, (LookForBatches(p) /\ ~HasBatches) \/ Fill(p)
  PROVE  DemoInv'
<1>1. /\ servers \in [Servers -> ServerRows] /\ filled \in [Servers -> Nat]
      /\ UNCHANGED <<config, demo, torn>>
  BY DEF DemoInv, LookForBatches, Fill
<1>2. DemoRolesAsListed'
  BY <1>1 DEF DemoInv, DemoRolesAsListed
<1>3. CASE LookForBatches(p) /\ ~HasBatches
  <2>1. /\ servers' = [servers EXCEPT ![p].at = "fill"] /\ filled' = filled
        /\ overlap' = (overlap \/ \E q \in Servers : servers[q].at = "fill") /\ servers[p].at = "look"
    BY <1>3 DEF LookForBatches, ServerAt
  <2>2. /\ servers' \in [Servers -> ServerRows] /\ servers'[p].at = "fill"
        /\ \A q \in Servers \ {p} : servers'[q] = servers[q]
    BY <1>1, <2>1 DEF ServerRows
  <2>3. \A q \in Servers : filled[q] = 0
    BY <1>1, <1>3 DEF HasBatches
  <2>4. ~HasBatches'
    BY <2>1, <2>3 DEF HasBatches
  <2>5. \A q \in Servers : Booted(q)' => Booted(q)
    BY <2>2 DEF Booted
  <2>6. Caused => Caused'
    BY <1>1, <2>1, <2>3 DEF Caused
  <2>7. ~overlap' => \A r, q \in Servers : r # q => (Filling(r)' => ~Filling(q)')
    BY <2>1, <2>2 DEF Filling
  <2> QED BY <1>1, <1>2, <2>1, <2>2, <2>3, <2>4, <2>5, <2>6, <2>7 DEF DemoInv
<1>4. CASE Fill(p) /\ UNCHANGED servers
  <2>1. /\ filled' = filled \/ filled' = [filled EXCEPT ![p] = @ + 1]
        /\ overlap' = overlap /\ servers[p].at = "fill"
    BY <1>4 DEF Fill
  <2>2. CASE filled' = filled
    BY <1>1, <1>2, <1>4, <2>1, <2>2 DEF DemoInv, Filling, Booted, Caused, HasBatches
  <2>3. CASE filled' = [filled EXCEPT ![p] = @ + 1]
    <3>1. /\ filled' \in [Servers -> Nat] /\ filled'[p] > 0
          /\ \A q \in Servers \ {p} : filled'[q] = filled[q]
      BY <1>1, <2>3
    <3>2. Caused'
      BY <1>4, <2>1, <3>1 DEF Caused
    <3>3. ~overlap' => \A r, q \in Servers : r # q =>
            /\ Filling(r)' => ~Filling(q)'
            /\ filled'[r] > 0 => ~Filling(q)' /\ filled'[q] = 0
      <4> SUFFICES ASSUME ~overlap, NEW r \in Servers, NEW q \in Servers, r # q
                   PROVE  /\ Filling(r) => ~Filling(q)
                          /\ filled'[r] > 0 => ~Filling(q) /\ filled'[q] = 0
        BY <1>4, <2>1 DEF Filling
      <4>1. Filling(p) /\ \A x \in Servers \ {p} : ~Filling(x) /\ filled[x] = 0
        <5>1. \A x \in Servers \ {p} : filled[x] \in Nat
          BY <1>1
        <5> QED BY <2>1, <5>1 DEF DemoInv, Filling
      <4> QED BY <3>1, <4>1
    <3> QED BY <1>1, <1>2, <1>4, <3>1, <3>2, <3>3 DEF DemoInv
  <2> QED BY <2>1, <2>2, <2>3
<1>5. CASE Fill(p) /\ UNCHANGED filled
  <2>1. servers' = servers \/ servers' = [servers EXCEPT ![p].refused = TRUE]
    BY <1>5 DEF Fill
  <2>2. /\ servers' \in [Servers -> ServerRows] /\ \A q \in Servers : servers'[q].at = servers[q].at
    <3> DEFINE turned == TRUE
    <3>1. servers' = servers \/ servers' = [servers EXCEPT ![p].refused = turned]
      BY <2>1
    <3>2. turned \in BOOLEAN
      OBVIOUS
    <3> HIDE DEF turned
    <3> QED BY <1>1, <3>1, <3>2 DEF ServerRows
  <2>3. overlap' = overlap
    BY <1>5 DEF Fill
  <2> QED BY <1>1, <1>2, <1>5, <2>2, <2>3 DEF DemoInv, Filling, Booted, Caused, HasBatches
<1>6. Fill(p) => UNCHANGED servers \/ UNCHANGED filled
  BY DEF Fill
<1> QED BY <1>3, <1>4, <1>5, <1>6

LEMMA DemoKept ==
  ASSUME DemoInv, [DeploymentNext]_deployVars
  PROVE  DemoInv'
<1>1. servers \in [Servers -> ServerRows] /\ filled \in [Servers -> Nat]
  BY DEF DemoInv
<1>2. ASSUME NEW m \in Migrators, StartJob(m) \/ JobStep(m) PROVE DemoInv'
  <2>1. UNCHANGED <<config, servers, demo, filled, overlap, torn>>
    BY <1>2 DEF StartJob, JobStep, LockSchema, ReadApplied, ApplyMigration, EndJob, seedVars
  <2> QED BY <2>1 DEF DemoInv, DemoRolesAsListed, Filling, Booted, Caused, HasBatches
<1>3. ASSUME NEW p \in Servers,
             \/ Start(p) \/ BootStep(p) \/ EndServer(p)
             \/ Accept(p) \/ Answer(p) \/ Signal(p) \/ Exit(p) \/ ForceExit(p)
      PROVE  DemoInv'
  <2>1. /\ UNCHANGED <<config, schemaVars>> /\ servers' \in [Servers -> ServerRows]
        /\ \A q \in Servers \ {p} : servers'[q] = servers[q]
    BY <1>1, <1>3, ReplicaSteps
  <2>2. CASE (LookForBatches(p) /\ ~HasBatches) \/ Fill(p)
    BY <2>2, FillingKeeps
  <2>3. CASE LookForBatches(p) /\ HasBatches
    <3>1. /\ UNCHANGED <<config, filled, overlap, torn, demo>> /\ servers[p].at = "look"
          /\ servers' = [servers EXCEPT ![p].at = "serving"]
      BY <2>3 DEF LookForBatches, ServerAt
    <3>2. servers'[p].at = "serving"
      BY <1>1, <3>1 DEF ServerRows
    <3>3. Caused
      BY <2>3 DEF DemoInv
    <3>4. ~Filling(p) /\ ~Filling(p)' /\ DemoRolesAsListed'
      BY <3>1, <3>2 DEF Filling, DemoInv, DemoRolesAsListed
    <3> QED BY <2>1, <3>1, <3>3, <3>4, DemoFrame
  <2>4. CASE CheckSchema(p)
    <3>1. /\ UNCHANGED <<config, filled, overlap, torn, demo>> /\ servers[p].at = "schema"
          /\ servers' = [servers EXCEPT ![p].at = IF config.seedDemo THEN "account" ELSE "serving"]
      BY <2>4 DEF CheckSchema, ServerAt, seedVars
    <3>2. servers'[p].at = IF config.seedDemo THEN "account" ELSE "serving"
      BY <1>1, <3>1 DEF ServerRows
    <3>3. ~Filling(p) /\ ~Filling(p)' /\ DemoRolesAsListed' /\ (Booted(p)' => ~config.seedDemo)
      BY <3>1, <3>2 DEF Filling, DemoInv, DemoRolesAsListed, Booted
    <3> QED BY <2>1, <3>1, <3>3, DemoFrame
  <2>5. CASE Start(p) \/ LookUpAccounts(p) \/ Exit(p) \/ ForceExit(p)
    <3>1. /\ UNCHANGED <<config, filled, overlap, torn, demo>> /\ servers[p].at \in {"down", "account", "draining"}
          /\ servers'[p].at \in {"schema", "look", "provision", "down"}
      <4>1. CASE Start(p)
        BY <1>1, <4>1 DEF Start, seedVars, ServerRows, Down
      <4>2. CASE LookUpAccounts(p)
        <5>1. servers' = [servers EXCEPT ![p].at = "look"]
              \/ servers' = [servers EXCEPT ![p].at = "provision", ![p].account = Min(Missing)]
          BY <4>2 DEF LookUpAccounts, ServerAt
        <5>2. servers[p] \in ServerRows
          BY <1>1
        <5>3. servers'[p].at \in {"look", "provision"}
          BY <1>1, <5>1, <5>2 DEF ServerRows
        <5> QED BY <4>2, <5>3 DEF LookUpAccounts, seedVars
      <4>3. CASE Exit(p) \/ ForceExit(p)
        BY <1>1, <4>3 DEF Exit, ForceExit, seedVars, Down
      <4> QED BY <2>5, <4>1, <4>2, <4>3
    <3>2. ~Filling(p) /\ ~Filling(p)' /\ DemoRolesAsListed' /\ ~Booted(p)'
      BY <3>1 DEF Filling, DemoInv, DemoRolesAsListed, Booted
    <3> QED BY <2>1, <3>1, <3>2, DemoFrame
  <2>6. CASE ProvisionAccount(p)
    <3>1. /\ UNCHANGED <<config, filled, overlap, torn>> /\ servers[p].at = "provision"
          /\ demo' = [r \in DOMAIN demo \cup {Account(p)} |-> IF r = Account(p) THEN Account(p) ELSE demo[r]]
      BY <2>6 DEF ProvisionAccount, ProvisionedRole
    <3>2. servers'[p].at = "account"
      <4>1. servers' = [servers EXCEPT ![p].at = "account", ![p].account = 1]
        BY <2>6 DEF ProvisionAccount
      <4>2. servers[p] \in ServerRows
        BY <1>1
      <4> QED BY <1>1, <4>1, <4>2 DEF ServerRows
    <3>3. DemoRolesAsListed'
      BY <3>1 DEF DemoInv, DemoRolesAsListed
    <3>4. ~Filling(p) /\ ~Filling(p)' /\ ~Booted(p)'
      BY <3>1, <3>2 DEF Filling, Booted
    <3> QED BY <2>1, <3>1, <3>3, <3>4, DemoFrame
  <2>7. CASE Listen(p)
    <3>1. /\ UNCHANGED <<config, filled, overlap, torn, demo>> /\ filled[p] = Len(SeedTxs)
          /\ servers' = [servers EXCEPT ![p].at = "serving"]
      BY <2>7 DEF Listen, ServerAt, seedVars
    <3>2. servers'[p].at = "serving"
      BY <1>1, <3>1 DEF ServerRows
    <3>3. Caused /\ ~Filling(p)' /\ DemoRolesAsListed'
      BY <3>1, <3>2 DEF Filling, DemoInv, DemoRolesAsListed, Caused
    <3> QED BY <2>1, <3>1, <3>3, DemoFrame
  <2>8. CASE Accept(p) \/ Answer(p) \/ Signal(p)
    <3>1. /\ UNCHANGED <<config, filled, overlap, torn, demo>>
          /\ \/ servers'[p].at = servers[p].at
             \/ servers'[p].at = "draining" /\ servers[p].at = "serving"
      BY <1>1, <2>8 DEF Accept, Answer, Signal, ServerAt, seedVars, ServerRows
    <3>2. (Filling(p) <=> Filling(p)') /\ DemoRolesAsListed' /\ (Booted(p)' => Booted(p))
      BY <3>1 DEF Filling, DemoInv, DemoRolesAsListed, Booted
    <3> QED BY <2>1, <3>1, <3>2, DemoFrame
  <2>9. CASE EndServer(p)
    <3>1. /\ UNCHANGED <<config, filled, overlap, demo>> /\ servers'[p].at = "down"
          /\ torn' = IF servers[p].at = "fill" /\ filled[p] > 0 THEN torn \cup {p} ELSE torn
      BY <1>1, <2>9 DEF EndServer, Down
    <3>2. /\ torn \subseteq torn' /\ ~Filling(p)' /\ ~Booted(p)' /\ DemoRolesAsListed'
          /\ Filling(p) /\ filled[p] > 0 => p \in torn'
      BY <3>1 DEF Filling, DemoInv, DemoRolesAsListed, Booted
    <3> QED BY <2>1, <3>1, <3>2, DemoFrame
  <2> QED BY <1>3, <2>2, <2>3, <2>4, <2>5, <2>6, <2>7, <2>8, <2>9 DEF BootStep
<1>4. CASE UNCHANGED deployVars
  BY <1>4 DEF deployVars, seedVars, DemoInv, DemoRolesAsListed, Filling, Booted, Caused, HasBatches
<1> QED BY <1>2, <1>3, <1>4 DEF DeploymentNext

-----------------------------------------------------------------------------
(* A deployment: the sample data *)

StepRows == [role: Roles, stage: Stages, to: Roles \cup {NoOne}]
SampleTxs == [steps: ToSet(Sample) \cup {Messy[1], Messy[2]}, n: Nat]

LEMMA RoleNames == Roles = {"FARMER", "PROCESSOR", "INSPECTOR", "DISTRIBUTOR", "RETAILER", "ADMIN"}
BY DEF Roles, ROLE_STAGES

\* Each step of the pipeline is its role's, and hands on to the role of the next.
LEMMA PipelineLinks ==
  /\ Pipeline \in Seq(StepRows) /\ Len(Pipeline) = 6
  /\ \A i \in 1..6 : /\ Pipeline[i].stage = i - 1
                     /\ Pipeline[i].stage \in ROLE_STAGES[Pipeline[i].role]
  /\ \A i \in 2..6 : Pipeline[i - 1].to = Pipeline[i].role
  /\ \A i \in 1..5 : Pipeline[i].to # NoOne /\ i \in ROLE_STAGES[Pipeline[i].to]
<1>1. /\ Step("FARMER", HARVEST, "PROCESSOR") \in StepRows
      /\ Step("PROCESSOR", PROCESSING, "INSPECTOR") \in StepRows
      /\ Step("INSPECTOR", QUALITY_CHECK, "PROCESSOR") \in StepRows
      /\ Step("PROCESSOR", PACKAGING, "DISTRIBUTOR") \in StepRows
      /\ Step("DISTRIBUTOR", DISTRIBUTION, "RETAILER") \in StepRows
      /\ Step("RETAILER", RETAIL, NoOne) \in StepRows
  BY RoleNames DEF Step, StepRows, Stages, HARVEST, PROCESSING, QUALITY_CHECK, PACKAGING, DISTRIBUTION, RETAIL
<1>2. Pipeline \in Seq(StepRows) /\ Len(Pipeline) = 6
  BY <1>1 DEF Pipeline
<1>3. /\ Pipeline[1] = Step("FARMER", HARVEST, "PROCESSOR")
      /\ Pipeline[2] = Step("PROCESSOR", PROCESSING, "INSPECTOR")
      /\ Pipeline[3] = Step("INSPECTOR", QUALITY_CHECK, "PROCESSOR")
      /\ Pipeline[4] = Step("PROCESSOR", PACKAGING, "DISTRIBUTOR")
      /\ Pipeline[5] = Step("DISTRIBUTOR", DISTRIBUTION, "RETAILER")
      /\ Pipeline[6] = Step("RETAILER", RETAIL, NoOne)
  BY DEF Pipeline
<1>4. ASSUME NEW i \in 1..6
      PROVE  /\ Pipeline[i].stage = i - 1
             /\ Pipeline[i].stage \in ROLE_STAGES[Pipeline[i].role]
  <2>1. i = 1 \/ i = 2 \/ i = 3 \/ i = 4 \/ i = 5 \/ i = 6
    OBVIOUS
  <2> QED BY <1>3, <2>1 DEF Step, ROLE_STAGES, Stages, HARVEST, PROCESSING, QUALITY_CHECK, PACKAGING, DISTRIBUTION, RETAIL
<1>5. ASSUME NEW i \in 2..6 PROVE Pipeline[i - 1].to = Pipeline[i].role
  <2>1. i = 2 \/ i = 3 \/ i = 4 \/ i = 5 \/ i = 6
    OBVIOUS
  <2> QED BY <1>3, <2>1 DEF Step
<1>6. ASSUME NEW i \in 1..5 PROVE Pipeline[i].to # NoOne /\ i \in ROLE_STAGES[Pipeline[i].to]
  <2>1. i = 1 \/ i = 2 \/ i = 3 \/ i = 4 \/ i = 5
    OBVIOUS
  <2> QED BY <1>3, <2>1 DEF Step, ROLE_STAGES, NoOne, HARVEST, PROCESSING, QUALITY_CHECK, PACKAGING, DISTRIBUTION, RETAIL
<1> QED BY <1>2, <1>4, <1>5, <1>6

\* A sample batch goes some way down the pipeline.
LEMMA SamplesArePrefixes ==
  ASSUME NEW steps \in ToSet(Sample)
  PROVE  /\ steps \in Seq(StepRows) /\ Len(steps) \in 1..6
         /\ \A i \in 1..Len(steps) : steps[i] = Pipeline[i]
<1>1. PICK i \in 1..7 : steps = SubSeq(Pipeline, 1, <<6, 6, 1, 2, 4, 1, 3>>[i])
  BY DEF ToSet, Sample
<1> DEFINE k == <<6, 6, 1, 2, 4, 1, 3>>[i]
<1>2. k \in 1..6
  <2>1. i = 1 \/ i = 2 \/ i = 3 \/ i = 4 \/ i = 5 \/ i = 6 \/ i = 7
    OBVIOUS
  <2> QED BY <2>1
<1>3. steps = SubSeq(Pipeline, 1, k)
  BY <1>1
<1> HIDE DEF k
<1>4. k \in Nat /\ 1 <= k /\ k <= 6
  BY <1>2
<1>5. ASSUME NEW j \in 1..k PROVE Pipeline[j] \in StepRows
  <2>1. Pipeline \in Seq(StepRows) /\ Len(Pipeline) = 6
    BY PipelineLinks
  <2>2. j \in 1..Len(Pipeline)
    BY <1>4, <2>1
  <2> QED BY <2>1, <2>2, ElementOfSeq
<1>6. /\ steps \in Seq(StepRows) /\ Len(steps) = k
      /\ \A j \in 1..k : steps[j] = Pipeline[1 + j - 1]
  BY <1>3, <1>4, <1>5, SubSeqProperties
<1> QED BY <1>4, <1>6

LEMMA MessyIs ==
  /\ Messy[1] \in Seq(StepRows) /\ Len(Messy[1]) = 2
  /\ Messy[1][1] = Step("ADMIN", HARVEST, NoOne) /\ Messy[1][2] = Step("ADMIN", PACKAGING, NoOne)
  /\ Messy[2] \in Seq(StepRows) /\ Len(Messy[2]) = 2
  /\ Messy[2][1] = Step("ADMIN", HARVEST, NoOne) /\ Messy[2][2] = Step("ADMIN", HARVEST, NoOne)
<1>1. Step("ADMIN", HARVEST, NoOne) \in StepRows /\ Step("ADMIN", PACKAGING, NoOne) \in StepRows
  BY RoleNames DEF Step, StepRows, Stages, HARVEST, PACKAGING, RETAIL
<1> QED BY <1>1 DEF Messy

\* What one batch contributes.
LEMMA TxsAreSamples ==
  ASSUME NEW steps \in ToSet(Sample) \cup {Messy[1], Messy[2]}, NEW recalled \in BOOLEAN
  PROVE  TxsOf(steps, recalled) \in Seq(SampleTxs)
<1>1. Len(steps) \in Nat
  BY SamplesArePrefixes, MessyIs
<1> DEFINE n == Len(steps) + IF recalled THEN 2 ELSE 1
<1>2. n \in Nat
  BY <1>1
<1>3. \A i \in 1..n : [steps |-> steps, n |-> i - 1] \in SampleTxs
  BY <1>2 DEF SampleTxs
<1>4. TxsOf(steps, recalled) = [i \in 1..n |-> [steps |-> steps, n |-> i - 1]]
  BY DEF TxsOf
<1> HIDE DEF n
<1>5. TxsOf(steps, recalled) \in [1..n -> SampleTxs]
  BY <1>3, <1>4
<1> QED BY <1>2, <1>5

\* The list of all transactions has nothing but theirs.
LEMMA SeedTxsAreSamples == SeedTxs \in Seq(SampleTxs)
<1> DEFINE parts == [i \in 1..9 |-> IF i <= 7 THEN TxsOf(Sample[i], i = 7) ELSE TxsOf(Messy[i - 7], FALSE)]
           joining(f) == [i \in 1..9 |-> IF i = 1 THEN parts[i] ELSE f[i - 1] \o parts[i]]
<1>1. \A i \in 1..9 : parts[i] \in Seq(SampleTxs)
  <2> SUFFICES ASSUME NEW i \in 1..9 PROVE parts[i] \in Seq(SampleTxs)
    OBVIOUS
  <2>1. CASE i <= 7
    <3>1. Sample[i] \in ToSet(Sample)
      BY <2>1 DEF ToSet, Sample
    <3>2. parts[i] = TxsOf(Sample[i], i = 7) /\ (i = 7) \in BOOLEAN
      BY <2>1
    <3> QED BY <3>1, <3>2, TxsAreSamples
  <2>2. CASE i > 7
    <3>0. ~(i <= 7)
      BY <2>2
    <3>1. parts[i] = TxsOf(Messy[i - 7], FALSE)
      BY <3>0, Zenon
    <3>2. i - 7 = 1 \/ i - 7 = 2
      BY <2>2
    <3>3. Messy[i - 7] \in {Messy[1], Messy[2]}
      BY <3>2
    <3> HIDE DEF parts
    <3> QED BY <3>1, <3>3, TxsAreSamples
  <2> HIDE DEF parts
  <2> QED BY <2>1, <2>2
<1>2. DOMAIN parts = 1..9 /\ Len(parts) = 9
  OBVIOUS
<1>3. SeedTxs = FlattenSeq(parts)
  BY Zenon DEF SeedTxs
<1> HIDE DEF parts
<1> DEFINE flat == CHOOSE f : f = joining(f)
<1>4. SeedTxs = flat[9]
  BY <1>2, <1>3 DEF FlattenSeq
<1>5. flat = joining(flat)
  <2> DEFINE g1 == parts[1]
             g2 == g1 \o parts[2]
             g3 == g2 \o parts[3]
             g4 == g3 \o parts[4]
             g5 == g4 \o parts[5]
             g6 == g5 \o parts[6]
             g7 == g6 \o parts[7]
             g8 == g7 \o parts[8]
             g9 == g8 \o parts[9]
             g  == [i \in 1..9 |-> <<g1, g2, g3, g4, g5, g6, g7, g8, g9>>[i]]
  <2>1. /\ g2 = g1 \o parts[2] /\ g3 = g2 \o parts[3] /\ g4 = g3 \o parts[4] /\ g5 = g4 \o parts[5]
        /\ g6 = g5 \o parts[6] /\ g7 = g6 \o parts[7] /\ g8 = g7 \o parts[8] /\ g9 = g8 \o parts[9]
        /\ g1 = parts[1]
    OBVIOUS
  <2> HIDE DEF g1, g2, g3, g4, g5, g6, g7, g8, g9
  <2>2. /\ g[1] = g1 /\ g[2] = g2 /\ g[3] = g3 /\ g[4] = g4 /\ g[5] = g5
        /\ g[6] = g6 /\ g[7] = g7 /\ g[8] = g8 /\ g[9] = g9
    OBVIOUS
  <2>3. g = [i \in 1..9 |-> g[i]]
    OBVIOUS
  <2> HIDE DEF g
  <2>4. ASSUME NEW i \in 1..9 PROVE g[i] = IF i = 1 THEN parts[i] ELSE g[i - 1] \o parts[i]
    <3>1. /\ g[1] = parts[1] /\ g[2] = g[1] \o parts[2] /\ g[3] = g[2] \o parts[3]
          /\ g[4] = g[3] \o parts[4] /\ g[5] = g[4] \o parts[5] /\ g[6] = g[5] \o parts[6]
          /\ g[7] = g[6] \o parts[7] /\ g[8] = g[7] \o parts[8] /\ g[9] = g[8] \o parts[9]
      BY <2>1, <2>2, Zenon
    <3>2. \/ i = 1
          \/ i - 1 = 1 /\ i = 2
          \/ i - 1 = 2 /\ i = 3
          \/ i - 1 = 3 /\ i = 4
          \/ i - 1 = 4 /\ i = 5
          \/ i - 1 = 5 /\ i = 6
          \/ i - 1 = 6 /\ i = 7
          \/ i - 1 = 7 /\ i = 8
          \/ i - 1 = 8 /\ i = 9
      OBVIOUS
    <3>3. i # 1 => g[i] = g[i - 1] \o parts[i]
      BY <3>1, <3>2, Zenon
    <3> QED BY <3>1, <3>3
  <2>5. g = joining(g)
    BY <2>3, <2>4
  <2> QED BY <2>5
<1> HIDE DEF flat
<1>6. flat[1] = parts[1] /\ \A i \in 2..9 : flat[i] = flat[i - 1] \o parts[i]
  <2>1. \A i \in 1..9 : joining(flat)[i] = IF i = 1 THEN parts[i] ELSE flat[i - 1] \o parts[i]
    BY Zenon
  <2> HIDE DEF joining
  <2>2. 1 \in 1..9 /\ \A i \in 2..9 : i \in 1..9 /\ i # 1
    OBVIOUS
  <2> QED BY <1>5, <2>1, <2>2, Zenon
<1>7. ASSUME NEW i \in 2..9, flat[i - 1] \in Seq(SampleTxs) PROVE flat[i] \in Seq(SampleTxs)
  <2>1. parts[i] \in Seq(SampleTxs) /\ flat[i] = flat[i - 1] \o parts[i]
    <3>1. i \in 1..9
      OBVIOUS
    <3> QED BY <1>1, <1>6, <3>1, Zenon
  <2> QED BY <1>7, <2>1, ConcatProperties
<1>8. flat[1] \in Seq(SampleTxs)
  BY <1>1, <1>6
<1>9. /\ flat[2] \in Seq(SampleTxs) /\ flat[3] \in Seq(SampleTxs) /\ flat[4] \in Seq(SampleTxs)
  BY <1>7, <1>8
<1>10. /\ flat[5] \in Seq(SampleTxs) /\ flat[6] \in Seq(SampleTxs) /\ flat[7] \in Seq(SampleTxs)
  BY <1>7, <1>9
<1>11. /\ flat[8] \in Seq(SampleTxs) /\ flat[9] \in Seq(SampleTxs)
  BY <1>7, <1>10
<1> QED BY <1>4, <1>11

\* A batch whose stages have only risen so far is where its last step left it.
LEMMA RowAfterRising ==
  ASSUME NEW steps \in Seq(StepRows), NEW n \in 0..5, n <= Len(steps),
         \A i \in 1..n : steps[i].stage > IF i = 1 THEN NotStarted ELSE steps[i - 1].stage
  PROVE  RowAfter(steps, n) = IF n = 0 THEN [stage |-> NotStarted, holder |-> steps[1].role]
                              ELSE [stage |-> steps[n].stage, holder |-> steps[n].to]
<1> DEFINE first   == [stage |-> NotStarted, holder |-> steps[1].role]
           left(i) == [stage |-> steps[i].stage, holder |-> steps[i].to]
           next(f) == [i \in 0..n |-> IF i = 0 THEN first
                                      ELSE IF steps[i].stage > f[i - 1].stage THEN left(i) ELSE f[i - 1]]
           row     == CHOOSE f : f = next(f)
           g       == [i \in 0..n |-> IF i = 0 THEN first ELSE left(i)]
<1>1. RowAfter(steps, n) = row[n]
  BY Zenon DEF RowAfter
<1>2. first.stage = NotStarted /\ \A i \in 1..n : left(i).stage = steps[i].stage
  OBVIOUS
<1>3. ASSUME NEW i \in 1..n
      PROVE  steps[i].stage > (IF i - 1 = 0 THEN first ELSE left(i - 1)).stage
  <2>1. CASE i = 1
    BY <1>2, <2>1
  <2>2. CASE i # 1
    <3>1. i - 1 \in 1..n /\ i - 1 # 0
      BY <2>2
    <3> QED BY <1>2, <2>2, <3>1
  <2> QED BY <2>1, <2>2
<1> HIDE DEF first, left
<1>4. g = next(g)
  <2>1. \A i \in 0..n : g[i] = IF i = 0 THEN first ELSE left(i)
    OBVIOUS
  <2>2. g = [i \in 0..n |-> g[i]]
    OBVIOUS
  <2> HIDE DEF g
  <2>3. ASSUME NEW i \in 0..n
        PROVE  g[i] = IF i = 0 THEN first ELSE IF steps[i].stage > g[i - 1].stage THEN left(i) ELSE g[i - 1]
    <3>1. CASE i = 0
      BY <2>1, <3>1
    <3>2. CASE i # 0
      <4>1. i \in 1..n /\ i - 1 \in 0..n
        BY <3>2
      <4>2. g[i - 1] = IF i - 1 = 0 THEN first ELSE left(i - 1)
        BY <2>1, <4>1
      <4> QED BY <1>3, <2>1, <3>2, <4>1, <4>2
    <3> QED BY <3>1, <3>2
  <2> QED BY <2>2, <2>3
<1>5. row = next(row)
  BY <1>4
<1>6. \A i \in 0..n : g[i] = IF i = 0 THEN first ELSE left(i)
  OBVIOUS
<1> HIDE DEF row, g
<1>7. \A i \in 0..n : row[i] = IF i = 0 THEN first
                               ELSE IF steps[i].stage > row[i - 1].stage THEN left(i) ELSE row[i - 1]
  BY <1>5
<1> HIDE DEF next
<1>8. row[0] = g[0]
  <2>1. 0 \in 0..n
    OBVIOUS
  <2> QED BY <1>6, <1>7, <2>1, Zenon
<1>9. ASSUME NEW i \in 1..n, row[i - 1] = g[i - 1] PROVE row[i] = g[i]
  <2>1. i \in 0..n /\ i - 1 \in 0..n /\ i # 0
    OBVIOUS
  <2>2. g[i - 1] = (IF i - 1 = 0 THEN first ELSE left(i - 1)) /\ g[i] = left(i)
    BY <1>6, <2>1
  <2>3. steps[i].stage > row[i - 1].stage
    BY <1>3, <1>9, <2>2
  <2> QED BY <1>7, <2>1, <2>2, <2>3
<1>10. row[n] = g[n]
  <2> DEFINE ok(i) == i <= n => row[i] = g[i]
  <2>1. ASSUME NEW i \in 1..5, ok(i - 1) PROVE ok(i)
    <3> SUFFICES ASSUME i <= n PROVE row[i] = g[i]
      OBVIOUS
    <3>1. i \in 1..n /\ i - 1 <= n
      OBVIOUS
    <3> QED BY <1>9, <2>1, <3>1
  <2>2. ok(0)
    BY <1>8
  <2> HIDE DEF ok
  <2>3. ok(1) /\ ok(2)
    BY <2>1, <2>2
  <2>4. ok(3) /\ ok(4)
    BY <2>1, <2>3
  <2>5. ok(5)
    BY <2>1, <2>4
  <2>6. ok(n)
    <3>1. n = 0 \/ n = 1 \/ n = 2 \/ n = 3 \/ n = 4 \/ n = 5
      OBVIOUS
    <3> QED BY <2>2, <2>3, <2>4, <2>5, <3>1
  <2> QED BY <2>6 DEF ok
<1>11. g[n] = IF n = 0 THEN first ELSE left(n)
  BY <1>6
<1> QED BY <1>1, <1>10, <1>11 DEF first, left

\* With every demo account in its role, recordEvent refuses none of the steps.
LEMMA SamplesAreAllowed ==
  ASSUME \A r \in Roles : demo[r] = r, NEW tx \in SampleTxs
  PROVE  SeedTxAllowed(tx)
<1> DEFINE steps == tx.steps  n == tx.n
<1> SUFFICES ASSUME n \in 1..Len(steps) PROVE RecordAllowed(steps, n)
  BY DEF SeedTxAllowed
<1>1. steps \in ToSet(Sample) \cup {Messy[1], Messy[2]}
  BY DEF SampleTxs
<1> HIDE DEF steps, n
<1>2. CASE steps \in ToSet(Sample)
  <2>1. /\ steps \in Seq(StepRows) /\ Len(steps) \in 1..6 /\ n \in 1..6
        /\ \A i \in 1..Len(steps) : steps[i] = Pipeline[i]
    BY <1>2, SamplesArePrefixes
  <2>2. steps[n] \in StepRows
    BY <2>1, ElementOfSeq
  <2> DEFINE step == steps[n]  row == RowAfter(steps, n - 1)
  <2>3. step.role \in Roles /\ demo[step.role] = step.role /\ step = Pipeline[n]
    BY <2>1, <2>2 DEF StepRows
  <2>4. step.stage = n - 1 /\ step.stage \in ROLE_STAGES[step.role]
    BY <2>1, <2>3, PipelineLinks
  <2>5. row.holder = step.role
    <3>1. /\ n - 1 \in 0..5 /\ n - 1 <= Len(steps)
          /\ \A i \in 1..(n - 1) : i \in 1..6 /\ steps[i] = Pipeline[i] /\ (i # 1 => i - 1 \in 1..6 /\ steps[i - 1] = Pipeline[i - 1])
      BY <2>1
    <3>2. \A i \in 1..(n - 1) : steps[i].stage > IF i = 1 THEN NotStarted ELSE steps[i - 1].stage
      <4> SUFFICES ASSUME NEW i \in 1..(n - 1)
                   PROVE  steps[i].stage > IF i = 1 THEN NotStarted ELSE steps[i - 1].stage
        OBVIOUS
      <4>1. i \in 1..6 /\ (i # 1 => i - 1 \in 1..6)
        BY <3>1
      <4>2. steps[i].stage = i - 1 /\ (i # 1 => steps[i - 1].stage = (i - 1) - 1)
        BY <3>1, <4>1, PipelineLinks
      <4> QED BY <4>1, <4>2 DEF NotStarted
    <3>3. row = IF n - 1 = 0 THEN [stage |-> NotStarted, holder |-> steps[1].role]
                ELSE [stage |-> steps[n - 1].stage, holder |-> steps[n - 1].to]
      BY <2>1, <3>1, <3>2, RowAfterRising
    <3>4. CASE n = 1
      BY <3>3, <3>4
    <3>5. CASE n # 1
      <4>1. n \in 2..6 /\ n - 1 \in 1..(n - 1)
        BY <2>1, <3>5
      <4>2. steps[n - 1] = Pipeline[n - 1] /\ Pipeline[n - 1].to = Pipeline[n].role
        BY <3>1, <4>1, PipelineLinks
      <4> QED BY <2>3, <3>3, <3>5, <4>2
    <3> QED BY <3>4, <3>5
  <2>6. \/ step.stage = TerminalStage
        \/ step.to # NoOne /\ demo[step.to] = step.to /\ step.stage + 1 \in ROLE_STAGES[step.to]
    <3>1. CASE n = 6
      BY <2>4, <3>1 DEF TerminalStage, RETAIL
    <3>2. CASE n # 6
      <4>1. n \in 1..5
        BY <2>1, <3>2
      <4>2. step.to # NoOne /\ n \in ROLE_STAGES[step.to]
        BY <2>3, <4>1, PipelineLinks
      <4>3. step.to \in Roles
        BY <2>2, <4>2 DEF StepRows
      <4> QED BY <2>1, <2>4, <4>2, <4>3
    <3> QED BY <3>1, <3>2
  <2> QED BY <2>3, <2>4, <2>5, <2>6 DEF RecordAllowed
<1>3. CASE steps \in {Messy[1], Messy[2]}
  <2>1. n = 1 \/ n = 2
    BY <1>3, MessyIs
  <2>2. /\ steps[n].role = "ADMIN" /\ steps[n].to = NoOne /\ steps[n].stage \in Stages
    BY <1>3, <2>1, MessyIs DEF Step, Stages, HARVEST, PACKAGING, RETAIL
  <2>3. demo["ADMIN"] = "ADMIN"
    BY RoleNames
  <2>4. ROLE_STAGES["ADMIN"] = Stages
    BY DEF ROLE_STAGES
  <2> QED BY <2>2, <2>3, <2>4 DEF RecordAllowed
<1> QED BY <1>1, <1>2, <1>3

\* Stages one after the other show nothing.
LEMMA RisingIsClean ==
  ASSUME NEW n \in Nat, NEW events, Len(events) = n,
         \A i \in 1..n : events[i].stage = i - 1
  PROVE  DetectAnomalies(events) = {}
<1> SUFFICES ASSUME NEW i \in 1..n PROVE AnomaliesAt(events, i) = {}
  BY DEF DetectAnomalies
<1>1. SeenBefore(events, i) = 0..(i - 2)
  <2>1. \A j \in 1..(i - 1) : events[j].stage = j - 1
    OBVIOUS
  <2>2. \A x \in 0..(i - 2) : x + 1 \in 1..(i - 1) /\ x = (x + 1) - 1
    OBVIOUS
  <2>3. \A x \in SeenBefore(events, i) : x \in 0..(i - 2)
    BY <2>1 DEF SeenBefore
  <2>4. ASSUME NEW x \in 0..(i - 2) PROVE x \in SeenBefore(events, i)
    <3>1. x + 1 \in 1..(i - 1) /\ events[x + 1].stage = x
      BY <2>1, <2>2
    <3> QED BY <3>1 DEF SeenBefore
  <2> QED BY <2>3, <2>4
<1>2. HighestBefore(events, i) = i - 2
  <2>1. i - 2 \in SeenBefore(events, i) \cup {-1} /\ \A s \in SeenBefore(events, i) : s <= i - 2
    BY <1>1
  <2>2. /\ HighestBefore(events, i) \in SeenBefore(events, i) \cup {-1}
        /\ \A s \in SeenBefore(events, i) : s <= HighestBefore(events, i)
    BY <2>1 DEF HighestBefore
  <2>3. CASE i = 1
    BY <1>1, <2>2, <2>3
  <2>4. CASE i # 1
    <3>1. i - 2 \in SeenBefore(events, i)
      BY <1>1, <2>4
    <3>2. HighestBefore(events, i) \in 0..(i - 2) \cup {-1} /\ i - 2 <= HighestBefore(events, i)
      BY <1>1, <2>2, <3>1
    <3>3. i - 2 >= 0
      BY <2>4
    <3> QED BY <3>2, <3>3
  <2> QED BY <2>3, <2>4
<1>3. events[i].stage = i - 1
  OBVIOUS
<1>4. TypesAt(events, i) = {}
  BY <1>1, <1>2, <1>3 DEF TypesAt
<1> QED BY <1>4 DEF AnomaliesAt

\* A first harvest, and what follows it.
LEMMA TwoEventsShow ==
  ASSUME NEW events, Len(events) = 2, events[1].stage = HARVEST, events[2].stage \in Stages
  PROVE  {a.type : a \in DetectAnomalies(events)} =
           IF events[2].stage = HARVEST THEN {"DUPLICATE_STAGE"}
           ELSE IF events[2].stage > PROCESSING THEN {"STAGE_SKIPPED"} ELSE {}
<1>1. SeenBefore(events, 1) = {} /\ SeenBefore(events, 2) = {0}
  BY DEF SeenBefore, HARVEST
<1>2. HighestBefore(events, 1) = -1
  BY <1>1 DEF HighestBefore
<1>3. HighestBefore(events, 2) = 0
  BY <1>1 DEF HighestBefore
<1>4. TypesAt(events, 1) = {}
  BY <1>1, <1>2 DEF TypesAt, HARVEST
<1>5. TypesAt(events, 2) = IF events[2].stage = HARVEST THEN {"DUPLICATE_STAGE"}
                           ELSE IF events[2].stage > PROCESSING THEN {"STAGE_SKIPPED"} ELSE {}
  BY <1>1, <1>3 DEF TypesAt, HARVEST, PROCESSING, Stages, RETAIL
<1>6. AnomaliesAt(events, 1) = {}
  BY <1>4 DEF AnomaliesAt
<1>7. 1..2 = {1, 2}
  OBVIOUS
<1>8. DetectAnomalies(events) = AnomaliesAt(events, 2)
  BY <1>6, <1>7 DEF DetectAnomalies
<1>9. {a.type : a \in AnomaliesAt(events, 2)} = TypesAt(events, 2)
  <2>1. ASSUME NEW t \in TypesAt(events, 2) PROVE \E a \in AnomaliesAt(events, 2) : a.type = t
    <3>1. [type |-> t, eventSeq |-> events[2].sequenceNumber] \in AnomaliesAt(events, 2)
      BY DEF AnomaliesAt
    <3> QED BY <3>1
  <2>2. \A a \in AnomaliesAt(events, 2) : a.type \in TypesAt(events, 2)
    BY DEF AnomaliesAt
  <2> QED BY <2>1, <2>2
<1> QED BY <1>5, <1>8, <1>9

\* Every batch shows what it is there to show.
LEMMA SamplesAreFaithful == ASSUME NEW i \in 1..Len(SeedTxs) PROVE i \in Faithful
<1> DEFINE tx     == SeedTxs[i]
           steps  == tx.steps
           events == [j \in 1..tx.n |-> [stage |-> steps[j].stage, sequenceNumber |-> j - 1]]
<1>1. tx \in SampleTxs
  BY SeedTxsAreSamples, ElementOfSeq
<1>2. steps \in ToSet(Sample) \cup {Messy[1], Messy[2]}
  BY <1>1 DEF SampleTxs
<1>3. Shown(i) = {a.type : a \in DetectAnomalies(events)}
  BY Zenon DEF Shown
<1> SUFFICES ASSUME tx.n = Len(steps)
             PROVE  \/ Shown(i) = {} /\ steps \in ToSet(Sample)
                    \/ \E k \in 1..2 : steps = Messy[k] /\ Shown(i) = {MessyShows[k]}
  BY DEF Faithful
<1>4. Len(steps) \in Nat
  BY <1>2, SamplesArePrefixes, MessyIs
<1>5. Len(events) = Len(steps) /\ \A j \in 1..Len(steps) : events[j].stage = steps[j].stage
  BY <1>4
<1> HIDE DEF events, steps, tx
<1>6. CASE steps \in ToSet(Sample)
  <2>1. \A j \in 1..Len(steps) : events[j].stage = j - 1
    <3> SUFFICES ASSUME NEW j \in 1..Len(steps) PROVE events[j].stage = j - 1
      OBVIOUS
    <3>1. j \in 1..6 /\ steps[j] = Pipeline[j]
      BY <1>6, SamplesArePrefixes
    <3> QED BY <1>5, <3>1, PipelineLinks
  <2> QED BY <1>3, <1>4, <1>5, <1>6, <2>1, RisingIsClean
<1>7. CASE steps = Messy[1]
  <2>1. Len(events) = 2 /\ events[1].stage = HARVEST /\ events[2].stage = PACKAGING
    BY <1>5, <1>7, MessyIs DEF Step
  <2>2. Shown(i) = {"STAGE_SKIPPED"}
    BY <1>3, <2>1, TwoEventsShow DEF HARVEST, PROCESSING, PACKAGING, Stages, RETAIL
  <2>3. MessyShows[1] = "STAGE_SKIPPED" /\ 1 \in 1..2
    BY DEF MessyShows
  <2> QED BY <1>7, <2>2, <2>3
<1>8. CASE steps = Messy[2]
  <2>1. Len(events) = 2 /\ events[1].stage = HARVEST /\ events[2].stage = HARVEST
    BY <1>5, <1>8, MessyIs DEF Step
  <2>2. Shown(i) = {"DUPLICATE_STAGE"}
    <3>1. HARVEST \in Stages
      BY DEF HARVEST, Stages, RETAIL
    <3> QED BY <1>3, <2>1, <3>1, TwoEventsShow
  <2>3. MessyShows[2] = "DUPLICATE_STAGE" /\ 2 \in 1..2
    BY DEF MessyShows
  <2> QED BY <1>8, <2>2, <2>3
<1> QED BY <1>2, <1>6, <1>7, <1>8

-----------------------------------------------------------------------------
(* A deployment: its types, and the seeding *)

\* Who looks for batches, or fills the tenant, has found all accounts there,
\* each in its role; so that no step of the samples is refused.
StaffInv ==
  /\ DeploymentTypeOK /\ DemoRolesAsListed /\ SampleDataIsLegal
  /\ \A p \in Servers : servers[p].at \in {"look", "fill"} => Roles \subseteq DOMAIN demo

LEMMA StaffStarts == DeploymentInit => StaffInv
<1> SUFFICES ASSUME DeploymentInit PROVE StaffInv
  OBVIOUS
<1>1. SchemaInv
  BY SchemaStarts
<1>2. demo = << >> /\ filled = [p \in Servers |-> 0] /\ overlap = FALSE /\ torn = {} /\ advisory = NoMigrator
  BY DEF DeploymentInit
<1>3. DOMAIN demo = {} /\ Len(SeedTxs) \in Nat
  BY <1>2, SeedTxsAreSamples
<1>4. \A p \in Servers : servers[p].at = "down" /\ ~servers[p].refused
  BY DEF DeploymentInit, Down
<1>5. filled \in [Servers -> 0..Len(SeedTxs)]
  BY <1>2, <1>3
<1>6. DeploymentTypeOK
  BY <1>1, <1>2, <1>3, <1>5 DEF SchemaInv, DeploymentTypeOK
<1> QED BY <1>3, <1>4, <1>6
        DEF StaffInv, SchemaInv, DeploymentTypeOK, DemoRolesAsListed, SampleDataIsLegal

\* The loop of lookups ends when every role has its account.
LEMMA NoneMissing == Missing = {} => Roles \subseteq DOMAIN demo
<1>1. /\ DEMO_ACCOUNTS[1] = "FARMER" /\ DEMO_ACCOUNTS[2] = "PROCESSOR" /\ DEMO_ACCOUNTS[3] = "INSPECTOR"
      /\ DEMO_ACCOUNTS[4] = "DISTRIBUTOR" /\ DEMO_ACCOUNTS[5] = "RETAILER" /\ DEMO_ACCOUNTS[6] = "ADMIN"
      /\ Len(DEMO_ACCOUNTS) = 6
  BY DEF DEMO_ACCOUNTS
<1>2. Missing = {} => \A i \in 1..6 : DEMO_ACCOUNTS[i] \in DOMAIN demo
  BY <1>1 DEF Missing
<1> QED BY <1>1, <1>2, RoleNames

LEMMA AccountIsRole == ASSUME NEW p \in Servers, servers[p] \in ServerRows PROVE Account(p) \in Roles
<1>1. servers[p].account \in 1..6
  BY DEF ServerRows
<1>2. \A i \in 1..6 : DEMO_ACCOUNTS[i] \in Roles
  BY RoleNames DEF DEMO_ACCOUNTS
<1> QED BY <1>1, <1>2 DEF Account

LEMMA StaffKept ==
  ASSUME StaffInv, SchemaInv, [DeploymentNext]_deployVars
  PROVE  StaffInv'
<1>1. /\ DOMAIN demo \subseteq Roles /\ filled \in [Servers -> 0..Len(SeedTxs)] /\ overlap \in BOOLEAN
      /\ torn \subseteq Servers /\ servers \in [Servers -> ServerRows]
      /\ \A r \in DOMAIN demo : demo[r] = r
      /\ advisory \in Migrators \cup {NoMigrator} /\ Len(SeedTxs) \in Nat
  BY SeedTxsAreSamples DEF StaffInv, DeploymentTypeOK, DemoRolesAsListed
<1>2. SchemaInv'
  BY SchemaKept
<1> DEFINE Kept ==
       /\ advisory' \in Migrators \cup {NoMigrator} /\ DOMAIN demo' \subseteq Roles
       /\ \A r \in DOMAIN demo' : demo'[r] = r
       /\ filled' \in [Servers -> 0..Len(SeedTxs)] /\ overlap' \in BOOLEAN /\ torn' \subseteq Servers
       /\ \A p \in Servers : ~servers'[p].refused
       /\ \A p \in Servers : servers'[p].at \in {"look", "fill"} => Roles \subseteq DOMAIN demo'
<1>3. Kept => StaffInv'
  BY <1>2 DEF SchemaInv, StaffInv, DeploymentTypeOK, DemoRolesAsListed, SampleDataIsLegal
<1>4. ASSUME NEW m \in Migrators, StartJob(m) \/ JobStep(m) PROVE Kept
  <2>1. UNCHANGED <<servers, demo, filled, overlap, torn>> /\ advisory' \in {advisory, m, NoMigrator}
    BY <1>4 DEF StartJob, JobStep, LockSchema, ReadApplied, ApplyMigration, EndJob, seedVars, UnlockedBy
  <2> QED BY <1>1, <2>1 DEF StaffInv, SampleDataIsLegal
<1>5. ASSUME NEW p \in Servers,
             \/ Start(p) \/ BootStep(p) \/ EndServer(p)
             \/ Accept(p) \/ Answer(p) \/ Signal(p) \/ Exit(p) \/ ForceExit(p)
      PROVE  Kept
  <2>1. /\ servers' \in [Servers -> ServerRows] /\ advisory' = advisory
        /\ \A q \in Servers \ {p} : servers'[q] = servers[q]
    BY <1>1, <1>5, ReplicaSteps DEF schemaVars
  <2>2. \A q \in Servers : /\ ~servers[q].refused
                           /\ servers[q].at \in {"look", "fill"} => Roles \subseteq DOMAIN demo
    BY DEF StaffInv, SampleDataIsLegal
  <2>3. CASE Fill(p)
    <3>1. servers[p].at = "fill" /\ filled[p] < Len(SeedTxs) /\ UNCHANGED <<demo, overlap, torn>>
      BY <2>3 DEF Fill
    <3>2. \A r \in Roles : demo[r] = r
      BY <1>1, <2>2, <3>1
    <3>3. filled[p] + 1 \in 1..Len(SeedTxs)
      BY <1>1, <3>1
    <3>4. SeedTxs[filled[p] + 1] \in SampleTxs
      BY <3>3, SeedTxsAreSamples, ElementOfSeq
    <3>5. SeedTxAllowed(SeedTxs[filled[p] + 1])
      BY <3>2, <3>4, SamplesAreAllowed
    <3>6. filled' = [filled EXCEPT ![p] = @ + 1] /\ UNCHANGED servers
      BY <2>3, <3>5 DEF Fill
    <3>7. filled' \in [Servers -> 0..Len(SeedTxs)]
      BY <1>1, <3>3, <3>6
    <3> QED BY <1>1, <2>1, <2>2, <3>1, <3>6, <3>7
  <2>4. CASE ProvisionAccount(p)
    <3>1. /\ UNCHANGED <<filled, overlap, torn>>
          /\ demo' = [r \in DOMAIN demo \cup {Account(p)} |-> IF r = Account(p) THEN Account(p) ELSE demo[r]]
      BY <2>4 DEF ProvisionAccount, ProvisionedRole
    <3>2. servers'[p].at = "account" /\ ~servers'[p].refused
      <4>1. servers' = [servers EXCEPT ![p].at = "account", ![p].account = 1] /\ servers[p] \in ServerRows
        BY <1>1, <2>4 DEF ProvisionAccount
      <4> QED BY <1>1, <2>2, <4>1 DEF ServerRows
    <3>3. Account(p) \in Roles
      BY <1>1, AccountIsRole
    <3>4. /\ DOMAIN demo' \subseteq Roles /\ DOMAIN demo \subseteq DOMAIN demo'
          /\ \A r \in DOMAIN demo' : demo'[r] = r
      BY <1>1, <3>1, <3>3
    <3> QED BY <1>1, <2>1, <2>2, <3>1, <3>2, <3>4
  <2>5. CASE LookUpAccounts(p)
    <3>1. UNCHANGED <<demo, filled, overlap, torn>>
      BY <2>5 DEF LookUpAccounts, seedVars
    <3>2. servers[p] \in ServerRows
      BY <1>1
    <3>3. ~servers'[p].refused /\ (servers'[p].at \in {"look", "fill"} => Missing = {})
      <4>1. CASE Missing = {}
        <5>1. servers' = [servers EXCEPT ![p].at = "look"]
          BY <2>5, <4>1 DEF LookUpAccounts, ServerAt
        <5> QED BY <1>1, <2>2, <3>2, <4>1, <5>1 DEF ServerRows
      <4>2. CASE Missing # {}
        <5> DEFINE least == Min(Missing)
        <5>1. servers' = [servers EXCEPT ![p].at = "provision", ![p].account = least]
          BY <2>5, <4>2 DEF LookUpAccounts
        <5> HIDE DEF least
        <5> QED BY <1>1, <2>2, <3>2, <5>1 DEF ServerRows
      <4> QED BY <4>1, <4>2
    <3> QED BY <1>1, <2>1, <2>2, <3>1, <3>3, NoneMissing
  <2>6. CASE LookForBatches(p)
    <3>1. UNCHANGED <<demo, filled, torn>> /\ servers[p].at = "look" /\ overlap' \in BOOLEAN
      BY <1>1, <2>6 DEF LookForBatches
    <3>2. PICK place \in {"serving", "fill"} : servers' = [servers EXCEPT ![p].at = place]
      BY <2>6 DEF LookForBatches, ServerAt
    <3>3. servers'[p].refused = servers[p].refused
      BY <1>1, <3>2 DEF ServerRows
    <3> QED BY <1>1, <2>1, <2>2, <3>1, <3>3
  <2>7. CASE Start(p) \/ Exit(p) \/ ForceExit(p) \/ EndServer(p)
    <3>1. UNCHANGED <<demo, filled, overlap>> /\ torn' \in {torn, torn \cup {p}}
      BY <2>7 DEF Start, Exit, ForceExit, EndServer, seedVars
    <3>2. servers'[p].at \in {"schema", "down"} /\ ~servers'[p].refused
      BY <1>1, <2>7 DEF Start, Exit, ForceExit, EndServer, Down
    <3> QED BY <1>1, <2>1, <2>2, <3>1, <3>2
  <2>8. CASE CheckSchema(p) \/ Listen(p) \/ Signal(p)
    <3>1. UNCHANGED <<demo, filled, overlap, torn>>
      BY <2>8 DEF CheckSchema, Listen, Signal, seedVars
    <3>2. PICK place \in {"account", "serving", "draining"} : servers' = [servers EXCEPT ![p].at = place]
      BY <2>8 DEF CheckSchema, Listen, Signal, ServerAt
    <3>3. servers'[p].at = place /\ servers'[p].refused = servers[p].refused
      BY <1>1, <3>2 DEF ServerRows
    <3> QED BY <1>1, <2>1, <2>2, <3>1, <3>3
  <2>9. CASE Accept(p) \/ Answer(p)
    <3>1. UNCHANGED <<demo, filled, overlap, torn>>
      BY <2>9 DEF Accept, Answer, seedVars
    <3>2. servers'[p].at = servers[p].at /\ servers'[p].refused = servers[p].refused
      BY <1>1, <2>9 DEF Accept, Answer, ServerRows
    <3> QED BY <1>1, <2>1, <2>2, <3>1, <3>2
  <2> QED BY <1>5, <2>3, <2>4, <2>5, <2>6, <2>7, <2>8, <2>9 DEF BootStep
<1>6. ASSUME UNCHANGED deployVars PROVE Kept
  BY <1>1, <1>6 DEF deployVars, schemaVars, seedVars, StaffInv, SampleDataIsLegal
<1>7. Kept
  BY <1>4, <1>5, <1>6 DEF DeploymentNext
<1> QED BY <1>3, <1>7

\* All that a deployment keeps.
DeploymentInv == SchemaInv /\ DemoInv /\ StaffInv

LEMMA DeploymentInvStarts == DeploymentInit => DeploymentInv
BY SchemaStarts, DemoStarts, StaffStarts DEF DeploymentInv

LEMMA DeploymentKept == DeploymentInv /\ [DeploymentNext]_deployVars => DeploymentInv'
BY SchemaKept, DemoKept, StaffKept DEF DeploymentInv

\* Demo accounts keep the role they are listed with, recordEvent refuses none
\* of their steps, each batch shows the anomaly it is there for and no other,
\* a tenant filled twice was found empty by two replicas at once, and a replica
\* serves a partial demo only while one fills it or because one was killed over
\* it (seedDemoData, bootstrap.ts; seedSampleBatches), for any number of
\* replicas, killed anywhere.
THEOREM DemoStaysSound == DeploymentSpec => []DemoIsSound
<1>1. DeploymentSpec => []DeploymentInv
  BY DeploymentInvStarts, DeploymentKept, PTL DEF DeploymentSpec
<1>2. DemoInv => FilledTwiceOnlyByOverlap
  <2> SUFFICES ASSUME DemoInv, ~overlap,
                      Cardinality({p \in Servers : filled[p] > 0}) > 1
               PROVE  FALSE
    BY DEF FilledTwiceOnlyByOverlap
  <2> DEFINE full == {p \in Servers : filled[p] > 0}
  <2>1. CASE full = {}
    BY <2>1, FS_EmptySet
  <2>2. CASE full # {}
    <3> PICK p \in full : TRUE
      BY <2>2
    <3>1. full = {p}
      BY DEF DemoInv
    <3>2. Cardinality({p}) = 1
      BY FS_Singleton
    <3> QED BY <3>1, <3>2
  <2> QED BY <2>1, <2>2
<1>3. DeploymentInv => SamplesShowWhatTheySay
  <2>1. StaffInv => \A p \in Servers : 1..filled[p] \subseteq 1..Len(SeedTxs)
    BY SeedTxsAreSamples DEF StaffInv, DeploymentTypeOK
  <2> QED BY <2>1, SamplesAreFaithful DEF DeploymentInv, SamplesShowWhatTheySay
<1>4. DeploymentInv => DemoRolesAsListed /\ PartialDemoHasACause /\ SampleDataIsLegal
  BY DEF DeploymentInv, DemoInv, StaffInv, PartialDemoHasACause, Booted, Caused
<1>5. DeploymentInv => DemoIsSound
  BY <1>2, <1>3, <1>4 DEF DeploymentInv, DemoIsSound
<1> QED BY <1>1, <1>5, PTL

-----------------------------------------------------------------------------
(* The clients side by side: their types, within their bounds *)

AlertsFit ==
  /\ up \in BOOLEAN /\ usable \in BOOLEAN
  /\ toasts \subseteq Alerts \X Watchers /\ pushed \subseteq Alerts /\ breaks \in 0..MaxBreaks
  /\ strays \subseteq Alerts \X Views /\ missed \subseteq Alerts \X Views

LEMMA AlertsFitKept == RealtimeInv /\ AlertsFit /\ [RealtimeNext]_alertVars => AlertsFit'
<1> SUFFICES ASSUME RealtimeInv, AlertsFit, [RealtimeNext]_alertVars PROVE AlertsFit'
  OBVIOUS
<1>1. breaks' \in 0..MaxBreaks
  <2>1. breaks' = breaks \/ (breaks > 0 /\ breaks' = breaks - 1)
    BY DEF RealtimeNext, TakeToken, ChangeAccount, DropSocket, AdmitSocket, JoinRooms, RefuseSocket, CutSocket,
           GoodBye, ServerStarts, ExpireToken, Emit, HearAlert, ToastOver, Disturbance, alertVars
  <2> QED BY <2>1, RealtimeAssumption DEF AlertsFit
<1>2. up' \in BOOLEAN /\ usable' \in BOOLEAN
  BY DEF AlertsFit, RealtimeNext, TakeToken, ChangeAccount, DropSocket, AdmitSocket, JoinRooms, RefuseSocket, CutSocket,
         GoodBye, ServerStarts, ExpireToken, Emit, HearAlert, ToastOver, alertVars
<1>3. strays' \subseteq Alerts \X Views /\ missed' \subseteq Alerts \X Views
  <2>1. CASE \E e \in inbox : HearAlert(e)
    <3>1. inbox \subseteq Messages
      BY DEF RealtimeInv, ReaderTypes
    <3> QED BY <2>1, <3>1 DEF HearAlert, AlertsFit, Messages
  <2>2. CASE \E e \in Messages : Emit(e)
    BY <2>2 DEF Emit, AlertsFit, Messages
  <2>3. CASE UNCHANGED <<strays, missed>>
    BY <2>3 DEF AlertsFit
  <2> QED
    BY <2>1, <2>2, <2>3 DEF RealtimeNext, TakeToken, ChangeAccount, DropSocket, AdmitSocket, JoinRooms, RefuseSocket,
       CutSocket, GoodBye, ServerStarts, ExpireToken, ToastOver, alertVars
<1>4. toasts' \subseteq Alerts \X Watchers /\ pushed' \subseteq Alerts
  <2>1. CASE \E e \in inbox : HearAlert(e)
    <3>1. token \in Watchers /\ inbox \subseteq Messages
      BY <2>1 DEF RealtimeInv, ReaderTypes, SocketIsWatchers
    <3> QED BY <2>1, <3>1 DEF HearAlert, AlertsFit, Messages
  <2>2. CASE \E e \in Messages : Emit(e)
    BY <2>2 DEF Emit, AlertsFit, Messages
  <2>3. CASE \E t \in toasts : ToastOver(t)
    BY <2>3 DEF ToastOver, AlertsFit
  <2>4. CASE UNCHANGED <<toasts, pushed>>
    BY <2>4 DEF AlertsFit
  <2> QED
    BY <2>1, <2>2, <2>3, <2>4 DEF RealtimeNext, TakeToken, ChangeAccount, DropSocket, AdmitSocket, JoinRooms,
       RefuseSocket, CutSocket, GoodBye, ServerStarts, ExpireToken, alertVars
<1> QED BY <1>1, <1>2, <1>3, <1>4 DEF AlertsFit

LEMMA TroublesFit == ListInv /\ troubles \in 0..MaxTroubles /\ [ListNext]_listVars => troubles' \in 0..MaxTroubles
<1> SUFFICES ASSUME troubles \in 0..MaxTroubles, [ListNext]_listVars PROVE troubles' \in 0..MaxTroubles
  OBVIOUS
<1>1. troubles' = troubles \/ (troubles > 0 /\ troubles' = troubles - 1)
  BY DEF ListNext, ChangeKey, SubmitVerify, PressButton, ServeLoads, HearLoads, ServeActs, HearActs, Elsewhere,
         ServeLoad, FailLoad, HearLoad, ServeAct, FailAct, HearAct, Trouble, listVars
<1> QED BY <1>1, ListAssumption

\* A code that was checked, shown or submitted has been typed.
SignUpsFit ==
  /\ registered \subseteq Addresses /\ joined \subseteq InviteCodes \X (InviteCodes \cup {NoCode})
  /\ checked <= MaxChecks /\ submitted <= MaxSubmits /\ hitches \in 0..MaxHitches
  /\ late \subseteq (InviteCodes \cup {NoCode}) \X InviteCodes /\ mismatched \in BOOLEAN
  /\ form.code = NoCode => checks = {} /\ form.shown = NoCode
  /\ \A q \in signups : q.mode = "invite" => q.code # NoCode

LEMMA SignUpsFitStart == SignUpInit => SignUpsFit
<1> SUFFICES ASSUME SignUpInit PROVE SignUpsFit
  OBVIOUS
<1>1. checked <= MaxChecks /\ submitted <= MaxSubmits /\ hitches \in 0..MaxHitches
  <2>1. checked \in {0, 1} /\ submitted = 0 /\ hitches = MaxHitches
    BY Zenon DEF SignUpInit
  <2> QED BY <2>1, SignUpAssumption
<1>2. /\ registered = {} /\ joined = {} /\ signups = {} /\ late = {} /\ mismatched = FALSE
  BY DEF SignUpInit
<1>3. form.code = NoCode => checks = {} /\ form.shown = NoCode
  <2>1. CASE form = BlankForm /\ checks = {}
    BY <2>1 DEF BlankForm
  <2>2. ASSUME NEW c \in InviteCodes, form = [BlankForm EXCEPT !.code = c, !.checking = TRUE] PROVE form.code # NoCode
    BY <2>2, SignUpAssumption DEF BlankForm
  <2> QED BY <2>1, <2>2 DEF SignUpInit
<1> QED BY <1>1, <1>2, <1>3 DEF SignUpsFit

\* What the page does.
LEMMA PageFits ==
  ASSUME SignUpInv, SignUpsFit, TypeCode \/ SwitchTab \/ FillIn \/ LeaveCode \/ HandleSubmit
  PROVE  SignUpsFit'
<1>1. /\ form \in FormRows /\ checked \in Nat /\ submitted \in Nat
      /\ checked <= MaxChecks /\ submitted <= MaxSubmits /\ MaxChecks \in Nat /\ MaxSubmits \in Nat
  BY SignUpAssumption DEF SignUpInv, SignUpTypes, SignUpsFit
<1>2. UNCHANGED <<registered, joined, hitches, late, mismatched>>
  BY DEF TypeCode, SwitchTab, FillIn, LeaveCode, HandleSubmit, Edits
<1>3. CASE TypeCode
  <2>1. form'.code # NoCode /\ UNCHANGED <<checks, signups, checked, submitted>>
    <3> PICK c \in InviteCodes : Edits(CodeTyped(c))
      BY <1>3 DEF TypeCode
    <3>1. CodeTyped(c).code = c /\ c # NoCode
      BY <1>1, SignUpAssumption DEF CodeTyped, FormRows
    <3>2. UNCHANGED <<signups, checked, submitted, checks>>
      BY DEF Edits
    <3> QED BY <3>1, <3>2 DEF Edits
  <2> QED BY <1>2, <2>1 DEF SignUpsFit
<1>4. CASE SwitchTab \/ FillIn
  <2>1. form'.code = form.code /\ form'.shown = form.shown /\ UNCHANGED <<checks, signups, checked, submitted>>
    BY <1>1, <1>4 DEF SwitchTab, FillIn, Edits, FormRows
  <2> QED BY <1>2, <2>1 DEF SignUpsFit
<1>5. CASE LeaveCode
  <2>1. form'.code # NoCode /\ checked' = checked + 1 /\ checked < MaxChecks /\ UNCHANGED <<signups, submitted>>
    BY <1>1, <1>5 DEF LeaveCode, Check, FormRows
  <2> QED BY <1>1, <1>2, <2>1 DEF SignUpsFit
<1>6. CASE HandleSubmit
  <2> DEFINE code == IF form.mode = "invite" THEN form.code ELSE NoCode
             new == [n |-> submitted + 1, mode |-> form.mode, code |-> code,
                     shown |-> form.shown, address |-> form.address, filled |-> form.filled,
                     step |-> "register", answer |-> "none"]
  <2>1. /\ submitted' = submitted + 1 /\ submitted < MaxSubmits /\ signups' = signups \cup {new}
        /\ UNCHANGED <<checks, checked>>
    BY <1>6 DEF HandleSubmit
  <2>2. form'.code = form.code /\ form'.shown = form.shown
    BY <1>1, <1>6 DEF HandleSubmit, FormRows
  <2>3. new.mode = "invite" => new.code # NoCode
    BY <1>6 DEF HandleSubmit, MaySubmit, ShowAccountFields, SignUpsFit
  <2> HIDE DEF new, code
  <2> QED BY <1>1, <1>2, <2>1, <2>2, <2>3 DEF SignUpsFit
<1> QED BY <1>3, <1>4, <1>5, <1>6

\* What the server does, and what is heard of it.
LEMMA ServiceFits ==
  ASSUME SignUpInv, SignUpsFit, ServeSignUps \/ HearSignUps \/ InviteGone
  PROVE  SignUpsFit'
<1>1. form \in FormRows /\ checks \subseteq CheckRows /\ signups \subseteq SignUpRows
  BY DEF SignUpInv, SignUpTypes
<1>2. UNCHANGED <<checked, submitted>>
  BY DEF ServeSignUps, HearSignUps, InviteGone, ServeCheck, FailCheck, ServeRegister, ServeSignIn, FailSignUp,
         HearCheck, HearSignUp
<1>3. hitches' \in 0..MaxHitches
  <2>1. hitches' = hitches \/ (hitches > 0 /\ hitches' = hitches - 1)
    BY DEF ServeSignUps, HearSignUps, InviteGone, ServeCheck, FailCheck, ServeRegister, ServeSignIn, FailSignUp,
           HearCheck, HearSignUp, Hitch
  <2> QED BY <2>1, SignUpAssumption DEF SignUpsFit
<1>4. /\ checks = {} => checks' = {}
      /\ form'.code = form.code /\ (checks = {} => form'.shown = form.shown)
  <2>1. CASE \E q \in checks : HearCheck(q)
    BY <1>1, <2>1 DEF HearCheck, Previewed, FormRows
  <2>2. CASE \E q \in signups : HearSignUp(q)
    BY <1>1, <2>2 DEF HearSignUp, SignUpFailed, FormRows
  <2>3. CASE ServeSignUps \/ InviteGone
    BY <2>3 DEF ServeSignUps, InviteGone, ServeCheck, FailCheck, ServeRegister, ServeSignIn, FailSignUp, CheckAnswered
  <2> QED BY <2>1, <2>2, <2>3 DEF HearSignUps
<1>5. \A r \in signups' : r \in signups \/ \E q \in signups : r.mode = q.mode /\ r.code = q.code
  <2>1. \A q \in signups : \A a : /\ [q EXCEPT !.answer = a].mode = q.mode
                                   /\ [q EXCEPT !.answer = a].code = q.code
    BY <1>1 DEF SignUpRows
  <2>2. \A q \in signups : LET r == [q EXCEPT !.step = "login", !.answer = "none"] IN r.mode = q.mode /\ r.code = q.code
    BY <1>1 DEF SignUpRows
  <2>3. ASSUME NEW q \in signups, NEW a, SignUpAnswered(q, a)
        PROVE  \A r \in signups' : r \in signups \/ (r.mode = q.mode /\ r.code = q.code)
    BY <2>1, <2>3 DEF SignUpAnswered
  <2>4. CASE \E q \in signups : ServeRegister(q) \/ ServeSignIn(q) \/ FailSignUp(q)
    BY <2>3, <2>4 DEF ServeRegister, ServeSignIn, FailSignUp
  <2>5. CASE \E q \in signups : HearSignUp(q)
    BY <2>2, <2>5 DEF HearSignUp
  <2>6. CASE signups' = signups
    BY <2>6
  <2> QED BY <2>4, <2>5, <2>6 DEF ServeSignUps, HearSignUps, InviteGone, ServeCheck, FailCheck, HearCheck
<1>6. /\ registered' \subseteq Addresses /\ joined' \subseteq InviteCodes \X (InviteCodes \cup {NoCode})
      /\ mismatched' \in BOOLEAN
  <2>1. CASE \E q \in signups : ServeRegister(q)
    <3> PICK q \in signups : ServeRegister(q)
      BY <2>1
    <3>1. q \in SignUpRows /\ (q.mode = "invite" => q.code # NoCode)
      BY <1>1 DEF SignUpsFit
    <3>2. registered' \subseteq Addresses
      BY <3>1 DEF ServeRegister, TurnedDown, SignUpRows, SignUpsFit
    <3>3. joined' \subseteq InviteCodes \X (InviteCodes \cup {NoCode})
      BY <3>1 DEF ServeRegister, SignUpRows, SignUpsFit
    <3>4. mismatched' \in BOOLEAN
      BY DEF ServeRegister, SignUpsFit
    <3> QED BY <3>2, <3>3, <3>4
  <2>2. CASE UNCHANGED <<registered, joined, mismatched>>
    BY <2>2 DEF SignUpsFit
  <2> QED BY <2>1, <2>2 DEF ServeSignUps, HearSignUps, InviteGone, ServeCheck, FailCheck, ServeSignIn, FailSignUp,
                            HearCheck, HearSignUp
<1>7. late' \subseteq (InviteCodes \cup {NoCode}) \X InviteCodes
  <2>1. CASE \E q \in checks : HearCheck(q)
    <3> PICK q \in checks : HearCheck(q)
      BY <2>1
    <3>1. form.code \in InviteCodes \cup {NoCode} /\ q.code \in InviteCodes
      BY <1>1 DEF FormRows, CheckRows
    <3>2. late' = late \/ late' = late \cup {<<form.code, q.code>>}
      BY DEF HearCheck
    <3> QED BY <3>1, <3>2 DEF SignUpsFit
  <2>2. CASE late' = late
    BY <2>2 DEF SignUpsFit
  <2> QED BY <2>1, <2>2 DEF ServeSignUps, HearSignUps, InviteGone, ServeCheck, FailCheck, ServeRegister, ServeSignIn,
                            FailSignUp, HearSignUp
<1> QED BY <1>2, <1>3, <1>4, <1>5, <1>6, <1>7 DEF SignUpsFit

LEMMA SignUpsFitKept == SignUpInv /\ SignUpsFit /\ [SignUpNext]_signUpVars => SignUpsFit'
<1>1. SignUpsFit /\ UNCHANGED signUpVars => SignUpsFit'
  BY DEF SignUpsFit, signUpVars
<1> QED BY <1>1, PageFits, ServiceFits DEF SignUpNext

ClientsInv ==
  /\ RealtimeInv /\ AlertsFit
  /\ DeploymentInv /\ SessionsInv
  /\ PagesInv /\ PagesFit
  /\ ListInv /\ troubles \in 0..MaxTroubles
  /\ SignUpInv /\ SignUpsFit

LEMMA ClientsStart == ClientsInit => ClientsInv
<1> SUFFICES ASSUME ClientsInit PROVE ClientsInv
  OBVIOUS
<1>1. RealtimeInit /\ DeploymentInit /\ SessionsInit /\ BatchPagesInit /\ ListInit /\ SignUpInit
  BY DEF ClientsInit, AlertsStart, DeploymentStarts, PagesStart, ListsStart, SignUpStarts
<1>2. AlertsFit
  <2>1. /\ up = TRUE /\ usable = FALSE /\ toasts = {} /\ pushed = {} /\ breaks = MaxBreaks
        /\ strays = {} /\ missed = {}
    BY <1>1 DEF RealtimeInit
  <2>2. MaxBreaks \in 0..MaxBreaks
    BY RealtimeAssumption
  <2> QED BY <2>1, <2>2, Zenon DEF AlertsFit
<1>3. troubles \in 0..MaxTroubles
  BY <1>1, ListAssumption DEF ListInit
<1> QED BY <1>1, <1>2, <1>3, RealtimeStart, DeploymentInvStarts, SessionsStart, PagesInvStarts, PagesFitStart,
           ListInvStarts, SignUpInvStarts, SignUpsFitStart DEF ClientsInv

LEMMA ClientsStep == ClientsInv /\ [ClientsNext]_clientVars => ClientsInv'
<1> SUFFICES ASSUME ClientsInv, [ClientsNext]_clientVars PROVE ClientsInv'
  OBVIOUS
<1>1. /\ [RealtimeNext]_alertVars /\ [DeploymentNext]_deployVars /\ [SessionsNext]_sessionVars
      /\ [BatchPagesNext]_pageVars /\ [ListNext]_listVars /\ [SignUpNext]_signUpVars
  BY DEF ClientsNext, clientVars
<1> QED BY <1>1, RealtimeKept, AlertsFitKept, DeploymentKept, SessionsStep, PagesKept, PagesFitKept,
           ListKept, TroublesFit, SignUpKept, SignUpsFitKept DEF ClientsInv

\* The alerts' socket, a deployment, the sessions, the pages of a batch, the
\* lists and the sign-up form keep their types, in their own steps and in one
\* another's, and no more than the bounds allow goes wrong.
THEOREM ClientsKeepTypes == ClientsSpec => []ClientsTypeOK
<1>1. ASSUME ClientsInv PROVE RealtimeTypeOK
  BY <1>1 DEF ClientsInv, RealtimeInv, ReaderTypes, AlertsFit, RealtimeTypeOK
<1>2. ASSUME ClientsInv PROVE DeploymentTypeOK /\ SessionsTypeOK
  BY <1>2 DEF ClientsInv, DeploymentInv, StaffInv, SessionsInv, SessionsTyped
<1>3. ASSUME ClientsInv PROVE BatchPagesTypeOK
  BY <1>3, PagesTyped DEF ClientsInv
<1>4. ASSUME ClientsInv PROVE ListTypeOK
  BY <1>4 DEF ClientsInv, ListInv, ListTypes, ListTypeOK
<1>5. ASSUME ClientsInv PROVE SignUpTypeOK
  <2>1. SignUpTypes /\ SignUpsFit /\ (form.bound # NoAddress => form.shown # NoCode /\ form.address = form.bound)
    BY <1>5 DEF ClientsInv, SignUpInv
  <2>2. checked \in 0..MaxChecks /\ submitted \in 0..MaxSubmits
    BY <2>1, SignUpAssumption DEF SignUpTypes, SignUpsFit
  <2> QED BY <2>1, <2>2 DEF SignUpTypeOK, SignUpTypes, SignUpsFit
<1>6. ClientsInv => ClientsTypeOK
  BY <1>1, <1>2, <1>3, <1>4, <1>5 DEF ClientsTypeOK
<1> QED BY <1>6, ClientsStart, ClientsStep, PTL DEF ClientsSpec

=============================================================================
