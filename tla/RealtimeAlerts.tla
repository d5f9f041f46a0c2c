--------------------------- MODULE RealtimeAlerts ---------------------------
(***************************************************************************)
(* Alerts on their way to a page: the rooms of backend/src/realtime.ts and *)
(* index.ts, the one socket of frontend/src/api/client.ts, and the toasts  *)
(* of components/RealtimeAlerts.tsx.  Who is involved in an alert comes    *)
(* from SupplyChain's pushes; listNotifications is the other channel.      *)
(* The socket library reconnects after a broken connection; after a        *)
(* refused handshake it does not, and after a server's good-bye it may not.*)
(***************************************************************************)
EXTENDS Naturals

CONSTANTS Watchers, NoWatcher,
          Tenants,
          WatcherTenant(_),    \* the tenant of a reader
          Alerts,
          MaxBreaks       \* bound: broken connections, restarts, expired tokens, changes of watchers

ASSUME RealtimeAssumption ==
  NoWatcher \notin Watchers /\ (\A u \in Watchers : WatcherTenant(u) \in Tenants) /\ MaxBreaks \in Nat

VARIABLES watchers,     \* per user: is_active, and whether the role is an oversight role
          up,           \* the server is up
          token,        \* AuthContext's token, by its owner; usable: it has not expired
          usable,
          socket,       \* the page's socket
          inbox,        \* pushed to the socket, not heard yet
          toasts,       \* shown, with the reader they were pushed to
          pushed,       \* alerts pushed, once each
          breaks,
          strays,       \* history: alerts heard by somebody who could not list them, and by which view
          missed        \* history: alerts kept from an open socket whose reader could list them, likewise

alertVars == <<watchers, up, token, usable, socket, inbox, toasts, pushed, breaks, strays, missed>>

Room(tenant, who) == [tenant |-> tenant, who |-> who]
ActorRoom(u) == Room(WatcherTenant(u), u)

\* Mutant of OversightRoom: one room for all tenants.
OversightRoomShared(tenant) == Room(NoWatcher, NoWatcher)

\* Everybody who oversees the tenant.
OversightRoom(tenant) == Room(tenant, NoWatcher)

\* The views of an account: the copy the server took at the handshake, and the
\* row as it is when an alert comes.
Views == {"handshake", "now"}

Rooms == [tenant: Tenants, who: Watchers \cup {NoWatcher}]

AccountRows == [active: BOOLEAN, oversight: BOOLEAN]
Nobody == [active |-> FALSE, oversight |-> FALSE]

\* actor: socket.data.actor, the account as authenticate read it.
NoSocket == [state |-> "none", auth |-> NoWatcher, actor |-> Nobody, rooms |-> {}]
SocketRows == [state: {"none", "connecting", "admitted", "open", "given_up"}, auth: Watchers \cup {NoWatcher},
               actor: AccountRows, rooms: SUBSET Rooms]
Messages == [alert: Alerts, tenant: Tenants, involved: SUBSET Watchers]

RealtimeTypeOK ==
  /\ watchers \in [Watchers -> AccountRows] /\ up \in BOOLEAN
  /\ token \in Watchers \cup {NoWatcher} /\ usable \in BOOLEAN
  /\ socket \in SocketRows /\ inbox \subseteq Messages
  /\ toasts \subseteq Alerts \X Watchers /\ pushed \subseteq Alerts /\ breaks \in 0..MaxBreaks
  /\ strays \subseteq Alerts \X Views /\ missed \subseteq Alerts \X Views

-----------------------------------------------------------------------------
(* The page: an effect on AuthContext's token *)

\* Mutant of SocketFor: the shared connection is reused, whatever its token.
SocketForAny(u) == IF socket.state = "open" THEN socket ELSE [NoSocket EXCEPT !.state = "connecting", !.auth = u]

\* connectSocket: the old connection, which is another token's, is closed.
SocketFor(u) == [NoSocket EXCEPT !.state = "connecting", !.auth = u]

\* A log-in, or the restore on mount; also over another user's session.
TakeToken(u) ==
  /\ token # u
  /\ token' = u /\ usable' = TRUE
  /\ socket' = SocketFor(u) /\ inbox' = IF socket' = socket THEN inbox ELSE {}
  /\ UNCHANGED <<watchers, up, toasts, pushed, breaks, strays, missed>>

\* Log-out: disconnectSocket; what is shown stays until its time is over.
DropSocket ==
  /\ token # NoWatcher
  /\ token' = NoWatcher /\ usable' = FALSE /\ socket' = NoSocket /\ inbox' = {}
  /\ UNCHANGED <<watchers, up, toasts, pushed, breaks, strays, missed>>

\* What listNotifications shows u, with an account like this.
Listable(u, row, e) == /\ row.active /\ WatcherTenant(u) = e.tenant
                       /\ row.oversight \/ u \in e.involved

ViewOf(v) == IF v = "handshake" THEN socket.actor ELSE watchers[token]
ListableBy(v, e) == Listable(token, ViewOf(v), e)

\* onAnomaly, onRecall
HearAlert(e) ==
  /\ inbox' = inbox \ {e}
  /\ toasts' = toasts \cup {<<e.alert, token>>}
  /\ strays' = strays \cup {<<e.alert, v>> : v \in {v \in Views : ~ListableBy(v, e)}}
  /\ UNCHANGED <<watchers, up, token, usable, socket, pushed, breaks, missed>>

\* TOAST_LIFETIME_MS
ToastOver(t) ==
  /\ toasts' = toasts \ {t}
  /\ UNCHANGED <<watchers, up, token, usable, socket, inbox, pushed, breaks, strays, missed>>

-----------------------------------------------------------------------------
(* The server *)

Disturbance == breaks > 0 /\ breaks' = breaks - 1

\* io.use: the account as it is now, kept with the socket.
AdmitSocket ==
  /\ up /\ socket.state = "connecting" /\ usable /\ watchers[socket.auth].active
  /\ socket' = [socket EXCEPT !.state = "admitted", !.actor = watchers[socket.auth]]
  /\ UNCHANGED <<watchers, up, token, usable, inbox, toasts, pushed, breaks, strays, missed>>

\* Mutant of RoomsOf: a reader of any role gets the whole tenant.
RoomsOfAll(u, row) == {ActorRoom(u), OversightRoom(WatcherTenant(u))}

RoomsOf(u, row) == {ActorRoom(u)} \cup (IF row.oversight THEN {OversightRoom(WatcherTenant(u))} ELSE {})

\* io.on("connection"): the rooms of the account io.use has kept.
JoinRooms ==
  /\ up /\ socket.state = "admitted"
  /\ socket' = [socket EXCEPT !.state = "open", !.rooms = RoomsOf(socket.auth, socket.actor)]
  /\ UNCHANGED <<watchers, up, token, usable, inbox, toasts, pushed, breaks, strays, missed>>

\* An expired token, a deactivated account, or a database that does not answer.
RefuseSocket ==
  /\ up /\ socket.state = "connecting"
  /\ \/ (~usable \/ ~watchers[socket.auth].active) /\ UNCHANGED breaks
     \/ Disturbance
  /\ socket' = [socket EXCEPT !.state = "given_up"]
  /\ UNCHANGED <<watchers, up, token, usable, inbox, toasts, pushed, strays, missed>>

\* to(rooms): the oversight room and those of the people involved.
Receives(e) ==
  /\ socket.state = "open"
  /\ socket.rooms \cap ({OversightRoom(e.tenant)} \cup {Room(e.tenant, u) : u \in e.involved}) # {}

\* emitAnomaly, emitRecall
Emit(e) ==
  /\ up /\ e.alert \notin pushed /\ \A u \in e.involved : WatcherTenant(u) = e.tenant
  /\ pushed' = pushed \cup {e.alert}
  /\ inbox' = IF Receives(e) THEN inbox \cup {e} ELSE inbox
  /\ missed' = missed \cup
       {<<e.alert, v>> : v \in {v \in Views : socket.state = "open" /\ ListableBy(v, e) /\ ~Receives(e)}}
  /\ UNCHANGED <<watchers, up, token, usable, socket, toasts, breaks, strays>>

Disconnected(to) == [NoSocket EXCEPT !.state = to, !.auth = socket.auth]

\* The connection breaks, or the server shuts down; pushes on the way are lost.
CutSocket ==
  /\ Disturbance
  /\ socket' = IF socket.state \in {"admitted", "open"} THEN Disconnected("connecting") ELSE socket
  /\ inbox' = {} /\ up' \in {up, FALSE}
  /\ UNCHANGED <<watchers, token, usable, toasts, pushed, strays, missed>>

GoodBye ==
  /\ up /\ Disturbance /\ socket.state = "open"
  /\ socket' = Disconnected("given_up")
  /\ inbox' = {} /\ up' = FALSE
  /\ UNCHANGED <<watchers, token, usable, toasts, pushed, strays, missed>>

ServerStarts ==
  /\ ~up /\ up' = TRUE
  /\ UNCHANGED <<watchers, token, usable, socket, inbox, toasts, pushed, breaks, strays, missed>>

\* The silent refresh renews the API's token, not the one the socket uses.
ExpireToken ==
  /\ Disturbance /\ usable /\ usable' = FALSE
  /\ UNCHANGED <<watchers, up, token, socket, inbox, toasts, pushed, strays, missed>>

\* setActorRole, setActorStatus: nobody looks for the sockets of the account.
ChangeAccount(u) ==
  /\ Disturbance
  /\ \E row \in AccountRows : row # watchers[u] /\ watchers' = [watchers EXCEPT ![u] = row]
  /\ UNCHANGED <<up, token, usable, socket, inbox, toasts, pushed, strays, missed>>

-----------------------------------------------------------------------------
RealtimeInit ==
  /\ watchers \in [Watchers -> [active: {TRUE}, oversight: BOOLEAN]] /\ up = TRUE
  /\ token = NoWatcher /\ usable = FALSE /\ socket = NoSocket
  /\ inbox = {} /\ toasts = {} /\ pushed = {} /\ breaks = MaxBreaks
  /\ strays = {} /\ missed = {}

RealtimeNext ==
  \/ \E u \in Watchers : TakeToken(u) \/ ChangeAccount(u)
  \/ DropSocket \/ AdmitSocket \/ JoinRooms \/ RefuseSocket \/ CutSocket \/ GoodBye \/ ServerStarts \/ ExpireToken
  \/ \E e \in Messages : Emit(e)
  \/ \E e \in inbox : HearAlert(e)
  \/ \E t \in toasts : ToastOver(t)

RealtimeSpec == RealtimeInit /\ [][RealtimeNext]_alertVars

-----------------------------------------------------------------------------
(* Properties *)

\* The two channels of notificationScope.ts:6-8 drift apart by a change of the
\* reader's account alone: whatever is changed, broken or restarted between them,
\* an open socket hears what its reader could list with the account as it was at
\* the handshake, all of it and no more (index.ts:27-49).
SocketKeepsHandshake == \A d \in strays \cup missed : d[2] = "now"

\* The socket is the shown user's: after a log-out, or a log-in over another
\* session, nothing is heard over the other's connection (RealtimeAlerts.tsx:19-21).
SocketIsWatchers ==
  /\ token = NoWatcher => inbox = {} /\ socket = NoSocket
  /\ token # NoWatcher => socket.auth = token
  /\ socket.rooms # {} => ActorRoom(token) \in socket.rooms

\* Who looks at a page hears what was theirs to hear when it connected: all of
\* it, and no more.
AlertsAreTheWatchers == SocketKeepsHandshake /\ SocketIsWatchers
=============================================================================
