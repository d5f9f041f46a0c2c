---------------------------- MODULE ServerProofs ----------------------------
(***************************************************************************)
(* Proofs about Accounts and ConnectionPool, for any number of calls,      *)
(* accounts, addresses, workspaces and invitations, of flows and           *)
(* connections, and about the server's parts side by side.                 *)
(***************************************************************************)
EXTENDS MCServer, TraceProofs, FiniteSetTheorems

-----------------------------------------------------------------------------
(* Accounts *)

\* What a call at a place has found so far, and has not since been lost:
\* workspaces, accounts and invitations are never deleted.
Knows(q) ==
  /\ q.at \in {"ws_slug", "ws_tx", "prov_find", "prov_tx"} => q.email \in Emails /\ q.slug \in Slugs
  /\ q.at \in {"join_preview", "join_tx"} => q.email \in Emails
  /\ q.at = "join_tx" => q.code \in DOMAIN invitations /\ MeantFor(q.code, q.email)
  /\ q.at = "prov_tx" /\ q.known => q.slug \in tenants
  /\ q.at \in AdminOps => q.by \in DOMAIN accounts
  /\ q.retried => q.slug \in tenants

CallsKnow == \A r \in Calls : Knows(calls[r])

\* An invitation leads into a workspace that exists.
InvitationsLead == \A c \in DOMAIN invitations : invitations[c].tenant \in tenants

AccountsInv ==
  /\ AccountsTypeOK /\ CallsKnow /\ InvitationsLead
  /\ FoundedOnce /\ OneAccountPerEmail /\ MembershipIsGranted /\ AdminLostOnlyByCrossing

-----------------------------------------------------------------------------
(* Accounts: calls *)

LEMMA NoCallType == NoCall \in CallRows
  BY DEF NoCall, CallRows, Places, Roles, ROLE_STAGES

\* A step that sets one call's row, and deletes nothing, keeps what all know.
LEMMA CallsStep ==
  ASSUME AccountsInv, NEW r \in Calls, NEW row \in CallRows,
         calls' = [calls EXCEPT ![r] = row],
         tenants \subseteq tenants', DOMAIN accounts \subseteq DOMAIN accounts',
         DOMAIN invitations \subseteq DOMAIN invitations',
         \A c \in DOMAIN invitations : invitations'[c].email = invitations[c].email,
         Knows(row)'
  PROVE  calls' \in [Calls -> CallRows] /\ CallsKnow'
<1>1. calls \in [Calls -> CallRows] /\ CallsKnow
  BY DEF AccountsInv, AccountsTypeOK
<1>2. calls' \in [Calls -> CallRows]
  BY <1>1
<1>3. ASSUME NEW s \in Calls PROVE Knows(calls[s])'
  <2>1. CASE s = r
    BY <2>1, <1>1 DEF Knows, MeantFor
  <2>2. CASE s # r
    <3>1. calls'[s] = calls[s]
      BY <2>2, <1>1
    <3>2. Knows(calls[s])
      BY <1>1 DEF CallsKnow
    <3> QED BY <3>1, <3>2 DEF Knows, MeantFor
  <2> QED BY <2>1, <2>2
<1> QED BY <1>2, <1>3 DEF CallsKnow

\* A call that ends knows nothing.
LEMMA FinishStep ==
  ASSUME AccountsInv, NEW r \in Calls, Finish(r),
         tenants \subseteq tenants', DOMAIN accounts \subseteq DOMAIN accounts',
         DOMAIN invitations \subseteq DOMAIN invitations',
         \A c \in DOMAIN invitations : invitations'[c].email = invitations[c].email
  PROVE  calls' \in [Calls -> CallRows] /\ CallsKnow'
<1>1. Knows(NoCall)'
  BY DEF Knows, NoCall, AdminOps
<1> QED BY <1>1, NoCallType, CallsStep DEF Finish

\* A step that changes nothing but a call's row.
LEMMA OnlyCalls ==
  ASSUME AccountsInv, UNCHANGED <<tenants, accounts, invitations, crossed>>,
         calls' \in [Calls -> CallRows], CallsKnow'
  PROVE  AccountsInv'
<1>1. AccountsTypeOK' /\ InvitationsLead'
  BY DEF AccountsInv, AccountsTypeOK, InvitationsLead
<1>2. FoundedOnce' /\ OneAccountPerEmail' /\ MembershipIsGranted'
  BY DEF AccountsInv, FoundedOnce, OneAccountPerEmail, MembershipIsGranted
<1>3. AdminLostOnlyByCrossing'
  BY DEF AccountsInv, AdminLostOnlyByCrossing, IsAdmin
<1> QED BY <1>1, <1>2, <1>3 DEF AccountsInv

LEMMA AskKeeps ==
  ASSUME AccountsInv, NEW r \in Calls, Ask(r)
  PROVE  AccountsInv'
<1> USE DEF Arrive
<1>1. ASSUME NEW row \in CallRows, calls' = [calls EXCEPT ![r] = row], Knows(row)',
             UNCHANGED <<tenants, accounts, invitations, crossed>>
      PROVE  AccountsInv'
  BY <1>1, CallsStep, OnlyCalls
<1>2. ASSUME NEW e \in Emails, NEW s \in Slugs, AskWorkspace(r, e, s) PROVE AccountsInv'
  <2> DEFINE row == [NoCall EXCEPT !.at = "ws_slug", !.email = e, !.slug = s]
  <2>1. row \in CallRows
    BY NoCallType DEF CallRows, Places
  <2>2. Knows(row)'
    BY DEF Knows, NoCall, AdminOps
  <2>3. calls' = [calls EXCEPT ![r] = row] /\ UNCHANGED <<tenants, accounts, invitations, crossed>>
    BY <1>2 DEF AskWorkspace
  <2> QED BY <1>1, <2>1, <2>2, <2>3
<1>3. ASSUME NEW e \in Emails, NEW c \in Codes, AskJoin(r, e, c) PROVE AccountsInv'
  <2> DEFINE row == [NoCall EXCEPT !.at = "join_preview", !.email = e, !.code = c]
  <2>1. row \in CallRows
    BY NoCallType DEF CallRows, Places
  <2>2. Knows(row)'
    BY DEF Knows, NoCall, AdminOps
  <2>3. calls' = [calls EXCEPT ![r] = row] /\ UNCHANGED <<tenants, accounts, invitations, crossed>>
    BY <1>3 DEF AskJoin
  <2> QED BY <1>1, <2>1, <2>2, <2>3
<1>4. ASSUME NEW e \in Emails, NEW s \in Slugs, NEW role \in OfferedRoles, AskProvision(r, e, s, role)
      PROVE  AccountsInv'
  <2> DEFINE row == [NoCall EXCEPT !.at = "prov_find", !.email = e, !.slug = s, !.role = role]
  <2>1. row \in CallRows
    BY NoCallType, AccountsAssumption DEF CallRows, Places
  <2>2. Knows(row)'
    BY DEF Knows, NoCall, AdminOps
  <2>3. calls' = [calls EXCEPT ![r] = row] /\ UNCHANGED <<tenants, accounts, invitations, crossed>>
    BY <1>4 DEF AskProvision
  <2> QED BY <1>1, <2>1, <2>2, <2>3
<1>5. ASSUME NEW a \in DOMAIN accounts, NEW op \in AdminOps, NEW row \in CallRows, row.retried = FALSE,
             AskAdmin(r, a, op, row)
      PROVE  AccountsInv'
  <2> DEFINE asked == [row EXCEPT !.at = op, !.by = a]
  <2>1. asked \in CallRows
    <3>1. a \in Ids /\ op \in Places
      BY DEF AccountsInv, AccountsTypeOK, Places
    <3> QED BY <1>5, <3>1 DEF CallRows
  <2>2. calls' = [calls EXCEPT ![r] = asked] /\ UNCHANGED <<tenants, accounts, invitations, crossed>>
    BY <1>5 DEF AskAdmin
  <2>3. asked.at = op /\ asked.by = a /\ asked.retried = FALSE
    BY <1>5 DEF CallRows
  <2>4. Knows(asked)'
    <3> HIDE DEF asked
    <3> QED BY <2>2, <2>3 DEF Knows, AdminOps
  <2> QED BY <1>1, <2>1, <2>2, <2>4
<1>6. ASSUME NEW a \in DOMAIN accounts, NEW e \in Emails \cup {AnyEmail}, NEW role \in OfferedRoles,
             AskInvite(r, a, e, role)
      PROVE  AccountsInv'
  <2> DEFINE row == [NoCall EXCEPT !.email = e, !.role = role]
  <2>1. row \in CallRows /\ row.retried = FALSE
    BY NoCallType, AccountsAssumption DEF CallRows, NoCall
  <2> QED BY <1>5, <1>6, <2>1 DEF AskInvite, AdminOps
<1>7. ASSUME NEW a \in DOMAIN accounts, NEW c \in Codes, AskRevoke(r, a, c) PROVE AccountsInv'
  <2> DEFINE row == [NoCall EXCEPT !.code = c]
  <2>1. row \in CallRows /\ row.retried = FALSE
    BY NoCallType DEF CallRows, NoCall
  <2> QED BY <1>5, <1>7, <2>1 DEF AskRevoke, AdminOps
<1>8. ASSUME NEW a \in DOMAIN accounts, NEW b \in DOMAIN accounts, NEW on \in BOOLEAN, AskStatus(r, a, b, on)
      PROVE  AccountsInv'
  <2> DEFINE row == [NoCall EXCEPT !.target = b, !.active = on]
  <2>1. b \in Ids
    BY DEF AccountsInv, AccountsTypeOK
  <2>2. row \in CallRows /\ row.retried = FALSE
    BY <2>1, NoCallType DEF CallRows, NoCall
  <2> QED BY <1>5, <1>8, <2>2 DEF AskStatus, AdminOps
<1>9. ASSUME NEW a \in DOMAIN accounts, NEW b \in DOMAIN accounts, NEW role \in OfferedRoles, AskRole(r, a, b, role)
      PROVE  AccountsInv'
  <2> DEFINE row == [NoCall EXCEPT !.target = b, !.role = role]
  <2>1. b \in Ids
    BY DEF AccountsInv, AccountsTypeOK
  <2>2. row \in CallRows /\ row.retried = FALSE
    BY <2>1, NoCallType, AccountsAssumption DEF CallRows, NoCall
  <2> QED BY <1>5, <1>9, <2>2 DEF AskRole, AdminOps
<1> QED BY <1>2, <1>3, <1>4, <1>6, <1>7, <1>8, <1>9 DEF Ask

-----------------------------------------------------------------------------
(* Accounts: looks *)

LEMMA LookKeeps ==
  ASSUME AccountsInv, NEW r \in Calls,
         FindSlug(r) \/ PreviewInvitation(r) \/ FindTenant(r) \/ RetryProvision(r) \/ GiveUp(r)
  PROVE  AccountsInv'
<1>1. PICK q \in CallRows : q = calls[r]
  BY DEF AccountsInv, AccountsTypeOK
<1>2. /\ UNCHANGED <<tenants, accounts, invitations, crossed>>
      /\ calls \in [Calls -> CallRows] /\ Knows(q)
  BY <1>1 DEF AccountsInv, AccountsTypeOK, CallsKnow, FindSlug, PreviewInvitation, FindTenant, RetryProvision, GiveUp
<1>3. ASSUME NEW row \in CallRows, calls' = [calls EXCEPT ![r] = row], Knows(row)'
      PROVE  AccountsInv'
  BY <1>2, <1>3, CallsStep, OnlyCalls
<1>4. CASE Finish(r)
  BY <1>2, <1>4, FinishStep, OnlyCalls
<1>5. CASE FindSlug(r) /\ Goto(r, "ws_tx")
  <2> DEFINE row == [q EXCEPT !.at = "ws_tx"]
  <2>1. row \in CallRows
    BY <1>1 DEF CallRows, Places
  <2>2. Knows(row)'
    BY <1>1, <1>2, <1>5 DEF Knows, FindSlug, Goto, AdminOps, CallRows
  <2>3. calls' = [calls EXCEPT ![r] = row]
    BY <1>1, <1>2, <1>5 DEF FindSlug, Goto
  <2> QED BY <1>3, <2>1, <2>2, <2>3
<1>6. CASE PreviewInvitation(r) /\ Goto(r, "join_tx") /\ q.code \in DOMAIN invitations /\ MeantFor(q.code, q.email)
  <2> DEFINE row == [q EXCEPT !.at = "join_tx"]
  <2>1. row \in CallRows
    BY <1>1 DEF CallRows, Places
  <2>2. Knows(row)'
    BY <1>1, <1>2, <1>6 DEF Knows, MeantFor, PreviewInvitation, Goto, AdminOps, CallRows
  <2>3. calls' = [calls EXCEPT ![r] = row]
    BY <1>1, <1>2, <1>6 DEF PreviewInvitation, Goto
  <2> QED BY <1>3, <2>1, <2>2, <2>3
<1>7. CASE FindTenant(r) /\ q.slug \in tenants
  <2> DEFINE row == [q EXCEPT !.at = "prov_tx", !.known = TRUE]
  <2>1. row \in CallRows
    BY <1>1 DEF CallRows, Places
  <2>2. Knows(row)'
    BY <1>1, <1>2, <1>7 DEF Knows, FindTenant, AdminOps, CallRows
  <2>3. calls' = [calls EXCEPT ![r] = row]
    <3>1. (calls[r].slug \in tenants) = TRUE
      BY <1>1, <1>7
    <3>2. calls' = [calls EXCEPT ![r].at = "prov_tx", ![r].known = TRUE]
      BY <1>7, <3>1, Zenon DEF FindTenant
    <3> QED BY <1>1, <1>2, <3>2
  <2> QED BY <1>3, <2>1, <2>2, <2>3
<1>8. CASE FindTenant(r) /\ q.slug \notin tenants
  <2> DEFINE row == [q EXCEPT !.at = "prov_tx", !.known = FALSE]
  <2>1. row \in CallRows
    BY <1>1 DEF CallRows, Places
  <2>2. Knows(row)'
    BY <1>1, <1>2, <1>8 DEF Knows, FindTenant, AdminOps, CallRows
  <2>3. calls' = [calls EXCEPT ![r] = row]
    <3>1. (calls[r].slug \in tenants) = FALSE
      BY <1>1, <1>8
    <3>2. calls' = [calls EXCEPT ![r].at = "prov_tx", ![r].known = FALSE]
      BY <1>8, <3>1, Zenon DEF FindTenant
    <3> QED BY <1>1, <1>2, <3>2
  <2> QED BY <1>3, <2>1, <2>2, <2>3
<1>9. CASE RetryProvision(r)
  <2> DEFINE row == [q EXCEPT !.at = "prov_find", !.retried = TRUE]
  <2>1. row \in CallRows
    BY <1>1 DEF CallRows, Places
  <2>2. Knows(row)'
    BY <1>1, <1>2, <1>9 DEF Knows, RetryProvision, SlugRace, AdminOps, CallRows
  <2>3. calls' = [calls EXCEPT ![r] = row]
    BY <1>1, <1>2, <1>9 DEF RetryProvision, SlugRace
  <2> QED BY <1>3, <2>1, <2>2, <2>3
<1> QED BY <1>1, <1>4, <1>5, <1>6, <1>7, <1>8, <1>9 DEF FindSlug, PreviewInvitation, GiveUp

-----------------------------------------------------------------------------
(* Accounts: new accounts *)

\* insertActor adds one row, under an id and an address nobody has.
LEMMA InsertRow ==
  ASSUME AccountsInv, NEW e \in Emails, NEW t \in Slugs, NEW role \in Roles, NEW via \in Vias,
         InsertActor(e, t, role, via)
  PROVE  /\ FreshId \in Ids \ DOMAIN accounts
         /\ DOMAIN accounts' = DOMAIN accounts \cup {FreshId}
         /\ accounts'[FreshId] = Row(e, t, role, via)
         /\ \A a \in DOMAIN accounts : accounts'[a] = accounts[a]
         /\ DOMAIN accounts' \subseteq Ids /\ accounts' \in [DOMAIN accounts' -> AccountRows]
         /\ OneAccountPerEmail'
<1>1. DOMAIN accounts \subseteq Ids /\ DOMAIN accounts # Ids
  BY DEF AccountsInv, AccountsTypeOK, InsertActor
<1>2. FreshId \in Ids \ DOMAIN accounts
  BY <1>1 DEF FreshId
<1>3. accounts' = [a \in DOMAIN accounts \cup {FreshId} |->
                     IF a = FreshId THEN Row(e, t, role, via) ELSE accounts[a]]
  BY DEF InsertActor
<1> HIDE DEF FreshId
<1>4. /\ DOMAIN accounts' = DOMAIN accounts \cup {FreshId}
      /\ accounts'[FreshId] = Row(e, t, role, via)
      /\ \A a \in DOMAIN accounts : accounts'[a] = accounts[a]
  BY <1>2, <1>3
<1>5. Row(e, t, role, via) \in AccountRows /\ Row(e, t, role, via).email = e
  BY DEF Row, AccountRows
<1>6. accounts' \in [DOMAIN accounts' -> AccountRows]
  <2>1. accounts \in [DOMAIN accounts -> AccountRows]
    BY DEF AccountsInv, AccountsTypeOK
  <2> QED BY <1>3, <1>4, <1>5, <2>1
<1>7. \A a \in DOMAIN accounts : accounts[a].email # e
  BY DEF InsertActor, EmailTaken
<1>8. OneAccountPerEmail'
  BY <1>4, <1>5, <1>7 DEF OneAccountPerEmail, AccountsInv
<1> QED BY <1>1, <1>2, <1>4, <1>6, <1>8

\* A founder comes with a new workspace, anybody else into one that stands.
LEMMA InsertFounded ==
  ASSUME AccountsInv, NEW e \in Emails, NEW t \in Slugs, NEW role \in Roles, NEW via \in Vias,
         InsertActor(e, t, role, via), UNCHANGED crossed,
         \/ t \notin tenants /\ tenants' = tenants \cup {t} /\ via = Founding /\ role = "ADMIN"
         \/ t \in tenants /\ tenants' = tenants /\ via # Founding
  PROVE  FoundedOnce' /\ AdminLostOnlyByCrossing'
<1>1. /\ FreshId \notin DOMAIN accounts
      /\ DOMAIN accounts' = DOMAIN accounts \cup {FreshId}
      /\ accounts'[FreshId] = Row(e, t, role, via)
      /\ \A a \in DOMAIN accounts : accounts'[a] = accounts[a]
  BY InsertRow
<1>2. Row(e, t, role, via).tenant = t /\ Row(e, t, role, via).via = via
      /\ Row(e, t, role, via).isActive /\ Row(e, t, role, via).role = role
  BY DEF Row
<1>3. FoundedOnce /\ AdminLostOnlyByCrossing
  BY DEF AccountsInv
<1>4. FoundedOnce'
  <2>1. \A a \in DOMAIN accounts' : accounts'[a].tenant \in tenants'
    BY <1>1, <1>2, <1>3 DEF FoundedOnce
  <2>2. ASSUME NEW s \in tenants'
        PROVE  \E a \in DOMAIN accounts' :
                 /\ accounts'[a].tenant = s /\ accounts'[a].via = Founding
                 /\ \A b \in DOMAIN accounts' :
                      accounts'[b].tenant = s /\ accounts'[b].via = Founding => b = a
    <3>1. CASE s \in tenants
      <4>1. PICK a \in DOMAIN accounts :
              /\ accounts[a].tenant = s /\ accounts[a].via = Founding
              /\ \A b \in DOMAIN accounts :
                   accounts[b].tenant = s /\ accounts[b].via = Founding => b = a
        BY <1>3, <3>1 DEF FoundedOnce
      <4>2. t # s \/ via # Founding
        BY <3>1
      <4> QED BY <1>1, <1>2, <4>1, <4>2
    <3>2. CASE s \notin tenants
      <4>1. s = t /\ via = Founding /\ \A b \in DOMAIN accounts : accounts[b].tenant # s
        BY <1>3, <3>2 DEF FoundedOnce
      <4> QED BY <1>1, <1>2, <4>1
    <3> QED BY <3>1, <3>2
  <2> QED BY <2>1, <2>2 DEF FoundedOnce
<1>5. AdminLostOnlyByCrossing'
  BY <1>1, <1>2, <1>3 DEF AdminLostOnlyByCrossing, IsAdmin
<1> QED BY <1>4, <1>5

\* An account made without an invitation leaves the invitations as they are.
LEMMA InsertUninvited ==
  ASSUME AccountsInv, NEW e \in Emails, NEW t \in Slugs, NEW role \in Roles, NEW via \in {Founding, Granting},
         InsertActor(e, t, role, via), UNCHANGED invitations, tenants \subseteq tenants'
  PROVE  MembershipIsGranted' /\ InvitationsLead'
<1>1. /\ FreshId \notin DOMAIN accounts
      /\ DOMAIN accounts' = DOMAIN accounts \cup {FreshId}
      /\ accounts'[FreshId] = Row(e, t, role, via)
      /\ \A a \in DOMAIN accounts : accounts'[a] = accounts[a]
  BY InsertRow DEF Vias
<1>2. Row(e, t, role, via).via \notin Codes
  BY ViasAssumption DEF Row
<1>3. MembershipIsGranted'
  BY <1>1, <1>2 DEF MembershipIsGranted, AccountsInv
<1> QED BY <1>3 DEF InvitationsLead, AccountsInv

LEMMA Merge ==
  ASSUME AccountsInv, tenants' \subseteq Slugs, UNCHANGED <<invitations, crossed>>,
         DOMAIN accounts' \subseteq Ids, accounts' \in [DOMAIN accounts' -> AccountRows],
         calls' \in [Calls -> CallRows]
  PROVE  AccountsTypeOK'
  BY DEF AccountsInv, AccountsTypeOK

LEMMA FoundWorkspaceKeeps ==
  ASSUME AccountsInv, NEW r \in Calls, FoundWorkspace(r)
  PROVE  AccountsInv'
<1> DEFINE q == calls[r]
<1>1. q.email \in Emails /\ q.slug \in Slugs /\ "ADMIN" \in Roles /\ Founding \in Vias
  BY DEF AccountsInv, CallsKnow, Knows, FoundWorkspace, Vias, Roles, ROLE_STAGES
<1>2. /\ q.slug \notin tenants /\ tenants' = tenants \cup {q.slug}
      /\ InsertActor(q.email, q.slug, "ADMIN", Founding) /\ Finish(r)
      /\ UNCHANGED <<invitations, crossed>>
  BY DEF FoundWorkspace, InsertTenant
<1> HIDE DEF q
<1>3. /\ DOMAIN accounts \subseteq DOMAIN accounts' /\ DOMAIN accounts' \subseteq Ids
      /\ accounts' \in [DOMAIN accounts' -> AccountRows] /\ OneAccountPerEmail'
  BY <1>1, <1>2, InsertRow
<1>4. FoundedOnce' /\ AdminLostOnlyByCrossing'
  BY <1>1, <1>2, InsertFounded
<1>5. MembershipIsGranted' /\ InvitationsLead'
  BY <1>1, <1>2, InsertUninvited
<1>6. calls' \in [Calls -> CallRows] /\ CallsKnow'
  BY <1>2, <1>3, FinishStep
<1>7. tenants' \subseteq Slugs
  BY <1>1, <1>2 DEF AccountsInv, AccountsTypeOK
<1>8. AccountsTypeOK'
  BY <1>2, <1>3, <1>6, <1>7, Merge
<1> QED BY <1>3, <1>4, <1>5, <1>6, <1>8 DEF AccountsInv

LEMMA ProvisionKeeps ==
  ASSUME AccountsInv, NEW r \in Calls, Provision(r)
  PROVE  AccountsInv'
<1> DEFINE q == calls[r]
<1>1. /\ q.email \in Emails /\ q.slug \in Slugs /\ (q.known => q.slug \in tenants)
      /\ q.role \in Roles /\ "ADMIN" \in Roles /\ {Founding, Granting} \subseteq Vias
  BY DEF AccountsInv, AccountsTypeOK, CallRows, CallsKnow, Knows, Provision, Vias, Roles, ROLE_STAGES
<1>2. \/ /\ q.slug \notin tenants /\ tenants' = tenants \cup {q.slug}
         /\ InsertActor(q.email, q.slug, "ADMIN", Founding)
      \/ /\ q.slug \in tenants /\ tenants' = tenants
         /\ InsertActor(q.email, q.slug, q.role, Granting)
  BY <1>1 DEF Provision, InsertTenant
<1>3. Finish(r) /\ UNCHANGED <<invitations, crossed>> /\ Granting # Founding
  BY DEF Provision, Granting, Founding
<1> HIDE DEF q
<1>4. /\ DOMAIN accounts \subseteq DOMAIN accounts' /\ DOMAIN accounts' \subseteq Ids
      /\ accounts' \in [DOMAIN accounts' -> AccountRows] /\ OneAccountPerEmail'
  BY <1>1, <1>2, InsertRow
<1>5. FoundedOnce' /\ AdminLostOnlyByCrossing'
  BY <1>1, <1>2, <1>3, InsertFounded
<1>6. MembershipIsGranted' /\ InvitationsLead'
  BY <1>1, <1>2, <1>3, InsertUninvited
<1>7. calls' \in [Calls -> CallRows] /\ CallsKnow'
  BY <1>2, <1>3, <1>4, FinishStep
<1>8. tenants' \subseteq Slugs
  BY <1>1, <1>2 DEF AccountsInv, AccountsTypeOK
<1>9. AccountsTypeOK'
  BY <1>3, <1>4, <1>7, <1>8, Merge
<1> QED BY <1>4, <1>5, <1>6, <1>7, <1>9 DEF AccountsInv

\* The code is consumed by the account it grants: both were open to the last.
LEMMA RedeemInvitationKeeps ==
  ASSUME AccountsInv, NEW r \in Calls, RedeemInvitation(r)
  PROVE  AccountsInv'
<1> DEFINE q == calls[r]
           c == q.code
           i == invitations[c]
           a == FreshId
<1>1. /\ q.email \in Emails /\ c \in DOMAIN invitations /\ c \in Codes /\ c # Founding
      /\ i.email \in {AnyEmail, q.email}
  BY ViasAssumption DEF AccountsInv, AccountsTypeOK, CallsKnow, Knows, MeantFor, RedeemInvitation
<1>2. i \in InvitationRows /\ i.tenant \in tenants
  BY <1>1 DEF AccountsInv, AccountsTypeOK, InvitationsLead
<1>3. i.tenant \in Slugs /\ i.role \in Roles /\ c \in Vias
  BY <1>1, <1>2 DEF InvitationRows, Vias
<1>4. /\ i.usedBy = Nobody /\ ~i.revoked /\ Finish(r)
      /\ InsertActor(q.email, i.tenant, i.role, c)
      /\ invitations' = [invitations EXCEPT ![c].usedBy = a] /\ UNCHANGED <<tenants, crossed>>
  BY DEF RedeemInvitation, Redeemable, MarkUsed
<1>5. /\ a \in Ids \ DOMAIN accounts /\ DOMAIN accounts' = DOMAIN accounts \cup {a}
      /\ accounts'[a] = Row(q.email, i.tenant, i.role, c)
      /\ \A b \in DOMAIN accounts : accounts'[b] = accounts[b]
      /\ DOMAIN accounts' \subseteq Ids /\ accounts' \in [DOMAIN accounts' -> AccountRows]
      /\ OneAccountPerEmail'
  BY <1>1, <1>3, <1>4, InsertRow
<1>6. FoundedOnce' /\ AdminLostOnlyByCrossing'
  BY <1>1, <1>2, <1>3, <1>4, InsertFounded
<1>7. /\ accounts'[a].via = c /\ accounts'[a].tenant = i.tenant
      /\ accounts'[a].granted = i.role /\ accounts'[a].email = q.email
  BY <1>5 DEF Row
<1> HIDE DEF q, a
<1>8. /\ DOMAIN invitations' = DOMAIN invitations
      /\ \A d \in DOMAIN invitations \ {c} : invitations'[d] = invitations[d]
      /\ invitations'[c].usedBy = a /\ invitations'[c].tenant = i.tenant
      /\ invitations'[c].role = i.role /\ invitations'[c].email = i.email
      /\ invitations'[c].revoked = i.revoked
  BY <1>1, <1>2, <1>4 DEF AccountsInv, AccountsTypeOK, InvitationRows
<1>9. invitations' \in [DOMAIN invitations' -> InvitationRows] /\ DOMAIN invitations' \subseteq Codes
  <2>1. [i EXCEPT !.usedBy = a] \in InvitationRows
    BY <1>2, <1>5 DEF InvitationRows
  <2>2. invitations' = [invitations EXCEPT ![c] = [i EXCEPT !.usedBy = a]]
    BY <1>1, <1>4 DEF AccountsInv, AccountsTypeOK
  <2> HIDE DEF i
  <2> QED BY <1>1, <2>1, <2>2 DEF AccountsInv, AccountsTypeOK
<1> HIDE DEF i
<1>10. MembershipIsGranted'
  <2>1. MembershipIsGranted /\ Nobody \notin DOMAIN accounts
    BY AccountsAssumption DEF AccountsInv, AccountsTypeOK
  <2>2. \A b \in DOMAIN accounts : accounts[b].via # c
    <3>1. \A b \in DOMAIN accounts : accounts[b].via = c => invitations[c].usedBy = b
      BY <1>1, <2>1 DEF MembershipIsGranted
    <3> QED BY <1>4, <2>1, <3>1 DEF i
  <2>3. ASSUME NEW b \in DOMAIN accounts', accounts'[b].via \in Codes
        PROVE  LET d == accounts'[b].via IN
               /\ d \in DOMAIN invitations'
               /\ invitations'[d].usedBy = b
               /\ invitations'[d].tenant = accounts'[b].tenant
               /\ invitations'[d].role = accounts'[b].granted
               /\ invitations'[d].email \in {AnyEmail, accounts'[b].email}
    <3>1. CASE b = a
      BY <1>1, <1>7, <1>8, <3>1
    <3>2. CASE b # a
      <4>1. b \in DOMAIN accounts /\ accounts'[b] = accounts[b]
        BY <1>5, <3>2
      <4> QED BY <1>8, <2>1, <2>2, <2>3, <4>1 DEF MembershipIsGranted
    <3> QED BY <3>1, <3>2
  <2>4. ASSUME NEW d \in DOMAIN invitations', invitations'[d].usedBy # Nobody
        PROVE  /\ invitations'[d].usedBy \in DOMAIN accounts'
               /\ accounts'[invitations'[d].usedBy].via = d
               /\ ~invitations'[d].revoked
    <3>1. CASE d = c
      BY <1>4, <1>5, <1>7, <1>8, <3>1
    <3>2. CASE d # c
      BY <1>5, <1>8, <2>1, <2>4, <3>2 DEF MembershipIsGranted
    <3> QED BY <3>1, <3>2
  <2> QED BY <2>3, <2>4 DEF MembershipIsGranted
<1>11. InvitationsLead'
  BY <1>1, <1>2, <1>4, <1>8 DEF AccountsInv, InvitationsLead, i
<1>12. calls' \in [Calls -> CallRows] /\ CallsKnow'
  BY <1>4, <1>5, <1>8, FinishStep DEF i
<1>13. AccountsTypeOK'
  BY <1>4, <1>5, <1>9, <1>12 DEF AccountsInv, AccountsTypeOK
<1> QED BY <1>5, <1>6, <1>10, <1>11, <1>12, <1>13 DEF AccountsInv

-----------------------------------------------------------------------------
(* Accounts: invitations *)

\* A step that touches the invitations alone, keeps of each what its account
\* was granted by, and uses none.
LEMMA InvitationsStep ==
  ASSUME AccountsInv, UNCHANGED <<tenants, accounts>>, crossed \subseteq crossed', crossed' \subseteq Slugs,
         calls' \in [Calls -> CallRows], CallsKnow',
         invitations' \in [DOMAIN invitations' -> InvitationRows], DOMAIN invitations' \subseteq Codes,
         DOMAIN invitations \subseteq DOMAIN invitations',
         \A c \in DOMAIN invitations :
           /\ invitations'[c].usedBy = invitations[c].usedBy /\ invitations'[c].tenant = invitations[c].tenant
           /\ invitations'[c].role = invitations[c].role /\ invitations'[c].email = invitations[c].email
           /\ invitations[c].usedBy # Nobody => invitations'[c].revoked = invitations[c].revoked,
         \A c \in DOMAIN invitations' \ DOMAIN invitations :
           invitations'[c].usedBy = Nobody /\ invitations'[c].tenant \in tenants
  PROVE  AccountsInv'
<1>1. AccountsTypeOK'
  BY DEF AccountsInv, AccountsTypeOK
<1>2. FoundedOnce' /\ OneAccountPerEmail'
  BY DEF AccountsInv, FoundedOnce, OneAccountPerEmail
<1>3. AdminLostOnlyByCrossing'
  BY DEF AccountsInv, AdminLostOnlyByCrossing, IsAdmin
<1>4. InvitationsLead'
  BY DEF AccountsInv, InvitationsLead
<1>5. MembershipIsGranted'
  BY DEF AccountsInv, MembershipIsGranted
<1> QED BY <1>1, <1>2, <1>3, <1>4, <1>5 DEF AccountsInv

\* Who asked has an account, in a workspace that stands.
LEMMA AskerIsHome ==
  ASSUME AccountsInv, NEW r \in Calls, calls[r].at \in AdminOps
  PROVE  calls[r].by \in DOMAIN accounts /\ Home(r) \in tenants /\ Home(r) \in Slugs
<1>1. calls[r].by \in DOMAIN accounts
  BY DEF AccountsInv, CallsKnow, Knows
<1>2. Home(r) \in tenants
  BY <1>1 DEF Home, AccountsInv, FoundedOnce
<1> QED BY <1>1, <1>2 DEF AccountsInv, AccountsTypeOK

LEMMA CrossingGrows ==
  ASSUME AccountsInv, NEW r \in Calls, calls[r].at \in AdminOps, NoteCrossing(r)
  PROVE  crossed \subseteq crossed' /\ crossed' \subseteq Slugs
  BY AskerIsHome DEF NoteCrossing, AccountsInv, AccountsTypeOK

LEMMA CreateInvitationKeeps ==
  ASSUME AccountsInv, NEW r \in Calls, CreateInvitation(r)
  PROVE  AccountsInv'
<1>1. PICK c \in Codes \ DOMAIN invitations :
        invitations' = [d \in DOMAIN invitations \cup {c} |->
          IF d = c THEN [tenant |-> Home(r), role |-> calls[r].role, email |-> calls[r].email,
                         expired |-> FALSE, revoked |-> FALSE, usedBy |-> Nobody]
          ELSE invitations[d]]
  BY DEF CreateInvitation
<1>2. calls[r].at \in AdminOps /\ NoteCrossing(r) /\ Finish(r) /\ UNCHANGED <<tenants, accounts>>
  BY DEF CreateInvitation, AdminOps
<1>3. Home(r) \in tenants /\ Home(r) \in Slugs /\ crossed \subseteq crossed' /\ crossed' \subseteq Slugs
  BY <1>2, AskerIsHome, CrossingGrows
<1>4. calls[r].role \in Roles /\ calls[r].email \in Emails \cup {AnyEmail}
  BY DEF AccountsInv, AccountsTypeOK, CallRows
<1>5. /\ DOMAIN invitations' = DOMAIN invitations \cup {c} /\ DOMAIN invitations' \subseteq Codes
      /\ \A d \in DOMAIN invitations : invitations'[d] = invitations[d]
      /\ invitations'[c] = [tenant |-> Home(r), role |-> calls[r].role, email |-> calls[r].email,
                            expired |-> FALSE, revoked |-> FALSE, usedBy |-> Nobody]
  BY <1>1 DEF AccountsInv, AccountsTypeOK
<1>6. invitations'[c] \in InvitationRows
  BY <1>3, <1>4, <1>5 DEF InvitationRows
<1>7. invitations' \in [DOMAIN invitations' -> InvitationRows]
  BY <1>1, <1>5, <1>6 DEF AccountsInv, AccountsTypeOK
<1>8. calls' \in [Calls -> CallRows] /\ CallsKnow'
  BY <1>2, <1>5, FinishStep
<1> QED BY <1>2, <1>3, <1>5, <1>7, <1>8, InvitationsStep

\* Only one flag of one invitation changes.
LEMMA FlagStep ==
  ASSUME AccountsInv, NEW c \in DOMAIN invitations, NEW row \in InvitationRows,
         invitations' = [invitations EXCEPT ![c] = row]
  PROVE  /\ DOMAIN invitations' = DOMAIN invitations /\ DOMAIN invitations' \subseteq Codes
         /\ invitations' \in [DOMAIN invitations' -> InvitationRows]
         /\ invitations'[c] = row /\ \A d \in DOMAIN invitations \ {c} : invitations'[d] = invitations[d]
  BY DEF AccountsInv, AccountsTypeOK

LEMMA RevokeInvitationKeeps ==
  ASSUME AccountsInv, NEW r \in Calls, RevokeInvitation(r)
  PROVE  AccountsInv'
<1>1. PICK c \in DOMAIN invitations :
        Revocable(c) /\ invitations' = [invitations EXCEPT ![c].revoked = TRUE]
  BY DEF RevokeInvitation
<1>2. calls[r].at \in AdminOps /\ NoteCrossing(r) /\ Finish(r) /\ UNCHANGED <<tenants, accounts>>
  BY DEF RevokeInvitation, AdminOps
<1>3. crossed \subseteq crossed' /\ crossed' \subseteq Slugs
  BY <1>2, CrossingGrows
<1> DEFINE row == [invitations[c] EXCEPT !.revoked = TRUE]
<1>4. invitations[c] \in InvitationRows /\ invitations[c].usedBy = Nobody
  BY <1>1 DEF AccountsInv, AccountsTypeOK, Revocable
<1>5. /\ row \in InvitationRows /\ row.usedBy = Nobody /\ row.tenant = invitations[c].tenant
      /\ row.role = invitations[c].role /\ row.email = invitations[c].email
  BY <1>4 DEF InvitationRows
<1>6. invitations' = [invitations EXCEPT ![c] = row]
  BY <1>1 DEF AccountsInv, AccountsTypeOK
<1>7. PICK w \in InvitationRows : w = row
  BY <1>5
<1> HIDE DEF row
<1>8. /\ DOMAIN invitations' = DOMAIN invitations /\ DOMAIN invitations' \subseteq Codes
      /\ invitations' \in [DOMAIN invitations' -> InvitationRows]
      /\ invitations'[c] = w /\ \A d \in DOMAIN invitations \ {c} : invitations'[d] = invitations[d]
  BY <1>6, <1>7, FlagStep
<1>9. \A d \in DOMAIN invitations :
        /\ invitations'[d].usedBy = invitations[d].usedBy /\ invitations'[d].tenant = invitations[d].tenant
        /\ invitations'[d].role = invitations[d].role /\ invitations'[d].email = invitations[d].email
        /\ invitations[d].usedBy # Nobody => invitations'[d].revoked = invitations[d].revoked
  BY <1>4, <1>5, <1>7, <1>8
<1>10. calls' \in [Calls -> CallRows] /\ CallsKnow'
  BY <1>2, <1>8, <1>9, FinishStep
<1> QED BY <1>2, <1>3, <1>8, <1>9, <1>10, InvitationsStep

LEMMA ExpireKeeps ==
  ASSUME AccountsInv, NEW c \in Codes, Expire(c)
  PROVE  AccountsInv'
<1>1. /\ c \in DOMAIN invitations /\ invitations' = [invitations EXCEPT ![c].expired = TRUE]
      /\ UNCHANGED <<tenants, accounts, calls, crossed>>
  BY DEF Expire
<1> DEFINE row == [invitations[c] EXCEPT !.expired = TRUE]
<1>2. invitations[c] \in InvitationRows
  BY <1>1 DEF AccountsInv, AccountsTypeOK
<1>3. /\ row \in InvitationRows /\ row.usedBy = invitations[c].usedBy /\ row.tenant = invitations[c].tenant
      /\ row.role = invitations[c].role /\ row.email = invitations[c].email
      /\ row.revoked = invitations[c].revoked
  BY <1>2 DEF InvitationRows
<1>4. invitations' = [invitations EXCEPT ![c] = row]
  BY <1>1 DEF AccountsInv, AccountsTypeOK
<1>5. PICK w \in InvitationRows : w = row
  BY <1>3
<1> HIDE DEF row
<1>6. /\ DOMAIN invitations' = DOMAIN invitations /\ DOMAIN invitations' \subseteq Codes
      /\ invitations' \in [DOMAIN invitations' -> InvitationRows]
      /\ invitations'[c] = w /\ \A d \in DOMAIN invitations \ {c} : invitations'[d] = invitations[d]
  BY <1>1, <1>4, <1>5, FlagStep
<1>7. \A d \in DOMAIN invitations :
        /\ invitations'[d].usedBy = invitations[d].usedBy /\ invitations'[d].tenant = invitations[d].tenant
        /\ invitations'[d].role = invitations[d].role /\ invitations'[d].email = invitations[d].email
        /\ invitations[d].usedBy # Nobody => invitations'[d].revoked = invitations[d].revoked
  BY <1>3, <1>5, <1>6
<1>8. calls' \in [Calls -> CallRows] /\ CallsKnow'
  BY <1>1, <1>6, <1>7 DEF AccountsInv, AccountsTypeOK, CallsKnow, Knows, MeantFor
<1>9. crossed' \subseteq Slugs
  BY <1>1 DEF AccountsInv, AccountsTypeOK
<1> QED BY <1>1, <1>6, <1>7, <1>8, <1>9, InvitationsStep

-----------------------------------------------------------------------------
(* Accounts: status and role *)

\* A step that sets one account's status or role, and leaves the workspace its
\* administrator, or lists it among the crossed.
LEMMA AccountStep ==
  ASSUME AccountsInv, NEW b \in DOMAIN accounts, NEW row \in AccountRows,
         row.email = accounts[b].email, row.tenant = accounts[b].tenant,
         row.via = accounts[b].via, row.granted = accounts[b].granted,
         accounts' = [accounts EXCEPT ![b] = row], UNCHANGED <<tenants, invitations>>,
         crossed \subseteq crossed', crossed' \subseteq Slugs,
         calls' \in [Calls -> CallRows], CallsKnow',
         \/ accounts[b].tenant \in crossed'
         \/ \E a \in DOMAIN accounts' : accounts'[a].tenant = accounts[b].tenant /\ IsAdmin(a)'
  PROVE  AccountsInv'
<1>1. accounts \in [DOMAIN accounts -> AccountRows] /\ DOMAIN accounts \subseteq Ids
  BY DEF AccountsInv, AccountsTypeOK
<1>2. /\ DOMAIN accounts' = DOMAIN accounts /\ accounts'[b] = row
      /\ \A a \in DOMAIN accounts \ {b} : accounts'[a] = accounts[a]
      /\ accounts' \in [DOMAIN accounts' -> AccountRows]
  BY <1>1
<1>3. \A a \in DOMAIN accounts :
        /\ accounts'[a].email = accounts[a].email /\ accounts'[a].tenant = accounts[a].tenant
        /\ accounts'[a].via = accounts[a].via /\ accounts'[a].granted = accounts[a].granted
  BY <1>2
<1>4. AccountsTypeOK' /\ InvitationsLead'
  BY <1>1, <1>2 DEF AccountsInv, AccountsTypeOK, InvitationsLead
<1>5. FoundedOnce'
  <2>1. \A a \in DOMAIN accounts' : accounts'[a].tenant \in tenants'
    BY <1>2, <1>3 DEF AccountsInv, FoundedOnce
  <2>2. ASSUME NEW s \in tenants'
        PROVE  \E a \in DOMAIN accounts' :
                 /\ accounts'[a].tenant = s /\ accounts'[a].via = Founding
                 /\ \A d \in DOMAIN accounts' :
                      accounts'[d].tenant = s /\ accounts'[d].via = Founding => d = a
    <3>1. PICK a \in DOMAIN accounts :
            /\ accounts[a].tenant = s /\ accounts[a].via = Founding
            /\ \A d \in DOMAIN accounts :
                 accounts[d].tenant = s /\ accounts[d].via = Founding => d = a
      BY DEF AccountsInv, FoundedOnce
    <3> QED BY <1>2, <1>3, <3>1
  <2> QED BY <2>1, <2>2 DEF FoundedOnce
<1>6. OneAccountPerEmail'
  BY <1>2, <1>3 DEF AccountsInv, OneAccountPerEmail
<1>7. MembershipIsGranted'
  BY <1>2, <1>3 DEF AccountsInv, MembershipIsGranted
<1>8. AdminLostOnlyByCrossing'
  <2>1. ASSUME NEW s \in tenants' \ crossed'
        PROVE  \E a \in DOMAIN accounts' : accounts'[a].tenant = s /\ IsAdmin(a)'
    <3>1. CASE s = accounts[b].tenant
      BY <2>1, <3>1
    <3>2. CASE s # accounts[b].tenant
      <4>1. PICK a \in DOMAIN accounts : accounts[a].tenant = s /\ IsAdmin(a)
        BY <2>1 DEF AccountsInv, AdminLostOnlyByCrossing
      <4>2. a # b /\ accounts'[a] = accounts[a] /\ a \in DOMAIN accounts'
        BY <1>2, <3>2, <4>1
      <4> QED BY <4>1, <4>2 DEF IsAdmin
    <3> QED BY <3>1, <3>2
  <2> QED BY <2>1 DEF AdminLostOnlyByCrossing
<1> QED BY <1>4, <1>5, <1>6, <1>7, <1>8 DEF AccountsInv

\* Who asked and is an administrator still, is one after the step: an
\* administrator reaches others, and to switch oneself on takes nothing away.
LEMMA SetActorKeeps ==
  ASSUME AccountsInv, NEW r \in Calls, SetActorStatus(r) \/ SetActorRole(r)
  PROVE  AccountsInv'
<1> DEFINE by == calls[r].by
<1>1. /\ calls[r].at \in AdminOps /\ NoteCrossing(r) /\ Finish(r)
      /\ UNCHANGED <<tenants, invitations>>
  BY DEF SetActorStatus, SetActorRole, AdminOps
<1>2. by \in DOMAIN accounts /\ crossed \subseteq crossed' /\ crossed' \subseteq Slugs
  BY <1>1, AskerIsHome, CrossingGrows
<1>3. calls[r].active \in BOOLEAN /\ calls[r].role \in Roles
  BY DEF AccountsInv, AccountsTypeOK, CallRows
<1>4. PICK b \in DOMAIN accounts :
        /\ b = calls[r].target /\ accounts[b].tenant = Home(r)
        /\ \/ /\ accounts' = [accounts EXCEPT ![b].isActive = calls[r].active]
              /\ calls[r].active \/ NotSelf(r)
           \/ accounts' = [accounts EXCEPT ![b].role = calls[r].role] /\ NotSelf(r)
  BY DEF SetActorStatus, SetActorRole, Target
<1>5. PICK old \in AccountRows : old = accounts[b]
  BY DEF AccountsInv, AccountsTypeOK
<1>6. accounts \in [DOMAIN accounts -> AccountRows]
  BY DEF AccountsInv, AccountsTypeOK
<1>7. PICK row \in AccountRows :
        /\ accounts' = [accounts EXCEPT ![b] = row]
        /\ row.email = old.email /\ row.tenant = old.tenant
        /\ row.via = old.via /\ row.granted = old.granted
        /\ b = by => row.isActive /\ row.role = old.role
  <2>1. CASE accounts' = [accounts EXCEPT ![b].isActive = calls[r].active]
             /\ (calls[r].active \/ NotSelf(r))
    <3> DEFINE row == [old EXCEPT !.isActive = calls[r].active]
    <3>1. row \in AccountRows /\ accounts' = [accounts EXCEPT ![b] = row]
      BY <1>3, <1>5, <1>6, <2>1 DEF AccountRows
    <3>2. /\ row.email = old.email /\ row.tenant = old.tenant
          /\ row.via = old.via /\ row.granted = old.granted
          /\ row.isActive = calls[r].active /\ row.role = old.role
      BY <1>5 DEF AccountRows
    <3>3. b = by => calls[r].active
      BY <1>4, <2>1 DEF NotSelf
    <3> HIDE DEF row
    <3> QED BY <3>1, <3>2, <3>3
  <2>2. CASE accounts' = [accounts EXCEPT ![b].role = calls[r].role] /\ NotSelf(r)
    <3> DEFINE row == [old EXCEPT !.role = calls[r].role]
    <3>1. row \in AccountRows /\ accounts' = [accounts EXCEPT ![b] = row]
      BY <1>3, <1>5, <1>6, <2>2 DEF AccountRows
    <3>2. /\ row.email = old.email /\ row.tenant = old.tenant
          /\ row.via = old.via /\ row.granted = old.granted
      BY <1>5 DEF AccountRows
    <3>3. b # by
      BY <1>4, <2>2 DEF NotSelf
    <3> HIDE DEF row
    <3> QED BY <3>1, <3>2, <3>3
  <2> QED BY <1>4, <2>1, <2>2
<1>8. DOMAIN accounts' = DOMAIN accounts
  BY <1>7
<1>9. calls' \in [Calls -> CallRows] /\ CallsKnow'
  BY <1>1, <1>8, FinishStep
<1>10. \/ accounts[b].tenant \in crossed'
       \/ \E a \in DOMAIN accounts' : accounts'[a].tenant = accounts[b].tenant /\ IsAdmin(a)'
  <2>1. CASE IsAdmin(by)
    <3>1. accounts[by].isActive /\ accounts[by].role = "ADMIN"
          /\ accounts[by].tenant = accounts[b].tenant
      BY <1>4, <2>1 DEF IsAdmin, Home
    <3>2. accounts'[by].isActive /\ accounts'[by].role = "ADMIN"
          /\ accounts'[by].tenant = accounts[b].tenant
      <4>1. CASE by = b
        BY <1>5, <1>6, <1>7, <3>1, <4>1
      <4>2. CASE by # b
        BY <1>2, <1>6, <1>7, <3>1, <4>2
      <4> QED BY <4>1, <4>2
    <3> QED BY <1>2, <1>8, <3>2 DEF IsAdmin
  <2>2. CASE ~IsAdmin(by)
    BY <1>1, <1>4, <2>2 DEF NoteCrossing
  <2> QED BY <2>1, <2>2
<1> HIDE DEF by
<1> QED BY <1>1, <1>2, <1>5, <1>7, <1>9, <1>10, AccountStep

-----------------------------------------------------------------------------
(* Accounts: the specification *)

LEMMA AccountsStart == AccountsInit => AccountsInv
<1> SUFFICES ASSUME AccountsInit PROVE AccountsInv
  OBVIOUS
<1>1. DOMAIN accounts = {} /\ DOMAIN invitations = {} /\ tenants = {} /\ crossed = {}
      /\ calls = [r \in Calls |-> NoCall]
  BY DEF AccountsInit
<1>2. AccountsTypeOK
  <2>1. accounts \in [DOMAIN accounts -> AccountRows] /\ invitations \in [DOMAIN invitations -> InvitationRows]
    BY DEF AccountsInit
  <2> QED BY <1>1, <2>1, NoCallType DEF AccountsTypeOK
<1>3. CallsKnow
  BY <1>1 DEF CallsKnow, Knows, NoCall, AdminOps
<1> QED BY <1>1, <1>2, <1>3 DEF AccountsInv, InvitationsLead, FoundedOnce, OneAccountPerEmail,
                                MembershipIsGranted, AdminLostOnlyByCrossing

LEMMA AccountsStep == AccountsInv /\ [AccountsNext]_accountsVars => AccountsInv'
<1> SUFFICES ASSUME AccountsInv, [AccountsNext]_accountsVars PROVE AccountsInv'
  OBVIOUS
<1>1. ASSUME NEW r \in Calls, Serve(r) PROVE AccountsInv'
  BY <1>1, LookKeeps, FoundWorkspaceKeeps, ProvisionKeeps, RedeemInvitationKeeps,
     CreateInvitationKeeps, RevokeInvitationKeeps, SetActorKeeps DEF Serve
<1>2. CASE AccountsNext
  BY <1>1, <1>2, AskKeeps, ExpireKeeps DEF AccountsNext
<1>3. CASE UNCHANGED accountsVars
  <2>1. UNCHANGED <<tenants, accounts, invitations, crossed, calls>>
    BY <1>3 DEF accountsVars
  <2>2. calls' \in [Calls -> CallRows] /\ CallsKnow'
    BY <2>1 DEF AccountsInv, AccountsTypeOK, CallsKnow, Knows, MeantFor
  <2> QED BY <2>1, <2>2, OnlyCalls
<1> QED BY <1>2, <1>3

LEMMA AccountsAlways == AccountsSpec => []AccountsInv
  BY AccountsStart, AccountsStep, PTL DEF AccountsSpec

\* Rows keep their columns, whatever requests are served (Accounts).
THEOREM AccountsAreTyped == AccountsSpec => []AccountsTypeOK
<1>1. AccountsInv => AccountsTypeOK
  BY DEF AccountsInv
<1> QED BY <1>1, AccountsAlways, PTL

\* However many sign-ups, provisionings and replicas race for a slug or an
\* address, one founds the workspace and one gets the address, and a retried
\* provisioning finds the tenant it lost (registerWorkspace, provisionActor).
THEOREM NamesAreWonOnce == AccountsSpec => []NoNameTwice
<1>1. AccountsInv => NoNameTwice
  BY DEF AccountsInv, NoNameTwice, CallsKnow, Knows, OneRetryIsEnough
<1> QED BY <1>1, AccountsAlways, PTL

\* One code makes exactly one account, the one it was issued for
\* (registerWithInvite, createInvitation, revokeInvitation).
THEOREM OneCodeOneAccount == AccountsSpec => []MembershipIsGranted
<1>1. AccountsInv => MembershipIsGranted
  BY DEF AccountsInv
<1> QED BY <1>1, AccountsAlways, PTL

\* setActorStatus and setActorRole take a workspace its last administrator
\* only on behalf of somebody deactivated or demoted under way.
THEOREM AdminsAreLostByCrossing == AccountsSpec => []AdminLostOnlyByCrossing
<1>1. AccountsInv => AdminLostOnlyByCrossing
  BY DEF AccountsInv
<1> QED BY <1>1, AccountsAlways, PTL

-----------------------------------------------------------------------------
(* Accounts: what a revoked or expired code may never do *)

LEMMA UseKeepsClosed ==
  ASSUME AccountsInv, [AccountsNext]_accountsVars, NEW c \in DOMAIN invitations,
         invitations[c].revoked \/ invitations[c].expired
  PROVE  invitations'[c].usedBy = invitations[c].usedBy
<1>1. CASE UNCHANGED invitations
  BY <1>1
<1>2. CASE \E d \in DOMAIN invitations : \E flag \in {"revoked", "expired"} :
             invitations' = [invitations EXCEPT ![d][flag] = TRUE]
  <2>1. PICK d \in DOMAIN invitations, flag \in {"revoked", "expired"} :
          invitations' = [invitations EXCEPT ![d] = [invitations[d] EXCEPT ![flag] = TRUE]]
    BY <1>2 DEF AccountsInv, AccountsTypeOK
  <2>2. invitations[d] \in InvitationRows
    BY DEF AccountsInv, AccountsTypeOK
  <2>3. [invitations[d] EXCEPT ![flag] = TRUE].usedBy = invitations[d].usedBy
    BY <2>2 DEF InvitationRows
  <2> QED BY <2>1, <2>3 DEF AccountsInv, AccountsTypeOK
<1>3. ASSUME NEW r \in Calls, RedeemInvitation(r) PROVE invitations'[c].usedBy = invitations[c].usedBy
  <2>1. c # calls[r].code
    BY <1>3 DEF RedeemInvitation, Redeemable
  <2> QED BY <1>3, <2>1 DEF RedeemInvitation, MarkUsed, AccountsInv, AccountsTypeOK
<1>4. ASSUME NEW r \in Calls, CreateInvitation(r) PROVE invitations'[c].usedBy = invitations[c].usedBy
  BY <1>4 DEF CreateInvitation
<1>5. ASSUME NEW r \in Calls, Serve(r) PROVE invitations'[c].usedBy = invitations[c].usedBy
  <2>1. CASE RevokeInvitation(r)
    <3>1. PICK d \in DOMAIN invitations : invitations' = [invitations EXCEPT ![d].revoked = TRUE]
      BY <2>1 DEF RevokeInvitation
    <3> QED BY <3>1, <1>2
  <2>2. CASE ~RevokeInvitation(r) /\ ~CreateInvitation(r) /\ ~RedeemInvitation(r)
    BY <1>1, <1>5, <2>2 DEF Serve, FindSlug, FoundWorkspace, PreviewInvitation, FindTenant, Provision,
       RetryProvision, SetActorStatus, SetActorRole, GiveUp
  <2> QED BY <1>3, <1>4, <1>5, <2>1, <2>2 
<1>6. ASSUME NEW r \in Calls, Ask(r) PROVE UNCHANGED invitations
  BY <1>6 DEF Ask, Arrive, AskWorkspace, AskJoin, AskProvision, AskAdmin, AskInvite, AskRevoke, AskStatus, AskRole
<1>7. ASSUME NEW d \in Codes, Expire(d) PROVE invitations'[c].usedBy = invitations[c].usedBy
  <2>1. d \in DOMAIN invitations /\ invitations' = [invitations EXCEPT ![d].expired = TRUE]
    BY <1>7 DEF Expire
  <2> QED BY <2>1, <1>2
<1>8. CASE UNCHANGED accountsVars
  BY <1>1, <1>8 DEF accountsVars
<1> QED BY <1>1, <1>5, <1>6, <1>7, <1>8 DEF AccountsNext

\* A code once revoked or expired is never consumed: registerWithInvite looks
\* again under the row lock.
THEOREM ClosedCodesStayUnused == AccountsSpec => OnlyOpenInvitations
<1>1. AccountsInv /\ [AccountsNext]_accountsVars
        => [\A c \in DOMAIN invitations :
              invitations[c].revoked \/ invitations[c].expired
                => invitations'[c].usedBy = invitations[c].usedBy]_accountsVars
  BY UseKeepsClosed
<1> QED BY <1>1, AccountsAlways, PTL DEF AccountsSpec, OnlyOpenInvitations

-----------------------------------------------------------------------------
(* The pool *)

\* A flow holds a connection from connect to release.
Holds ==
  \A f \in Flows : flows[f].conn = NoConn <=> flows[f].at \in {"idle", "connect"}

\* A connection has one holder.
Exclusive ==
  \A f, g \in Flows : f # g /\ flows[f].conn # NoConn => flows[g].conn # flows[f].conn

\* What PostgreSQL has for a connection, by the place its holder is at.
Settings ==
  \A f \in Flows :
    /\ flows[f].at \in {"begin", "set_config"} => conns[flows[f].conn].setting = NoTenant
    /\ flows[f].at = "begin" => conns[flows[f].conn].tx = "none"
    /\ flows[f].at \in {"set_config", "body", "commit"} => conns[flows[f].conn].tx = "open"
    /\ flows[f].at \in {"body", "commit"} => conns[flows[f].conn].setting = flows[f].tenantId

\* No answer is given before the flow ends.
Told ==
  \A f \in Flows : flows[f].at # "idle" =>
    /\ answer[f].told = "nothing"
    /\ answer[f].committed => answer[f].cut

PoolInv == PoolTypeOK /\ Holds /\ Exclusive /\ Settings /\ PoolClean /\ Told /\ AnswersAreTrue

-----------------------------------------------------------------------------
(* The pool: one lemma for each step *)

\* A call that holds a connection: its rows are of their types.
LEMMA Rows ==
  ASSUME PoolInv, NEW f \in Flows, flows[f].at \notin {"idle", "connect"}
  PROVE  /\ flows[f] \in FlowRows /\ flows[f].conn \in Conns
         /\ conns[flows[f].conn] \in ConnRows /\ answer[f] \in Answers
  BY DEF PoolInv, PoolTypeOK, Holds, FlowRows

LEMMA MoveToType ==
  ASSUME PoolTypeOK, NEW f \in Flows, NEW place \in {"begin", "set_config", "body", "commit", "rollback", "connect"},
         MoveTo(f, place)
  PROVE  flows' \in [Flows -> FlowRows]
<1>1. flows[f] \in FlowRows
  BY DEF PoolTypeOK
<1>2. [flows[f] EXCEPT !.at = place] \in FlowRows
  BY <1>1 DEF FlowRows
<1>3. flows' = [flows EXCEPT ![f] = [flows[f] EXCEPT !.at = place]]
  BY DEF MoveTo, PoolTypeOK
<1> QED BY <1>2, <1>3 DEF PoolTypeOK

LEMMA ConnType ==
  ASSUME PoolTypeOK, NEW c \in Conns, NEW row \in ConnRows, conns' = [conns EXCEPT ![c] = row]
  PROVE  conns' \in [Conns -> ConnRows]
  BY DEF PoolTypeOK

LEMMA AnswerType ==
  ASSUME PoolTypeOK, NEW f \in Flows, NEW row \in Answers, answer' = [answer EXCEPT ![f] = row]
  PROVE  answer' \in [Flows -> Answers]
  BY DEF PoolTypeOK

LEMMA OpenScopeKeeps ==
  ASSUME PoolInv, NEW f \in Flows, NEW t \in Scopes, OpenScope(f, t)
  PROVE  PoolInv'
<1>1. PoolTypeOK'
  BY PoolAssumption DEF PoolInv, PoolTypeOK, Scopes, ConnRows, FlowRows, Answers, Holds, Available, OpenScope, NoAnswer
<1>2. Holds'
  BY PoolAssumption DEF PoolInv, PoolTypeOK, Scopes, ConnRows, FlowRows, Answers, Holds, OpenScope, NoAnswer
<1>3. Exclusive'
  BY PoolAssumption DEF PoolInv, PoolTypeOK, Scopes, ConnRows, FlowRows, Answers, Holds, Exclusive, Available, OpenScope, NoAnswer
<1>4. Settings'
  BY PoolAssumption DEF PoolInv, PoolTypeOK, Scopes, ConnRows, FlowRows, Answers, Holds, Exclusive, Settings, PoolClean, Available, OpenScope, NoAnswer
<1>5. PoolClean'
  BY PoolAssumption DEF PoolInv, PoolTypeOK, Scopes, ConnRows, FlowRows, Answers, Holds, Exclusive, Settings, PoolClean, Available, OpenScope, NoAnswer
<1>6. Told'
  BY PoolAssumption DEF PoolInv, PoolTypeOK, Scopes, ConnRows, FlowRows, Answers, Told, OpenScope, NoAnswer
<1>7. AnswersAreTrue'
  BY PoolAssumption DEF PoolInv, PoolTypeOK, Scopes, ConnRows, FlowRows, Answers, Told, AnswersAreTrue, Holds, Settings, OpenScope, NoAnswer
<1> QED BY <1>1, <1>2, <1>3, <1>4, <1>5, <1>6, <1>7 DEF PoolInv

LEMMA ConnectKeeps ==
  ASSUME PoolInv, NEW f \in Flows, NEW c \in Conns, Connect(f, c)
  PROVE  PoolInv'
<1>1. PoolTypeOK'
  BY PoolAssumption DEF PoolInv, PoolTypeOK, Scopes, ConnRows, FlowRows, Answers, Holds, Available, Connect
<1>2. Holds'
  BY PoolAssumption DEF PoolInv, PoolTypeOK, Scopes, ConnRows, FlowRows, Answers, Holds, Connect
<1>3. Exclusive'
  BY PoolAssumption DEF PoolInv, PoolTypeOK, Scopes, ConnRows, FlowRows, Answers, Holds, Exclusive, Available, Connect
<1>4. Settings'
  BY PoolAssumption DEF PoolInv, PoolTypeOK, Scopes, ConnRows, FlowRows, Answers, Holds, Exclusive, Settings, PoolClean, Available, Connect
<1>5. PoolClean'
  BY PoolAssumption DEF PoolInv, PoolTypeOK, Scopes, ConnRows, FlowRows, Answers, Holds, Exclusive, Settings, PoolClean, Available, Connect
<1>6. Told'
  BY PoolAssumption DEF PoolInv, PoolTypeOK, Scopes, ConnRows, FlowRows, Answers, Told, Connect
<1>7. AnswersAreTrue'
  BY PoolAssumption DEF PoolInv, PoolTypeOK, Scopes, ConnRows, FlowRows, Answers, Told, AnswersAreTrue, Holds, Settings, Connect
<1> QED BY <1>1, <1>2, <1>3, <1>4, <1>5, <1>6, <1>7 DEF PoolInv

LEMMA ConnectTimeoutKeeps ==
  ASSUME PoolInv, NEW f \in Flows, ConnectTimeout(f)
  PROVE  PoolInv'
<1>1. PoolTypeOK'
  BY PoolAssumption DEF PoolInv, PoolTypeOK, Scopes, ConnRows, FlowRows, Answers, Holds, Available, ConnectTimeout, NoScope
<1>2. Holds'
  BY PoolAssumption DEF PoolInv, PoolTypeOK, Scopes, ConnRows, FlowRows, Answers, Holds, ConnectTimeout, NoScope
<1>3. Exclusive'
  BY PoolAssumption DEF PoolInv, PoolTypeOK, Scopes, ConnRows, FlowRows, Answers, Holds, Exclusive, Available, ConnectTimeout, NoScope
<1>4. Settings'
  BY PoolAssumption DEF PoolInv, PoolTypeOK, Scopes, ConnRows, FlowRows, Answers, Holds, Exclusive, Settings, PoolClean, Available, ConnectTimeout, NoScope
<1>5. PoolClean'
  BY PoolAssumption DEF PoolInv, PoolTypeOK, Scopes, ConnRows, FlowRows, Answers, Holds, Exclusive, Settings, PoolClean, Available, ConnectTimeout, NoScope
<1>6. Told'
  BY PoolAssumption DEF PoolInv, PoolTypeOK, Scopes, ConnRows, FlowRows, Answers, Told, ConnectTimeout, NoScope
<1>7. AnswersAreTrue'
  BY PoolAssumption DEF PoolInv, PoolTypeOK, Scopes, ConnRows, FlowRows, Answers, Told, AnswersAreTrue, Holds, Settings, ConnectTimeout, NoScope
<1> QED BY <1>1, <1>2, <1>3, <1>4, <1>5, <1>6, <1>7 DEF PoolInv

LEMMA BeginKeeps ==
  ASSUME PoolInv, NEW f \in Flows, Begin(f)
  PROVE  PoolInv'
<1>1. PoolTypeOK'
  <2>1. flows[f] \in FlowRows /\ flows[f].conn \in Conns /\ conns[flows[f].conn] \in ConnRows /\ answer[f] \in Answers
    BY Rows DEF Begin
  <2>2. flows' \in [Flows -> FlowRows]
    BY <2>1, MoveToType DEF PoolInv, Begin
  <2>3. conns' \in [Conns -> ConnRows]
    <3>1. [conns[flows[f].conn] EXCEPT !.tx = "open"] \in ConnRows
      BY <2>1 DEF ConnRows, Scopes
    <3>2. conns' = [conns EXCEPT ![flows[f].conn] = [conns[flows[f].conn] EXCEPT !.tx = "open"]]
      BY <2>1 DEF Begin, PoolInv, PoolTypeOK
    <3> QED BY <2>1, <3>1, <3>2, ConnType DEF PoolInv
  <2>4. answer' \in [Flows -> Answers]
    BY <2>1 DEF PoolInv, PoolTypeOK, ConnRows, FlowRows, Answers, Scopes, Begin
  <2> QED BY <2>2, <2>3, <2>4 DEF PoolTypeOK
<1>2. Holds'
  BY PoolAssumption DEF PoolInv, PoolTypeOK, Scopes, ConnRows, FlowRows, Answers, Holds, Begin, MoveTo
<1>3. Exclusive'
  BY PoolAssumption DEF PoolInv, PoolTypeOK, Scopes, ConnRows, FlowRows, Answers, Holds, Exclusive, Available, Begin, MoveTo
<1>4. Settings'
  BY PoolAssumption DEF PoolInv, PoolTypeOK, Scopes, ConnRows, FlowRows, Answers, Holds, Exclusive, Settings, PoolClean, Available, Begin, MoveTo
<1>5. PoolClean'
  BY PoolAssumption DEF PoolInv, PoolTypeOK, Scopes, ConnRows, FlowRows, Answers, Holds, Exclusive, Settings, PoolClean, Available, Begin, MoveTo
<1>6. Told'
  BY PoolAssumption DEF PoolInv, PoolTypeOK, Scopes, ConnRows, FlowRows, Answers, Told, Begin, MoveTo
<1>7. AnswersAreTrue'
  BY PoolAssumption DEF PoolInv, PoolTypeOK, Scopes, ConnRows, FlowRows, Answers, Told, AnswersAreTrue, Holds, Settings, Begin, MoveTo
<1> QED BY <1>1, <1>2, <1>3, <1>4, <1>5, <1>6, <1>7 DEF PoolInv

LEMMA SetTenantKeeps ==
  ASSUME PoolInv, NEW f \in Flows, SetTenant(f)
  PROVE  PoolInv'
<1>1. PoolTypeOK'
  <2>1. flows[f] \in FlowRows /\ flows[f].conn \in Conns /\ conns[flows[f].conn] \in ConnRows /\ answer[f] \in Answers
    BY Rows DEF SetTenant
  <2>2. flows' \in [Flows -> FlowRows]
    BY <2>1, MoveToType DEF PoolInv, SetTenant
  <2>3. conns' \in [Conns -> ConnRows]
    <3>1. [conns[flows[f].conn] EXCEPT !.setting = flows[f].tenantId] \in ConnRows
      BY <2>1 DEF ConnRows, FlowRows
    <3>2. conns' = [conns EXCEPT ![flows[f].conn] = [conns[flows[f].conn] EXCEPT !.setting = flows[f].tenantId]]
      BY <2>1 DEF SetTenant, PoolInv, PoolTypeOK
    <3> QED BY <2>1, <3>1, <3>2, ConnType DEF PoolInv
  <2>4. answer' \in [Flows -> Answers]
    BY <2>1 DEF PoolInv, PoolTypeOK, ConnRows, FlowRows, Answers, Scopes, SetTenant
  <2> QED BY <2>2, <2>3, <2>4 DEF PoolTypeOK
<1>2. Holds'
  BY PoolAssumption DEF PoolInv, PoolTypeOK, Scopes, ConnRows, FlowRows, Answers, Holds, SetTenant, MoveTo
<1>3. Exclusive'
  BY PoolAssumption DEF PoolInv, PoolTypeOK, Scopes, ConnRows, FlowRows, Answers, Holds, Exclusive, Available, SetTenant, MoveTo
<1>4. Settings'
  BY PoolAssumption DEF PoolInv, PoolTypeOK, Scopes, ConnRows, FlowRows, Answers, Holds, Exclusive, Settings, PoolClean, Available, SetTenant, MoveTo
<1>5. PoolClean'
  BY PoolAssumption DEF PoolInv, PoolTypeOK, Scopes, ConnRows, FlowRows, Answers, Holds, Exclusive, Settings, PoolClean, Available, SetTenant, MoveTo
<1>6. Told'
  BY PoolAssumption DEF PoolInv, PoolTypeOK, Scopes, ConnRows, FlowRows, Answers, Told, SetTenant, MoveTo
<1>7. AnswersAreTrue'
  BY PoolAssumption DEF PoolInv, PoolTypeOK, Scopes, ConnRows, FlowRows, Answers, Told, AnswersAreTrue, Holds, Settings, SetTenant, MoveTo
<1> QED BY <1>1, <1>2, <1>3, <1>4, <1>5, <1>6, <1>7 DEF PoolInv

LEMMA NestKeeps ==
  ASSUME PoolInv, NEW f \in Flows, NEW t \in Scopes, Nest(f, t)
  PROVE  PoolInv'
<1>1. PoolTypeOK'
  BY PoolAssumption DEF PoolInv, PoolTypeOK, Scopes, ConnRows, FlowRows, Answers, Holds, Available, Nest, Joins, MoveTo
<1>2. Holds'
  BY PoolAssumption DEF PoolInv, PoolTypeOK, Scopes, ConnRows, FlowRows, Answers, Holds, Nest, Joins, MoveTo
<1>3. Exclusive'
  BY PoolAssumption DEF PoolInv, PoolTypeOK, Scopes, ConnRows, FlowRows, Answers, Holds, Exclusive, Available, Nest, Joins, MoveTo
<1>4. Settings'
  BY PoolAssumption DEF PoolInv, PoolTypeOK, Scopes, ConnRows, FlowRows, Answers, Holds, Exclusive, Settings, PoolClean, Available, Nest, Joins, MoveTo
<1>5. PoolClean'
  BY PoolAssumption DEF PoolInv, PoolTypeOK, Scopes, ConnRows, FlowRows, Answers, Holds, Exclusive, Settings, PoolClean, Available, Nest, Joins, MoveTo
<1>6. Told'
  BY PoolAssumption DEF PoolInv, PoolTypeOK, Scopes, ConnRows, FlowRows, Answers, Told, Nest, Joins, MoveTo
<1>7. AnswersAreTrue'
  BY PoolAssumption DEF PoolInv, PoolTypeOK, Scopes, ConnRows, FlowRows, Answers, Told, AnswersAreTrue, Holds, Settings, Nest, Joins, MoveTo
<1> QED BY <1>1, <1>2, <1>3, <1>4, <1>5, <1>6, <1>7 DEF PoolInv

LEMMA ReturnKeeps ==
  ASSUME PoolInv, NEW f \in Flows, Return(f)
  PROVE  PoolInv'
<1>1. PoolTypeOK'
  <2>1. flows[f] \in FlowRows /\ flows[f].conn \in Conns /\ conns[flows[f].conn] \in ConnRows /\ answer[f] \in Answers
    BY Rows DEF Return
  <2>2. flows' \in [Flows -> FlowRows]
    BY <2>1, MoveToType DEF PoolInv, Return
  <2>3. conns' \in [Conns -> ConnRows]
    BY DEF PoolInv, PoolTypeOK, ConnRows, FlowRows, Answers, Scopes, Return
  <2>4. answer' \in [Flows -> Answers]
    BY <2>1 DEF PoolInv, PoolTypeOK, ConnRows, FlowRows, Answers, Scopes, Return
  <2> QED BY <2>2, <2>3, <2>4 DEF PoolTypeOK
<1>2. Holds'
  BY PoolAssumption DEF PoolInv, PoolTypeOK, Scopes, ConnRows, FlowRows, Answers, Holds, Return, MoveTo
<1>3. Exclusive'
  BY PoolAssumption DEF PoolInv, PoolTypeOK, Scopes, ConnRows, FlowRows, Answers, Holds, Exclusive, Available, Return, MoveTo
<1>4. Settings'
  BY PoolAssumption DEF PoolInv, PoolTypeOK, Scopes, ConnRows, FlowRows, Answers, Holds, Exclusive, Settings, PoolClean, Available, Return, MoveTo
<1>5. PoolClean'
  BY PoolAssumption DEF PoolInv, PoolTypeOK, Scopes, ConnRows, FlowRows, Answers, Holds, Exclusive, Settings, PoolClean, Available, Return, MoveTo
<1>6. Told'
  BY PoolAssumption DEF PoolInv, PoolTypeOK, Scopes, ConnRows, FlowRows, Answers, Told, Return, MoveTo
<1>7. AnswersAreTrue'
  BY PoolAssumption DEF PoolInv, PoolTypeOK, Scopes, ConnRows, FlowRows, Answers, Told, AnswersAreTrue, Holds, Settings, Return, MoveTo
<1> QED BY <1>1, <1>2, <1>3, <1>4, <1>5, <1>6, <1>7 DEF PoolInv

LEMMA ThrowKeeps ==
  ASSUME PoolInv, NEW f \in Flows, Throw(f)
  PROVE  PoolInv'
<1>1. PoolTypeOK'
  <2>1. flows[f] \in FlowRows /\ flows[f].conn \in Conns /\ conns[flows[f].conn] \in ConnRows /\ answer[f] \in Answers
    BY Rows DEF Throw
  <2>2. flows' \in [Flows -> FlowRows]
    BY <2>1, MoveToType DEF PoolInv, Throw
  <2>3. conns' \in [Conns -> ConnRows]
    <3>1. PICK tx \in {"open", "failed"} : conns' = [conns EXCEPT ![flows[f].conn].tx = tx]
      BY DEF Throw
    <3>2. [conns[flows[f].conn] EXCEPT !.tx = tx] \in ConnRows
      BY <2>1 DEF ConnRows
    <3>3. conns' = [conns EXCEPT ![flows[f].conn] = [conns[flows[f].conn] EXCEPT !.tx = tx]]
      BY <2>1, <3>1 DEF PoolInv, PoolTypeOK
    <3> QED BY <2>1, <3>2, <3>3, ConnType DEF PoolInv
  <2>4. answer' \in [Flows -> Answers]
    BY <2>1 DEF PoolInv, PoolTypeOK, ConnRows, FlowRows, Answers, Scopes, Throw
  <2> QED BY <2>2, <2>3, <2>4 DEF PoolTypeOK
<1>2. Holds'
  BY PoolAssumption DEF PoolInv, PoolTypeOK, Scopes, ConnRows, FlowRows, Answers, Holds, Throw, MoveTo
<1>3. Exclusive'
  BY PoolAssumption DEF PoolInv, PoolTypeOK, Scopes, ConnRows, FlowRows, Answers, Holds, Exclusive, Available, Throw, MoveTo
<1>4. Settings'
  BY PoolAssumption DEF PoolInv, PoolTypeOK, Scopes, ConnRows, FlowRows, Answers, Holds, Exclusive, Settings, PoolClean, Available, Throw, MoveTo
<1>5. PoolClean'
  BY PoolAssumption DEF PoolInv, PoolTypeOK, Scopes, ConnRows, FlowRows, Answers, Holds, Exclusive, Settings, PoolClean, Available, Throw, MoveTo
<1>6. Told'
  BY PoolAssumption DEF PoolInv, PoolTypeOK, Scopes, ConnRows, FlowRows, Answers, Told, Throw, MoveTo
<1>7. AnswersAreTrue'
  BY PoolAssumption DEF PoolInv, PoolTypeOK, Scopes, ConnRows, FlowRows, Answers, Told, AnswersAreTrue, Holds, Settings, Throw, MoveTo
<1> QED BY <1>1, <1>2, <1>3, <1>4, <1>5, <1>6, <1>7 DEF PoolInv

LEMMA CommitKeeps ==
  ASSUME PoolInv, NEW f \in Flows, Commit(f)
  PROVE  PoolInv'
<1>1. PoolTypeOK'
  <2>1. flows[f] \in FlowRows /\ flows[f].conn \in Conns /\ conns[flows[f].conn] \in ConnRows /\ answer[f] \in Answers
    BY Rows DEF Commit, NoScope
  <2>2. flows' \in [Flows -> FlowRows]
    BY <2>1, PoolAssumption DEF PoolInv, PoolTypeOK, ConnRows, FlowRows, Answers, Scopes, Commit, NoScope
  <2>3. conns' \in [Conns -> ConnRows]
    <3>1. EndTx(conns[flows[f].conn]) \in ConnRows
      BY <2>1 DEF ConnRows, Scopes, EndTx
    <3>2. conns' = [conns EXCEPT ![flows[f].conn] = EndTx(conns[flows[f].conn])]
      BY <2>1 DEF Commit, PoolInv, PoolTypeOK
    <3> QED BY <2>1, <3>1, <3>2, ConnType DEF PoolInv
  <2>4. answer' \in [Flows -> Answers]
    <3>1. [answer[f] EXCEPT !.told = "result", !.committed = (conns[flows[f].conn].tx = "open")] \in Answers
      BY <2>1 DEF Answers
    <3>2. answer' = [answer EXCEPT ![f] = [answer[f] EXCEPT !.told = "result", !.committed = (conns[flows[f].conn].tx = "open")]]
      BY DEF Commit, PoolInv, PoolTypeOK
    <3> QED BY <3>1, <3>2, AnswerType DEF PoolInv
  <2> QED BY <2>2, <2>3, <2>4 DEF PoolTypeOK
<1>2. Holds'
  BY PoolAssumption DEF PoolInv, PoolTypeOK, Scopes, ConnRows, FlowRows, Answers, Holds, Commit, EndTx, NoScope
<1>3. Exclusive'
  BY PoolAssumption DEF PoolInv, PoolTypeOK, Scopes, ConnRows, FlowRows, Answers, Holds, Exclusive, Available, Commit, EndTx, NoScope
<1>4. Settings'
  BY PoolAssumption DEF PoolInv, PoolTypeOK, Scopes, ConnRows, FlowRows, Answers, Holds, Exclusive, Settings, PoolClean, Available, Commit, EndTx, NoScope
<1>5. PoolClean'
  BY PoolAssumption DEF PoolInv, PoolTypeOK, Scopes, ConnRows, FlowRows, Answers, Holds, Exclusive, Settings, PoolClean, Available, Commit, EndTx, NoScope
<1>6. Told'
  BY PoolAssumption DEF PoolInv, PoolTypeOK, Scopes, ConnRows, FlowRows, Answers, Told, Commit, EndTx, NoScope
<1>7. AnswersAreTrue'
  BY PoolAssumption DEF PoolInv, PoolTypeOK, Scopes, ConnRows, FlowRows, Answers, Told, AnswersAreTrue, Holds, Settings, Commit, EndTx, NoScope
<1> QED BY <1>1, <1>2, <1>3, <1>4, <1>5, <1>6, <1>7 DEF PoolInv

LEMMA RefusedKeeps ==
  ASSUME PoolInv, NEW f \in Flows, Refused(f)
  PROVE  PoolInv'
<1>1. PoolTypeOK'
  <2>1. flows[f] \in FlowRows /\ flows[f].conn \in Conns /\ conns[flows[f].conn] \in ConnRows /\ answer[f] \in Answers
    BY Rows DEF Refused
  <2>2. flows' \in [Flows -> FlowRows]
    BY <2>1, MoveToType DEF PoolInv, Refused
  <2>3. conns' \in [Conns -> ConnRows]
    BY DEF PoolInv, PoolTypeOK, ConnRows, FlowRows, Answers, Scopes, Refused
  <2>4. answer' \in [Flows -> Answers]
    BY <2>1 DEF PoolInv, PoolTypeOK, ConnRows, FlowRows, Answers, Scopes, Refused
  <2> QED BY <2>2, <2>3, <2>4 DEF PoolTypeOK
<1>2. Holds'
  BY PoolAssumption DEF PoolInv, PoolTypeOK, Scopes, ConnRows, FlowRows, Answers, Holds, Refused, MoveTo
<1>3. Exclusive'
  BY PoolAssumption DEF PoolInv, PoolTypeOK, Scopes, ConnRows, FlowRows, Answers, Holds, Exclusive, Available, Refused, MoveTo
<1>4. Settings'
  BY PoolAssumption DEF PoolInv, PoolTypeOK, Scopes, ConnRows, FlowRows, Answers, Holds, Exclusive, Settings, PoolClean, Available, Refused, MoveTo
<1>5. PoolClean'
  BY PoolAssumption DEF PoolInv, PoolTypeOK, Scopes, ConnRows, FlowRows, Answers, Holds, Exclusive, Settings, PoolClean, Available, Refused, MoveTo
<1>6. Told'
  BY PoolAssumption DEF PoolInv, PoolTypeOK, Scopes, ConnRows, FlowRows, Answers, Told, Refused, MoveTo
<1>7. AnswersAreTrue'
  BY PoolAssumption DEF PoolInv, PoolTypeOK, Scopes, ConnRows, FlowRows, Answers, Told, AnswersAreTrue, Holds, Settings, Refused, MoveTo
<1> QED BY <1>1, <1>2, <1>3, <1>4, <1>5, <1>6, <1>7 DEF PoolInv

LEMMA RollbackKeeps ==
  ASSUME PoolInv, NEW f \in Flows, Rollback(f)
  PROVE  PoolInv'
<1>1. PoolTypeOK'
  <2>1. flows[f] \in FlowRows /\ flows[f].conn \in Conns /\ conns[flows[f].conn] \in ConnRows /\ answer[f] \in Answers
    BY Rows DEF Rollback, NoScope
  <2>2. flows' \in [Flows -> FlowRows]
    BY <2>1, PoolAssumption DEF PoolInv, PoolTypeOK, ConnRows, FlowRows, Answers, Scopes, Rollback, NoScope
  <2>3. conns' \in [Conns -> ConnRows]
    <3>1. EndTx(conns[flows[f].conn]) \in ConnRows
      BY <2>1 DEF ConnRows, Scopes, EndTx
    <3>2. conns' = [conns EXCEPT ![flows[f].conn] = EndTx(conns[flows[f].conn])]
      BY <2>1 DEF Rollback, PoolInv, PoolTypeOK
    <3> QED BY <2>1, <3>1, <3>2, ConnType DEF PoolInv
  <2>4. answer' \in [Flows -> Answers]
    BY <2>1 DEF PoolInv, PoolTypeOK, ConnRows, FlowRows, Answers, Scopes, Rollback, NoScope
  <2> QED BY <2>2, <2>3, <2>4 DEF PoolTypeOK
<1>2. Holds'
  BY PoolAssumption DEF PoolInv, PoolTypeOK, Scopes, ConnRows, FlowRows, Answers, Holds, Rollback, EndTx, NoScope
<1>3. Exclusive'
  BY PoolAssumption DEF PoolInv, PoolTypeOK, Scopes, ConnRows, FlowRows, Answers, Holds, Exclusive, Available, Rollback, EndTx, NoScope
<1>4. Settings'
  BY PoolAssumption DEF PoolInv, PoolTypeOK, Scopes, ConnRows, FlowRows, Answers, Holds, Exclusive, Settings, PoolClean, Available, Rollback, EndTx, NoScope
<1>5. PoolClean'
  BY PoolAssumption DEF PoolInv, PoolTypeOK, Scopes, ConnRows, FlowRows, Answers, Holds, Exclusive, Settings, PoolClean, Available, Rollback, EndTx, NoScope
<1>6. Told'
  BY PoolAssumption DEF PoolInv, PoolTypeOK, Scopes, ConnRows, FlowRows, Answers, Told, Rollback, EndTx, NoScope
<1>7. AnswersAreTrue'
  BY PoolAssumption DEF PoolInv, PoolTypeOK, Scopes, ConnRows, FlowRows, Answers, Told, AnswersAreTrue, Holds, Settings, Rollback, EndTx, NoScope
<1> QED BY <1>1, <1>2, <1>3, <1>4, <1>5, <1>6, <1>7 DEF PoolInv

LEMMA CutConnectionKeeps ==
  ASSUME PoolInv, NEW f \in Flows, CutConnection(f)
  PROVE  PoolInv'
<1>1. PoolTypeOK'
  <2>1. flows[f] \in FlowRows /\ flows[f].conn \in Conns /\ conns[flows[f].conn] \in ConnRows /\ answer[f] \in Answers
    BY Rows DEF CutConnection
  <2>2. flows' \in [Flows -> FlowRows]
    BY <2>1, MoveToType DEF PoolInv, CutConnection
  <2>3. conns' \in [Conns -> ConnRows]
    <3>1. [conns[flows[f].conn] EXCEPT !.open = FALSE] \in ConnRows
      BY <2>1 DEF ConnRows, Scopes
    <3>2. conns' = [conns EXCEPT ![flows[f].conn] = [conns[flows[f].conn] EXCEPT !.open = FALSE]]
      BY <2>1 DEF CutConnection, PoolInv, PoolTypeOK
    <3> QED BY <2>1, <3>1, <3>2, ConnType DEF PoolInv
  <2>4. answer' \in [Flows -> Answers]
    <3>1. PICK through \in BOOLEAN : answer' = [answer EXCEPT ![f].cut = TRUE, ![f].committed = through]
      BY DEF CutConnection
    <3>2. [answer[f] EXCEPT !.cut = TRUE, !.committed = through] \in Answers
      BY <2>1 DEF Answers
    <3>3. answer' = [answer EXCEPT ![f] = [answer[f] EXCEPT !.cut = TRUE, !.committed = through]]
      BY <2>1, <3>1 DEF PoolInv, PoolTypeOK
    <3> QED BY <3>2, <3>3, AnswerType DEF PoolInv
  <2> QED BY <2>2, <2>3, <2>4 DEF PoolTypeOK
<1>2. Holds'
  BY PoolAssumption DEF PoolInv, PoolTypeOK, Scopes, ConnRows, FlowRows, Answers, Holds, CutConnection, MoveTo
<1>3. Exclusive'
  BY PoolAssumption DEF PoolInv, PoolTypeOK, Scopes, ConnRows, FlowRows, Answers, Holds, Exclusive, Available, CutConnection, MoveTo
<1>4. Settings'
  BY PoolAssumption DEF PoolInv, PoolTypeOK, Scopes, ConnRows, FlowRows, Answers, Holds, Exclusive, Settings, PoolClean, Available, CutConnection, MoveTo
<1>5. PoolClean'
  BY PoolAssumption DEF PoolInv, PoolTypeOK, Scopes, ConnRows, FlowRows, Answers, Holds, Exclusive, Settings, PoolClean, Available, CutConnection, MoveTo
<1>6. Told'
  BY PoolAssumption DEF PoolInv, PoolTypeOK, Scopes, ConnRows, FlowRows, Answers, Told, CutConnection, MoveTo
<1>7. AnswersAreTrue'
  BY PoolAssumption DEF PoolInv, PoolTypeOK, Scopes, ConnRows, FlowRows, Answers, Told, AnswersAreTrue, Holds, Settings, CutConnection, MoveTo
<1> QED BY <1>1, <1>2, <1>3, <1>4, <1>5, <1>6, <1>7 DEF PoolInv

LEMMA RollbackFailsKeeps ==
  ASSUME PoolInv, NEW f \in Flows, RollbackFails(f)
  PROVE  PoolInv'
<1>1. PoolTypeOK'
  BY PoolAssumption DEF PoolInv, PoolTypeOK, Scopes, ConnRows, FlowRows, Answers, Holds, Available, RollbackFails, Destroy, Closed, NoScope
<1>2. Holds'
  BY PoolAssumption DEF PoolInv, PoolTypeOK, Scopes, ConnRows, FlowRows, Answers, Holds, RollbackFails, Destroy, Closed, NoScope
<1>3. Exclusive'
  BY PoolAssumption DEF PoolInv, PoolTypeOK, Scopes, ConnRows, FlowRows, Answers, Holds, Exclusive, Available, RollbackFails, Destroy, Closed, NoScope
<1>4. Settings'
  BY PoolAssumption DEF PoolInv, PoolTypeOK, Scopes, ConnRows, FlowRows, Answers, Holds, Exclusive, Settings, PoolClean, Available, RollbackFails, Destroy, Closed, NoScope
<1>5. PoolClean'
  BY PoolAssumption DEF PoolInv, PoolTypeOK, Scopes, ConnRows, FlowRows, Answers, Holds, Exclusive, Settings, PoolClean, Available, RollbackFails, Destroy, Closed, NoScope
<1>6. Told'
  BY PoolAssumption DEF PoolInv, PoolTypeOK, Scopes, ConnRows, FlowRows, Answers, Told, RollbackFails, Destroy, Closed, NoScope
<1>7. AnswersAreTrue'
  BY PoolAssumption DEF PoolInv, PoolTypeOK, Scopes, ConnRows, FlowRows, Answers, Told, AnswersAreTrue, Holds, Settings, RollbackFails, Destroy, Closed, NoScope
<1> QED BY <1>1, <1>2, <1>3, <1>4, <1>5, <1>6, <1>7 DEF PoolInv

LEMMA PoolStep == PoolInv /\ [PoolNext]_poolVars => PoolInv'
<1> SUFFICES ASSUME PoolInv, [PoolNext]_poolVars PROVE PoolInv'
  OBVIOUS
<1>1. ASSUME UNCHANGED poolVars PROVE PoolInv'
  BY <1>1 DEF poolVars, PoolInv, PoolTypeOK, Holds, Exclusive, Settings, PoolClean, Told, AnswersAreTrue, Scopes, ConnRows, FlowRows, Answers, Available
<1>2. ASSUME PoolNext PROVE PoolInv'
  BY <1>2, OpenScopeKeeps, ConnectKeeps, ConnectTimeoutKeeps, BeginKeeps, SetTenantKeeps, NestKeeps, ReturnKeeps, ThrowKeeps, CommitKeeps, RefusedKeeps, RollbackKeeps, CutConnectionKeeps, RollbackFailsKeeps DEF PoolNext
<1> QED BY <1>1, <1>2

LEMMA PoolStart == PoolInit => PoolInv
  BY PoolAssumption DEF PoolInit, Closed, NoScope, NoAnswer, PoolInv, PoolTypeOK, Holds, Exclusive, Settings, PoolClean, Told, AnswersAreTrue, Scopes, ConnRows, FlowRows, Answers, Available

\* Whatever breaks, a connection nobody holds has no transaction open and no
\* tenant set; who runs sees exactly the tenant of its scope, on a connection
\* of its own; who waits for a connection holds none; and no caller is told of
\* a result that was not committed.
THEOREM PoolIsSafe == PoolSpec => []UnitOfWork
<1>1. PoolInv => UnitOfWork
  BY PoolAssumption DEF UnitOfWork, ScopeSeesItsTenant, NoHoldAndWait, PoolInv, PoolTypeOK, Holds, Exclusive, Settings, PoolClean, Told, AnswersAreTrue, Scopes, ConnRows, FlowRows, Answers, Available
<1> QED BY <1>1, PoolStart, PoolStep, PTL DEF PoolSpec

\* Every variable of the pool keeps its type.
THEOREM PoolTypes == PoolSpec => []PoolTypeOK
<1>1. PoolInv => PoolTypeOK
  BY DEF PoolInv
<1> QED BY <1>1, PoolStart, PoolStep, PTL DEF PoolSpec

-----------------------------------------------------------------------------
(* The parts of the server side by side *)

ServerInv == AccountsInv /\ PoolInv /\ TraceInv

LEMMA ServerStart == ServerInit => ServerInv
  BY AccountsStart, PoolStart, TraceInvStarts DEF ServerInit, TracesStart, ServerInv

LEMMA ServerStep == ServerInv /\ [ServerNext]_serverVars => ServerInv'
<1> SUFFICES ASSUME ServerInv, [ServerNext]_serverVars PROVE ServerInv'
  OBVIOUS
<1>1. [AccountsNext]_accountsVars /\ [PoolNext]_poolVars /\ [Next]_vars
  BY DEF ServerNext, serverVars
<1> QED BY <1>1, AccountsStep, PoolStep, TracesKept DEF ServerInv

\* Every part of the server keeps its types, in its own steps and in the
\* others': accounts and invitations, the pool's flows and connections, the
\* ledger and the trace requests.
THEOREM ServerKeepsTypes == ServerSpec => []ServerTypeOK
<1>1. ServerInv => ServerTypeOK
  BY DEF ServerInv, AccountsInv, PoolInv, TraceInv, ServerTypeOK
<1> QED BY <1>1, ServerStart, ServerStep, PTL DEF ServerSpec

=============================================================================
