------------------------------ MODULE Accounts ------------------------------
(***************************************************************************)
(* How accounts come to exist and who governs them: provisioning, sign-up  *)
(* by founding a workspace, sign-up by invitation, and the administrator's *)
(* operations (backend/src/services/authService.ts, adminService.ts and    *)
(* their repositories over PostgreSQL).                                    *)
(*                                                                         *)
(* Every operation looks first, in statements of its own, then hashes a    *)
(* password or hands over to the handler, then writes in ONE transaction   *)
(* whose unique indexes and row locks decide.  The model has an action per *)
(* look and one per transaction; between them anything may happen.         *)
(***************************************************************************)
EXTENDS Domain, FiniteSets

CONSTANTS Calls,      \* requests served at once
          Ids,        \* account ids, uuidv4
          Emails,     \* e-mail addresses, up to case
          AnyEmail,   \* an invitation not bound to an address
          Slugs,      \* workspace slugs
          Codes,      \* invite codes, up to case and dashes
          Nobody,     \* a NULL account reference
          OfferedRoles,  \* roles the run's requests name
          Kinds       \* operations the run's requests are

ASSUME AccountsAssumption ==
  /\ AnyEmail \notin Emails
  /\ Nobody \notin Ids
  /\ OfferedRoles \subseteq Roles

VARIABLES
  tenants,      \* table tenants: the slugs taken
  accounts,     \* table actors, with the ACTOR_REGISTERED entry of each
  invitations,  \* table invitations, by code
  calls,        \* the requests being served
  crossed       \* history: tenants where an operation ran on behalf of an
                \* administrator who had meanwhile been deactivated or demoted

accountsVars == <<tenants, accounts, invitations, calls, crossed>>

Founding == "new_workspace"     \* metadata.via of the audit entry
Granting == "operator"          \* no via: provisionActor

Vias == {Founding, Granting} \cup Codes

ASSUME ViasAssumption == Founding \notin Codes /\ Granting \notin Codes

AccountRows == [email: Emails, tenant: Slugs, role: Roles, isActive: BOOLEAN,
                via: Vias, granted: Roles]

InvitationRows == [tenant: Slugs, role: Roles, email: Emails \cup {AnyEmail},
                   expired: BOOLEAN, revoked: BOOLEAN, usedBy: Ids \cup {Nobody}]

AdminOps == {"invite", "revoke", "status", "role"}

Places == {"idle", "ws_slug", "ws_tx", "join_preview", "join_tx",
           "prov_find", "prov_tx"} \cup AdminOps

CallRows == [at: Places, email: Emails \cup {AnyEmail}, slug: Slugs \cup {Nobody},
             code: Codes \cup {Nobody}, by: Ids \cup {Nobody}, target: Ids \cup {Nobody},
             role: Roles, active: BOOLEAN, known: BOOLEAN, retried: BOOLEAN]

NoCall == [at |-> "idle", email |-> AnyEmail, slug |-> Nobody, code |-> Nobody,
           by |-> Nobody, target |-> Nobody, role |-> "ADMIN", active |-> FALSE,
           known |-> FALSE, retried |-> FALSE]

AccountsTypeOK ==
  /\ tenants \subseteq Slugs
  /\ DOMAIN accounts \subseteq Ids
  /\ accounts \in [DOMAIN accounts -> AccountRows]
  /\ DOMAIN invitations \subseteq Codes
  /\ invitations \in [DOMAIN invitations -> InvitationRows]
  /\ calls \in [Calls -> CallRows]
  /\ crossed \subseteq Slugs

-----------------------------------------------------------------------------
(* What the statements see *)

\* lookupByEmail finds somebody; the unique index on lower(email) refuses.
EmailTaken(e) == \E a \in DOMAIN accounts : accounts[a].email = e

\* Mutant of Redeemable: a revoked code still redeems.
RedeemableIfRevoked(c) == invitations[c].usedBy = Nobody /\ ~invitations[c].expired

\* used_at, revoked_at and expires_at all leave the code open.
Redeemable(c) ==
  /\ invitations[c].usedBy = Nobody
  /\ ~invitations[c].revoked
  /\ ~invitations[c].expired

\* preview.email is unset or the registrant's.
MeantFor(c, e) == invitations[c].email \in {AnyEmail, e}

\* The actor authenticate() returns and requireRole('ADMIN') lets through.
IsAdmin(a) == a \in DOMAIN accounts /\ accounts[a].isActive /\ accounts[a].role = "ADMIN"

FreshId == CHOOSE a \in Ids : a \notin DOMAIN accounts

\* Mutant of Row: the wrong argument is kept.
RowOfAddress(e, t, role, via) ==
  [email |-> e, tenant |-> t, role |-> role, isActive |-> TRUE, via |-> e, granted |-> role]

\* The account and the metadata of its audit entry.
Row(e, t, role, via) ==
  [email |-> e, tenant |-> t, role |-> role, isActive |-> TRUE,
   via |-> via, granted |-> role]

-----------------------------------------------------------------------------
(* Writes *)

Goto(r, place) == calls' = [calls EXCEPT ![r].at = place]
Finish(r)      == calls' = [calls EXCEPT ![r] = NoCall]

\* Mutant of InsertActor: only the first look asks for the address.
InsertActorUnchecked(e, t, role, via) ==
  /\ DOMAIN accounts # Ids
  /\ accounts' = [a \in DOMAIN accounts \cup {FreshId} |->
                    IF a = FreshId THEN Row(e, t, role, via) ELSE accounts[a]]

\* insertActor: the row and its audit entry, or ConflictError and ROLLBACK.
InsertActor(e, t, role, via) ==
  /\ ~EmailTaken(e)
  /\ DOMAIN accounts # Ids
  /\ accounts' = [a \in DOMAIN accounts \cup {FreshId} |->
                    IF a = FreshId THEN Row(e, t, role, via) ELSE accounts[a]]

\* Mutant of InsertTenant: ON CONFLICT DO NOTHING taken for success.
InsertTenantOrJoin(s) == tenants' = tenants \cup {s}

\* insertIfAbsent: somebody else's row is left alone and reported as null.
InsertTenant(s) == s \notin tenants /\ tenants' = tenants \cup {s}

\* Mutant of MarkUsed: the code is revoked as well.
MarkRevoked(c, a) == invitations' = [invitations EXCEPT ![c].usedBy = a, ![c].revoked = TRUE]

\* UPDATE invitations SET used_at, used_by.
MarkUsed(c, a) == invitations' = [invitations EXCEPT ![c].usedBy = a]

-----------------------------------------------------------------------------
(* Sign-up and provisioning *)

\* assertEmailAvailable lets the request in.
Arrive(r, kind, row) ==
  /\ kind \in Kinds
  /\ calls[r] = NoCall
  /\ calls' = [calls EXCEPT ![r] = row]
  /\ UNCHANGED <<tenants, accounts, invitations, crossed>>

AskWorkspace(r, e, s) ==
  /\ ~EmailTaken(e)
  /\ Arrive(r, "workspace", [NoCall EXCEPT !.at = "ws_slug", !.email = e, !.slug = s])

AskJoin(r, e, c) ==
  /\ ~EmailTaken(e)
  /\ Arrive(r, "join", [NoCall EXCEPT !.at = "join_preview", !.email = e, !.code = c])

AskProvision(r, e, s, role) ==
  /\ ~EmailTaken(e)
  /\ Arrive(r, "provision", [NoCall EXCEPT !.at = "prov_find", !.email = e, !.slug = s, !.role = role])

\* registerWorkspace looks the slug up.
FindSlug(r) ==
  /\ calls[r].at = "ws_slug"
  /\ IF calls[r].slug \in tenants THEN Finish(r) ELSE Goto(r, "ws_tx")
  /\ UNCHANGED <<tenants, accounts, invitations, crossed>>

\* Its transaction: the tenant and its first account, both or neither.
FoundWorkspace(r) ==
  /\ calls[r].at = "ws_tx"
  /\ LET c == calls[r] IN
     /\ InsertTenant(c.slug)
     /\ InsertActor(c.email, c.slug, "ADMIN", Founding)
  /\ Finish(r)
  /\ UNCHANGED <<invitations, crossed>>

\* registerWithInvite previews the code, as GET /invitations/:code does.
PreviewInvitation(r) ==
  /\ calls[r].at = "join_preview"
  /\ LET c == calls[r].code IN
     IF c \in DOMAIN invitations /\ Redeemable(c) /\ MeantFor(c, calls[r].email)
     THEN Goto(r, "join_tx") ELSE Finish(r)
  /\ UNCHANGED <<tenants, accounts, invitations, crossed>>

\* Its transaction: the invitation is locked, checked again, and consumed
\* together with the insert of the account.
RedeemInvitation(r) ==
  /\ calls[r].at = "join_tx"
  /\ LET c == calls[r].code IN
     /\ Redeemable(c)
     /\ InsertActor(calls[r].email, invitations[c].tenant, invitations[c].role, c)
     /\ MarkUsed(c, FreshId)
  /\ Finish(r)
  /\ UNCHANGED <<tenants, crossed>>

\* provisionOnce finds the tenant, or not.
FindTenant(r) ==
  /\ calls[r].at = "prov_find"
  /\ calls' = [calls EXCEPT ![r].at = "prov_tx", ![r].known = calls[r].slug \in tenants]
  /\ UNCHANGED <<tenants, accounts, invitations, crossed>>

\* Its transaction: a first account is the ADMIN whatever role was asked for.
Provision(r) ==
  /\ calls[r].at = "prov_tx"
  /\ LET c == calls[r] IN
     \/ /\ c.known
        /\ InsertActor(c.email, c.slug, c.role, Granting)
        /\ UNCHANGED tenants
     \/ /\ ~c.known
        /\ InsertTenant(c.slug)
        /\ InsertActor(c.email, c.slug, "ADMIN", Founding)
  /\ Finish(r)
  /\ UNCHANGED <<invitations, crossed>>

\* Mutant of SlugRace: a race is taken where there is none.
SlugRaceAnyway(r) == ~calls[r].known

\* insertIfAbsent came back empty: TenantSlugRace.
SlugRace(r) == ~calls[r].known /\ calls[r].slug \in tenants

\* provisionActor tries once more, as a join.
RetryProvision(r) ==
  /\ calls[r].at = "prov_tx" /\ SlugRace(r) /\ ~calls[r].retried
  /\ calls' = [calls EXCEPT ![r].at = "prov_find", ![r].retried = TRUE]
  /\ UNCHANGED <<tenants, accounts, invitations, crossed>>

\* ConflictError and ROLLBACK, a lost connection or a dead process: what was
\* not committed is gone, and the client has no answer.
GiveUp(r) ==
  /\ calls[r].at # "idle"
  /\ Finish(r)
  /\ UNCHANGED <<tenants, accounts, invitations, crossed>>

\* expires_at passes.
Expire(c) ==
  /\ c \in DOMAIN invitations /\ ~invitations[c].expired
  /\ invitations' = [invitations EXCEPT ![c].expired = TRUE]
  /\ UNCHANGED <<tenants, accounts, calls, crossed>>

-----------------------------------------------------------------------------
(* The administrator's operations *)

\* requireAuth and requireRole read the account; the handler acts later on
\* that copy.
AskAdmin(r, a, op, row) ==
  /\ IsAdmin(a)
  /\ Arrive(r, op, [row EXCEPT !.at = op, !.by = a])

AskInvite(r, a, e, role) == AskAdmin(r, a, "invite", [NoCall EXCEPT !.email = e, !.role = role])
AskRevoke(r, a, c)       == AskAdmin(r, a, "revoke", [NoCall EXCEPT !.code = c])
AskStatus(r, a, b, on)   == AskAdmin(r, a, "status", [NoCall EXCEPT !.target = b, !.active = on])
AskRole(r, a, b, role)   == AskAdmin(r, a, "role", [NoCall EXCEPT !.target = b, !.role = role])

Home(r) == accounts[calls[r].by].tenant

\* The handler runs for an actor who is no administrator any more.
NoteCrossing(r) ==
  crossed' = IF IsAdmin(calls[r].by) THEN crossed ELSE crossed \cup {Home(r)}

CreateInvitation(r) ==
  /\ calls[r].at = "invite"
  /\ \E c \in Codes \ DOMAIN invitations :
       invitations' = [d \in DOMAIN invitations \cup {c} |->
         IF d = c THEN [tenant |-> Home(r), role |-> calls[r].role, email |-> calls[r].email,
                        expired |-> FALSE, revoked |-> FALSE, usedBy |-> Nobody]
         ELSE invitations[d]]
  /\ NoteCrossing(r)
  /\ Finish(r)
  /\ UNCHANGED <<tenants, accounts>>

\* revoke: used and revoked invitations are left alone; an expired one is not.
Revocable(c) == invitations[c].usedBy = Nobody /\ ~invitations[c].revoked

RevokeInvitation(r) ==
  /\ calls[r].at = "revoke"
  /\ LET c == calls[r].code IN
     /\ c \in DOMAIN invitations /\ invitations[c].tenant = Home(r) /\ Revocable(c)
     /\ invitations' = [invitations EXCEPT ![c].revoked = TRUE]
  /\ NoteCrossing(r)
  /\ Finish(r)
  /\ UNCHANGED <<tenants, accounts>>

\* The row the update reaches: row-level security hides other tenants.
Target(r) == {b \in DOMAIN accounts : b = calls[r].target /\ accounts[b].tenant = Home(r)}

\* Mutant of NotSelf: an administrator may switch off or demote themselves.
NotSelfAnyway(r) == TRUE

\* "Cannot deactivate your own account", "Cannot change your own role".
NotSelf(r) == calls[r].target # calls[r].by

SetActorStatus(r) ==
  /\ calls[r].at = "status"
  /\ calls[r].active \/ NotSelf(r)
  /\ \E b \in Target(r) : accounts' = [accounts EXCEPT ![b].isActive = calls[r].active]
  /\ NoteCrossing(r)
  /\ Finish(r)
  /\ UNCHANGED <<tenants, invitations>>

SetActorRole(r) ==
  /\ calls[r].at = "role"
  /\ NotSelf(r)
  /\ \E b \in Target(r) : accounts' = [accounts EXCEPT ![b].role = calls[r].role]
  /\ NoteCrossing(r)
  /\ Finish(r)
  /\ UNCHANGED <<tenants, invitations>>

-----------------------------------------------------------------------------
AccountsInit ==
  /\ tenants = {}
  /\ accounts = [a \in {} |-> a]
  /\ invitations = [c \in {} |-> c]
  /\ calls = [r \in Calls |-> NoCall]
  /\ crossed = {}

Ask(r) ==
  \/ \E e \in Emails :
       \/ \E s \in Slugs : AskWorkspace(r, e, s)
       \/ \E c \in Codes : AskJoin(r, e, c)
       \/ \E s \in Slugs, role \in OfferedRoles : AskProvision(r, e, s, role)
  \/ \E a \in DOMAIN accounts :
       \/ \E e \in Emails \cup {AnyEmail}, role \in OfferedRoles : AskInvite(r, a, e, role)
       \/ \E c \in Codes : AskRevoke(r, a, c)
       \/ \E b \in DOMAIN accounts, on \in BOOLEAN : AskStatus(r, a, b, on)
       \/ \E b \in DOMAIN accounts, role \in OfferedRoles : AskRole(r, a, b, role)

Serve(r) ==
  \/ FindSlug(r)   \/ FoundWorkspace(r)
  \/ PreviewInvitation(r) \/ RedeemInvitation(r)
  \/ FindTenant(r) \/ Provision(r) \/ RetryProvision(r)
  \/ CreateInvitation(r) \/ RevokeInvitation(r)
  \/ SetActorStatus(r) \/ SetActorRole(r)
  \/ GiveUp(r)

AccountsNext ==
  \/ \E r \in Calls : Ask(r) \/ Serve(r)
  \/ \E c \in Codes : Expire(c)

AccountsSpec == AccountsInit /\ [][AccountsNext]_accountsVars

-----------------------------------------------------------------------------
(* Properties *)

\* Every workspace was founded exactly once, every account belongs to one,
\* and nobody founded a workspace that does not exist: registerWorkspace and
\* provisionActor may race for a slug and an e-mail, with a password hash
\* between the look and the insert.
FoundedOnce ==
  /\ \A a \in DOMAIN accounts : accounts[a].tenant \in tenants
  /\ \A s \in tenants :
       \E a \in DOMAIN accounts :
         /\ accounts[a].tenant = s /\ accounts[a].via = Founding
         /\ \A b \in DOMAIN accounts :
              accounts[b].tenant = s /\ accounts[b].via = Founding => b = a

\* No two accounts share an e-mail address, though each path looks first and
\* inserts later.
OneAccountPerEmail ==
  \A a, b \in DOMAIN accounts : accounts[a].email = accounts[b].email => a = b

\* "One code, exactly one account" (registerWithInvite): an account that
\* joined by a code is the one the invitation names, in its tenant, with the
\* role and for the address it was issued for; and a consumed invitation has
\* such an account and was not revoked.
MembershipIsGranted ==
  /\ \A a \in DOMAIN accounts : accounts[a].via \in Codes =>
       LET c == accounts[a].via IN
       /\ c \in DOMAIN invitations
       /\ invitations[c].usedBy = a
       /\ invitations[c].tenant = accounts[a].tenant
       /\ invitations[c].role = accounts[a].granted
       /\ invitations[c].email \in {AnyEmail, accounts[a].email}
  /\ \A c \in DOMAIN invitations : invitations[c].usedBy # Nobody =>
       /\ invitations[c].usedBy \in DOMAIN accounts
       /\ accounts[invitations[c].usedBy].via = c
       /\ ~invitations[c].revoked

\* A provisioning that has been retried finds its tenant: one retry of
\* TenantSlugRace is enough, however many replicas seed at once.
OneRetryIsEnough ==
  \A r \in Calls : calls[r].retried => calls[r].slug \in tenants

\* A workspace is without an active administrator only where an operation ran
\* on behalf of somebody who had stopped being one while it was under way.
AdminLostOnlyByCrossing ==
  \A s \in tenants \ crossed :
    \E a \in DOMAIN accounts : accounts[a].tenant = s /\ IsAdmin(a)

\* "every tenant needs at least one admin" (provisionActor).
EveryTenantHasAdmin ==
  \A s \in tenants : \E a \in DOMAIN accounts : accounts[a].tenant = s /\ IsAdmin(a)

\* A code that was revoked or has expired before is never consumed: the
\* transaction looks again under the row lock, after the preview and the
\* password hash.
OnlyOpenInvitations ==
  [][\A c \in DOMAIN invitations :
       invitations[c].revoked \/ invitations[c].expired
         => invitations'[c].usedBy = invitations[c].usedBy]_accountsVars

\* Whatever races for a slug or an address, one wins, and the others fail or,
\* provisioning once more, find what the winner has made.
NoNameTwice == FoundedOnce /\ OneAccountPerEmail /\ OneRetryIsEnough
=============================================================================
