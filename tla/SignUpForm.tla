----------------------------- MODULE SignUpForm -----------------------------
(***************************************************************************)
(* The sign-up page (frontend/src/pages/Register.tsx), in one browser tab, *)
(* over previewInvitation, registerWithInvite and registerWorkspace, each  *)
(* in one step (their statements are the matter of Accounts).  Checks of   *)
(* invitation codes are asynchronous, not cancelled, and may answer in any *)
(* order while the person goes on typing.                                  *)
(***************************************************************************)
EXTENDS Naturals

CONSTANTS InviteCodes, NoCode,
          Addresses, NoAddress,
          MaxChecks,     \* bound: checks of a code
          MaxSubmits,    \* bound: submissions of the form
          MaxHitches     \* bound: requests that fail, codes used or run out elsewhere

ASSUME SignUpAssumption ==
  /\ NoCode \notin InviteCodes /\ NoAddress \notin Addresses
  /\ MaxChecks \in Nat \ {0} /\ MaxSubmits \in Nat /\ MaxHitches \in Nat

VARIABLES invites,      \* per code: whether it is open, and for whom
          registered,   \* addresses with an account
          form,         \* what the page shows
          checks,       \* checks under way
          signups,      \* submissions under way
          checked, submitted, hitches,
          joined,       \* history: per account made by invitation, the code used and the code shown
          late,         \* history: the code in the field, and another whose preview came over it
          mismatched    \* history: the address of the preview was refused

signUpVars == <<invites, registered, form, checks, signups, checked, submitted, hitches, joined, late, mismatched>>

InviteRows == [open: BOOLEAN, address: Addresses \cup {NoAddress}]

\* code: the code typed; shown: the code of the preview; filled: name,
\* organization and password are typed.
FormRows == [mode: {"invite", "workspace"}, code: InviteCodes \cup {NoCode},
             shown: InviteCodes \cup {NoCode}, bound: Addresses \cup {NoAddress},
             address: Addresses \cup {NoAddress}, filled: BOOLEAN,
             checking: BOOLEAN, loading: BOOLEAN,
             error: {"none", "invalid", "rejected", "failed"}, left: BOOLEAN]

CheckRows == [n: Nat, code: InviteCodes, bound: Addresses \cup {NoAddress}, answer: {"none", "ok", "bad"}]

SignUpRows == [n: Nat, mode: {"invite", "workspace"}, code: InviteCodes \cup {NoCode},
               shown: InviteCodes \cup {NoCode}, address: Addresses \cup {NoAddress}, filled: BOOLEAN,
               step: {"register", "login"}, answer: {"none", "ok", "rejected", "failed"}]

SignUpTypeOK ==
  /\ invites \in [InviteCodes -> InviteRows] /\ registered \subseteq Addresses
  /\ form \in FormRows /\ (form.bound # NoAddress => form.shown # NoCode /\ form.address = form.bound)
  /\ checks \subseteq CheckRows /\ signups \subseteq SignUpRows
  /\ checked \in 0..MaxChecks /\ submitted \in 0..MaxSubmits /\ hitches \in 0..MaxHitches
  /\ joined \subseteq InviteCodes \X (InviteCodes \cup {NoCode})
  /\ late \subseteq (InviteCodes \cup {NoCode}) \X InviteCodes /\ mismatched \in BOOLEAN

-----------------------------------------------------------------------------
(* The person at the form *)

AtForm == ~form.left
Edits(f) == form' = f /\ UNCHANGED <<invites, registered, checks, signups, checked, submitted, hitches, joined, late, mismatched>>

\* Mutant of CodeTyped: the preview of the former code stays.
CodeTypedKeeps(c) == [form EXCEPT !.code = c]

\* onChange of the code: the preview goes at once.
CodeTyped(c) == [form EXCEPT !.code = c, !.shown = NoCode, !.bound = NoAddress]

TypeCode ==
  /\ AtForm /\ form.mode = "invite"
  /\ \E c \in InviteCodes \ {form.code} : Edits(CodeTyped(c))

\* checkInvite: from the button, on blur, or at once for a code from the link.
Check(c) ==
  /\ checked < MaxChecks
  /\ checked' = checked + 1
  /\ checks' = checks \cup {[n |-> checked + 1, code |-> c, bound |-> NoAddress, answer |-> "none"]}
  /\ form' = [form EXCEPT !.checking = TRUE, !.error = "none", !.shown = NoCode, !.bound = NoAddress]

\* Leaving the field checks the code, even while a check is under way.
LeaveCode ==
  /\ AtForm /\ form.mode = "invite" /\ form.code # NoCode /\ form.shown = NoCode
  /\ Check(form.code)
  /\ UNCHANGED <<invites, registered, signups, submitted, hitches, joined, late, mismatched>>

SwitchTab ==
  /\ AtForm
  /\ \E m \in {"invite", "workspace"} \ {form.mode} : Edits([form EXCEPT !.mode = m, !.error = "none"])

ShowAccountFields == form.mode = "workspace" \/ form.shown # NoCode

\* The address is read-only while the preview names one.
FillIn ==
  /\ AtForm /\ ShowAccountFields
  /\ \E a \in IF form.bound = NoAddress THEN Addresses ELSE {form.address} :
       Edits([form EXCEPT !.address = a, !.filled = TRUE])

\* With a preview, or for a workspace, there is a button, disabled while loading,
\* and the fields are required.  Without one the code is the form's only field,
\* and Enter submits whatever the other fields hold.
MaySubmit ==
  IF ShowAccountFields
  THEN ~form.loading /\ form.filled /\ form.address # NoAddress
  ELSE form.code # NoCode

HandleSubmit ==
  /\ AtForm /\ MaySubmit /\ submitted < MaxSubmits
  /\ submitted' = submitted + 1
  /\ signups' = signups \cup
       {[n |-> submitted + 1, mode |-> form.mode, code |-> IF form.mode = "invite" THEN form.code ELSE NoCode,
         shown |-> form.shown, address |-> form.address, filled |-> form.filled,
         step |-> "register", answer |-> "none"]}
  /\ form' = [form EXCEPT !.loading = TRUE, !.error = "none"]
  /\ UNCHANGED <<invites, registered, checks, checked, hitches, joined, late, mismatched>>

-----------------------------------------------------------------------------
(* The server *)

Hitch == hitches > 0 /\ hitches' = hitches - 1
CheckAnswered(q, r) == checks' = (checks \ {q}) \cup {r}
SignUpAnswered(q, a) == signups' = (signups \ {q}) \cup {[q EXCEPT !.answer = a]}

ServeCheck(q) ==
  /\ q.answer = "none"
  /\ CheckAnswered(q, IF invites[q.code].open
                      THEN [q EXCEPT !.answer = "ok", !.bound = invites[q.code].address]
                      ELSE [q EXCEPT !.answer = "bad"])
  /\ UNCHANGED <<invites, registered, form, signups, checked, submitted, hitches, joined, late, mismatched>>

WrongAddress(q) ==
  q.mode = "invite" /\ invites[q.code].address \notin {NoAddress, q.address}

\* What registerWithInvite and registerWorkspace turn down.
TurnedDown(q) ==
  \/ ~q.filled \/ q.address = NoAddress      \* the schema of the route
  \/ q.address \in registered
  \/ q.mode = "invite" /\ (~invites[q.code].open \/ WrongAddress(q))

ServeRegister(q) ==
  /\ q.step = "register" /\ q.answer = "none"
  /\ \/ /\ TurnedDown(q) /\ SignUpAnswered(q, "rejected")
        /\ mismatched' = (mismatched \/ (WrongAddress(q) /\ invites[q.code].open /\ q.shown # NoCode /\ q.shown = q.code))
        /\ UNCHANGED <<invites, registered, joined>>
     \/ /\ ~TurnedDown(q) /\ SignUpAnswered(q, "ok")
        /\ registered' = registered \cup {q.address}
        /\ IF q.mode = "invite"
           THEN invites' = [invites EXCEPT ![q.code].open = FALSE] /\ joined' = joined \cup {<<q.code, q.shown>>}
           ELSE UNCHANGED <<invites, joined>>
        /\ UNCHANGED mismatched
  /\ UNCHANGED <<form, checks, checked, submitted, hitches, late>>

ServeSignIn(q) ==
  /\ q.step = "login" /\ q.answer = "none" /\ SignUpAnswered(q, "ok")
  /\ UNCHANGED <<invites, registered, form, checks, checked, submitted, hitches, joined, late, mismatched>>

\* A request does not get there, or the answer not back.
FailSignUp(q) ==
  /\ q.answer \in {"none", "ok"} /\ Hitch /\ SignUpAnswered(q, "failed")
  /\ UNCHANGED <<invites, registered, form, checks, checked, submitted, joined, late, mismatched>>

FailCheck(q) ==
  /\ q.answer = "none" /\ Hitch /\ CheckAnswered(q, [q EXCEPT !.answer = "bad"])
  /\ UNCHANGED <<invites, registered, form, signups, checked, submitted, joined, late, mismatched>>

\* Somebody else redeems the code, an administrator revokes it, it runs out.
InviteGone ==
  /\ Hitch
  /\ \E c \in InviteCodes : invites[c].open /\ invites' = [invites EXCEPT ![c].open = FALSE]
  /\ UNCHANGED <<registered, form, checks, signups, checked, submitted, joined, late, mismatched>>

-----------------------------------------------------------------------------
(* Answers *)

\* Mutant of Previewed: the address typed before stays.
PreviewedOnly(q) == [form EXCEPT !.checking = FALSE, !.shown = q.code, !.bound = q.bound]

\* setPreview, and the address the invitation is for.
Previewed(q) ==
  [form EXCEPT !.checking = FALSE, !.shown = q.code, !.bound = q.bound,
               !.address = IF q.bound = NoAddress THEN @ ELSE q.bound]

HearCheck(q) ==
  /\ q.answer # "none"
  /\ checks' = checks \ {q}
  /\ form' = IF q.answer = "ok" THEN Previewed(q) ELSE [form EXCEPT !.checking = FALSE, !.error = "invalid"]
  /\ late' = IF q.answer = "ok" /\ q.code # form.code THEN late \cup {<<form.code, q.code>>} ELSE late
  /\ UNCHANGED <<invites, registered, signups, checked, submitted, hitches, joined, mismatched>>

\* Mutant of SignUpFailed: the button stays as it is.
SignUpFailedLoads(q) == [form EXCEPT !.error = q.answer]

SignUpFailed(q) == [form EXCEPT !.loading = FALSE, !.error = q.answer]

\* Registered, then logged in, then on to the dashboard; one catch for both.
HearSignUp(q) ==
  /\ q.answer # "none"
  /\ CASE q.answer # "ok" -> form' = SignUpFailed(q) /\ signups' = signups \ {q}
       [] q.answer = "ok" /\ q.step = "register" ->
            UNCHANGED form /\ signups' = (signups \ {q}) \cup {[q EXCEPT !.step = "login", !.answer = "none"]}
       [] OTHER -> form' = [form EXCEPT !.loading = FALSE, !.left = TRUE] /\ signups' = signups \ {q}
  /\ UNCHANGED <<invites, registered, checks, checked, submitted, hitches, joined, late, mismatched>>

-----------------------------------------------------------------------------

BlankForm == [mode |-> "invite", code |-> NoCode, shown |-> NoCode, bound |-> NoAddress, address |-> NoAddress,
              filled |-> FALSE, checking |-> FALSE, loading |-> FALSE, error |-> "none", left |-> FALSE]

\* The page is opened plain, or from an invitation link, whose code is checked.
SignUpInit ==
  /\ invites \in [InviteCodes -> InviteRows] /\ \A c \in InviteCodes : invites[c].open
  /\ registered = {} /\ signups = {} /\ submitted = 0 /\ hitches = MaxHitches
  /\ joined = {} /\ late = {} /\ mismatched = FALSE
  /\ \/ form = BlankForm /\ checks = {} /\ checked = 0
     \/ \E c \in InviteCodes :
          /\ form = [BlankForm EXCEPT !.code = c, !.checking = TRUE]
          /\ checks = {[n |-> 1, code |-> c, bound |-> NoAddress, answer |-> "none"]} /\ checked = 1

ServeSignUps == \/ \E q \in checks : ServeCheck(q) \/ FailCheck(q)
                \/ \E q \in signups : ServeRegister(q) \/ ServeSignIn(q) \/ FailSignUp(q)
HearSignUps == (\E q \in checks : HearCheck(q)) \/ (\E q \in signups : HearSignUp(q))

SignUpNext == TypeCode \/ LeaveCode \/ SwitchTab \/ FillIn \/ HandleSubmit
              \/ ServeSignUps \/ HearSignUps \/ InviteGone

SignUpFairness == WF_signUpVars(ServeSignUps) /\ WF_signUpVars(HearSignUps)

SignUpSpec == SignUpInit /\ [][SignUpNext]_signUpVars /\ SignUpFairness

-----------------------------------------------------------------------------
(* Properties *)

\* The sign-up form shows "you're joining <workspace> as <role>" before the
\* person fills anything in (routes/auth.ts:74-75): the preview on show when
\* somebody joins is of the code that is redeemed.  None is shown to who presses
\* Enter in the field of the code.
ShownWhenJoining == \A j \in joined : j[2] \in {j[1], NoCode}

\* However many checks overlap and in whatever order they answer while the code
\* is edited: another preview than that of the code redeemed was on show only if
\* its answer came late, over this very code (Register.tsx:52-66).
JoinsAsShown == \A j \in joined : j[2] \in {j[1], NoCode} \/ j \in late

\* A form that shows the preview of its code is never refused for the address:
\* the one filled in is the invitation's, whichever of several checks answered
\* last and whatever was typed before.
AddressFitsInvitation == ~mismatched

\* The button and the spinner come back, whatever becomes of the requests.
SignUpEnds == form.loading ~> ~form.loading

\* The invitation redeemed is the one on show, but for a late preview.
InvitationAsShown == JoinsAsShown /\ AddressFitsInvitation
=============================================================================
