----------------------------- MODULE BatchPages -----------------------------
(***************************************************************************)
(* The pages of one browser tab that change batches, and the server behind *)
(* them: NewBatch, RecordEvent with HandoffSelect, BatchDetail with        *)
(* RecallDialog (frontend/src/pages, components), over createBatch,        *)
(* recordEvent and recallBatch, each in one step (their statements are     *)
(* SupplyChain's matter).  Between the two a request is under way: it is   *)
(* served or fails, its answer may be lost, and whoever sent it may have   *)
(* left by the time it arrives.                                            *)
(***************************************************************************)
EXTENDS Domain, FiniteSets

CONSTANTS Batches, NoBatch,
          Me, Others, Unassigned,
          MaxVisits,     \* bound: pages opened
          MaxNews,       \* bound: changes made by other people
          MaxSlips       \* bound: requests that fail and answers that are lost

People == Others \cup {Me}

ASSUME BatchPagesAssumption ==
  /\ NoBatch \notin Batches /\ Me \notin Others /\ Unassigned \notin People
  /\ MaxVisits \in Nat \ {0} /\ MaxNews \in Nat /\ MaxSlips \in Nat

VARIABLES batches, people,   \* the server's rows
          page,              \* what the tab shows
          sent,             \* requests under way
          news, slips,     \* what is left of the bounds
          tally,             \* history, by visit: writes made, answers lost
          unexplained,       \* history: a form was refused on up-to-date grounds
          misdirected        \* history: the open page was moved; another batch than confirmed recalled

pageVars == <<batches, people, page, sent, news, slips, tally, unexplained, misdirected>>

\* A visit opened by the user leads to at most one more, by a success.
Visits == 1..2 * MaxVisits
BatchRows == [exists: BOOLEAN, stage: Stages \cup {NotStarted},
              custodian: People \cup {Unassigned}, recalled: BOOLEAN]
NoRow == [exists |-> FALSE, stage |-> NotStarted, custodian |-> Unassigned, recalled |-> FALSE]
PeopleRows == [People -> [role: Roles, active: BOOLEAN]]
Nobodies == [a \in {} |-> a]     \* actors: nothing loaded yet

PageRows ==
  [kind: {"tasks", "new", "record", "batch"}, visit: Visits,
   of: Batches \cup {NoBatch},        \* the id in the URL; NewBatch: created
   shown: Batches \cup {NoBatch}, row: BatchRows,     \* the batch loaded
   known: PeopleRows \cup {Nobodies}, stage: Stages \cup {NotStarted},
   assign: People \cup {Unassigned}, busy: BOOLEAN,
   message: {"none", "offline", "refused", "failed", "not_created", "not_recorded", "not_loaded"},
   flash: {"none", "recorded", "recalled"}, suggest: BOOLEAN,
   dialog: BOOLEAN, confirmed: Batches \cup {NoBatch}]

CallRow == [kind: {"actors", "get", "create", "record", "recall"}, visit: Visits,
            batch: Batches \cup {NoBatch}, stage: Stages \cup {NotStarted},
            to: People \cup {Unassigned}, suggest: BOOLEAN,
            row: BatchRows, known: PeopleRows \cup {Nobodies},
            created: Batches \cup {NoBatch},   \* what the submitting closure saw; a recall's: the page's id
            answer: {"none", "ok", "refused", "failed", "lost"}]

Tallies == [created: Nat, recorded: Nat, unheard: Nat]

BatchPagesTypeOK ==
  /\ batches \in [Batches -> BatchRows] /\ people \in PeopleRows
  /\ page \in PageRows /\ sent \subseteq CallRow
  /\ news \in 0..MaxNews /\ slips \in 0..MaxSlips
  /\ tally \in [Visits -> Tallies]
  /\ unexplained \in BOOLEAN /\ misdirected \subseteq {"moved", "recalled"}

-----------------------------------------------------------------------------
(* What the forms derive from what they show *)

MyRole == people[Me].role
IsAdminPage == MyRole = "ADMIN"

\* nextStageOf; NotStarted stands for null.  Mutant of NextStageOf: the end of
\* STAGE_ORDER is overlooked.
NextStageOfUnchecked(row) == row.stage + 1
NextStageOf(row) == IF row.stage = TerminalStage THEN NotStarted ELSE row.stage + 1
RolesForStage(s) == {r \in Roles \ {"ADMIN"} : s \in ROLE_STAGES[r]}

CanActOn(row) ==
  /\ NextStageOf(row) # NotStarted /\ ~row.recalled
  /\ \/ IsAdminPage
     \/ NextStageOf(row) \in ROLE_STAGES[MyRole] /\ row.custodian \in {Unassigned, Me}

\* The form is there: a NewBatch always, a RecordEvent unless blocked.
FormShown(p) ==
  \/ p.kind = "new"
  \/ p.kind = "record" /\ p.shown # NoBatch /\ p.message # "not_loaded" /\ CanActOn(p.row)

\* The stage the hand-off is for, NotStarted where none is asked.
HandoffStage(p) ==
  IF p.kind = "new" THEN PROCESSING
  ELSE IF p.stage > p.row.stage /\ p.stage # TerminalStage THEN p.stage + 1 ELSE NotStarted

\* Mutant of Candidates: inactive accounts are offered.
CandidatesInactiveToo(p) ==
  {a \in DOMAIN p.known : /\ p.known[a].role \in RolesForStage(HandoffStage(p))
                          /\ p.kind = "new" \/ a # Me \/ IsAdminPage}

Candidates(p) ==
  {a \in DOMAIN p.known : /\ p.known[a].active /\ p.known[a].role \in RolesForStage(HandoffStage(p))
                          /\ p.kind = "new" \/ a # Me \/ IsAdminPage}

\* HandoffSelect's effect runs after every render: it fills in the one
\* candidate, also for an administrator who has just chosen to leave it open.
Settled(p) ==
  IF FormShown(p) /\ HandoffStage(p) # NotStarted /\ p.assign = Unassigned /\ Cardinality(Candidates(p)) = 1
  THEN [p EXCEPT !.assign = CHOOSE a \in Candidates(p) : TRUE]
  ELSE p

\* setStage, and the effect that resets the inputs below it.
StageChosen(p, s) == [p EXCEPT !.stage = s, !.assign = Unassigned]

CanRecall == MyRole \in RecallRoles

-----------------------------------------------------------------------------
(* Opening pages *)

BlankPageAt(visit, kind, b) ==
  [kind |-> kind, visit |-> visit, of |-> b, shown |-> NoBatch, row |-> NoRow,
   known |-> Nobodies, stage |-> NotStarted, assign |-> Unassigned, busy |-> FALSE,
   message |-> "none", flash |-> "none", suggest |-> FALSE, dialog |-> FALSE, confirmed |-> NoBatch]

BlankPage(kind, b) == BlankPageAt(page.visit + 1, kind, b)

Request(kind, p, b) ==
  [kind |-> kind, visit |-> p.visit, batch |-> b, stage |-> NotStarted, to |-> Unassigned,
   suggest |-> FALSE, row |-> NoRow, known |-> Nobodies, created |-> NoBatch, answer |-> "none"]

\* What a page asks for when it mounts, and again when its id changes.
Loads(p) ==
  CASE p.kind = "new"    -> {Request("actors", p, NoBatch)}
    [] p.kind = "record" -> {Request("actors", p, NoBatch), Request("get", p, p.of)}
    [] p.kind = "batch"  -> {Request("get", p, p.of)}
    [] OTHER             -> {}

\* Reads of a page that is gone are not followed; writes still arrive.
Writes == {q \in sent : q.kind \in {"create", "record", "recall"}}

\* Mutant of Mount: what was ticked in the dialog outlives its page.
MountKeeps(p, remaining) ==
  /\ page' = [p EXCEPT !.confirmed = page.confirmed]
  /\ sent' = remaining \cup Loads(p)

\* A page mounts; remaining is what is left of the requests under way.
Mount(p, remaining) ==
  /\ page' = p
  /\ sent' = remaining \cup Loads(p)

OpenPage ==
  /\ page.visit < MaxVisits
  /\ \/ Mount(BlankPage("tasks", NoBatch), Writes)
     \/ MyRole \in CreatorRoles /\ Mount(BlankPage("new", NoBatch), Writes)
     \/ \E b \in Batches, kind \in {"record", "batch"} :
          batches[b].exists /\ Mount(BlankPage(kind, b), Writes)
  /\ UNCHANGED <<batches, people, news, slips, tally, unexplained, misdirected>>

Typing(p) == /\ page' = p
             /\ UNCHANGED <<batches, people, sent, news, slips, tally, unexplained, misdirected>>

\* The stage menu of an administrator; the hand-off menu.
ChooseStage ==
  /\ page.kind = "record" /\ FormShown(page) /\ IsAdminPage
  /\ \E s \in Stages \ {page.stage} : Typing(Settled(StageChosen(page, s)))

ChooseAssignee ==
  /\ FormShown(page) /\ HandoffStage(page) # NotStarted
  /\ \E a \in Candidates(page) \cup {Unassigned} : Typing(Settled([page EXCEPT !.assign = a]))

\* Mutant of SubmitDisabled: a second click goes through.
SubmitDisabledNever(p) == FALSE

SubmitDisabled(p) == p.busy

\* required on the hand-off menu.
HandoffGiven(p) == HandoffStage(p) = NotStarted \/ p.assign # Unassigned \/ IsAdminPage

Sends(q, p) == /\ sent' = sent \cup {q}
               /\ page' = p
               /\ UNCHANGED <<batches, people, news, slips, tally, unexplained, misdirected>>

\* The record call of a form: assignNextTo only where a hand-off is needed.
RecordCall(p, b, s, row, fail) ==
  [Request("record", p, b) EXCEPT
     !.stage = s, !.suggest = fail, !.row = row, !.known = p.known,
     !.to = IF HandoffStage(p) = NotStarted THEN Unassigned ELSE p.assign]

\* RecordEvent.handleSubmit; fail: a quality check with the result FAIL.
SubmitRecord ==
  /\ page.kind = "record" /\ FormShown(page) /\ HandoffGiven(page) /\ ~SubmitDisabled(page)
  /\ \E fail \in {f \in BOOLEAN : f => page.stage = QUALITY_CHECK} :
       Sends(RecordCall(page, page.shown, page.stage, page.row, fail),
             [page EXCEPT !.busy = TRUE, !.message = "none"])

Reusable(p) == p.of

\* A harvest on a batch created by this very form.
HarvestCall(p, b, created) ==
  [RecordCall(p, b, HARVEST, [exists |-> TRUE, stage |-> NotStarted, custodian |-> Me, recalled |-> FALSE], FALSE)
     EXCEPT !.created = created]

\* NewBatch.handleSubmit: the batch first, unless it exists already.
SubmitNew ==
  /\ page.kind = "new" /\ HandoffGiven(page) /\ ~SubmitDisabled(page)
  /\ Sends(IF Reusable(page) = NoBatch
           THEN [Request("create", page, NoBatch) EXCEPT !.to = page.assign, !.known = page.known]
           ELSE HarvestCall(page, Reusable(page), Reusable(page)),
           [page EXCEPT !.busy = TRUE, !.message = "none"])

BatchShown(p) == p.kind = "batch" /\ p.shown # NoBatch /\ p.message # "not_loaded"

OpenDialog ==
  /\ BatchShown(page) /\ ~page.dialog /\ CanRecall /\ ~page.row.recalled
  /\ Typing([page EXCEPT !.dialog = TRUE])

\* The boxes ticked in the dialog stay ticked when it closes.
Confirm ==
  /\ BatchShown(page) /\ page.dialog /\ page.confirmed = NoBatch
  /\ Typing([page EXCEPT !.confirmed = page.shown])

DialogClosed(p) == [p EXCEPT !.dialog = FALSE, !.suggest = FALSE]

CloseDialog ==
  /\ BatchShown(page) /\ page.dialog /\ ~page.busy
  /\ Typing(DialogClosed(page))

SubmitRecall ==
  /\ BatchShown(page) /\ page.dialog /\ page.confirmed # NoBatch /\ ~SubmitDisabled(page)
  /\ sent' = sent \cup {[Request("recall", page, page.shown) EXCEPT !.created = page.of]}
  /\ page' = [page EXCEPT !.busy = TRUE, !.message = "none"]
  /\ misdirected' = misdirected \cup (IF page.confirmed = page.shown THEN {} ELSE {"recalled"})
  /\ UNCHANGED <<batches, people, news, slips, tally, unexplained>>

User == OpenPage \/ ChooseStage \/ ChooseAssignee \/ SubmitRecord \/ SubmitNew
        \/ OpenDialog \/ Confirm \/ CloseDialog \/ SubmitRecall

-----------------------------------------------------------------------------
(* The server *)

Replied(q, r) == sent' = (sent \ {q}) \cup {r}
Count(q, field) == tally' = [tally EXCEPT ![q.visit][field] = @ + 1]

ServeRead(q) ==
  /\ q.kind \in {"actors", "get"} /\ q.answer = "none"
  /\ Replied(q, IF q.kind = "actors" THEN [q EXCEPT !.answer = "ok", !.known = people]
                 ELSE [q EXCEPT !.answer = "ok", !.row = batches[q.batch]])
  /\ UNCHANGED <<batches, people, page, news, slips, tally, unexplained, misdirected>>

ServeCreate(q) ==
  /\ q.kind = "create" /\ q.answer = "none"
  /\ LET fresh == {b \in Batches : ~batches[b].exists}
     IN /\ fresh # {}
        /\ LET b == CHOOSE b \in fresh : TRUE
           IN /\ batches' = [batches EXCEPT ![b] = [NoRow EXCEPT !.exists = TRUE, !.custodian = Me]]
              /\ Replied(q, [q EXCEPT !.answer = "ok", !.batch = b])
  /\ Count(q, "created")
  /\ UNCHANGED <<people, page, news, slips, unexplained, misdirected>>

Advances(q) == q.stage > batches[q.batch].stage
HandOffAsked(q) == Advances(q) /\ q.stage # TerminalStage

\* The checks of recordEvent, in the code's order.
RecordRefused(q) ==
  LET row == batches[q.batch] IN
  \/ q.stage \notin ROLE_STAGES[MyRole]
  \/ row.recalled
  \/ MyRole # "ADMIN" /\ row.custodian \notin {Unassigned, Me}
  \/ /\ HandOffAsked(q)
     /\ IF q.to = Unassigned THEN MyRole # "ADMIN"
        ELSE ~people[q.to].active \/ q.stage + 1 \notin ROLE_STAGES[people[q.to].role]

RowAfterRecord(q) ==
  IF Advances(q)
  THEN [batches[q.batch] EXCEPT !.stage = q.stage,
          !.custodian = IF q.stage = TerminalStage THEN Unassigned ELSE q.to]
  ELSE batches[q.batch]

\* A refusal is explained by news: the batch or the directory is no longer
\* what the form was filled in from.
Explained(q) == q.row # batches[q.batch] \/ q.known # people

ServeRecord(q) ==
  /\ q.kind = "record" /\ q.answer = "none"
  /\ \/ /\ RecordRefused(q)
        /\ Replied(q, [q EXCEPT !.answer = "refused"])
        /\ unexplained' = (unexplained \/ ~Explained(q))
        /\ UNCHANGED <<batches, tally>>
     \/ /\ ~RecordRefused(q)
        /\ Replied(q, [q EXCEPT !.answer = "ok"])
        /\ batches' = [batches EXCEPT ![q.batch] = RowAfterRecord(q)]
        /\ Count(q, "recorded")
        /\ UNCHANGED unexplained
  /\ UNCHANGED <<people, page, news, slips, misdirected>>

ServeRecall(q) ==
  /\ q.kind = "recall" /\ q.answer = "none"
  /\ IF batches[q.batch].recalled
     THEN Replied(q, [q EXCEPT !.answer = "refused"]) /\ UNCHANGED batches
     ELSE /\ Replied(q, [q EXCEPT !.answer = "ok"])
          /\ batches' = [batches EXCEPT ![q.batch].recalled = TRUE]
  /\ UNCHANGED <<people, page, news, slips, tally, unexplained, misdirected>>

\* The request never arrives, or its transaction is rolled back (500).
FailCall(q) ==
  /\ q.answer = "none" /\ slips > 0
  /\ slips' = slips - 1
  /\ \E a \in {"lost", "failed"} : Replied(q, [q EXCEPT !.answer = a])
  /\ UNCHANGED <<batches, people, page, news, tally, unexplained, misdirected>>

\* The server has acted, and nobody hears of it.
LoseAnswer(q) ==
  /\ q.kind \in {"create", "record", "recall"} /\ q.answer = "ok" /\ slips > 0
  /\ slips' = slips - 1
  /\ Replied(q, [q EXCEPT !.answer = "lost"])
  /\ Count(q, "unheard")
  /\ UNCHANGED <<batches, people, page, news, unexplained, misdirected>>

\* Somebody else records, recalls, or changes an account.
News ==
  /\ news > 0 /\ news' = news - 1
  /\ \/ \E b \in Batches, s \in Stages, a \in People \cup {Unassigned} :
          /\ batches[b].exists /\ ~batches[b].recalled /\ s = batches[b].stage + 1
          /\ IF s = TerminalStage THEN a = Unassigned
             ELSE a # Unassigned => people[a].active /\ s + 1 \in ROLE_STAGES[people[a].role]
          /\ batches' = [batches EXCEPT ![b].stage = s, ![b].custodian = a]
          /\ UNCHANGED people
     \/ \E b \in Batches :
          /\ batches[b].exists /\ ~batches[b].recalled
          /\ batches' = [batches EXCEPT ![b].recalled = TRUE]
          /\ UNCHANGED people
     \/ \E a \in Others :
          /\ people' = [people EXCEPT ![a].active = ~@]
          /\ UNCHANGED batches
  /\ UNCHANGED <<page, sent, slips, tally, unexplained, misdirected>>

ServerStep == \E q \in sent : ServeRead(q) \/ ServeCreate(q) \/ ServeRecord(q)
                              \/ ServeRecall(q) \/ FailCall(q) \/ LoseAnswer(q)

-----------------------------------------------------------------------------
(* Answers *)

Here(q) == page.visit = q.visit
Good(q) == q.answer = "ok"

\* Mutant of Bad: an error without a response is not caught.
BadAnswered(q) == q.answer \in {"refused", "failed"}

Bad(q) == q.answer \in {"refused", "failed", "lost"}
Heard(p, remaining) ==
  /\ page' = Settled(p)
  /\ sent' = remaining
  /\ UNCHANGED <<batches, people, news, slips, tally, unexplained, misdirected>>

\* apiErrorMessage: the connection, a known refusal, or the caller's default.
MessageFor(q, default) ==
  CASE q.answer = "lost" -> "offline" [] q.answer = "refused" -> "refused" [] OTHER -> default

HearActors(q) ==
  /\ q.kind = "actors" /\ q.answer # "none"
  /\ Heard(IF Good(q) THEN [page EXCEPT !.known = q.known] ELSE page, sent \ {q})

\* RecordEvent: the batch and the stage that comes next.  BatchDetail: the
\* result, and the recall a failed quality check suggests.
Loaded(p, q) ==
  IF p.kind = "record"
  THEN StageChosen([p EXCEPT !.shown = q.batch, !.row = q.row], NextStageOf(q.row))
  ELSE [p EXCEPT !.shown = q.batch, !.row = q.row,
          !.dialog = @ \/ (p.suggest /\ CanRecall /\ ~q.row.recalled)]

\* A page that cannot load shows that alone, and its dialog is unmounted.
NotLoaded(p) == [p EXCEPT !.message = "not_loaded", !.confirmed = NoBatch, !.busy = FALSE]

\* load() clears the page's own error, not the dialog's.
Reloading(p) == [p EXCEPT !.message = IF @ = "not_loaded" THEN "none" ELSE @]

HearBatch(q) ==
  /\ q.kind = "get" /\ q.answer # "none"
  /\ Heard(IF Good(q) THEN Loaded(page, q) ELSE NotLoaded(page), sent \ {q})

\* navigate() to a batch works from a page that is gone, too.  It mounts a
\* BatchDetail, or moves the one that is open to the other id: its state stays.
MovedTo(b) == Reloading([page EXCEPT !.of = b])
Navigate(b, suggest, remaining) ==
  /\ IF page.kind = "batch"
     THEN /\ page' = [MovedTo(b) EXCEPT !.suggest = suggest]
          /\ sent' = remaining \cup (IF b = page.of THEN {} ELSE Loads(MovedTo(b)))
          /\ misdirected' = misdirected \cup {"moved"}
     ELSE /\ Mount([BlankPage("batch", b) EXCEPT !.flash = "recorded", !.suggest = suggest],
                   {p \in remaining : p.kind \in {"create", "record", "recall"}})
          /\ UNCHANGED misdirected
  /\ UNCHANGED <<batches, people, news, slips, tally, unexplained>>

\* NewBatch: created is what the closure of this submit saw, not what it has
\* just set.
FailureOf(q) ==
  MessageFor(q, IF page.kind = "record" THEN "failed"
                ELSE IF q.created # NoBatch THEN "not_recorded" ELSE "not_created")

HearRecord(q) ==
  /\ q.kind = "record"
  /\ \/ Good(q) /\ Navigate(q.batch, q.suggest, sent \ {q})
     \/ Bad(q) /\ Heard(IF Here(q) THEN [page EXCEPT !.busy = FALSE, !.message = FailureOf(q)] ELSE page,
                       sent \ {q})

\* The harvest follows at once, also when the page is gone.
HearCreate(q) ==
  /\ q.kind = "create"
  /\ LET next == [Request("record", [visit |-> q.visit], q.batch) EXCEPT
                    !.stage = HARVEST, !.to = q.to, !.known = q.known, !.created = NoBatch,
                    !.row = [NoRow EXCEPT !.exists = TRUE, !.custodian = Me]]
     IN \/ Good(q) /\ Heard(IF Here(q) THEN [page EXCEPT !.of = q.batch] ELSE page,
                           (sent \ {q}) \cup {next})
        \/ Bad(q) /\ Heard(IF Here(q) THEN [page EXCEPT !.busy = FALSE, !.message = FailureOf(q)] ELSE page,
                          sent \ {q})

\* onRecalled: the dialog closes and the page loads again, under the id that
\* the dialog's closure saw.
Recalled(p) == Reloading([DialogClosed(p) EXCEPT !.busy = FALSE, !.flash = "recalled"])

HearRecall(q) ==
  /\ q.kind = "recall"
  /\ \/ Good(q) /\ Heard(IF Here(q) THEN Recalled(page) ELSE page,
                        (sent \ {q}) \cup (IF Here(q) THEN {Request("get", page, q.created)} ELSE {}))
     \/ Bad(q) /\ Heard(IF Here(q) THEN [page EXCEPT !.busy = FALSE, !.message = MessageFor(q, "failed")] ELSE page,
                       sent \ {q})

AnswerStep == \E q \in sent : HearActors(q) \/ HearBatch(q) \/ HearRecord(q) \/ HearCreate(q) \/ HearRecall(q)

-----------------------------------------------------------------------------

\* Whoever holds a batch can take its next stage.
BatchPagesInit ==
  /\ people \in PeopleRows /\ \A a \in People : people[a].active
  /\ batches \in [Batches -> BatchRows]
  /\ \A b \in Batches :
       IF batches[b].exists
       THEN batches[b].custodian # Unassigned =>
              /\ batches[b].stage # TerminalStage
              /\ batches[b].stage + 1 \in ROLE_STAGES[people[batches[b].custodian].role]
       ELSE batches[b] = NoRow
  /\ page = BlankPageAt(1, "tasks", NoBatch)
  /\ sent = {} /\ news = MaxNews /\ slips = MaxSlips
  /\ tally = [v \in Visits |-> [created |-> 0, recorded |-> 0, unheard |-> 0]]
  /\ unexplained = FALSE /\ misdirected = {}

BatchPagesNext == User \/ ServerStep \/ News \/ AnswerStep

BatchPagesFairness == WF_pageVars(ServerStep) /\ WF_pageVars(AnswerStep)

BatchPagesSpec == BatchPagesInit /\ [][BatchPagesNext]_pageVars /\ BatchPagesFairness

-----------------------------------------------------------------------------
(* Properties *)

\* One form creates one batch and records one event, however often it is
\* submitted and whenever it is left, unless an answer was lost after the
\* server had acted (NewBatch.tsx:34).
FormWritesOnce ==
  \A v \in Visits : /\ tally[v].created <= 1 + tally[v].unheard
                    /\ tally[v].recorded <= 1 + tally[v].unheard

\* The forms offer nothing the server refuses: canActOn, the stage menu and
\* the hand-off menu agree with recordEvent's checks, so a refusal means that
\* the batch or the directory has changed since the form was filled in.
RefusedForAReason == ~unexplained

\* The batch recalled is the one whose recall was confirmed, unless a late
\* answer of another page moved the open page to another batch under its
\* dialog (RecordEvent.tsx:106, RecallDialog.tsx:35).
RecallAsConfirmed == "recalled" \in misdirected => "moved" \in misdirected

\* The error under NewBatch's form says that no batch was created only when
\* none was (NewBatch.tsx:71-75), lost answers aside.
MessageTellsTruth ==
  page.message = "not_created" /\ tally[page.visit].unheard = 0
    => tally[page.visit].created = 0

\* A form that is being submitted becomes usable again, or is left.
SubmitEnds == page.busy ~> ~page.busy

\* The server does what the user asked for, once.
WritesAsAsked == FormWritesOnce /\ RecallAsConfirmed
=============================================================================
