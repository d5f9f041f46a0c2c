-------------------------- MODULE BatchPagesProofs --------------------------
(***************************************************************************)
(* Proofs about BatchPages, for any batches, people, visits, failures and  *)
(* lost answers: a page's form and the requests that have left it agree.   *)
(***************************************************************************)
EXTENDS BatchPages, FiniteSetTheorems, TLAPS

-----------------------------------------------------------------------------
(* The pages of a batch *)

PageShapes ==
  [kind: {"tasks", "new", "record", "batch"}, visit: Nat,
   of: Batches \cup {NoBatch}, shown: Batches \cup {NoBatch}, row: BatchRows,
   known: PeopleRows \cup {Nobodies}, stage: Stages \cup {NotStarted},
   assign: People \cup {Unassigned}, busy: BOOLEAN,
   message: {"none", "offline", "refused", "failed", "not_created", "not_recorded", "not_loaded"},
   flash: {"none", "recorded", "recalled"}, suggest: BOOLEAN,
   dialog: BOOLEAN, confirmed: Batches \cup {NoBatch}]

CallShapes == [kind: {"actors", "get", "create", "record", "recall"}, visit: Nat,
               batch: Batches \cup {NoBatch}, stage: Stages \cup {NotStarted},
               to: People \cup {Unassigned}, suggest: BOOLEAN,
               row: BatchRows, known: PeopleRows \cup {Nobodies},
               created: Batches \cup {NoBatch},
               answer: {"none", "ok", "refused", "failed", "lost"}]

Making  == {"create", "record"}
Reading == {"actors", "get"}

CallsTyped(S) ==
  /\ S \subseteq CallShapes
  /\ \A q \in S : /\ q.kind \in {"get", "record", "recall"} => q.batch \in Batches
                  /\ q.kind = "create" /\ q.answer = "ok" => q.batch \in Batches
                  /\ q.kind = "recall" => q.created \in Batches

PageTyped(p) == p \in PageShapes /\ (p.kind \in {"record", "batch"} => p.of \in Batches)

\* Reads are the open page's.  A visit has one write under way, and a form
\* whose write is under way is busy; a NewBatch with an id creates no more.
Traffic(p, S) ==
  /\ \A q \in S : q.visit <= p.visit
  /\ \A q \in S : q.kind \in Reading => q.visit = p.visit
  /\ \A q, r \in S : q.kind \in Making /\ r.kind \in Making /\ q.visit = r.visit => q = r
  /\ \A q \in S : q.kind \in Making /\ q.visit = p.visit =>
       /\ p.busy /\ p.kind \in {"new", "record"}
       /\ q.kind = "create" => p.kind = "new" /\ p.of = NoBatch
       /\ q.kind = "record" => (IF p.kind = "new" THEN p.of ELSE p.shown) # NoBatch
  /\ \A q \in S : q.kind = "get" => p.kind \in {"record", "batch"}
  /\ \A q \in S : q.kind = "recall" /\ q.visit = p.visit => p.kind = "batch"
  /\ p.kind = "record" => \A q, r \in S : q.kind = "get" => p.shown = NoBatch /\ (r.kind = "get" => q = r)
  /\ \A q, r \in S : q.kind = "actors" => p.known = Nobodies /\ (r.kind = "actors" => q = r)

\* What a form holds is what its menus offered for the batch and the people it shows.
FormFits(p) ==
  /\ p.kind = "new" => MyRole \in CreatorRoles
  /\ p.kind \in {"new", "record"} => p.assign \in Candidates(p) \cup {Unassigned}
  /\ p.kind = "record" /\ p.shown # NoBatch =>
       p.stage = NextStageOf(p.row) \/ (IsAdminPage /\ p.stage \in Stages)

\* What recordEvent would say of a request if nothing had changed since.
Offered(known, a, s) == known[a].active /\ s \in ROLE_STAGES[known[a].role]
FitRecord(q) ==
  /\ q.stage \in ROLE_STAGES[MyRole] /\ ~q.row.recalled
  /\ IsAdminPage \/ q.row.custodian \in {Unassigned, Me}
  /\ q.stage > q.row.stage /\ q.stage # TerminalStage =>
       IF q.to = Unassigned THEN IsAdminPage ELSE Offered(q.known, q.to, q.stage + 1)
FitCreate(q) ==
  /\ MyRole \in CreatorRoles
  /\ IF q.to = Unassigned THEN IsAdminPage ELSE Offered(q.known, q.to, PROCESSING)
CallsFit(S) == \A q \in S : /\ q.kind = "record" => FitRecord(q)
                            /\ q.kind = "create" => FitCreate(q)

\* As long as no answer of another page has moved this one, it shows the batch
\* of its URL, and that is the one confirmed, and the one a recall reads again.
Steady(p, S, mis) ==
  "moved" \notin mis =>
    /\ "recalled" \notin mis
    /\ p.kind = "batch" => /\ p.shown \in {NoBatch, p.of} /\ p.confirmed \in {NoBatch, p.of}
                           /\ \A q \in S : q.kind = "get" => q.batch = p.of
                           /\ \A q \in S : q.kind = "recall" /\ q.visit = p.visit => q.created = p.of

\* A visit that may still write has written no more than was lost.
MayRecord(p, S, v) ==
  /\ v >= p.visit \/ \E q \in S : q.kind \in Making /\ q.visit = v
  /\ \A q \in S : q.kind = "record" /\ q.visit = v => q.answer # "ok"
MayCreate(p, S, v) ==
  /\ v > p.visit \/ (v = p.visit /\ p.of = NoBatch) \/ \E q \in S : q.kind = "create" /\ q.visit = v
  /\ \A q \in S : q.kind = "create" /\ q.visit = v => q.answer # "ok"
Counted(p, S, t) ==
  \A v \in Visits :
    /\ t[v].created <= 1 + t[v].unheard /\ t[v].recorded <= 1 + t[v].unheard
    /\ MayRecord(p, S, v) => t[v].recorded <= t[v].unheard
    /\ MayCreate(p, S, v) => t[v].created <= t[v].unheard

RowsTyped == batches \in [Batches -> BatchRows] /\ people \in PeopleRows /\ tally \in [Visits -> Tallies]

PagesInv ==
  /\ RowsTyped /\ PageTyped(page) /\ CallsTyped(sent)
  /\ Traffic(page, sent) /\ FormFits(page) /\ CallsFit(sent) /\ ~unexplained
  /\ Steady(page, sent, misdirected) /\ Counted(page, sent, tally)

LEMMA Persons == Me \in People /\ NoBatch \notin Batches /\ Unassigned \notin People
BY BatchPagesAssumption DEF People

LEMMA NoRowIsRow == NoRow \in BatchRows
BY Persons DEF NoRow, BatchRows, Stages, NotStarted, RETAIL, HARVEST

LEMMA NextStages ==
  ASSUME NEW row \in BatchRows
  PROVE  NextStageOf(row) \in Stages \cup {NotStarted}
<1>1. row.stage \in Int /\ row.stage >= -1 /\ row.stage <= 5
  BY DEF BatchRows, Stages, NotStarted, HARVEST, RETAIL
<1> QED BY <1>1 DEF NextStageOf, TerminalStage, Stages, NotStarted, HARVEST, RETAIL

LEMMA CandidatesArePeople ==
  ASSUME NEW p \in PageShapes
  PROVE  Candidates(p) \subseteq People
<1>1. p.known \in PeopleRows \cup {Nobodies}
  BY DEF PageShapes
<1>2. DOMAIN p.known \subseteq People
  BY <1>1 DEF PeopleRows, Nobodies
<1> QED BY <1>2 DEF Candidates

\* The effect of HandoffSelect fills in a candidate, or nothing.
LEMMA SettledPage ==
  ASSUME NEW p \in PageShapes
  PROVE  /\ Settled(p) \in PageShapes
         /\ Settled(p).kind = p.kind /\ Settled(p).visit = p.visit /\ Settled(p).of = p.of
         /\ Settled(p).shown = p.shown /\ Settled(p).row = p.row /\ Settled(p).known = p.known
         /\ Settled(p).stage = p.stage /\ Settled(p).busy = p.busy /\ Settled(p).confirmed = p.confirmed
         /\ Settled(p).assign \in {p.assign} \cup Candidates(p)
<1>1. CASE Settled(p) = p
  BY <1>1
<1>2. CASE Settled(p) # p
  <2> DEFINE a == CHOOSE a \in Candidates(p) : TRUE
  <2>1. Settled(p) = [p EXCEPT !.assign = a] /\ Cardinality(Candidates(p)) = 1
    BY <1>2 DEF Settled
  <2>2. Candidates(p) # {}
    BY <2>1, FS_EmptySet
  <2>3. a \in Candidates(p)
    BY <2>2
  <2>4. a \in People \cup {Unassigned}
    BY <2>3, CandidatesArePeople
  <2> HIDE DEF a
  <2> QED BY <2>1, <2>3, <2>4 DEF PageShapes
<1> QED BY <1>1, <1>2

LEMMA CandidatesSame ==
  ASSUME NEW p, NEW r, r.kind = p.kind, r.known = p.known, r.stage = p.stage, r.row = p.row
  PROVE  Candidates(r) = Candidates(p)
BY DEF Candidates, HandoffStage

\* Nobody changes one's own role.
LEMMA RoleStays ==
  ASSUME RowsTyped, [BatchPagesNext]_pageVars
  PROVE  people' \in PeopleRows /\ people'[Me] = people[Me] /\ MyRole' = MyRole
<1>1. people \in PeopleRows /\ Me \in People /\ Me \notin Others
  BY Persons, BatchPagesAssumption DEF RowsTyped
<1>2. people' = people \/ \E a \in Others : people' = [people EXCEPT ![a].active = ~@]
  BY DEF BatchPagesNext, User, OpenPage, ChooseStage, ChooseAssignee, SubmitRecord, SubmitNew, OpenDialog, Confirm,
         CloseDialog, SubmitRecall, Typing, Sends, ServerStep, ServeRead, ServeCreate, ServeRecord, ServeRecall,
         FailCall, LoseAnswer, News, AnswerStep, HearActors, HearBatch, HearRecord, HearCreate, HearRecall,
         Heard, Navigate, pageVars
<1>3. ASSUME NEW a \in Others, people' = [people EXCEPT ![a].active = ~@]
      PROVE  people' \in PeopleRows /\ people'[Me] = people[Me]
  <2>1. people[a] \in [role: Roles, active: BOOLEAN]
    BY <1>1 DEF PeopleRows, People
  <2>2. [people[a] EXCEPT !.active = ~@] \in [role: Roles, active: BOOLEAN]
    BY <2>1
  <2> QED BY <1>1, <1>3, <2>2 DEF PeopleRows
<1> QED BY <1>1, <1>2, <1>3 DEF MyRole

\* So what fits a role keeps fitting it.
LEMMA FitsStay ==
  ASSUME MyRole' = MyRole
  PROVE  /\ FormFits(page)' <=> FormFits(page')
         /\ CallsFit(sent)' <=> CallsFit(sent')
BY DEF FormFits, Candidates, IsAdminPage, CallsFit, FitRecord, FitCreate

LEMMA PagesInvStarts == BatchPagesInit => PagesInv
<1> SUFFICES ASSUME BatchPagesInit PROVE PagesInv
  OBVIOUS
<1>1. RowsTyped
  BY DEF BatchPagesInit, RowsTyped, Tallies
<1>2. /\ page \in PageShapes /\ page.kind = "tasks" /\ page.visit = 1
  BY NoRowIsRow DEF BatchPagesInit, BlankPageAt, PageShapes
<1>3. sent = {} /\ misdirected = {} /\ ~unexplained
  BY DEF BatchPagesInit
<1>4. \A v \in Visits : tally[v].created = 0 /\ tally[v].recorded = 0 /\ tally[v].unheard = 0
  BY DEF BatchPagesInit
<1>5. PageTyped(page) /\ CallsTyped(sent) /\ Traffic(page, sent) /\ FormFits(page) /\ CallsFit(sent)
      /\ Steady(page, sent, misdirected)
  BY <1>2, <1>3 DEF PageTyped, CallsTyped, Traffic, FormFits, CallsFit, Steady
<1>6. Counted(page, sent, tally)
  BY <1>4 DEF Counted
<1> QED BY <1>1, <1>3, <1>5, <1>6 DEF PagesInv

\* Typing into a form or a dialog leaves what is under way alone.
LEMMA TypingKeeps ==
  ASSUME PagesInv, NEW p \in PageShapes, Typing(p), MyRole' = MyRole, FormFits(p),
         p.kind = page.kind, p.visit = page.visit, p.of = page.of, p.shown = page.shown,
         p.known = page.known, p.busy = page.busy,
         p.confirmed = page.confirmed \/ p.confirmed = page.shown
  PROVE  PagesInv'
<1>1. page' = p /\ UNCHANGED <<batches, people, sent, tally, unexplained, misdirected>>
  BY DEF Typing
<1>2. RowsTyped' /\ PageTyped(page)' /\ CallsTyped(sent)'
  BY <1>1 DEF PagesInv, RowsTyped, PageTyped, CallsTyped
<1>3. Traffic(page, sent)'
  BY <1>1 DEF PagesInv, Traffic
<1>4. FormFits(page)' /\ CallsFit(sent)'
  BY <1>1, FitsStay DEF PagesInv
<1>5. Steady(page, sent, misdirected)'
  BY <1>1 DEF PagesInv, Steady
<1>6. Counted(page, sent, tally)'
  BY <1>1 DEF PagesInv, Counted, MayRecord, MayCreate
<1> QED BY <1>1, <1>2, <1>3, <1>4, <1>5, <1>6 DEF PagesInv

LEMMA MenusKeep ==
  ASSUME PagesInv, MyRole' = MyRole, ChooseStage \/ ChooseAssignee
  PROVE  PagesInv'
<1>1. page \in PageShapes
  BY DEF PagesInv, PageTyped
<1>2. CASE ChooseStage
  <2> PICK s \in Stages \ {page.stage} : Typing(Settled(StageChosen(page, s)))
    BY <1>2 DEF ChooseStage
  <2> DEFINE p == StageChosen(page, s)
  <2>1. /\ p \in PageShapes /\ p.kind = page.kind /\ p.visit = page.visit /\ p.of = page.of
        /\ p.shown = page.shown /\ p.known = page.known /\ p.busy = page.busy /\ p.confirmed = page.confirmed
        /\ p.assign = Unassigned /\ p.stage = s /\ p.row = page.row
    BY <1>1 DEF StageChosen, PageShapes
  <2>2. page.kind = "record" /\ IsAdminPage
    BY <1>2 DEF ChooseStage
  <2> HIDE DEF p
  <2>3. Candidates(Settled(p)) = Candidates(p)
    BY <2>1, SettledPage, CandidatesSame
  <2>4. FormFits(Settled(p))
    BY <2>1, <2>2, <2>3, SettledPage DEF FormFits
  <2>5. Typing(Settled(p))
    BY DEF p
  <2> QED BY <2>1, <2>4, <2>5, SettledPage, TypingKeeps
<1>3. CASE ChooseAssignee
  <2> PICK a \in Candidates(page) \cup {Unassigned} : Typing(Settled([page EXCEPT !.assign = a]))
    BY <1>3 DEF ChooseAssignee
  <2> DEFINE p == [page EXCEPT !.assign = a]
  <2>1. a \in People \cup {Unassigned}
    BY <1>1, CandidatesArePeople
  <2>2. /\ p \in PageShapes /\ p.kind = page.kind /\ p.visit = page.visit /\ p.of = page.of
        /\ p.shown = page.shown /\ p.known = page.known /\ p.busy = page.busy /\ p.confirmed = page.confirmed
        /\ p.assign = a /\ p.stage = page.stage /\ p.row = page.row
    BY <1>1, <2>1 DEF PageShapes
  <2>3. Typing(Settled(p))
    OBVIOUS
  <2> HIDE DEF p
  <2>4. Candidates(Settled(p)) = Candidates(page) /\ Candidates(p) = Candidates(page)
    BY <2>2, SettledPage, CandidatesSame
  <2>5. FormFits(Settled(p))
    BY <2>2, <2>4, SettledPage DEF FormFits, PagesInv
  <2> QED BY <2>2, <2>3, <2>5, SettledPage, TypingKeeps
<1> QED BY <1>2, <1>3

LEMMA DialogKeeps ==
  ASSUME PagesInv, MyRole' = MyRole, OpenDialog \/ Confirm \/ CloseDialog
  PROVE  PagesInv'
<1>1. page \in PageShapes /\ FormFits(page)
  BY DEF PagesInv, PageTyped
<1> DEFINE open == [page EXCEPT !.dialog = TRUE]
           confirm == [page EXCEPT !.confirmed = page.shown]
           close == [page EXCEPT !.dialog = FALSE, !.suggest = FALSE]
<1>2. \A p \in {open, confirm, close} :
        /\ p \in PageShapes /\ p.kind = page.kind /\ p.visit = page.visit /\ p.of = page.of
        /\ p.shown = page.shown /\ p.known = page.known /\ p.busy = page.busy
        /\ p.confirmed = page.confirmed \/ p.confirmed = page.shown
  BY <1>1 DEF PageShapes
<1>3. page.kind = "batch" /\ \E p \in {open, confirm, close} : Typing(p)
  BY DEF OpenDialog, Confirm, CloseDialog, DialogClosed, BatchShown
<1> HIDE DEF open, confirm, close
<1> PICK p \in {open, confirm, close} : Typing(p)
  BY <1>3
<1>4. FormFits(p)
  BY <1>2, <1>3 DEF FormFits
<1> QED BY <1>2, <1>4, TypingKeeps

\* A form asks for a write: the page is busy from then on.
LEMMA SendingKeeps ==
  ASSUME PagesInv, MyRole' = MyRole, NEW q \in CallShapes, q.answer = "none", q.visit = page.visit,
         sent' = sent \cup {q}, page' = [page EXCEPT !.busy = TRUE, !.message = "none"], ~page.busy,
         UNCHANGED <<batches, people, tally, unexplained>>,
         CallsTyped({q}), CallsFit({q}), Steady(page, sent, misdirected'),
         \/ q.kind = "recall" /\ page.kind = "batch" /\ q.created = page.of
         \/ /\ q.kind \in Making /\ page.kind \in {"new", "record"}
            /\ q.kind = "create" => page.kind = "new" /\ page.of = NoBatch
            /\ q.kind = "record" => (IF page.kind = "new" THEN page.of ELSE page.shown) # NoBatch
  PROVE  PagesInv'
<1>1. page \in PageShapes
  BY DEF PagesInv, PageTyped
<1>2. /\ page' \in PageShapes /\ page'.kind = page.kind /\ page'.visit = page.visit /\ page'.of = page.of
      /\ page'.shown = page.shown /\ page'.row = page.row /\ page'.known = page.known
      /\ page'.stage = page.stage /\ page'.assign = page.assign /\ page'.confirmed = page.confirmed
      /\ page'.busy
  BY <1>1 DEF PageShapes
<1>3. RowsTyped' /\ PageTyped(page)' /\ CallsTyped(sent)'
  BY <1>2 DEF PagesInv, RowsTyped, PageTyped, CallsTyped
<1>4. q.kind \notin Reading /\ q.visit <= page.visit
  BY <1>1 DEF Reading, Making, PageShapes
<1>5. Traffic(page, sent)'
  <2> USE DEF PagesInv, Traffic
  <2>1. \A r \in sent : r.kind \in Making => r.visit # page.visit
    OBVIOUS
  <2>2. \A r \in sent' : r.visit <= page'.visit /\ (r.kind \in Reading => r.visit = page'.visit)
    BY <1>2, <1>4
  <2>3. \A r, s \in sent' : r.kind \in Making /\ s.kind \in Making /\ r.visit = s.visit => r = s
    BY <2>1
  <2>4. \A r \in sent' : r.kind \in Making /\ r.visit = page'.visit =>
          /\ page'.busy /\ page'.kind \in {"new", "record"}
          /\ r.kind = "create" => page'.kind = "new" /\ page'.of = NoBatch
          /\ r.kind = "record" => (IF page'.kind = "new" THEN page'.of ELSE page'.shown) # NoBatch
    BY <1>2, <2>1 DEF Making
  <2>5. \A r \in sent' : r.kind \in Reading => r \in sent
    BY <1>4
  <2>6. \A r \in sent' : r.kind = "recall" /\ r.visit = page'.visit => page'.kind = "batch"
    BY <1>2 DEF Making
  <2> QED BY <1>2, <2>2, <2>3, <2>4, <2>5, <2>6 DEF Reading
<1>6. FormFits(page)' /\ CallsFit(sent)'
  <2>1. Candidates(page') = Candidates(page)
    BY <1>2, CandidatesSame
  <2>2. FormFits(page') /\ CallsFit(sent')
    BY <1>2, <2>1 DEF PagesInv, FormFits, CallsFit
  <2> QED BY <2>2, FitsStay
<1>7. Steady(page, sent, misdirected)'
  BY <1>2, <1>4 DEF Steady, Reading, Making
<1>8. Counted(page, sent, tally)'
  <2> SUFFICES ASSUME NEW v \in Visits
               PROVE  /\ MayRecord(page', sent', v) => tally[v].recorded <= tally[v].unheard
                      /\ MayCreate(page', sent', v) => tally[v].created <= tally[v].unheard
    BY DEF PagesInv, Counted
  <2>1. page.visit \in Nat
    BY <1>1 DEF PageShapes
  <2>2. MayRecord(page', sent', v) => MayRecord(page, sent, v)
    BY <1>2, <2>1 DEF MayRecord
  <2>3. MayCreate(page', sent', v) => MayCreate(page, sent, v)
    BY <1>2, <2>1 DEF MayCreate
  <2> QED BY <2>2, <2>3 DEF PagesInv, Counted
<1> QED BY <1>3, <1>5, <1>6, <1>7, <1>8 DEF PagesInv

LEMMA Requests ==
  ASSUME NEW kind \in {"actors", "get", "create", "record", "recall"}, NEW p, p.visit \in Nat,
         NEW b \in Batches \cup {NoBatch}
  PROVE  /\ Request(kind, p, b) \in CallShapes
         /\ Request(kind, p, b).kind = kind /\ Request(kind, p, b).visit = p.visit
         /\ Request(kind, p, b).batch = b /\ Request(kind, p, b).answer = "none"
BY NoRowIsRow DEF Request, CallShapes

LEMMA MadeCandidates ==
  ASSUME NEW p \in PageShapes, p.assign \in Candidates(p)
  PROVE  Offered(p.known, p.assign, HandoffStage(p))
BY DEF Candidates, RolesForStage, Offered

LEMMA RecordSubmitted ==
  ASSUME PagesInv, MyRole' = MyRole, SubmitRecord
  PROVE  PagesInv'
<1>1. /\ page \in PageShapes /\ page.kind = "record" /\ page.shown # NoBatch /\ ~page.busy
      /\ CanActOn(page.row) /\ HandoffGiven(page)
  BY DEF PagesInv, PageTyped, SubmitRecord, FormShown, SubmitDisabled
<1>2. /\ page.row \in BatchRows /\ page.shown \in Batches /\ page.stage \in Stages \cup {NotStarted}
      /\ page.row.stage \in Stages \cup {NotStarted}
  BY <1>1 DEF PageShapes, BatchRows
<1> PICK fail \in BOOLEAN : Sends(RecordCall(page, page.shown, page.stage, page.row, fail),
                                  [page EXCEPT !.busy = TRUE, !.message = "none"])
  BY DEF SubmitRecord
<1>3. page.stage \in Stages /\ page.stage \in ROLE_STAGES[MyRole]
  <2>1. NextStageOf(page.row) \in Stages
    BY <1>1, <1>2, NextStages DEF CanActOn
  <2>2. page.stage = NextStageOf(page.row) \/ (IsAdminPage /\ page.stage \in Stages)
    BY <1>1 DEF PagesInv, FormFits
  <2>3. IsAdminPage => ROLE_STAGES[MyRole] = Stages
    BY DEF IsAdminPage, ROLE_STAGES
  <2> QED BY <1>1, <2>1, <2>2, <2>3 DEF CanActOn
<1> DEFINE r == Request("record", page, page.shown)
           to == IF HandoffStage(page) = NotStarted THEN Unassigned ELSE page.assign
           q == [r EXCEPT !.stage = page.stage, !.suggest = fail, !.row = page.row, !.known = page.known, !.to = to]
<1>4. /\ sent' = sent \cup {q} /\ page' = [page EXCEPT !.busy = TRUE, !.message = "none"]
      /\ UNCHANGED <<batches, people, tally, unexplained, misdirected>>
  BY DEF Sends, RecordCall
<1>5. /\ q \in CallShapes /\ q.kind = "record" /\ q.visit = page.visit /\ q.batch = page.shown
      /\ q.answer = "none" /\ q.stage = page.stage /\ q.row = page.row /\ q.known = page.known
      /\ q.to = to
  <2>1. /\ page.visit \in Nat /\ page.known \in PeopleRows \cup {Nobodies}
        /\ to \in People \cup {Unassigned}
    BY <1>1 DEF PageShapes
  <2>2. r \in CallShapes /\ r.kind = "record" /\ r.visit = page.visit /\ r.batch = page.shown /\ r.answer = "none"
    BY <1>2, <2>1, Requests
  <2> HIDE DEF r, to
  <2> QED BY <1>2, <2>1, <2>2 DEF CallShapes
<1>6. q.to = IF HandoffStage(page) = NotStarted THEN Unassigned ELSE page.assign
  BY <1>5
<1> HIDE DEF r, to, q
<1>7. FitRecord(q)
  <2>1. q.stage \in ROLE_STAGES[MyRole] /\ ~q.row.recalled
        /\ (IsAdminPage \/ q.row.custodian \in {Unassigned, Me})
    BY <1>1, <1>3, <1>5 DEF CanActOn
  <2>2. ASSUME q.stage > q.row.stage, q.stage # TerminalStage
        PROVE  IF q.to = Unassigned THEN IsAdminPage ELSE Offered(q.known, q.to, q.stage + 1)
    <3>1. HandoffStage(page) = page.stage + 1 /\ page.stage + 1 # NotStarted
      BY <1>1, <1>2, <1>3, <1>5, <2>2 DEF HandoffStage, Stages, NotStarted, HARVEST, RETAIL
    <3>2. q.to = page.assign
      BY <1>6, <3>1
    <3>3. CASE page.assign = Unassigned
      BY <1>1, <3>1, <3>2, <3>3 DEF HandoffGiven
    <3>4. CASE page.assign # Unassigned
      <4>1. page.assign \in Candidates(page)
        BY <1>1, <3>4 DEF PagesInv, FormFits
      <4> QED BY <1>1, <1>5, <3>1, <3>2, <3>4, <4>1, MadeCandidates
    <3> QED BY <3>3, <3>4
  <2> QED BY <2>1, <2>2 DEF FitRecord
<1>8. CallsTyped({q}) /\ CallsFit({q})
  BY <1>2, <1>5, <1>7 DEF CallsTyped, CallsFit
<1>9. Steady(page, sent, misdirected')
  BY <1>4 DEF PagesInv
<1> QED BY <1>1, <1>4, <1>5, <1>8, <1>9, SendingKeeps DEF Making

\* NewBatch's: the batch, or the harvest of the batch it has made.
LEMMA NewSubmitted ==
  ASSUME PagesInv, MyRole' = MyRole, SubmitNew
  PROVE  PagesInv'
<1>1. /\ page \in PageShapes /\ page.kind = "new" /\ ~page.busy /\ HandoffGiven(page)
      /\ MyRole \in CreatorRoles
  BY DEF PagesInv, PageTyped, SubmitNew, SubmitDisabled, FormFits
<1>2. /\ page.visit \in Nat /\ page.of \in Batches \cup {NoBatch}
      /\ page.known \in PeopleRows \cup {Nobodies} /\ page.assign \in People \cup {Unassigned}
  BY <1>1 DEF PageShapes
<1>3. HandoffStage(page) = PROCESSING /\ PROCESSING # NotStarted /\ HARVEST + 1 = PROCESSING
  BY <1>1 DEF HandoffStage, PROCESSING, NotStarted, HARVEST
<1>4. IF page.assign = Unassigned THEN IsAdminPage ELSE Offered(page.known, page.assign, PROCESSING)
  <2>1. page.assign = Unassigned => IsAdminPage
    BY <1>1, <1>3 DEF HandoffGiven
  <2>2. page.assign # Unassigned => Offered(page.known, page.assign, PROCESSING)
    BY <1>1, <1>3, MadeCandidates DEF PagesInv, FormFits
  <2> QED BY <2>1, <2>2
<1>5. UNCHANGED <<batches, people, tally, unexplained, misdirected>>
      /\ page' = [page EXCEPT !.busy = TRUE, !.message = "none"]
  BY DEF SubmitNew, Sends
<1>6. Steady(page, sent, misdirected')
  BY <1>5 DEF PagesInv
<1>7. CASE page.of = NoBatch
  <2> DEFINE r == Request("create", page, NoBatch)
             q == [r EXCEPT !.to = page.assign, !.known = page.known]
  <2>1. sent' = sent \cup {q}
    BY <1>7 DEF SubmitNew, Sends, Reusable
  <2>2. r \in CallShapes /\ r.kind = "create" /\ r.visit = page.visit /\ r.answer = "none"
    BY <1>2, Requests
  <2> HIDE DEF r
  <2>3. /\ q \in CallShapes /\ q.kind = "create" /\ q.visit = page.visit /\ q.answer = "none"
        /\ q.to = page.assign /\ q.known = page.known
    BY <1>2, <2>2 DEF CallShapes
  <2> HIDE DEF q
  <2>4. CallsTyped({q}) /\ CallsFit({q})
    BY <1>1, <1>4, <2>3 DEF CallsTyped, CallsFit, FitCreate
  <2> QED BY <1>1, <1>5, <1>6, <1>7, <2>1, <2>3, <2>4, SendingKeeps DEF Making
<1>8. CASE page.of # NoBatch
  <2> DEFINE row == [exists |-> TRUE, stage |-> NotStarted, custodian |-> Me, recalled |-> FALSE]
             no == FALSE
             r == Request("record", page, page.of)
             q == [[r EXCEPT !.stage = HARVEST, !.suggest = no, !.row = row, !.known = page.known,
                             !.to = page.assign] EXCEPT !.created = page.of]
  <2>1. sent' = sent \cup {q}
    BY <1>3, <1>8 DEF SubmitNew, Sends, Reusable, HarvestCall, RecordCall
  <2>2. row \in BatchRows /\ HARVEST \in Stages /\ no \in BOOLEAN
    BY Persons DEF BatchRows, Stages, HARVEST, RETAIL, NotStarted
  <2>3. row.stage = NotStarted /\ row.custodian = Me /\ ~row.recalled
    OBVIOUS
  <2>6. r \in CallShapes /\ r.kind = "record" /\ r.visit = page.visit /\ r.batch = page.of /\ r.answer = "none"
    BY <1>2, Requests
  <2> HIDE DEF row, no, r
  <2>4. /\ q \in CallShapes /\ q.kind = "record" /\ q.visit = page.visit /\ q.batch = page.of
        /\ q.answer = "none" /\ q.stage = HARVEST /\ q.row = row /\ q.known = page.known
        /\ q.to = page.assign
    BY <1>2, <2>2, <2>6 DEF CallShapes
  <2> HIDE DEF q
  <2>5. HARVEST \in ROLE_STAGES[MyRole]
    BY <1>1 DEF CreatorRoles, ROLE_STAGES, Stages, HARVEST, RETAIL
  <2>7. FitRecord(q)
    BY <1>3, <1>4, <2>3, <2>4, <2>5 DEF FitRecord
  <2>8. CallsTyped({q}) /\ CallsFit({q})
    BY <1>2, <1>8, <2>4, <2>7 DEF CallsTyped, CallsFit
  <2> QED BY <1>1, <1>5, <1>6, <1>8, <2>1, <2>4, <2>8, SendingKeeps DEF Making
<1> QED BY <1>7, <1>8

LEMMA RecallSubmitted ==
  ASSUME PagesInv, MyRole' = MyRole, SubmitRecall
  PROVE  PagesInv'
<1>1. /\ page \in PageShapes /\ page.kind = "batch" /\ page.shown # NoBatch /\ page.confirmed # NoBatch
      /\ ~page.busy /\ page.of \in Batches
  BY DEF PagesInv, PageTyped, SubmitRecall, BatchShown, SubmitDisabled
<1> DEFINE asked == Request("recall", page, page.shown)
           q == [asked EXCEPT !.created = page.of]
<1>2. page.shown \in Batches /\ page.visit \in Nat
  BY <1>1 DEF PageShapes
<1>3. /\ asked \in CallShapes /\ asked.kind = "recall" /\ asked.visit = page.visit /\ asked.batch = page.shown
      /\ asked.answer = "none"
  BY <1>2, Requests
<1>4. /\ sent' = sent \cup {q} /\ page' = [page EXCEPT !.busy = TRUE, !.message = "none"]
      /\ misdirected' = misdirected \cup (IF page.confirmed = page.shown THEN {} ELSE {"recalled"})
      /\ UNCHANGED <<batches, people, tally, unexplained>>
  BY DEF SubmitRecall
<1> HIDE DEF asked
<1>5. /\ q \in CallShapes /\ q.kind = "recall" /\ q.visit = page.visit /\ q.batch = page.shown
      /\ q.created = page.of /\ q.answer = "none"
  BY <1>1, <1>3 DEF CallShapes
<1> HIDE DEF q
<1>6. CallsTyped({q}) /\ CallsFit({q})
  BY <1>1, <1>2, <1>5 DEF CallsTyped, CallsFit
<1>7. Steady(page, sent, misdirected')
  BY <1>1, <1>4 DEF PagesInv, Steady
<1> QED BY <1>1, <1>4, <1>5, <1>6, <1>7, SendingKeeps

\* What a page asks for as it loads: the people and the batch, once each.
LEMMA LoadsAre ==
  ASSUME NEW p \in PageShapes, p.kind \in {"record", "batch"} => p.of \in Batches
  PROVE  \A q \in Loads(p) :
           /\ q \in CallShapes /\ q.visit = p.visit /\ q.answer = "none" /\ q.kind \in Reading
           /\ q.kind = "get" => /\ p.kind \in {"record", "batch"} /\ q.batch = p.of
                                /\ q = Request("get", p, p.of)
           /\ q.kind = "actors" => p.kind \in {"new", "record"} /\ q = Request("actors", p, NoBatch)
<1> DEFINE get == Request("get", p, p.of)
           actors == Request("actors", p, NoBatch)
<1>1. p.visit \in Nat /\ p.of \in Batches \cup {NoBatch} /\ p.kind \in {"tasks", "new", "record", "batch"}
  BY DEF PageShapes
<1>2. /\ get \in CallShapes /\ get.kind = "get" /\ get.visit = p.visit /\ get.batch = p.of /\ get.answer = "none"
      /\ actors \in CallShapes /\ actors.kind = "actors" /\ actors.visit = p.visit /\ actors.answer = "none"
  BY <1>1, Requests
<1>3. /\ p.kind = "new" => Loads(p) = {actors}
      /\ p.kind = "record" => Loads(p) = {actors, get}
      /\ p.kind = "batch" => Loads(p) = {get}
      /\ p.kind = "tasks" => Loads(p) = {}
  BY DEF Loads
<1> HIDE DEF get, actors
<1>4. ASSUME NEW q \in Loads(p)
      PROVE  (q = get /\ p.kind \in {"record", "batch"}) \/ (q = actors /\ p.kind \in {"new", "record"})
  BY <1>1, <1>3
<1> QED BY <1>2, <1>4 DEF Reading, get, actors

\* A page mounts: its visit has written nothing, and the writes of others go on.
LEMMA Mounting ==
  ASSUME PagesInv, MyRole' = MyRole, NEW p \in PageShapes, p.visit = page.visit + 1,
         p.shown = NoBatch, p.known = Nobodies, p.assign = Unassigned, p.confirmed = NoBatch,
         p.kind = "new" => MyRole \in CreatorRoles, p.kind \in {"record", "batch"} => p.of \in Batches,
         NEW R, R \subseteq sent, \A q \in R : q.kind \notin Reading,
         page' = p, sent' = R \cup Loads(p),
         UNCHANGED <<batches, people, tally, unexplained, misdirected>>
  PROVE  PagesInv'
<1>1. page.visit \in Nat
  BY DEF PagesInv, PageTyped, PageShapes
<1>2. \A q \in Loads(p) :
           /\ q \in CallShapes /\ q.visit = p.visit /\ q.answer = "none" /\ q.kind \in Reading
           /\ q.kind = "get" => /\ p.kind \in {"record", "batch"} /\ q.batch = p.of
                                /\ q = Request("get", p, p.of)
           /\ q.kind = "actors" => p.kind \in {"new", "record"} /\ q = Request("actors", p, NoBatch)
  BY LoadsAre
<1>3. \A q \in sent' : \/ q \in R /\ q \in sent /\ q.kind \notin Reading /\ q.visit <= page.visit
                       \/ q \in Loads(p)
  BY DEF PagesInv, Traffic
<1>4. \A q \in sent' : q.kind \in Making => q \in R /\ q \in sent /\ q.visit <= page.visit
  BY <1>2, <1>3 DEF Making, Reading
<1>5. \A q \in sent' : q.kind \in Reading => q \in Loads(p)
  BY <1>3
<1>6. RowsTyped' /\ PageTyped(page)' /\ CallsTyped(sent)'
  <2>1. CallsTyped(sent')
    <3>1. sent' \subseteq CallShapes
      BY <1>2, <1>3 DEF PagesInv, CallsTyped
    <3>2. ASSUME NEW q \in sent'
          PROVE  /\ q.kind \in {"get", "record", "recall"} => q.batch \in Batches
                 /\ q.kind = "create" /\ q.answer = "ok" => q.batch \in Batches
                 /\ q.kind = "recall" => q.created \in Batches
      <4>1. CASE q \in R
        BY <4>1 DEF PagesInv, CallsTyped
      <4>2. CASE q \in Loads(p)
        BY <1>2, <4>2 DEF Reading
      <4> QED BY <4>1, <4>2
    <3> QED BY <3>1, <3>2 DEF CallsTyped
  <2>2. CallsTyped(sent)' <=> CallsTyped(sent')
    BY DEF CallsTyped
  <2> QED BY <2>1, <2>2 DEF PagesInv, RowsTyped, PageTyped
<1>7. Traffic(page, sent)'
  <2>1. \A q \in sent' : q.visit <= p.visit
    BY <1>1, <1>2, <1>3 DEF PagesInv, CallsTyped, CallShapes, PageShapes
  <2>2. \A q \in sent' : q.kind \in Reading => q.visit = p.visit
    BY <1>2, <1>5
  <2>3. \A q, r \in sent' : q.kind \in Making /\ r.kind \in Making /\ q.visit = r.visit => q = r
    BY <1>4 DEF PagesInv, Traffic
  <2>4. \A q \in sent' : q.kind \in Making => q.visit # p.visit
    BY <1>1, <1>4 DEF PagesInv, CallsTyped, CallShapes
  <2>5. \A q \in sent' : q.kind = "get" => p.kind \in {"record", "batch"}
    BY <1>2, <1>5 DEF Reading
  <2>8. \A q \in sent' : q.kind = "recall" => q.visit # p.visit
    <3>1. \A q \in sent' : q.kind = "recall" => q.visit <= page.visit /\ q \in sent
      BY <1>2, <1>3 DEF Reading
    <3> QED BY <1>1, <3>1 DEF PagesInv, CallsTyped, CallShapes
  <2>6. \A q, r \in sent' : q.kind = "get" => p.shown = NoBatch /\ (r.kind = "get" => q = r)
    BY <1>2, <1>5 DEF Reading
  <2>7. \A q, r \in sent' : q.kind = "actors" => p.known = Nobodies /\ (r.kind = "actors" => q = r)
    BY <1>2, <1>5 DEF Reading
  <2> QED BY <2>1, <2>2, <2>3, <2>4, <2>5, <2>6, <2>7, <2>8 DEF Traffic
<1>8. FormFits(page)' /\ CallsFit(sent)'
  <2>1. CallsFit(sent')
    BY <1>4 DEF PagesInv, CallsFit, Making
  <2> QED BY <2>1, FitsStay DEF FormFits
<1>9. Steady(page, sent, misdirected)'
  <2>1. \A q \in sent' : q.kind = "get" => q.batch = p.of
    BY <1>2, <1>5 DEF Reading
  <2>2. \A q \in sent' : q.kind = "recall" => q.visit # p.visit
    <3>1. \A q \in sent' : q.kind = "recall" => q.visit <= page.visit /\ q \in sent
      BY <1>2, <1>3 DEF Reading
    <3> QED BY <1>1, <3>1 DEF PagesInv, CallsTyped, CallShapes
  <2> QED BY <2>1, <2>2 DEF PagesInv, Steady
<1>10. Counted(page, sent, tally)'
  <2> SUFFICES ASSUME NEW v \in Visits
               PROVE  /\ MayRecord(p, sent', v) => MayRecord(page, sent, v)
                      /\ MayCreate(p, sent', v) => MayCreate(page, sent, v)
    BY DEF PagesInv, Counted
  <2>1. v \in Nat
    BY DEF Visits
  <2>2. ASSUME NEW q \in sent, q.kind \in Making, q.visit = v, q \notin R
        PROVE  ~(v >= p.visit) /\ ~\E r \in sent' : r.kind \in Making /\ r.visit = v
    <3>1. q.visit <= page.visit
      BY DEF PagesInv, Traffic
    <3>2. \A r \in sent' : r.kind \in Making /\ r.visit = v => r = q
      BY <1>4, <2>2 DEF PagesInv, Traffic
    <3> QED BY <1>1, <1>4, <2>1, <2>2, <3>1, <3>2
  <2>3. MayRecord(p, sent', v) => MayRecord(page, sent, v)
    <3> SUFFICES ASSUME MayRecord(p, sent', v) PROVE MayRecord(page, sent, v)
      OBVIOUS
    <3>1. v >= page.visit \/ \E q \in sent : q.kind \in Making /\ q.visit = v
      BY <1>1, <1>4, <2>1 DEF MayRecord
    <3>2. \A q \in sent : q.kind = "record" /\ q.visit = v => q.answer # "ok"
      BY <2>2 DEF MayRecord, Making
    <3> QED BY <3>1, <3>2 DEF MayRecord
  <2>4. MayCreate(p, sent', v) => MayCreate(page, sent, v)
    <3> SUFFICES ASSUME MayCreate(p, sent', v) PROVE MayCreate(page, sent, v)
      OBVIOUS
    <3>1. v > page.visit \/ \E q \in sent : q.kind = "create" /\ q.visit = v
      BY <1>1, <1>4, <2>1 DEF MayCreate, Making
    <3>2. \A q \in sent : q.kind = "create" /\ q.visit = v => q.answer # "ok"
      <4>1. v >= p.visit \/ \E r \in sent' : r.kind \in Making /\ r.visit = v
        BY <1>1, <2>1 DEF MayCreate, Making
      <4> QED BY <2>2, <4>1 DEF MayCreate, Making
    <3> QED BY <3>1, <3>2 DEF MayCreate
  <2> QED BY <2>3, <2>4
<1> QED BY <1>6, <1>7, <1>8, <1>9, <1>10 DEF PagesInv

LEMMA BlankPages ==
  ASSUME page \in PageShapes, NEW kind \in {"tasks", "new", "record", "batch"}, NEW b \in Batches \cup {NoBatch}
  PROVE  /\ BlankPage(kind, b) \in PageShapes /\ BlankPage(kind, b).visit = page.visit + 1
         /\ BlankPage(kind, b).kind = kind /\ BlankPage(kind, b).of = b /\ BlankPage(kind, b).shown = NoBatch
         /\ BlankPage(kind, b).known = Nobodies /\ BlankPage(kind, b).assign = Unassigned
         /\ BlankPage(kind, b).confirmed = NoBatch
<1>1. page.visit + 1 \in Nat
  BY DEF PageShapes
<1> QED BY <1>1, NoRowIsRow DEF BlankPage, BlankPageAt, PageShapes

LEMMA OpeningKeeps ==
  ASSUME PagesInv, MyRole' = MyRole, OpenPage
  PROVE  PagesInv'
<1>1. page \in PageShapes /\ UNCHANGED <<batches, people, tally, unexplained, misdirected>>
  BY DEF PagesInv, PageTyped, OpenPage
<1>2. PICK kind \in {"tasks", "new", "record", "batch"}, b \in Batches \cup {NoBatch} :
        /\ Mount(BlankPage(kind, b), Writes)
        /\ kind = "new" => MyRole \in CreatorRoles
        /\ kind \in {"record", "batch"} => b \in Batches
  BY DEF OpenPage
<1> DEFINE p == BlankPage(kind, b)
<1>3. page' = p /\ sent' = Writes \cup Loads(p)
  BY <1>2 DEF Mount
<1>4. Writes \subseteq sent /\ \A q \in Writes : q.kind \notin Reading
  BY DEF Writes, Reading
<1>5. /\ p \in PageShapes /\ p.visit = page.visit + 1 /\ p.kind = kind /\ p.of = b /\ p.shown = NoBatch
      /\ p.known = Nobodies /\ p.assign = Unassigned /\ p.confirmed = NoBatch
  BY <1>1, BlankPages
<1> HIDE DEF p
<1> QED BY <1>1, <1>2, <1>3, <1>4, <1>5, Mounting

\* An answer changes nothing of what was asked.
LEMMA ReplyKeeps ==
  ASSUME PagesInv, MyRole' = MyRole, NEW q \in sent, NEW r \in CallShapes, Replied(q, r),
         r.kind = q.kind, r.visit = q.visit, r.created = q.created, CallsTyped({r}),
         q.kind \in Making => /\ r.stage = q.stage /\ r.to = q.to /\ r.row = q.row /\ r.known = q.known,
         q.kind = "get" => r.batch = q.batch,
         RowsTyped', page' = page, misdirected' = misdirected, ~unexplained',
         Counted(page, sent', tally')
  PROVE  PagesInv'
<1>1. /\ sent' = (sent \ {q}) \cup {r}
  BY DEF Replied
<1>2. PageTyped(page)' /\ CallsTyped(sent)'
  BY <1>1 DEF PagesInv, PageTyped, CallsTyped
<1>3. Traffic(page, sent)'
  <2>1. \A a \in sent' : \E b \in sent : /\ a.kind = b.kind /\ a.visit = b.visit
                                         /\ a = r => b = q
                                         /\ a # r => b = a /\ b # q
    BY <1>1
  <2>2. \A a \in sent' : a.visit <= page.visit /\ (a.kind \in Reading => a.visit = page.visit)
    BY <2>1 DEF PagesInv, Traffic
  <2>3. \A a, b \in sent' : a.kind \in Making /\ b.kind \in Making /\ a.visit = b.visit => a = b
    <3> SUFFICES ASSUME NEW a \in sent', NEW b \in sent', a.kind \in Making, b.kind \in Making,
                        a.visit = b.visit
                 PROVE  a = b
      OBVIOUS
    <3>1. PICK c \in sent : /\ a.kind = c.kind /\ a.visit = c.visit /\ (a = r => c = q) /\ (a # r => c = a /\ c # q)
      BY <2>1
    <3>2. PICK d \in sent : /\ b.kind = d.kind /\ b.visit = d.visit /\ (b = r => d = q) /\ (b # r => d = b /\ d # q)
      BY <2>1
    <3>3. c = d
      BY <3>1, <3>2 DEF PagesInv, Traffic
    <3> QED BY <3>1, <3>2, <3>3
  <2>4. \A a \in sent' : a.kind \in Making /\ a.visit = page.visit =>
          /\ page.busy /\ page.kind \in {"new", "record"}
          /\ a.kind = "create" => page.kind = "new" /\ page.of = NoBatch
          /\ a.kind = "record" => (IF page.kind = "new" THEN page.of ELSE page.shown) # NoBatch
    BY <2>1 DEF PagesInv, Traffic
  <2>5. /\ \A a \in sent' : a.kind = "get" => page.kind \in {"record", "batch"}
        /\ \A a \in sent' : a.kind = "recall" /\ a.visit = page.visit => page.kind = "batch"
    BY <2>1 DEF PagesInv, Traffic
  <2>6. page.kind = "record" =>
          \A a, b \in sent' : a.kind = "get" => page.shown = NoBatch /\ (b.kind = "get" => a = b)
    <3> SUFFICES ASSUME page.kind = "record", NEW a \in sent', NEW b \in sent', a.kind = "get"
                 PROVE  page.shown = NoBatch /\ (b.kind = "get" => a = b)
      OBVIOUS
    <3>1. PICK c \in sent : /\ a.kind = c.kind /\ a.visit = c.visit /\ (a = r => c = q) /\ (a # r => c = a /\ c # q)
      BY <2>1
    <3>2. PICK d \in sent : /\ b.kind = d.kind /\ b.visit = d.visit /\ (b = r => d = q) /\ (b # r => d = b /\ d # q)
      BY <2>1
    <3>3. page.shown = NoBatch /\ (d.kind = "get" => c = d)
      BY <3>1, <3>2 DEF PagesInv, Traffic
    <3> QED BY <3>1, <3>2, <3>3
  <2>7. \A a, b \in sent' : a.kind = "actors" => page.known = Nobodies /\ (b.kind = "actors" => a = b)
    <3> SUFFICES ASSUME NEW a \in sent', NEW b \in sent', a.kind = "actors"
                 PROVE  page.known = Nobodies /\ (b.kind = "actors" => a = b)
      OBVIOUS
    <3>1. PICK c \in sent : /\ a.kind = c.kind /\ a.visit = c.visit /\ (a = r => c = q) /\ (a # r => c = a /\ c # q)
      BY <2>1
    <3>2. PICK d \in sent : /\ b.kind = d.kind /\ b.visit = d.visit /\ (b = r => d = q) /\ (b # r => d = b /\ d # q)
      BY <2>1
    <3>3. page.known = Nobodies /\ (d.kind = "actors" => c = d)
      BY <3>1, <3>2 DEF PagesInv, Traffic
    <3> QED BY <3>1, <3>2, <3>3
  <2> QED BY <2>2, <2>3, <2>4, <2>5, <2>6, <2>7 DEF Traffic
<1>4. FormFits(page)' /\ CallsFit(sent)'
  <2>1. q.kind = "record" => FitRecord(r)
    BY DEF PagesInv, CallsFit, FitRecord, Making
  <2>2. q.kind = "create" => FitCreate(r)
    BY DEF PagesInv, CallsFit, FitCreate, Making
  <2>3. CallsFit(sent')
    BY <1>1, <2>1, <2>2 DEF PagesInv, CallsFit
  <2> QED BY <2>3, FitsStay DEF PagesInv
<1>5. Steady(page, sent, misdirected)'
  BY <1>1 DEF PagesInv, Steady
<1> QED BY <1>2, <1>3, <1>4, <1>5 DEF PagesInv, Counted, MayRecord, MayCreate

\* Nothing is counted: reads, recalls, and writes that fail.
LEMMA NothingCounted ==
  ASSUME PagesInv, NEW q \in sent, NEW r, sent' = (sent \ {q}) \cup {r}, r.kind = q.kind, r.visit = q.visit,
         q.kind \in Making => q.answer = "none", tally' = tally
  PROVE  Counted(page, sent', tally')
<1> SUFFICES ASSUME NEW v \in Visits
             PROVE  /\ MayRecord(page, sent', v) => MayRecord(page, sent, v)
                    /\ MayCreate(page, sent', v) => MayCreate(page, sent, v)
  BY DEF PagesInv, Counted
<1>1. MayRecord(page, sent', v) => MayRecord(page, sent, v)
  <2> SUFFICES ASSUME MayRecord(page, sent', v) PROVE MayRecord(page, sent, v)
    OBVIOUS
  <2>1. v >= page.visit \/ \E a \in sent : a.kind \in Making /\ a.visit = v
    BY DEF MayRecord
  <2>2. \A a \in sent : a.kind = "record" /\ a.visit = v => a.answer # "ok"
    BY DEF MayRecord, Making
  <2> QED BY <2>1, <2>2 DEF MayRecord
<1>2. MayCreate(page, sent', v) => MayCreate(page, sent, v)
  <2> SUFFICES ASSUME MayCreate(page, sent', v) PROVE MayCreate(page, sent, v)
    OBVIOUS
  <2>1. v > page.visit \/ (v = page.visit /\ page.of = NoBatch) \/ \E a \in sent : a.kind = "create" /\ a.visit = v
    BY DEF MayCreate
  <2>2. \A a \in sent : a.kind = "create" /\ a.visit = v => a.answer # "ok"
    BY DEF MayCreate, Making
  <2> QED BY <2>1, <2>2 DEF MayCreate
<1> QED BY <1>1, <1>2

\* One field of one visit's tally goes up.
LEMMA CountIs ==
  ASSUME RowsTyped, NEW q, NEW field \in {"created", "recorded", "unheard"}, Count(q, field)
  PROVE  /\ tally' \in [Visits -> Tallies]
         /\ \A v \in Visits \ {q.visit} : tally'[v] = tally[v]
         /\ q.visit \in Visits =>
              /\ field = "created" => /\ tally'[q.visit].created = tally[q.visit].created + 1
                                      /\ tally'[q.visit].recorded = tally[q.visit].recorded
                                      /\ tally'[q.visit].unheard = tally[q.visit].unheard
              /\ field = "recorded" => /\ tally'[q.visit].created = tally[q.visit].created
                                       /\ tally'[q.visit].recorded = tally[q.visit].recorded + 1
                                       /\ tally'[q.visit].unheard = tally[q.visit].unheard
              /\ field = "unheard" => /\ tally'[q.visit].created = tally[q.visit].created
                                      /\ tally'[q.visit].recorded = tally[q.visit].recorded
                                      /\ tally'[q.visit].unheard = tally[q.visit].unheard + 1
<1>1. tally \in [Visits -> Tallies] /\ tally' = [tally EXCEPT ![q.visit][field] = @ + 1]
  BY DEF RowsTyped, Count
<1>2. CASE q.visit \notin Visits
  BY <1>1, <1>2
<1>3. CASE q.visit \in Visits
  <2> DEFINE t == tally[q.visit]
             u == [t EXCEPT ![field] = @ + 1]
  <2>1. t \in Tallies
    BY <1>1, <1>3
  <2>2. tally' = [tally EXCEPT ![q.visit] = u]
    BY <1>1
  <2>3. t.created \in Nat /\ t.recorded \in Nat /\ t.unheard \in Nat
    BY <2>1 DEF Tallies
  <2> HIDE DEF t
  <2>4. /\ u \in Tallies
        /\ field = "created" => u.created = t.created + 1 /\ u.recorded = t.recorded /\ u.unheard = t.unheard
        /\ field = "recorded" => u.created = t.created /\ u.recorded = t.recorded + 1 /\ u.unheard = t.unheard
        /\ field = "unheard" => u.created = t.created /\ u.recorded = t.recorded /\ u.unheard = t.unheard + 1
    <3>1. CASE field = "created"
      BY <2>1, <2>3, <3>1 DEF Tallies
    <3>2. CASE field = "recorded"
      BY <2>1, <2>3, <3>2 DEF Tallies
    <3>3. CASE field = "unheard"
      BY <2>1, <2>3, <3>3 DEF Tallies
    <3> QED BY <3>1, <3>2, <3>3
  <2> HIDE DEF u
  <2>5. tally' \in [Visits -> Tallies] /\ tally'[q.visit] = u /\ \A v \in Visits \ {q.visit} : tally'[v] = tally[v]
    BY <1>1, <1>3, <2>2, <2>4
  <2> QED BY <1>3, <2>4, <2>5 DEF t
<1> QED BY <1>2, <1>3

\* A write is made: its visit, which could still write, can no more.
LEMMA WriteCounted ==
  ASSUME PagesInv, NEW q \in sent, NEW r, sent' = (sent \ {q}) \cup {r}, r.kind = q.kind, r.visit = q.visit,
         q.kind \in Making, q.answer = "none", r.answer = "ok",
         Count(q, IF q.kind = "create" THEN "created" ELSE "recorded")
  PROVE  Counted(page, sent', tally')
<1> DEFINE field == IF q.kind = "create" THEN "created" ELSE "recorded"
<1>1. RowsTyped /\ field \in {"created", "recorded", "unheard"} /\ Count(q, field)
  BY DEF PagesInv
<1>2. field = IF q.kind = "create" THEN "created" ELSE "recorded"
  OBVIOUS
<1> HIDE DEF field
<1> SUFFICES ASSUME NEW v \in Visits
             PROVE  /\ tally'[v].created <= 1 + tally'[v].unheard /\ tally'[v].recorded <= 1 + tally'[v].unheard
                    /\ MayRecord(page, sent', v) => tally'[v].recorded <= tally'[v].unheard
                    /\ MayCreate(page, sent', v) => tally'[v].created <= tally'[v].unheard
  BY DEF Counted
<1>3. tally[v] \in Tallies
  BY <1>1 DEF RowsTyped
<1>4. tally[v].created \in Nat /\ tally[v].recorded \in Nat /\ tally[v].unheard \in Nat
  BY <1>3 DEF Tallies
<1>5. /\ tally[v].created <= 1 + tally[v].unheard /\ tally[v].recorded <= 1 + tally[v].unheard
      /\ MayRecord(page, sent, v) => tally[v].recorded <= tally[v].unheard
      /\ MayCreate(page, sent, v) => tally[v].created <= tally[v].unheard
  BY DEF PagesInv, Counted
<1>6. CASE q.visit # v
  <2>1. tally'[v] = tally[v]
    BY <1>1, <1>6, CountIs
  <2>2. MayRecord(page, sent', v) => MayRecord(page, sent, v)
    BY <1>6 DEF MayRecord
  <2>3. MayCreate(page, sent', v) => MayCreate(page, sent, v)
    BY <1>6 DEF MayCreate
  <2> QED BY <1>5, <2>1, <2>2, <2>3
<1>7. CASE q.visit = v
  <2>1. \A a \in sent : a.kind \in Making /\ a.visit = v => a = q
    BY <1>7 DEF PagesInv, Traffic
  <2>2. CASE q.kind = "create"
    <3>1. /\ tally'[v].created = tally[v].created + 1 /\ tally'[v].recorded = tally[v].recorded
          /\ tally'[v].unheard = tally[v].unheard
      BY <1>1, <1>2, <1>7, <2>2, CountIs
    <3>2. MayCreate(page, sent, v)
      BY <1>7, <2>1, <2>2 DEF MayCreate, Making
    <3>3. ~MayCreate(page, sent', v)
      BY <1>7, <2>2 DEF MayCreate
    <3>4. MayRecord(page, sent, v)
      BY <1>7, <2>1, <2>2 DEF MayRecord, Making
    <3> QED BY <1>4, <1>5, <3>1, <3>2, <3>3, <3>4
  <2>3. CASE q.kind = "record"
    <3>1. /\ tally'[v].created = tally[v].created /\ tally'[v].recorded = tally[v].recorded + 1
          /\ tally'[v].unheard = tally[v].unheard
      BY <1>1, <1>2, <1>7, <2>3, CountIs
    <3>2. MayRecord(page, sent, v)
      BY <1>7, <2>1, <2>3 DEF MayRecord, Making
    <3>3. ~MayRecord(page, sent', v)
      BY <1>7, <2>3 DEF MayRecord
    <3>4. MayCreate(page, sent', v) => MayCreate(page, sent, v)
      BY <1>7, <2>1, <2>3 DEF MayCreate, Making
    <3> QED BY <1>4, <1>5, <3>1, <3>2, <3>3, <3>4
  <2> QED BY <2>2, <2>3 DEF Making
<1> QED BY <1>6, <1>7

\* An answer that is lost pays for the write it was about.
LEMMA LossCounted ==
  ASSUME PagesInv, NEW q \in sent, NEW r, sent' = (sent \ {q}) \cup {r}, r.kind = q.kind, r.visit = q.visit,
         Count(q, "unheard")
  PROVE  Counted(page, sent', tally')
<1>1. RowsTyped /\ "unheard" \in {"created", "recorded", "unheard"}
  BY DEF PagesInv
<1> SUFFICES ASSUME NEW v \in Visits
             PROVE  /\ tally'[v].created <= 1 + tally'[v].unheard /\ tally'[v].recorded <= 1 + tally'[v].unheard
                    /\ MayRecord(page, sent', v) => tally'[v].recorded <= tally'[v].unheard
                    /\ MayCreate(page, sent', v) => tally'[v].created <= tally'[v].unheard
  BY DEF Counted
<1>3. tally[v] \in Tallies
  BY <1>1 DEF RowsTyped
<1>4. tally[v].created \in Nat /\ tally[v].recorded \in Nat /\ tally[v].unheard \in Nat
  BY <1>3 DEF Tallies
<1>5. /\ tally[v].created <= 1 + tally[v].unheard /\ tally[v].recorded <= 1 + tally[v].unheard
      /\ MayRecord(page, sent, v) => tally[v].recorded <= tally[v].unheard
      /\ MayCreate(page, sent, v) => tally[v].created <= tally[v].unheard
  BY DEF PagesInv, Counted
<1>6. CASE q.visit # v
  <2>1. tally'[v] = tally[v]
    BY <1>1, <1>6, CountIs
  <2>2. MayRecord(page, sent', v) => MayRecord(page, sent, v)
    BY <1>6 DEF MayRecord
  <2>3. MayCreate(page, sent', v) => MayCreate(page, sent, v)
    BY <1>6 DEF MayCreate
  <2> QED BY <1>5, <2>1, <2>2, <2>3
<1>7. CASE q.visit = v
  <2>1. /\ tally'[v].created = tally[v].created /\ tally'[v].recorded = tally[v].recorded
        /\ tally'[v].unheard = tally[v].unheard + 1
    BY <1>1, <1>7, CountIs
  <2> QED BY <1>4, <1>5, <2>1
<1> QED BY <1>6, <1>7

\* Another answer, and nothing else of the request.
LEMMA AnswersGiven ==
  ASSUME NEW q \in CallShapes, CallsTyped({q}), NEW a \in {"refused", "failed", "lost", "ok"},
         q.kind # "create" \/ a # "ok"
  PROVE  \E r \in CallShapes :
           /\ r = [q EXCEPT !.answer = a]
           /\ r.kind = q.kind /\ r.visit = q.visit /\ r.created = q.created /\ r.batch = q.batch /\ r.answer = a
           /\ r.stage = q.stage /\ r.to = q.to /\ r.row = q.row /\ r.known = q.known
           /\ CallsTyped({r})
<1> DEFINE r == [q EXCEPT !.answer = a]
<1>1. /\ r \in CallShapes /\ r.kind = q.kind /\ r.visit = q.visit /\ r.created = q.created /\ r.batch = q.batch /\ r.answer = a
      /\ r.stage = q.stage /\ r.to = q.to /\ r.row = q.row /\ r.known = q.known
  BY DEF CallShapes
<1>3. r = [q EXCEPT !.answer = a]
  OBVIOUS
<1> HIDE DEF r
<1>2. CallsTyped({r})
  BY <1>1 DEF CallsTyped
<1> QED BY <1>1, <1>2, <1>3

LEMMA ReadServed ==
  ASSUME PagesInv, MyRole' = MyRole, NEW q \in sent, ServeRead(q)
  PROVE  PagesInv'
<1>1. q \in CallShapes /\ (q.kind = "get" => q.batch \in Batches) /\ RowsTyped
  BY DEF PagesInv, CallsTyped
<1>2. q.kind \in {"actors", "get"} /\ q.kind \notin Making
      /\ UNCHANGED <<batches, people, page, tally, unexplained, misdirected>>
  BY DEF ServeRead, Making
<1> DEFINE r == IF q.kind = "actors" THEN [q EXCEPT !.answer = "ok", !.known = people]
                ELSE [q EXCEPT !.answer = "ok", !.row = batches[q.batch]]
<1>3. Replied(q, r)
  BY DEF ServeRead
<1>4. r \in CallShapes /\ r.kind = q.kind /\ r.visit = q.visit /\ r.created = q.created /\ r.batch = q.batch
  <2>1. CASE q.kind = "actors"
    <3>1. people \in PeopleRows \cup {Nobodies}
      BY <1>1 DEF RowsTyped
    <3> QED BY <1>1, <2>1, <3>1 DEF CallShapes
  <2>2. CASE q.kind = "get"
    <3>1. batches[q.batch] \in BatchRows
      BY <1>1, <2>2 DEF RowsTyped
    <3> QED BY <1>1, <2>2, <3>1 DEF CallShapes
  <2> QED BY <1>2, <2>1, <2>2
<1> HIDE DEF r
<1>5. CallsTyped({r})
  BY <1>1, <1>2, <1>4 DEF CallsTyped
<1>6. RowsTyped' /\ ~unexplained'
  BY <1>2 DEF PagesInv, RowsTyped
<1>7. Counted(page, sent', tally')
  BY <1>2, <1>3, <1>4, NothingCounted DEF Replied
<1> QED BY <1>2, <1>3, <1>4, <1>5, <1>6, <1>7, ReplyKeeps

LEMMA CreateServed ==
  ASSUME PagesInv, MyRole' = MyRole, NEW q \in sent, ServeCreate(q)
  PROVE  PagesInv'
<1>1. q \in CallShapes /\ RowsTyped /\ q.kind = "create" /\ q.answer = "none"
  BY DEF PagesInv, CallsTyped, ServeCreate
<1> PICK b \in Batches : /\ batches' = [batches EXCEPT ![b] = [NoRow EXCEPT !.exists = TRUE, !.custodian = Me]]
                         /\ Replied(q, [q EXCEPT !.answer = "ok", !.batch = b])
  BY DEF ServeCreate
<1> DEFINE r == [q EXCEPT !.answer = "ok", !.batch = b]
           row == [NoRow EXCEPT !.exists = TRUE, !.custodian = Me]
<1>2. /\ r \in CallShapes /\ r.kind = q.kind /\ r.visit = q.visit /\ r.created = q.created /\ r.batch = b /\ r.answer = "ok"
      /\ r.stage = q.stage /\ r.to = q.to /\ r.row = q.row /\ r.known = q.known
  BY <1>1 DEF CallShapes
<1>3. row \in BatchRows
  BY NoRowIsRow, Persons DEF BatchRows
<1>4. Replied(q, r) /\ batches' = [batches EXCEPT ![b] = row]
  OBVIOUS
<1> HIDE DEF r, row
<1>5. UNCHANGED <<people, page, unexplained, misdirected>> /\ Count(q, "created")
  BY DEF ServeCreate
<1>6. tally' \in [Visits -> Tallies]
  BY <1>1, <1>5, CountIs
<1>7. RowsTyped' /\ ~unexplained'
  BY <1>1, <1>3, <1>4, <1>5, <1>6 DEF PagesInv, RowsTyped
<1>8. CallsTyped({r})
  BY <1>1, <1>2 DEF CallsTyped
<1>9. Counted(page, sent', tally')
  BY <1>1, <1>2, <1>4, <1>5, WriteCounted DEF Replied, Making
<1> QED BY <1>1, <1>2, <1>4, <1>5, <1>7, <1>8, <1>9, ReplyKeeps

\* A request that fits what its form showed is refused only if that has changed.
LEMMA RefusalsExplained ==
  ASSUME PagesInv, NEW q \in sent, q.kind = "record", RecordRefused(q)
  PROVE  Explained(q)
<1> SUFFICES ASSUME q.row = batches[q.batch], q.known = people PROVE FALSE
  BY DEF Explained
<1>1. FitRecord(q)
  BY DEF PagesInv, CallsFit
<1> QED BY <1>1 DEF FitRecord, RecordRefused, HandOffAsked, Advances, Offered, IsAdminPage

LEMMA RecordServed ==
  ASSUME PagesInv, MyRole' = MyRole, NEW q \in sent, ServeRecord(q)
  PROVE  PagesInv'
<1>1. /\ q \in CallShapes /\ RowsTyped /\ q.kind = "record" /\ q.answer = "none" /\ q.batch \in Batches
      /\ UNCHANGED <<people, page, misdirected>>
  BY DEF PagesInv, CallsTyped, ServeRecord
<1>2. CallsTyped({q})
  BY DEF PagesInv, CallsTyped
<1>3. CASE RecordRefused(q) /\ Replied(q, [q EXCEPT !.answer = "refused"])
           /\ unexplained' = (unexplained \/ ~Explained(q)) /\ UNCHANGED <<batches, tally>>
  <2>1. PICK r \in CallShapes :
          /\ r = [q EXCEPT !.answer = "refused"]
          /\ r.kind = q.kind /\ r.visit = q.visit /\ r.created = q.created /\ r.batch = q.batch /\ r.answer = "refused"
          /\ r.stage = q.stage /\ r.to = q.to /\ r.row = q.row /\ r.known = q.known
          /\ CallsTyped({r})
    BY <1>1, <1>2, AnswersGiven
  <2>6. Replied(q, r)
    BY <1>3, <2>1
  <2>2. RowsTyped' /\ ~unexplained'
    BY <1>1, <1>3, RefusalsExplained DEF PagesInv, RowsTyped
  <2>3. Counted(page, sent', tally')
    BY <1>1, <1>3, <2>1, <2>6, NothingCounted DEF Replied
  <2> QED BY <1>1, <2>1, <2>2, <2>3, <2>6, ReplyKeeps
<1>4. CASE /\ Replied(q, [q EXCEPT !.answer = "ok"]) /\ batches' = [batches EXCEPT ![q.batch] = RowAfterRecord(q)]
           /\ Count(q, "recorded") /\ UNCHANGED unexplained
  <2>1. PICK r \in CallShapes :
          /\ r = [q EXCEPT !.answer = "ok"]
          /\ r.kind = q.kind /\ r.visit = q.visit /\ r.created = q.created /\ r.batch = q.batch /\ r.answer = "ok"
          /\ r.stage = q.stage /\ r.to = q.to /\ r.row = q.row /\ r.known = q.known
          /\ CallsTyped({r})
    BY <1>1, <1>2, AnswersGiven
  <2>6. Replied(q, r)
    BY <1>4, <2>1
  <2>2. RowAfterRecord(q) \in BatchRows
    <3>1. batches[q.batch] \in BatchRows
      BY <1>1 DEF RowsTyped
    <3>2. q.stage \in Stages \cup {NotStarted} /\ q.to \in People \cup {Unassigned}
      BY <1>1 DEF CallShapes
    <3>3. (IF q.stage = TerminalStage THEN Unassigned ELSE q.to) \in People \cup {Unassigned}
      BY <3>2
    <3> QED BY <3>1, <3>2, <3>3 DEF RowAfterRecord, BatchRows
  <2>3. tally' \in [Visits -> Tallies]
    BY <1>1, <1>4, CountIs
  <2>4. RowsTyped' /\ ~unexplained'
    BY <1>1, <1>4, <2>2, <2>3 DEF PagesInv, RowsTyped
  <2>5. Counted(page, sent', tally')
    BY <1>1, <1>4, <2>1, <2>6, WriteCounted DEF Replied, Making
  <2> QED BY <1>1, <2>1, <2>4, <2>5, <2>6, ReplyKeeps
<1> QED BY <1>3, <1>4 DEF ServeRecord

LEMMA RecallServed ==
  ASSUME PagesInv, MyRole' = MyRole, NEW q \in sent, ServeRecall(q)
  PROVE  PagesInv'
<1>1. /\ q \in CallShapes /\ CallsTyped({q}) /\ RowsTyped /\ q.kind = "recall" /\ q.kind \notin Making
      /\ q.batch \in Batches /\ UNCHANGED <<people, page, tally, unexplained, misdirected>>
  BY DEF PagesInv, CallsTyped, ServeRecall, Making
<1>2. PICK a \in {"refused", "ok"} : Replied(q, [q EXCEPT !.answer = a])
  BY DEF ServeRecall
<1>4. PICK r \in CallShapes :
        /\ r = [q EXCEPT !.answer = a]
        /\ r.kind = q.kind /\ r.visit = q.visit /\ r.created = q.created /\ r.batch = q.batch /\ r.answer = a
        /\ r.stage = q.stage /\ r.to = q.to /\ r.row = q.row /\ r.known = q.known
        /\ CallsTyped({r})
  <2>1. a \in {"refused", "failed", "lost", "ok"} /\ (q.kind # "create" \/ a # "ok")
    BY <1>1
  <2>2. q \in CallShapes /\ CallsTyped({q})
    BY <1>1
  <2> QED BY <2>1, <2>2, AnswersGiven
<1>3. Replied(q, r)
  BY <1>2, <1>4
<1>5. RowsTyped' /\ ~unexplained'
  <2>1. batches' = batches \/ batches' = [batches EXCEPT ![q.batch].recalled = TRUE]
    BY DEF ServeRecall
  <2>2. batches' \in [Batches -> BatchRows]
    <3> DEFINE row == [batches[q.batch] EXCEPT !.recalled = TRUE]
    <3>1. row \in BatchRows
      BY <1>1 DEF RowsTyped, BatchRows
    <3>2. batches' = batches \/ batches' = [batches EXCEPT ![q.batch] = row]
      BY <2>1
    <3> HIDE DEF row
    <3> QED BY <1>1, <3>1, <3>2 DEF RowsTyped
  <2> QED BY <1>1, <2>2 DEF PagesInv, RowsTyped
<1>6. Counted(page, sent', tally')
  BY <1>1, <1>3, <1>4, NothingCounted DEF Replied
<1> QED BY <1>1, <1>3, <1>4, <1>5, <1>6, ReplyKeeps

LEMMA SlipsKeep ==
  ASSUME PagesInv, MyRole' = MyRole, NEW q \in sent, FailCall(q) \/ LoseAnswer(q)
  PROVE  PagesInv'
<1>1. /\ q \in CallShapes /\ CallsTyped({q}) /\ RowsTyped
      /\ UNCHANGED <<batches, people, page, unexplained, misdirected>>
  BY DEF PagesInv, CallsTyped, FailCall, LoseAnswer
<1>2. PICK a \in {"lost", "failed"} : Replied(q, [q EXCEPT !.answer = a])
  BY DEF FailCall, LoseAnswer
<1> DEFINE r == [q EXCEPT !.answer = a]
<1>3. Replied(q, r)
  BY <1>2
<1>4. /\ r \in CallShapes /\ r.kind = q.kind /\ r.visit = q.visit /\ r.created = q.created /\ r.batch = q.batch /\ r.answer = a
      /\ r.stage = q.stage /\ r.to = q.to /\ r.row = q.row /\ r.known = q.known
  BY <1>1 DEF CallShapes
<1> HIDE DEF r
<1>7. CallsTyped({r})
  BY <1>1, <1>4 DEF CallsTyped
<1>5. Counted(page, sent', tally') /\ tally' \in [Visits -> Tallies]
  <2>1. CASE FailCall(q)
    <3>1. q.answer = "none" /\ tally' = tally
      BY <2>1 DEF FailCall
    <3> QED BY <1>1, <1>3, <1>4, <3>1, NothingCounted DEF Replied, RowsTyped
  <2>2. CASE LoseAnswer(q)
    <3>1. Count(q, "unheard") /\ "unheard" \in {"created", "recorded", "unheard"}
      BY <2>2 DEF LoseAnswer
    <3>2. tally' \in [Visits -> Tallies]
      BY <1>1, <3>1, CountIs
    <3> QED BY <1>3, <1>4, <3>1, <3>2, LossCounted DEF Replied
  <2> QED BY <2>1, <2>2
<1>6. RowsTyped' /\ ~unexplained'
  BY <1>1, <1>5 DEF PagesInv, RowsTyped
<1> QED BY <1>1, <1>3, <1>4, <1>5, <1>6, <1>7, ReplyKeeps

\* The others' changes, and no change.
LEMMA NewsKeeps ==
  ASSUME PagesInv, MyRole' = MyRole, people' \in PeopleRows, News \/ UNCHANGED pageVars
  PROVE  PagesInv'
<1>1. UNCHANGED <<page, sent, tally, unexplained, misdirected>>
  BY DEF News, pageVars
<1>2. batches' \in [Batches -> BatchRows]
  <2>1. batches \in [Batches -> BatchRows]
    BY DEF PagesInv, RowsTyped
  <2>2. ASSUME NEW b \in Batches, NEW s \in Stages, NEW a \in People \cup {Unassigned},
               batches' = [batches EXCEPT ![b].stage = s, ![b].custodian = a]
        PROVE  batches' \in [Batches -> BatchRows]
    <3> DEFINE row == [batches[b] EXCEPT !.stage = s, !.custodian = a]
    <3>1. row \in BatchRows
      BY <2>1 DEF BatchRows
    <3>2. batches' = [batches EXCEPT ![b] = row]
      BY <2>1, <2>2
    <3> HIDE DEF row
    <3> QED BY <2>1, <3>1, <3>2
  <2>3. ASSUME NEW b \in Batches, batches' = [batches EXCEPT ![b].recalled = TRUE]
        PROVE  batches' \in [Batches -> BatchRows]
    <3> DEFINE row == [batches[b] EXCEPT !.recalled = TRUE]
    <3>1. row \in BatchRows
      BY <2>1 DEF BatchRows
    <3>2. batches' = [batches EXCEPT ![b] = row]
      BY <2>3
    <3> HIDE DEF row
    <3> QED BY <2>1, <3>1, <3>2
  <2>4. \/ batches' = batches
        \/ \E b \in Batches, s \in Stages, a \in People \cup {Unassigned} :
              batches' = [batches EXCEPT ![b].stage = s, ![b].custodian = a]
        \/ \E b \in Batches : batches' = [batches EXCEPT ![b].recalled = TRUE]
    BY DEF News, pageVars
  <2> QED BY <2>1, <2>2, <2>3, <2>4
<1>3. FormFits(page)' /\ CallsFit(sent)'
  BY <1>1, FitsStay DEF PagesInv
<1> QED BY <1>1, <1>2, <1>3 DEF PagesInv, RowsTyped, PageTyped, CallsTyped, Traffic, Steady, Counted,
                                MayRecord, MayCreate

-----------------------------------------------------------------------------
(* Answers heard *)

\* A page and the requests left, both as they should be.
LEMMA PageReplaced ==
  ASSUME PagesInv, MyRole' = MyRole, NEW p, NEW S, page' = p, sent' = S,
         UNCHANGED <<batches, people, tally, unexplained>>,
         PageTyped(p), CallsTyped(S), Traffic(p, S), FormFits(p), CallsFit(S), Steady(p, S, misdirected'),
         Counted(p, S, tally)
  PROVE  PagesInv'
<1>1. FormFits(page)' /\ CallsFit(sent)'
  BY FitsStay
<1>2. RowsTyped' /\ ~unexplained'
  BY DEF PagesInv, RowsTyped
<1>3. PageTyped(page)' /\ CallsTyped(sent)' /\ Traffic(page, sent)'
  BY DEF PageTyped, CallsTyped, Traffic
<1>4. Steady(page, sent, misdirected)' /\ Counted(page, sent, tally)'
  BY DEF Steady, Counted, MayRecord, MayCreate
<1> QED BY <1>1, <1>2, <1>3, <1>4 DEF PagesInv

LEMMA SettledReplaced ==
  ASSUME PagesInv, MyRole' = MyRole, NEW p, NEW S, Heard(p, S),
         PageTyped(p), CallsTyped(S), Traffic(p, S), FormFits(p), CallsFit(S), Steady(p, S, misdirected),
         Counted(p, S, tally)
  PROVE  PagesInv'
<1> DEFINE r == Settled(p)
<1>1. page' = r /\ sent' = S /\ UNCHANGED <<batches, people, tally, unexplained, misdirected>>
  BY DEF Heard
<1>2. /\ r \in PageShapes
      /\ r.kind = p.kind /\ r.visit = p.visit /\ r.of = p.of /\ r.shown = p.shown /\ r.row = p.row
      /\ r.known = p.known /\ r.stage = p.stage /\ r.busy = p.busy /\ r.confirmed = p.confirmed
      /\ r.assign \in {p.assign} \cup Candidates(p)
  BY SettledPage DEF PageTyped
<1> HIDE DEF r
<1>3. Candidates(r) = Candidates(p)
  BY <1>2, CandidatesSame
<1>4. PageTyped(r) /\ Traffic(r, S)
  BY <1>2 DEF PageTyped, Traffic
<1>5. FormFits(r)
  BY <1>2, <1>3 DEF FormFits
<1>6. Steady(r, S, misdirected')
  BY <1>1, <1>2 DEF Steady
<1>7. Counted(r, S, tally)
  BY <1>2 DEF Counted, MayRecord, MayCreate
<1> QED BY <1>1, <1>4, <1>5, <1>6, <1>7, PageReplaced

\* With an answer taken off, what holds of the requests holds of the rest.
LEMMA Fewer ==
  ASSUME PagesInv, NEW q \in sent
  PROVE  /\ CallsTyped(sent \ {q}) /\ CallsFit(sent \ {q}) /\ Traffic(page, sent \ {q})
         /\ Steady(page, sent \ {q}, misdirected)
         /\ (q.kind \in Making => q.answer # "ok") => Counted(page, sent \ {q}, tally)
<1>1. CallsTyped(sent \ {q}) /\ CallsFit(sent \ {q}) /\ Steady(page, sent \ {q}, misdirected)
  BY DEF PagesInv, CallsTyped, CallsFit, Steady
<1>2. Traffic(page, sent \ {q})
  BY DEF PagesInv, Traffic
<1>3. ASSUME q.kind \in Making => q.answer # "ok", NEW v \in Visits
      PROVE  /\ MayRecord(page, sent \ {q}, v) => MayRecord(page, sent, v)
             /\ MayCreate(page, sent \ {q}, v) => MayCreate(page, sent, v)
  BY <1>3 DEF MayRecord, MayCreate, Making
<1>4. ASSUME q.kind \in Making => q.answer # "ok" PROVE Counted(page, sent \ {q}, tally)
  BY <1>3, <1>4 DEF PagesInv, Counted
<1> QED BY <1>1, <1>2, <1>4

\* Pages that differ from the open one only in what nobody's request hangs on.
LEMMA AlikeFits ==
  ASSUME PagesInv, NEW p \in PageShapes, NEW S, Traffic(page, S), Steady(page, S, misdirected),
         p.kind = page.kind, p.visit = page.visit, p.of = page.of, p.shown = page.shown, p.row = page.row,
         p.known = page.known, p.stage = page.stage, p.assign = page.assign,
         p.confirmed = page.confirmed \/ p.confirmed = NoBatch,
         p.busy = page.busy \/ \A q \in S : q.kind \in Making => q.visit # page.visit
  PROVE  /\ PageTyped(p) /\ Traffic(p, S) /\ FormFits(p) /\ Steady(p, S, misdirected)
         /\ Counted(page, S, tally) => Counted(p, S, tally)
<1>1. PageTyped(p)
  BY DEF PagesInv, PageTyped
<1>2. Traffic(p, S)
  BY DEF Traffic
<1>3. Candidates(p) = Candidates(page)
  BY CandidatesSame
<1>4. FormFits(p)
  BY <1>3 DEF PagesInv, FormFits
<1>5. Steady(p, S, misdirected)
  BY DEF Steady
<1>6. Counted(page, S, tally) => Counted(p, S, tally)
  BY DEF Counted, MayRecord, MayCreate
<1> QED BY <1>1, <1>2, <1>4, <1>5, <1>6

LEMMA ActorsHeard ==
  ASSUME PagesInv, MyRole' = MyRole, NEW q \in sent, HearActors(q)
  PROVE  PagesInv'
<1> DEFINE S == sent \ {q}
<1>1. /\ page \in PageShapes /\ PageTyped(page) /\ q \in CallShapes /\ q.kind = "actors" /\ q.kind \notin Making
  BY DEF PagesInv, PageTyped, CallsTyped, HearActors, Making
<1>2. /\ CallsTyped(S) /\ CallsFit(S) /\ Traffic(page, S) /\ Steady(page, S, misdirected)
      /\ Counted(page, S, tally)
  BY <1>1, Fewer
<1>3. FormFits(page)
  BY DEF PagesInv
<1>4. CASE q.answer # "ok"
  <2>1. Heard(page, S)
    BY <1>4 DEF HearActors, Good
  <2> QED BY <1>1, <1>2, <1>3, <2>1, SettledReplaced
<1>5. CASE q.answer = "ok"
  <2> DEFINE p == [page EXCEPT !.known = q.known]
  <2>1. Heard(p, S)
    BY <1>5 DEF HearActors, Good
  <2>2. q.known \in PeopleRows \cup {Nobodies}
    BY <1>1 DEF CallShapes
  <2>3. /\ p \in PageShapes /\ p.kind = page.kind /\ p.visit = page.visit /\ p.of = page.of
        /\ p.shown = page.shown /\ p.row = page.row /\ p.stage = page.stage /\ p.assign = page.assign
        /\ p.busy = page.busy /\ p.confirmed = page.confirmed
    BY <1>1, <2>2 DEF PageShapes
  <2> HIDE DEF p
  <2>4. page.known = Nobodies /\ \A r \in S : r.kind # "actors"
    BY <1>1 DEF PagesInv, Traffic
  <2>5. PageTyped(p) /\ Traffic(p, S)
    BY <1>1, <1>2, <2>3, <2>4 DEF PageTyped, Traffic
  <2>6. FormFits(p)
    <3>1. Candidates(page) = {}
      BY <2>4 DEF Candidates, Nobodies
    <3> QED BY <1>3, <2>3, <3>1 DEF FormFits
  <2>7. Steady(p, S, misdirected) /\ Counted(p, S, tally)
    BY <1>2, <2>3 DEF Steady, Counted, MayRecord, MayCreate
  <2> QED BY <1>2, <2>1, <2>5, <2>6, <2>7, SettledReplaced
<1> QED BY <1>4, <1>5

LEMMA BatchHeard ==
  ASSUME PagesInv, MyRole' = MyRole, NEW q \in sent, HearBatch(q)
  PROVE  PagesInv'
<1> DEFINE S == sent \ {q}
<1>1. /\ page \in PageShapes /\ PageTyped(page) /\ q \in CallShapes /\ q.kind = "get" /\ q.kind \notin Making
      /\ q.batch \in Batches /\ page.kind \in {"record", "batch"}
  BY DEF PagesInv, PageTyped, CallsTyped, HearBatch, Making, Traffic
<1>2. /\ CallsTyped(S) /\ CallsFit(S) /\ Traffic(page, S) /\ Steady(page, S, misdirected)
      /\ Counted(page, S, tally)
  BY <1>1, Fewer
<1>3. q.row \in BatchRows /\ q.batch # NoBatch
  BY <1>1, Persons DEF CallShapes
<1>4. CASE q.answer # "ok"
  <2> DEFINE p == NotLoaded(page)
  <2>1. Heard(p, S)
    BY <1>4 DEF HearBatch, Good
  <2>2. /\ p \in PageShapes /\ p.kind = page.kind /\ p.visit = page.visit /\ p.of = page.of
        /\ p.shown = page.shown /\ p.row = page.row /\ p.known = page.known /\ p.stage = page.stage
        /\ p.assign = page.assign /\ p.confirmed = NoBatch
    BY <1>1 DEF PageShapes, NotLoaded
  <2> HIDE DEF p
  <2>3. \A r \in S : r.kind \in Making => r.visit # page.visit
    BY <1>1 DEF PagesInv, Traffic, Making
  <2> QED BY <1>2, <2>1, <2>2, <2>3, AlikeFits, SettledReplaced
<1>5. CASE q.answer = "ok" /\ page.kind = "record"
  <2> DEFINE next == NextStageOf(q.row)
             p == [page EXCEPT !.shown = q.batch, !.row = q.row, !.stage = next, !.assign = Unassigned]
  <2>1. Heard(p, S)
    <3>1. StageChosen([page EXCEPT !.shown = q.batch, !.row = q.row], next) = p
      BY <1>1 DEF StageChosen, PageShapes
    <3> QED BY <1>5, <3>1 DEF HearBatch, Good, Loaded
  <2>2. next \in Stages \cup {NotStarted}
    BY <1>3, NextStages
  <2> HIDE DEF next
  <2>3. /\ p \in PageShapes /\ p.kind = page.kind /\ p.visit = page.visit /\ p.of = page.of
        /\ p.shown = q.batch /\ p.row = q.row /\ p.known = page.known /\ p.stage = next
        /\ p.assign = Unassigned /\ p.busy = page.busy /\ p.confirmed = page.confirmed
    BY <1>1, <1>3, <2>2 DEF PageShapes
  <2> HIDE DEF p
  <2>4. \A r \in S : r.kind # "get"
    BY <1>1, <1>5 DEF PagesInv, Traffic
  <2>5. PageTyped(p) /\ Traffic(p, S)
    BY <1>1, <1>2, <1>3, <1>5, <2>3, <2>4 DEF PageTyped, Traffic
  <2>6. FormFits(p)
    BY <1>5, <2>3 DEF FormFits, next
  <2>7. Steady(p, S, misdirected) /\ Counted(p, S, tally)
    BY <1>2, <1>5, <2>3 DEF Steady, Counted, MayRecord, MayCreate
  <2> QED BY <1>2, <2>1, <2>5, <2>6, <2>7, SettledReplaced
<1>6. CASE q.answer = "ok" /\ page.kind = "batch"
  <2> DEFINE dialog == page.dialog \/ (page.suggest /\ CanRecall /\ ~q.row.recalled)
             p == [page EXCEPT !.shown = q.batch, !.row = q.row, !.dialog = dialog]
  <2>1. Heard(p, S)
    BY <1>6 DEF HearBatch, Good, Loaded
  <2>2. dialog \in BOOLEAN
    OBVIOUS
  <2> HIDE DEF dialog
  <2>3. /\ p \in PageShapes /\ p.kind = page.kind /\ p.visit = page.visit /\ p.of = page.of
        /\ p.shown = q.batch /\ p.row = q.row /\ p.known = page.known
        /\ p.busy = page.busy /\ p.confirmed = page.confirmed
    BY <1>1, <1>3, <2>2 DEF PageShapes
  <2> HIDE DEF p
  <2>4. PageTyped(p) /\ Traffic(p, S)
    BY <1>1, <1>2, <1>6, <2>3 DEF PageTyped, Traffic
  <2>5. FormFits(p)
    BY <1>6, <2>3 DEF FormFits
  <2>6. Steady(p, S, misdirected)
    BY <1>1, <1>2, <1>6, <2>3 DEF PagesInv, Steady
  <2>7. Counted(p, S, tally)
    BY <1>2, <2>3 DEF Counted, MayRecord, MayCreate
  <2> QED BY <1>2, <2>1, <2>4, <2>5, <2>6, <2>7, SettledReplaced
<1> QED BY <1>1, <1>4, <1>5, <1>6

FormMessages == {"none", "offline", "refused", "failed", "not_created", "not_recorded", "not_loaded"}

LEMMA FreedPage ==
  ASSUME NEW p \in PageShapes, NEW m \in FormMessages
  PROVE  LET r == [p EXCEPT !.busy = FALSE, !.message = m]
         IN  /\ r \in PageShapes /\ r.kind = p.kind /\ r.visit = p.visit /\ r.of = p.of
             /\ r.shown = p.shown /\ r.row = p.row /\ r.known = p.known /\ r.stage = p.stage
             /\ r.assign = p.assign /\ r.confirmed = p.confirmed
<1> DEFINE no == FALSE
           r == [p EXCEPT !.busy = no, !.message = m]
<1>1. no \in BOOLEAN
  OBVIOUS
<1> HIDE DEF no
<1>2. r \in PageShapes
  BY <1>1 DEF PageShapes, FormMessages
<1>3. /\ r.kind = p.kind /\ r.visit = p.visit /\ r.of = p.of
      /\ r.shown = p.shown /\ r.row = p.row /\ r.known = p.known /\ r.stage = p.stage
      /\ r.assign = p.assign /\ r.confirmed = p.confirmed
  BY DEF PageShapes
<1> QED BY <1>2, <1>3 DEF no

\* A write that came to nothing: its form is there for another try.
LEMMA BadHeard ==
  ASSUME PagesInv, MyRole' = MyRole, NEW q \in sent, q.kind \notin Reading, q.answer # "ok",
         NEW p \in PageShapes, p.kind = page.kind, p.visit = page.visit, p.of = page.of,
         p.shown = page.shown, p.row = page.row, p.known = page.known, p.stage = page.stage,
         p.assign = page.assign, p.confirmed = page.confirmed,
         Heard(IF Here(q) THEN p ELSE page, sent \ {q})
  PROVE  PagesInv'
<1> DEFINE S == sent \ {q}
<1>1. /\ page \in PageShapes /\ PageTyped(page) /\ FormFits(page) /\ q \in CallShapes
  BY DEF PagesInv, PageTyped, CallsTyped
<1>2. /\ CallsTyped(S) /\ CallsFit(S) /\ Traffic(page, S) /\ Steady(page, S, misdirected)
      /\ Counted(page, S, tally)
  BY Fewer
<1>3. CASE ~Here(q)
  <2>1. Heard(page, S)
    BY <1>3
  <2> QED BY <1>1, <1>2, <2>1, SettledReplaced
<1>4. CASE Here(q)
  <2>1. Heard(p, S)
    BY <1>4
  <2>3. \A r \in S : r.kind \in Making => r.visit # page.visit
    <3>1. q.visit = page.visit /\ q.kind \in {"create", "record", "recall"}
      BY <1>1, <1>4 DEF Here, CallShapes, Reading
    <3>2. CASE q.kind \in Making
      BY <3>1, <3>2 DEF PagesInv, Traffic
    <3>3. CASE q.kind = "recall"
      BY <3>1, <3>3 DEF PagesInv, Traffic
    <3> QED BY <3>1, <3>2, <3>3 DEF Making
  <2> QED BY <1>2, <2>1, <2>3, AlikeFits, SettledReplaced
<1> QED BY <1>3, <1>4

\* The answer to a record: its visit is over, and writes no more.
LEMMA OverCounted ==
  ASSUME PagesInv, NEW q \in sent, q.kind \in Making, q.visit # page.visit, NEW p, NEW S,
         p.visit = page.visit, p.of = page.of \/ p.of # NoBatch,
         \A r \in S : r.kind \in Making => r \in sent \ {q}, sent \ {q} \subseteq S
  PROVE  Counted(p, S, tally)
<1> SUFFICES ASSUME NEW v \in Visits
             PROVE  /\ MayRecord(p, S, v) => MayRecord(page, sent, v)
                    /\ MayCreate(p, S, v) => MayCreate(page, sent, v)
  BY DEF PagesInv, Counted
<1>1. q.visit <= page.visit /\ q.visit \in Nat /\ page.visit \in Nat /\ v \in Nat
  BY DEF PagesInv, Traffic, CallsTyped, CallShapes, PageTyped, PageShapes, Visits
<1>2. CASE v = q.visit
  <2>1. \A r \in S : r.kind \in Making => r.visit # v
    BY <1>2 DEF PagesInv, Traffic
  <2>2. ~MayRecord(p, S, v)
    BY <1>1, <1>2, <2>1 DEF MayRecord
  <2>3. ~MayCreate(p, S, v)
    BY <1>1, <1>2, <2>1 DEF MayCreate, Making
  <2> QED BY <2>2, <2>3
<1>3. CASE v # q.visit
  <2>1. MayRecord(p, S, v) => MayRecord(page, sent, v)
    BY <1>3 DEF MayRecord, Making
  <2>2. MayCreate(p, S, v) => MayCreate(page, sent, v)
    BY <1>3 DEF MayCreate, Making
  <2> QED BY <2>1, <2>2
<1> QED BY <1>2, <1>3

LEMMA RecordHeard ==
  ASSUME PagesInv, MyRole' = MyRole, NEW q \in sent, HearRecord(q)
  PROVE  PagesInv'
<1>1. /\ page \in PageShapes /\ PageTyped(page) /\ q \in CallShapes /\ q.kind = "record" /\ q.kind \in Making
      /\ q.kind \notin Reading /\ q.batch \in Batches /\ q.batch # NoBatch
  BY Persons DEF PagesInv, PageTyped, CallsTyped, HearRecord, Making, Reading
<1>2. CASE q.answer # "ok"
  <2> DEFINE p == [page EXCEPT !.busy = FALSE, !.message = FailureOf(q)]
  <2>1. FailureOf(q) \in FormMessages
    BY DEF FailureOf, MessageFor, FormMessages
  <2>2. Heard(IF Here(q) THEN p ELSE page, sent \ {q})
    BY <1>2 DEF HearRecord, Good
  <2>3. /\ p \in PageShapes /\ p.kind = page.kind /\ p.visit = page.visit /\ p.of = page.of
        /\ p.shown = page.shown /\ p.row = page.row /\ p.known = page.known /\ p.stage = page.stage
        /\ p.assign = page.assign /\ p.confirmed = page.confirmed
    BY <1>1, <2>1, FreedPage
  <2> HIDE DEF p
  <2> QED BY <1>1, <1>2, <2>2, <2>3, BadHeard
<1>3. CASE q.answer = "ok" /\ page.kind # "batch"
  <2> DEFINE blank == BlankPage("batch", q.batch)
             p == [blank EXCEPT !.flash = "recorded", !.suggest = q.suggest]
             R == {r \in sent \ {q} : r.kind \in {"create", "record", "recall"}}
  <2>1. /\ page' = p /\ sent' = R \cup Loads(p)
        /\ UNCHANGED <<batches, people, tally, unexplained, misdirected>>
    BY <1>3 DEF HearRecord, Good, Bad, Navigate, Mount
  <2>2. /\ blank \in PageShapes /\ blank.visit = page.visit + 1 /\ blank.kind = "batch" /\ blank.of = q.batch
        /\ blank.shown = NoBatch /\ blank.known = Nobodies /\ blank.assign = Unassigned
        /\ blank.confirmed = NoBatch
    BY <1>1, BlankPages
  <2>3. q.suggest \in BOOLEAN
    BY <1>1 DEF CallShapes
  <2> HIDE DEF blank
  <2>4. /\ p \in PageShapes /\ p.visit = page.visit + 1 /\ p.kind = "batch" /\ p.of = q.batch
        /\ p.shown = NoBatch /\ p.known = Nobodies /\ p.assign = Unassigned /\ p.confirmed = NoBatch
    BY <2>2, <2>3 DEF PageShapes
  <2>5. R \subseteq sent /\ \A r \in R : r.kind \notin Reading
    BY DEF Reading
  <2> HIDE DEF p, R
  <2> QED BY <1>1, <2>1, <2>4, <2>5, Mounting
<1>4. CASE q.answer = "ok" /\ page.kind = "batch"
  <2> DEFINE moved == MovedTo(q.batch)
             p == [moved EXCEPT !.suggest = q.suggest]
             S == (sent \ {q}) \cup (IF q.batch = page.of THEN {} ELSE Loads(moved))
  <2>1. /\ page' = p /\ sent' = S /\ misdirected' = misdirected \cup {"moved"}
        /\ UNCHANGED <<batches, people, tally, unexplained>>
    BY <1>4 DEF HearRecord, Good, Bad, Navigate
  <2>2. /\ moved \in PageShapes /\ moved.kind = "batch" /\ moved.visit = page.visit /\ moved.of = q.batch
        /\ moved.shown = page.shown /\ moved.busy = page.busy /\ moved.known = page.known
    <3> DEFINE said == IF page.message = "not_loaded" THEN "none" ELSE page.message
               m == [page EXCEPT !.of = q.batch, !.message = said]
    <3>1. moved = m
      BY <1>1 DEF MovedTo, Reloading, PageShapes
    <3>2. said \in FormMessages
      BY <1>1 DEF PageShapes, FormMessages
    <3> HIDE DEF said, moved
    <3>3. m \in PageShapes
      BY <1>1, <3>2 DEF PageShapes, FormMessages
    <3>4. m.kind = page.kind /\ m.visit = page.visit /\ m.of = q.batch /\ m.shown = page.shown
          /\ m.busy = page.busy /\ m.known = page.known
      BY <1>1 DEF PageShapes
    <3> QED BY <1>4, <3>1, <3>3, <3>4
  <2>3. q.suggest \in BOOLEAN
    BY <1>1 DEF CallShapes
  <2>4. \A r \in Loads(moved) : r \in CallShapes /\ r.visit = page.visit /\ r.kind = "get" /\ r.batch = q.batch
    <3>1. \A r \in Loads(moved) : /\ r \in CallShapes /\ r.visit = moved.visit /\ r.kind \in Reading
                                  /\ r.kind = "get" => r.batch = moved.of
                                  /\ r.kind = "actors" => moved.kind \in {"new", "record"}
      BY <1>1, <2>2, LoadsAre
    <3> QED BY <2>2, <3>1 DEF Reading
  <2> HIDE DEF moved
  <2>5. /\ p \in PageShapes /\ p.kind = "batch" /\ p.visit = page.visit /\ p.of = q.batch
        /\ p.shown = page.shown /\ p.busy = page.busy /\ p.known = page.known
    BY <2>2, <2>3 DEF PageShapes
  <2> HIDE DEF p
  <2>6. /\ \A r \in S : r \in sent \ {q} \/ (r \in CallShapes /\ r.visit = page.visit /\ r.kind = "get" /\ r.batch = q.batch)
        /\ sent \ {q} \subseteq S
    BY <2>4
  <2> HIDE DEF S
  <2>7. CallsTyped(sent \ {q}) /\ CallsFit(sent \ {q}) /\ Traffic(page, sent \ {q})
    BY Fewer
  <2>8. PageTyped(p) /\ FormFits(p)
    BY <1>1, <2>5 DEF PageTyped, FormFits
  <2>9. CallsTyped(S)
    BY <1>1, <2>6, <2>7 DEF CallsTyped
  <2>10. CallsFit(S)
    BY <2>6, <2>7 DEF CallsFit
  <2>11. Traffic(p, S)
    <3>1. \A r \in S : r.kind \in Making \cup {"recall", "actors"} => r \in sent \ {q}
      BY <2>6 DEF Making
    <3>2. page.visit \in Nat
      BY <1>1 DEF PageShapes
    <3>3. \A r \in S : r.visit <= p.visit /\ (r.kind \in Reading => r.visit = p.visit)
      BY <2>5, <2>6, <2>7, <3>2 DEF Traffic
    <3>4. \A r \in S : r.kind \in Making => r.visit # p.visit
      BY <1>4, <2>5, <2>7, <3>1 DEF Traffic
    <3>5. \A r, t \in S : r.kind \in Making /\ t.kind \in Making /\ r.visit = t.visit => r = t
      BY <2>7, <3>1 DEF Traffic
    <3>6. \A r, t \in S : r.kind = "actors" => p.known = Nobodies /\ (t.kind = "actors" => r = t)
      BY <2>5, <2>7, <3>1 DEF Traffic
    <3> QED BY <2>5, <3>3, <3>4, <3>5, <3>6 DEF Traffic
  <2>12. Steady(p, S, misdirected')
    BY <2>1 DEF Steady
  <2>13. Counted(p, S, tally)
    <3>1. q.visit # page.visit
      BY <1>1, <1>4 DEF PagesInv, Traffic
    <3>2. \A r \in S : r.kind \in Making => r \in sent \ {q}
      BY <2>6 DEF Making
    <3> QED BY <1>1, <2>5, <2>6, <3>1, <3>2, OverCounted
  <2> QED BY <2>1, <2>8, <2>9, <2>10, <2>11, <2>12, <2>13, PageReplaced
<1> QED BY <1>2, <1>3, <1>4

\* The batch is made: its harvest follows, and this visit makes no other.
LEMMA MadeCounted ==
  ASSUME PagesInv, NEW q \in sent, q.kind = "create", NEW r, r.kind = "record", r.visit = q.visit,
         NEW p, p.visit = page.visit,
         IF Here(q) THEN p.of # NoBatch ELSE p.of = page.of
  PROVE  Counted(p, (sent \ {q}) \cup {r}, tally)
<1> DEFINE S == (sent \ {q}) \cup {r}
<1> SUFFICES ASSUME NEW v \in Visits
             PROVE  /\ MayRecord(p, S, v) => MayRecord(page, sent, v)
                    /\ MayCreate(p, S, v) => MayCreate(page, sent, v)
  BY DEF PagesInv, Counted
<1>1. q.visit <= page.visit /\ q.visit \in Nat /\ page.visit \in Nat /\ v \in Nat
  BY DEF PagesInv, Traffic, CallsTyped, CallShapes, PageTyped, PageShapes, Visits
<1>2. CASE v = q.visit
  <2>1. \A t \in sent : t.kind \in Making /\ t.visit = v => t = q
    BY <1>2 DEF PagesInv, Traffic, Making
  <2>2. MayRecord(p, S, v) => MayRecord(page, sent, v)
    BY <1>2, <2>1 DEF MayRecord, Making
  <2>3. ~MayCreate(p, S, v)
    BY <1>1, <1>2, <2>1 DEF MayCreate, Making, Here
  <2> QED BY <2>2, <2>3
<1>3. CASE v # q.visit
  <2>1. MayRecord(p, S, v) => MayRecord(page, sent, v)
    BY <1>3 DEF MayRecord, Making
  <2>2. MayCreate(p, S, v) => MayCreate(page, sent, v)
    BY <1>3 DEF MayCreate, Making, Here
  <2> QED BY <2>1, <2>2
<1> QED BY <1>2, <1>3

LEMMA CreateHeard ==
  ASSUME PagesInv, MyRole' = MyRole, NEW q \in sent, HearCreate(q)
  PROVE  PagesInv'
<1>1. /\ page \in PageShapes /\ PageTyped(page) /\ q \in CallShapes /\ q.kind = "create" /\ q.kind \in Making
      /\ q.kind \notin Reading /\ FormFits(page)
  BY DEF PagesInv, PageTyped, CallsTyped, HearCreate, Making, Reading
<1>2. CASE q.answer # "ok"
  <2> DEFINE p == [page EXCEPT !.busy = FALSE, !.message = FailureOf(q)]
  <2>1. FailureOf(q) \in FormMessages
    BY DEF FailureOf, MessageFor, FormMessages
  <2>2. Heard(IF Here(q) THEN p ELSE page, sent \ {q})
    BY <1>2 DEF HearCreate, Good
  <2>3. /\ p \in PageShapes /\ p.kind = page.kind /\ p.visit = page.visit /\ p.of = page.of
        /\ p.shown = page.shown /\ p.row = page.row /\ p.known = page.known /\ p.stage = page.stage
        /\ p.assign = page.assign /\ p.confirmed = page.confirmed
    BY <1>1, <2>1, FreedPage
  <2> HIDE DEF p
  <2> QED BY <1>1, <1>2, <2>2, <2>3, BadHeard
<1>3. CASE q.answer = "ok"
  <2> DEFINE asked == Request("record", [visit |-> q.visit], q.batch)
             made == [NoRow EXCEPT !.exists = TRUE, !.custodian = Me]
             r == [asked EXCEPT !.stage = HARVEST, !.to = q.to, !.known = q.known, !.created = NoBatch, !.row = made]
             opened == [page EXCEPT !.of = q.batch]
             p == IF Here(q) THEN opened ELSE page
             S == (sent \ {q}) \cup {r}
  <2>1. Heard(p, S)
    BY <1>3 DEF HearCreate, Good, Bad
  <2>2. q.batch \in Batches /\ q.batch # NoBatch /\ q.visit \in Nat /\ q.visit <= page.visit
    BY <1>1, <1>3, Persons DEF PagesInv, CallsTyped, Traffic, CallShapes
  <2>3. made \in BatchRows /\ made.stage = NotStarted /\ ~made.recalled /\ made.custodian = Me
    <3> DEFINE yes == TRUE
               m == [NoRow EXCEPT !.exists = yes, !.custodian = Me]
    <3>1. yes \in BOOLEAN /\ Me \in People
      BY Persons
    <3> HIDE DEF yes
    <3>2. m \in BatchRows
      BY <3>1, NoRowIsRow DEF BatchRows
    <3>3. m.stage = NotStarted /\ ~m.recalled /\ m.custodian = Me
      BY DEF NoRow
    <3> QED BY <3>2, <3>3 DEF yes
  <2>4. /\ asked \in CallShapes /\ asked.kind = "record" /\ asked.visit = q.visit
        /\ asked.batch = q.batch /\ asked.answer = "none"
    <3>1. [visit |-> q.visit].visit \in Nat
      BY <2>2
    <3> QED BY <2>2, <3>1, Requests
  <2> HIDE DEF asked, made
  <2>5. /\ r \in CallShapes /\ r.kind = "record" /\ r.visit = q.visit /\ r.batch = q.batch
        /\ r.answer = "none" /\ r.stage = HARVEST /\ r.to = q.to /\ r.known = q.known /\ r.row = made
    <3>1. /\ HARVEST \in Stages \cup {NotStarted} /\ q.to \in People \cup {Unassigned}
          /\ q.known \in PeopleRows \cup {Nobodies} /\ NoBatch \in Batches \cup {NoBatch}
      BY <1>1 DEF CallShapes, Stages, HARVEST, RETAIL
    <3> DEFINE h == HARVEST
    <3> HIDE DEF h
    <3> QED BY <2>3, <2>4, <3>1 DEF CallShapes
  <2>6. FitRecord(r)
    <3>1. FitCreate(q)
      BY <1>1 DEF PagesInv, CallsFit
    <3>2. MyRole \in Roles
      BY Persons DEF MyRole, PagesInv, RowsTyped, PeopleRows
    <3>3. HARVEST \in ROLE_STAGES[MyRole] /\ HARVEST + 1 = PROCESSING
      BY <3>1, <3>2 DEF FitCreate, CreatorRoles, ROLE_STAGES, Roles, Stages, HARVEST, PROCESSING, RETAIL
    <3>4. IF r.to = Unassigned THEN IsAdminPage ELSE Offered(r.known, r.to, r.stage + 1)
      BY <2>5, <3>1, <3>3 DEF FitCreate
    <3> QED BY <2>3, <2>5, <3>3, <3>4 DEF FitRecord
  <2>7. /\ opened \in PageShapes /\ opened.kind = page.kind /\ opened.visit = page.visit
        /\ opened.of = q.batch /\ opened.shown = page.shown /\ opened.row = page.row
        /\ opened.known = page.known /\ opened.stage = page.stage /\ opened.assign = page.assign
        /\ opened.busy = page.busy /\ opened.confirmed = page.confirmed
    BY <1>1, <2>2 DEF PageShapes
  <2> HIDE DEF opened
  <2>8. /\ p \in PageShapes /\ p.kind = page.kind /\ p.visit = page.visit
        /\ p.shown = page.shown /\ p.row = page.row
        /\ p.known = page.known /\ p.stage = page.stage /\ p.assign = page.assign
        /\ p.busy = page.busy /\ p.confirmed = page.confirmed
        /\ p.of = IF Here(q) THEN q.batch ELSE page.of
    BY <1>1, <2>7
  <2>9. Here(q) => page.kind = "new" /\ page.busy
    BY <1>1 DEF Here, PagesInv, Traffic
  <2> HIDE DEF p, r
  <2>10. PageTyped(p)
    BY <1>1, <2>2, <2>8 DEF PageTyped
  <2>11. CallsTyped(S) /\ CallsFit(S)
    BY <2>2, <2>5, <2>6, Fewer DEF CallsTyped, CallsFit
  <2>12. Traffic(p, S)
    <3>1. Traffic(page, sent \ {q})
      BY Fewer
    <3>2. \A t \in sent \ {q} : t.kind \in Making => t.visit # q.visit
      BY <1>1 DEF PagesInv, Traffic
    <3>3. \A t \in S : t.visit <= p.visit /\ (t.kind \in Reading => t.visit = p.visit)
      BY <2>2, <2>5, <2>8, <3>1 DEF Traffic, Reading
    <3>4. \A t, u \in S : t.kind \in Making /\ u.kind \in Making /\ t.visit = u.visit => t = u
      BY <2>5, <3>1, <3>2 DEF Traffic
    <3>5. \A t \in S : t.kind \in Making /\ t.visit = p.visit =>
            /\ p.busy /\ p.kind \in {"new", "record"}
            /\ t.kind = "create" => p.kind = "new" /\ p.of = NoBatch
            /\ t.kind = "record" => (IF p.kind = "new" THEN p.of ELSE p.shown) # NoBatch
      <4> SUFFICES ASSUME NEW t \in S, t.kind \in Making, t.visit = p.visit
                   PROVE  /\ p.busy /\ p.kind \in {"new", "record"}
                          /\ t.kind = "create" => p.kind = "new" /\ p.of = NoBatch
                          /\ t.kind = "record" => (IF p.kind = "new" THEN p.of ELSE p.shown) # NoBatch
        OBVIOUS
      <4>1. CASE t = r
        BY <2>2, <2>5, <2>8, <2>9, <4>1 DEF Here
      <4>2. CASE t # r
        <5>1. t \in sent \ {q} /\ t.visit # q.visit /\ t.visit = page.visit
          BY <2>8, <3>2, <4>2
        <5>2. ~Here(q)
          BY <5>1 DEF Here
        <5> QED BY <2>8, <3>1, <5>1, <5>2 DEF Traffic
      <4> QED BY <4>1, <4>2
    <3>6. \A t \in S : t.kind \in {"get", "actors", "recall"} => t \in sent \ {q}
      BY <2>5
    <3> QED BY <2>8, <3>1, <3>3, <3>4, <3>5, <3>6 DEF Traffic
  <2>13. FormFits(p)
    <3>1. Candidates(p) = Candidates(page)
      BY <2>8, CandidatesSame
    <3> QED BY <1>1, <2>8, <3>1 DEF FormFits
  <2>14. Steady(p, S, misdirected)
    BY <2>5, <2>8, <2>9, Fewer DEF Steady
  <2>15. Counted(p, S, tally)
    <3>1. IF Here(q) THEN p.of # NoBatch ELSE p.of = page.of
      BY <2>2, <2>8
    <3> QED BY <1>1, <2>5, <2>8, <3>1, MadeCounted
  <2> HIDE DEF S
  <2> QED BY <2>1, <2>10, <2>11, <2>12, <2>13, <2>14, <2>15, SettledReplaced
<1> QED BY <1>2, <1>3

LEMMA RecallHeard ==
  ASSUME PagesInv, MyRole' = MyRole, NEW q \in sent, HearRecall(q)
  PROVE  PagesInv'
<1>1. /\ page \in PageShapes /\ PageTyped(page) /\ q \in CallShapes /\ q.kind = "recall" /\ q.kind \notin Making
      /\ q.kind \notin Reading /\ FormFits(page)
  BY DEF PagesInv, PageTyped, CallsTyped, HearRecall, Making, Reading
<1>2. /\ CallsTyped(sent \ {q}) /\ CallsFit(sent \ {q}) /\ Traffic(page, sent \ {q})
      /\ Steady(page, sent \ {q}, misdirected) /\ Counted(page, sent \ {q}, tally)
  BY <1>1, Fewer
<1>3. CASE q.answer # "ok"
  <2> DEFINE p == [page EXCEPT !.busy = FALSE, !.message = MessageFor(q, "failed")]
  <2>1. MessageFor(q, "failed") \in FormMessages
    BY DEF MessageFor, FormMessages
  <2>2. Heard(IF Here(q) THEN p ELSE page, sent \ {q})
    BY <1>3 DEF HearRecall, Good
  <2>3. /\ p \in PageShapes /\ p.kind = page.kind /\ p.visit = page.visit /\ p.of = page.of
        /\ p.shown = page.shown /\ p.row = page.row /\ p.known = page.known /\ p.stage = page.stage
        /\ p.assign = page.assign /\ p.confirmed = page.confirmed
    BY <1>1, <2>1, FreedPage
  <2> HIDE DEF p
  <2> QED BY <1>1, <1>3, <2>2, <2>3, BadHeard
<1>4. CASE q.answer = "ok" /\ ~Here(q)
  <2>1. Heard(page, sent \ {q})
    BY <1>4 DEF HearRecall, Good, Bad
  <2> QED BY <1>1, <1>2, <2>1, SettledReplaced
<1>5. CASE q.answer = "ok" /\ Here(q)
  <2> DEFINE p == Recalled(page)
             get == Request("get", page, q.created)
             S == (sent \ {q}) \cup {get}
  <2>1. Heard(p, S)
    BY <1>5 DEF HearRecall, Good, Bad
  <2>2. /\ page.kind = "batch" /\ page.of \in Batches /\ page.visit \in Nat
        /\ \A t \in sent : t.kind \in Making => t.visit # page.visit
    BY <1>1, <1>5 DEF PagesInv, Traffic, Here, PageTyped, PageShapes
  <2>3. /\ p \in PageShapes /\ p.kind = page.kind /\ p.visit = page.visit /\ p.of = page.of
        /\ p.shown = page.shown /\ p.row = page.row /\ p.known = page.known /\ p.stage = page.stage
        /\ p.assign = page.assign /\ p.confirmed = page.confirmed
    <3> DEFINE no == FALSE
               said == IF page.message = "not_loaded" THEN "none" ELSE page.message
               made == [page EXCEPT !.dialog = no, !.suggest = no, !.busy = no, !.flash = "recalled"]
               m == [page EXCEPT !.dialog = no, !.suggest = no, !.busy = no, !.flash = "recalled", !.message = said]
    <3>1. no \in BOOLEAN /\ p = m
      BY <1>1 DEF Recalled, Reloading, DialogClosed, PageShapes
    <3>2. said \in FormMessages
      BY <1>1 DEF PageShapes, FormMessages
    <3> HIDE DEF no, p, said
    <3>3. m \in PageShapes
      <4>1. made \in PageShapes
        BY <1>1, <3>1 DEF PageShapes
      <4>2. m = [made EXCEPT !.message = said]
        BY <1>1 DEF PageShapes
      <4> HIDE DEF made, m
      <4> QED BY <3>2, <4>1, <4>2 DEF PageShapes, FormMessages
    <3>4. /\ m.kind = page.kind /\ m.visit = page.visit /\ m.of = page.of
          /\ m.shown = page.shown /\ m.row = page.row /\ m.known = page.known /\ m.stage = page.stage
          /\ m.assign = page.assign /\ m.confirmed = page.confirmed
      BY <1>1 DEF PageShapes
    <3> QED BY <3>1, <3>3, <3>4
  <2> HIDE DEF p
  <2>4. /\ get \in CallShapes /\ get.kind = "get" /\ get.visit = page.visit /\ get.batch \in Batches
        /\ "moved" \notin misdirected => get.batch = page.of
    <3>1. q.created \in Batches /\ ("moved" \notin misdirected => q.created = page.of)
      BY <1>1, <1>5, <2>2 DEF PagesInv, CallsTyped, Steady, Here
    <3> QED BY <2>2, <3>1, Requests
  <2> HIDE DEF get
  <2>5. CallsTyped(S) /\ CallsFit(S)
    BY <1>2, <2>2, <2>4 DEF CallsTyped, CallsFit
  <2>6. Traffic(page, S)
    BY <1>2, <2>2, <2>4 DEF Traffic, Making, Reading
  <2>7. Steady(page, S, misdirected)
    BY <1>2, <2>4 DEF Steady
  <2>8. Counted(page, S, tally)
    BY <1>2, <2>4 DEF Counted, MayRecord, MayCreate, Making
  <2>9. \A t \in S : t.kind \in Making => t.visit # page.visit
    BY <2>2, <2>4 DEF Making
  <2> HIDE DEF S
  <2> QED BY <2>1, <2>3, <2>5, <2>6, <2>7, <2>8, <2>9, AlikeFits, SettledReplaced
<1> QED BY <1>3, <1>4, <1>5

LEMMA PagesKept == PagesInv /\ [BatchPagesNext]_pageVars => PagesInv'
<1> SUFFICES ASSUME PagesInv, [BatchPagesNext]_pageVars PROVE PagesInv'
  OBVIOUS
<1>1. MyRole' = MyRole
  BY RoleStays DEF PagesInv
<1>2. CASE User
  BY <1>1, <1>2, OpeningKeeps, MenusKeep, RecordSubmitted, NewSubmitted, DialogKeeps, RecallSubmitted DEF User
<1>3. CASE ServerStep
  BY <1>1, <1>3, ReadServed, CreateServed, RecordServed, RecallServed, SlipsKeep DEF ServerStep
<1>4. CASE News
  BY <1>1, <1>4, RoleStays, NewsKeeps DEF PagesInv
<1>5. CASE AnswerStep
  BY <1>1, <1>5, ActorsHeard, BatchHeard, RecordHeard, CreateHeard, RecallHeard DEF AnswerStep
<1>6. CASE UNCHANGED pageVars
  BY <1>6 DEF pageVars, PagesInv, RowsTyped, PageTyped, CallsTyped, Traffic, FormFits, Candidates,
              IsAdminPage, MyRole, CallsFit, FitRecord, FitCreate, Steady, Counted, MayRecord, MayCreate
<1> QED BY <1>2, <1>3, <1>4, <1>5, <1>6 DEF BatchPagesNext

LEMMA PagesHold == BatchPagesSpec => []PagesInv
<1>1. BatchPagesInit => PagesInv
  BY PagesInvStarts
<1>2. PagesInv /\ [BatchPagesNext]_pageVars => PagesInv'
  BY PagesKept
<1> QED BY <1>1, <1>2, PTL DEF BatchPagesSpec

\* One form creates one batch and records one event, however often it is
\* submitted and whenever it is left, unless an answer was lost after the
\* server had acted; and the batch recalled is the confirmed one unless a late
\* answer of another page had moved the open page (handleSubmit of NewBatch
\* and RecordEvent; RecallDialog).
THEOREM WritesStayAsAsked == BatchPagesSpec => []WritesAsAsked
<1>1. PagesInv => WritesAsAsked
  BY DEF PagesInv, Counted, Steady, WritesAsAsked, FormWritesOnce, RecallAsConfirmed
<1> QED BY <1>1, PagesHold, PTL

\* The forms offer nothing recordEvent refuses: a refusal means that the batch
\* or the directory changed after the form was filled in (canActOn,
\* rolesForStage and HandoffSelect against the checks of recordEvent).
THEOREM RefusalsHaveAReason == BatchPagesSpec => []RefusedForAReason
<1>1. PagesInv => RefusedForAReason
  BY DEF PagesInv, RefusedForAReason
<1> QED BY <1>1, PagesHold, PTL

-----------------------------------------------------------------------------
(* The types, within their bounds *)

\* The page after the last one the user opens is a batch's: it stays, whatever
\* else is recorded.
VisitsFit ==
  /\ page.visit > 0 /\ page.visit <= MaxVisits + 1
  /\ page.visit > MaxVisits => page.kind = "batch"
  /\ \A q \in sent : q.visit > 0

PagesFit ==
  /\ VisitsFit /\ news \in 0..MaxNews /\ slips \in 0..MaxSlips
  /\ unexplained \in BOOLEAN /\ misdirected \subseteq {"moved", "recalled"}

\* What is asked and answered belongs to the visits there are.
SameVisits ==
  /\ page'.visit = page.visit /\ page'.kind = page.kind
  /\ \A q \in sent' : q.visit = page.visit \/ \E r \in sent : q.visit = r.visit

LEMMA SameVisitsFit == ASSUME VisitsFit, SameVisits PROVE VisitsFit'
  BY DEF VisitsFit, SameVisits

LEMMA NextVisitFits ==
  ASSUME PagesInv, VisitsFit, NEW kind \in {"tasks", "new", "record", "batch"}, NEW b \in Batches \cup {NoBatch},
         kind \in {"record", "batch"} => b \in Batches,
         NEW p \in PageShapes, p.visit = page.visit + 1, p.kind = kind, p.of = b,
         NEW R, R \subseteq sent, Mount(p, R),
         page.visit < MaxVisits \/ (page.kind # "batch" /\ kind = "batch")
  PROVE  VisitsFit'
<1>1. page' = p /\ sent' = R \cup Loads(p)
  BY DEF Mount
<1>2. \A q \in Loads(p) : q.visit = p.visit
  BY LoadsAre
<1>3. page.visit \in Nat /\ MaxVisits \in Nat
  BY BatchPagesAssumption DEF PagesInv, PageTyped, PageShapes
<1> QED BY <1>1, <1>2, <1>3 DEF VisitsFit

LEMMA UserFits ==
  ASSUME PagesInv, VisitsFit, User
  PROVE  VisitsFit'
<1>1. page \in PageShapes /\ page.visit \in Nat
  BY DEF PagesInv, PageTyped, PageShapes
<1>2. CASE OpenPage
  <2>1. PICK kind \in {"tasks", "new", "record", "batch"}, b \in Batches \cup {NoBatch} :
          Mount(BlankPage(kind, b), Writes) /\ (kind \in {"record", "batch"} => b \in Batches)
    BY <1>2 DEF OpenPage
  <2>2. Writes \subseteq sent /\ page.visit < MaxVisits
    BY <1>2 DEF OpenPage, Writes
  <2>3. BlankPage(kind, b) \in PageShapes /\ BlankPage(kind, b).visit = page.visit + 1
        /\ BlankPage(kind, b).kind = kind /\ BlankPage(kind, b).of = b
    BY <1>1, BlankPages
  <2> QED BY <2>1, <2>2, <2>3, NextVisitFits
<1>3. CASE ChooseStage
  <2> PICK s \in Stages : Typing(Settled(StageChosen(page, s)))
    BY <1>3 DEF ChooseStage
  <2> DEFINE p == StageChosen(page, s)
  <2>1. p \in PageShapes /\ p.visit = page.visit /\ p.kind = page.kind
    BY <1>1 DEF StageChosen, PageShapes
  <2>2. page' = Settled(p) /\ sent' = sent
    BY DEF Typing
  <2> HIDE DEF p
  <2> QED BY <2>1, <2>2, SettledPage, SameVisitsFit DEF SameVisits
<1>4. CASE ChooseAssignee
  <2> PICK a \in Candidates(page) \cup {Unassigned} : Typing(Settled([page EXCEPT !.assign = a]))
    BY <1>4 DEF ChooseAssignee
  <2> DEFINE p == [page EXCEPT !.assign = a]
  <2>1. a \in People \cup {Unassigned}
    BY <1>1, CandidatesArePeople
  <2>2. p \in PageShapes /\ p.visit = page.visit /\ p.kind = page.kind
    BY <1>1, <2>1 DEF PageShapes
  <2>3. page' = Settled(p) /\ sent' = sent
    BY DEF Typing
  <2> HIDE DEF p
  <2> QED BY <2>2, <2>3, SettledPage, SameVisitsFit DEF SameVisits
<1>5. CASE OpenDialog \/ Confirm \/ CloseDialog
  <2>1. page'.visit = page.visit /\ page'.kind = page.kind /\ sent' = sent
    BY <1>1, <1>5 DEF OpenDialog, Confirm, CloseDialog, DialogClosed, Typing, PageShapes
  <2> QED BY <2>1, SameVisitsFit DEF SameVisits
<1>6. CASE SubmitRecord \/ SubmitNew \/ SubmitRecall
  <2>1. page'.visit = page.visit /\ page'.kind = page.kind
    BY <1>1, <1>6 DEF SubmitRecord, SubmitNew, SubmitRecall, Sends, PageShapes
  <2>2. \A q \in sent' : q \in sent \/ q.visit = page.visit
    <3> DEFINE asked(q) == q.visit = page.visit
    <3>1. \A kind, b : asked(Request(kind, page, b))
      BY DEF Request
    <3>2. \A s, fail : asked(RecordCall(page, page.shown, s, page.row, fail))
      BY DEF RecordCall, Request
    <3>3. asked(HarvestCall(page, page.of, page.of))
      BY DEF HarvestCall, RecordCall, Request
    <3>4. asked([Request("create", page, NoBatch) EXCEPT !.to = page.assign, !.known = page.known])
      BY DEF Request
    <3>5. CASE SubmitRecord
      BY <3>2, <3>5 DEF SubmitRecord, Sends
    <3>6. CASE SubmitNew
      BY <3>3, <3>4, <3>6 DEF SubmitNew, Sends, Reusable
    <3>7. CASE SubmitRecall
      <4>1. asked([Request("recall", page, page.shown) EXCEPT !.created = page.of])
        BY DEF Request
      <4> QED BY <3>7, <4>1 DEF SubmitRecall
    <3> QED BY <1>6, <3>5, <3>6, <3>7
  <2> QED BY <2>1, <2>2, SameVisitsFit DEF SameVisits
<1> QED BY <1>2, <1>3, <1>4, <1>5, <1>6 DEF User

LEMMA ServerFits ==
  ASSUME PagesInv, VisitsFit, ServerStep
  PROVE  VisitsFit'
<1> PICK q \in sent : ServeRead(q) \/ ServeCreate(q) \/ ServeRecord(q) \/ ServeRecall(q) \/ FailCall(q) \/ LoseAnswer(q)
  BY DEF ServerStep
<1>1. q \in CallShapes
  BY DEF PagesInv, CallsTyped
<1>2. page' = page
  BY DEF ServeRead, ServeCreate, ServeRecord, ServeRecall, FailCall, LoseAnswer
<1>3. PICK r : Replied(q, r) /\ r.visit = q.visit
  <2>1. CASE ServeRead(q)
    <3> DEFINE r == IF q.kind = "actors" THEN [q EXCEPT !.answer = "ok", !.known = people]
                    ELSE [q EXCEPT !.answer = "ok", !.row = batches[q.batch]]
    <3>1. Replied(q, r)
      BY <2>1 DEF ServeRead
    <3>2. r.visit = q.visit
      BY <1>1 DEF CallShapes
    <3> HIDE DEF r
    <3> QED BY <3>1, <3>2
  <2>2. CASE ServeCreate(q)
    <3> DEFINE r(b) == [q EXCEPT !.answer = "ok", !.batch = b]
    <3>1. \E b : Replied(q, r(b))
      BY <2>2 DEF ServeCreate
    <3>2. \A b : r(b).visit = q.visit
      BY <1>1 DEF CallShapes
    <3> HIDE DEF r
    <3> QED BY <3>1, <3>2
  <2>3. CASE ServeRecord(q)
    BY <1>1, <2>3 DEF ServeRecord, CallShapes
  <2>4. CASE ServeRecall(q)
    BY <1>1, <2>4 DEF ServeRecall, CallShapes
  <2>5. CASE FailCall(q) \/ LoseAnswer(q)
    BY <1>1, <2>5 DEF FailCall, LoseAnswer, CallShapes
  <2> QED BY <2>1, <2>2, <2>3, <2>4, <2>5
<1> QED BY <1>2, <1>3, SameVisitsFit DEF SameVisits, Replied

\* What an answer does to a page that stays.
Stays(p) == DOMAIN p = DOMAIN page /\ p.visit = page.visit /\ p.kind = page.kind

LEMMA HeardFits ==
  ASSUME PagesInv, VisitsFit, NEW p, Stays(p), NEW S, Heard(p, S),
         \A q \in S : q.visit = page.visit \/ \E r \in sent : q.visit = r.visit
  PROVE  VisitsFit'
<1>1. {"visit", "kind"} \subseteq DOMAIN page
  BY DEF PagesInv, PageTyped, PageShapes
<1>2. Settled(p).visit = p.visit /\ Settled(p).kind = p.kind
  BY <1>1 DEF Settled, Stays
<1> QED BY <1>2, SameVisitsFit DEF Heard, SameVisits, Stays

LEMMA AnswersFit ==
  ASSUME PagesInv, VisitsFit, AnswerStep
  PROVE  VisitsFit'
<1> PICK q \in sent : HearActors(q) \/ HearBatch(q) \/ HearRecord(q) \/ HearCreate(q) \/ HearRecall(q)
  BY DEF AnswerStep
<1>1. /\ page \in PageShapes /\ q \in CallShapes /\ page.visit \in Nat
      /\ q.kind = "record" => q.batch \in Batches
  BY DEF PagesInv, PageTyped, CallsTyped, PageShapes
<1>2. Stays(page)
  BY DEF Stays
<1>3. CASE HearActors(q)
  <2>1. Stays([page EXCEPT !.known = q.known])
    BY <1>1 DEF Stays, PageShapes
  <2> QED BY <1>2, <1>3, <2>1, HeardFits DEF HearActors
<1>4. CASE HearBatch(q)
  <2>1. Stays(Loaded(page, q))
    BY <1>1 DEF Stays, PageShapes, Loaded, StageChosen
  <2>2. Stays(NotLoaded(page))
    BY <1>1 DEF Stays, PageShapes, NotLoaded
  <2> QED BY <1>4, <2>1, <2>2, HeardFits DEF HearBatch
<1>5. \A m : Stays([page EXCEPT !.busy = FALSE, !.message = m])
  BY <1>1 DEF Stays, PageShapes
<1>6. CASE HearRecord(q)
  <2>1. CASE \E m : Heard(IF Here(q) THEN [page EXCEPT !.busy = FALSE, !.message = m] ELSE page, sent \ {q})
    BY <1>2, <1>5, <2>1, HeardFits
  <2>2. CASE Navigate(q.batch, q.suggest, sent \ {q}) /\ page.kind = "batch"
    <3> DEFINE to == MovedTo(q.batch)
    <3>1. Stays(to) /\ Stays([to EXCEPT !.suggest = q.suggest])
      BY <1>1 DEF Stays, PageShapes, MovedTo, Reloading
    <3>2. to.kind = "batch" /\ \A r \in Loads(to) : r.visit = page.visit
      BY <2>2, <3>1 DEF Stays, Loads, Request
    <3>3. page' = [to EXCEPT !.suggest = q.suggest] /\ sent' \subseteq sent \cup Loads(to)
      BY <2>2 DEF Navigate
    <3> HIDE DEF to
    <3> QED BY <3>1, <3>2, <3>3, SameVisitsFit DEF SameVisits, Stays
  <2>3. CASE Navigate(q.batch, q.suggest, sent \ {q}) /\ page.kind # "batch"
    <3> DEFINE blank == BlankPage("batch", q.batch)
               p == [blank EXCEPT !.flash = "recorded", !.suggest = q.suggest]
               R == {r \in sent \ {q} : r.kind \in {"create", "record", "recall"}}
    <3>1. Mount(p, R) /\ R \subseteq sent /\ q.batch \in Batches
      BY <1>1, <1>6, <2>3 DEF Navigate, HearRecord
    <3>2. blank \in PageShapes /\ blank.visit = page.visit + 1 /\ blank.kind = "batch" /\ blank.of = q.batch
      BY <1>1, <3>1, BlankPages
    <3> HIDE DEF blank
    <3>3. p \in PageShapes /\ p.visit = page.visit + 1 /\ p.kind = "batch" /\ p.of = q.batch
      <4>1. q.suggest \in BOOLEAN
        BY <1>1 DEF CallShapes
      <4> QED BY <3>2, <4>1 DEF PageShapes
    <3> HIDE DEF p, R
    <3> QED BY <2>3, <3>1, <3>3, NextVisitFits
  <2> QED BY <1>6, <2>1, <2>2, <2>3 DEF HearRecord
<1>7. CASE HearCreate(q)
  <2> DEFINE next == [Request("record", [visit |-> q.visit], q.batch) EXCEPT
                    !.stage = HARVEST, !.to = q.to, !.known = q.known, !.created = NoBatch,
                    !.row = [NoRow EXCEPT !.exists = TRUE, !.custodian = Me]]
  <2>1. next.visit = q.visit
    BY DEF Request
  <2>2. Stays([page EXCEPT !.of = q.batch])
    BY <1>1 DEF Stays, PageShapes
  <2>3. CASE Good(q) /\ Heard(IF Here(q) THEN [page EXCEPT !.of = q.batch] ELSE page, (sent \ {q}) \cup {next})
    <3> HIDE DEF next
    <3> QED BY <1>2, <2>1, <2>2, <2>3, HeardFits
  <2>4. CASE \E m : Heard(IF Here(q) THEN [page EXCEPT !.busy = FALSE, !.message = m] ELSE page, sent \ {q})
    BY <1>2, <1>5, <2>4, HeardFits
  <2> QED BY <1>7, <2>3, <2>4 DEF HearCreate
<1>8. CASE HearRecall(q)
  <2> DEFINE get == Request("get", page, q.created)
  <2>1. Stays(Recalled(page))
    BY <1>1 DEF Stays, PageShapes, Recalled, Reloading, DialogClosed
  <2>2. get.visit = page.visit
    BY DEF Request
  <2>3. CASE Heard(IF Here(q) THEN Recalled(page) ELSE page, (sent \ {q}) \cup (IF Here(q) THEN {get} ELSE {}))
    <3> HIDE DEF get
    <3> QED BY <1>2, <2>1, <2>2, <2>3, HeardFits
  <2>4. CASE \E m : Heard(IF Here(q) THEN [page EXCEPT !.busy = FALSE, !.message = m] ELSE page, sent \ {q})
    BY <1>2, <1>5, <2>4, HeardFits
  <2> QED BY <1>8, <2>3, <2>4 DEF HearRecall
<1> QED BY <1>3, <1>4, <1>6, <1>7, <1>8

LEMMA PagesFitStart == BatchPagesInit => PagesFit
<1> SUFFICES ASSUME BatchPagesInit PROVE PagesFit
  OBVIOUS
<1>1. page.visit = 1 /\ sent = {}
  BY DEF BatchPagesInit, BlankPageAt
<1>2. VisitsFit
  BY <1>1, BatchPagesAssumption DEF VisitsFit
<1>3. /\ news = MaxNews /\ slips = MaxSlips /\ unexplained = FALSE /\ misdirected = {}
  BY DEF BatchPagesInit
<1>4. MaxNews \in 0..MaxNews /\ MaxSlips \in 0..MaxSlips
  BY BatchPagesAssumption
<1>5. unexplained \in BOOLEAN /\ misdirected \subseteq {"moved", "recalled"}
  BY <1>3
<1> QED BY <1>2, <1>3, <1>4, <1>5, Zenon DEF PagesFit

LEMMA PagesFitKept == PagesInv /\ PagesFit /\ [BatchPagesNext]_pageVars => PagesFit'
<1> SUFFICES ASSUME PagesInv, PagesFit, [BatchPagesNext]_pageVars PROVE PagesFit'
  OBVIOUS
<1>1. CASE UNCHANGED pageVars
  BY <1>1 DEF pageVars, PagesFit, VisitsFit
<1>2. CASE User
  <2>1. UNCHANGED <<news, slips, unexplained>> /\ misdirected' \subseteq misdirected \cup {"recalled"}
    BY <1>2 DEF User, OpenPage, ChooseStage, ChooseAssignee, SubmitRecord, SubmitNew, OpenDialog, Confirm,
                CloseDialog, SubmitRecall, Typing, Sends
  <2> QED BY <1>2, <2>1, UserFits DEF PagesFit
<1>3. CASE ServerStep
  <2>1. /\ news' = news /\ misdirected' = misdirected /\ slips' \in 0..MaxSlips
        /\ unexplained' \in BOOLEAN
    <3> PICK q \in sent : ServeRead(q) \/ ServeCreate(q) \/ ServeRecord(q) \/ ServeRecall(q) \/ FailCall(q) \/ LoseAnswer(q)
      BY <1>3 DEF ServerStep
    <3>1. news' = news /\ misdirected' = misdirected
      BY DEF ServeRead, ServeCreate, ServeRecord, ServeRecall, FailCall, LoseAnswer
    <3>2. slips' = slips \/ (slips > 0 /\ slips' = slips - 1)
      BY DEF ServeRead, ServeCreate, ServeRecord, ServeRecall, FailCall, LoseAnswer
    <3>3. slips' \in 0..MaxSlips
      BY <3>2, BatchPagesAssumption DEF PagesFit
    <3>4. unexplained' = unexplained \/ unexplained' = (unexplained \/ ~Explained(q))
      BY Zenon DEF ServeRead, ServeCreate, ServeRecord, ServeRecall, FailCall, LoseAnswer
    <3>5. unexplained' \in BOOLEAN
      BY <3>4 DEF PagesFit
    <3> QED BY <3>1, <3>3, <3>5
  <2> QED BY <1>3, <2>1, ServerFits DEF PagesFit
<1>4. CASE News
  <2>1. UNCHANGED <<page, sent, slips, unexplained, misdirected>> /\ news' \in 0..MaxNews
    BY <1>4, BatchPagesAssumption DEF News, PagesFit
  <2> QED BY <2>1 DEF PagesFit, VisitsFit
<1>5. CASE AnswerStep
  <2>1. UNCHANGED <<news, slips, unexplained>> /\ misdirected' \subseteq misdirected \cup {"moved"}
    BY <1>5 DEF AnswerStep, HearActors, HearBatch, HearRecord, HearCreate, HearRecall, Heard, Navigate
  <2> QED BY <1>5, <2>1, AnswersFit DEF PagesFit
<1> QED BY <1>1, <1>2, <1>3, <1>4, <1>5 DEF BatchPagesNext

LEMMA PagesTyped ==
  ASSUME PagesInv, PagesFit
  PROVE  BatchPagesTypeOK
<1>1. page.visit \in Visits /\ \A q \in sent : q.visit \in Visits
  BY BatchPagesAssumption DEF PagesInv, PagesFit, VisitsFit, PageTyped, PageShapes, CallsTyped, CallShapes, Traffic, Visits
<1>2. page \in PageRows
  BY <1>1 DEF PagesInv, PageTyped, PageShapes, PageRows
<1>3. ASSUME NEW q \in sent PROVE q \in CallRow
  <2>1. q \in CallShapes
    BY DEF PagesInv, CallsTyped
  <2> QED BY <1>1, <2>1 DEF CallShapes, CallRow
<1> QED BY <1>2, <1>3 DEF BatchPagesTypeOK, PagesInv, RowsTyped, PagesFit

\* The rows, the page, its requests and what is left of the bounds keep their
\* types; the page that is opened by the last record is a batch's, and stays.
THEOREM PagesAreTyped == BatchPagesSpec => []BatchPagesTypeOK
<1>1. PagesInv /\ PagesFit => BatchPagesTypeOK
  BY PagesTyped
<1> QED BY <1>1, PagesHold, PagesFitStart, PagesFitKept, PTL DEF BatchPagesSpec

=============================================================================
