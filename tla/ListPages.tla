----------------------------- MODULE ListPages ------------------------------
(***************************************************************************)
(* The pages that show rows from the server, under a key of theirs (a      *)
(* filter, a page number), and change them (frontend/src/pages and         *)
(* components).  None of them cancels a request, or asks of an answer      *)
(* whether it is still wanted.                                             *)
(***************************************************************************)
EXTENDS Naturals

CONSTANTS Things,        \* anomalies, accounts, invitations, sessions, batches
          MaxLoads,      \* bound: the user does no more once the rows were asked for so often
          MaxTroubles    \* bound: changes by other people, requests that fail

ASSUME ListAssumption == MaxTroubles \in Nat

VARIABLES standing,      \* the things not resolved, active, pending, live
          list,          \* what the page shows
          loads,         \* requests for the rows under way
          acts,          \* changes of a row under way
          asked, troubles,
          heard,         \* history: the request whose rows came last; 0 after a failure
          astray,        \* history: the newest request was asked under a former key
          excused        \* history: a change the page is never told of, since the newest request was served

listVars == <<standing, list, loads, acts, asked, troubles, heard, astray, excused>>

\* How the pages differ.
\*   keyed     the rows depend on a filter, a page number, a search term, a path
\*   button    what a row's button does with it: "ends", "switches"
\*   marks     the row being changed is marked, and its button disabled
\*   spins     a skeleton or a spinner stands for the rows while they load
\*   blanks    a failed read leaves the page without rows
\*   rereads   the rows are read again after a failed change as well
\*   form      the rows are read on demand
PlainPage == [keyed |-> FALSE, button |-> "none", marks |-> FALSE, spins |-> FALSE,
              blanks |-> FALSE, rereads |-> FALSE, form |-> FALSE]

Dashboard == [PlainPage EXCEPT !.keyed = TRUE, !.spins = TRUE]
KanbanBoard == [PlainPage EXCEPT !.spins = TRUE, !.blanks = TRUE]
AuditLog == [PlainPage EXCEPT !.keyed = TRUE, !.spins = TRUE]
AnomalyMonitor == [PlainPage EXCEPT !.keyed = TRUE, !.spins = TRUE, !.button = "ends", !.marks = TRUE]
NavBar == [PlainPage EXCEPT !.keyed = TRUE]
Actors == [PlainPage EXCEPT !.spins = TRUE, !.button = "switches", !.marks = TRUE]
ActorDetail == [PlainPage EXCEPT !.spins = TRUE, !.blanks = TRUE]
InvitePanel == [PlainPage EXCEPT !.button = "ends"]
Profile == [PlainPage EXCEPT !.button = "ends", !.rereads = TRUE]
TaskQueue == [PlainPage EXCEPT !.spins = TRUE, !.blanks = TRUE]
NotificationCenter == [PlainPage EXCEPT !.spins = TRUE, !.blanks = TRUE]
Reports == PlainPage
Provenance == [PlainPage EXCEPT !.spins = TRUE, !.blanks = TRUE]
ChainVerifier == [PlainPage EXCEPT !.spins = TRUE, !.form = TRUE]

Pages == {Dashboard, KanbanBoard, AuditLog, AnomalyMonitor, NavBar, Actors, ActorDetail,
          InvitePanel, Profile, TaskQueue, NotificationCenter, Reports, Provenance, ChainVerifier}

ListKeys == {"standing", "all"}

\* What the server answers under a key.
Listed(key) == IF key = "standing" THEN standing ELSE Things

ListRows == [shows: Pages, key: ListKeys, of: ListKeys \cup {"nothing"},
             rows: SUBSET Things, live: SUBSET Things,
             loading: BOOLEAN, failed: BOOLEAN, busy: SUBSET Things]
LoadRows == [n: Nat, key: ListKeys, rows: SUBSET Things, live: SUBSET Things,
             answer: {"none", "ok", "failed"}]
ActRows == [thing: Things, to: BOOLEAN, key: ListKeys, answer: {"none", "ok", "failed"}]

ListTypeOK ==
  /\ standing \subseteq Things /\ list \in ListRows
  /\ loads \subseteq LoadRows /\ acts \subseteq ActRows
  /\ asked \in Nat /\ troubles \in 0..MaxTroubles
  /\ heard \in Nat /\ astray \in BOOLEAN /\ excused \in BOOLEAN

-----------------------------------------------------------------------------
(* The page *)

\* load(): the spinner, and a request under the key the caller sees.
Asks(p, key, still) ==
  /\ asked' = asked + 1
  /\ loads' = still \cup {[n |-> asked + 1, key |-> key, rows |-> {}, live |-> {}, answer |-> "none"]}
  /\ list' = [p EXCEPT !.loading = @ \/ p.shows.spins, !.failed = FALSE]
  /\ astray' = (key # p.key)

\* Mutant of KeyEffect: the effect misses the key among its dependencies.
KeyEffectMissing(key) == list' = [list EXCEPT !.key = key] /\ UNCHANGED <<loads, asked, astray>>

\* Mutant of KeyEffect: the key is cleared, not set.
KeyEffectCleared(key) == Asks([list EXCEPT !.key = "nothing"], key, loads)

\* The effect on the key asks for the rows at once.
KeyEffect(key) == Asks([list EXCEPT !.key = key], key, loads)

\* A filter, a page number, a search term once it has rested.
ChangeKey ==
  /\ list.shows.keyed /\ asked < MaxLoads
  /\ \E key \in ListKeys \ {list.key} : KeyEffect(key)
  /\ UNCHANGED <<standing, acts, troubles, heard, excused>>

\* ChainVerifier.verify: its button is disabled while it is loading.
SubmitVerify ==
  /\ list.shows.form /\ ~list.loading /\ asked < MaxLoads
  /\ \E key \in ListKeys : Asks([list EXCEPT !.key = key, !.of = "nothing", !.rows = {}, !.live = {}], key, loads)
  /\ UNCHANGED <<standing, acts, troubles, heard, excused>>

\* What a row's button does: an account is switched, anything else ends.
ButtonOn(x) ==
  {to \in BOOLEAN : CASE list.shows.button = "switches" -> to = (x \notin list.live)
                      [] list.shows.button = "ends"     -> ~to /\ x \in list.live
                      [] OTHER                          -> FALSE}

PressButton(x) ==
  /\ asked < MaxLoads /\ x \in list.rows \ list.busy
  /\ ~ \E a \in acts : a.thing = x
  /\ \E to \in ButtonOn(x) : acts' = acts \cup {[thing |-> x, to |-> to, key |-> list.key, answer |-> "none"]}
  /\ list' = [list EXCEPT !.busy = IF list.shows.marks THEN {x} ELSE {}]
  /\ UNCHANGED <<standing, loads, asked, troubles, heard, astray, excused>>

-----------------------------------------------------------------------------
(* The server *)

Trouble == troubles > 0 /\ troubles' = troubles - 1

ServeLoad(q) ==
  /\ q.answer = "none"
  /\ loads' = (loads \ {q}) \cup {[q EXCEPT !.answer = "ok", !.rows = Listed(q.key), !.live = standing]}
  /\ excused' = (excused /\ q.n # asked)
  /\ UNCHANGED <<standing, list, acts, asked, troubles, heard, astray>>

FailLoad(q) ==
  /\ q.answer = "none" /\ Trouble
  /\ loads' = (loads \ {q}) \cup {[q EXCEPT !.answer = "failed"]}
  /\ UNCHANGED <<standing, list, acts, asked, heard, astray, excused>>

\* Accounts take the value they are sent; what has ended already is refused.
ServeAct(a) ==
  /\ a.answer = "none"
  /\ LET ok == list.shows.button = "switches" \/ a.thing \in standing
     IN /\ standing' = IF a.to THEN standing \cup {a.thing} ELSE standing \ {a.thing}
        /\ acts' = (acts \ {a}) \cup {[a EXCEPT !.answer = IF ok THEN "ok" ELSE "failed"]}
  /\ UNCHANGED <<list, loads, asked, troubles, heard, astray, excused>>

\* Profile reads its sessions again even if the revocation failed.
ReloadsAfter(a) == a.answer = "ok" \/ list.shows.rereads

\* The change fails, or it is made and its answer is lost.
FailAct(a) ==
  /\ a.answer \in {"none", "ok"} /\ Trouble
  /\ acts' = (acts \ {a}) \cup {[a EXCEPT !.answer = "failed"]}
  /\ excused' = (excused \/ (a.answer = "ok" /\ ~list.shows.rereads))
  /\ UNCHANGED <<standing, list, loads, asked, heard, astray>>

\* Another person's change.
Elsewhere ==
  /\ Trouble
  /\ \E x \in Things : standing' \in {standing \ {x}, standing \cup (IF list.shows.button = "switches" THEN {x} ELSE {})}
  /\ excused' = TRUE
  /\ UNCHANGED <<list, loads, acts, asked, heard, astray>>

-----------------------------------------------------------------------------
(* Answers *)

\* Mutant of LoadFailed: the spinner is stopped by success alone.
LoadFailedSpins == [list EXCEPT !.failed = TRUE]

\* An empty list or an error page, or the rows the page had.
LoadFailed ==
  [list EXCEPT !.loading = FALSE, !.failed = TRUE,
     !.rows = IF list.shows.blanks THEN {} ELSE @, !.live = IF list.shows.blanks THEN {} ELSE @]

\* Whichever answer comes last stays.
HearLoad(q) ==
  /\ q.answer # "none"
  /\ loads' = loads \ {q}
  /\ list' = IF q.answer = "failed" THEN LoadFailed
             ELSE [list EXCEPT !.loading = FALSE, !.of = q.key, !.rows = q.rows, !.live = q.live]
  /\ heard' = IF q.answer = "failed" THEN 0 ELSE q.n
  /\ UNCHANGED <<standing, acts, asked, troubles, astray, excused>>

\* Mutant of ReloadRows: the button trusts that its change has reached the rows.
ReloadForgotten(p, key) == list' = p /\ UNCHANGED <<loads, asked, astray>>

ReloadRows(p, key) == Asks(p, key, loads)

\* The rows are asked for under the key the button's closure saw.
HearAct(a) ==
  /\ a.answer # "none"
  /\ acts' = acts \ {a}
  /\ LET p == [list EXCEPT !.busy = {}]
     IN IF ReloadsAfter(a) THEN ReloadRows(p, a.key) ELSE list' = p /\ UNCHANGED <<loads, asked, astray>>
  /\ UNCHANGED <<standing, troubles, heard, excused>>

-----------------------------------------------------------------------------

\* A page has just mounted; all but ChainVerifier have asked for their rows.
ListInit ==
  /\ standing \in SUBSET Things
  /\ \E shows \in Pages :
       /\ list = [shows |-> shows, key |-> IF shows = AnomalyMonitor THEN "standing" ELSE "all", of |-> "nothing",
                  rows |-> {}, live |-> {}, loading |-> shows.spins /\ ~shows.form, failed |-> FALSE, busy |-> {}]
       /\ loads = IF shows.form THEN {}
                  ELSE {[n |-> 1, key |-> list.key, rows |-> {}, live |-> {}, answer |-> "none"]}
       /\ asked = IF shows.form THEN 0 ELSE 1
  /\ acts = {} /\ troubles = MaxTroubles /\ heard = 0 /\ astray = FALSE /\ excused = FALSE

ServeLoads == \E q \in loads : ServeLoad(q) \/ FailLoad(q)
HearLoads == \E q \in loads : HearLoad(q)
ServeActs == \E a \in acts : ServeAct(a) \/ FailAct(a)
HearActs == \E a \in acts : HearAct(a)

ListNext == ChangeKey \/ SubmitVerify \/ (\E x \in Things : PressButton(x)) 
            \/ ServeLoads \/ HearLoads \/ ServeActs \/ HearActs \/ Elsewhere

\* Requests are answered or fail; the browser runs what waits for an answer.
ListFairness == /\ WF_listVars(ServeLoads) /\ WF_listVars(HearLoads)
                /\ WF_listVars(ServeActs) /\ WF_listVars(HearActs)

ListSpec == ListInit /\ [][ListNext]_listVars /\ ListFairness

-----------------------------------------------------------------------------
(* Properties *)

\* However many requests overlap and in whatever order they are served: while
\* the answer heard last is the newest request's and no change of the page's own
\* is under way, the page shows what the server has, its own changes included,
\* unless others have changed something since, or the answer of a change was lost;
\* and it shows it under the key of the page, unless a reload of a closure that saw
\* a former key was the newest request (AnomalyMonitor.tsx:27-53,
\* Dashboard.tsx:160-172, Actors.tsx:33-62).
ListIsCurrent ==
  heard = asked /\ list.of # "nothing" /\ acts = {}
    => /\ list.of = list.key \/ astray
       /\ excused \/ (list.rows = Listed(list.of) /\ list.live = standing)

\* The dashboard's batches are searched and filtered by their latest stage
\* (docs/MANHINH_THEO_VAITRO.md:50): at rest, and no error shown, its rows are
\* those of the filter it shows (Dashboard.tsx:160-172).
ShowsItsFilter ==
  list.shows = Dashboard /\ loads = {} /\ list.of # "nothing" /\ ~list.failed => list.of = list.key

\* Every spinner stops, whatever becomes of the request.
LoadingEnds == list.loading ~> ~list.loading
=============================================================================
