------------------------------ MODULE Dialogs -------------------------------
(***************************************************************************)
(* The decision journal in the browser (app/src/views/decisions.tsx): a    *)
(* decision's card, a standing correction, and the dialogs that write      *)
(* (components/decision-actions.tsx), each around the one ConfirmDialog    *)
(* (components/confirm-dialog.tsx).  The page loads the journal every 30   *)
(* seconds and after each write; a card that leaves its list, because      *)
(* another tab or a terminal moved the decision or because a load failed,  *)
(* takes its dialogs with it, open or not, and the requests they sent go   *)
(* on.  A dialog is modal: what is behind it cannot be clicked.            *)
(***************************************************************************)
EXTENDS Naturals, FiniteSets

CONSTANTS
    MaxOpens,     \* bound: dialogs opened
    MaxFaults     \* bound: answers lost
ASSUME DialogsAssumption == MaxOpens \in Nat /\ MaxFaults \in Nat

Drafts == {"blank", "typed", "partial"}
Dialogs == {"verdict", "defer", "reopen", "record", "correct", "retire"}
Tabs == {"verdict", "open", "closed"}

VARIABLES
    journal,      \* server: the decision's status, whether it is due, the correction's
    written,      \* server: writes taken of each opening of a dialog
    page,         \* what the page has loaded: [ok, status, due, standing]
    tab,          \* the tab in view
    dialog,       \* each dialog's state
    sent,         \* requests under way
    opens, faults

dvars == <<journal, written, page, tab, dialog, sent, opens, faults>>

\* A dialog: open, its draft, the draft's errors shown, busy, an error shown.
\* Of its present opening: whether it was submitted.
Untouched == [open |-> FALSE, draft |-> "blank", marked |-> FALSE, busy |-> FALSE, error |-> FALSE,
              submitted |-> FALSE]

---------------------------------------------------------------------------
(* The page *)

\* The tab in view when the lists are mounted.
FirstTab(p) == IF p.status = "open" /\ p.due THEN "verdict" ELSE "open"

\* The list the decision is in, for a page and a tab.
Listed(p, t) ==
    /\ p.ok
    /\ CASE t = "verdict" -> p.status = "open" /\ p.due
         [] t = "open" -> p.status = "open"
         [] t = "closed" -> p.status = "closed"

Mounted(p, t) ==
    {"record", "correct"}
    \cup (IF Listed(p, t) THEN IF p.status = "open" THEN {"verdict", "defer"} ELSE {"reopen"} ELSE {})
    \cup (IF p.standing THEN {"retire"} ELSE {})

RendersKeeping(p, t) ==   \* mutant: a dialog outlives its card
    /\ page' = p
    /\ tab' = t
    /\ UNCHANGED <<dialog, sent>>

\* What is left of the dialogs and their requests when the page changes.
Renders(p, t) ==
    /\ page' = p
    /\ tab' = t
    /\ dialog' = [d \in Dialogs |-> IF d \in Mounted(p, t) THEN dialog[d] ELSE Untouched]
    /\ sent' = {[q EXCEPT !.mounted = @ /\ q.dialog \in Mounted(p, t)] : q \in sent}

Modal == \E d \in Dialogs : dialog[d].open

DialogsTypeOK ==
    /\ journal \in [status: {"open", "closed"}, due: BOOLEAN, standing: BOOLEAN]
    /\ written \in [1..MaxOpens -> Nat]
    /\ page \in [ok: BOOLEAN, status: {"open", "closed"}, due: BOOLEAN, standing: BOOLEAN]
    /\ tab \in Tabs
    /\ dialog \in [Dialogs -> [open: BOOLEAN, draft: Drafts, marked: BOOLEAN,
                               busy: BOOLEAN, error: BOOLEAN, submitted: BOOLEAN]]
    /\ sent \subseteq [dialog: Dialogs, opening: 1..MaxOpens, beside: Nat, mounted: BOOLEAN,
                       answer: {"none", "taken", "refused"}]
    /\ Cardinality({d \in Dialogs : dialog[d].open}) <= 1
    /\ \A d \in Dialogs : dialog[d].open => d \in Mounted(page, tab)
    /\ opens \in 0..MaxOpens /\ faults \in 0..MaxFaults

DialogsInit ==
    /\ journal \in [status: {"open", "closed"}, due: BOOLEAN, standing: BOOLEAN]
    /\ written = [o \in 1..MaxOpens |-> 0]
    /\ page = [ok |-> TRUE, status |-> journal.status, due |-> journal.due, standing |-> journal.standing]
    /\ tab = FirstTab(page)
    /\ dialog = [d \in Dialogs |-> Untouched]
    /\ sent = {} /\ opens = 0 /\ faults = 0

SwitchTab(t) ==
    /\ ~Modal /\ page.ok /\ t # tab
    /\ Renders(page, t)
    /\ UNCHANGED <<journal, written, opens, faults>>

\* The journal, the review and the corrections are loaded again, or the journal fails: the
\* lists give way to a notice, and come back with their first tab.
Loads ==
    LET p == [ok |-> TRUE, status |-> journal.status, due |-> journal.due, standing |-> journal.standing]
    IN Renders(p, IF page.ok THEN tab ELSE FirstTab(p))

Refresh ==
    /\ Loads
    /\ UNCHANGED <<journal, written, opens, faults>>

RefreshFails ==
    /\ page.ok
    /\ Renders([page EXCEPT !.ok = FALSE], tab)
    /\ UNCHANGED <<journal, written, opens, faults>>

\* Another tab or a terminal command writes, or the decision falls due.
Elsewhere ==
    /\ journal' \in {[journal EXCEPT !.status = IF @ = "open" THEN "closed" ELSE "open"],
                     [journal EXCEPT !.due = ~@], [journal EXCEPT !.standing = ~@]}
    /\ UNCHANGED <<written, page, tab, dialog, sent, opens, faults>>

---------------------------------------------------------------------------
(* A dialog *)

Pending(d) == {q \in sent : q.dialog = d /\ q.mounted}

\* The six forms: what can be typed into them, the drafts that enable the button, those its
\* own check lets through (a new decision is checked when it is sent), whether closing
\* empties it.
Verdict == [typed |-> {"typed"}, enables |-> Drafts, passes |-> Drafts, empties |-> TRUE]
Reopen == [typed |-> {"typed"}, enables |-> {"typed"}, passes |-> Drafts, empties |-> TRUE]
Defer == [typed |-> {"typed", "partial"}, enables |-> {"blank", "typed"}, passes |-> Drafts,
          empties |-> FALSE]
RecordDecision == [typed |-> {"typed", "partial"}, enables |-> Drafts, passes |-> {"typed"},
                   empties |-> TRUE]
AddCorrection == [typed |-> {"typed", "partial"}, enables |-> {"typed"}, passes |-> Drafts,
                  empties |-> TRUE]
Retire == [typed |-> {}, enables |-> Drafts, passes |-> Drafts, empties |-> FALSE]

Form(d) ==
    CASE d = "verdict" -> Verdict [] d = "reopen" -> Reopen [] d = "defer" -> Defer
      [] d = "record" -> RecordDecision [] d = "correct" -> AddCorrection [] d = "retire" -> Retire

\* onOpenChange(false)
Reset(d, state) ==
    LET shut == [state EXCEPT !.open = FALSE, !.submitted = FALSE]
    IN IF Form(d).empties THEN [shut EXCEPT !.draft = "blank", !.marked = FALSE] ELSE shut

\* Opening keeps an error that the Cancel button left, and stays busy while a request of an
\* earlier opening is not answered.
Open(d) ==
    /\ ~Modal /\ d \in Mounted(page, tab) /\ opens < MaxOpens
    /\ dialog' = [dialog EXCEPT ![d].open = TRUE]
    /\ opens' = opens + 1
    /\ UNCHANGED <<journal, written, page, tab, sent, faults>>

Fill(d) ==
    /\ dialog[d].open
    /\ \E draft \in Form(d).typed : dialog' = [dialog EXCEPT ![d].draft = draft]
    /\ UNCHANGED <<journal, written, page, tab, sent, opens, faults>>

Disabled(d) == dialog[d].draft \notin Form(d).enables
Valid(d) == dialog[d].draft \in Form(d).passes

Request(d) == [dialog |-> d, opening |-> opens, beside |-> Cardinality(Pending(d)),
               mounted |-> TRUE, answer |-> "none"]

SubmitAgain(d) ==   \* mutant: busy does not disable the button
    /\ dialog[d].open /\ ~Disabled(d) /\ Valid(d)
    /\ Cardinality(Pending(d)) < 2
    /\ dialog' = [dialog EXCEPT ![d].busy = TRUE, ![d].error = FALSE, ![d].submitted = TRUE]
    /\ sent' = sent \cup {Request(d)}
    /\ UNCHANGED <<journal, written, page, tab, opens, faults>>

Submit(d) ==
    /\ dialog[d].open /\ ~dialog[d].busy /\ ~Disabled(d)
    /\ IF Valid(d)
       THEN /\ dialog' = [dialog EXCEPT ![d].busy = TRUE, ![d].error = FALSE, ![d].submitted = TRUE,
                                        ![d].marked = FALSE]
            /\ sent' = sent \cup {Request(d)}
       ELSE /\ dialog' = [dialog EXCEPT ![d].error = FALSE, ![d].marked = TRUE]
            /\ sent' = sent
    /\ UNCHANGED <<journal, written, page, tab, opens, faults>>

\* The Cancel button only closes; Escape and a click outside also clear the error.
CancelDialog(d) ==
    /\ dialog[d].open
    /\ dialog' = [dialog EXCEPT ![d] = Reset(d, @)]
    /\ UNCHANGED <<journal, written, page, tab, sent, opens, faults>>

Dismiss(d) ==
    /\ dialog[d].open
    /\ dialog' = [dialog EXCEPT ![d] = [Reset(d, @) EXCEPT !.error = FALSE]]
    /\ UNCHANGED <<journal, written, page, tab, sent, opens, faults>>

---------------------------------------------------------------------------
(* The server takes a write or refuses it: a decision must be in the state  *)
(* the write starts from; anything is refused while a run is active or      *)
(* another command holds the lock                                           *)

Moved(d) ==
    CASE d = "verdict" -> [journal EXCEPT !.status = "closed", !.due = FALSE]
      [] d = "defer" -> [journal EXCEPT !.due = FALSE]
      [] d = "reopen" -> [journal EXCEPT !.status = "open"]
      [] d = "correct" -> [journal EXCEPT !.standing = TRUE]
      [] d = "retire" -> [journal EXCEPT !.standing = FALSE]
      [] d = "record" -> journal

Admits(d) ==
    /\ d \in {"verdict", "defer"} => journal.status = "open"
    /\ d = "reopen" => journal.status = "closed"
    /\ d = "retire" => journal.standing

Handle(q) ==
    /\ q.answer = "none"
    /\ \/ /\ Admits(q.dialog)
          /\ journal' = Moved(q.dialog)
          /\ written' = [written EXCEPT ![q.opening] = @ + 1]
          /\ sent' = (sent \ {q}) \cup {[q EXCEPT !.answer = "taken"]}
       \/ /\ sent' = (sent \ {q}) \cup {[q EXCEPT !.answer = "refused"]}
          /\ UNCHANGED <<journal, written>>
    /\ UNCHANGED <<page, tab, dialog, opens, faults>>

LoseAnswer(q) ==
    /\ q.answer = "taken" /\ faults < MaxFaults
    /\ sent' = (sent \ {q}) \cup {[q EXCEPT !.answer = "refused"]}
    /\ faults' = faults + 1
    /\ UNCHANGED <<journal, written, page, tab, dialog, opens>>

ComplainNot(state) == [state EXCEPT !.busy = FALSE]   \* mutant: the error is swallowed

\* catch and finally of run: the error is shown, in whatever opening the dialog is by now.
Complain(state) == [state EXCEPT !.error = TRUE, !.busy = FALSE]

\* onDone reloads the page's data, also for a dialog that is gone; then the dialog closes.
Succeed(q) ==
    /\ q.answer = "taken"
    /\ dialog' = IF q.mounted
                 THEN [dialog EXCEPT ![q.dialog] = [Reset(q.dialog, @) EXCEPT !.busy = FALSE]]
                 ELSE dialog
    /\ sent' = sent \ {q}
    /\ UNCHANGED <<journal, written, page, tab, opens, faults>>

Fail(q) ==
    /\ q.answer = "refused"
    /\ dialog' = IF q.mounted THEN [dialog EXCEPT ![q.dialog] = Complain(@)] ELSE dialog
    /\ sent' = sent \ {q}
    /\ UNCHANGED <<journal, written, page, tab, opens, faults>>

---------------------------------------------------------------------------

DialogsNext ==
    \/ \E d \in Dialogs : Open(d) \/ Fill(d) \/ Submit(d) \/ CancelDialog(d) \/ Dismiss(d)
    \/ \E q \in sent : Handle(q) \/ LoseAnswer(q) \/ Succeed(q) \/ Fail(q)
    \/ \E t \in Tabs : SwitchTab(t)
    \/ Refresh \/ RefreshFails \/ Elsewhere

DialogsSpec == DialogsInit /\ [][DialogsNext]_dvars

---------------------------------------------------------------------------
(* Properties *)

\* What one opening of a dialog confirms is written once, but for answers that were lost:
\* however it is clicked, closed, opened again and answered late.
WrittenOnce == \A o \in 1..MaxOpens : written[o] <= 1 + faults

\* A dialog that was submitted and is still open either waits or says what went wrong, in the
\* error or at the fields that its own check marked.
RefusalIsShown ==
    \A d \in Dialogs :
        LET state == dialog[d]
        IN state.open /\ state.submitted /\ ~state.marked => state.busy \/ state.error
=============================================================================
