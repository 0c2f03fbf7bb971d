--------------------------- MODULE Dialogs_proofs ---------------------------
(***************************************************************************)
(* The decision journal's dialogs, for any number of openings and of lost  *)
(* answers: what an opening confirms is written once, and a dialog that    *)
(* was submitted waits or says what went wrong.                            *)
(*                                                                         *)
(* Neither is inductive.  Both rest on who may still be answered: a dialog *)
(* is busy exactly while a request of it is under way, of this opening or  *)
(* of an earlier one, so it never has two; and what an opening may still   *)
(* write depends on how far its one request has come (Budget).             *)
(* The types of the frame around the pages are at the end.                 *)
(***************************************************************************)
EXTENDS Dialogs, Shell, FiniteSetTheorems, TLAPS

State == [open: BOOLEAN, draft: Drafts, marked: BOOLEAN, busy: BOOLEAN, error: BOOLEAN,
          submitted: BOOLEAN]
Journal == [status: {"open", "closed"}, due: BOOLEAN, standing: BOOLEAN]
Page == [ok: BOOLEAN, status: {"open", "closed"}, due: BOOLEAN, standing: BOOLEAN]
Requests == [dialog: Dialogs, opening: 1..MaxOpens, beside: Nat, mounted: BOOLEAN,
             answer: {"none", "taken", "refused"}]

Types ==
  /\ journal \in Journal
  /\ written \in [1..MaxOpens -> Nat]
  /\ page \in Page
  /\ tab \in Tabs
  /\ dialog \in [Dialogs -> State]
  /\ sent \subseteq Requests
  /\ opens \in 0..MaxOpens /\ faults \in 0..MaxFaults

\* One dialog is open, on a page that has it; only an open one counts as submitted.
OneOpen ==
  /\ \A d, e \in Dialogs : dialog[d].open /\ dialog[e].open => d = e
  /\ \A d \in Dialogs : dialog[d].open => d \in Mounted(page, tab)
  /\ \A d \in Dialogs : dialog[d].submitted => dialog[d].open

\* A dialog is busy while a request of it is under way.
BusyWaits == \A d \in Dialogs : dialog[d].busy <=> \E q \in sent : q.dialog = d /\ q.mounted

\* There is at most one of each opening, and one that a dialog waits for.
OneEach ==
  \A q, p \in sent : q.opening = p.opening \/ (q.dialog = p.dialog /\ q.mounted /\ p.mounted) => q = p

\* An opening's requests are of the dialog that was opened, which has not been unmounted
\* as long as it is open.
OfOpening ==
  /\ \A q \in sent : q.opening <= opens
  /\ \A d \in Dialogs : dialog[d].open =>
       opens # 0 /\ \A q \in sent : q.opening = opens => q.dialog = d /\ q.mounted

\* What an opening has written: nothing before it, nothing (but for lost answers) until its
\* request is taken, and nothing while it is open and waits for none.
Budget ==
  \A o \in 1..MaxOpens :
    /\ written[o] <= 1 + faults
    /\ o > opens => written[o] = 0
    /\ \A q \in sent : q.opening = o /\ q.answer # "taken" => written[o] <= faults
    /\ Modal /\ o = opens /\ (\A q \in sent : q.opening # o) => written[o] <= faults

Awaiting == OneOpen /\ BusyWaits /\ OneEach /\ OfOpening
IInv == Types /\ Awaiting /\ Budget /\ RefusalIsShown

---------------------------------------------------------------------------
(* The forms *)

LEMMA FormTyped ==
  ASSUME NEW d \in Dialogs
  PROVE  Form(d).typed \subseteq Drafts
BY DEF Dialogs, Drafts, Form, Verdict, Defer, Reopen, RecordDecision, AddCorrection, Retire

\* Closing a dialog leaves what it waits for.
LEMMA ResetCloses ==
  ASSUME NEW d \in Dialogs, NEW after \in State
  PROVE  /\ Reset(d, after) \in State
         /\ ~Reset(d, after).open /\ ~Reset(d, after).submitted
         /\ Reset(d, after).busy = after.busy
<1> DEFINE shut == [after EXCEPT !.open = FALSE, !.submitted = FALSE]
<1>1. shut \in State /\ ~shut.open /\ ~shut.submitted /\ shut.busy = after.busy
  BY DEF State
<1>2. Reset(d, after) \in {shut, [shut EXCEPT !.draft = "blank", !.marked = FALSE]}
  BY DEF Reset
<1> HIDE DEF shut
<1>3. LET s == [shut EXCEPT !.draft = "blank", !.marked = FALSE]
      IN s \in State /\ ~s.open /\ ~s.submitted /\ s.busy = after.busy
  BY <1>1 DEF State, Drafts
<1> QED
  BY <1>1, <1>2, <1>3

\* A page shows at most one open dialog.
LEMMA OneOpenCounts ==
  ASSUME OneOpen
  PROVE  Cardinality({d \in Dialogs : dialog[d].open}) <= 1
<1> DEFINE S == {d \in Dialogs : dialog[d].open}
<1>1. CASE S = {}
  <2>1. Cardinality(S) = 0
    BY <1>1, FS_EmptySet
  <2> QED
    BY <2>1
<1>2. CASE S # {}
  <2>1. PICK d \in S : S = {d}
    BY <1>2 DEF OneOpen
  <2>2. Cardinality(S) = 1
    BY <2>1, FS_Singleton
  <2> QED
    BY <2>2
<1> QED
  BY <1>1, <1>2

LEMMA TypesOfIInv == IInv => DialogsTypeOK
<1> SUFFICES ASSUME IInv PROVE DialogsTypeOK
  OBVIOUS
<1>1. Cardinality({d \in Dialogs : dialog[d].open}) <= 1
  BY OneOpenCounts DEF IInv, Awaiting
<1> QED
  BY <1>1 DEF IInv, Types, Awaiting, OneOpen, DialogsTypeOK, State, Journal, Page, Requests

LEMMA InitIInv == DialogsInit => IInv
<1> SUFFICES ASSUME DialogsInit PROVE IInv
  OBVIOUS
<1>1. /\ dialog = [d \in Dialogs |-> Untouched] /\ sent = {} /\ opens = 0 /\ faults = 0
      /\ written = [o \in 1..MaxOpens |-> 0]
  BY DEF DialogsInit
<1>2. \A d \in Dialogs : dialog[d] = Untouched
  BY <1>1
<1>3. Types
  <2>1. tab \in Tabs
    BY DEF DialogsInit, FirstTab, Tabs
  <2>2. Untouched \in State
    BY DEF Untouched, State, Drafts
  <2>3. journal \in Journal /\ page \in Page
    BY DEF DialogsInit, Journal, Page
  <2> QED
    BY <1>1, <2>1, <2>2, <2>3, DialogsAssumption DEF Types
<1>4. Awaiting
  BY <1>1, <1>2 DEF Awaiting, OneOpen, BusyWaits, OneEach, OfOpening, Untouched
<1>5. Budget
  BY <1>1 DEF Budget
<1>6. RefusalIsShown
  BY <1>2 DEF RefusalIsShown, Untouched
<1> QED
  BY <1>3, <1>4, <1>5, <1>6 DEF IInv

---------------------------------------------------------------------------
(* The steps *)

\* Another page or tab: dialogs that lose their card are as if they had never been opened,
\* and their requests are answered to nobody.
LEMMA RendersKeeps ==
  ASSUME IInv, NEW p \in Page, NEW t \in Tabs, Renders(p, t),
         UNCHANGED <<journal, written, opens, faults>>
  PROVE  IInv'
<1> DEFINE M == Mounted(p, t)
           f(q) == [q EXCEPT !.mounted = @ /\ q.dialog \in M]
<1> USE DEF IInv, Awaiting
<1>1. /\ page' = p /\ tab' = t
      /\ dialog' = [d \in Dialogs |-> IF d \in M THEN dialog[d] ELSE Untouched]
      /\ sent' = {f(q) : q \in sent}
  BY DEF Renders
<1>2. ASSUME NEW q \in sent
      PROVE  /\ f(q) \in Requests /\ f(q) \in sent'
             /\ f(q).opening = q.opening /\ f(q).dialog = q.dialog /\ f(q).answer = q.answer
             /\ f(q).mounted <=> (q.mounted /\ q.dialog \in M)
  <2>1. q \in Requests
    BY DEF Types
  <2>2. f(q) \in Requests
    BY <2>1 DEF Requests
  <2> QED
    BY <1>1, <2>1, <2>2 DEF Requests
<1> HIDE DEF f, M
<1>3. Untouched \in State /\ ~Untouched.open /\ ~Untouched.busy /\ ~Untouched.submitted
  BY DEF Untouched, State, Drafts
<1>4. \A d \in Dialogs : dialog'[d] = IF d \in M THEN dialog[d] ELSE Untouched
  BY <1>1
<1>5. Types'
  BY <1>1, <1>2, <1>3 DEF Types
<1>6. OneOpen'
  BY <1>1, <1>3, <1>4 DEF OneOpen, M
<1>7. BusyWaits'
  <2> SUFFICES ASSUME NEW d \in Dialogs
               PROVE  dialog'[d].busy <=> \E q \in sent' : q.dialog = d /\ q.mounted
    BY DEF BusyWaits
  <2>1. CASE d \in M
    <3>1. (\E q \in sent' : q.dialog = d /\ q.mounted) <=> (\E q \in sent : q.dialog = d /\ q.mounted)
      BY <1>1, <1>2, <2>1
    <3> QED
      BY <1>4, <2>1, <3>1 DEF BusyWaits
  <2>2. CASE d \notin M
    BY <1>1, <1>2, <1>3, <1>4, <2>2
  <2> QED
    BY <2>1, <2>2
<1>8. OneEach'
  BY <1>1, <1>2 DEF OneEach
<1>9. OfOpening'
  <2>1. ASSUME NEW d \in Dialogs, dialog'[d].open
        PROVE  opens # 0 /\ \A q \in sent' : q.opening = opens => q.dialog = d /\ q.mounted
    <3>1. d \in M /\ dialog[d].open
      BY <1>3, <1>4, <2>1
    <3> QED
      BY <1>1, <1>2, <3>1 DEF OfOpening
  <2> QED
    BY <1>1, <1>2, <2>1 DEF OfOpening
<1>10. Budget'
  <2>1. Modal' => Modal
    BY <1>3, <1>4 DEF Modal
  <2>2. ASSUME NEW o \in 1..MaxOpens, \A q \in sent' : q.opening # o PROVE \A q \in sent : q.opening # o
    BY <1>2, <2>2
  <2> QED
    BY <1>1, <1>2, <2>1, <2>2 DEF Budget
<1>11. RefusalIsShown'
  BY <1>3, <1>4 DEF RefusalIsShown
<1> QED
  BY <1>5, <1>6, <1>7, <1>8, <1>9, <1>10, <1>11

\* Only the journal has changed.
LEMMA ElsewhereKeeps ==
  ASSUME IInv, Elsewhere
  PROVE  IInv'
<1>1. journal' \in Journal
  BY DEF Elsewhere, IInv, Types, Journal
<1>2. UNCHANGED <<written, page, tab, dialog, sent, opens, faults>>
  BY DEF Elsewhere
<1> QED
  BY <1>1, <1>2
     DEF IInv, Types, Awaiting, OneOpen, BusyWaits, OneEach, OfOpening, Budget, Modal, RefusalIsShown

\* A dialog that is edited or closed sends nothing.
LEMMA DialogKeeps ==
  ASSUME IInv, NEW d \in Dialogs, NEW after \in State,
         dialog[d].open, dialog' = [dialog EXCEPT ![d] = after],
         after.busy = dialog[d].busy,
         after.submitted => after.open /\ dialog[d].submitted,
         after.open /\ after.submitted /\ ~after.marked => after.busy \/ after.error,
         UNCHANGED <<journal, written, page, tab, sent, opens, faults>>
  PROVE  IInv'
<1> USE DEF IInv, Awaiting
<1>1. \A e \in Dialogs : dialog'[e] = IF e = d THEN after ELSE dialog[e]
  BY DEF Types
<1>2. Types'
  BY DEF Types
<1>3. OneOpen'
  BY <1>1 DEF OneOpen
<1>4. BusyWaits' /\ OneEach'
  BY <1>1 DEF BusyWaits, OneEach
<1>5. OfOpening'
  BY <1>1 DEF OfOpening, OneOpen
<1>6. Budget'
  BY <1>1 DEF Budget, Modal
<1>7. RefusalIsShown'
  BY <1>1 DEF RefusalIsShown
<1> QED
  BY <1>2, <1>3, <1>4, <1>5, <1>6, <1>7

LEMMA FillKeeps ==
  ASSUME IInv, NEW d \in Dialogs, Fill(d)
  PROVE  IInv'
<1>1. PICK draft \in Drafts : dialog' = [dialog EXCEPT ![d].draft = draft]
  BY FormTyped DEF Fill
<1> DEFINE after == [dialog[d] EXCEPT !.draft = draft]
<1>2. dialog[d] \in State
  BY DEF IInv, Types
<1>3. /\ after \in State /\ after.open = dialog[d].open /\ after.busy = dialog[d].busy
      /\ after.submitted = dialog[d].submitted /\ after.marked = dialog[d].marked
      /\ after.error = dialog[d].error
  BY <1>2 DEF State
<1>4. dialog' = [dialog EXCEPT ![d] = after]
  BY <1>1
<1> HIDE DEF after
<1>5. after.open /\ after.submitted /\ ~after.marked => after.busy \/ after.error
  BY <1>3 DEF IInv, RefusalIsShown
<1> QED
  BY <1>3, <1>4, <1>5, DialogKeeps DEF Fill

LEMMA CloseKeeps ==
  ASSUME IInv, NEW d \in Dialogs, CancelDialog(d) \/ Dismiss(d)
  PROVE  IInv'
<1>1. dialog[d] \in State /\ dialog[d].open
  BY DEF IInv, Types, CancelDialog, Dismiss
<1> DEFINE shut == Reset(d, dialog[d])
           calm == [shut EXCEPT !.error = FALSE]
<1>2. shut \in State /\ ~shut.open /\ ~shut.submitted /\ shut.busy = dialog[d].busy
  BY <1>1, ResetCloses
<1>3. dialog' = [dialog EXCEPT ![d] = shut] \/ dialog' = [dialog EXCEPT ![d] = calm]
  BY DEF CancelDialog, Dismiss
<1>4. UNCHANGED <<journal, written, page, tab, sent, opens, faults>>
  BY DEF CancelDialog, Dismiss
<1> HIDE DEF shut
<1>5. calm \in State /\ ~calm.open /\ ~calm.submitted /\ calm.busy = dialog[d].busy
  BY <1>2 DEF State
<1> HIDE DEF calm
<1> QED
  BY <1>1, <1>2, <1>3, <1>4, <1>5, DialogKeeps

\* What opens has a number of its own, and nothing of that number is under way.
LEMMA OpenKeeps ==
  ASSUME IInv, NEW d \in Dialogs, Open(d)
  PROVE  IInv'
<1> USE DEF IInv, Awaiting
<1> DEFINE after == [dialog[d] EXCEPT !.open = TRUE]
<1>1. /\ ~Modal /\ d \in Mounted(page, tab) /\ opens < MaxOpens /\ opens' = opens + 1
      /\ dialog' = [dialog EXCEPT ![d] = after]
      /\ UNCHANGED <<journal, written, page, tab, sent, faults>>
  BY DEF Open
<1>2. dialog[d] \in State /\ opens \in Nat /\ MaxOpens \in Nat
  BY DialogsAssumption DEF Types
<1>3. /\ after \in State /\ after.open /\ after.busy = dialog[d].busy
      /\ after.submitted = dialog[d].submitted
  BY <1>2 DEF State
<1> HIDE DEF after
<1>4. \A e \in Dialogs : dialog'[e] = IF e = d THEN after ELSE dialog[e]
  BY <1>1 DEF Types
<1>5. ~dialog[d].open /\ ~dialog[d].submitted
  BY <1>1 DEF Modal, OneOpen
<1>6. \A q \in sent : q.opening \in Nat /\ q.opening <= opens
  BY DEF OfOpening, Types, Requests
<1>7. Types'
  BY <1>1, <1>2, <1>3 DEF Types
<1>8. OneOpen'
  BY <1>1, <1>3, <1>4, <1>5 DEF OneOpen, Modal
<1>9. BusyWaits' /\ OneEach'
  BY <1>1, <1>3, <1>4 DEF BusyWaits, OneEach
<1>10. OfOpening'
  BY <1>1, <1>2, <1>4, <1>6 DEF OfOpening, Modal
<1>11. Budget'
  <2> SUFFICES ASSUME NEW o \in 1..MaxOpens
               PROVE  /\ written[o] <= 1 + faults
                      /\ o > opens + 1 => written[o] = 0
                      /\ \A q \in sent : q.opening = o /\ q.answer # "taken" => written[o] <= faults
                      /\ o = opens + 1 => written[o] <= faults
    BY <1>1 DEF Budget
  <2> QED
    BY <1>2 DEF Budget, Types
<1>12. RefusalIsShown'
  BY <1>3, <1>4, <1>5 DEF RefusalIsShown
<1> QED
  BY <1>7, <1>8, <1>9, <1>10, <1>11, <1>12

\* The button is enabled: nothing of the dialog is under way, of this opening or another.
LEMMA SubmitKeeps ==
  ASSUME IInv, NEW d \in Dialogs, Submit(d)
  PROVE  IInv'
<1> USE DEF IInv, Awaiting
<1>1. /\ dialog[d].open /\ ~dialog[d].busy /\ dialog[d] \in State
      /\ UNCHANGED <<journal, written, page, tab, opens, faults>>
  BY DEF Submit, Types
<1>2. CASE ~Valid(d)
  <2> DEFINE after == [dialog[d] EXCEPT !.error = FALSE, !.marked = TRUE]
  <2>1. /\ after \in State /\ after.open /\ after.busy = dialog[d].busy /\ after.marked
        /\ after.submitted = dialog[d].submitted
    BY <1>1 DEF State
  <2>2. dialog' = [dialog EXCEPT ![d] = after] /\ sent' = sent
    BY <1>2 DEF Submit
  <2> HIDE DEF after
  <2> QED
    BY <1>1, <2>1, <2>2, DialogKeeps
<1>3. CASE Valid(d)
  <2> DEFINE after == [dialog[d] EXCEPT !.busy = TRUE, !.error = FALSE, !.submitted = TRUE, !.marked = FALSE]
             r == Request(d)
  <2>1. after \in State /\ after.open /\ after.busy /\ after.submitted
    BY <1>1 DEF State
  <2>2. dialog' = [dialog EXCEPT ![d] = after] /\ sent' = sent \cup {r}
    BY <1>3 DEF Submit
  <2>3. Pending(d) = {}
    BY <1>1 DEF BusyWaits, Pending
  <2>4. Cardinality(Pending(d)) = 0
    BY <2>3, FS_EmptySet
  <2>5. opens \in 1..MaxOpens /\ opens <= opens
    BY <1>1 DEF OfOpening, Types
  <2>6. /\ r \in Requests /\ r.dialog = d /\ r.mounted /\ r.opening = opens /\ r.answer = "none"
    BY <2>4, <2>5 DEF Request, Requests
  <2>7. \A q \in sent : q.opening # opens /\ ~(q.dialog = d /\ q.mounted)
    BY <1>1 DEF BusyWaits, OfOpening
  <2> HIDE DEF after, r
  <2>8. \A e \in Dialogs : dialog'[e] = IF e = d THEN after ELSE dialog[e]
    BY <2>2 DEF Types
  <2>9. Types'
    BY <1>1, <2>1, <2>2, <2>6 DEF Types
  <2>10. OneOpen'
    BY <1>1, <2>1, <2>8 DEF OneOpen
  <2>11. BusyWaits'
    BY <2>1, <2>2, <2>6, <2>8 DEF BusyWaits
  <2>12. OneEach'
    BY <2>2, <2>6, <2>7 DEF OneEach
  <2>13. OfOpening'
    BY <1>1, <2>2, <2>5, <2>6, <2>8 DEF OfOpening, OneOpen
  <2>14. Budget'
    <3>1. written[opens] <= faults
      BY <1>1, <2>5, <2>7 DEF Budget, Modal
    <3>2. Modal' <=> Modal
      BY <1>1, <2>1, <2>8 DEF Modal
    <3> QED
      BY <1>1, <2>2, <2>6, <3>1, <3>2 DEF Budget
  <2>15. RefusalIsShown'
    BY <2>1, <2>8 DEF RefusalIsShown
  <2> QED
    BY <2>9, <2>10, <2>11, <2>12, <2>13, <2>14, <2>15
<1> QED
  BY <1>2, <1>3

\* A request's answer is written or lost: what its opening has written goes with it.
LEMMA AnswerKeeps ==
  ASSUME IInv, NEW q \in sent, NEW a \in {"taken", "refused"},
         sent' = (sent \ {q}) \cup {[q EXCEPT !.answer = a]},
         journal' \in Journal, written' \in [1..MaxOpens -> Nat],
         faults' \in 0..MaxFaults, faults <= faults',
         UNCHANGED <<page, tab, dialog, opens>>,
         \A o \in 1..MaxOpens : o # q.opening => written'[o] = written[o],
         a = "taken" => q.answer # "taken" /\ written'[q.opening] = written[q.opening] + 1,
         a = "refused" => written'[q.opening] = written[q.opening],
         a = "refused" /\ q.answer = "taken" => faults' = faults + 1
  PROVE  IInv'
<1> USE DEF IInv, Awaiting
<1> DEFINE r == [q EXCEPT !.answer = a]
<1>1. q \in Requests /\ faults \in Nat /\ faults' \in Nat /\ opens \in Nat
      /\ written \in [1..MaxOpens -> Nat]
  BY DialogsAssumption DEF Types
<1>2. /\ r \in Requests /\ r.dialog = q.dialog /\ r.opening = q.opening /\ r.mounted = q.mounted
      /\ r.answer = a
  BY <1>1 DEF Requests
<1>3. sent' = (sent \ {q}) \cup {r} /\ q.opening \in 1..MaxOpens
  BY <1>1 DEF Requests
<1> HIDE DEF r
<1>4. Types'
  BY <1>2, <1>3 DEF Types
<1>5. OneOpen'
  BY DEF OneOpen
<1>6. BusyWaits'
  BY <1>2, <1>3 DEF BusyWaits
<1>7. OneEach'
  BY <1>2, <1>3 DEF OneEach
<1>8. OfOpening'
  BY <1>2, <1>3 DEF OfOpening
<1>9. Budget'
  <2> SUFFICES ASSUME NEW o \in 1..MaxOpens
               PROVE  /\ written'[o] <= 1 + faults'
                      /\ o > opens => written'[o] = 0
                      /\ \A p \in sent' : p.opening = o /\ p.answer # "taken" => written'[o] <= faults'
                      /\ Modal /\ o = opens /\ (\A p \in sent' : p.opening # o) => written'[o] <= faults'
    BY DEF Budget, Modal
  <2>1. CASE o # q.opening
    BY <1>1, <1>2, <1>3, <2>1 DEF Budget
  <2>2. CASE o = q.opening
    <3>1. ~(o > opens) /\ r \in sent' /\ r.opening = o
      BY <1>1, <1>2, <1>3, <2>2 DEF OfOpening
    <3>2. \A p \in sent' : p.opening = o => p = r
      BY <1>2, <1>3, <2>2 DEF OneEach
    <3>3. CASE a = "taken"
      <4>1. written[o] <= faults
        BY <2>2, <3>3 DEF Budget
      <4> QED
        BY <1>1, <1>2, <2>2, <3>1, <3>2, <3>3, <4>1
    <3>4. CASE a = "refused"
      <4>1. written'[o] <= faults'
        BY <1>1, <2>2, <3>4 DEF Budget
      <4> QED
        BY <1>1, <3>1, <4>1
    <3> QED
      BY <3>3, <3>4
  <2> QED
    BY <2>1, <2>2
<1>10. RefusalIsShown'
  BY DEF RefusalIsShown
<1> QED
  BY <1>4, <1>5, <1>6, <1>7, <1>8, <1>9, <1>10

LEMMA HandleKeeps ==
  ASSUME IInv, NEW q \in sent, Handle(q)
  PROVE  IInv'
<1>1. /\ q \in Requests /\ q.opening \in 1..MaxOpens /\ q.dialog \in Dialogs
      /\ faults \in 0..MaxFaults /\ faults <= faults /\ journal \in Journal
      /\ written \in [1..MaxOpens -> Nat]
  BY DialogsAssumption DEF IInv, Types, Requests
<1>2. UNCHANGED <<page, tab, dialog, opens, faults>> /\ q.answer = "none"
  BY DEF Handle
<1>3. CASE /\ journal' = Moved(q.dialog)
           /\ written' = [written EXCEPT ![q.opening] = @ + 1]
           /\ sent' = (sent \ {q}) \cup {[q EXCEPT !.answer = "taken"]}
  <2>1. Moved(q.dialog) \in Journal
    BY <1>1 DEF Moved, Journal, Dialogs
  <2>2. /\ written' \in [1..MaxOpens -> Nat]
        /\ \A o \in 1..MaxOpens : o # q.opening => written'[o] = written[o]
        /\ written'[q.opening] = written[q.opening] + 1
    BY <1>1, <1>3
  <2> QED
    BY <1>1, <1>2, <1>3, <2>1, <2>2, AnswerKeeps
<1>4. CASE /\ sent' = (sent \ {q}) \cup {[q EXCEPT !.answer = "refused"]}
           /\ UNCHANGED <<journal, written>>
  BY <1>1, <1>2, <1>4, AnswerKeeps
<1> QED
  BY <1>3, <1>4 DEF Handle

LEMMA LoseAnswerKeeps ==
  ASSUME IInv, NEW q \in sent, LoseAnswer(q)
  PROVE  IInv'
<1>1. /\ journal \in Journal /\ written \in [1..MaxOpens -> Nat] /\ faults \in 0..MaxFaults
  BY DEF IInv, Types
<1>2. /\ q.answer = "taken" /\ faults < MaxFaults /\ faults' = faults + 1
      /\ sent' = (sent \ {q}) \cup {[q EXCEPT !.answer = "refused"]}
      /\ UNCHANGED <<journal, written, page, tab, dialog, opens>>
  BY DEF LoseAnswer
<1>3. faults' \in 0..MaxFaults /\ faults <= faults'
  BY <1>1, <1>2, DialogsAssumption
<1> QED
  BY <1>1, <1>2, <1>3, AnswerKeeps

\* The answer is dealt with: the dialog that waited for it is no longer busy, and is closed
\* unless it says that the request failed.
LEMMA AnsweredKeeps ==
  ASSUME IInv, NEW q \in sent, NEW after \in State,
         ~after.busy,
         after.submitted => after.open,
         after.open => dialog[q.dialog].open /\ q.answer # "taken" /\ after.error,
         dialog' = IF q.mounted THEN [dialog EXCEPT ![q.dialog] = after] ELSE dialog,
         sent' = sent \ {q},
         UNCHANGED <<journal, written, page, tab, opens, faults>>
  PROVE  IInv'
<1> USE DEF IInv, Awaiting
<1>1. q \in Requests /\ q.dialog \in Dialogs /\ q.mounted \in BOOLEAN
  BY DEF Types, Requests
<1>2. \A e \in Dialogs : dialog'[e] = IF q.mounted /\ e = q.dialog THEN after ELSE dialog[e]
  BY <1>1 DEF Types
<1>3. Types'
  BY <1>1 DEF Types
<1>4. OneOpen'
  BY <1>1, <1>2 DEF OneOpen
<1>5. BusyWaits'
  <2> SUFFICES ASSUME NEW d \in Dialogs
               PROVE  dialog'[d].busy <=> \E p \in sent' : p.dialog = d /\ p.mounted
    BY DEF BusyWaits
  <2>1. CASE q.mounted /\ d = q.dialog
    BY <1>1, <1>2, <2>1 DEF OneEach
  <2>2. CASE ~(q.mounted /\ d = q.dialog)
    BY <1>2, <2>2 DEF BusyWaits
  <2> QED
    BY <2>1, <2>2
<1>6. OneEach'
  BY DEF OneEach
<1>7. OfOpening'
  BY <1>1, <1>2 DEF OfOpening
<1>8. Budget'
  <2>1. ASSUME Modal', opens = q.opening PROVE q.answer # "taken"
    <3>1. PICK e \in Dialogs : dialog'[e].open
      BY <2>1 DEF Modal
    <3>2. dialog[e].open
      BY <1>2, <3>1
    <3>3. q.dialog = e /\ q.mounted
      BY <2>1, <3>2 DEF OfOpening
    <3> QED
      BY <1>1, <1>2, <3>1, <3>3
  <2>2. Modal' => Modal
    BY <1>1, <1>2 DEF Modal
  <2> SUFFICES ASSUME NEW o \in 1..MaxOpens, Modal', o = opens, \A p \in sent' : p.opening # o
               PROVE  written[o] <= faults
    BY DEF Budget
  <2>3. CASE o = q.opening
    BY <2>1, <2>3 DEF Budget
  <2>4. CASE o # q.opening
    BY <2>2, <2>4 DEF Budget
  <2> QED
    BY <2>3, <2>4
<1>9. RefusalIsShown'
  BY <1>1, <1>2 DEF RefusalIsShown
<1> QED
  BY <1>3, <1>4, <1>5, <1>6, <1>7, <1>8, <1>9

LEMMA SucceedKeeps ==
  ASSUME IInv, NEW q \in sent, Succeed(q)
  PROVE  IInv'
<1> DEFINE shut == Reset(q.dialog, dialog[q.dialog])
           after == [shut EXCEPT !.busy = FALSE]
<1>1. q.dialog \in Dialogs /\ dialog[q.dialog] \in State
  BY DEF IInv, Types, Requests
<1>2. shut \in State /\ ~shut.open /\ ~shut.submitted
  BY <1>1, ResetCloses
<1>3. dialog' = IF q.mounted THEN [dialog EXCEPT ![q.dialog] = after] ELSE dialog
  BY DEF Succeed
<1> HIDE DEF shut
<1>4. after \in State /\ ~after.open /\ ~after.submitted /\ ~after.busy
  BY <1>2 DEF State
<1> HIDE DEF after
<1> QED
  BY <1>3, <1>4, AnsweredKeeps DEF Succeed

LEMMA FailKeeps ==
  ASSUME IInv, NEW q \in sent, Fail(q)
  PROVE  IInv'
<1> DEFINE after == Complain(dialog[q.dialog])
<1>1. q.dialog \in Dialogs /\ dialog[q.dialog] \in State
  BY DEF IInv, Types, Requests
<1>2. /\ after \in State /\ ~after.busy /\ after.error /\ after.open = dialog[q.dialog].open
      /\ after.submitted = dialog[q.dialog].submitted
  BY <1>1 DEF Complain, State
<1>3. after.submitted => after.open
  BY <1>1, <1>2 DEF IInv, Awaiting, OneOpen
<1>4. dialog' = IF q.mounted THEN [dialog EXCEPT ![q.dialog] = after] ELSE dialog
  BY DEF Fail
<1> HIDE DEF after
<1> QED
  BY <1>2, <1>3, <1>4, AnsweredKeeps DEF Fail

---------------------------------------------------------------------------

LEMMA StepIInv == IInv /\ [DialogsNext]_dvars => IInv'
<1> SUFFICES ASSUME IInv, [DialogsNext]_dvars PROVE IInv'
  OBVIOUS
<1>1. ASSUME NEW d \in Dialogs, Open(d) \/ Fill(d) \/ Submit(d) \/ CancelDialog(d) \/ Dismiss(d)
      PROVE  IInv'
  BY <1>1, OpenKeeps, FillKeeps, SubmitKeeps, CloseKeeps
<1>2. ASSUME NEW q \in sent, Handle(q) \/ LoseAnswer(q) \/ Succeed(q) \/ Fail(q) PROVE IInv'
  BY <1>2, HandleKeeps, LoseAnswerKeeps, SucceedKeeps, FailKeeps
<1>3. ASSUME NEW t \in Tabs, SwitchTab(t) PROVE IInv'
  BY <1>3, RendersKeeps DEF SwitchTab, IInv, Types
<1>4. CASE Refresh
  <2> DEFINE p == [ok |-> TRUE, status |-> journal.status, due |-> journal.due,
                   standing |-> journal.standing]
             t == IF page.ok THEN tab ELSE FirstTab(p)
  <2>1. p \in Page /\ t \in Tabs
    BY DEF IInv, Types, Journal, Page, FirstTab, Tabs
  <2>2. Renders(p, t) /\ UNCHANGED <<journal, written, opens, faults>>
    BY <1>4 DEF Refresh, Loads
  <2> HIDE DEF p, t
  <2> QED
    BY <2>1, <2>2, RendersKeeps
<1>5. CASE RefreshFails
  <2>1. [page EXCEPT !.ok = FALSE] \in Page /\ tab \in Tabs
    BY DEF IInv, Types, Page
  <2> QED
    BY <1>5, <2>1, RendersKeeps DEF RefreshFails
<1>6. CASE Elsewhere
  BY <1>6, ElsewhereKeeps
<1>7. CASE UNCHANGED dvars
  BY <1>7 DEF dvars, IInv, Types, Awaiting, OneOpen, BusyWaits, OneEach, OfOpening, Budget, Modal, RefusalIsShown
<1> QED
  BY <1>1, <1>2, <1>3, <1>4, <1>5, <1>6, <1>7 DEF DialogsNext

LEMMA AlwaysIInv == DialogsSpec => []IInv
  BY InitIInv, StepIInv, PTL DEF DialogsSpec

\* The dialogs' state is as declared, and one of them at most is open, on a page that has its
\* card (decisions.tsx, confirm-dialog.tsx).
THEOREM DialogsTypes == DialogsSpec => []DialogsTypeOK
  BY AlwaysIInv, TypesOfIInv, PTL

\* A click on a dialog's button is one write (confirm-dialog.tsx:52, busy): closing the dialog,
\* opening it again, a late answer or a card that goes away lead to no second write of it,
\* unless the answer to the first was lost and the user tried again.
THEOREM OneWrite == DialogsSpec => []WrittenOnce
<1>1. IInv => WrittenOnce
  BY DEF IInv, Budget, WrittenOnce
<1> QED
  BY <1>1, AlwaysIInv, PTL

\* "any error stays in the dialog so the person can read it" (confirm-dialog.tsx:30): a dialog
\* that was submitted and is open waits, shows the error or marks its fields.
THEOREM RefusalStays == DialogsSpec => []RefusalIsShown
<1>1. IInv => RefusalIsShown
  BY DEF IInv
<1> QED
  BY <1>1, AlwaysIInv, PTL

---------------------------------------------------------------------------
(* Shell.  The types are their own invariant: a cookie is of a start that   *)
(* has been, and a stream that is closed for good leaves the page           *)
(* disconnected, which each of the four steps that touch it has to keep.    *)

LEMMA ShellInitTypes == ShellInit => ShellTypeOK
<1> SUFFICES ASSUME ShellInit PROVE ShellTypeOK
  OBVIOUS
<1>1. data \in [Polls -> States \cup {NoData, "onboarding", "office"}] /\ error \in [Polls -> Refusal \cup {None}]
  BY DEF ShellInit, NoAnswers, NoErrors
<1>2. form \in [busy: BOOLEAN, error: BOOLEAN]
  BY DEF ShellInit, Empty
<1>3. /\ up \in BOOLEAN /\ start \in 1..MaxStarts /\ cookie \in 1..start
      /\ failures \in 0..MaxFailures /\ answers \in 0..MaxAnswers
  BY ShellAssumption DEF ShellInit
<1> QED
  BY <1>1, <1>2, <1>3 DEF ShellInit, ShellTypeOK

\* What a poll may bring, and what is left of the requests.
LEMMA AnswerTypes ==
  ASSUME ShellTypeOK, NEW p \in Polls, Answer(p)
  PROVE  ShellTypeOK'
<1> USE DEF ShellTypeOK
<1>1. UNCHANGED <<up, start, state, cookie, stream, connected, form, post, answers>>
  BY DEF Answer, server
<1>2. CASE Fetches(p)
  <2>1. Told(p) \in States \cup {NoData, "onboarding", "office"}
    BY DEF Told, Polls
  <2>2. data' = [data EXCEPT ![p] = Told(p)] /\ error' = [error EXCEPT ![p] = None]
    BY <1>2 DEF Fetches
  <2>3. asked' \subseteq Polls /\ failures' = failures
    BY <1>2 DEF Fetches, Polls
  <2> QED
    BY <1>1, <2>1, <2>2, <2>3
<1>3. CASE Fails(p)
  <2>1. asked' \subseteq Polls /\ data' = data
    BY <1>3 DEF Fails
  <2>2. \E why \in Refusal : error' = [error EXCEPT ![p] = why]
    BY <1>3 DEF Fails, Refusal
  <2>3. failures' \in 0..MaxFailures
    BY <1>3, ShellAssumption DEF Fails
  <2> QED
    BY <1>1, <2>1, <2>2, <2>3
<1> QED
  BY <1>2, <1>3 DEF Answer

LEMMA ShellStepTypes == ShellTypeOK /\ [ShellNext]_svars => ShellTypeOK'
<1> SUFFICES ASSUME ShellTypeOK, [ShellNext]_svars PROVE ShellTypeOK'
  OBVIOUS
<1> USE StatesAssumption, ShellAssumption
<1>1. ASSUME NEW p \in Polls, Tick(p) PROVE ShellTypeOK'
  BY <1>1 DEF Tick, ShellTypeOK, server
<1>2. ASSUME NEW p \in Polls, Answer(p) PROVE ShellTypeOK'
  BY <1>2, AnswerTypes
<1>3. CASE Beat
  BY <1>3 DEF Beat, ShellTypeOK, server, loaded
<1>4. CASE HeartbeatLost
  BY <1>4 DEF HeartbeatLost, ShellTypeOK, server, loaded
<1>5. CASE HeartbeatRefused
  BY <1>5 DEF HeartbeatRefused, ShellTypeOK, server, loaded
<1>6. CASE Choose
  BY <1>6 DEF Choose, ShellTypeOK, server, loaded
<1>7. CASE ChooseOffice
  BY <1>7 DEF ChooseOffice, ShellTypeOK, loaded, States, Before
<1>8. CASE Chosen
  BY <1>8 DEF Chosen, ShellTypeOK, server
<1>9. CASE Terminal
  BY <1>9 DEF Terminal, ShellTypeOK, loaded, States
<1>10. CASE Stop
  BY <1>10 DEF Stop, ShellTypeOK, loaded
<1>11. CASE ServerStart
  BY <1>11 DEF ServerStart, ShellTypeOK, loaded, States, Before
<1>12. CASE OpenLink
  <2>1. /\ up' = up /\ start' = start /\ state' = state /\ cookie' = start
        /\ failures' = failures /\ answers' = answers
    BY <1>12 DEF OpenLink
  <2>2. CASE UNCHANGED <<loaded, stream, connected, form, post>>
    BY <2>1, <2>2 DEF ShellTypeOK, loaded
  <2>3. CASE /\ asked' = Polls /\ data' = NoAnswers /\ error' = NoErrors
             /\ stream' = "retrying" /\ connected' = TRUE
             /\ form' = Empty /\ post' = None
    <3>1. data' \in [Polls -> States \cup {NoData, "onboarding", "office"}] /\ error' \in [Polls -> Refusal \cup {None}]
      BY <2>3 DEF NoAnswers, NoErrors
    <3>2. form' \in [busy: BOOLEAN, error: BOOLEAN]
      BY <2>3 DEF Empty
    <3> QED
      BY <2>1, <2>3, <3>1, <3>2 DEF ShellTypeOK
  <2> QED
    BY <1>12, <2>2, <2>3 DEF OpenLink
<1>13. CASE UNCHANGED svars
  BY <1>13 DEF svars, ShellTypeOK, server, loaded
<1> QED
  BY <1>1, <1>2, <1>3, <1>4, <1>5, <1>6, <1>7, <1>8, <1>9, <1>10, <1>11, <1>12, <1>13 DEF ShellNext

\* What the frame of the app holds (app-data.tsx, App.tsx, views/onboarding.tsx).
THEOREM ShellTypes == ShellSpec => []ShellTypeOK
BY ShellInitTypes, ShellStepTypes, PTL DEF ShellSpec
=============================================================================
