------------------------------- MODULE Launch -------------------------------
(***************************************************************************)
(* The form that starts a run (app/src/components/launch-panel.tsx) and    *)
(* the advisor's page that shows it (views/advisor.tsx).  The engine and   *)
(* the model a run gets come from five places that arrive and change on    *)
(* their own: the curated list, the office's defaults, the engines usable  *)
(* at the moment, the choice this tab remembers, and what the user picks.  *)
(*                                                                         *)
(* A model id is <<engine, n>>, an id that engine knows; NoModel is the    *)
(* empty one.  Effort, context level and deep mode are sent as they are    *)
(* set, and left out; so is the timer behind the preview.                  *)
(***************************************************************************)
EXTENDS Naturals, FiniteSets, Sequences, SequencesExt

CONSTANTS
    EngineNames,     \* the engines, in the order the server lists them
    MaxChoices,      \* bound: changes the user makes to the form
    MaxEngineNews    \* bound: changes of what is usable
ASSUME LaunchAssumption ==
    /\ EngineNames \in Seq(STRING) /\ MaxChoices \in Nat /\ MaxEngineNews \in Nat

VARIABLES
    offered,     \* fixed: the office's default engine and models, if any; the advisor's usual subject
    catalog,     \* the load of the curated models: "loading", "loaded", "failed"
    usable,      \* the engines that can run now
    ready,       \* the runner is ready: the page shows the form, or says why not
    panel,       \* the form, mounted or not
    fields,      \* its engine fields, shown or not
    stored,      \* the choice the tab's session storage has for this advisor
    launched,    \* what the last launch sent
    choices, engineNews

lvars == <<offered, catalog, usable, ready, panel, fields, stored, launched, choices, engineNews>>

Installed == Range(EngineNames)
NoEngine == ""
NoModel == <<>>
Curated(e) == {<<e, 1>>, <<e, 2>>}       \* the second is the recommended one
Uncurated(e) == <<e, 3>>                 \* an id the engine knows and the list does not
ModelsOf(e) == Curated(e) \cup {Uncurated(e)}
ListLoaded == catalog = "loaded"            \* catalog.data

NoChoice == [engine |-> NoEngine, model |-> NoModel]
NoFields == [engine |-> NoEngine, other |-> FALSE]

Subjects == {"two words", "acme", "household"}
ValidSubject(s) == s \notin {"", "two words"}        \* SUBJECT.test

---------------------------------------------------------------------------
(* The choice *)

\* The office's default for an engine, the recommended model, or none yet.
defaultsFor(e) ==
    [engine |-> e,
     model |-> CASE offered.models[e] # NoModel -> offered.models[e]
                 [] offered.models[e] = NoModel /\ ListLoaded -> <<e, 2>>
                 [] OTHER -> NoModel]

\* The first of the engines that can run, in the server's order.
FirstUsable == EngineNames[SelectInSeq(EngineNames, LAMBDA e : e \in usable)]

initialChoiceAny ==     \* mutant: what the tab remembers, usable or not
    IF usable = {} THEN NoChoice
    ELSE IF stored # NoChoice THEN stored
    ELSE defaultsFor(FirstUsable)

initialChoice ==
    IF usable = {} THEN NoChoice
    ELSE IF stored # NoChoice /\ stored.engine \in usable THEN stored
    ELSE IF offered.engine \in usable THEN defaultsFor(offered.engine)
    ELSE defaultsFor(FirstUsable)

Choice == IF panel.picked # NoChoice THEN panel.picked ELSE initialChoice

Listed(c) == c.model \in Curated(c.engine)
OutOfList(c) == ~Listed(c) /\ c.model # NoModel

\* What the fields show: the id in the text box, or the option the menu stands on,
\* which is its first when the choice names none.
Custom == fields.other \/ OutOfList(Choice)
ShownModel ==
    IF Custom THEN Choice.model
    ELSE IF Listed(Choice) THEN Choice.model ELSE <<Choice.engine, 1>>

Blocked == Installed \ usable           \* each said to be unavailable, and why
StartValid ==
    /\ ValidSubject(panel.subject)
    /\ Choice = NoChoice \/ Choice.model # NoModel

\* The preview is loaded for the subject as it was when last left alone for 400 ms.
Preview(settled, answer) ==
    CASE ~(ValidSubject(panel.subject) /\ ValidSubject(settled)) -> "nothing"
      [] ValidSubject(panel.subject) /\ ValidSubject(settled) /\ answer = "loading" -> "checking"
      [] ValidSubject(panel.subject) /\ ValidSubject(settled) /\ answer = "failed" -> "the error"
      [] OTHER -> "the brief or why there is none, the prior report, what it writes"

ClosedPanel == [mounted |-> FALSE, picked |-> NoChoice, subject |-> "",
                busy |-> FALSE, error |-> FALSE]
OpenPanel == [ClosedPanel EXCEPT !.mounted = TRUE, !.subject = offered.subject]

---------------------------------------------------------------------------
(* The advisor's page *)

ChatShown(name, chat) == chat /\ ready /\ name \notin {"onboard", "journal"}

ChatUnavailable(name, chat, runnerLoading) ==
    CASE name = "onboard" -> "a command for the terminal"
      [] name = "journal" -> "the form that records a decision"
      [] name \notin {"onboard", "journal"} /\ ~chat -> "chat is off"
      [] name \notin {"onboard", "journal"} /\ chat /\ runnerLoading -> "loading"
      [] OTHER -> "the runner's message"

AdvisorPage(known, name, chat, runnerLoading, mobile, inspectorShown) ==
    CASE known = "loading" -> [body |-> "loading"]
      [] known = "unknown" -> [body |-> "no such advisor"]
      [] OTHER ->
           [body |-> IF ChatShown(name, chat) THEN "chat"
                     ELSE ChatUnavailable(name, chat, runnerLoading),
            aside |-> IF mobile THEN "about"
                      ELSE IF inspectorShown THEN "inspector" ELSE "nothing"]

---------------------------------------------------------------------------
(* What happens.  A step renders the form again: the fields wait for the    *)
(* list, and their own state is made anew when the engine is another.       *)

Render(f) ==
    fields' = IF ~panel'.mounted \/ Choice' = NoChoice \/ ~ListLoaded' THEN NoFields
              ELSE IF f.engine = Choice'.engine THEN f
              ELSE [engine |-> Choice'.engine, other |-> OutOfList(Choice')]

LaunchInit ==
    /\ offered \in [engine : Installed \cup {NoEngine}, subject : {"", "household"},
                    models : {f \in [Installed -> {NoModel} \cup UNION {ModelsOf(e) : e \in Installed}] :
                                \A e \in Installed : f[e] \in {NoModel, <<e, 1>>, Uncurated(e)}}]
    /\ catalog = "loading" /\ usable \in SUBSET Installed /\ ready = TRUE
    /\ panel = OpenPanel /\ fields = NoFields
    /\ stored = NoChoice /\ launched = {}
    /\ choices = 0 /\ engineNews = 0

CatalogAnswers(answer) ==
    /\ catalog = "loading" /\ catalog' = answer
    /\ UNCHANGED <<offered, usable, ready, panel, stored, launched, choices, engineNews>>
    /\ Render(fields)

\* The runner's status is loaded again: other engines are usable, the form goes or comes.
RunnerNews(now, able) ==
    /\ engineNews < MaxEngineNews /\ engineNews' = engineNews + 1
    /\ usable' = able /\ ready' = now
    /\ panel' = IF now = panel.mounted THEN panel ELSE IF now THEN OpenPanel ELSE ClosedPanel
    /\ UNCHANGED <<offered, catalog, stored, launched, choices>>
    /\ Render(fields)

Edits == panel.mounted /\ choices < MaxChoices /\ choices' = choices + 1

TypeSubject(s) ==
    /\ Edits /\ panel' = [panel EXCEPT !.subject = s]
    /\ UNCHANGED <<offered, catalog, usable, ready, fields, stored, launched, engineNews>>

\* The user changes a field: the choice is kept and remembered.
Choose(c, other) ==
    /\ Edits /\ fields # NoFields
    /\ panel' = [panel EXCEPT !.picked = c] /\ stored' = c
    /\ UNCHANGED <<offered, catalog, usable, ready, launched, engineNews>>
    /\ Render([fields EXCEPT !.other = other])

PickEngine(e) == e \notin Blocked /\ Choose(defaultsFor(e), FALSE)
PickModel(m) == m \in Curated(Choice.engine) /\ Choose([Choice EXCEPT !.model = m], FALSE)
PickOther == Choose([Choice EXCEPT !.model = NoModel], TRUE)
TypeModel(m) ==
    Custom /\ m \in ModelsOf(Choice.engine) /\ Choose([Choice EXCEPT !.model = m], fields.other)

\* Start sends what the form holds at the click.
Start ==
    /\ panel.mounted /\ StartValid /\ ~panel.busy
    /\ launched' =
         {[choice |-> Choice, able |-> usable, picked |-> panel.picked # NoChoice,
           shown |-> IF fields = NoFields THEN NoChoice ELSE [engine |-> fields.engine, model |-> ShownModel]]}
    /\ panel' = [panel EXCEPT !.busy = TRUE, !.error = FALSE]
    /\ UNCHANGED <<offered, catalog, usable, ready, fields, stored, choices, engineNews>>

StartRefused ==
    /\ panel.mounted /\ panel.busy
    /\ panel' = [panel EXCEPT !.busy = FALSE, !.error = TRUE]
    /\ UNCHANGED <<offered, catalog, usable, ready, fields, stored, launched, choices, engineNews>>

\* The run is taken, or the user leaves the page: the form goes.
Leave ==
    /\ panel.mounted /\ panel' = ClosedPanel
    /\ UNCHANGED <<offered, catalog, usable, ready, stored, launched, choices, engineNews>>
    /\ Render(fields)
\* A later visit: the list is loaded again, the choice is the one remembered.
Visit ==
    /\ ~panel.mounted /\ ready /\ choices < MaxChoices /\ choices' = choices + 1
    /\ panel' = OpenPanel /\ catalog' = "loading"
    /\ UNCHANGED <<offered, usable, ready, stored, launched, engineNews>>
    /\ Render(fields)

LaunchNext ==
    \/ \E answer \in {"loaded", "failed"} : CatalogAnswers(answer)
    \/ \E now \in BOOLEAN, able \in SUBSET Installed : RunnerNews(now, able)
    \/ \E s \in Subjects : TypeSubject(s)
    \/ \E e \in Installed : PickEngine(e) \/ (\E m \in ModelsOf(e) \cup {NoModel} : PickModel(m) \/ TypeModel(m))
    \/ PickOther
    \/ Start \/ StartRefused \/ Leave \/ Visit

LaunchSpec == LaunchInit /\ [][LaunchNext]_lvars

---------------------------------------------------------------------------
(* What must hold *)

Models == {NoModel} \cup UNION {ModelsOf(e) : e \in Installed}
LaunchTypeOK ==
    /\ catalog \in {"loading", "loaded", "failed"} /\ usable \subseteq Installed /\ ready \in BOOLEAN
    /\ panel.picked.engine \in Installed \cup {NoEngine} /\ panel.picked.model \in Models
    /\ fields.engine \in Installed \cup {NoEngine} /\ fields.other \in BOOLEAN
    /\ ~panel.mounted => panel = ClosedPanel /\ fields = NoFields
    /\ panel.mounted =>
         \A mobile, aside \in BOOLEAN :
            AdvisorPage("known", "planner", TRUE, FALSE, mobile, aside).body = "chat"
    /\ \A settled \in Subjects, answer \in {"loading", "failed", "loaded"} :
         Preview(settled, answer) # "nothing" => ValidSubject(panel.subject)
    /\ stored.engine \in Installed \cup {NoEngine} /\ stored.model \in Models

\* A run is started with a model of its own engine, on an engine that could run unless the
\* user picked it, and with what the fields showed when there were fields.
StartsWhatItShows ==
    \A run \in launched :
        run.choice # NoChoice =>
            /\ run.choice.model \in ModelsOf(run.choice.engine)
            /\ run.picked \/ run.choice.engine \in run.able
            /\ run.shown # NoChoice => run.shown = run.choice
=============================================================================
