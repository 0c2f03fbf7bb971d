------------------------------- MODULE Shell --------------------------------
(***************************************************************************)
(* The frame of the web app: the data every page shares (app-data.tsx),    *)
(* what is shown instead of a page (App.tsx, views/onboarding.tsx), and    *)
(* the folder form.  The page polls the server's status and its onboarding *)
(* state, and follows a heartbeat stream.  Outside the page, a terminal    *)
(* moves the set-up on, fo serve is stopped and started, and the cookie of *)
(* the browser is renewed by opening the link that a start prints.         *)
(*                                                                         *)
(* A poll is one request at a time: UseApi is about requests that overlap. *)
(***************************************************************************)
EXTENDS Naturals, FiniteSets

CONSTANTS
    OfficeStates, \* the onboarding states of an office that come about
    MaxStarts,    \* bound: starts of fo serve
    MaxFailures,  \* bound: requests the server fails, and refusals of a folder
    MaxAnswers    \* bound: folders submitted
ASSUME StatesAssumption ==
    OfficeStates \subseteq {"unconnected", "offline", "never_synced", "stale", "ready"}
ASSUME ShellAssumption == MaxStarts \in Nat \ {0} /\ MaxFailures \in Nat /\ MaxAnswers \in Nat

Before == {"no_office", "uninitialized_path"}
SETTING_UP == Before \cup {"unconnected", "offline", "never_synced"}
States == Before \cup OfficeStates
Polls == {"status", "onboarding"}
NoData == "no data"
Refusal == {"unreachable", "signed_out", "failed"}

VARIABLES
    up, start,    \* fo serve runs; which start of it this is
    state,        \* the onboarding state it derives
    cookie,       \* the start the browser's cookie is of
    asked,        \* polls with a request under way
    data,         \* of each poll: what matters here of its last answer
    error,        \* of each poll: its last answer's error
    stream,       \* the heartbeat's EventSource
    connected,
    form,         \* the folder form: [busy, error]
    post,         \* the folder submitted
    failures, answers

server == <<up, start, state, cookie>>
loaded == <<asked, data, error>>
svars == <<server, loaded, stream, connected, form, post, failures, answers>>

Empty == [busy |-> FALSE, error |-> FALSE]
None == "none"

ShellTypeOK ==
    /\ up \in BOOLEAN /\ start \in 1..MaxStarts /\ cookie \in 1..start
    /\ state \in States
    /\ asked \subseteq Polls
    /\ data \in [Polls -> States \cup {NoData, "onboarding", "office"}]
    /\ error \in [Polls -> Refusal \cup {None}]
    /\ stream \in {"open", "retrying", "closed"}
    /\ connected \in BOOLEAN /\ (stream = "closed" => ~connected)
    /\ form \in [busy: BOOLEAN, error: BOOLEAN]
    /\ post \in {None, "sent", "taken", "refused"}
    /\ failures \in 0..MaxFailures /\ answers \in 0..MaxAnswers

NoAnswers == [p \in Polls |-> NoData]
NoErrors == [p \in Polls |-> None]

ShellInit ==
    /\ up = TRUE /\ start = 1 /\ cookie = 1
    /\ state \in States
    /\ asked = Polls /\ data = NoAnswers /\ error = NoErrors
    /\ stream = "retrying" /\ connected = TRUE
    /\ form = Empty /\ post = None
    /\ failures = 0 /\ answers = 0

---------------------------------------------------------------------------
(* What is shown *)

Shown ==
    IF error["status"] = "signed_out" THEN "signed_out"
    ELSE IF error["status"] # None /\ data["status"] = NoData THEN "unreachable"
    ELSE IF data["onboarding"] = NoData THEN "blank"
    ELSE IF data["onboarding"] \in Before THEN data["onboarding"]
    ELSE "office"

Banner == Shown = "office" /\ ~connected

\* Home's next step: the commands of a state, or what the doctor found.
SetupCard ==
    IF Shown = "office" /\ data["onboarding"] \in SETTING_UP \cup {"stale"} THEN data["onboarding"] ELSE None

\* The commands of a state are one choice or a sequence; the last states have nothing to wait for.
OneChoice == Shown \in {"uninitialized_path"} \/ SetupCard = "unconnected"
Waiting == Shown = "uninitialized_path" \/ SetupCard \notin {None, "stale"}

\* What a state should look like.
Pictures(s) ==
    /\ IF s \in Before THEN Shown = s
       ELSE Shown = "office" /\ SetupCard = IF s = "ready" THEN None ELSE s
    /\ OneChoice = (s \in {"uninitialized_path", "unconnected"})
    /\ Waiting = (s \in SETTING_UP \ {"no_office"})

---------------------------------------------------------------------------
(* The polls *)

Admitted == up /\ cookie = start

TickOnce(p) ==   \* mutant: no interval
    /\ p \notin asked /\ data[p] = NoData
    /\ asked' = asked \cup {p}
    /\ UNCHANGED <<server, data, error, stream, connected, form, post, failures, answers>>

Tick(p) ==
    /\ p \notin asked
    /\ asked' = asked \cup {p}
    /\ UNCHANGED <<server, data, error, stream, connected, form, post, failures, answers>>

Told(p) ==
    CASE p = "status" -> IF state \in Before THEN "onboarding" ELSE "office"
      [] p = "onboarding" -> state

\* An answer with data; an office path that has appeared reloads the status.
Fetches(p) ==
    LET appeared == p = "onboarding" /\ data[p] \in Before \cup {NoData} /\ state \notin Before
    IN /\ Admitted
       /\ data' = [data EXCEPT ![p] = Told(p)]
       /\ error' = [error EXCEPT ![p] = None]
       /\ asked' = (asked \ {p}) \cup (IF appeared THEN {"status"} ELSE {})
       /\ failures' = failures

\* A refusal or a failure keeps the data.
Fails(p) ==
    /\ \/ ~up /\ error' = [error EXCEPT ![p] = "unreachable"] /\ failures' = failures
       \/ up /\ cookie # start /\ error' = [error EXCEPT ![p] = "signed_out"] /\ failures' = failures
       \/ /\ Admitted /\ failures < MaxFailures
          /\ error' = [error EXCEPT ![p] = "failed"] /\ failures' = failures + 1
    /\ asked' = asked \ {p}
    /\ UNCHANGED data

Answer(p) ==
    /\ p \in asked
    /\ Fetches(p) \/ Fails(p)
    /\ UNCHANGED <<server, stream, connected, form, post, answers>>

---------------------------------------------------------------------------
(* The heartbeat: an EventSource that loses its connection tries again, one *)
(* that is refused is closed for good                                       *)

Beat ==
    /\ Admitted /\ stream # "closed"
    /\ stream' = "open" /\ connected' = TRUE
    /\ ~(stream = "open" /\ connected)
    /\ UNCHANGED <<server, loaded, form, post, failures, answers>>

HeartbeatLostQuiet ==   \* mutant: onerror is not heard
    /\ ~up /\ (stream = "open" \/ connected)
    /\ stream # "closed"
    /\ stream' = "retrying"
    /\ UNCHANGED <<server, loaded, connected, form, post, failures, answers>>

HeartbeatLost ==
    /\ ~up /\ (stream = "open" \/ connected)
    /\ stream # "closed"
    /\ stream' = "retrying" /\ connected' = FALSE
    /\ UNCHANGED <<server, loaded, form, post, failures, answers>>

HeartbeatRefusedQuiet ==   \* mutant: only a stream that tries again is heard
    /\ up /\ cookie # start /\ stream # "closed"
    /\ stream' = "closed"
    /\ UNCHANGED <<server, loaded, connected, form, post, failures, answers>>

HeartbeatRefused ==
    /\ up /\ cookie # start /\ stream # "closed"
    /\ stream' = "closed" /\ connected' = FALSE
    /\ UNCHANGED <<server, loaded, form, post, failures, answers>>

---------------------------------------------------------------------------
(* The folder form *)

Choose ==
    /\ Shown = "no_office" /\ ~form.busy /\ post = None /\ answers < MaxAnswers
    /\ form' = [busy |-> TRUE, error |-> FALSE]
    /\ post' = "sent"
    /\ answers' = answers + 1
    /\ UNCHANGED <<server, loaded, stream, connected, failures>>

ChooseOffice ==
    /\ post = "sent"
    /\ \/ /\ Admitted /\ state \in Before
          /\ state' = "uninitialized_path" /\ post' = "taken"
          /\ failures' = failures
       \/ /\ ~Admitted \/ state \notin Before
          /\ post' = "refused" /\ UNCHANGED <<state, failures>>
       \/ /\ Admitted /\ failures < MaxFailures
          /\ failures' = failures + 1
          /\ post' = "refused" /\ UNCHANGED state
    /\ UNCHANGED <<up, start, cookie, loaded, stream, connected, form, answers>>

\* refresh() loads everything again; the form may be gone by then.
Chosen ==
    /\ post \in {"taken", "refused"}
    /\ post' = None
    /\ form' = [busy |-> FALSE, error |-> post = "refused"]
    /\ asked' = IF post = "taken" THEN Polls ELSE asked
    /\ UNCHANGED <<server, data, error, stream, connected, failures, answers>>

---------------------------------------------------------------------------
(* Outside the page *)

\* A command in a terminal moves the set-up on, never back to where there is no office.
Terminal ==
    /\ up
    /\ \/ state = "uninitialized_path" /\ state' \in OfficeStates
       \/ state \notin Before /\ state' \in States \ (Before \cup {state})
    /\ UNCHANGED <<up, start, cookie, loaded, stream, connected, form, post, failures, answers>>

Stop ==
    /\ up /\ up' = FALSE
    /\ UNCHANGED <<start, state, cookie, loaded, stream, connected, form, post, failures, answers>>

\* A chosen folder that is no office yet is only in the server's memory.
ServerStart ==
    /\ ~up /\ start < MaxStarts
    /\ up' = TRUE /\ start' = start + 1
    /\ state' \in {state, IF state = "uninitialized_path" THEN "no_office" ELSE state}
    /\ UNCHANGED <<cookie, loaded, stream, connected, form, post, failures, answers>>

\* The printed link, in another tab or in this one.
OpenLink ==
    /\ up /\ cookie # start
    /\ cookie' = start
    /\ \/ UNCHANGED <<loaded, stream, connected, form, post>>
       \/ /\ asked' = Polls /\ data' = NoAnswers /\ error' = NoErrors
          /\ stream' = "retrying" /\ connected' = TRUE
          /\ form' = Empty /\ post' = None
    /\ UNCHANGED <<up, start, state, failures, answers>>

---------------------------------------------------------------------------

ShellNext ==
    \/ \E p \in Polls : Tick(p) \/ Answer(p)
    \/ Beat \/ HeartbeatLost \/ HeartbeatRefused
    \/ Choose \/ ChooseOffice \/ Chosen
    \/ Terminal \/ Stop \/ ServerStart \/ OpenLink

ShellSpec == ShellInit /\ [][ShellNext]_svars

\* The timers fire, requests are answered or fail, and the browser reports a stream it lost.
ShellFairness ==
    /\ \A p \in Polls : WF_svars(Tick(p)) /\ WF_svars(Answer(p))
    /\ WF_svars(HeartbeatLost) /\ WF_svars(Beat)

FairShellSpec == ShellSpec /\ ShellFairness

---------------------------------------------------------------------------
(* Properties *)

\* "This page moves on by itself once the step finishes in your terminal": the state the
\* server derives comes to be the one shown, in every page the browser may be in, unless the
\* server goes away or the state changes again.
MovesOn ==
    \A s \in States :
        (Admitted /\ state = s) ~> (Pictures(s) \/ ~Admitted \/ state # s)

\* A page that looks like the office's and has lost fo serve comes to say so: with the banner,
\* or, when it is a new start that does not know the browser, with the notice.
LossIsSaid ==
    (~Admitted) ~> (Admitted \/ Banner \/ Shown # "office")
=============================================================================
