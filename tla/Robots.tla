------------------------------- MODULE Robots -------------------------------
(***************************************************************************)
(* What an advisor's robot is seen doing (app/src/avatars/states.ts): its  *)
(* state is read from the run's record and the last events of its stream,  *)
(* with a clock of its own that only a timer moves.  The chat publishes    *)
(* the two (components/advisor-avatar.tsx, views/advisor.tsx), and the     *)
(* robot of the page's header follows them.                                *)
(*                                                                         *)
(* Time is counted in the lengths that matter: a delta is fresh for        *)
(* Fresh ticks, an end is shown for Finished.                              *)
(***************************************************************************)
EXTENDS Integers, FiniteSets, Sequences, SequencesExt, FiniteSetsExt

CONSTANTS
    EventTail,        \* how many events the chat keeps for the robots
    Fresh, Finished,  \* TIMING.speaking, TIMING.finished
    MaxTime,          \* bound: the clock
    MaxEvents         \* bound: events of the stream
\* The bounds leave room for a run that was over before.
ASSUME RobotsAssumption ==
    /\ {EventTail, Fresh, Finished, MaxTime, MaxEvents} \subseteq Nat \ {0}
    /\ Fresh < Finished /\ Finished < MaxTime /\ MaxEvents >= 2

Never == -1
NoConversation == [status |-> "none", created |-> Never]

VARIABLES
    clock,         \* the time
    run,           \* the open run's events at the server
    heard,         \* how many of them have reached the page
    conversation,  \* the run's record as the page last loaded it
    loading,       \* it is being loaded
    reachable,     \* the server answers
    shown,         \* what the robot is seen doing
    now,           \* the robot's clock
    timer,         \* when its timer fires, or Never
    armedFor       \* the change it was last armed for

bvars == <<clock, run, heard, conversation, loading, reachable, shown, now, timer, armedFor>>

Working == {"queued", "running", "verifying"}
Ends == {"completed", "failed", "awaiting_input", "cancelled"}

---------------------------------------------------------------------------
(* The mapping (states.ts) *)

\* The tool of a call, by what its command or path says.
toolState(tool) ==
    CASE tool \in {"fo report write", "write under reports"} -> "writing"
      [] tool \in {"fo", "read"} -> "reading"
      [] OTHER -> "thinking"

Latest(events, Is(_)) ==     \* the last position of such an event, 0 if none
    LET places == {i \in DOMAIN events : Is(events[i])}
    IN IF places = {} THEN 0 ELSE CHOOSE i \in places : \A j \in places : j <= i

IsStatus(e) == e.kind = "status"
IsUser(e) == e.kind = "user"
IsWork(e) == e.kind = "tool" \/ (e.kind \in {"delta", "text"} /\ ~e.nested)

StatusNow(rec, events) ==
    IF Latest(events, IsStatus) = 0 THEN rec.status ELSE events[Latest(events, IsStatus)].what
LastWork(events) ==     \* of the present turn
    LET i == Latest(events, IsWork) IN IF i > Latest(events, IsUser) THEN i ELSE 0

FinishedAt(rec, events) ==
    CASE Latest(events, IsStatus) # 0 -> events[Latest(events, IsStatus)].at
      [] Latest(events, IsStatus) = 0 /\ events # <<>> -> Last(events).at
      [] OTHER -> rec.created

stateFromRun(rec, events, up, time) ==
    LET status == StatusNow(rec, events)
        work == LastWork(events)
        speaking == work # 0 /\ events[work].kind = "delta" /\ time - events[work].at <= Fresh
    IN IF ~up THEN "sleeping"
       ELSE IF rec = NoConversation THEN "idle"
       ELSE CASE status \in Working /\ status # "running" -> "thinking"
              [] status \in {"running", "awaiting_input"} /\ speaking -> "speaking"
              [] status = "running" /\ ~speaking ->
                   IF work # 0 /\ events[work].kind = "tool" THEN toolState(events[work].what) ELSE "thinking"
              [] status \in {"completed", "failed"} /\ time - FinishedAt(rec, events) <= Finished ->
                   IF status = "completed" THEN "done" ELSE "error"
              [] OTHER -> "idle"

Window(state) == IF state = "speaking" THEN Fresh ELSE Finished

nextChangeEarly(state, events, time) ==     \* mutant: at the window's end, not after it
    IF state \notin {"speaking", "done", "error"} \/ events = <<>> THEN Never
    ELSE LET due == Last(events).at + Window(state) IN IF time > due THEN time ELSE due

nextChange(state, events, time) ==
    IF state \notin {"speaking", "done", "error"} \/ events = <<>> THEN Never
    ELSE LET due == Last(events).at + Window(state) + 1 IN IF time > due THEN time ELSE due

---------------------------------------------------------------------------
(* The page: what it publishes, what the robot shows of it *)

Heard == SubSeq(run, 1, heard)
KeptEvents(events) == SubSeq(events, Max({1, Len(events) - EventTail + 1}), Len(events))

\* Rendered again, the robot arms its timer only if the next change is another one.
Rerender(left) ==
    \E kept \in {KeptEvents(Heard')} :
        /\ shown' = stateFromRun(conversation', kept, reachable', now')
        /\ armedFor' = nextChange(shown', kept, now')
        /\ timer' = IF armedFor' = armedFor THEN left ELSE armedFor'

\* A finished run of before, opened from the history, or a new conversation.
History == <<[kind |-> "status", what |-> "running", nested |-> FALSE, at |-> 0],
             [kind |-> "status", what |-> "completed", nested |-> FALSE, at |-> 0]>>

RobotsInit ==
    /\ run \in {<<>>, History} /\ clock = (IF run = <<>> THEN 0 ELSE Finished + 1) /\ now = clock
    /\ heard = 0 /\ conversation = NoConversation /\ loading = (run # <<>>) /\ reachable = TRUE
    /\ shown = "idle" /\ timer = Never /\ armedFor = Never

\* The server goes on with the run.  The launch, a message and the end of a turn have the
\* page load the record.
Stamped(e) == [e EXCEPT !.at = clock]
Queued == [kind |-> "status", what |-> "queued", nested |-> FALSE, at |-> 0]
Asked == [kind |-> "user", what |-> "", nested |-> FALSE, at |-> 0]
Present == StatusNow(NoConversation, run)

StartTurn ==
    /\ run = <<>> \/ Present \in Ends
    /\ run' = run \o (IF run = <<>> THEN <<Stamped(Queued)>> ELSE <<Stamped(Asked), Stamped(Queued)>>)
    /\ Len(run') <= MaxEvents /\ loading' = TRUE
    /\ UNCHANGED <<clock, heard, conversation, reachable, shown, now, timer, armedFor>>

Follows(e) ==
    CASE e.kind = "status" /\ e.what = "running" -> Present = "queued"
      [] e.kind = "status" /\ e.what # "running" -> Present \in {"running", "verifying"} \ {e.what}
      [] OTHER -> Present = "running"

Emit(e) ==
    /\ Len(run) < MaxEvents /\ Follows(e)
    /\ run' = Append(run, Stamped(e))
    /\ loading' = (loading \/ (e.kind = "status" /\ e.what \in Ends))
    /\ UNCHANGED <<clock, heard, conversation, reachable, shown, now, timer, armedFor>>

HearEvent ==
    /\ heard < Len(run) /\ heard' = heard + 1
    /\ UNCHANGED <<clock, run, conversation, loading, reachable, now>>
    /\ Rerender(timer)

RecordAnswers ==
    /\ loading /\ loading' = FALSE
    /\ conversation' = [status |-> Present, created |-> run[1].at]
    /\ UNCHANGED <<clock, run, heard, reachable, now>>
    /\ Rerender(timer)

Connection(up) ==
    /\ reachable # up /\ reachable' = up
    /\ UNCHANGED <<clock, run, heard, conversation, loading, now>>
    /\ Rerender(timer)

TimerFires ==
    /\ timer # Never /\ timer <= clock /\ now' = clock
    /\ UNCHANGED <<clock, run, heard, conversation, loading, reachable>>
    /\ Rerender(Never)

\* A due timer fires before time goes on.
TimePasses ==
    /\ clock < MaxTime /\ (timer = Never \/ timer > clock) /\ clock' = clock + 1
    /\ UNCHANGED <<run, heard, conversation, loading, reachable, shown, now, timer, armedFor>>

Events ==
    [kind : {"status"}, what : {"running", "verifying", "completed", "failed", "awaiting_input"},
     nested : {FALSE}, at : {0}]
      \cup [kind : {"delta"}, what : {""}, nested : BOOLEAN, at : {0}]
      \cup [kind : {"text"}, what : {""}, nested : {FALSE}, at : {0}]
      \cup [kind : {"tool"}, what : {"fo report write"}, nested : {FALSE}, at : {0}]

RobotsNext ==
    \/ StartTurn \/ (\E e \in Events : Emit(e))
    \/ HearEvent \/ RecordAnswers
    \/ \E up \in BOOLEAN : Connection(up)
    \/ TimerFires \/ TimePasses

RobotsSpec == RobotsInit /\ [][RobotsNext]_bvars

---------------------------------------------------------------------------
(* What must hold *)

RobotsTypeOK ==
    /\ clock \in 0..MaxTime /\ now \in 0..clock /\ heard \in 0..Len(run) /\ Len(run) <= MaxEvents
    /\ loading \in BOOLEAN /\ reachable \in BOOLEAN
    /\ shown \in {"idle", "thinking", "reading", "writing", "speaking", "done", "error", "sleeping"}
    /\ timer \in {Never} \cup Nat /\ armedFor \in {Never} \cup Nat

\* states.ts:15: a robot that speaks, is done or shows an error on what it has heard is
\* about to look again: its timer is set, for no later than the window's end.
LooksAgain ==
    heard # 0 /\ shown \in {"speaking", "done", "error"} =>
        /\ timer # Never
        /\ timer <= Max({clock, Last(Heard).at + Window(shown) + 1})
=============================================================================
