-------------------------------- MODULE Chat --------------------------------
(***************************************************************************)
(* The conversation of the advisor page (app/src/views/advisor.tsx, with   *)
(* launch-panel.tsx, run-view.tsx, api/runs.ts): it launches a run or      *)
(* follows the latest one, holds the run's record (a useApi hook) and its  *)
(* transcript (an EventSource), and sends replies and cancels.  Each of    *)
(* them is answered in its own time and in any order.                      *)
(*                                                                         *)
(* Of a hook only the live request is kept, as UseApi shows that the       *)
(* others change nothing.  The server is external here: runs with a status *)
(* and numbered events; RunSlot and RunEvents model what is behind them.   *)
(***************************************************************************)
EXTENDS Transcript

CONSTANTS
    Runs,         \* runs of this advisor, by launch
    Outputs,      \* kinds of events an engine produces in between: "delta", "text", "tool", ...
    Ends,         \* statuses a turn ends with
    NoRun,        \* a null run id
    Latest,       \* chosen = undefined
    MaxEvents,    \* bound: events of all runs
    MaxRequests,  \* bound: requests under way
    MaxTurns,     \* bound: turns of a run
    MaxFaults     \* bound: requests or connections that fail, and remounts

ASSUME RunsAssumption == NoRun \notin Runs /\ Latest \notin Runs /\ NoRun # Latest
ASSUME EndsAssumption == Ends \subseteq {"completed", "partial", "failed", "awaiting_input"}
ASSUME OutputsAssumption == Outputs \cap {"user", "status"} = {}     \* those are the server's own

VARIABLES
    status,       \* server: each run's status, "none" before it is launched
    log,          \* server: each run's events
    session,      \* server: runs with a session to resume
    turns,        \* server: turns started
    cancelled,    \* server: runs whose turn was told to stop
    newest,       \* server: the run launched last
    chosen,       \* the run the user chose, NoRun for a new one, or Latest
    history,      \* the hook "runs": [known, latest, load]
    record,       \* the hook "run:id": [run, data, error, load]
    held,         \* what the source has delivered: [run, transcript]
    due,          \* the follow effect is to run: [on, after]
    source,       \* the EventSource: [run, open, after, pos, joined]
    requests,     \* launch, reply and cancel requests under way
    busy,         \* a reply is being sent
    blind,        \* runs followed up by a reply whose answer this page did not get
    faults

server == <<status, log, session, turns, cancelled, newest>>
vars == <<status, log, session, turns, cancelled, newest, chosen, history, record, held, due,
          source, requests, busy, blind, faults>>

NoData == [status |-> "none", session |-> FALSE]
\* A hook's live request: idle, sent, or answered with what it read.
Idle == [phase |-> "idle", data |-> NoData]
Sent == [phase |-> "sent", data |-> NoData]
Closed == [run |-> NoRun, open |-> FALSE, after |-> 0, pos |-> 0, joined |-> 0]
NoRecord(r, load) == [run |-> r, data |-> NoData, error |-> FALSE, load |-> load]

---------------------------------------------------------------------------
(* What the page shows *)

RunId == IF chosen = Latest THEN history.latest ELSE chosen

ShownTranscript == IF held.run = RunId THEN held.transcript ELSE empty
RunData == IF record.run = RunId THEN record.data ELSE NoData
Shown == StatusOf(ShownTranscript, RunData.status)
Active == Shown \in ACTIVE

Launching == history.known /\ RunId = NoRun
Chatting == history.known /\ RunId # NoRun

ShownOutcome ==
    IF Chatting /\ ~Active /\ RunData # NoData /\ ShownTranscript.status # "none"
    THEN Outcome(RunData.status) ELSE "nothing"

\* Rendering with another run: its hook starts a request, its follow effect is due with
\* the last number of its own transcript (the ref).
LastKept(r) == held.transcript.last   \* mutant: the transcript of the run before is kept
LastOf(r) == IF held.run = r THEN held.transcript.last ELSE 0

Rendered(r) ==
    /\ record' = NoRecord(r, IF r = NoRun THEN Idle ELSE Sent)
    /\ due' = [on |-> TRUE, after |-> LastOf(r)]

\* Without a run the hook's loader gives no data at once.
Reload(hook) == [hook EXCEPT !.load = Sent]
RecordReload == IF RunId = NoRun THEN record ELSE Reload(record)

ChatInit ==
    /\ status = [r \in Runs |-> "none"] /\ log = [r \in Runs |-> <<>>]
    /\ session = {} /\ turns = [r \in Runs |-> 0] /\ cancelled = {} /\ newest = NoRun
    /\ chosen = Latest
    /\ history = [known |-> FALSE, latest |-> NoRun, load |-> Sent]
    /\ record = NoRecord(NoRun, Idle)
    /\ held = [run |-> NoRun, transcript |-> empty]
    /\ due = [on |-> FALSE, after |-> 0]
    /\ source = Closed
    /\ requests = {} /\ busy = FALSE /\ blind = {} /\ faults = 0

---------------------------------------------------------------------------
(* The server *)

Event(r, kind) ==
    [seq |-> Len(log[r]) + 1, kind |-> kind, nested |-> FALSE, text |-> <<turns[r]>>,
     id |-> turns[r], ok |-> "ok", denials |-> 0, status |-> "none"]
StatusEvent(r, n, s) == [Event(r, "status") EXCEPT !.seq = n, !.status = s]

EventsLeft == MaxEvents - MapThenSumSet(LAMBDA r : Len(log[r]), Runs)

Logged(r) == {i \in DOMAIN log[r] : log[r][i].kind # "delta"}
LastLogged(r) == IF Logged(r) = {} THEN 0 ELSE Max(Logged(r))

Begun(r) ==
    /\ status' = [status EXCEPT ![r] = "running"]
    /\ turns' = [turns EXCEPT ![r] = @ + 1]
    /\ log' = [log EXCEPT ![r] = @ \o <<[Event(r, "user") EXCEPT !.text = <<>>],
                                        StatusEvent(r, Len(@) + 2, "running")>>]

\* The answer for a page that is gone goes nowhere.
Answered(q, phase, r) ==
    requests' = (requests \ {q}) \cup
                (IF q.mine THEN {[q EXCEPT !.phase = phase, !.run = r]} ELSE {})

\* One run at a time; within the bounds.
Claimable == EventsLeft >= 3 /\ \A r \in Runs : status[r] # "running"

HandleLaunch(q, r) ==
    /\ q.kind = "launch" /\ q.phase = "sent"
    /\ \/ /\ Claimable /\ status[r] = "none"
          /\ Begun(r)
          /\ newest' = r
          /\ Answered(q, "accepted", r)
       \/ /\ ~Claimable
          /\ Answered(q, "failed", NoRun)
          /\ UNCHANGED <<status, turns, log, newest>>
    /\ UNCHANGED <<session, cancelled, chosen, history, record, held, due, source, busy, blind, faults>>

HandleReply(q) ==
    /\ q.kind = "reply" /\ q.phase = "sent"
    /\ \/ /\ Claimable /\ q.run \in session
          /\ turns[q.run] < MaxTurns
          /\ Begun(q.run)
          /\ Answered(q, "accepted", q.run)
          /\ blind' = IF q.mine THEN blind ELSE blind \cup {q.run}
       \/ /\ ~(Claimable /\ q.run \in session /\ turns[q.run] < MaxTurns)
          /\ Answered(q, "failed", q.run)
          /\ UNCHANGED <<status, turns, log, blind>>
    /\ UNCHANGED <<session, cancelled, newest, chosen, history, record, held, due, source, busy, faults>>

HandleCancel(q) ==
    /\ q.kind = "cancel" /\ q.phase = "sent"
    /\ \/ status[q.run] = "running" /\ Answered(q, "accepted", q.run) /\ cancelled' = cancelled \cup {q.run}
       \/ status[q.run] # "running" /\ Answered(q, "failed", q.run) /\ cancelled' = cancelled
    /\ UNCHANGED <<status, log, session, turns, newest, chosen, history, record, held, due, source, busy, blind, faults>>

\* The deltas of a message are followed by its text, unless the turn is cut short.
Emit(r) ==
    /\ status[r] = "running"
    /\ EventsLeft > 1
    /\ \E kind \in IF Last(log[r]).kind = "delta" THEN {"delta", "text"} ELSE Outputs : log' = [log EXCEPT ![r] = Append(@, Event(r, kind))]
    /\ UNCHANGED <<status, session, turns, cancelled, newest, chosen, history, record, held, due,
                   source, requests, busy, blind, faults>>

EndTurn(r) ==
    /\ status[r] = "running"
    /\ \E s \in IF r \in cancelled THEN Ends \cup {"cancelled"} ELSE Ends :
         /\ status' = [status EXCEPT ![r] = s]
         /\ log' = [log EXCEPT ![r] = Append(@, StatusEvent(r, Len(@) + 1, s))]
         /\ \/ session' = session \cup {r}
            \/ session' = session /\ s \in {"cancelled", "failed"}
    /\ cancelled' = cancelled \ {r}
    /\ UNCHANGED <<turns, newest, chosen, history, record, held, due, source, requests, busy, blind, faults>>

---------------------------------------------------------------------------
(* The hooks *)

HistoryLoads ==
    /\ history.load = Sent
    /\ history' = [known |-> TRUE, latest |-> newest, load |-> Idle]
    /\ IF chosen = Latest /\ newest # RunId
       THEN Rendered(newest)
       ELSE UNCHANGED <<record, due>>
    /\ UNCHANGED <<server, chosen, held, source, requests, busy, blind, faults>>

\* The server answers with the record as it is, the answer comes later.
RecordAnswered ==
    /\ record.load = Sent
    /\ record' = [record EXCEPT !.load = [phase |-> "answered",
            data |-> [status |-> status[record.run], session |-> record.run \in session]]]
    /\ UNCHANGED <<server, chosen, history, held, due, source, requests, busy, blind, faults>>

RecordLoads ==
    /\ record.load.phase = "answered"
    /\ record' = [record EXCEPT !.data = record.load.data, !.error = FALSE, !.load = Idle]
    /\ UNCHANGED <<server, chosen, history, held, due, source, requests, busy, blind, faults>>

LoadFails ==
    /\ faults < MaxFaults
    /\ \/ /\ record.load = Sent
          /\ record' = [record EXCEPT !.error = TRUE, !.load = Idle]
          /\ history' = history
       \/ /\ history.load = Sent
          /\ history' = [history EXCEPT !.known = TRUE, !.load = Idle]
          /\ record' = record
    /\ faults' = faults + 1
    /\ UNCHANGED <<server, chosen, held, due, source, requests, busy, blind>>

---------------------------------------------------------------------------
(* Following the run *)

\* The effect's cleanup closes the source; a run in view gets a new one.
Follow ==
    /\ due.on
    /\ due' = [due EXCEPT !.on = FALSE]
    /\ source' = IF RunId = NoRun THEN Closed
                 ELSE [run |-> RunId, open |-> TRUE, after |-> due.after, pos |-> due.after,
                       joined |-> LastLogged(RunId)]
    /\ UNCHANGED <<server, chosen, history, record, held, requests, busy, blind, faults>>

\* The stored events first, then those of the live list, deltas among them.
Deliverable == {i \in DOMAIN log[source.run] :
                  i > source.pos /\ (log[source.run][i].kind # "delta" \/ i > source.joined)}

Heard(r, event) ==
    [run |-> r, transcript |-> apply(IF held.run = r THEN held.transcript ELSE empty, event)]

Deliver ==
    /\ source.open
    /\ Deliverable # {}
    /\ LET i == Min(Deliverable)
       IN /\ held' = Heard(source.run, log[source.run][i])
          /\ source' = [source EXCEPT !.pos = i]
    /\ UNCHANGED <<server, chosen, history, record, due, requests, busy, blind, faults>>

\* The run is over and all is sent: close, and load what the end has changed.
EndQuiet ==   \* mutant: the end reloads nothing
    /\ source.open /\ Deliverable = {} /\ status[source.run] # "running"
    /\ source' = Closed
    /\ UNCHANGED <<server, chosen, history, record, held, due, requests, busy, blind, faults>>

End ==
    /\ source.open /\ Deliverable = {} /\ status[source.run] # "running"
    /\ source' = Closed
    /\ record' = RecordReload
    /\ UNCHANGED <<server, chosen, history, held, due, requests, busy, blind, faults>>

\* The browser connects again with the id of the last event it got.
Reconnect ==
    /\ source.open /\ faults < MaxFaults
    /\ source' = [source EXCEPT !.joined = LastLogged(source.run)]
    /\ faults' = faults + 1
    /\ UNCHANGED <<server, chosen, history, record, held, due, requests, busy, blind>>

---------------------------------------------------------------------------
(* What the user does; an effect that is due runs before the next event *)

Start ==
    /\ Launching /\ ~due.on
    /\ \A q \in requests : q.kind # "launch"
    /\ Cardinality(requests) < MaxRequests
    /\ \E r \in Runs : status[r] = "none"
    /\ requests' = requests \cup {[kind |-> "launch", run |-> NoRun, mine |-> TRUE, phase |-> "sent"]}
    /\ UNCHANGED <<server, chosen, history, record, held, due, source, busy, blind, faults>>

Launched(q) ==
    /\ q.kind = "launch" /\ q.phase = "accepted"
    /\ requests' = requests \ {q}
    /\ chosen' = q.run
    /\ Rendered(q.run)
    /\ history' = Reload(history)
    /\ UNCHANGED <<server, held, source, busy, blind, faults>>

New ==
    /\ Chatting /\ ~due.on
    /\ chosen' = NoRun
    /\ Rendered(NoRun)
    /\ busy' = FALSE
    /\ UNCHANGED <<server, history, held, source, requests, blind, faults>>

\* The message field is for a run with a session; Resume sends without it.
CanType == Chatting /\ ~Active /\ ~busy /\ RunData.session
CanResume == ShownOutcome = "resume"

Reply ==
    /\ CanType \/ CanResume
    /\ Cardinality(requests) < MaxRequests
    /\ ~due.on
    /\ requests' = requests \cup {[kind |-> "reply", run |-> RunId, mine |-> TRUE, phase |-> "sent"]}
    /\ busy' = TRUE
    /\ UNCHANGED <<server, chosen, history, record, held, due, source, blind, faults>>

RepliedSameGeneration(q) ==   \* mutant: the generation stays
    /\ q.kind = "reply" /\ q.phase = "accepted"
    /\ requests' = requests \ {q}
    /\ record' = RecordReload
    /\ busy' = IF RunId = q.run THEN FALSE ELSE busy
    /\ UNCHANGED <<server, chosen, history, held, due, source, blind, faults>>

\* setGeneration re-runs the follow effect of whatever run is in view by then.
Replied(q) ==
    /\ q.kind = "reply" /\ q.phase = "accepted"
    /\ requests' = requests \ {q}
    /\ due' = [on |-> TRUE, after |-> LastOf(RunId)]
    /\ record' = RecordReload
    /\ busy' = IF RunId = q.run THEN FALSE ELSE busy
    /\ UNCHANGED <<server, chosen, history, held, source, blind, faults>>

Cancel ==
    /\ Chatting /\ Active /\ ~due.on
    /\ Cardinality(requests) < MaxRequests
    /\ requests' = requests \cup {[kind |-> "cancel", run |-> RunId, mine |-> TRUE, phase |-> "sent"]}
    /\ UNCHANGED <<server, chosen, history, record, held, due, source, busy, blind, faults>>

Cancelled(q) ==
    /\ q.kind = "cancel" /\ q.phase = "accepted"
    /\ requests' = requests \ {q}
    /\ record' = RecordReload
    /\ UNCHANGED <<server, chosen, history, held, due, source, busy, blind, faults>>

\* Refused: the text stays, and nothing else happens.
Refused(q) ==
    /\ q.phase = "failed"
    /\ requests' = requests \ {q}
    /\ busy' = IF q.kind = "reply" /\ q.run = RunId THEN FALSE ELSE busy
    /\ UNCHANGED <<server, chosen, history, record, held, due, source, blind, faults>>

\* The request or its answer is lost; the page cannot tell which.
Lost(q) ==
    /\ q.phase # "failed" /\ faults < MaxFaults
    /\ Answered(q, "failed", q.run)
    /\ blind' = IF q.kind = "reply" /\ q.phase = "accepted" THEN blind \cup {q.run} ELSE blind
    /\ faults' = faults + 1
    /\ UNCHANGED <<server, chosen, history, record, held, due, source, busy>>

\* The user leaves the page and comes back: all of it starts anew.
Remount ==
    /\ ~due.on /\ faults < MaxFaults
    /\ chosen' = Latest
    /\ history' = [known |-> FALSE, latest |-> NoRun, load |-> Sent]
    /\ record' = NoRecord(NoRun, Idle)
    /\ held' = [run |-> NoRun, transcript |-> empty]
    /\ due' = [on |-> FALSE, after |-> 0]
    /\ source' = Closed
    /\ requests' = {[q EXCEPT !.mine = FALSE] : q \in {p \in requests : p.phase = "sent"}}
    /\ busy' = FALSE /\ blind' = {}
    /\ faults' = faults + 1
    /\ UNCHANGED server

---------------------------------------------------------------------------

ChatNext ==
    \/ \E r \in Runs : Emit(r) \/ EndTurn(r)
    \/ \E q \in requests :
         \/ \E r \in Runs : HandleLaunch(q, r)
         \/ HandleReply(q) \/ HandleCancel(q)
         \/ Launched(q) \/ Replied(q) \/ Cancelled(q) \/ Refused(q) \/ Lost(q)
    \/ HistoryLoads \/ RecordAnswered \/ RecordLoads \/ LoadFails
    \/ Follow \/ Deliver \/ End \/ Reconnect
    \/ Start \/ New \/ Reply \/ Cancel \/ Remount

ChatSpec == ChatInit /\ [][ChatNext]_vars

\* React runs its effects, an open connection delivers, and requests are answered.
ChatFairness ==
    /\ WF_vars(Follow) /\ WF_vars(Deliver) /\ WF_vars(End)
    /\ WF_vars(HistoryLoads) /\ WF_vars(RecordAnswered) /\ WF_vars(RecordLoads)
    /\ WF_vars(\E q \in requests : Replied(q))

FairChatSpec == ChatSpec /\ ChatFairness

---------------------------------------------------------------------------
(* Properties *)

\* A message that is still streaming, or was cut short.
Streaming(item) == item.type = "assistant" /\ item.streaming

\* The items but for those.
Whole(items) ==
    LET kept[n \in 0..Len(items)] ==
          IF n = 0 THEN <<>>
          ELSE IF Streaming(items[n]) THEN kept[n - 1] ELSE Append(kept[n - 1], items[n])
    IN kept[Len(items)]

\* What a page shows that gets, one by one, the first n events of a run as they are stored:
\* without the deltas.
Replayed(events, n) ==
    LET shown[i \in 0..Len(events)] ==
          IF i = 0 THEN empty
          ELSE IF events[i].kind = "delta" THEN shown[i - 1] ELSE apply(shown[i - 1], events[i])
    IN shown[n]

\* "A stored replay followed by the live stream never doubles an item" (transcript.ts:38), and
\* misses none: but for a message that is still streaming, the page shows what a page shows
\* that replays the log, however often it switched runs, followed up or connected again.
TranscriptAsStored ==
    held.run # NoRun =>
        LET replayed == Replayed(log[held.run], held.transcript.last)
        IN /\ Whole(held.transcript.items) = Whole(replayed.items)
           /\ held.transcript.status = replayed.status

\* Nothing of the run in view is under way on the page: no effect, stream, load or answer.
Quiet ==
    /\ Chatting /\ ~due.on /\ ~source.open /\ record.load = Idle /\ ~record.error
    /\ \A q \in requests : ~(q.kind = "reply" /\ q.run = RunId /\ q.phase = "accepted")

\* A page that waits for nothing shows the run as it is: no turn goes on unseen, the
\* transcript is complete, and the outcome and its buttons are those of the run's verdict.
\* (A page that was not told that its reply was taken may stay behind: blind.)
QuietPageIsCurrent ==
    Quiet /\ RunId \notin blind =>
        /\ RunData = [status |-> status[RunId], session |-> RunId \in session]
        /\ Shown = status[RunId]
        /\ ShownTranscript.last = Len(log[RunId])

\* A run that is over is shown as over, with its own verdict.
VerdictShown ==
    \A r \in Runs :
        (RunId = r /\ status[r] \in Ends /\ r \notin blind)
            ~> (\/ RunId # r \/ r \in blind
                \/ status[r] = "running"
                \/ Shown = status[r] /\ (RunData.status = status[r] \/ record.error))
=============================================================================
