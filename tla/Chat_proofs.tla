---------------------------- MODULE Chat_proofs -----------------------------
(***************************************************************************)
(* Theorems about the conversation of the advisor page, for any number of  *)
(* runs, turns, requests and events and any kinds of events, and for every *)
(* order in which the server answers.                                      *)
(***************************************************************************)
EXTENDS Chat, SequenceTheorems, WellFoundedInduction, TLAPS

---------------------------------------------------------------------------
(* The inductive invariant *)

Statuses == {"none", "running", "cancelled"} \cup Ends
Events == [seq : Nat, kind : Outputs \cup {"user", "status", "delta", "text"}, nested : {FALSE}, text : Seq(Nat),
           id : Nat, ok : {"ok"}, denials : Nat, status : Statuses]
RunOrNone == Runs \cup {NoRun}

\* A run's events are numbered from one, and a run that is over has said so last.
LogOK(events, s) ==
  /\ events \in Seq(Events)
  /\ \A n \in 1..Len(events) : events[n].seq = n
  /\ s \notin {"none", "running"} => /\ events # <<>>
                                     /\ events[Len(events)].kind = "status"
                                     /\ events[Len(events)].status = s
ServerOK ==
  /\ status \in [Runs -> Statuses]
  /\ turns \in [Runs -> Nat]
  /\ newest \in RunOrNone
  /\ log \in [Runs -> Seq(Events)]
  /\ \A r \in Runs : LogOK(log[r], status[r])

\* The status that the first n events say.
SaysStatus(events, n, s) ==
  \/ s = "none" /\ \A j \in 1..n : events[j].kind # "status"
  \/ \E i \in 1..n : /\ events[i].kind = "status" /\ events[i].status = s
                     /\ \A j \in (i + 1)..n : events[j].kind # "status"

RequestOK(q) ==
  /\ q \in [kind : {"launch", "reply", "cancel"}, run : RunOrNone, mine : BOOLEAN,
             phase : {"sent", "accepted", "failed"}]
  /\ q.kind # "launch" => q.run \in Runs
  /\ q.phase # "sent" => q.mine

Data == [status : Statuses, session : BOOLEAN]
Load == [phase : {"idle", "sent", "answered"}, data : Data]
PageOK ==
  /\ chosen \in RunOrNone \cup {Latest}
  /\ history \in [known : BOOLEAN, latest : RunOrNone, load : Load]
  /\ record \in [run : RunOrNone, data : Data, error : BOOLEAN, load : Load]
  /\ record.run = RunId /\ (record.run = NoRun => record.load = Idle)
  /\ source \in [run : RunOrNone, open : BOOLEAN, after : Nat, pos : Nat, joined : Nat]
  /\ source.open => source.run \in Runs
  /\ due \in [on : BOOLEAN, after : Nat]
  /\ \A q \in requests : RequestOK(q)

\* Until the runs are known nothing is in view and nothing is asked; the latest run stays the
\* one that is shown first.
Unknown ==
  /\ ~history.known => /\ chosen = Latest /\ history.latest = NoRun
                       /\ held.run = NoRun /\ ~source.open /\ ~due.on
                       /\ \A q \in requests : ~q.mine
  /\ history.known /\ chosen = Latest => history.load = Idle

\* Every run that the page knows of was launched.
Known == {RunId, newest, held.run} \cup {q.run : q \in requests} \cup (IF source.open THEN {source.run} ELSE {})
Launches == {q \in requests : q.mine /\ q.kind = "launch"}
LaunchedOnes ==
  /\ \A r \in Known : r \in Runs => status[r] # "none"
  /\ \A q \in Launches : \A p \in Launches : p = q
  /\ \A q \in Launches : q.phase = "accepted" =>
        q.run \in Runs \ {RunId, held.run} /\ (source.open => q.run # source.run)

\* The transcript is of the run held and says the status of the events it has.
HeldOK ==
  /\ held.run \in RunOrNone
  /\ held.transcript.last \in Nat
  /\ held.run = NoRun => held.transcript = empty
  /\ held.run \in Runs => /\ held.transcript.last <= Len(log[held.run])
                          /\ SaysStatus(log[held.run], held.transcript.last, held.transcript.status)

\* The source follows the run in view, or the effect is due that will make it; what it has
\* passed, and what it is to pass over, is held.
Following ==
  /\ source.open /\ ~due.on => source.run = RunId
  /\ source.open /\ source.run # RunId => held.run \notin Runs \cap {RunId}
  /\ due.on /\ due.after > 0 => /\ RunId \in Runs /\ held.run = RunId
                                /\ held.transcript.last >= due.after
  /\ source.open /\ source.pos > 0 => held.run = source.run /\ held.transcript.last >= source.pos

\* Nothing follows the run in view, and nothing is going to.
Unfollowed ==
  /\ RunId \in Runs \ blind /\ ~due.on /\ ~source.open
  /\ \A q \in requests : ~(q.kind = "reply" /\ q.run = RunId /\ q.phase = "accepted")

Now(r) == [status |-> status[r], session |-> r \in session]
RunSettled ==
  Unfollowed =>
    /\ status[RunId] \notin {"none", "running"}
    /\ held.run = RunId /\ held.transcript.last = Len(log[RunId])
    /\ record.load.phase = "idle" /\ ~record.error => record.data = Now(RunId)
    /\ record.load.phase = "answered" => record.load.data = Now(RunId)

Inv == ServerOK /\ PageOK /\ Unknown /\ LaunchedOnes /\ HeldOK /\ Following /\ RunSettled

---------------------------------------------------------------------------
(* Logs and what they say *)

\* A set of naturals has a least element.
LEMMA LeastNatural ==
  ASSUME NEW S \in SUBSET Nat, S # {}
  PROVE  \E m \in S : \A n \in S : m <= n
<1>1. PICK m \in S : \A n \in S : ~(<<n, m>> \in OpToRel(<, Nat))
  BY NatLessThanWellFounded, WFMin
<1>2. \A n \in S : ~(n < m)
  BY <1>1 DEF OpToRel
<1> QED
  BY <1>2

\* What is added to a log leaves what it said before.
Extends(old, new) == Len(old) <= Len(new) /\ \A n \in 1..Len(old) : new[n] = old[n]

LEMMA SaysStays ==
  ASSUME NEW old \in Seq(Events), NEW new \in Seq(Events), Extends(old, new),
         NEW n \in 0..Len(old), NEW s, SaysStatus(old, n, s)
  PROVE  SaysStatus(new, n, s)
<1>1. \A j \in 1..n : new[j] = old[j]
  BY DEF Extends
<1> QED
  BY <1>1 DEF SaysStatus

\* The next event that is not passed over: nothing in between is a status.
LEMMA SaysNext ==
  ASSUME NEW events \in Seq(Events), NEW n \in Nat, NEW i \in 1..Len(events), n < i,
         NEW s, SaysStatus(events, n, s), \A j \in (n + 1)..(i - 1) : events[j].kind # "status"
  PROVE  SaysStatus(events, i, IF events[i].kind = "status" THEN events[i].status ELSE s)
<1>1. CASE events[i].kind = "status"
  BY <1>1 DEF SaysStatus
<1>2. CASE events[i].kind # "status"
  <2>1. CASE s = "none" /\ \A j \in 1..n : events[j].kind # "status"
    <3>1. \A j \in 1..i : events[j].kind # "status"
      BY <1>2, <2>1
    <3> QED
      BY <1>2, <2>1, <3>1 DEF SaysStatus
  <2>2. CASE ~(s = "none" /\ \A j \in 1..n : events[j].kind # "status")
    <3>1. PICK k \in 1..n : /\ events[k].kind = "status" /\ events[k].status = s
                            /\ \A j \in (k + 1)..n : events[j].kind # "status"
      BY <2>2 DEF SaysStatus
    <3>2. \A j \in (k + 1)..i : events[j].kind # "status"
      BY <1>2, <3>1
    <3>3. k \in 1..i
      OBVIOUS
    <3> QED
      BY <1>2, <3>1, <3>2, <3>3 DEF SaysStatus
  <2> QED
    BY <2>1, <2>2
<1> QED
  BY <1>1, <1>2

\* The log of a run that is over says its status.
LEMMA SaysLast ==
  ASSUME NEW events, NEW s \in Statuses, s \notin {"none", "running"}, LogOK(events, s),
         NEW t, SaysStatus(events, Len(events), t)
  PROVE  t = s
<1>1. Len(events) \in Nat \ {0} /\ events[Len(events)].kind = "status" /\ events[Len(events)].status = s
  BY DEF LogOK
<1>2. ~ \A j \in 1..Len(events) : events[j].kind # "status"
  BY <1>1
<1>3. PICK i \in 1..Len(events) : /\ events[i].kind = "status" /\ events[i].status = t
                                  /\ \A j \in (i + 1)..Len(events) : events[j].kind # "status"
  BY <1>2 DEF SaysStatus
<1>4. i = Len(events)
  BY <1>1, <1>3
<1> QED
  BY <1>1, <1>3, <1>4

---------------------------------------------------------------------------
(* The server *)

\* What a step may do to the runs that were launched.
Grows ==
  \A r \in Runs : /\ Extends(log[r], log'[r])
                  /\ status[r] # "none" => status'[r] # "none"

\* A step that is about one run, and leaves the others.
OnlyOf(r) == \A o \in Runs \ {r} : log'[o] = log[o] /\ status'[o] = status[o]

LEMMA EventType ==
  ASSUME ServerOK, NEW r \in Runs, NEW kind \in Outputs \cup {"user", "status", "delta", "text"}
  PROVE  Event(r, kind) \in Events /\ Event(r, kind).seq = Len(log[r]) + 1 /\ Event(r, kind).kind = kind
<1>1. turns[r] \in Nat /\ log[r] \in Seq(Events)
  BY DEF ServerOK
<1>2. <<turns[r]>> \in Seq(Nat)
  BY <1>1
<1> QED
  BY <1>1, <1>2 DEF Event, Events, Statuses

LEMMA Silent ==
  ASSUME NEW event \in Events
  PROVE  [event EXCEPT !.text = <<>>] \in Events /\ [event EXCEPT !.text = <<>>].seq = event.seq
<1>1. <<>> \in Seq(Nat)
  OBVIOUS
<1> QED
  BY <1>1 DEF Events

LEMMA StatusEventType ==
  ASSUME ServerOK, NEW r \in Runs, NEW n \in Nat, NEW s \in Statuses
  PROVE  /\ StatusEvent(r, n, s) \in Events
         /\ StatusEvent(r, n, s).seq = n /\ StatusEvent(r, n, s).kind = "status" /\ StatusEvent(r, n, s).status = s
<1> DEFINE event == Event(r, "status")
<1>1. event \in Events /\ event.kind = "status"
  BY EventType
<1> HIDE DEF event
<1>2. /\ [event EXCEPT !.seq = n, !.status = s] \in Events
      /\ [event EXCEPT !.seq = n, !.status = s].seq = n
      /\ [event EXCEPT !.seq = n, !.status = s].kind = "status"
      /\ [event EXCEPT !.seq = n, !.status = s].status = s
  BY <1>1 DEF Events
<1> QED
  BY <1>2 DEF StatusEvent, event

LEMMA BegunGrows ==
  ASSUME ServerOK, NEW r \in Runs, Begun(r), newest' \in RunOrNone
  PROVE  ServerOK' /\ Grows /\ OnlyOf(r) /\ status'[r] = "running"
<1> DEFINE told == [Event(r, "user") EXCEPT !.text = <<>>]
           said == StatusEvent(r, Len(log[r]) + 2, "running")
           events == log[r] \o <<told, said>>
<1>1. log[r] \in Seq(Events) /\ Len(log[r]) \in Nat
  BY DEF ServerOK
<1>2. told \in Events /\ told.seq = Len(log[r]) + 1
  <2> DEFINE event == Event(r, "user")
  <2>1. event \in Events /\ event.seq = Len(log[r]) + 1
    BY EventType
  <2> HIDE DEF event
  <2>2. [event EXCEPT !.text = <<>>] \in Events /\ [event EXCEPT !.text = <<>>].seq = Len(log[r]) + 1
    BY <2>1, Silent
  <2> QED
    BY <2>2 DEF event
<1>3. said \in Events /\ said.seq = Len(log[r]) + 2
  BY <1>1, StatusEventType DEF Statuses
<1> HIDE DEF told, said
<1>4. events \in Seq(Events) /\ Len(events) = Len(log[r]) + 2
  BY <1>1, <1>2, <1>3
<1>5. /\ \A n \in 1..Len(log[r]) : events[n] = log[r][n]
      /\ events[Len(log[r]) + 1] = told /\ events[Len(log[r]) + 2] = said
  BY <1>1, <1>2, <1>3
<1>6. log' = [log EXCEPT ![r] = events]
  BY DEF Begun, told, said
<1>7. status' = [status EXCEPT ![r] = "running"] /\ turns' = [turns EXCEPT ![r] = @ + 1]
  BY DEF Begun
<1> HIDE DEF events
<1>8. log' \in [Runs -> Seq(Events)] /\ status' \in [Runs -> Statuses] /\ turns' \in [Runs -> Nat]
  BY <1>4, <1>6, <1>7 DEF ServerOK, Statuses
<1>9. log'[r] = events /\ status'[r] = "running" /\ OnlyOf(r)
  BY <1>6, <1>7 DEF ServerOK, OnlyOf
<1>10. LogOK(log'[r], status'[r])
  <2>1. \A n \in 1..Len(events) : events[n].seq = n
    BY <1>1, <1>2, <1>3, <1>4, <1>5 DEF ServerOK, LogOK
  <2> QED
    BY <1>4, <1>9, <2>1 DEF LogOK
<1>11. \A o \in Runs : LogOK(log'[o], status'[o])
  BY <1>9, <1>10 DEF OnlyOf, ServerOK
<1>12. Grows
  BY <1>1, <1>4, <1>5, <1>9 DEF Grows, Extends, OnlyOf, ServerOK
<1> QED
  BY <1>8, <1>9, <1>11, <1>12 DEF ServerOK

\* One more event of a run, and what its status is then.
LEMMA AppendGrows ==
  ASSUME ServerOK, NEW r \in Runs, status[r] = "running", NEW event \in Events, event.seq = Len(log[r]) + 1,
         NEW s \in Statuses, s \notin {"none", "running"} => event.kind = "status" /\ event.status = s, s # "none",
         log' = [log EXCEPT ![r] = Append(@, event)], status' = [status EXCEPT ![r] = s],
         UNCHANGED <<turns, newest>>
  PROVE  ServerOK' /\ Grows /\ OnlyOf(r)
<1> DEFINE events == Append(log[r], event)
<1>1. log[r] \in Seq(Events) /\ Len(log[r]) \in Nat
  BY DEF ServerOK
<1>2. events \in Seq(Events) /\ Len(events) = Len(log[r]) + 1
  BY <1>1
<1>3. (\A n \in 1..Len(log[r]) : events[n] = log[r][n]) /\ events[Len(log[r]) + 1] = event
  BY <1>1
<1> HIDE DEF events
<1>4. log'[r] = events /\ status'[r] = s /\ OnlyOf(r)
  BY DEF events, ServerOK, OnlyOf
<1>5. log' \in [Runs -> Seq(Events)] /\ status' \in [Runs -> Statuses]
  BY <1>2 DEF events, ServerOK
<1>6. LogOK(events, s)
  <2>1. \A n \in 1..Len(events) : events[n].seq = n
    BY <1>1, <1>2, <1>3 DEF ServerOK, LogOK
  <2> QED
    BY <1>1, <1>2, <1>3, <2>1 DEF LogOK
<1>7. \A o \in Runs : LogOK(log'[o], status'[o])
  BY <1>4, <1>6 DEF OnlyOf, ServerOK
<1>8. Grows
  BY <1>1, <1>2, <1>3, <1>4 DEF Grows, Extends, OnlyOf, ServerOK
<1> QED
  BY <1>4, <1>5, <1>7, <1>8 DEF ServerOK

LEMMA EmitGrows ==
  ASSUME ServerOK, NEW r \in Runs, Emit(r)
  PROVE  ServerOK' /\ Grows /\ OnlyOf(r)
<1>1. PICK kind \in Outputs \cup {"delta", "text"} : log' = [log EXCEPT ![r] = Append(@, Event(r, kind))]
  BY DEF Emit
<1>2. status[r] = "running" /\ status' = [status EXCEPT ![r] = "running"] /\ UNCHANGED <<turns, newest>>
  BY DEF Emit, ServerOK
<1> QED
  BY <1>1, <1>2, EventType, AppendGrows DEF Statuses

LEMMA EndTurnGrows ==
  ASSUME ServerOK, NEW r \in Runs, EndTurn(r)
  PROVE  ServerOK' /\ Grows /\ OnlyOf(r)
<1>1. PICK s \in Ends \cup {"cancelled"} :
        /\ status' = [status EXCEPT ![r] = s]
        /\ log' = [log EXCEPT ![r] = Append(@, StatusEvent(r, Len(@) + 1, s))]
  BY DEF EndTurn
<1>2. s \in Statuses /\ s \notin {"none", "running"}
  BY EndsAssumption DEF Statuses
<1> DEFINE event == StatusEvent(r, Len(log[r]) + 1, s)
<1>3. event \in Events /\ event.seq = Len(log[r]) + 1 /\ event.kind = "status" /\ event.status = s
  BY <1>2, StatusEventType DEF ServerOK
<1> HIDE DEF event
<1>4. log' = [log EXCEPT ![r] = Append(@, event)]
  BY <1>1 DEF event
<1> QED
  BY <1>1, <1>2, <1>3, <1>4, AppendGrows DEF EndTurn

---------------------------------------------------------------------------
(* What steps have in common *)

\* The same transcript, source and effect, for the same run, after whatever the server did.
LEMMA StillFollows ==
  ASSUME Inv, ServerOK', Grows, UNCHANGED <<held, due, source>>, RunId' = RunId
  PROVE  HeldOK' /\ Following'
<1>1. Following'
  BY DEF Inv, Following
<1>2. HeldOK'
  <2>1. CASE held.run \in Runs
    <3>1. Extends(log[held.run], log'[held.run])
      BY <2>1 DEF Grows
    <3>2. log[held.run] \in Seq(Events) /\ log'[held.run] \in Seq(Events)
      BY <2>1 DEF Inv, ServerOK
    <3>3. SaysStatus(log'[held.run], held.transcript.last, held.transcript.status)
      BY <2>1, <3>1, <3>2, SaysStays DEF Inv, HeldOK
    <3>4. held.transcript.last <= Len(log'[held.run])
      BY <2>1, <3>1, <3>2 DEF Inv, HeldOK, Extends
    <3> QED
      BY <2>1, <3>3, <3>4 DEF Inv, HeldOK
  <2>2. CASE held.run \notin Runs
    BY <2>2 DEF Inv, HeldOK
  <2> QED
    BY <2>1, <2>2
<1> QED
  BY <1>1, <1>2

LEMMA ServerStays == ASSUME ServerOK, UNCHANGED server PROVE ServerOK' /\ Grows
<1>1. ServerOK'
  BY DEF ServerOK, server
<1>2. \A r \in Runs : Len(log[r]) \in Nat
  BY DEF ServerOK
<1> QED
  BY <1>1, <1>2 DEF Grows, Extends, server

\* The run in view is as it was.
ViewKept ==
  /\ log'[RunId] = log[RunId] /\ status'[RunId] = status[RunId]
  /\ RunId \in session' <=> RunId \in session

LEMMA NowStays == ASSUME RunId' = RunId, ViewKept PROVE Now(RunId)' = Now(RunId)
<1>1. (RunId \in session') = (RunId \in session)
  BY DEF ViewKept
<1> QED
  BY <1>1, Zenon DEF Now, ViewKept

\* Nothing of the page moves but its requests.
PageStays == UNCHANGED <<chosen, history, record, held, due, source>>

LEMMA PageStaysSettled ==
  ASSUME Inv, PageStays, Unfollowed' => Unfollowed /\ ViewKept
  PROVE  RunSettled'
<1>1. RunId' = RunId
  BY DEF PageStays, RunId
<1>2. Unfollowed' => Now(RunId)' = Now(RunId)
  BY <1>1, NowStays
<1> HIDE DEF Unfollowed, Now, RunId
<1> QED
  BY <1>1, <1>2 DEF RunSettled, Inv, PageStays, ViewKept

\* A step that moves only the server and the requests.
LEMMA PageStaysStep ==
  ASSUME Inv, PageStays, ServerOK', Grows, \A q \in requests' : RequestOK(q),
         ~history.known => \A q \in requests' : ~q.mine,
         LaunchedOnes', Unfollowed' => Unfollowed /\ ViewKept
  PROVE  Inv'
<1>1. RunId' = RunId
  BY DEF PageStays, RunId
<1>2. PageOK'
  BY <1>1 DEF Inv, PageOK, PageStays, RequestOK
<1>3. Unknown'
  BY DEF Inv, Unknown, PageStays
<1>4. HeldOK' /\ Following'
  BY <1>1, StillFollows DEF PageStays
<1>5. RunSettled'
  BY PageStaysSettled
<1> QED
  BY <1>2, <1>3, <1>4, <1>5 DEF Inv

---------------------------------------------------------------------------
(* The engine, and the answers to requests *)

LEMMA TurnStep ==
  ASSUME Inv, NEW r \in Runs, Emit(r) \/ EndTurn(r)
  PROVE  Inv'
<1>1. ServerOK' /\ Grows /\ OnlyOf(r)
  BY EmitGrows, EndTurnGrows DEF Inv
<1>2. PageStays /\ UNCHANGED <<requests, blind, newest>> /\ status[r] = "running"
  BY DEF Emit, EndTurn, PageStays
<1>3. \A o \in Runs \ {r} : o \in session' <=> o \in session
  BY DEF Emit, EndTurn
<1>4. LaunchedOnes'
  <2>1. Known' = Known /\ Launches' = Launches /\ RunId' = RunId
    BY <1>2 DEF PageStays, Known, Launches, RunId
  <2>2. \A o \in Known' : o \in Runs => status'[o] # "none"
    BY <1>1, <2>1 DEF Inv, LaunchedOnes, Grows
  <2> QED
    BY <1>2, <2>1, <2>2 DEF Inv, LaunchedOnes, PageStays
<1>5. Unfollowed' => Unfollowed /\ ViewKept
  <2>1. Unfollowed' = Unfollowed
    BY <1>2 DEF PageStays, Unfollowed, RunId
  <2>2. Unfollowed => RunId \in Runs \ {r}
    BY <1>2 DEF Inv, RunSettled, Unfollowed
  <2> QED
    BY <1>1, <1>3, <2>1, <2>2 DEF ViewKept, OnlyOf
<1>6. (\A q \in requests' : RequestOK(q)) /\ (~history.known => \A q \in requests' : ~q.mine)
  BY <1>2 DEF Inv, PageOK, Unknown
<1> QED
  BY <1>1, <1>2, <1>4, <1>5, <1>6, PageStaysStep

\* A request that was answered: gone with its page, or in its place the answer.
LEMMA AnsweredIs ==
  ASSUME Inv, NEW q \in requests, NEW phase \in {"accepted", "failed"}, NEW r \in RunOrNone,
         q.kind # "launch" => r \in Runs, Answered(q, phase, r)
  PROVE  \E answer : /\ requests' \subseteq (requests \ {q}) \cup {answer}
                     /\ ~q.mine => requests' = requests \ {q}
                     /\ q.mine => requests \ {q} \subseteq requests' /\ answer \in requests'
                     /\ answer.kind = q.kind /\ answer.mine = q.mine /\ answer.run = r /\ answer.phase = phase
                     /\ q.mine => RequestOK(answer)
<1> DEFINE answer == [q EXCEPT !.phase = phase, !.run = r]
<1>1. RequestOK(q)
  BY DEF Inv, PageOK
<1>2. /\ answer \in [kind : {"launch", "reply", "cancel"}, run : RunOrNone, mine : BOOLEAN,
                      phase : {"sent", "accepted", "failed"}]
      /\ answer.kind = q.kind /\ answer.mine = q.mine /\ answer.run = r /\ answer.phase = phase
  BY <1>1 DEF RequestOK
<1>3. requests' = (requests \ {q}) \cup (IF q.mine THEN {answer} ELSE {})
  BY DEF Answered
<1> HIDE DEF answer
<1>4. q.mine => RequestOK(answer)
  BY <1>1, <1>2 DEF RequestOK
<1> QED
  BY <1>2, <1>3, <1>4

LEMMA AnsweredStep ==
  ASSUME Inv, NEW q \in requests, NEW phase \in {"accepted", "failed"}, NEW r \in RunOrNone,
         q.kind # "launch" => r \in Runs, Answered(q, phase, r),
         PageStays, ServerOK', Grows, newest' \in {newest, r}, r \in Runs => status'[r] # "none",
         q.kind = "launch" /\ phase = "accepted" =>
           r \in Runs \ {RunId, held.run} /\ (source.open => r # source.run),
         Unfollowed' => Unfollowed /\ ViewKept
  PROVE  Inv'
<1>1. PICK answer : /\ requests' \subseteq (requests \ {q}) \cup {answer}
                    /\ ~q.mine => requests' = requests \ {q}
                    /\ q.mine => requests \ {q} \subseteq requests' /\ answer \in requests'
                    /\ answer.kind = q.kind /\ answer.mine = q.mine /\ answer.run = r /\ answer.phase = phase
                    /\ q.mine => RequestOK(answer)
  BY AnsweredIs
<1>2. RunId' = RunId
  BY DEF PageStays, RunId
<1>3. \A p \in requests' : p \in requests \ {q} \/ (p = answer /\ q.mine)
  BY <1>1
<1>4. (\A p \in requests' : RequestOK(p)) /\ (~history.known => \A p \in requests' : ~p.mine)
  BY <1>1, <1>3 DEF Inv, PageOK, Unknown
<1>5. LaunchedOnes'
  <2>1. \A o \in Known' : o \in Known \cup {r}
    BY <1>1, <1>2, <1>3 DEF Known, PageStays
  <2>2. \A o \in Known' : o \in Runs => status'[o] # "none"
    BY <2>1 DEF Inv, LaunchedOnes, Grows
  <2>3. \A p \in Launches', o \in Launches' : o = p
    <3>1. ASSUME NEW p \in Launches' PROVE p \in Launches \ {q} \/ (p = answer /\ q \in Launches)
      BY <1>1, <1>3 DEF Launches
    <3> QED
      BY <3>1 DEF Inv, LaunchedOnes
  <2>4. ASSUME NEW p \in Launches', p.phase = "accepted"
        PROVE  p.run \in Runs \ {RunId, held.run} /\ (source.open => p.run # source.run)
    <3>1. CASE p \in requests
      BY <2>4, <3>1 DEF Inv, LaunchedOnes, Launches
    <3>2. CASE p = answer
      BY <1>1, <2>4, <3>2 DEF Launches
    <3> QED
      BY <1>3, <3>1, <3>2 DEF Launches
  <2> QED
    BY <1>2, <2>2, <2>3, <2>4 DEF LaunchedOnes, PageStays
<1> QED
  BY <1>4, <1>5, PageStaysStep

\* What the server does to another run is not seen in the run in view.
LEMMA OtherKept ==
  ASSUME Inv, NEW r \in Runs, OnlyOf(r), session' = session, RunId \in Runs \ {r}
  PROVE  ViewKept
BY DEF ViewKept, OnlyOf

LEMMA HandleLaunchStep ==
  ASSUME Inv, NEW q \in requests, NEW r \in Runs, HandleLaunch(q, r)
  PROVE  Inv'
<1>1. q.kind = "launch" /\ PageStays /\ UNCHANGED <<session, blind>>
  BY DEF HandleLaunch, PageStays
<1>2. CASE Begun(r) /\ status[r] = "none" /\ newest' = r /\ Answered(q, "accepted", r)
  <2>1. ServerOK' /\ Grows /\ OnlyOf(r) /\ status'[r] = "running"
    BY <1>2, BegunGrows DEF Inv, RunOrNone
  <2>2. r \notin Known
    BY <1>2 DEF Inv, LaunchedOnes
  <2>3. r # RunId /\ r # held.run /\ (source.open => r # source.run)
    BY <2>2 DEF Known
  <2>4. \E answer : requests' \subseteq (requests \ {q}) \cup {answer} /\ requests \ {q} \subseteq requests'
    BY <1>2 DEF Answered
  <2>5. Unfollowed' => Unfollowed /\ ViewKept
    <3>1. RunId' = RunId
      BY <1>1 DEF PageStays, RunId
    <3>2. Unfollowed' => Unfollowed
      BY <1>1, <2>4, <3>1 DEF Unfollowed, PageStays
    <3>3. Unfollowed => ViewKept
      BY <1>1, <2>1, <2>3, OtherKept DEF Unfollowed
    <3> QED
      BY <3>2, <3>3
  <2> QED
    BY <1>1, <1>2, <2>1, <2>3, <2>5, AnsweredStep DEF RunOrNone
<1>3. CASE Answered(q, "failed", NoRun) /\ UNCHANGED <<status, turns, log, newest>>
  <2>1. ServerOK' /\ Grows
    BY <1>3, <1>1, ServerStays DEF Inv, server, HandleLaunch
  <2>2. Unfollowed' => Unfollowed /\ ViewKept
    <3>1. RunId' = RunId
      BY <1>1 DEF PageStays, RunId
    <3>2. Unfollowed' => Unfollowed
      BY <1>1, <1>3, <3>1 DEF Unfollowed, PageStays, Answered
    <3> QED
      BY <1>1, <1>3, <3>2 DEF ViewKept
  <2> QED
    BY <1>1, <1>3, <2>1, <2>2, RunsAssumption, AnsweredStep DEF RunOrNone
<1> QED
  BY <1>2, <1>3 DEF HandleLaunch

\* The other requests for the run in view are still there, or its page was told of none.
LEMMA UnfollowedBefore ==
  ASSUME NEW q \in requests, NEW phase, NEW r, Answered(q, phase, r), PageStays,
         blind \subseteq blind', q.kind = "reply" /\ q.phase = "accepted" => q.run \in blind'
  PROVE  Unfollowed' => Unfollowed
<1>1. RunId' = RunId
  BY DEF PageStays, RunId
<1>2. requests \ {q} \subseteq requests'
  BY DEF Answered
<1> QED
  BY <1>1, <1>2 DEF Unfollowed, PageStays

LEMMA HandleReplyStep ==
  ASSUME Inv, NEW q \in requests, HandleReply(q)
  PROVE  Inv'
<1>1. q.kind = "reply" /\ q.phase = "sent" /\ PageStays /\ UNCHANGED <<session, newest>>
  BY DEF HandleReply, PageStays
<1>2. q.run \in Runs
  BY <1>1 DEF Inv, PageOK, RequestOK
<1>3. CASE Begun(q.run) /\ Answered(q, "accepted", q.run) /\ blind' = IF q.mine THEN blind ELSE blind \cup {q.run}
  <2>1. ServerOK' /\ Grows /\ OnlyOf(q.run) /\ status'[q.run] = "running"
    BY <1>1, <1>2, <1>3, BegunGrows DEF Inv, ServerOK
  <2>2. Unfollowed' => RunId # q.run
    <3>1. PICK answer : /\ requests' \subseteq (requests \ {q}) \cup {answer}
                        /\ ~q.mine => requests' = requests \ {q}
                        /\ q.mine => requests \ {q} \subseteq requests' /\ answer \in requests'
                        /\ answer.kind = q.kind /\ answer.mine = q.mine
                        /\ answer.run = q.run /\ answer.phase = "accepted"
      BY <1>2, <1>3, AnsweredIs DEF RunOrNone
    <3>2. RunId' = RunId
      BY <1>1 DEF PageStays, RunId
    <3> QED
      BY <1>1, <1>3, <3>1, <3>2 DEF Unfollowed
  <2>3. Unfollowed' => Unfollowed
    BY <1>1, <1>3, UnfollowedBefore
  <2>4. Unfollowed' => ViewKept
    BY <1>1, <1>2, <2>1, <2>2, <2>3, OtherKept DEF Unfollowed
  <2> QED
    BY <1>1, <1>2, <1>3, <2>1, <2>3, <2>4, AnsweredStep DEF RunOrNone
<1>4. CASE Answered(q, "failed", q.run) /\ UNCHANGED <<status, turns, log, blind>>
  <2>1. ServerOK' /\ Grows
    BY <1>4, <1>1, ServerStays DEF Inv, server, HandleReply
  <2>2. Unfollowed' => Unfollowed /\ ViewKept
    BY <1>1, <1>4, UnfollowedBefore DEF ViewKept
  <2>3. status'[q.run] # "none"
    BY <1>2, <1>4 DEF Inv, LaunchedOnes, Known
  <2> QED
    BY <1>1, <1>2, <1>4, <2>1, <2>2, <2>3, AnsweredStep DEF RunOrNone
<1> QED
  BY <1>3, <1>4 DEF HandleReply

\* An answer that moves nothing at the server but what a stop is meant for.
LEMMA PlainAnswerStep ==
  ASSUME Inv, NEW q \in requests, NEW phase \in {"accepted", "failed"}, Answered(q, phase, q.run), PageStays,
         UNCHANGED <<status, log, session, turns, newest>>, phase = "accepted" => q.kind # "launch",
         blind \subseteq blind', q.kind = "reply" /\ q.phase = "accepted" => q.run \in blind'
  PROVE  Inv'
<1>1. ServerOK' /\ Grows
  <2>1. ServerOK'
    BY DEF Inv, ServerOK
  <2>2. \A r \in Runs : Len(log[r]) \in Nat
    BY DEF Inv, ServerOK
  <2> QED
    BY <2>1, <2>2 DEF Grows, Extends
<1>2. Unfollowed' => Unfollowed /\ ViewKept
  BY UnfollowedBefore DEF ViewKept
<1>3. q.run \in RunOrNone /\ (q.kind # "launch" => q.run \in Runs)
  BY DEF Inv, PageOK, RequestOK
<1>4. q.run \in Runs => status'[q.run] # "none"
  BY DEF Inv, LaunchedOnes, Known
<1> QED
  BY <1>1, <1>2, <1>3, <1>4, AnsweredStep

LEMMA HandleCancelStep ==
  ASSUME Inv, NEW q \in requests, HandleCancel(q)
  PROVE  Inv'
<1>1. PICK phase \in {"accepted", "failed"} : Answered(q, phase, q.run)
  BY DEF HandleCancel
<1>2. /\ q.kind = "cancel" /\ PageStays
      /\ UNCHANGED <<status, log, session, turns, newest, blind>>
  BY DEF HandleCancel, PageStays
<1> QED
  BY <1>1, <1>2, PlainAnswerStep

LEMMA LostStep ==
  ASSUME Inv, NEW q \in requests, Lost(q)
  PROVE  Inv'
<1>1. Answered(q, "failed", q.run) /\ PageStays /\ UNCHANGED <<status, log, session, turns, newest>>
  BY DEF Lost, PageStays, server
<1>2. blind \subseteq blind' /\ (q.kind = "reply" /\ q.phase = "accepted" => q.run \in blind')
  BY DEF Lost
<1> QED
  BY <1>1, <1>2, PlainAnswerStep

---------------------------------------------------------------------------
(* What the user asks, and is refused *)

\* Nothing more is known of the runs, and no request is new.
LEMMA SameLaunched ==
  ASSUME Inv, UNCHANGED <<status, newest, held>>, RunId' = RunId, requests' \subseteq requests,
         source'.open => source.open /\ source'.run = source.run
  PROVE  LaunchedOnes'
<1>1. Known' \subseteq Known /\ Launches' \subseteq Launches
  BY DEF Known, Launches
<1>2. \A o \in Known' : o \in Runs => status'[o] # "none"
  BY <1>1 DEF Inv, LaunchedOnes
<1> QED
  BY <1>1, <1>2 DEF Inv, LaunchedOnes

LEMMA AskedStep ==
  ASSUME Inv, PageStays, UNCHANGED <<server, blind>>, history.known,
         NEW kind \in {"launch", "reply", "cancel"}, NEW r \in {RunId, NoRun},
         requests' = requests \cup {[kind |-> kind, run |-> r, mine |-> TRUE, phase |-> "sent"]},
         kind = "launch" => \A q \in requests : q.kind # "launch", kind # "launch" => r \in Runs
  PROVE  Inv'
<1> DEFINE new == [kind |-> kind, run |-> r, mine |-> TRUE, phase |-> "sent"]
<1>1. RunId' = RunId
  BY DEF PageStays, RunId
<1>2. RequestOK(new)
  BY DEF RequestOK, RunOrNone, Inv, PageOK
<1>3. new.kind = kind /\ new.run = r /\ new.phase = "sent"
  OBVIOUS
<1> HIDE DEF new
<1>4. requests' = requests \cup {new}
  BY DEF new
<1>5. ServerOK' /\ Grows
  BY ServerStays DEF Inv
<1>6. \A q \in requests' : RequestOK(q)
  BY <1>2, <1>4 DEF Inv, PageOK
<1>7. LaunchedOnes'
  <2>1. \A o \in Known' : o \in Runs => o \in Known
    BY <1>1, <1>3, <1>4, RunsAssumption DEF Known, PageStays, server
  <2>2. \A o \in Known' : o \in Runs => status'[o] # "none"
    BY <2>1 DEF Inv, LaunchedOnes, server
  <2>3. \A p \in Launches', q \in Launches' : p = q
    BY <1>3, <1>4 DEF Inv, LaunchedOnes, Launches
  <2>4. \A q \in Launches' : q.phase = "accepted" => q \in Launches
    BY <1>3, <1>4 DEF Launches
  <2> QED
    BY <1>1, <2>2, <2>3, <2>4 DEF Inv, LaunchedOnes, PageStays
<1>8. Unfollowed' => Unfollowed /\ ViewKept
  BY <1>1, <1>4 DEF Unfollowed, ViewKept, PageStays, server
<1> QED
  BY <1>5, <1>6, <1>7, <1>8, PageStaysStep

LEMMA UserAsks ==
  ASSUME Inv, Start \/ Reply \/ Cancel
  PROVE  Inv'
<1>1. PageStays /\ UNCHANGED <<server, blind>> /\ history.known
  <2>1. CanType \/ CanResume => Chatting
    BY DEF CanType, CanResume, ShownOutcome
  <2> QED
    BY <2>1 DEF Start, Reply, Cancel, PageStays, Launching, Chatting
<1>2. RunId \in RunOrNone
  BY DEF Inv, PageOK
<1>3. CASE Start
  BY <1>1, <1>3, AskedStep DEF Start
<1>4. CASE Reply
  <2>1. RunId \in Runs
    BY <1>2, <1>4 DEF Reply, CanType, CanResume, ShownOutcome, Chatting, RunOrNone
  <2> QED
    BY <1>1, <1>4, <2>1, AskedStep DEF Reply
<1>5. CASE Cancel
  <2>1. RunId \in Runs
    BY <1>2, <1>5 DEF Cancel, Chatting, RunOrNone
  <2> QED
    BY <1>1, <1>5, <2>1, AskedStep DEF Cancel
<1> QED
  BY <1>3, <1>4, <1>5

LEMMA RefusedStep ==
  ASSUME Inv, NEW q \in requests, Refused(q)
  PROVE  Inv'
<1>1. PageStays /\ UNCHANGED <<server, blind>> /\ requests' = requests \ {q} /\ q.phase = "failed"
  BY DEF Refused, PageStays
<1>2. RunId' = RunId
  BY <1>1 DEF PageStays, RunId
<1>3. ServerOK' /\ Grows
  BY <1>1, ServerStays DEF Inv
<1>4. LaunchedOnes'
  BY <1>1, <1>2, SameLaunched DEF PageStays, server
<1>5. Unfollowed' => Unfollowed /\ ViewKept
  BY <1>1, <1>2 DEF Unfollowed, ViewKept, PageStays, server
<1>6. (\A p \in requests' : RequestOK(p)) /\ (~history.known => \A p \in requests' : ~p.mine)
  BY <1>1 DEF Inv, PageOK, Unknown
<1> QED
  BY <1>1, <1>3, <1>4, <1>5, <1>6, PageStaysStep

---------------------------------------------------------------------------
(* The hook of the record *)

\* The record's hook moves, for the same run; a request that was answered may go.
LEMMA RecordStep ==
  ASSUME Inv, UNCHANGED <<server, chosen, held, due, source, blind>>, RunId' = RunId,
         history' \in [known : BOOLEAN, latest : RunOrNone, load : Load], Unknown',
         requests' \subseteq requests,
         \A q \in requests \ requests' : ~(q.kind = "reply" /\ q.phase = "accepted"),
         record' \in [run : RunOrNone, data : Data, error : BOOLEAN, load : Load], record'.run = RunId,
         RunId = NoRun => record'.load = Idle,
         Unfollowed => /\ record'.load.phase = "idle" /\ ~record'.error => record'.data = Now(RunId)
                       /\ record'.load.phase = "answered" => record'.load.data = Now(RunId)
  PROVE  Inv'
<1>1. ServerOK' /\ Grows
  BY ServerStays DEF Inv
<1>2. PageOK'
  BY DEF Inv, PageOK, RequestOK
<1>3. LaunchedOnes'
  BY SameLaunched DEF server
<1>4. HeldOK' /\ Following'
  BY <1>1, StillFollows
<1>5. RunSettled'
  <2>1. Unfollowed' => Unfollowed
    BY DEF Unfollowed
  <2>2. ViewKept
    BY DEF ViewKept, server
  <2>3. Now(RunId)' = Now(RunId)
    BY <2>2, NowStays
  <2>4. status' = status /\ log' = log
    BY DEF server
  <2> HIDE DEF Unfollowed, Now, RunId
  <2> QED
    BY <2>1, <2>3, <2>4 DEF RunSettled, Inv
<1> QED
  BY <1>1, <1>2, <1>3, <1>4, <1>5 DEF Inv

LEMMA LoadsAreLoads == Idle \in Load /\ Sent \in Load /\ NoData \in Data /\ Sent # Idle
BY DEF Idle, Sent, Load, NoData, Data, Statuses

\* The record is asked for again, whatever it was.
LEMMA ReloadIs ==
  ASSUME Inv
  PROVE  /\ RecordReload \in [run : RunOrNone, data : Data, error : BOOLEAN, load : Load]
         /\ RecordReload.run = RunId
         /\ RunId = NoRun => RecordReload.load = Idle
         /\ RunId \in Runs => RecordReload.load.phase = "sent"
<1>1. record \in [run : RunOrNone, data : Data, error : BOOLEAN, load : Load] /\ record.run = RunId
      /\ (RunId = NoRun => record.load = Idle)
  BY DEF Inv, PageOK
<1>2. [record EXCEPT !.load = Sent] \in [run : RunOrNone, data : Data, error : BOOLEAN, load : Load]
      /\ [record EXCEPT !.load = Sent].run = RunId /\ [record EXCEPT !.load = Sent].load = Sent
  BY <1>1, LoadsAreLoads
<1>3. Sent.phase = "sent"
  BY DEF Sent
<1> QED
  BY <1>1, <1>2, <1>3, RunsAssumption DEF RecordReload, Reload

LEMMA HookStep ==
  ASSUME Inv, RecordAnswered \/ RecordLoads \/ LoadFails
  PROVE  Inv'
<1>1. /\ record \in [run : RunOrNone, data : Data, error : BOOLEAN, load : Load] /\ record.run = RunId
      /\ RunId \in RunOrNone /\ (RunId = NoRun => record.load = Idle)
  BY DEF Inv, PageOK
<1>2. history \in [known : BOOLEAN, latest : RunOrNone, load : Load] /\ Unknown
  BY DEF Inv, PageOK
<1>3. UNCHANGED <<server, chosen, held, due, source, blind, requests>> /\ RunId' = RunId
  <2>1. UNCHANGED <<server, chosen, held, due, source, blind, requests>>
    BY DEF RecordAnswered, RecordLoads, LoadFails
  <2>2. history'.latest = history.latest
    BY <1>2 DEF RecordAnswered, RecordLoads, LoadFails
  <2> QED
    BY <2>1, <2>2 DEF RunId
<1>4. CASE RecordAnswered
  <2> DEFINE answered == [phase |-> "answered", data |-> Now(RunId)]
  <2>1. record' = [record EXCEPT !.load = answered]
    BY <1>1, <1>4 DEF RecordAnswered, Now
  <2>2. answered \in Load /\ answered.data = Now(RunId) /\ answered.phase = "answered"
    <3>1. status[record.run] \in Statuses
      BY <1>1, <1>4, LoadsAreLoads DEF RecordAnswered, Inv, ServerOK, RunOrNone
    <3> QED
      BY <1>1, <3>1 DEF Load, Data, Now
  <2> HIDE DEF answered
  <2>3. record' \in [run : RunOrNone, data : Data, error : BOOLEAN, load : Load] /\ record'.run = RunId
        /\ record'.load = answered
    BY <1>1, <2>1, <2>2
  <2>4. Unknown'
    BY <1>3, <1>2, <1>4 DEF Unknown, RecordAnswered
  <2> QED
    BY <1>1, <1>2, <1>3, <1>4, <2>2, <2>3, <2>4, LoadsAreLoads, RecordStep DEF RecordAnswered
<1>5. CASE RecordLoads
  <2>1. record' \in [run : RunOrNone, data : Data, error : BOOLEAN, load : Load] /\ record'.run = RunId
        /\ record'.load = Idle /\ record'.data = record.load.data
    BY <1>1, <1>5, LoadsAreLoads DEF RecordLoads, Load
  <2>2. Unfollowed => record'.data = Now(RunId)
    BY <1>5, <2>1 DEF RecordLoads, Inv, RunSettled
  <2>3. Unknown'
    BY <1>3, <1>2, <1>5 DEF Unknown, RecordLoads
  <2>4. Idle.phase = "idle"
    BY DEF Idle
  <2> QED
    BY <1>3, <1>2, <1>5, <2>1, <2>2, <2>3, <2>4, RecordStep DEF RecordLoads
<1>6. CASE LoadFails
  <2>1. CASE record' = [record EXCEPT !.error = TRUE, !.load = Idle] /\ history' = history
    <3>1. record' \in [run : RunOrNone, data : Data, error : BOOLEAN, load : Load] /\ record'.run = RunId
          /\ record'.load = Idle /\ record'.error
      BY <1>1, <2>1, LoadsAreLoads
    <3>2. Idle.phase = "idle"
      BY DEF Idle
    <3>3. Unknown'
      BY <1>3, <1>2, <2>1 DEF Unknown
    <3> QED
      BY <1>3, <1>2, <2>1, <3>1, <3>2, <3>3, RecordStep
  <2>2. CASE history' = [history EXCEPT !.known = TRUE, !.load = Idle] /\ record' = record
    <3>1. history' \in [known : BOOLEAN, latest : RunOrNone, load : Load] /\ history'.known /\ history'.load = Idle
      BY <1>2, <2>2, LoadsAreLoads
    <3>2. Unknown'
      BY <3>1 DEF Unknown
    <3>3. Unfollowed => /\ record'.load.phase = "idle" /\ ~record'.error => record'.data = Now(RunId)
                        /\ record'.load.phase = "answered" => record'.load.data = Now(RunId)
      BY <2>2 DEF Inv, RunSettled
    <3> QED
      BY <1>3, <1>1, <2>2, <3>1, <3>2, <3>3, RecordStep
  <2> QED
    BY <1>6, <2>1, <2>2 DEF LoadFails
<1> QED
  BY <1>4, <1>5, <1>6

LEMMA CancelledStep ==
  ASSUME Inv, NEW q \in requests, Cancelled(q)
  PROVE  Inv'
<1>1. UNCHANGED <<server, chosen, history, held, due, source, blind>> /\ RunId' = RunId
  BY DEF Cancelled, RunId
<1>2. requests' = requests \ {q} /\ q.kind = "cancel" /\ record' = RecordReload
  BY DEF Cancelled
<1>3. history' \in [known : BOOLEAN, latest : RunOrNone, load : Load] /\ Unknown'
  BY <1>1, <1>2 DEF Inv, PageOK, Unknown
<1>4. Unfollowed => record'.load.phase = "sent"
  BY <1>2, ReloadIs DEF Unfollowed
<1> QED
  BY <1>1, <1>2, <1>3, <1>4, ReloadIs, RecordStep

---------------------------------------------------------------------------
(* The source *)

\* The next event there is for the source, and what is passed over to reach it.
LEMMA NextDelivered ==
  ASSUME ServerOK, source.run \in Runs, source.pos \in Nat, Deliverable # {}
  PROVE  /\ Min(Deliverable) \in Deliverable
         /\ \A j \in (source.pos + 1)..(Min(Deliverable) - 1) : log[source.run][j].kind = "delta"
<1>1. log[source.run] \in Seq(Events)
  BY DEF ServerOK
<1>2. Deliverable \subseteq 1..Len(log[source.run])
  BY <1>1 DEF Deliverable
<1>3. Min(Deliverable) \in Deliverable /\ \A j \in Deliverable : Min(Deliverable) <= j
  <2>1. \E m \in Deliverable : \A j \in Deliverable : m <= j
    BY <1>2, LeastNatural
  <2> HIDE DEF Deliverable
  <2> QED
    BY <2>1 DEF Min
<1>4. ASSUME NEW j \in (source.pos + 1)..(Min(Deliverable) - 1) PROVE log[source.run][j].kind = "delta"
  <2>1. j \in 1..Len(log[source.run]) /\ j \notin Deliverable
    <3> DEFINE m == Min(Deliverable)
    <3>1. /\ m \in 1..Len(log[source.run]) /\ Len(log[source.run]) \in Nat
          /\ \A k \in Deliverable : m <= k
      <4>1. m \in Deliverable /\ \A k \in Deliverable : m <= k
        BY <1>3
      <4> HIDE DEF m
      <4> QED
        BY <1>1, <1>2, <4>1
    <3>2. j \in (source.pos + 1)..(m - 1)
      OBVIOUS
    <3> HIDE DEF m
    <3> QED
      BY <3>1, <3>2
  <2> QED
    BY <1>1, <2>1 DEF Deliverable
<1> QED
  BY <1>3, <1>4

LEMMA EmptySays == empty.last = 0 /\ empty.status = "none"
BY DEF empty

\* What the transcript is after the next event: it is of the source's run, goes as far as the
\* event and says the status of what it has.
LEMMA DeliveredIs ==
  ASSUME Inv, Deliver
  PROVE  /\ held'.run = source.run /\ source'.pos \in 1..Len(log[source.run])
         /\ source' = [source EXCEPT !.pos = source'.pos]
         /\ held'.transcript.last \in source'.pos..Len(log[source.run])
         /\ held.run = source.run => held'.transcript.last >= held.transcript.last
         /\ SaysStatus(log[source.run], held'.transcript.last, held'.transcript.status)
<1> DEFINE i == Min(Deliverable)
           before == IF held.run = source.run THEN held.transcript ELSE empty
           event == log[source.run][i]
           after == apply(before, event)
<1>1. source.run \in Runs /\ source.pos \in Nat /\ source.open /\ log[source.run] \in Seq(Events)
  BY DEF Inv, PageOK, Deliver, ServerOK
<1>2. i \in Deliverable /\ \A j \in (source.pos + 1)..(i - 1) : log[source.run][j].kind = "delta"
  BY <1>1, NextDelivered DEF Deliver, Inv
<1>3. i \in 1..Len(log[source.run]) /\ i > source.pos
  <2> HIDE DEF i
  <2> QED
    BY <1>1, <1>2 DEF Deliverable
<1>4. held' = [run |-> source.run, transcript |-> after] /\ source' = [source EXCEPT !.pos = i]
  BY DEF Deliver, Heard
<1>5. event.seq = i
  BY <1>1, <1>3 DEF Inv, ServerOK, LogOK
<1>6. /\ before.last \in source.pos..Len(log[source.run])
      /\ SaysStatus(log[source.run], before.last, before.status)
  <2>1. CASE held.run = source.run
    BY <1>1, <2>1 DEF Inv, HeldOK, Following
  <2>2. CASE held.run # source.run
    <3>1. source.pos = 0
      BY <1>1, <2>2 DEF Inv, Following
    <3> QED
      BY <1>1, <2>2, <3>1, EmptySays DEF SaysStatus
  <2> QED
    BY <2>1, <2>2
<1> HIDE DEF i, before
<1>7. /\ after.last \in i..Len(log[source.run]) /\ after.last >= before.last
      /\ SaysStatus(log[source.run], after.last, after.status)
  <2>1. CASE i <= before.last
    BY <1>1, <1>3, <1>5, <1>6, <2>1 DEF apply
  <2>2. CASE i > before.last
    <3>1. after.last = i /\ after.status = IF event.kind = "status" THEN event.status ELSE before.status
      BY <1>1, <1>3, <1>5, <1>6, <2>2 DEF apply, Taken
    <3>2. \A j \in (before.last + 1)..(i - 1) : log[source.run][j].kind # "status"
      BY <1>1, <1>2, <1>3, <1>6
    <3>3. before.last \in Nat /\ before.last < i
      BY <1>1, <1>6, <2>2
    <3>4. SaysStatus(log[source.run], i, IF event.kind = "status" THEN event.status ELSE before.status)
      BY <1>1, <1>3, <1>6, <3>2, <3>3, SaysNext
    <3> QED
      BY <1>1, <1>3, <3>1, <3>3, <3>4
  <2> QED
    BY <1>1, <1>3, <1>6, <2>1, <2>2
<1> HIDE DEF after
<1>8. held'.run = source.run /\ held'.transcript = after
  BY <1>4
<1>9. source'.pos = i
  BY <1>4 DEF Inv, PageOK
<1>10. held.run = source.run => before = held.transcript
  BY DEF before
<1> QED
  BY <1>3, <1>4, <1>7, <1>8, <1>9, <1>10

\* A step that keeps the server, the run in view and the requests: what is left to show.
LEMMA SourceStep ==
  ASSUME Inv, UNCHANGED <<server, chosen, history, requests>>, Unfollowed' => RunSettled',
         record' \in [run : RunOrNone, data : Data, error : BOOLEAN, load : Load], record'.run = RunId,
         RunId = NoRun => record'.load = Idle,
         source' \in [run : RunOrNone, open : BOOLEAN, after : Nat, pos : Nat, joined : Nat],
         source'.open => source'.run \in Runs, due' \in [on : BOOLEAN, after : Nat],
         ~history.known => held'.run = NoRun /\ ~source'.open /\ ~due'.on,
         held'.run \in {held.run} \cup (IF source.open THEN {source.run} ELSE {}),
         source'.open => source'.run = RunId \/ (source.open /\ source'.run = source.run),
         HeldOK', Following'
  PROVE  Inv'
<1>1. RunId' = RunId
  BY DEF RunId
<1>2. ServerOK'
  BY ServerStays DEF Inv
<1>3. PageOK'
  BY <1>1 DEF Inv, PageOK, RequestOK
<1>4. Unknown'
  BY DEF Inv, Unknown
<1>5. LaunchedOnes'
  <2>1. Known' \subseteq Known /\ Launches' = Launches
    BY <1>1 DEF Known, Launches, server
  <2>2. \A o \in Known' : o \in Runs => status'[o] # "none"
    BY <2>1 DEF Inv, LaunchedOnes, server
  <2> QED
    BY <1>1, <2>1, <2>2 DEF Inv, LaunchedOnes
<1>6. RunSettled'
  BY DEF RunSettled
<1> QED
  BY <1>2, <1>3, <1>4, <1>5, <1>6 DEF Inv

LEMMA PageIs ==
  ASSUME Inv
  PROVE  /\ record \in [run : RunOrNone, data : Data, error : BOOLEAN, load : Load]
         /\ record.run = RunId /\ (RunId = NoRun => record.load = Idle)
         /\ source \in [run : RunOrNone, open : BOOLEAN, after : Nat, pos : Nat, joined : Nat]
         /\ source.open => source.run \in Runs /\ log[source.run] \in Seq(Events)
         /\ due \in [on : BOOLEAN, after : Nat]
         /\ ~history.known => held.run = NoRun /\ ~source.open /\ ~due.on
         /\ RunId \in RunOrNone
         /\ \A r \in Runs : log[r] \in Seq(Events)
BY DEF Inv, PageOK, Unknown, ServerOK

LEMMA LastLoggedType ==
  ASSUME NEW r \in Runs, log[r] \in Seq(Events)
  PROVE  LastLogged(r) \in Nat
<1>1. Logged(r) \subseteq Nat
  BY DEF Logged
<1>2. CASE Logged(r) = {}
  BY <1>2 DEF LastLogged
<1>3. CASE Logged(r) # {}
  <2> DEFINE bounds == {n \in Nat : \A m \in Logged(r) : m <= n}
  <2>1. Len(log[r]) \in bounds
    BY DEF Logged
  <2>2. PICK b \in bounds : \A n \in bounds : b <= n
    BY <2>1, LeastNatural
  <2>3. b \in Logged(r)
    <3> SUFFICES ASSUME b \notin Logged(r) PROVE FALSE
      OBVIOUS
    <3>1. \A m \in Logged(r) : m \in Nat /\ m < b
      BY <1>1, <2>2
    <3>2. b - 1 \in Nat
      BY <1>3, <2>2, <3>1
    <3>3. b - 1 \in bounds
      BY <2>2, <3>1, <3>2
    <3> QED
      BY <2>2, <3>3
  <2>4. \A m \in Logged(r) : b >= m
    BY <1>1, <2>2
  <2>5. Max(Logged(r)) \in Logged(r)
    BY <2>3, <2>4 DEF Max
  <2> QED
    BY <1>1, <1>3, <2>5 DEF LastLogged
<1> QED
  BY <1>2, <1>3

LEMMA DeliverStep == ASSUME Inv, Deliver PROVE Inv'
<1>1. UNCHANGED <<server, chosen, history, record, due, requests, blind>> /\ source.open
  BY DEF Deliver
<1>2. RunId' = RunId
  BY <1>1 DEF RunId
<1>3. /\ held'.run = source.run /\ source'.pos \in 1..Len(log[source.run])
      /\ source' = [source EXCEPT !.pos = source'.pos]
      /\ held'.transcript.last \in source'.pos..Len(log[source.run])
      /\ held.run = source.run => held'.transcript.last >= held.transcript.last
      /\ SaysStatus(log[source.run], held'.transcript.last, held'.transcript.status)
  BY DeliveredIs
<1>4. source.run \in Runs /\ log[source.run] \in Seq(Events) /\ log' = log
  BY <1>1, PageIs DEF server
<1>5. /\ source' \in [run : RunOrNone, open : BOOLEAN, after : Nat, pos : Nat, joined : Nat]
      /\ source'.open /\ source'.run = source.run
  <2>1. source'.pos \in Nat
    BY <1>3, <1>4
  <2> QED
    BY <1>1, <1>3, <2>1, PageIs
<1>6. HeldOK'
  <2>1. held'.transcript.last \in Nat /\ held'.transcript.last <= Len(log[source.run])
    BY <1>3, <1>4
  <2> QED
    BY <1>3, <1>4, <2>1, RunsAssumption DEF HeldOK, RunOrNone
<1>7. Following'
  <2>1. source'.open /\ ~due'.on => source'.run = RunId'
    BY <1>1, <1>2, <1>5 DEF Inv, Following
  <2>2. source'.run # RunId' => held'.run \notin Runs \cap {RunId'}
    BY <1>2, <1>3, <1>5
  <2>3. due'.on /\ due'.after > 0 => /\ RunId' \in Runs /\ held'.run = RunId'
                                     /\ held'.transcript.last >= due'.after
    <3>1. due.on /\ due.after > 0 => RunId \in Runs /\ held.run = RunId /\ held.transcript.last >= due.after
      BY DEF Inv, Following
    <3>2. due.on /\ due.after > 0 => source.run = RunId
      BY <1>1, <3>1 DEF Inv, Following
    <3>3. held.transcript.last \in Nat /\ held'.transcript.last \in Nat /\ due.after \in Nat
      BY <1>3, <1>4, PageIs DEF Inv, HeldOK
    <3> QED
      BY <1>1, <1>2, <1>3, <3>1, <3>2, <3>3
  <2>4. held'.run = source'.run /\ held'.transcript.last >= source'.pos
    BY <1>3, <1>4, <1>5
  <2> QED
    BY <2>1, <2>2, <2>3, <2>4 DEF Following
<1>8. ~Unfollowed'
  BY <1>5 DEF Unfollowed
<1> QED
  BY <1>1, <1>3, <1>4, <1>5, <1>6, <1>7, <1>8, PageIs, SourceStep

LEMMA FollowStep == ASSUME Inv, Follow PROVE Inv'
<1>1. UNCHANGED <<server, chosen, history, record, held, requests, blind>> /\ due.on
  BY DEF Follow
<1>2. RunId' = RunId
  BY <1>1 DEF RunId
<1>3. due' \in [on : BOOLEAN, after : Nat] /\ ~due'.on
  BY PageIs DEF Follow
<1>4. CASE RunId = NoRun
  <2>1. source' = Closed
    BY <1>4 DEF Follow
  <2>2. Closed \in [run : RunOrNone, open : BOOLEAN, after : Nat, pos : Nat, joined : Nat] /\ ~Closed.open
    BY DEF Closed, RunOrNone
  <2>3. Following'
    BY <1>3, <2>1, <2>2 DEF Following
  <2>4. HeldOK'
    BY <1>1 DEF Inv, HeldOK, server
  <2>5. ~Unfollowed'
    BY <1>2, <1>4, RunsAssumption DEF Unfollowed
  <2> QED
    BY <1>1, <1>3, <2>1, <2>2, <2>3, <2>4, <2>5, PageIs, SourceStep
<1>5. CASE RunId # NoRun
  <2>1. RunId \in Runs
    BY <1>5, PageIs DEF RunOrNone
  <2>2. source' = [run |-> RunId, open |-> TRUE, after |-> due.after, pos |-> due.after,
                   joined |-> LastLogged(RunId)]
    BY <1>5 DEF Follow
  <2>3. LastLogged(RunId) \in Nat /\ due.after \in Nat
    BY <2>1, PageIs, LastLoggedType
  <2>4. /\ source' \in [run : RunOrNone, open : BOOLEAN, after : Nat, pos : Nat, joined : Nat]
        /\ source'.open /\ source'.run = RunId /\ source'.pos = due.after
    BY <2>1, <2>2, <2>3 DEF RunOrNone
  <2>5. Following'
    BY <1>1, <1>2, <1>3, <2>4 DEF Inv, Following
  <2>6. HeldOK'
    BY <1>1 DEF Inv, HeldOK, server
  <2>7. ~Unfollowed'
    BY <2>4 DEF Unfollowed
  <2>8. history.known
    BY <1>1, PageIs
  <2> QED
    BY <1>1, <1>3, <2>1, <2>4, <2>5, <2>6, <2>7, <2>8, PageIs, SourceStep
<1> QED
  BY <1>4, <1>5

LEMMA ReconnectStep == ASSUME Inv, Reconnect PROVE Inv'
<1>1. UNCHANGED <<server, chosen, history, record, held, due, requests, blind>> /\ source.open
  BY DEF Reconnect
<1>2. RunId' = RunId
  BY <1>1 DEF RunId
<1>3. LastLogged(source.run) \in Nat
  BY <1>1, PageIs, LastLoggedType
<1>4. /\ source' \in [run : RunOrNone, open : BOOLEAN, after : Nat, pos : Nat, joined : Nat]
      /\ source'.open /\ source'.run = source.run /\ source'.pos = source.pos
  BY <1>1, <1>3, PageIs DEF Reconnect
<1>5. Following' /\ HeldOK'
  BY <1>1, <1>2, <1>4 DEF Inv, Following, HeldOK, server
<1>6. ~Unfollowed'
  BY <1>4 DEF Unfollowed
<1> QED
  BY <1>1, <1>4, <1>5, <1>6, PageIs, SourceStep

\* The end comes when the source has passed the status that the run ended with.
LEMMA EndHasAll ==
  ASSUME Inv, End
  PROVE  /\ held.run = source.run /\ held.transcript.last = Len(log[source.run])
         /\ status[source.run] \notin {"none", "running"}
<1> DEFINE events == log[source.run]
<1>1. source.open /\ source.run \in Runs /\ Deliverable = {} /\ status[source.run] # "running"
  BY PageIs DEF End
<1>2. status[source.run] # "none"
  BY <1>1 DEF Inv, LaunchedOnes, Known
<1>3. LogOK(events, status[source.run]) /\ source.pos \in Nat
  BY <1>1, PageIs DEF Inv, ServerOK
<1>4. Len(events) \in Nat \ {0} /\ events[Len(events)].kind = "status" /\ DOMAIN events = 1..Len(events)
  BY <1>1, <1>2, <1>3 DEF LogOK
<1>5. Len(events) <= source.pos
  <2> SUFFICES ASSUME Len(events) > source.pos PROVE FALSE
    BY <1>3, <1>4
  <2>1. Len(events) \in Deliverable
    BY <1>4 DEF Deliverable
  <2> QED
    BY <1>1, <2>1
<1>6. held.run = source.run /\ held.transcript.last >= source.pos
  BY <1>1, <1>3, <1>4, <1>5 DEF Inv, Following
<1>7. held.transcript.last \in Nat /\ held.transcript.last <= Len(events)
  BY <1>1, <1>6 DEF Inv, HeldOK
<1> QED
  BY <1>1, <1>2, <1>3, <1>4, <1>5, <1>6, <1>7

LEMMA EndStep == ASSUME Inv, End PROVE Inv'
<1>1. /\ UNCHANGED <<server, chosen, history, held, due, requests, blind>>
      /\ source' = Closed /\ record' = RecordReload /\ source.open
  BY DEF End
<1>2. RunId' = RunId
  BY <1>1 DEF RunId
<1>3. Closed \in [run : RunOrNone, open : BOOLEAN, after : Nat, pos : Nat, joined : Nat] /\ ~Closed.open
  BY DEF Closed, RunOrNone
<1>4. Following' /\ HeldOK'
  BY <1>1, <1>2, <1>3 DEF Inv, Following, HeldOK, server
<1>5. Unfollowed' => RunSettled'
  <2> SUFFICES ASSUME Unfollowed' PROVE RunSettled'
    OBVIOUS
  <2>1. RunId \in Runs /\ ~due.on
    BY <1>1, <1>2 DEF Unfollowed
  <2>2. source.run = RunId
    BY <1>1, <2>1 DEF Inv, Following
  <2>3. record'.load.phase = "sent"
    BY <1>1, <2>1, ReloadIs
  <2> QED
    BY <1>1, <1>2, <2>2, <2>3, EndHasAll DEF RunSettled, server
<1> QED
  BY <1>1, <1>3, <1>4, <1>5, PageIs, ReloadIs, SourceStep

---------------------------------------------------------------------------
(* Another run in view, or another turn of it: the effect is due *)

\* The effect starts after what is held of the run, and only of the run.
LEMMA LastOfIs ==
  ASSUME Inv, NEW r \in RunOrNone
  PROVE  LastOf(r) \in Nat /\ (LastOf(r) > 0 => r \in Runs /\ held.run = r /\ held.transcript.last = LastOf(r))
<1>1. held.run = NoRun => held.transcript.last = 0
  BY EmptySays DEF Inv, HeldOK
<1> QED
  BY <1>1 DEF LastOf, Inv, HeldOK, RunOrNone

LEMMA RepliedStep ==
  ASSUME Inv, NEW q \in requests, Replied(q)
  PROVE  Inv'
<1>1. /\ UNCHANGED <<server, chosen, history, held, source, blind>>
      /\ requests' = requests \ {q} /\ q.phase = "accepted" /\ record' = RecordReload
      /\ due' = [on |-> TRUE, after |-> LastOf(RunId)]
  BY DEF Replied
<1>2. RunId' = RunId
  BY <1>1 DEF RunId
<1>3. history.known
  BY <1>1 DEF Inv, PageOK, RequestOK, Unknown
<1>4. /\ LastOf(RunId) \in Nat
      /\ LastOf(RunId) > 0 => RunId \in Runs /\ held.run = RunId /\ held.transcript.last = LastOf(RunId)
  BY PageIs, LastOfIs
<1>5. ServerOK' /\ Grows
  BY <1>1, ServerStays DEF Inv
<1>6. PageOK'
  <2>1. due' \in [on : BOOLEAN, after : Nat]
    BY <1>1, <1>4
  <2> QED
    BY <1>1, <1>2, <2>1, ReloadIs DEF Inv, PageOK, RequestOK
<1>7. Unknown'
  BY <1>1, <1>3 DEF Inv, Unknown
<1>8. LaunchedOnes'
  BY <1>1, <1>2, SameLaunched DEF server
<1>9. HeldOK'
  BY <1>1 DEF Inv, HeldOK, server
<1>10. Following'
  <2>1. due'.on /\ due'.after = LastOf(RunId)
    BY <1>1
  <2> QED
    BY <1>1, <1>2, <1>4, <2>1 DEF Inv, Following
<1>11. RunSettled'
  BY <1>1 DEF RunSettled, Unfollowed
<1> QED
  BY <1>5, <1>6, <1>7, <1>8, <1>9, <1>10, <1>11 DEF Inv

\* Another run, of which nothing is held: what a render with it leaves to show.
LEMMA RenderedStep ==
  ASSUME Inv, NEW r \in RunOrNone, Rendered(r), UNCHANGED <<server, held, source>>, RunId' = r,
         chosen' \in RunOrNone \cup {Latest},
         history' \in [known : BOOLEAN, latest : RunOrNone, load : Load],
         history'.known, chosen' = Latest => history'.load = Idle,
         requests' \subseteq requests, r \in Runs => status[r] # "none" /\ held.run # r,
         \A q \in requests' : q \in Launches /\ q.phase = "accepted" => q.run # r
  PROVE  Inv'
<1>1. ServerOK' /\ Grows
  BY ServerStays DEF Inv
<1>2. LastOf(r) = 0
  BY LastOfIs
<1>3. due' = [on |-> TRUE, after |-> 0] /\ record' = NoRecord(r, IF r = NoRun THEN Idle ELSE Sent)
  BY <1>2 DEF Rendered
<1>4. /\ record' \in [run : RunOrNone, data : Data, error : BOOLEAN, load : Load]
      /\ record'.run = r /\ (r = NoRun => record'.load = Idle)
  BY <1>3, LoadsAreLoads DEF NoRecord
<1>5. due' \in [on : BOOLEAN, after : Nat] /\ due'.on /\ due'.after = 0
  BY <1>3
<1>6. PageOK'
  BY <1>4, <1>5 DEF Inv, PageOK, RequestOK
<1>7. Unknown'
  BY DEF Unknown
<1>8. LaunchedOnes'
  <2>1. Known' \subseteq Known \cup {r} /\ Launches' \subseteq Launches
    BY DEF Known, Launches, server
  <2>2. \A o \in Known' : o \in Runs => status'[o] # "none"
    BY <2>1 DEF Inv, LaunchedOnes, server
  <2>3. \A q \in Launches' : q \in requests'
    BY DEF Launches
  <2> QED
    BY <2>1, <2>2, <2>3 DEF Inv, LaunchedOnes
<1>9. HeldOK'
  BY DEF Inv, HeldOK, server
<1>10. Following'
  BY <1>5 DEF Inv, Following
<1>11. RunSettled'
  BY <1>5 DEF RunSettled, Unfollowed
<1> QED
  BY <1>1, <1>6, <1>7, <1>8, <1>9, <1>10, <1>11 DEF Inv

LEMMA HistoryLoadsStep == ASSUME Inv, HistoryLoads PROVE Inv'
<1>1. /\ UNCHANGED <<server, chosen, held, source, requests, blind>> /\ history.load = Sent
      /\ history' = [known |-> TRUE, latest |-> newest, load |-> Idle]
  BY DEF HistoryLoads
<1>2. newest \in RunOrNone /\ chosen \in RunOrNone \cup {Latest}
  BY DEF Inv, ServerOK, PageOK
<1>3. history' \in [known : BOOLEAN, latest : RunOrNone, load : Load] /\ history'.known /\ history'.load = Idle
      /\ history'.latest = newest
  BY <1>1, <1>2, LoadsAreLoads
<1>4. CASE chosen = Latest /\ newest # RunId
  <2>1. ~history.known
    BY <1>1, <1>4, LoadsAreLoads DEF Inv, Unknown
  <2>2. held.run = NoRun /\ \A q \in requests : ~q.mine
    BY <2>1 DEF Inv, Unknown
  <2>3. Rendered(newest) /\ RunId' = newest
    BY <1>1, <1>3, <1>4 DEF HistoryLoads, RunId
  <2>4. newest \in Runs => status[newest] # "none"
    BY DEF Inv, LaunchedOnes, Known
  <2> QED
    BY <1>1, <1>2, <1>3, <2>2, <2>3, <2>4, RunsAssumption, RenderedStep DEF Launches
<1>5. CASE ~(chosen = Latest /\ newest # RunId)
  <2>1. UNCHANGED <<record, due>>
    BY <1>5 DEF HistoryLoads
  <2>2. RunId' = RunId
    BY <1>1, <1>3, <1>5 DEF RunId
  <2>3. Unknown'
    BY <1>3 DEF Unknown
  <2>4. Unfollowed => /\ record'.load.phase = "idle" /\ ~record'.error => record'.data = Now(RunId)
                      /\ record'.load.phase = "answered" => record'.load.data = Now(RunId)
    BY <2>1 DEF Inv, RunSettled
  <2> QED
    BY <1>1, <1>3, <2>1, <2>2, <2>3, <2>4, PageIs, RecordStep
<1> QED
  BY <1>4, <1>5

LEMMA LaunchedStep ==
  ASSUME Inv, NEW q \in requests, Launched(q)
  PROVE  Inv'
<1>1. /\ UNCHANGED <<server, held, source, blind>> /\ q.kind = "launch" /\ q.phase = "accepted"
      /\ requests' = requests \ {q} /\ chosen' = q.run /\ Rendered(q.run) /\ history' = Reload(history)
  BY DEF Launched
<1>2. q.mine /\ q \in Launches
  BY <1>1 DEF Inv, PageOK, RequestOK, Launches
<1>3. q.run \in Runs \ {RunId, held.run}
  BY <1>1, <1>2 DEF Inv, LaunchedOnes
<1>4. RunId' = q.run /\ chosen' # Latest
  BY <1>1, <1>3, RunsAssumption DEF RunId
<1>5. history' \in [known : BOOLEAN, latest : RunOrNone, load : Load] /\ history'.known
  BY <1>1, <1>2, LoadsAreLoads DEF Reload, Inv, PageOK, Unknown
<1>6. status[q.run] # "none"
  BY <1>3 DEF Inv, LaunchedOnes, Known
<1>7. \A p \in requests' : p \notin Launches
  BY <1>1, <1>2 DEF Inv, LaunchedOnes
<1> QED
  BY <1>1, <1>3, <1>4, <1>5, <1>6, <1>7, RenderedStep DEF RunOrNone

LEMMA NewStep == ASSUME Inv, New PROVE Inv'
<1>1. /\ UNCHANGED <<server, history, held, source, requests, blind>> /\ history.known
      /\ chosen' = NoRun /\ Rendered(NoRun)
  BY DEF New, Chatting
<1>2. RunId' = NoRun /\ chosen' # Latest /\ NoRun \notin Runs /\ NoRun \in RunOrNone
  BY <1>1, RunsAssumption DEF RunId, RunOrNone
<1>3. history \in [known : BOOLEAN, latest : RunOrNone, load : Load]
  BY DEF Inv, PageOK
<1>4. \A q \in requests : q \in Launches /\ q.phase = "accepted" => q.run # NoRun
  BY <1>2 DEF Inv, LaunchedOnes
<1> QED
  BY <1>1, <1>2, <1>3, <1>4, RenderedStep

\* A page that has just been opened.
LEMMA Opened ==
  ASSUME ServerOK', chosen' = Latest, history' = [known |-> FALSE, latest |-> NoRun, load |-> Sent],
         record' = NoRecord(NoRun, Idle), held' = [run |-> NoRun, transcript |-> empty],
         due' = [on |-> FALSE, after |-> 0], source' = Closed,
         \A q \in requests' : RequestOK(q) /\ ~q.mine, newest' \in Runs => status'[newest'] # "none",
         \A q \in requests' : q.run \in Runs => status'[q.run] # "none"
  PROVE  Inv'
<1>1. /\ ~history'.known /\ history'.latest = NoRun /\ held'.run = NoRun /\ held'.transcript = empty
      /\ ~due'.on /\ due'.after = 0
  OBVIOUS
<1>2. RunId' = NoRun /\ NoRun \notin Runs
  BY <1>1, RunsAssumption DEF RunId
<1>3. /\ source' \in [run : RunOrNone, open : BOOLEAN, after : Nat, pos : Nat, joined : Nat]
      /\ ~source'.open
  BY DEF Closed, RunOrNone
<1>4. PageOK'
  <2>1. /\ record' \in [run : RunOrNone, data : Data, error : BOOLEAN, load : Load]
        /\ record'.run = NoRun /\ record'.load = Idle
    BY LoadsAreLoads DEF NoRecord, RunOrNone
  <2>2. history' \in [known : BOOLEAN, latest : RunOrNone, load : Load] /\ due' \in [on : BOOLEAN, after : Nat]
    BY LoadsAreLoads DEF RunOrNone
  <2> QED
    BY <1>2, <1>3, <2>1, <2>2 DEF PageOK, RequestOK
<1>5. Unknown'
  BY <1>1, <1>3 DEF Unknown
<1>6. LaunchedOnes'
  BY <1>1, <1>2, <1>3 DEF LaunchedOnes, Known, Launches
<1>7. HeldOK' /\ Following'
  BY <1>1, <1>2, <1>3, EmptySays DEF HeldOK, Following, RunOrNone
<1>8. RunSettled'
  BY <1>2 DEF RunSettled, Unfollowed
<1> QED
  BY <1>4, <1>5, <1>6, <1>7, <1>8 DEF Inv

LEMMA RemountStep == ASSUME Inv, Remount PROVE Inv'
<1>1. ServerOK' /\ UNCHANGED server
  BY ServerStays DEF Inv, Remount
<1>2. ASSUME NEW q \in requests'
      PROVE  RequestOK(q) /\ ~q.mine /\ \E p \in requests : p.run = q.run
  <2>1. PICK p \in requests : p.phase = "sent" /\ q = [p EXCEPT !.mine = FALSE]
    BY DEF Remount
  <2>2. RequestOK(p)
    BY DEF Inv, PageOK
  <2> QED
    BY <2>1, <2>2 DEF RequestOK
<1>3. \A q \in requests' : q.run \in Runs => status'[q.run] # "none"
  BY <1>1, <1>2 DEF Inv, LaunchedOnes, Known, server
<1>4. newest' \in Runs => status'[newest'] # "none"
  BY <1>1 DEF Inv, LaunchedOnes, Known, server
<1> QED
  BY <1>1, <1>2, <1>3, <1>4, Opened DEF Remount

---------------------------------------------------------------------------
(* The theorem *)

LEMMA InitInv == ChatInit => Inv
<1> SUFFICES ASSUME ChatInit PROVE Inv
  OBVIOUS
<1>1. ServerOK
  BY DEF ChatInit, ServerOK, LogOK, Statuses, RunOrNone
<1>2. /\ ~history.known /\ history.latest = NoRun /\ held.run = NoRun /\ held.transcript = empty
      /\ ~due.on /\ due.after = 0 /\ requests = {} /\ chosen = Latest /\ newest = NoRun
  BY DEF ChatInit
<1>3. RunId = NoRun /\ NoRun \notin Runs
  BY <1>2, RunsAssumption DEF RunId
<1>4. /\ source \in [run : RunOrNone, open : BOOLEAN, after : Nat, pos : Nat, joined : Nat]
      /\ ~source.open
  BY DEF ChatInit, Closed, RunOrNone
<1>5. PageOK
  <2>1. /\ record \in [run : RunOrNone, data : Data, error : BOOLEAN, load : Load]
        /\ record.run = NoRun /\ record.load = Idle
    BY LoadsAreLoads DEF ChatInit, NoRecord, RunOrNone
  <2>2. history \in [known : BOOLEAN, latest : RunOrNone, load : Load] /\ due \in [on : BOOLEAN, after : Nat]
    BY LoadsAreLoads DEF ChatInit, RunOrNone
  <2> QED
    BY <1>2, <1>3, <1>4, <2>1, <2>2 DEF PageOK
<1>6. Unknown /\ LaunchedOnes
  BY <1>2, <1>3, <1>4 DEF Unknown, LaunchedOnes, Known, Launches
<1>7. HeldOK /\ Following
  BY <1>2, <1>3, <1>4, EmptySays DEF HeldOK, Following, RunOrNone
<1>8. RunSettled
  BY <1>3 DEF RunSettled, Unfollowed
<1> QED
  BY <1>1, <1>5, <1>6, <1>7, <1>8 DEF Inv

LEMMA StutterStep == ASSUME Inv, UNCHANGED vars PROVE Inv'
<1>1. UNCHANGED <<server, chosen, history, held, due, source, blind, record, requests>> /\ RunId' = RunId
  BY DEF vars, server, RunId
<1>2. Unknown'
  BY <1>1 DEF Inv, Unknown
<1>3. Unfollowed => /\ record.load.phase = "idle" /\ ~record.error => record.data = Now(RunId)
                    /\ record.load.phase = "answered" => record.load.data = Now(RunId)
  BY DEF Inv, RunSettled
<1>4. history \in [known : BOOLEAN, latest : RunOrNone, load : Load]
  BY DEF Inv, PageOK
<1> QED
  BY <1>1, <1>2, <1>3, <1>4, PageIs, RecordStep

LEMMA StepInv == Inv /\ [ChatNext]_vars => Inv'
<1> SUFFICES ASSUME Inv, [ChatNext]_vars PROVE Inv'
  OBVIOUS
<1>1. CASE \E r \in Runs : Emit(r) \/ EndTurn(r)
  BY <1>1, TurnStep
<1>2. CASE \E q \in requests :
             \/ \E r \in Runs : HandleLaunch(q, r)
             \/ HandleReply(q) \/ HandleCancel(q)
             \/ Launched(q) \/ Replied(q) \/ Cancelled(q) \/ Refused(q) \/ Lost(q)
  BY <1>2, HandleLaunchStep, HandleReplyStep, HandleCancelStep, LaunchedStep, RepliedStep, CancelledStep,
     RefusedStep, LostStep
<1>3. CASE HistoryLoads \/ RecordAnswered \/ RecordLoads \/ LoadFails
  BY <1>3, HistoryLoadsStep, HookStep
<1>4. CASE Follow \/ Deliver \/ End \/ Reconnect
  BY <1>4, FollowStep, DeliverStep, EndStep, ReconnectStep
<1>5. CASE Start \/ New \/ Reply \/ Cancel \/ Remount
  BY <1>5, UserAsks, NewStep, RemountStep
<1>6. CASE UNCHANGED vars
  BY <1>6, StutterStep
<1> QED
  BY <1>1, <1>2, <1>3, <1>4, <1>5, <1>6 DEF ChatNext

\* A page that waits for nothing follows nothing, so what it holds is the whole log, which
\* says the run's status last.
LEMMA QuietIsCurrent == Inv => QuietPageIsCurrent
<1> SUFFICES ASSUME Inv, Quiet, RunId \notin blind
             PROVE  /\ RunData = [status |-> status[RunId], session |-> RunId \in session]
                    /\ Shown = status[RunId]
                    /\ ShownTranscript.last = Len(log[RunId])
  BY DEF QuietPageIsCurrent
<1>1. RunId \in Runs /\ record.run = RunId
  BY PageIs DEF Quiet, Chatting, RunOrNone
<1>2. Unfollowed
  BY <1>1 DEF Quiet, Unfollowed
<1>3. /\ status[RunId] \notin {"none", "running"}
      /\ held.run = RunId /\ held.transcript.last = Len(log[RunId])
  BY <1>2 DEF Inv, RunSettled
<1>4. record.data = Now(RunId)
  <2>1. record.load.phase = "idle" /\ ~record.error
    BY DEF Quiet, Idle
  <2> QED
    BY <1>2, <2>1 DEF Inv, RunSettled
<1>5. held.transcript.status = status[RunId]
  <2>1. SaysStatus(log[RunId], Len(log[RunId]), held.transcript.status)
    BY <1>1, <1>3 DEF Inv, HeldOK
  <2>2. LogOK(log[RunId], status[RunId]) /\ status[RunId] \in Statuses
    BY <1>1 DEF Inv, ServerOK
  <2> QED
    BY <1>3, <2>1, <2>2, SaysLast
<1>6. RunData = [status |-> status[RunId], session |-> RunId \in session]
  BY <1>1, <1>4 DEF RunData, Now
<1> QED
  BY <1>3, <1>5, <1>6 DEF Shown, ShownTranscript, StatusOf

\* A page that waits for nothing shows the run as it is: its status, its verdict and its
\* transcript to the last event (advisor.tsx:31-131), whatever was launched, sent, cancelled,
\* lost, opened anew or answered late before.
THEOREM QuietPageIsCurrentHolds == ChatSpec => []QuietPageIsCurrent
<1>1. ChatSpec => []Inv
  BY InitInv, StepInv, PTL DEF ChatSpec
<1> QED
  BY <1>1, QuietIsCurrent, PTL

---------------------------------------------------------------------------
(* The transcript.  A page gets the events of a run partly as they happen,  *)
(* deltas among them, and partly as they are stored, some of them twice.    *)
(* TranscriptAsStored follows from what may come after what (LogShape): a   *)
(* message that streams is not followed by anything that looks at the last  *)
(* item but its own text, whichever of its deltas the page has heard.       *)

StepRecords == [id : Nat, nested : BOOLEAN, ok : {"running", "ok"}]
Items ==
  [type : {"user"}, seq : Nat]
    \cup [type : {"assistant"}, seq : Nat, text : Seq(Nat), streaming : BOOLEAN]
    \cup [type : {"steps"}, seq : Nat, steps : Seq(StepRecords)]
    \cup [type : {"decision"}, seq : Nat, id : Nat]

\* A status event that ends a turn.
EndsTurn(event) == event.kind = "status" /\ event.status # "running"

LogShape(events, s) ==
  /\ s = "none" => events = <<>>
  /\ s = "running" => events # <<>> /\ ~EndsTurn(events[Len(events)])
  /\ \A n \in 1..Len(events) : n < Len(events) =>
       /\ events[n].kind = "delta" => events[n + 1].kind \in {"delta", "text"} \/ EndsTurn(events[n + 1])
       /\ EndsTurn(events[n]) => events[n + 1].kind = "user"

\* Only such events leave a message streaming as the last item.
StreamsAt(events, n) == n > 0 /\ (events[n].kind = "delta" \/ EndsTurn(events[n]))

TranscriptInv ==
  /\ \A r \in Runs : LogShape(log[r], status[r])
  /\ held.run \in Runs =>
       LET shown == held.transcript
           replayed == Replayed(log[held.run], shown.last)
       IN /\ shown.items \in Seq(Items)
          /\ Whole(shown.items) = replayed.items
          /\ shown.status = replayed.status
          /\ Streams(shown.items) => StreamsAt(log[held.run], shown.last)

\* What is true of 0, and of n + 1 when it is of n, is true of every n; the same for sequences.
LEMMA UpTo ==
  ASSUME NEW N \in Nat, NEW Good \in SUBSET (0..N), 0 \in Good,
         \A n \in 0..(N - 1) : n \in Good => n + 1 \in Good
  PROVE  Good = 0..N
<1> DEFINE Bad == (0..N) \ Good
<1> SUFFICES ASSUME Bad # {} PROVE FALSE
  OBVIOUS
<1>1. PICK n \in Bad : \A k \in Bad : n <= k
  <2>1. Bad \subseteq Nat
    OBVIOUS
  <2> HIDE DEF Bad
  <2> QED
    BY <2>1, LeastNatural
<1>2. n \in 1..N
  BY <1>1
<1>3. n - 1 \in 0..(N - 1) /\ n - 1 \notin Bad
  BY <1>1, <1>2
<1>4. (n - 1) + 1 = n
  BY <1>2
<1> QED
  BY <1>1, <1>3, <1>4

\* The same for sequences: what is true of the empty one, and of s with one more, is true of all.
LEMMA OfSequences ==
  ASSUME NEW S, NEW Good \in SUBSET Seq(S), <<>> \in Good,
         \A s \in Good, x \in S : Append(s, x) \in Good
  PROVE  Good = Seq(S)
<1> SUFFICES ASSUME NEW s \in Seq(S) PROVE s \in Good
  OBVIOUS
<1> DEFINE Fine == {n \in 0..Len(s) : SubSeq(s, 1, n) \in Good}
<1>1. Len(s) \in Nat
  OBVIOUS
<1>2. 0 \in Fine
  <2>1. SubSeq(s, 1, 0) = <<>>
    BY SubSeqEmpty
  <2>2. SubSeq(s, 1, 0) \in Good
    BY <2>1
  <2> QED
    BY <1>1, <2>2
<1>3. ASSUME NEW n \in 0..(Len(s) - 1), n \in Fine PROVE n + 1 \in Fine
  <2>0. n + 1 \in 0..Len(s)
    BY <1>1
  <2>1. SubSeq(s, 1, n + 1) = Append(SubSeq(s, 1, n), s[n + 1])
    <3>1. SubSeq(s, 1, n) \in Seq(S)
      <4>1. SubSeq(s, 1, n) \in Good
        BY <1>3
      <4> QED
        BY <4>1
    <3>2. n + 1 \in 1..Len(s) /\ 1 \in 1..Len(s) /\ n + 1 \in 1..Len(s) /\ (n + 1) - 1 = n
      BY <1>1
    <3>4. s[n + 1] \in S
      BY <3>2, ElementOfSeq
    <3>3. SubSeq(s, 1, n + 1) = SubSeq(s, 1, (n + 1) - 1) \o <<s[n + 1]>>
      BY <3>2, SubSeqRecursiveSecond
    <3> QED
      BY <3>1, <3>2, <3>3, <3>4, AppendIsConcat
  <2>2. s[n + 1] \in S
    BY <1>1
  <2> QED
    BY <1>3, <2>0, <2>1, <2>2
<1> HIDE DEF Fine
<1>4. Fine = 0..Len(s)
  <2>1. Fine \subseteq 0..Len(s)
    BY DEF Fine
  <2> QED
    BY <1>1, <1>2, <1>3, <2>1, UpTo
<1>5. SubSeq(s, 1, Len(s)) \in Good
  BY <1>1, <1>4 DEF Fine
<1> QED
  BY <1>5, SubSeqFull

\* A function that is defined from its value before.
Recurs(F, N, first, step) ==
  F[0] = first /\ \A n \in 1..N : F[n] = step[<<n, F[n - 1]>>]

\* A function defined step by step from its value before exists.
LEMMA RecursiveExists ==
  ASSUME NEW N \in Nat, NEW S, NEW first \in S, NEW step \in [(1..N) \X S -> S]
  PROVE  \E F \in [0..N -> S] : Recurs(F, N, first, step)
<1> DEFINE Has(n) == \E F \in [0..n -> S] : Recurs(F, n, first, step)
           Good == {n \in 0..N : Has(n)}
<1>1. 0 \in Good
  <2>1. [n \in 0..0 |-> first] \in [0..0 -> S] /\ Recurs([n \in 0..0 |-> first], 0, first, step)
    BY DEF Recurs
  <2> QED
    BY <2>1
<1>2. ASSUME NEW n \in 0..(N - 1), n \in Good PROVE n + 1 \in Good
  <2>1. PICK F \in [0..n -> S] : Recurs(F, n, first, step)
    BY <1>2
  <2> DEFINE G == [i \in 0..(n + 1) |-> IF i = n + 1 THEN step[<<n + 1, F[n]>>] ELSE F[i]]
  <2>2. step[<<n + 1, F[n]>>] \in S /\ n + 1 \in 0..N
    <3>1. <<n + 1, F[n]>> \in (1..N) \X S
      OBVIOUS
    <3> QED
      BY <3>1
  <2>3. \A i \in 0..n : G[i] = F[i] /\ G[i] \in S
    OBVIOUS
  <2>4. G[n + 1] = step[<<n + 1, F[n]>>]
    OBVIOUS
  <2>5. G \in [0..(n + 1) -> S]
    BY <2>2, <2>3
  <2> HIDE DEF G
  <2>6. ASSUME NEW i \in 1..(n + 1) PROVE G[i] = step[<<i, G[i - 1]>>]
    <3>1. i - 1 \in 0..n
      OBVIOUS
    <3>2. CASE i = n + 1
      BY <2>3, <2>4, <3>1, <3>2
    <3>3. CASE i # n + 1
      BY <2>1, <2>3, <3>1, <3>3 DEF Recurs
    <3> QED
      BY <3>2, <3>3
  <2>7. Recurs(G, n + 1, first, step)
    BY <2>1, <2>3, <2>6 DEF Recurs
  <2> QED
    BY <2>2, <2>5, <2>7
<1> HIDE DEF Good
<1>3. Good = 0..N
  <2>1. Good \subseteq 0..N
    BY DEF Good
  <2> QED
    BY <1>1, <1>2, <2>1, UpTo
<1> QED
  BY <1>3 DEF Good

\* Two of them agree as far as their steps do.
StepsAgree(F, G, N) ==
  F[0] = G[0] /\ \A n \in 1..N : F[n - 1] = G[n - 1] => F[n] = G[n]

\* There is one such function at most.
LEMMA RecursiveAgree ==
  ASSUME NEW N \in Nat, NEW F, NEW G, StepsAgree(F, G, N)
  PROVE  \A n \in 0..N : F[n] = G[n]
<1> USE DEF StepsAgree
<1> DEFINE Good == {n \in 0..N : F[n] = G[n]}
<1>1. 0 \in Good
  OBVIOUS
<1>2. ASSUME NEW n \in 0..(N - 1), n \in Good PROVE n + 1 \in Good
  <2>1. n + 1 \in 1..N /\ (n + 1) - 1 = n /\ n + 1 \in 0..N
    OBVIOUS
  <2> QED
    BY <1>2, <2>1
<1> HIDE DEF Good
<1>3. Good = 0..N
  <2>1. Good \subseteq 0..N
    BY DEF Good
  <2> QED
    BY <1>1, <1>2, <2>1, UpTo
<1> QED
  BY <1>3 DEF Good

---------------------------------------------------------------------------
(* The items that are whole *)

Kept(item, before) == IF Streaming(item) THEN before ELSE Append(before, item)

Keeping(items, F) ==
  /\ F \in [0..Len(items) -> Seq(Items)]
  /\ F[0] = <<>>
  /\ \A n \in 1..Len(items) : F[n] = Kept(items[n], F[n - 1])

\* The recursive function that Whole is defined by.
LEMMA WholeKeeps ==
  ASSUME NEW items \in Seq(Items)
  PROVE  \E F : Keeping(items, F) /\ Whole(items) = F[Len(items)]
<1> DEFINE N == Len(items)
           Body(F) == [n \in 0..Len(items) |->
             IF n = 0 THEN <<>>
             ELSE IF Streaming(items[n]) THEN F[n - 1] ELSE Append(F[n - 1], items[n])]
           K == CHOOSE F : F = Body(F)
           step == [p \in (1..N) \X Seq(Items) |-> Kept(items[p[1]], p[2])]
<1>1. N \in Nat
  OBVIOUS
<1>2. \A n \in 1..N : items[n] \in Items
  OBVIOUS
<1>3. \A n \in 1..N, s \in Seq(Items) : step[<<n, s>>] = Kept(items[n], s) /\ Kept(items[n], s) \in Seq(Items)
  BY <1>2 DEF Kept
<1>4. step \in [(1..N) \X Seq(Items) -> Seq(Items)]
  BY <1>3
<1>5. <<>> \in Seq(Items)
  OBVIOUS
<1> HIDE DEF step
<1>6. PICK F \in [0..N -> Seq(Items)] : Recurs(F, N, <<>>, step)
  BY <1>1, <1>4, <1>5, RecursiveExists
<1>7. F[0] = <<>> /\ \A n \in 1..N : F[n] = Kept(items[n], F[n - 1])
  <2>1. \A n \in 1..N : n - 1 \in 0..N /\ F[n - 1] \in Seq(Items)
    BY <1>6
  <2> QED
    BY <1>3, <1>6, <2>1 DEF Recurs
<1>8. F = Body(F)
  <2>1. ASSUME NEW n \in 0..N PROVE F[n] = Body(F)[n]
    <3>1. CASE n = 0
      BY <1>7, <3>1
    <3>2. CASE n # 0
      <4>1. n \in 1..N
        BY <3>2
      <4>2. Body(F)[n] = Kept(items[n], F[n - 1])
        BY <3>2 DEF Kept
      <4> HIDE DEF Body
      <4> QED
        BY <1>7, <4>1, <4>2
    <3> QED
      BY <3>1, <3>2
  <2>2. F = [n \in 0..N |-> F[n]]
    BY <1>6
  <2>3. Body(F) = [n \in 0..N |-> Body(F)[n]]
    OBVIOUS
  <2> HIDE DEF Body
  <2> QED
    BY <2>1, <2>2, <2>3
<1>9. K = Body(K)
  BY <1>8
<1>10. Whole(items) = K[N]
  BY DEF Whole
<1> HIDE DEF K
<1>11. \A n \in 0..N : K[n] = F[n]
  <2>1. K[0] = F[0]
    BY <1>1, <1>7, <1>9
  <2>2. \A n \in 1..N : Body(K)[n] = Kept(items[n], K[n - 1])
    BY <1>1 DEF Kept
  <2> HIDE DEF Body
  <2>3. \A n \in 1..N : K[n - 1] = F[n - 1] => K[n] = F[n]
    BY <1>7, <1>9, <2>2
  <2> HIDE DEF N
  <2>4. StepsAgree(K, F, N)
    BY <2>1, <2>3 DEF StepsAgree
  <2> QED
    BY <1>1, <2>4, RecursiveAgree
<1> QED
  BY <1>1, <1>6, <1>7, <1>10, <1>11 DEF Keeping

\* The whole items are items.
LEMMA WholeIsItems == ASSUME NEW items \in Seq(Items) PROVE Whole(items) \in Seq(Items)
BY WholeKeeps DEF Keeping

\* Of no items none is whole.
LEMMA WholeOfNone == Whole(<<>>) = <<>>
<1>1. <<>> \in Seq(Items) /\ Len(<<>>) = 0
  OBVIOUS
<1> QED
  BY <1>1, WholeKeeps DEF Keeping

\* One more item is kept unless it streams.
LEMMA WholeOfMore ==
  ASSUME NEW items \in Seq(Items), NEW item \in Items
  PROVE  Whole(Append(items, item)) = Kept(item, Whole(items))
<1> DEFINE more == Append(items, item)
           N == Len(items)
<1>1. /\ more \in Seq(Items) /\ Len(more) = N + 1 /\ N \in Nat
      /\ more[N + 1] = item /\ \A n \in 1..N : more[n] = items[n]
  OBVIOUS
<1> HIDE DEF more
<1>2. PICK F : Keeping(items, F) /\ Whole(items) = F[Len(items)]
  BY WholeKeeps
<1>3. PICK G : Keeping(more, G) /\ Whole(more) = G[Len(more)]
  BY <1>1, WholeKeeps
<1>4. F[0] = G[0]
  BY <1>2, <1>3 DEF Keeping
<1>5. \A n \in 1..N : F[n - 1] = G[n - 1] => F[n] = G[n]
  BY <1>1, <1>2, <1>3 DEF Keeping
<1>6. F[N] = G[N]
  <2> HIDE DEF N
  <2>1. StepsAgree(F, G, N)
    BY <1>4, <1>5 DEF StepsAgree
  <2>2. \A n \in 0..N : F[n] = G[n]
    BY <1>1, <2>1, RecursiveAgree
  <2> QED
    BY <1>1, <2>2
<1>7. G[N + 1] = Kept(item, G[N])
  <2>1. N + 1 \in 1..Len(more) /\ (N + 1) - 1 = N
    BY <1>1
  <2> QED
    BY <1>1, <1>3, <2>1 DEF Keeping
<1> QED
  BY <1>1, <1>2, <1>3, <1>6, <1>7 DEF more

\* Nothing that streams is left, and of what does not stream nothing is lost.
Has(items, item) == \E i \in DOMAIN items : items[i] = item

\* One more item adds itself and nothing else.
LEMMA HasMore ==
  ASSUME NEW items \in Seq(Items), NEW item \in Items
  PROVE  \A x : Has(Append(items, item), x) <=> Has(items, x) \/ x = item
<1> DEFINE more == Append(items, item)
<1>1. /\ DOMAIN more = DOMAIN items \cup {Len(items) + 1}
      /\ more[Len(items) + 1] = item /\ \A n \in DOMAIN items : more[n] = items[n]
  OBVIOUS
<1> HIDE DEF more
<1>2. \A x : Has(more, x) <=> Has(items, x) \/ x = item
  BY <1>1 DEF Has
<1> QED
  BY <1>2 DEF more

\* The whole items are those that do not stream.
LEMMA WholeHas ==
  ASSUME NEW items \in Seq(Items)
  PROVE  \A x : Has(Whole(items), x) <=> Has(items, x) /\ ~Streaming(x)
<1> DEFINE Good == {s \in Seq(Items) : \A x : Has(Whole(s), x) <=> Has(s, x) /\ ~Streaming(x)}
<1>1. <<>> \in Good
  BY WholeOfNone DEF Has
<1>2. ASSUME NEW s \in Good, NEW item \in Items PROVE Append(s, item) \in Good
  <2> DEFINE more == Append(s, item)
  <2>1. s \in Seq(Items) /\ Whole(s) \in Seq(Items)
    BY <1>2, WholeIsItems
  <2>2. Whole(more) = Kept(item, Whole(s))
    BY <2>1, WholeOfMore
  <2>3. \A x : Has(more, x) <=> Has(s, x) \/ x = item
    BY <2>1, HasMore
  <2>4. \A x : Has(Whole(s), x) <=> Has(s, x) /\ ~Streaming(x)
    BY <1>2
  <2>5. CASE Streaming(item)
    <3>1. Whole(more) = Whole(s)
      BY <2>2, <2>5 DEF Kept
    <3>2. more \in Seq(Items)
      BY <2>1
    <3> HIDE DEF more
    <3>3. \A x : Has(Whole(more), x) <=> Has(more, x) /\ ~Streaming(x)
      BY <2>3, <2>4, <2>5, <3>1
    <3> QED
      BY <3>2, <3>3 DEF more
  <2>6. CASE ~Streaming(item)
    <3>1. Whole(more) = Append(Whole(s), item)
      BY <2>2, <2>6 DEF Kept
    <3>2. more \in Seq(Items)
      BY <2>1
    <3>3. \A x : Has(Whole(more), x) <=> Has(Whole(s), x) \/ x = item
      BY <2>1, <3>1, HasMore
    <3> HIDE DEF more
    <3>4. \A x : Has(Whole(more), x) <=> Has(more, x) /\ ~Streaming(x)
      BY <2>3, <2>4, <2>6, <3>3
    <3> QED
      BY <3>2, <3>4 DEF more
  <2> QED
    BY <2>5, <2>6
<1>3. Good \subseteq Seq(Items)
  OBVIOUS
<1> HIDE DEF Good
<1>4. Good = Seq(Items)
  BY <1>1, <1>2, <1>3, OfSequences
<1> QED
  BY <1>4 DEF Good

\* Where nothing streams, all of it is whole.
LEMMA WholeOfWhole ==
  ASSUME NEW items \in Seq(Items), \A i \in DOMAIN items : ~Streaming(items[i])
  PROVE  Whole(items) = items
<1> DEFINE Good == {s \in Seq(Items) : (\A i \in DOMAIN s : ~Streaming(s[i])) => Whole(s) = s}
<1>1. <<>> \in Good
  BY WholeOfNone
<1>2. ASSUME NEW s \in Good, NEW x \in Items PROVE Append(s, x) \in Good
  <2> DEFINE more == Append(s, x)
  <2>1. /\ more \in Seq(Items) /\ DOMAIN more = DOMAIN s \cup {Len(s) + 1}
        /\ more[Len(s) + 1] = x /\ \A n \in DOMAIN s : more[n] = s[n]
    OBVIOUS
  <2>2. Whole(more) = Kept(x, Whole(s))
    BY <1>2, WholeOfMore
  <2> HIDE DEF more
  <2>3. (\A i \in DOMAIN more : ~Streaming(more[i])) => Whole(more) = Append(s, x)
    BY <1>2, <2>1, <2>2 DEF Kept
  <2> QED
    BY <2>1, <2>3 DEF more
<1>3. Good \subseteq Seq(Items)
  OBVIOUS
<1> HIDE DEF Good
<1>4. Good = Seq(Items)
  BY <1>1, <1>2, <1>3, OfSequences
<1> QED
  BY <1>4 DEF Good

---------------------------------------------------------------------------
(* The last item, and the steps that take a result *)

\* A transcript that is not empty is its front and its last item.
LEMMA FrontAndLast ==
  ASSUME NEW items \in Seq(Items), items # <<>>
  PROVE  Front(items) \in Seq(Items) /\ Last(items) \in Items /\ items = Append(Front(items), Last(items))
<1> DEFINE front == SubSeq(items, 1, Len(items) - 1)
           last == items[Len(items)]
<1>1. Len(items) \in 1..Len(items)
  OBVIOUS
<1>2. last \in Items /\ front \in Seq(Items)
  BY <1>1
<1>3. SubSeq(items, 1, Len(items)) = front \o <<last>>
  <2>1. 1 \in 1..Len(items) /\ Len(items) \in 1..Len(items)
    BY <1>1
  <2> QED
    BY <2>1, SubSeqRecursiveSecond
<1>4. items = Append(front, last)
  BY <1>2, <1>3, SubSeqFull, AppendIsConcat
<1> QED
  BY <1>2, <1>4 DEF Front, Last

\* The front and the last item of a transcript with one more.
LEMMA AppendEnds ==
  ASSUME NEW items \in Seq(Items), NEW item \in Items
  PROVE  /\ Append(items, item) \in Seq(Items) \ {<<>>}
         /\ Last(Append(items, item)) = item /\ Front(Append(items, item)) = items
<1> DEFINE more == Append(items, item)
<1>1. more \in Seq(Items) /\ more # <<>> /\ Len(more) = Len(items) + 1 /\ more[Len(items) + 1] = item
  OBVIOUS
<1>2. more = Append(Front(more), Last(more)) /\ Front(more) \in Seq(Items) /\ Last(more) \in Items
  BY <1>1, FrontAndLast
<1>3. Front(more) = items /\ Last(more) = item
  BY <1>2, AppendInjective
<1> QED
  BY <1>1, <1>3

\* The whole items by the last one: it goes if it streams and stays last if not.
LEMMA WholeOfLast ==
  ASSUME NEW items \in Seq(Items), items # <<>>
  PROVE  /\ Whole(items) = Kept(Last(items), Whole(Front(items)))
         /\ ~Streaming(Last(items)) =>
              Whole(items) # <<>> /\ Last(Whole(items)) = Last(items) /\ Front(Whole(items)) = Whole(Front(items))
<1>1. Whole(items) = Kept(Last(items), Whole(Front(items)))
  BY FrontAndLast, WholeOfMore
<1>2. Whole(Front(items)) \in Seq(Items) /\ Last(items) \in Items
  BY FrontAndLast, WholeIsItems
<1> QED
  BY <1>1, <1>2, AppendEnds DEF Kept

\* Putting an item in the place of one that streams is adding it, of what is whole.
LEMMA WholeReplaced ==
  ASSUME NEW items \in Seq(Items), Streams(items), NEW item \in Items
  PROVE  Replaced(items, item) \in Seq(Items) /\ Whole(Replaced(items, item)) = Kept(item, Whole(items))
<1>1. items # <<>> /\ Streaming(Last(items))
  BY DEF Streams, Streaming
<1>2. Whole(items) = Whole(Front(items))
  BY <1>1, WholeOfLast DEF Kept
<1>3. Front(items) \in Seq(Items)
  BY <1>1, FrontAndLast
<1> QED
  BY <1>2, <1>3, WholeOfMore DEF Replaced

\* The item with the result taken.
Took(item, event) == [item EXCEPT !.steps = [j \in DOMAIN item.steps |-> Settled(item.steps[j], event)]]

\* A group of steps that takes a result stays a group of steps.
LEMMA TookIsItem ==
  ASSUME NEW item \in Items, NEW event \in Events, item.type = "steps"
  PROVE  Took(item, event) \in Items /\ Took(item, event).type = "steps"
<1>1. item \in [type : {"steps"}, seq : Nat, steps : Seq(StepRecords)]
  BY DEF Items
<1> DEFINE steps == [j \in DOMAIN item.steps |-> Settled(item.steps[j], event)]
<1>2. event.ok = "ok"
  BY DEF Events
<1>3. \A j \in DOMAIN item.steps : Settled(item.steps[j], event) \in StepRecords
  <2>1. \A step \in StepRecords : Settled(step, event) \in StepRecords
    BY <1>2 DEF Settled, StepRecords
  <2>2. \A j \in DOMAIN item.steps : item.steps[j] \in StepRecords
    BY <1>1
  <2> QED
    BY <2>1, <2>2
<1>4. steps \in Seq(StepRecords)
  <2>1. Len(item.steps) \in Nat /\ DOMAIN item.steps = 1..Len(item.steps)
    BY <1>1
  <2>2. steps \in [1..Len(item.steps) -> StepRecords]
    BY <1>3, <2>1
  <2> HIDE DEF steps
  <2> QED
    BY <2>1, <2>2, SeqDef
<1> HIDE DEF steps
<1>5. [item EXCEPT !.steps = steps] \in [type : {"steps"}, seq : Nat, steps : Seq(StepRecords)]
  BY <1>1, <1>4
<1>6. Took(item, event) \in [type : {"steps"}, seq : Nat, steps : Seq(StepRecords)]
  BY <1>5 DEF Took, steps
<1> QED
  BY <1>6 DEF Items

\* Which steps take the result.
Holding(items, event) == {i \in 1..Len(items) : Holds(items[i], event)}

\* A set of places in a sequence has a greatest one.
LEMMA Greatest ==
  ASSUME NEW N \in Nat, NEW S \in SUBSET (1..N), S # {}
  PROVE  \E m \in S : \A n \in S : n <= m
<1> DEFINE below == {N - n : n \in S}
<1>1. below \in SUBSET Nat /\ below # {}
  <2>1. \A n \in S : N - n \in Nat
    OBVIOUS
  <2> QED
    BY <2>1
<1>2. PICK k \in below : \A j \in below : k <= j
  <2> HIDE DEF below
  <2> QED
    BY <1>1, LeastNatural
<1>3. PICK m \in S : k = N - m
  BY <1>2
<1>4. \A n \in S : N - m <= N - n
  BY <1>2, <1>3
<1> QED
  BY <1>4

IsGreatest(m, S) == m \in S /\ \A n \in S : n <= m

\* A result goes to the last group that holds its step, and nowhere if none does.
LEMMA ResultIs ==
  ASSUME NEW items \in Seq(Items), NEW event
  PROVE  /\ Holding(items, event) = {} => WithResult(items, event) = items
         /\ \A i : IsGreatest(i, Holding(items, event)) =>
                 WithResult(items, event) = [items EXCEPT ![i] = Took(items[i], event)]
<1> DEFINE S == Holding(items, event)
           last == SelectLastInSeq(items, LAMBDA item : Holds(item, event))
<1>1. last = IF S # {} THEN Max(S) ELSE 0
  BY DEF SelectLastInSeq, Holding
<1>2. WithResult(items, event) =
        IF last = 0 THEN items
        ELSE [items EXCEPT ![last].steps = [j \in DOMAIN @ |-> Settled(@[j], event)]]
  BY DEF WithResult
<1>3. S \subseteq 1..Len(items) /\ Len(items) \in Nat
  BY DEF Holding
<1> HIDE DEF last, S
<1>4. CASE S = {}
  BY <1>1, <1>2, <1>4 DEF S, IsGreatest
<1>5. ASSUME NEW i, IsGreatest(i, S)
      PROVE  WithResult(items, event) = [items EXCEPT ![i] = Took(items[i], event)]
  <2>1. i \in S /\ i # 0
    BY <1>3, <1>5 DEF IsGreatest
  <2>2. Max(S) = i
    <3>1. /\ \A y \in S : i >= y
          /\ \A x \in S : (\A y \in S : x >= y) => x = i
      BY <1>3, <1>5 DEF IsGreatest
    <3> QED
      BY <2>1, <3>1 DEF Max
  <2>3. last = i /\ last # 0
    BY <1>1, <2>1, <2>2
  <2> QED
    BY <1>2, <2>3 DEF Took
<1> QED
  BY <1>4, <1>5 DEF S, IsGreatest

\* With one more item, that group is the new item or it is where it was.
LEMMA ResultOfMore ==
  ASSUME NEW items \in Seq(Items), NEW item \in Items, NEW event \in Events
  PROVE  WithResult(Append(items, item), event) =
           IF Holds(item, event) THEN Append(items, Took(item, event))
           ELSE Append(WithResult(items, event), item)
<1> DEFINE more == Append(items, item)
           N == Len(items)
<1>1. /\ more \in Seq(Items) /\ Len(more) = N + 1 /\ N \in Nat
      /\ more[N + 1] = item /\ \A n \in 1..N : more[n] = items[n]
  OBVIOUS
<1>2. Holding(items, event) \subseteq 1..N
  BY DEF Holding
<1> HIDE DEF more
<1>3. CASE Holds(item, event)
  <2>1. IsGreatest(N + 1, Holding(more, event))
    BY <1>1, <1>3 DEF IsGreatest, Holding
  <2>2. WithResult(more, event) = [more EXCEPT ![N + 1] = Took(item, event)]
    BY <1>1, <2>1, ResultIs
  <2>3. Took(item, event) \in Items
    BY <1>3, TookIsItem DEF Holds
  <2> DEFINE one == [more EXCEPT ![N + 1] = Took(item, event)]
             two == Append(items, Took(item, event))
  <2>4. /\ one \in Seq(Items) /\ Len(one) = N + 1
        /\ \A n \in 1..(N + 1) : one[n] = IF n = N + 1 THEN Took(item, event) ELSE more[n]
    BY <1>1, <2>3, ExceptSeq
  <2>5. /\ two \in Seq(Items) /\ Len(two) = N + 1
        /\ two[N + 1] = Took(item, event) /\ \A n \in 1..N : two[n] = items[n]
    BY <1>1, <2>3, AppendProperties
  <2> HIDE DEF one, two
  <2>6. \A n \in 1..(N + 1) : one[n] = two[n]
    BY <1>1, <2>4, <2>5
  <2>7. one = two
    BY <2>4, <2>5, <2>6, SeqEqual
  <2> QED
    BY <1>3, <2>2, <2>7 DEF one, two, more
<1>4. CASE ~Holds(item, event)
  <2>1. Holding(more, event) = Holding(items, event)
    BY <1>1, <1>4 DEF Holding
  <2>2. CASE Holding(items, event) = {}
    BY <1>1, <1>4, <2>1, <2>2, ResultIs DEF more
  <2>3. CASE Holding(items, event) # {}
    <3>1. PICK i : IsGreatest(i, Holding(items, event))
      BY <1>1, <1>2, <2>3, Greatest DEF IsGreatest
    <3> DEFINE took == Took(items[i], event)
               base == [items EXCEPT ![i] = took]
               one == [more EXCEPT ![i] = took]
               two == Append(base, item)
    <3>2. i \in 1..N /\ Holds(items[i], event) /\ items[i] \in Items
      BY <1>1, <3>1 DEF IsGreatest, Holding
    <3>3. took \in Items
      BY <3>2, TookIsItem DEF Holds
    <3>4. WithResult(items, event) = base /\ WithResult(more, event) = one
      BY <1>1, <2>1, <3>1, <3>2, ResultIs
    <3> HIDE DEF took
    <3>5. base \in Seq(Items) /\ Len(base) = N /\ \A n \in 1..N : base[n] = IF n = i THEN took ELSE items[n]
      BY <1>1, <3>2, <3>3, ExceptSeq
    <3>6. one \in Seq(Items) /\ Len(one) = N + 1 /\ \A n \in 1..(N + 1) : one[n] = IF n = i THEN took ELSE more[n]
      <4>1. i \in 1..Len(more)
        BY <1>1, <3>2
      <4> QED
        BY <1>1, <3>3, <4>1, ExceptSeq
    <3> HIDE DEF base, one
    <3>7. two \in Seq(Items) /\ Len(two) = N + 1 /\ two[N + 1] = item /\ \A n \in 1..N : two[n] = base[n]
      BY <3>5, AppendProperties
    <3> HIDE DEF two
    <3>8. \A n \in 1..(N + 1) : one[n] = two[n]
      BY <1>1, <3>2, <3>5, <3>6, <3>7
    <3>9. one = two
      BY <3>6, <3>7, <3>8, SeqEqual
    <3> QED
      BY <1>4, <3>4, <3>9 DEF two, more
  <2> QED
    BY <2>2, <2>3
<1> QED
  BY <1>3, <1>4

\* Without items a result goes nowhere.
LEMMA ResultOfNone == ASSUME NEW event PROVE WithResult(<<>>, event) = <<>>
<1>1. <<>> \in Seq(Items) /\ Holding(<<>>, event) = {}
  BY DEF Holding
<1> QED
  BY <1>1, ResultIs

\* Taking a result and leaving out what streams are done in any order.
LEMMA WholeResult ==
  ASSUME NEW items \in Seq(Items), NEW event \in Events
  PROVE  /\ WithResult(items, event) \in Seq(Items)
         /\ Whole(WithResult(items, event)) = WithResult(Whole(items), event)
         /\ Streams(WithResult(items, event)) => Streams(items)
<1> DEFINE R(s) == WithResult(s, event)
           P(s) == /\ R(s) \in Seq(Items) /\ Whole(R(s)) = R(Whole(s))
                   /\ Streams(R(s)) => Streams(s)
           Good == {s \in Seq(Items) : P(s)}
<1>1. <<>> \in Good
  <2>0. R(<<>>) = <<>>
    BY ResultOfNone
  <2>1. <<>> \in Seq(Items) /\ P(<<>>)
    <3>1. <<>> \in Seq(Items)
      OBVIOUS
    <3> HIDE DEF R
    <3> QED
      BY <2>0, <3>1, WholeOfNone
  <2> HIDE DEF P
  <2> QED
    BY <2>1
<1>2. ASSUME NEW s \in Good, NEW item \in Items PROVE Append(s, item) \in Good
  <2> DEFINE more == Append(s, item)
  <2>1. /\ s \in Seq(Items) /\ R(s) \in Seq(Items) /\ Whole(R(s)) = R(Whole(s))
        /\ Whole(s) \in Seq(Items) /\ more \in Seq(Items)
    <3>1. s \in Seq(Items) /\ P(s)
      <4> HIDE DEF P
      <4> QED
        BY <1>2
    <3> QED
      BY <3>1, WholeIsItems
  <2>2. /\ Last(more) = item /\ more # <<>>
        /\ \A x \in Items : Last(Append(s, x)) = x /\ Append(s, x) \in Seq(Items)
                            /\ Last(Append(R(s), x)) = x /\ Append(R(s), x) \in Seq(Items)
    BY <2>1, AppendEnds
  <2>3. ASSUME Holds(item, event) PROVE P(more)
    <3>1. item.type = "steps" /\ ~Streaming(item)
      BY <2>3 DEF Holds, Streaming
    <3>2. Took(item, event) \in Items /\ Took(item, event).type = "steps"
      BY <3>1, TookIsItem
    <3>3. ~Streaming(Took(item, event))
      BY <3>2 DEF Streaming
    <3>4. R(more) = Append(s, Took(item, event))
      BY <2>1, <2>3, ResultOfMore
    <3>5. Whole(R(more)) = Append(Whole(s), Took(item, event))
      BY <2>1, <3>2, <3>3, <3>4, WholeOfMore DEF Kept
    <3>6. Whole(more) = Append(Whole(s), item)
      BY <2>1, <3>1, WholeOfMore DEF Kept
    <3>7. R(Whole(more)) = Append(Whole(s), Took(item, event))
      BY <2>1, <2>3, <3>6, ResultOfMore
    <3>8. ~Streams(R(more)) /\ R(more) \in Seq(Items)
      BY <2>2, <3>2, <3>4 DEF Streams
    <3> QED
      BY <3>5, <3>7, <3>8
  <2>4. ASSUME ~Holds(item, event) PROVE P(more)
    <3>1. R(more) = Append(R(s), item)
      BY <2>1, <2>4, ResultOfMore
    <3>2. Whole(R(more)) = Kept(item, Whole(R(s)))
      BY <2>1, <3>1, WholeOfMore
    <3>3. Whole(more) = Kept(item, Whole(s))
      BY <2>1, WholeOfMore
    <3>4. R(Whole(more)) = Kept(item, R(Whole(s)))
      BY <2>1, <2>4, <3>3, ResultOfMore DEF Kept
    <3>5. (Streams(R(more)) => Streams(more)) /\ R(more) \in Seq(Items)
      BY <2>2, <3>1 DEF Streams
    <3> QED
      BY <2>1, <3>2, <3>4, <3>5
  <2>5. P(more)
    BY <2>3, <2>4
  <2> HIDE DEF P, more
  <2> QED
    BY <2>1, <2>5 DEF more
<1>3. Good \subseteq Seq(Items)
  OBVIOUS
<1> HIDE DEF P
<1>4. P(items)
  <2> HIDE DEF Good
  <2>1. Good = Seq(Items)
    BY <1>1, <1>2, <1>3, OfSequences
  <2> QED
    BY <2>1 DEF Good
<1> QED
  BY <1>4 DEF P

---------------------------------------------------------------------------
(* One event *)

\* What an event adds to the transcript is an item.
LEMMA NewItems ==
  ASSUME NEW event \in Events
  PROVE  /\ User(event) \in Items /\ ~Streaming(User(event))
         /\ \A text \in Seq(Nat), streaming \in BOOLEAN :
              Said(event, text, streaming) \in Items /\ (Streaming(Said(event, text, streaming)) <=> streaming)
         /\ Ran(event, <<Step(event)>>) \in Items /\ ~Streaming(Ran(event, <<Step(event)>>))
         /\ Recorded(event) \in Items /\ ~Streaming(Recorded(event))
<1>1. event.seq \in Nat /\ event.id \in Nat /\ event.nested \in BOOLEAN
  BY DEF Events
<1>2. User(event) \in Items /\ ~Streaming(User(event))
  BY <1>1 DEF Items, User, Streaming
<1>3. ASSUME NEW text \in Seq(Nat), NEW streaming \in BOOLEAN
      PROVE  Said(event, text, streaming) \in Items /\ (Streaming(Said(event, text, streaming)) <=> streaming)
  BY <1>1 DEF Items, Said, Streaming
<1>4. Ran(event, <<Step(event)>>) \in Items /\ ~Streaming(Ran(event, <<Step(event)>>))
  <2>1. Step(event) \in StepRecords
    BY <1>1 DEF Step, StepRecords
  <2>2. <<Step(event)>> \in Seq(StepRecords)
    BY <2>1
  <2> QED
    BY <1>1, <2>2 DEF Items, Ran, Streaming
<1>5. Recorded(event) \in Items /\ ~Streaming(Recorded(event))
  BY <1>1 DEF Items, Recorded, Streaming
<1> QED
  BY <1>2, <1>3, <1>4, <1>5

\* A list whose last item is a new one, and what was whole before.
LEMMA ItemAdded ==
  ASSUME NEW items \in Seq(Items), NEW item \in Items
  PROVE  /\ Append(items, item) \in Seq(Items)
         /\ Whole(Append(items, item)) = Kept(item, Whole(items))
         /\ Streams(Append(items, item)) <=> Streaming(item)
BY WholeOfMore, AppendEnds DEF Streams, Streaming

\* Adding an item that does not stream.
LEMMA StillAdded ==
  ASSUME NEW items \in Seq(Items), NEW item \in Items, ~Streaming(item)
  PROVE  /\ Append(items, item) \in Seq(Items)
         /\ Whole(Append(items, item)) = Append(Whole(items), item)
         /\ ~Streams(Append(items, item))
BY ItemAdded DEF Kept

\* Putting an item in the place of the last one.
LEMMA ItemReplaced ==
  ASSUME NEW items \in Seq(Items), items # <<>>, NEW item \in Items
  PROVE  /\ Replaced(items, item) \in Seq(Items)
         /\ Whole(Replaced(items, item)) = Kept(item, Whole(Front(items)))
         /\ Streams(Replaced(items, item)) <=> Streaming(item)
BY FrontAndLast, ItemAdded DEF Replaced

\* What is whole does not stream.
LEMMA WholeStill == ASSUME NEW items \in Seq(Items) PROVE ~Streams(Whole(items))
<1> DEFINE whole == Whole(items)
<1>1. whole \in Seq(Items)
  BY WholeIsItems
<1> HIDE DEF whole
<1>2. whole # <<>> => Has(whole, Last(whole))
  BY <1>1 DEF Has, Last
<1>3. whole # <<>> => ~Streaming(Last(whole))
  BY <1>2, WholeHas DEF whole
<1> QED
  BY <1>3 DEF Streams, Streaming, whole

\* The next item is drawn alike whether messages that stream are left out before it or after
\* it, unless it depends on a last item that streams.
LEMMA WholeWithItem ==
  ASSUME NEW items \in Seq(Items), NEW event \in Events,
         Streams(items) => event.kind \in {"delta", "text", "status", "user"}
  PROVE  /\ WithItem(items, event) \in Seq(Items)
         /\ Whole(WithItem(items, event)) =
              IF event.kind = "delta" THEN Whole(items) ELSE WithItem(Whole(items), event)
         /\ Streams(WithItem(items, event)) => event.kind = "delta" \/ (Streams(items) /\ event.kind = "status")
<1> DEFINE whole == Whole(items)
           kind == event.kind
<1>1. whole \in Seq(Items) /\ ~Streams(whole)
  BY WholeIsItems, WholeStill
<1>2. ~event.nested /\ event.text \in Seq(Nat)
  BY DEF Events
<1>3. Streams(items) => /\ items # <<>> /\ Last(items) \in Items /\ Streaming(Last(items))
                        /\ whole = Whole(Front(items))
  <2>1. Streams(items) => items # <<>> /\ Last(items) \in Items /\ Streaming(Last(items))
    BY FrontAndLast DEF Streams, Streaming
  <2> QED
    BY <2>1, WholeOfLast DEF Kept
<1> HIDE DEF whole
<1>4. CASE kind = "user"
  <2>1. /\ WithItem(items, event) = Append(items, User(event))
        /\ WithItem(whole, event) = Append(whole, User(event))
    BY <1>4 DEF WithItem
  <2>2. User(event) \in Items /\ ~Streaming(User(event))
    BY NewItems
  <2> QED
    BY <1>4, <2>1, <2>2, StillAdded DEF whole
<1>5. CASE kind = "delta"
  <2>1. CASE Streams(items)
    <3> DEFINE last == Last(items)
               item == [last EXCEPT !.text = last.text \o event.text]
    <3>1. WithItem(items, event) = Replaced(items, item)
      BY <1>2, <1>5, <2>1 DEF WithItem
    <3>2. item \in Items /\ Streaming(item)
      <4>1. last \in [type : {"assistant"}, seq : Nat, text : Seq(Nat), streaming : BOOLEAN] /\ last.streaming
        BY <1>3, <2>1 DEF Items, Streaming
      <4> HIDE DEF last
      <4>2. last.text \o event.text \in Seq(Nat)
        BY <1>2, <4>1
      <4>3. item \in [type : {"assistant"}, seq : Nat, text : Seq(Nat), streaming : BOOLEAN] /\ item.streaming = last.streaming
        BY <4>1, <4>2
      <4> HIDE DEF item
      <4> QED
        BY <4>1, <4>3 DEF Items, Streaming
    <3> HIDE DEF item
    <3>3. items # <<>> /\ whole = Whole(Front(items))
      BY <1>3, <2>1
    <3>4. Replaced(items, item) \in Seq(Items) /\ Whole(Replaced(items, item)) = whole
      BY <3>2, <3>3, ItemReplaced DEF Kept
    <3> QED
      BY <1>5, <3>1, <3>4 DEF whole
  <2>2. CASE ~Streams(items)
    <3>1. WithItem(items, event) = Append(items, Said(event, event.text, TRUE))
      BY <1>2, <1>5, <2>2 DEF WithItem
    <3> DEFINE item == Said(event, event.text, TRUE)
    <3>2. item \in Items /\ Streaming(item)
      BY <1>2, NewItems
    <3> HIDE DEF item
    <3>3. Append(items, item) \in Seq(Items) /\ Whole(Append(items, item)) = whole
      BY <3>2, ItemAdded DEF Kept, whole
    <3> QED
      BY <1>5, <3>1, <3>3 DEF item, whole
  <2> QED
    BY <2>1, <2>2
<1>6. CASE kind = "text"
  <2> DEFINE item == Said(event, event.text, FALSE)
  <2>1. item \in Items /\ ~Streaming(item)
    BY <1>2, NewItems
  <2>2. WithItem(whole, event) = Append(whole, item)
    BY <1>1, <1>2, <1>6 DEF WithItem
  <2>3. WithItem(items, event) = IF Streams(items) THEN Replaced(items, item) ELSE Append(items, item)
    BY <1>2, <1>6 DEF WithItem
  <2> HIDE DEF item
  <2> QED
    BY <1>3, <1>6, <2>1, <2>2, <2>3, ItemAdded, ItemReplaced DEF Kept, whole
<1>7. CASE kind = "tool"
  <2>1. ~Streams(items)
    BY <1>7
  <2>2. CASE Steps(items)
    <3> DEFINE last == Last(items)
               item == [last EXCEPT !.steps = Append(last.steps, Step(event))]
    <3>1. items # <<>> /\ last \in Items /\ last.type = "steps" /\ ~Streaming(last)
      BY <2>2, FrontAndLast DEF Steps, Streaming
    <3>2. whole # <<>> /\ Last(whole) = last /\ Front(whole) = Whole(Front(items))
      BY <3>1, WholeOfLast DEF whole
    <3>3. Steps(whole)
      BY <3>1, <3>2 DEF Steps
    <3>4. WithItem(items, event) = Replaced(items, item) /\ WithItem(whole, event) = Append(Whole(Front(items)), item)
      BY <1>7, <2>2, <3>2, <3>3 DEF WithItem, Replaced
    <3>5. item \in Items /\ ~Streaming(item)
      <4>1. last \in [type : {"steps"}, seq : Nat, steps : Seq(StepRecords)]
        BY <3>1 DEF Items
      <4> HIDE DEF last
      <4>2. Step(event) \in StepRecords
        BY DEF Step, StepRecords, Events
      <4>3. Append(last.steps, Step(event)) \in Seq(StepRecords)
        BY <4>1, <4>2
      <4>4. item \in [type : {"steps"}, seq : Nat, steps : Seq(StepRecords)]
        BY <4>1, <4>3
      <4> HIDE DEF item
      <4> QED
        BY <4>4 DEF Items, Streaming
    <3> HIDE DEF item, last
    <3>6. /\ Replaced(items, item) \in Seq(Items) /\ ~Streams(Replaced(items, item))
          /\ Whole(Replaced(items, item)) = Append(Whole(Front(items)), item)
      BY <3>1, <3>5, ItemReplaced DEF Kept
    <3> QED
      BY <1>7, <3>4, <3>6 DEF whole
  <2>3. CASE ~Steps(items)
    <3>1. ~Steps(whole)
      <4>1. CASE items = <<>>
        BY <4>1, WholeOfNone DEF whole, Steps
      <4>2. CASE items # <<>>
        <5>1. ~Streaming(Last(items))
          BY <2>1, <4>2 DEF Streams, Streaming
        <5> QED
          BY <2>3, <4>2, <5>1, WholeOfLast DEF whole, Steps
      <4> QED
        BY <4>1, <4>2
    <3>2. /\ WithItem(items, event) = Append(items, Ran(event, <<Step(event)>>))
          /\ WithItem(whole, event) = Append(whole, Ran(event, <<Step(event)>>))
      BY <1>7, <2>3, <3>1 DEF WithItem
    <3>3. Ran(event, <<Step(event)>>) \in Items /\ ~Streaming(Ran(event, <<Step(event)>>))
      BY NewItems
    <3> QED
      BY <1>7, <3>2, <3>3, StillAdded DEF whole
  <2> QED
    BY <2>2, <2>3
<1>8. CASE kind = "tool_result"
  <2>1. WithItem(items, event) = WithResult(items, event) /\ WithItem(whole, event) = WithResult(whole, event)
    BY <1>8 DEF WithItem
  <2> QED
    BY <1>8, <2>1, WholeResult DEF whole
<1>9. CASE kind = "decision"
  <2> DEFINE Fresh(s) == \A i \in DOMAIN s : ~(s[i].type = "decision" /\ s[i].id = event.id)
  <2>1. Fresh(items) <=> Fresh(whole)
    <3>1. \A x : x.type = "decision" => ~Streaming(x)
      BY DEF Streaming
    <3>2. \A s : Fresh(s) <=> \A x : Has(s, x) => ~(x.type = "decision" /\ x.id = event.id)
      BY DEF Has
    <3> HIDE DEF Fresh
    <3> QED
      BY <3>1, <3>2, WholeHas DEF whole
  <2>2. \A s : WithItem(s, event) = IF Fresh(s) THEN Append(s, Recorded(event)) ELSE s
    BY <1>9 DEF WithItem
  <2> HIDE DEF Fresh
  <2>3. Recorded(event) \in Items /\ ~Streaming(Recorded(event))
    BY NewItems
  <2>4. /\ Append(items, Recorded(event)) \in Seq(Items) /\ ~Streams(Append(items, Recorded(event)))
        /\ Whole(Append(items, Recorded(event))) = Append(whole, Recorded(event))
    BY <2>3, StillAdded DEF whole
  <2>5. ~Streams(items) /\ Whole(items) = whole
    BY <1>9 DEF whole
  <2> QED
    BY <1>9, <2>1, <2>2, <2>4, <2>5
<1>10. CASE kind \notin {"user", "delta", "text", "tool", "tool_result", "decision"}
  <2>1. WithItem(items, event) = items /\ WithItem(whole, event) = whole
    BY <1>10 DEF WithItem
  <2> QED
    BY <1>10, <2>1 DEF whole
<1> QED
  BY <1>4, <1>5, <1>6, <1>7, <1>8, <1>9, <1>10 DEF whole

---------------------------------------------------------------------------
(* The log replayed *)

\* A transcript in which nothing streams.
Stills ==
  {shown \in [items : Seq(Items), status : Statuses, last : Nat, denied : Nat, web : Seq(Nat)] :
     Whole(shown.items) = shown.items}

Replay(event, shown) == IF event.kind = "delta" THEN shown ELSE apply(shown, event)

\* Nothing streams in the transcript before the first event.
LEMMA EmptyIsStill == empty \in Stills
<1>1. /\ empty \in [items : Seq(Items), status : Statuses, last : Nat, denied : Nat, web : Seq(Nat)]
      /\ empty.items = <<>>
  BY DEF empty, Statuses
<1> QED
  BY <1>1, WholeOfNone DEF Stills

\* A stored event leaves nothing streaming.
LEMMA ReplayIsStill ==
  ASSUME NEW event \in Events, NEW shown \in Stills
  PROVE  Replay(event, shown) \in Stills
<1>1. /\ shown \in [items : Seq(Items), status : Statuses, last : Nat, denied : Nat, web : Seq(Nat)]
      /\ Whole(shown.items) = shown.items
  BY DEF Stills
<1>2. shown.items \in Seq(Items) /\ ~Streams(shown.items)
  BY <1>1, WholeStill
<1>3. CASE event.kind # "delta" /\ event.seq > shown.last
  <2> DEFINE items == WithItem(shown.items, event)
             more == Taken(shown, event)
  <2>1. items \in Seq(Items) /\ Whole(items) = items
    BY <1>1, <1>2, <1>3, WholeWithItem
  <2>2. event.seq \in Nat /\ event.status \in Statuses /\ event.denials \in Nat
    BY DEF Events
  <2>3. shown.status \in Statuses /\ shown.denied \in Nat /\ shown.web \in Seq(Nat)
    BY <1>1
  <2> DEFINE says == IF event.kind = "status" THEN event.status ELSE shown.status
             denied == shown.denied + IF event.kind = "result" THEN event.denials ELSE 0
             web == IF event.kind = "web" THEN Append(shown.web, event.seq) ELSE shown.web
  <2>4. says \in Statuses /\ denied \in Nat /\ web \in Seq(Nat)
    BY <2>2, <2>3
  <2>5. more = [items |-> items, status |-> says, last |-> event.seq, denied |-> denied, web |-> web]
    BY DEF Taken
  <2> HIDE DEF items, says, denied, web, more
  <2>6. /\ more \in [items : Seq(Items), status : Statuses, last : Nat, denied : Nat, web : Seq(Nat)]
        /\ more.items = items
    BY <2>1, <2>2, <2>4, <2>5
  <2>7. Replay(event, shown) = more
    <3>1. ~(event.seq <= shown.last)
      BY <1>1, <1>3, <2>2
    <3> QED
      BY <1>3, <3>1 DEF Replay, apply, more
  <2> QED
    BY <2>1, <2>6, <2>7 DEF Stills
<1>4. CASE event.kind = "delta" \/ event.seq <= shown.last
  BY <1>4 DEF Replay, apply
<1> QED
  <2>1. event.seq \in Nat /\ shown.last \in Nat
    BY <1>1 DEF Events
  <2> QED
    BY <1>3, <1>4, <2>1

Replaying(events, F) ==
  /\ F \in [0..Len(events) -> Stills]
  /\ F[0] = empty
  /\ \A n \in 1..Len(events) : F[n] = Replay(events[n], F[n - 1])
  /\ \A n \in 0..Len(events) : Replayed(events, n) = F[n]

\* The recursive function that Replayed is defined by.
LEMMA ReplayedIs ==
  ASSUME NEW events \in Seq(Events)
  PROVE  \E F : Replaying(events, F)
<1> DEFINE N == Len(events)
           Body(F) == [i \in 0..Len(events) |->
             IF i = 0 THEN empty
             ELSE IF events[i].kind = "delta" THEN F[i - 1] ELSE apply(F[i - 1], events[i])]
           K == CHOOSE F : F = Body(F)
           step == [p \in (1..N) \X Stills |-> Replay(events[p[1]], p[2])]
<1>1. N \in Nat
  OBVIOUS
<1>2. \A n \in 1..N : events[n] \in Events
  OBVIOUS
<1>3. \A n \in 1..N, s \in Stills : step[<<n, s>>] = Replay(events[n], s) /\ Replay(events[n], s) \in Stills
  BY <1>2, ReplayIsStill
<1>4. step \in [(1..N) \X Stills -> Stills]
  BY <1>3
<1> HIDE DEF step
<1>6. PICK F \in [0..N -> Stills] : Recurs(F, N, empty, step)
  BY <1>1, <1>4, EmptyIsStill, RecursiveExists
<1>7. F[0] = empty /\ \A n \in 1..N : F[n] = Replay(events[n], F[n - 1])
  <2>1. \A n \in 1..N : n - 1 \in 0..N /\ F[n - 1] \in Stills
    BY <1>6
  <2> QED
    BY <1>3, <1>6, <2>1 DEF Recurs
<1>8. F = Body(F)
  <2>1. ASSUME NEW n \in 0..N PROVE F[n] = Body(F)[n]
    <3>1. CASE n = 0
      BY <1>7, <3>1
    <3>2. CASE n # 0
      <4>1. n \in 1..N
        BY <3>2
      <4>2. Body(F)[n] = Replay(events[n], F[n - 1])
        BY <3>2 DEF Replay
      <4> HIDE DEF Body
      <4> QED
        BY <1>7, <4>1, <4>2
    <3> QED
      BY <3>1, <3>2
  <2>2. F = [n \in 0..N |-> F[n]]
    BY <1>6
  <2>3. Body(F) = [n \in 0..N |-> Body(F)[n]]
    OBVIOUS
  <2> HIDE DEF Body
  <2> QED
    BY <2>1, <2>2, <2>3
<1>9. K = Body(K)
  BY <1>8
<1>10. \A n : Replayed(events, n) = K[n]
  BY DEF Replayed
<1> HIDE DEF K
<1>11. \A n \in 0..N : K[n] = F[n]
  <2>1. K[0] = F[0]
    BY <1>1, <1>7, <1>9
  <2>2. \A n \in 1..N : Body(K)[n] = Replay(events[n], K[n - 1])
    BY <1>1 DEF Replay
  <2> HIDE DEF Body
  <2>3. \A n \in 1..N : K[n - 1] = F[n - 1] => K[n] = F[n]
    BY <1>7, <1>9, <2>2
  <2> HIDE DEF N
  <2>4. StepsAgree(K, F, N)
    BY <2>1, <2>3 DEF StepsAgree
  <2> QED
    BY <1>1, <2>4, RecursiveAgree
<1> QED
  BY <1>6, <1>7, <1>10, <1>11 DEF Replaying

\* Replaying one more event.
LEMMA ReplayedNext ==
  ASSUME NEW events \in Seq(Events)
  PROVE  /\ Replayed(events, 0) = empty
         /\ \A n \in 0..Len(events) : Replayed(events, n) \in Stills
         /\ \A n \in 1..Len(events) : Replayed(events, n) = Replay(events[n], Replayed(events, n - 1))
<1>1. PICK F : Replaying(events, F)
  BY ReplayedIs
<1>2. 0 \in 0..Len(events) /\ \A n \in 1..Len(events) : n \in 0..Len(events) /\ n - 1 \in 0..Len(events)
  OBVIOUS
<1> QED
  BY <1>1, <1>2 DEF Replaying

\* What is replayed is of the events replayed.
LEMMA ReplayedUpTo ==
  ASSUME NEW events \in Seq(Events), \A n \in 1..Len(events) : events[n].seq = n
  PROVE  \A n \in 0..Len(events) : Replayed(events, n).last <= n
<1> DEFINE N == Len(events)
           Good == {n \in 0..N : Replayed(events, n).last <= n}
<1>1. N \in Nat
  OBVIOUS
<1>2. 0 \in Good
  <2>1. Replayed(events, 0).last = 0
    BY ReplayedNext DEF empty
  <2> QED
    BY <1>1, <2>1
<1>3. ASSUME NEW n \in 0..(N - 1), n \in Good PROVE n + 1 \in Good
  <2> DEFINE shown == Replayed(events, n)
             next == Replayed(events, n + 1)
  <2>1. n + 1 \in 1..N /\ (n + 1) - 1 = n
    BY <1>1
  <2>2. next = Replay(events[n + 1], shown) /\ shown \in Stills /\ next \in Stills
    BY <2>1, ReplayedNext
  <2>3. shown.last \in Nat /\ shown.last <= n
    BY <1>3, <2>2 DEF Stills
  <2> HIDE DEF shown, next
  <2>4. next.last \in {shown.last, n + 1}
    BY <2>1, <2>2 DEF Replay, apply, Taken
  <2>5. next.last <= n + 1
    BY <2>3, <2>4
  <2> QED
    BY <2>1, <2>5 DEF next
<1>4. Good \subseteq 0..N
  OBVIOUS
<1> HIDE DEF Good, N
<1>5. Good = 0..N
  BY <1>1, <1>2, <1>3, <1>4, UpTo
<1> QED
  BY <1>5 DEF Good, N

\* A log that grows is replayed as before, as far as it went.
LEMMA ReplayedStays ==
  ASSUME NEW old \in Seq(Events), NEW new \in Seq(Events), Extends(old, new)
  PROVE  \A n \in 0..Len(old) : Replayed(new, n) = Replayed(old, n)
<1> DEFINE N == Len(old)
<1>1. N \in Nat /\ Len(new) \in Nat /\ N <= Len(new) /\ \A n \in 1..N : new[n] = old[n]
  BY DEF Extends
<1>2. PICK F : Replaying(old, F)
  BY ReplayedIs
<1>3. PICK G : Replaying(new, G)
  BY ReplayedIs
<1>4. F[0] = G[0]
  BY <1>2, <1>3 DEF Replaying
<1>5. \A n \in 1..N : F[n - 1] = G[n - 1] => F[n] = G[n]
  BY <1>1, <1>2, <1>3 DEF Replaying
<1>6. \A n \in 0..N : F[n] = G[n]
  <2> HIDE DEF N
  <2>1. StepsAgree(F, G, N)
    BY <1>4, <1>5 DEF StepsAgree
  <2> QED
    BY <1>1, <2>1, RecursiveAgree
<1>7. \A n \in 0..N : n \in 0..Len(new)
  BY <1>1
<1> QED
  BY <1>2, <1>3, <1>6, <1>7 DEF Replaying

\* Deltas are not stored.
LEMMA ReplayedSkips ==
  ASSUME NEW events \in Seq(Events), NEW m \in 0..Len(events), NEW n \in 0..m,
         \A i \in (n + 1)..m : events[i].kind = "delta"
  PROVE  Replayed(events, m) = Replayed(events, n)
<1> DEFINE Good == {k \in 0..m : k >= n => Replayed(events, k) = Replayed(events, n)}
<1>1. m \in Nat /\ n \in Nat
  OBVIOUS
<1>2. 0 \in Good
  BY <1>1
<1>3. ASSUME NEW k \in 0..(m - 1), k \in Good PROVE k + 1 \in Good
  <2>1. k + 1 \in 1..Len(events) /\ k + 1 \in 0..m /\ (k + 1) - 1 = k
    BY <1>1
  <2>2. Replayed(events, k + 1) = Replay(events[k + 1], Replayed(events, k))
    BY <2>1, ReplayedNext
  <2>3. CASE k >= n
    <3>1. events[k + 1].kind = "delta"
      BY <1>1, <2>1, <2>3
    <3> QED
      BY <1>3, <2>1, <2>2, <2>3, <3>1 DEF Replay
  <2>4. CASE k + 1 = n
    BY <2>1, <2>4
  <2>5. CASE k + 1 < n
    BY <1>1, <2>1, <2>5
  <2> QED
    BY <1>1, <2>3, <2>4, <2>5
<1>4. Good \subseteq 0..m
  OBVIOUS
<1> HIDE DEF Good
<1>5. Good = 0..m
  BY <1>1, <1>2, <1>3, <1>4, UpTo
<1>6. m \in Good
  BY <1>1, <1>5
<1> QED
  BY <1>1, <1>6 DEF Good

---------------------------------------------------------------------------
(* The steps of the server *)

\* A log keeps its shape when an event is stored that may follow the last one.
LEMMA ShapeOfMore ==
  ASSUME NEW events \in Seq(Events), NEW s, LogShape(events, s), NEW event \in Events, NEW t,
         t # "none", t = "running" => ~EndsTurn(event),
         events # <<>> =>
           /\ events[Len(events)].kind = "delta" => event.kind \in {"delta", "text"} \/ EndsTurn(event)
           /\ EndsTurn(events[Len(events)]) => event.kind = "user"
  PROVE  LogShape(Append(events, event), t)
<1> DEFINE more == Append(events, event)
           N == Len(events)
<1>1. /\ Len(more) = N + 1 /\ N \in Nat /\ more # <<>> /\ (N > 0 => events # <<>>)
      /\ more[N + 1] = event /\ \A n \in 1..N : more[n] = events[n]
  <2>1. Len(more) = N + 1 /\ N \in Nat
    OBVIOUS
  <2>2. more[N + 1] = event
    OBVIOUS
  <2>3. \A n \in 1..N : more[n] = events[n]
    OBVIOUS
  <2>4. N > 0 => events # <<>>
    OBVIOUS
  <2>5. more # <<>>
    BY AppendProperties
  <2> QED
    BY <2>1, <2>2, <2>3, <2>4, <2>5
<1> HIDE DEF more, N
<1>2. ASSUME NEW n \in 1..Len(more), n < Len(more)
      PROVE  /\ more[n].kind = "delta" => more[n + 1].kind \in {"delta", "text"} \/ EndsTurn(more[n + 1])
             /\ EndsTurn(more[n]) => more[n + 1].kind = "user"
  <2>1. CASE n < N
    <3>1. n \in 1..N /\ n + 1 \in 1..N
      BY <1>1, <2>1
    <3>2. more[n] = events[n] /\ more[n + 1] = events[n + 1]
      BY <1>1, <3>1
    <3> QED
      BY <2>1, <3>1, <3>2 DEF LogShape, N
  <2>2. CASE n = N
    BY <1>1, <1>2, <2>2 DEF N
  <2> QED
    BY <1>1, <1>2, <2>1, <2>2
<1>3. t = "running" => ~EndsTurn(more[Len(more)])
  BY <1>1
<1> QED
  BY <1>1, <1>2, <1>3 DEF LogShape, more

\* The last event of a run that is not under way, if there is one, ended its turn.
LEMMA OverEnds ==
  ASSUME NEW events \in Seq(Events), NEW s \in Statuses, s # "running", LogOK(events, s), LogShape(events, s)
  PROVE  events # <<>> => events[Len(events)].kind = "status" /\ EndsTurn(events[Len(events)])
BY DEF LogOK, LogShape, EndsTurn

\* A run writes an event.
LEMMA EmitShape ==
  ASSUME Inv, TranscriptInv, NEW r \in Runs, Emit(r)
  PROVE  \A o \in Runs : LogShape(log'[o], status'[o])
<1>1. PICK kind \in IF Last(log[r]).kind = "delta" THEN {"delta", "text"} ELSE Outputs :
        log' = [log EXCEPT ![r] = Append(@, Event(r, kind))]
  BY DEF Emit
<1> DEFINE event == Event(r, kind)
<1>2. event \in Events /\ event.kind = kind
  BY <1>1, EventType DEF Inv
<1>3. kind \notin {"user", "status"}
  BY <1>1, OutputsAssumption
<1>4. log[r] \in Seq(Events) /\ status[r] = "running" /\ status' = status /\ LogShape(log[r], status[r])
  BY DEF Emit, Inv, ServerOK, TranscriptInv
<1> HIDE DEF event
<1>5. /\ ~EndsTurn(event) /\ ~EndsTurn(log[r][Len(log[r])])
      /\ log[r][Len(log[r])].kind = "delta" => event.kind \in {"delta", "text"}
  BY <1>1, <1>2, <1>3, <1>4 DEF EndsTurn, Last, LogShape
<1>6. LogShape(Append(log[r], event), status[r])
  BY <1>2, <1>4, <1>5, ShapeOfMore
<1>7. log'[r] = Append(log[r], event) /\ \A o \in Runs \ {r} : log'[o] = log[o]
  BY <1>1 DEF event, Inv, ServerOK
<1> QED
  BY <1>4, <1>6, <1>7 DEF TranscriptInv

\* A run writes that its turn ended.
LEMMA EndTurnShape ==
  ASSUME Inv, TranscriptInv, NEW r \in Runs, EndTurn(r)
  PROVE  \A o \in Runs : LogShape(log'[o], status'[o])
<1>1. PICK s \in Ends \cup {"cancelled"} :
        /\ status' = [status EXCEPT ![r] = s]
        /\ log' = [log EXCEPT ![r] = Append(@, StatusEvent(r, Len(@) + 1, s))]
  BY DEF EndTurn
<1>2. s \in Statuses /\ s \notin {"none", "running"}
  BY EndsAssumption DEF Statuses
<1> DEFINE event == StatusEvent(r, Len(log[r]) + 1, s)
<1>3. log[r] \in Seq(Events) /\ status[r] = "running" /\ LogShape(log[r], status[r])
  BY DEF EndTurn, Inv, ServerOK, TranscriptInv
<1>4. event \in Events /\ event.kind = "status" /\ event.status = s
  BY <1>2, <1>3, StatusEventType DEF Inv
<1>5. log'[r] = Append(log[r], event) /\ status'[r] = s
      /\ \A o \in Runs \ {r} : log'[o] = log[o] /\ status'[o] = status[o]
  BY <1>1 DEF Inv, ServerOK
<1> HIDE DEF event
<1>6. EndsTurn(event) /\ ~EndsTurn(log[r][Len(log[r])])
  BY <1>2, <1>3, <1>4 DEF EndsTurn, LogShape
<1>7. LogShape(Append(log[r], event), s)
  BY <1>2, <1>3, <1>4, <1>6, ShapeOfMore
<1> QED
  BY <1>5, <1>7 DEF TranscriptInv

\* A turn begins, the first or a follow-up.
LEMMA BegunShape ==
  ASSUME Inv, TranscriptInv, NEW r \in Runs, Begun(r), status[r] # "running"
  PROVE  \A o \in Runs : LogShape(log'[o], status'[o])
<1> DEFINE told == [Event(r, "user") EXCEPT !.text = <<>>]
           said == StatusEvent(r, Len(log[r]) + 2, "running")
<1>1. /\ log[r] \in Seq(Events) /\ Len(log[r]) \in Nat /\ status[r] \in Statuses
      /\ LogOK(log[r], status[r]) /\ LogShape(log[r], status[r])
  BY DEF Inv, ServerOK, TranscriptInv
<1>2. told \in Events /\ told.kind = "user"
  <2> DEFINE event == Event(r, "user")
  <2>1. event \in Events /\ event.kind = "user"
    BY EventType DEF Inv
  <2> HIDE DEF event
  <2>2. <<>> \in Seq(Nat)
    OBVIOUS
  <2>3. [event EXCEPT !.text = <<>>] \in Events /\ [event EXCEPT !.text = <<>>].kind = "user"
    BY <2>1, <2>2 DEF Events
  <2> QED
    BY <2>3 DEF event
<1>3. said \in Events /\ said.kind = "status" /\ said.status = "running"
  BY <1>1, StatusEventType DEF Inv, Statuses
<1>4. /\ log'[r] = log[r] \o <<told, said>> /\ status'[r] = "running"
      /\ \A o \in Runs \ {r} : log'[o] = log[o] /\ status'[o] = status[o]
  BY DEF Begun, Inv, ServerOK
<1> HIDE DEF told, said
<1> DEFINE one == Append(log[r], told)
<1>5. LogShape(one, "running")
  BY <1>1, <1>2, OverEnds, ShapeOfMore DEF EndsTurn
<1>6. one \in Seq(Events) /\ one[Len(one)] = told
  BY <1>1, <1>2
<1>7. log[r] \o <<told, said>> = Append(one, said)
  <2> DEFINE left == log[r] \o <<told, said>>
             right == Append(one, said)
  <2>1. left \in Seq(Events) /\ right \in Seq(Events) /\ Len(left) = Len(right)
    BY <1>1, <1>2, <1>3
  <2>2. \A n \in 1..Len(left) : left[n] = right[n]
    BY <1>1, <1>2, <1>3
  <2> HIDE DEF left, right
  <2>3. left = right
    BY <2>1, <2>2, SeqEqual
  <2> QED
    BY <2>3 DEF left, right
<1> HIDE DEF one
<1>8. LogShape(Append(one, said), "running")
  BY <1>2, <1>3, <1>5, <1>6, ShapeOfMore DEF EndsTurn
<1> QED
  BY <1>4, <1>7, <1>8 DEF TranscriptInv

---------------------------------------------------------------------------
(* The transcript stays as stored *)

\* A log that grows leaves what is shown of it as it was.
LEMMA TranscriptKept ==
  ASSUME Inv, Inv', TranscriptInv, Grows, held' = held,
         \A r \in Runs : LogShape(log'[r], status'[r])
  PROVE  TranscriptInv'
<1> SUFFICES ASSUME held.run \in Runs
             PROVE  LET shown == held.transcript
                        replayed == Replayed(log'[held.run], shown.last)
                    IN /\ shown.items \in Seq(Items)
                       /\ Whole(shown.items) = replayed.items
                       /\ shown.status = replayed.status
                       /\ Streams(shown.items) => StreamsAt(log'[held.run], shown.last)
  BY DEF TranscriptInv
<1> DEFINE old == log[held.run]
           new == log'[held.run]
           n == held.transcript.last
<1>1. old \in Seq(Events) /\ new \in Seq(Events) /\ Extends(old, new)
  BY DEF Inv, ServerOK, Grows
<1>2. n \in 0..Len(old)
  BY <1>1 DEF Inv, HeldOK
<1> HIDE DEF old, new
<1>3. Replayed(new, n) = Replayed(old, n)
  BY <1>1, <1>2, ReplayedStays
<1>4. StreamsAt(old, n) => StreamsAt(new, n)
  BY <1>1, <1>2 DEF StreamsAt, Extends
<1> QED
  BY <1>3, <1>4 DEF TranscriptInv, old, new

\* A step that touches neither the logs nor the page's transcript.
LEMMA TranscriptSame ==
  ASSUME Inv, Inv', TranscriptInv, UNCHANGED <<log, status, held>>
  PROVE  TranscriptInv'
<1>1. Grows
  <2>1. \A r \in Runs : Len(log[r]) \in Nat
    BY DEF Inv, ServerOK
  <2> QED
    BY <2>1 DEF Grows, Extends
<1> QED
  BY <1>1, TranscriptKept DEF TranscriptInv

\* One more event is heard.  What was passed over are deltas: they are not stored, and after
\* one of them there is nothing that looks at the last item.
LEMMA TranscriptHeard ==
  ASSUME Inv, TranscriptInv, Deliver
  PROVE  TranscriptInv'
<1> DEFINE events == log[source.run]
           i == Min(Deliverable)
           before == IF held.run = source.run THEN held.transcript ELSE empty
           n == before.last
           event == events[i]
           after == apply(before, event)
<1>1. /\ source.run \in Runs /\ source.pos \in Nat /\ source.open /\ events \in Seq(Events)
      /\ LogShape(events, status[source.run]) /\ \A j \in 1..Len(events) : events[j].seq = j
  BY DEF Inv, PageOK, Deliver, ServerOK, LogOK, TranscriptInv
<1>2. i \in Deliverable /\ \A j \in (source.pos + 1)..(i - 1) : events[j].kind = "delta"
  BY <1>1, NextDelivered DEF Deliver, Inv
<1>3. i \in 1..Len(events) /\ i > source.pos /\ Len(events) \in Nat
  <2> HIDE DEF i
  <2> QED
    BY <1>1, <1>2 DEF Deliverable
<1>4. held' = [run |-> source.run, transcript |-> after] /\ log' = log /\ status' = status
  BY DEF Deliver, Heard, server
<1>5. event \in Events /\ event.seq = i
  BY <1>1, <1>3
<1>6. n \in source.pos..Len(events)
  <2>1. CASE held.run = source.run
    BY <1>1, <2>1 DEF Inv, HeldOK, Following
  <2>2. CASE held.run # source.run
    <3>1. source.pos = 0
      BY <1>1, <2>2 DEF Inv, Following
    <3> QED
      BY <1>1, <2>2, <3>1, EmptySays
  <2> QED
    BY <2>1, <2>2
<1> DEFINE Stored(shown) ==
             LET replayed == Replayed(events, shown.last)
             IN /\ shown.items \in Seq(Items)
                /\ Whole(shown.items) = replayed.items
                /\ shown.status = replayed.status
                /\ Streams(shown.items) => StreamsAt(events, shown.last)
<1>7. Stored(before)
  <2>1. CASE held.run = source.run
    BY <1>1, <2>1 DEF TranscriptInv
  <2>2. CASE held.run # source.run
    <3>1. before.items = <<>> /\ before.status = "none" /\ before.last = 0
      BY <2>2 DEF empty
    <3>2. Replayed(events, 0).items = <<>> /\ Replayed(events, 0).status = "none"
      BY <1>1, ReplayedNext DEF empty
    <3>3. ~Streams(<<>>) /\ <<>> \in Seq(Items)
      BY DEF Streams
    <3> HIDE DEF before
    <3> QED
      BY <3>1, <3>2, <3>3, WholeOfNone
  <2> QED
    BY <2>1, <2>2
<1>8. Stored(after)
  <2> HIDE DEF i, before, events
  <2>1. CASE i <= n
    BY <1>5, <1>7, <2>1 DEF apply
  <2>2. CASE i > n
    <3>1. n \in Nat /\ n \in 0..(i - 1) /\ i - 1 \in 0..Len(events)
      BY <1>1, <1>3, <1>6, <2>2
    <3>2. \A j \in (n + 1)..(i - 1) : events[j].kind = "delta"
      BY <1>1, <1>2, <1>3, <1>6
    <3>3. Replayed(events, i - 1) = Replayed(events, n)
      BY <1>1, <3>1, <3>2, ReplayedSkips
    <3> DEFINE was == Replayed(events, n)
    <3>4. was \in Stills /\ was.last <= n
      BY <1>1, <1>6, <3>1, ReplayedNext, ReplayedUpTo
    <3>5. Replayed(events, i) = Replay(event, was)
      BY <1>1, <1>3, <3>3, ReplayedNext
    <3>6. was.last \in Nat
      BY <3>4 DEF Stills
    <3>7. /\ before.items \in Seq(Items) /\ Whole(before.items) = was.items /\ before.status = was.status
          /\ Streams(before.items) => StreamsAt(events, n)
      BY <1>7
    <3> HIDE DEF was
    <3>8. Streams(before.items) => event.kind \in {"delta", "text", "user"} \/ EndsTurn(event)
      <4> SUFFICES ASSUME Streams(before.items) PROVE event.kind \in {"delta", "text", "user"} \/ EndsTurn(event)
        OBVIOUS
      <4>1. n \in 1..Len(events) /\ (events[n].kind = "delta" \/ EndsTurn(events[n]))
        BY <1>1, <1>3, <2>2, <3>1, <3>7 DEF StreamsAt
      <4>2. CASE i = n + 1
        <5>1. n < Len(events)
          BY <1>3, <3>1, <4>2
        <5> QED
          BY <1>1, <4>1, <4>2, <5>1 DEF LogShape
      <4>3. CASE i > n + 1
        <5>1. i - 1 \in (n + 1)..(i - 1) /\ i - 1 \in 1..Len(events) /\ i - 1 < Len(events) /\ (i - 1) + 1 = i
          BY <1>3, <3>1, <4>3
        <5>2. events[i - 1].kind = "delta"
          BY <3>2, <5>1
        <5> QED
          BY <1>1, <5>1, <5>2 DEF LogShape
      <4> QED
        BY <1>3, <2>2, <3>1, <4>2, <4>3
    <3>9. Streams(before.items) => event.kind \in {"delta", "text", "status", "user"}
      BY <3>8 DEF EndsTurn
    <3> DEFINE items == WithItem(before.items, event)
    <3>10. /\ items \in Seq(Items)
           /\ Whole(items) = IF event.kind = "delta" THEN was.items ELSE WithItem(was.items, event)
           /\ Streams(items) => event.kind = "delta" \/ (Streams(before.items) /\ event.kind = "status")
      BY <1>5, <3>7, <3>9, WholeWithItem
    <3>11. /\ after.items = items /\ after.last = i
           /\ after.status = IF event.kind = "status" THEN event.status ELSE before.status
      <4>1. ~(event.seq <= before.last)
        BY <1>3, <1>5, <2>2, <3>1
      <4> QED
        BY <1>5, <4>1 DEF apply, Taken
    <3>12. /\ Replayed(events, i).items = IF event.kind = "delta" THEN was.items ELSE WithItem(was.items, event)
           /\ Replayed(events, i).status = IF event.kind = "status" THEN event.status ELSE was.status
      <4>1. ~(event.seq <= was.last)
        BY <1>3, <1>5, <2>2, <3>1, <3>4, <3>6
      <4> QED
        BY <3>5, <4>1 DEF Replay, apply, Taken
    <3> HIDE DEF items, after
    <3>13. Streams(items) => StreamsAt(events, i)
      <4>1. Streams(items) => event.kind = "delta" \/ EndsTurn(event)
        BY <3>8, <3>10
      <4> QED
        BY <1>3, <4>1 DEF StreamsAt
    <3> QED
      BY <3>7, <3>10, <3>11, <3>12, <3>13
  <2> QED
    BY <1>3, <1>6, <2>1, <2>2
<1>9. held'.run = source.run /\ held'.transcript = after
  BY <1>4
<1> HIDE DEF after, before, i
<1> QED
  BY <1>1, <1>4, <1>8, <1>9 DEF TranscriptInv

\* Every step of the conversation keeps the invariant.
LEMMA TranscriptStep ==
  ASSUME Inv, Inv', TranscriptInv, [ChatNext]_vars
  PROVE  TranscriptInv'
<1>1. ASSUME NEW r \in Runs, Emit(r) \/ EndTurn(r) PROVE TranscriptInv'
  <2>1. held' = held /\ Grows
    BY <1>1, EmitGrows, EndTurnGrows DEF Emit, EndTurn, Inv
  <2>2. \A o \in Runs : LogShape(log'[o], status'[o])
    BY <1>1, EmitShape, EndTurnShape
  <2> QED
    BY <2>1, <2>2, TranscriptKept
<1>2. ASSUME NEW r \in Runs, Begun(r), status[r] # "running", held' = held PROVE TranscriptInv'
  <2>1. Grows
    BY <1>2, BegunGrows DEF Inv, ServerOK
  <2>2. \A o \in Runs : LogShape(log'[o], status'[o])
    BY <1>2, BegunShape
  <2> QED
    BY <1>2, <2>1, <2>2, TranscriptKept
<1>3. ASSUME NEW q \in requests, NEW r \in Runs, HandleLaunch(q, r) PROVE TranscriptInv'
  <2>1. CASE Begun(r) /\ status[r] = "none"
    BY <1>2, <1>3, <2>1 DEF HandleLaunch
  <2>2. CASE UNCHANGED <<status, log>>
    BY <1>3, <2>2, TranscriptSame DEF HandleLaunch
  <2> QED
    BY <1>3, <2>1, <2>2 DEF HandleLaunch
<1>4. ASSUME NEW q \in requests, HandleReply(q) PROVE TranscriptInv'
  <2>1. q.run \in Runs
    BY <1>4 DEF HandleReply, Inv, PageOK, RequestOK
  <2>2. CASE Begun(q.run) /\ Claimable
    <3>1. status[q.run] # "running"
      BY <2>1, <2>2 DEF Claimable
    <3> QED
      BY <1>2, <1>4, <2>1, <2>2, <3>1 DEF HandleReply
  <2>3. CASE UNCHANGED <<status, log>>
    BY <1>4, <2>3, TranscriptSame DEF HandleReply
  <2> QED
    BY <1>4, <2>2, <2>3 DEF HandleReply
<1>5. ASSUME NEW q \in requests,
             HandleCancel(q) \/ Launched(q) \/ Replied(q) \/ Cancelled(q) \/ Refused(q) \/ Lost(q)
      PROVE  TranscriptInv'
  <2>1. UNCHANGED <<log, status, held>>
    BY <1>5 DEF HandleCancel, Launched, Replied, Cancelled, Refused, Lost, server
  <2> QED
    BY <2>1, TranscriptSame
<1>6. CASE HistoryLoads \/ RecordAnswered \/ RecordLoads \/ LoadFails
  <2>1. UNCHANGED <<log, status, held>>
    BY <1>6 DEF HistoryLoads, RecordAnswered, RecordLoads, LoadFails, server
  <2> QED
    BY <2>1, TranscriptSame
<1>7. CASE Follow \/ End \/ Reconnect
  <2>1. UNCHANGED <<log, status, held>>
    BY <1>7 DEF Follow, End, Reconnect, server
  <2> QED
    BY <2>1, TranscriptSame
<1>8. CASE Deliver
  BY <1>8, TranscriptHeard
<1>9. CASE Start \/ New \/ Reply \/ Cancel
  <2>1. UNCHANGED <<log, status, held>>
    BY <1>9 DEF Start, New, Reply, Cancel, server
  <2> QED
    BY <2>1, TranscriptSame
<1>10. CASE Remount
  <2>1. UNCHANGED <<log, status>> /\ held'.run = NoRun
    BY <1>10 DEF Remount, server
  <2> QED
    BY <2>1, RunsAssumption DEF TranscriptInv
<1>11. CASE UNCHANGED vars
  <2>1. UNCHANGED <<log, status, held>>
    BY <1>11 DEF vars
  <2> QED
    BY <2>1, TranscriptSame
<1> QED
  BY <1>1, <1>3, <1>4, <1>5, <1>6, <1>7, <1>8, <1>9, <1>10, <1>11 DEF ChatNext

\* A page that has heard nothing.
LEMMA TranscriptInit == ChatInit => TranscriptInv
<1> SUFFICES ASSUME ChatInit PROVE TranscriptInv
  OBVIOUS
<1>1. \A r \in Runs : log[r] = <<>> /\ status[r] = "none"
  BY DEF ChatInit
<1>2. held.run \notin Runs
  BY RunsAssumption DEF ChatInit
<1>3. LogShape(<<>>, "none")
  BY DEF LogShape
<1> QED
  BY <1>1, <1>2, <1>3 DEF TranscriptInv

\* The invariant says what the property says: nothing streams in a replay.
LEMMA TranscriptIsStored == Inv /\ TranscriptInv => TranscriptAsStored
<1> SUFFICES ASSUME Inv, TranscriptInv, held.run # NoRun
             PROVE  LET replayed == Replayed(log[held.run], held.transcript.last)
                    IN /\ Whole(held.transcript.items) = Whole(replayed.items)
                       /\ held.transcript.status = replayed.status
  BY DEF TranscriptAsStored
<1>1. held.run \in Runs
  BY DEF Inv, HeldOK, RunOrNone
<1>2. log[held.run] \in Seq(Events) /\ held.transcript.last \in 0..Len(log[held.run])
  BY <1>1 DEF Inv, HeldOK, ServerOK
<1>3. Whole(Replayed(log[held.run], held.transcript.last).items) = Replayed(log[held.run], held.transcript.last).items
  BY <1>2, ReplayedNext DEF Stills
<1> QED
  BY <1>1, <1>3 DEF TranscriptInv

\* Whatever a page has heard of a run, as it happened or replayed, in part twice, and whichever
\* runs it showed before: but for messages that stream, what it shows of the run is what a
\* replay of the log up to the last event it heard shows (transcript.ts:38-100).
THEOREM TranscriptIsAsStored == ChatSpec => []TranscriptAsStored
<1>1. ChatInit => Inv /\ TranscriptInv
  BY InitInv, TranscriptInit
<1>2. Inv /\ TranscriptInv /\ [ChatNext]_vars => (Inv /\ TranscriptInv)'
  BY StepInv, TranscriptStep
<1> QED
  BY <1>1, <1>2, TranscriptIsStored, PTL DEF ChatSpec
=============================================================================
