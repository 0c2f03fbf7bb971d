------------------------------ MODULE RunSlot ------------------------------
(***************************************************************************)
(* The advisor run manager of `fo serve' (src/fo/serve/runs.py) once a     *)
(* server has reconciled its office: the slot that holds the one active    *)
(* run, the request threads that launch, resume and cancel runs, the       *)
(* worker thread and engine process of every turn, its timer, the run      *)
(* records on disk and the verdict each turn ends with.                    *)
(*                                                                         *)
(* A turn is one launch or one follow-up message: the request that claims  *)
(* the slot, then the thread it starts.  Two steps are separate actions    *)
(* wherever another thread can look or act between them.                   *)
(***************************************************************************)
EXTENDS Integers, Sequences, FiniteSets

CONSTANTS Runs,       \* run ids; a launch takes one never used before
          Turns,      \* turns; a launch or a message takes a fresh one
          Requests,   \* threads serving POST /api/runs/<id>/message
          Decisions,  \* ids of journal entries
          KeepRuns,   \* [serve] keep_runs
          Faults,     \* the failing steps admitted: see Fault
          NoRun, NoTurn, NoRecord

Fault == {"folder", "begin", "store"}

ActiveStatus == {"queued", "running", "verifying"}
FinalStatus  == {"completed", "partial", "failed", "awaiting_input", "cancelled"}
\* What the last result event was; one without text counts as none.
Results == {"none", "text", "error"}

\* The fields of a run's JSON record that decide anything.
Record == [id : Runs, status : ActiveStatus \cup FinalStatus,
           decisions : SUBSET Decisions, session : BOOLEAN,
           pid : Turns \cup {NoTurn}]

ASSUME ConstantsAssumption ==
  /\ NoRun \notin Runs
  /\ NoTurn \notin Turns
  /\ NoRecord \notin Record
  /\ KeepRuns \in Nat \ {0}
  /\ Faults \subseteq Fault

VARIABLES
  mutex,      \* the turn whose request holds the manager's mutex, or NoTurn
  active,     \* the run in the slot, or NoRun
  process,    \* the turn whose process the manager holds, or NoTurn
  thread,     \* the turn whose worker thread was started last, or NoTurn
  cancelled,  \* runs whose cancel was accepted
  halted,     \* runs stopped by their time limit or by the server stopping
  disk,       \* the record stored for each run, or NoRecord
  journal,    \* the decisions each turn's engine has appended to the notebook
  born,       \* the runs in the order they were launched
  read,       \* the record a message request has read, or NoRecord
  worker,     \* each turn's program counter and local state
  proc,       \* each turn's engine process
  signalled,  \* turns whose process group was sent SIGTERM
  timer       \* each turn's time limit

slot  == <<mutex, active, thread>>
flags == <<cancelled, halted>>
store == <<disk, journal, born>>
procs == <<proc, signalled, timer>>
vars  == <<slot, process, flags, store, read, worker, procs>>

Pcs == {"none", "launching", "resuming", "activated", "started", "spawned",
        "registered", "announcing", "reading", "draining", "judging",
        "verified", "blamed", "decided", "stored", "abandoned", "pruning", "done"}

\* A thread's locals: the record it works on, whether an error is known, the last
\* result event, whether the report verified, the runs left to prune.  The run
\* outlives them, for a timer keeps it.
Worker == [pc : Pcs, run : Runs \cup {NoRun}, rec : Record \cup {NoRecord},
           error : BOOLEAN, result : Results, valid : BOOLEAN, victims : SUBSET Runs]

Local(pc, run, rec) ==
  [pc |-> pc, run |-> run, rec |-> rec, error |-> FALSE, result |-> "none",
   valid |-> FALSE, victims |-> {}]

TypeOK ==
  /\ mutex \in Turns \cup {NoTurn}
  /\ active \in Runs \cup {NoRun}
  /\ process \in Turns \cup {NoTurn}
  /\ thread \in Turns \cup {NoTurn}
  /\ cancelled \subseteq Runs
  /\ halted \subseteq Runs
  /\ disk \in [Runs -> Record \cup {NoRecord}]
  /\ journal \in [Turns -> SUBSET Decisions]
  /\ born \in Seq(Runs)
  /\ read \in [Requests -> Record \cup {NoRecord}]
  /\ worker \in [Turns -> Worker]
  /\ proc \in [Turns -> {"none", "live", "exited"}]
  /\ signalled \subseteq Turns
  /\ timer \in [Turns -> {"off", "armed", "fired"}]

Init ==
  /\ mutex = NoTurn /\ active = NoRun /\ process = NoTurn /\ thread = NoTurn
  /\ cancelled = {}
  /\ halted = {}
  /\ disk = [r \in Runs |-> NoRecord]
  /\ journal = [t \in Turns |-> {}]
  /\ born = << >>
  /\ read = [q \in Requests |-> NoRecord]
  /\ worker = [t \in Turns |-> Local("none", NoRun, NoRecord)]
  /\ proc = [t \in Turns |-> "none"]
  /\ signalled = {}
  /\ timer = [t \in Turns |-> "off"]

-----------------------------------------------------------------------------
(* Shorthands.                                                             *)

At(t, pc) == worker[t].pc = pc
Goto(t, pc) == worker' = [worker EXCEPT ![t].pc = pc]
Run(t) == worker[t].run
End(t, pc) == worker' = [worker EXCEPT ![t] = Local(pc, Run(t), NoRecord)]

Launched == {born[i] : i \in DOMAIN born}

\* `running(run_id)': a run id in the slot.
Running(r) == active # NoRun /\ active = r

\* The run's record exists and its status is one of S.
Stored(r, S) == disk[r] # NoRecord /\ disk[r].status \in S

ClaimableWhenActive == mutex = NoTurn
Claimable == mutex = NoTurn /\ active = NoRun

\* `stop(self.process.pid)' when the manager holds a process.
SignalHeld == IF process = NoTurn THEN signalled ELSE signalled \cup {process}

NewRecordNoSession(r) == [id |-> r, status |-> "queued", decisions |-> {}, pid |-> NoTurn]
NewRecord(r) == [id |-> r, status |-> "queued", decisions |-> {}, session |-> FALSE,
                 pid |-> NoTurn]

-----------------------------------------------------------------------------
(* Requests.                                                               *)

\* `launch': claim the slot under the mutex and store a queued record.  A
\* refusal (a run is active, the office lock is held, `start' fails) changes
\* nothing and is no step here.
Launch(t, r) ==
  /\ At(t, "none")
  /\ Claimable
  /\ r \notin Launched
  /\ mutex' = t
  /\ disk' = [disk EXCEPT ![r] = NewRecord(r)]
  /\ born' = Append(born, r)
  /\ worker' = [worker EXCEPT ![t] = Local("launching", r, NewRecord(r))]
  /\ UNCHANGED <<active, thread, process, flags, journal, read, procs>>

\* `run_folder' raises after the save: the exception clears `active' and
\* leaves the queued record behind.
LaunchFails(t) ==
  /\ "folder" \in Faults
  /\ At(t, "launching")
  /\ mutex' = NoTurn
  /\ active' = NoRun
  /\ End(t, "done")
  /\ UNCHANGED <<thread, process, flags, store, read, procs>>

\* `message' reads the run's record before it has the mutex and refuses a run
\* in progress or one that never started a session.
MessageRead(q, r) ==
  /\ read[q] = NoRecord
  /\ Stored(r, FinalStatus)
  /\ disk[r].session
  /\ read' = [read EXCEPT ![q] = disk[r]]
  /\ UNCHANGED <<slot, process, flags, store, worker, procs>>

MessageClaimUnchecked(t, q) ==
  /\ At(t, "none")
  /\ read[q] # NoRecord
  /\ mutex = NoTurn
  /\ LET rec == [read[q] EXCEPT !.status = "queued"]
     IN /\ disk' = [disk EXCEPT ![rec.id] = rec]
        /\ worker' = [worker EXCEPT ![t] = Local("resuming", rec.id, rec)]
  /\ mutex' = t
  /\ read' = [read EXCEPT ![q] = NoRecord]
  /\ UNCHANGED <<active, thread, process, flags, journal, born, procs>>

\* The claim stores the record it read, now queued.
MessageClaim(t, q) ==
  /\ At(t, "none")
  /\ read[q] # NoRecord
  /\ Claimable
  /\ LET rec == [read[q] EXCEPT !.status = "queued"]
     IN /\ disk' = [disk EXCEPT ![rec.id] = rec]
        /\ worker' = [worker EXCEPT ![t] = Local("resuming", rec.id, rec)]
  /\ mutex' = t
  /\ read' = [read EXCEPT ![q] = NoRecord]
  /\ UNCHANGED <<active, thread, process, flags, journal, born, procs>>

\* The claim is refused (`run_active', `office_locked').
MessageRefused(q) ==
  /\ read[q] # NoRecord
  /\ read' = [read EXCEPT ![q] = NoRecord]
  /\ UNCHANGED <<slot, process, flags, store, worker, procs>>

\* The request fills the slot and releases the mutex.
Activate(t) ==
  /\ worker[t].pc \in {"launching", "resuming"}
  /\ active' = Run(t)
  /\ mutex' = NoTurn
  /\ Goto(t, "activated")
  /\ UNCHANGED <<thread, process, flags, store, read, procs>>

\* `begin' starts the worker thread.
Begin(t) ==
  /\ At(t, "activated")
  /\ thread' = t
  /\ Goto(t, "started")
  /\ UNCHANGED <<mutex, active, process, flags, store, read, procs>>

\* The prompt, the run folder or the first log entry fails after the slot was
\* taken: the request answers with an error and no thread starts.
BeginFails(t) ==
  /\ "begin" \in Faults
  /\ At(t, "activated")
  /\ End(t, "done")
  /\ UNCHANGED <<slot, process, flags, store, read, procs>>

\* `cancel', under the mutex.
Cancel(r) ==
  /\ mutex = NoTurn
  /\ Running(r)
  /\ cancelled' = cancelled \cup {r}
  /\ signalled' = SignalHeld
  /\ UNCHANGED <<slot, process, halted, store, read, worker, proc, timer>>

\* `halt', under the mutex: nothing happens to a run that is not in the slot.
Halt(r) ==
  /\ mutex = NoTurn
  /\ IF Running(r)
     THEN /\ halted' = halted \cup {r}
          /\ signalled' = SignalHeld
     ELSE UNCHANGED <<halted, signalled>>

-----------------------------------------------------------------------------
(* The worker thread of a turn, up to the engine's exit.                   *)

Spawn(t) ==
  /\ At(t, "started")
  /\ proc' = [proc EXCEPT ![t] = "live"]
  /\ Goto(t, "spawned")
  /\ UNCHANGED <<slot, process, flags, store, read, signalled, timer>>

SpawnFails(t) ==
  /\ At(t, "started")
  /\ worker' = [worker EXCEPT ![t] = [@ EXCEPT !.pc = "judging", !.error = TRUE]]
  /\ UNCHANGED <<slot, process, flags, store, read, procs>>

RegisterDeaf(t) ==
  /\ At(t, "spawned")
  /\ mutex = NoTurn
  /\ process' = t
  /\ Goto(t, "registered")
  /\ UNCHANGED <<slot, flags, store, read, procs>>

\* Under the mutex the process becomes the manager's, and a cancel or halt
\* that found no process is carried out now.
Register(t) ==
  /\ At(t, "spawned")
  /\ mutex = NoTurn
  /\ process' = t
  /\ signalled' = IF Run(t) \in cancelled \cup halted
                  THEN signalled \cup {t} ELSE signalled
  /\ Goto(t, "registered")
  /\ UNCHANGED <<slot, flags, store, read, proc, timer>>

StartTimer(t) ==
  /\ At(t, "registered")
  /\ timer' = [timer EXCEPT ![t] = "armed"]
  /\ Goto(t, "announcing")
  /\ UNCHANGED <<slot, process, flags, store, read, proc, signalled>>

SaveRunning(t) ==
  /\ At(t, "announcing")
  /\ LET rec == [worker[t].rec EXCEPT !.status = "running", !.pid = t]
     IN /\ disk' = [disk EXCEPT ![rec.id] = rec]
        /\ worker' = [worker EXCEPT ![t] = [@ EXCEPT !.pc = "reading", !.rec = rec]]
  /\ UNCHANGED <<slot, process, flags, journal, born, read, procs>>

\* An init event: the session is known; a session that is not isolated is an
\* error and the process is stopped, without the mutex.
ReadInit(t, isolated) ==
  /\ At(t, "reading")
  /\ worker' = [worker EXCEPT ![t] = [@ EXCEPT
                  !.rec.session = TRUE, !.error = worker[t].error \/ ~isolated]]
  /\ signalled' = IF ~isolated /\ ~worker[t].error THEN signalled \cup {t} ELSE signalled
  /\ UNCHANGED <<slot, process, flags, store, read, proc, timer>>

\* `capture': a decision id in the engine's output that the notebook holds.
ReadDecision(t, d) ==
  /\ At(t, "reading")
  /\ d \in journal[t] \ worker[t].rec.decisions
  /\ worker' = [worker EXCEPT ![t].rec.decisions = @ \cup {d}]
  /\ UNCHANGED <<slot, process, flags, store, read, procs>>

ReadResult(t, result) ==
  /\ At(t, "reading")
  /\ worker' = [worker EXCEPT ![t] = [@ EXCEPT !.rec.session = TRUE, !.result = result]]
  /\ UNCHANGED <<slot, process, flags, store, read, procs>>

\* Storing the running record, or parsing or logging an event, raises.
LoopFails(t) ==
  /\ worker[t].pc \in {"announcing", "reading"}
  /\ worker' = [worker EXCEPT ![t] = [@ EXCEPT !.pc = "draining", !.error = TRUE]]
  /\ signalled' = signalled \cup {t}
  /\ UNCHANGED <<slot, process, flags, store, read, proc, timer>>

ReapEarly(t) ==
  /\ worker[t].pc \in {"reading", "draining"}
  /\ timer' = [timer EXCEPT ![t] = IF @ = "armed" THEN "off" ELSE @]
  /\ Goto(t, "judging")
  /\ UNCHANGED <<slot, process, flags, store, read, proc, signalled>>

\* The output ends with the process; `process.wait' returns and a timer that
\* has not fired is cancelled.
Reap(t) ==
  /\ worker[t].pc \in {"reading", "draining"}
  /\ proc[t] = "exited"
  /\ timer' = [timer EXCEPT ![t] = IF @ = "armed" THEN "off" ELSE @]
  /\ Goto(t, "judging")
  /\ UNCHANGED <<slot, process, flags, store, read, proc, signalled>>

-----------------------------------------------------------------------------
(* `finish': the verdict.                                                  *)

\* The report verifier, of which only the answer matters here.
Verify(t, valid) ==
  /\ At(t, "judging")
  /\ worker' = [worker EXCEPT ![t] =
       [@ EXCEPT !.pc = "verified", !.rec.status = "verifying", !.valid = valid]]
  /\ UNCHANGED <<slot, process, flags, store, read, procs>>

\* `halted' is read without the mutex; then the result and the exit code.
Blame(t, exitedClean) ==
  /\ At(t, "verified")
  /\ worker' = [worker EXCEPT ![t] =
       [@ EXCEPT !.pc = "blamed",
          !.error = \/ worker[t].error
                    \/ Run(t) \in halted
                    \/ worker[t].result = "error"
                    \/ ~exitedClean]]
  /\ UNCHANGED <<slot, process, flags, store, read, procs>>

Verdict(w) ==
  CASE w.run \in cancelled -> "cancelled"
    [] w.run \notin cancelled /\ w.valid -> "completed"
    [] w.run \notin cancelled /\ ~w.valid /\ w.rec.decisions # {} -> "partial"
    [] OTHER -> IF w.error \/ w.result # "text" THEN "failed" ELSE "awaiting_input"

\* `cancelled' is read without the mutex, after `halted'.
Decide(t) ==
  /\ At(t, "blamed")
  /\ LET rec == [worker[t].rec EXCEPT !.status = Verdict(worker[t])]
     IN worker' = [worker EXCEPT ![t] = Local("decided", Run(t), rec)]
  /\ UNCHANGED <<slot, process, flags, store, read, procs>>

StoreNoVerdict(t) ==
  /\ At(t, "decided")
  /\ Goto(t, "stored")
  /\ UNCHANGED <<slot, process, flags, store, read, procs>>

StoreVerdict(t) ==
  /\ At(t, "decided")
  /\ disk' = [disk EXCEPT ![Run(t)] = worker[t].rec]
  /\ Goto(t, "stored")
  /\ UNCHANGED <<slot, process, flags, journal, born, read, procs>>

\* A log entry or the final record cannot be written.
FinishFails(t) ==
  /\ "store" \in Faults
  /\ worker[t].pc \in {"judging", "verified", "blamed", "decided"}
  /\ Goto(t, "abandoned")
  /\ UNCHANGED <<slot, process, flags, store, read, procs>>

\* The `finally' of `finish', under the mutex.
Free(t) ==
  /\ worker[t].pc \in {"stored", "abandoned"}
  /\ mutex = NoTurn
  /\ active' = IF Running(Run(t)) THEN NoRun ELSE active
  /\ process' = IF Running(Run(t)) THEN NoTurn ELSE process
  /\ cancelled' = cancelled \ {Run(t)}
  /\ halted' = halted \ {Run(t)}
  /\ End(t, IF At(t, "stored") THEN "pruning" ELSE "done")
  /\ UNCHANGED <<mutex, thread, store, read, procs>>

\* `prune' lists the finished runs, newest first, and marks those past the
\* newest KeepRuns ...
Finished == {r \in Runs : Stored(r, FinalStatus)}
Newer(r, s) == \E i, j \in DOMAIN born : i < j /\ born[i] = r /\ born[j] = s
SurplusOldestKept ==
  {r \in Finished : Cardinality({s \in Finished : Newer(s, r)}) >= KeepRuns}
Surplus == {r \in Finished : Cardinality({s \in Finished : Newer(r, s)}) >= KeepRuns}

PruneList(t) ==
  /\ At(t, "pruning")
  /\ worker[t].victims = {}
  /\ worker' = [worker EXCEPT ![t] =
       IF Surplus = {} THEN Local("done", Run(t), NoRecord)
       ELSE [@ EXCEPT !.victims = Surplus]]
  /\ UNCHANGED <<slot, process, flags, store, read, procs>>

\* ... and deletes them one by one, with no further look at them.
PruneUnlink(t, r) ==
  /\ At(t, "pruning")
  /\ r \in worker[t].victims
  /\ disk' = [disk EXCEPT ![r] = NoRecord]
  /\ worker' = [worker EXCEPT ![t] =
       IF worker[t].victims = {r} THEN Local("done", Run(t), NoRecord)
       ELSE [@ EXCEPT !.victims = worker[t].victims \ {r}]]
  /\ UNCHANGED <<slot, process, flags, journal, born, read, procs>>

-----------------------------------------------------------------------------
(* The engine process and the timer.                                       *)

\* The engine appends a decision to the notebook with `fo journal add'.
JournalAdd(t, d) ==
  /\ proc[t] = "live"
  /\ d \notin UNION {journal[u] : u \in Turns}
  /\ journal' = [journal EXCEPT ![t] = @ \cup {d}]
  /\ UNCHANGED <<slot, process, flags, disk, born, read, worker, procs>>

\* The process group ends, by itself or on a signal; SIGKILL follows SIGTERM.
Exit(t) ==
  /\ proc[t] = "live"
  /\ proc' = [proc EXCEPT ![t] = "exited"]
  /\ UNCHANGED <<slot, process, flags, store, read, worker, signalled, timer>>

\* The timer's thread is past its wait: cancelling it has no effect any more.
TimerFires(t) ==
  /\ timer[t] = "armed"
  /\ timer' = [timer EXCEPT ![t] = "fired"]
  /\ UNCHANGED <<slot, process, flags, store, read, worker, proc, signalled>>

\* `expire' for the run of the turn that set the timer.
Expire(t) ==
  /\ timer[t] = "fired"
  /\ Halt(Run(t))
  /\ timer' = [timer EXCEPT ![t] = "off"]
  /\ UNCHANGED <<slot, process, cancelled, store, read, worker, proc>>
-----------------------------------------------------------------------------
Request(t) == Activate(t) \/ Begin(t)

Engine(t) ==
  \/ \E isolated \in BOOLEAN : ReadInit(t, isolated)
  \/ \E d \in Decisions : ReadDecision(t, d) \/ JournalAdd(t, d)
  \/ \E result \in Results : ReadResult(t, result)
  \/ Exit(t)

\* The steps a worker thread takes without waiting for its engine's output.
Advance(t) ==
  \/ Spawn(t) \/ SpawnFails(t) \/ Register(t) \/ StartTimer(t) \/ SaveRunning(t)
  \/ Reap(t)
  \/ \E valid \in BOOLEAN : Verify(t, valid)
  \/ \E exitedClean \in BOOLEAN : Blame(t, exitedClean)
  \/ Decide(t) \/ StoreVerdict(t) \/ Free(t)
  \/ PruneList(t) \/ \E r \in Runs : PruneUnlink(t, r)

Fail(t) == LaunchFails(t) \/ BeginFails(t) \/ LoopFails(t) \/ FinishFails(t)

TurnStep(t) ==
  \/ \E r \in Runs : Launch(t, r)
  \/ \E q \in Requests : MessageClaim(t, q)
  \/ Request(t) \/ Advance(t) \/ Engine(t) \/ Fail(t)
  \/ TimerFires(t) \/ Expire(t)

Next ==
  \/ \E t \in Turns : TurnStep(t)
  \/ \E q \in Requests : MessageRefused(q) \/ \E r \in Runs : MessageRead(q, r)
  \/ \E r \in Runs : Cancel(r)

Spec == Init /\ [][Next]_vars

-----------------------------------------------------------------------------
(* What a user relies on.                                                  *)

\* "One run executes at a time": no two engine processes are alive together,
\* whatever launches, follow-ups, cancels, time limits and failures interleave.
OneRun == \A t, u \in Turns : proc[t] = "live" /\ proc[u] = "live" => t = u

\* A cancel or a halt that was accepted concerns the run in the slot and has
\* reached its engine, even one that was not yet started when it was accepted;
\* only a process its worker has not registered yet may still be unsignalled.
StopReaches ==
  \A r \in Runs : r \in cancelled \cup halted =>
    /\ active = r
    /\ \A t \in Turns : proc[t] = "live" /\ ~At(t, "spawned") => t \in signalled

\* When nothing fails, a record reads as in progress only while its run holds
\* the slot or is being put there, so a finished run can always be followed up.
SettledWhenFree ==
  Faults = {} =>
    \A r \in Runs : Stored(r, ActiveStatus) =>
      active = r \/ \E t \in Turns : mutex = t /\ Run(t) = r

\* A stored verdict is only ever replaced by the claim of a follow-up, made
\* while the slot is free, or deleted by prune: no thread writes over it late.
VerdictStands ==
  [][\A r \in Runs : Stored(r, FinalStatus) /\ disk'[r] # disk[r] =>
       disk'[r] = NoRecord \/ (disk'[r].status = "queued" /\ active = NoRun)]_vars

\* Whatever runs finish or resume while prune deletes, a run it deletes is older
\* than KeepRuns others.
PruneSparesNewest ==
  [][\A r \in Runs : disk[r] # NoRecord /\ disk'[r] = NoRecord =>
       Cardinality({s \in Runs : Newer(r, s)}) >= KeepRuns]_vars

-----------------------------------------------------------------------------
(* The abstract executor: a run has the slot from the moment its request   *)
(* stores its queued record under the mutex.                               *)

Holder == IF mutex = NoTurn THEN active ELSE Run(mutex)
Seen(record) == IF record = NoRecord THEN "none"
                ELSE IF record.status \in ActiveStatus THEN "busy" ELSE record.status

Executor == INSTANCE OneSlot
  WITH Verdicts <- FinalStatus,
       slot     <- Holder,
       engine   <- \E t \in Turns : proc[t] = "live",
       stopped  <- cancelled \cup halted # {},
       record   <- [r \in Runs |-> Seen(disk[r])]

\* The run manager executes one run at a time: whatever its threads, timers,
\* processes and faults do, each step is a step of the abstract executor or none.
ExecutesOneAtATime == Executor!Spec
=============================================================================
