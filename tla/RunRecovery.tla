---------------------------- MODULE RunRecovery ----------------------------
(***************************************************************************)
(* The run manager over the life of several servers: `fo serve' stops in   *)
(* order or dies, its threads and its memory are gone, the records and the *)
(* engines stay; the first read of the next server judges what it finds    *)
(* (`reconcile').                                                          *)
(*                                                                         *)
(* The threads of one server are those of RunSlot.  A record that          *)
(* `reconcile' judges goes through `finish' like any other, so it takes a  *)
(* turn of its own, which starts at RunSlot's "judging".                   *)
(***************************************************************************)
EXTENDS RunSlot

CONSTANTS Sweepers,  \* threads that may find the office not reconciled yet
          Judges,    \* the turns kept for `reconcile'; the others are for claims
          MaxBoots,  \* servers started one after the other; the last one stays up
          Eager      \* whether a claim may come before the first read has swept

ASSUME RecoveryAssumption ==
  /\ Judges \subseteq Turns
  /\ MaxBoots \in Nat \ {0}
  /\ Eager \in BOOLEAN

VARIABLES
  server,      \* what the server process does
  boots,       \* the servers started so far
  earlier,     \* turns of earlier servers
  last,        \* the run and the thread `shutdown' has read
  reconciled,  \* whether this server has begun to reconcile
  sweep        \* what each thread in `reconcile' does

boot     == <<server, boots, earlier, last>>
recovery == <<boot, reconciled, sweep>>
all      == <<vars, recovery>>

Sweep == [pc : {"idle", "checked", "sweeping", "read", "judging"}, todo : SUBSET Runs,
          rec : Record \cup {NoRecord}, turn : Turns \cup {NoTurn}]

Idle == [pc |-> "idle", todo |-> {}, rec |-> NoRecord, turn |-> NoTurn]

RecoveryTypeOK ==
  /\ TypeOK
  /\ server \in {"up", "halting", "joining", "exiting", "down"}
  /\ boots \in 1 .. MaxBoots
  /\ earlier \subseteq Turns
  /\ last \in [run : Runs \cup {NoRun}, thread : Turns \cup {NoTurn}]
  /\ reconciled \in BOOLEAN
  /\ sweep \in [Sweepers -> Sweep]

RecoveryInit ==
  /\ Init
  /\ server = "up"
  /\ boots = 1
  /\ earlier = {}
  /\ last = [run |-> NoRun, thread |-> NoTurn]
  /\ reconciled = FALSE
  /\ sweep = [s \in Sweepers |-> Idle]

-----------------------------------------------------------------------------
(* `reconcile', in the thread of the first `get' or `list'.                *)

Swept == reconciled /\ \A s \in Sweepers : sweep[s].pc = "idle"

\* The office is looked up among the reconciled ones ...
SweepCheck(s) ==
  /\ server # "down"
  /\ sweep[s] = Idle
  /\ ~reconciled
  /\ sweep' = [sweep EXCEPT ![s].pc = "checked"]
  /\ UNCHANGED <<vars, boot, reconciled>>

\* ... then added to them; the files are listed.
SweepBegin(s) ==
  /\ sweep[s].pc = "checked"
  /\ reconciled' = TRUE
  /\ sweep' = [sweep EXCEPT ![s].pc = "sweeping",
                            ![s].todo = {r \in Runs : disk[r] # NoRecord}]
  /\ UNCHANGED <<vars, boot>>

SweepReadAnyStatus(s, r) ==
  /\ sweep[s].pc = "sweeping"
  /\ r \in sweep[s].todo
  /\ sweep' = [sweep EXCEPT ![s] =
       IF disk[r] = NoRecord THEN Idle
       ELSE [@ EXCEPT !.pc = "read", !.rec = disk[r], !.todo = sweep[s].todo \ {r}]]
  /\ UNCHANGED <<vars, boot, reconciled>>

SweepReadRunning(s, r) ==
  /\ sweep[s].pc = "sweeping"
  /\ r \in sweep[s].todo
  /\ sweep' = [sweep EXCEPT ![s] =
       IF disk[r] = NoRecord THEN Idle
       ELSE IF disk[r].status = "running"
       THEN [@ EXCEPT !.pc = "read", !.rec = disk[r], !.todo = sweep[s].todo \ {r}]
       ELSE [@ EXCEPT !.todo = sweep[s].todo \ {r}]]
  /\ UNCHANGED <<vars, boot, reconciled>>

\* A record in progress is read; one that is gone by now ends the sweep with an
\* exception.
SweepRead(s, r) ==
  /\ sweep[s].pc = "sweeping"
  /\ r \in sweep[s].todo
  /\ sweep' = [sweep EXCEPT ![s] =
       IF disk[r] = NoRecord THEN Idle
       ELSE IF disk[r].status \in ActiveStatus
       THEN [@ EXCEPT !.pc = "read", !.rec = disk[r], !.todo = sweep[s].todo \ {r}]
       ELSE [@ EXCEPT !.todo = sweep[s].todo \ {r}]]
  /\ UNCHANGED <<vars, boot, reconciled>>

\* The engine of a record, if it still is the process the record names.
Left(rec) == {t \in Turns : t = rec.pid /\ proc[t] = "live"}

SweepJudgeOnly(s, t) ==
  /\ sweep[s].pc = "read"
  /\ t \in Judges /\ At(t, "none")
  /\ LET rec == sweep[s].rec
     IN IF Running(rec.id)
        THEN /\ sweep' = [sweep EXCEPT ![s].pc = "sweeping", ![s].rec = NoRecord]
             /\ UNCHANGED <<worker, signalled>>
        ELSE /\ worker' = [worker EXCEPT ![t] =
                             [Local("judging", rec.id, rec) EXCEPT !.error = TRUE]]
             /\ sweep' = [sweep EXCEPT ![s] =
                             [@ EXCEPT !.pc = "judging", !.rec = NoRecord, !.turn = t]]
             /\ UNCHANGED signalled
  /\ UNCHANGED <<slot, process, flags, store, read, proc, timer,
                 boot, reconciled>>

\* By now the run may be the one in the slot, which is left alone; of any other
\* the engine is told to end, and `finish' begins at once.
SweepJudge(s, t) ==
  /\ sweep[s].pc = "read"
  /\ t \in Judges /\ At(t, "none")
  /\ LET rec == sweep[s].rec
     IN IF Running(rec.id)
        THEN /\ sweep' = [sweep EXCEPT ![s].pc = "sweeping", ![s].rec = NoRecord]
             /\ UNCHANGED <<worker, signalled>>
        ELSE /\ signalled' = signalled \cup Left(rec)
             /\ worker' = [worker EXCEPT ![t] =
                             [Local("judging", rec.id, rec) EXCEPT !.error = TRUE]]
             /\ sweep' = [sweep EXCEPT ![s] =
                             [@ EXCEPT !.pc = "judging", !.rec = NoRecord, !.turn = t]]
  /\ UNCHANGED <<slot, process, flags, store, read, proc, timer,
                 boot, reconciled>>

SweepNext(s) ==
  /\ sweep[s].pc = "judging"
  /\ At(sweep[s].turn, "done")
  /\ sweep' = [sweep EXCEPT ![s].pc = "sweeping", ![s].turn = NoTurn]
  /\ UNCHANGED <<vars, boot, reconciled>>

SweepEnd(s) ==
  /\ sweep[s].pc = "sweeping"
  /\ sweep[s].todo = {}
  /\ sweep' = [sweep EXCEPT ![s] = Idle]
  /\ UNCHANGED <<vars, boot, reconciled>>

SweepStep(s) ==
  \/ SweepBegin(s) \/ SweepNext(s) \/ SweepEnd(s)
  \/ \E r \in Runs : SweepRead(s, r)
  \/ \E t \in Turns : SweepJudge(s, t)

-----------------------------------------------------------------------------
(* The server process.                                                     *)

\* `shutdown' reads the slot and the thread without the mutex.
StopRead ==
  /\ server = "up"
  /\ boots < MaxBoots
  /\ last' = [run |-> active, thread |-> thread]
  /\ server' = IF active = NoRun THEN "exiting" ELSE "halting"
  /\ UNCHANGED <<vars, boots, earlier, reconciled, sweep>>

StopHalt ==
  /\ server = "halting"
  /\ Halt(last.run)
  /\ server' = IF last.thread = NoTurn THEN "exiting" ELSE "joining"
  /\ UNCHANGED <<slot, process, cancelled, store, read, worker, proc, timer,
                 boots, earlier, last, reconciled, sweep>>

\* The thread has ended, or its time is up; by then a signalled engine is killed.
StopJoin ==
  /\ server = "joining"
  /\ At(last.thread, "done") \/ \A t \in Turns : proc[t] = "live" => t \notin signalled
  /\ server' = "exiting"
  /\ UNCHANGED <<vars, boots, earlier, last, reconciled, sweep>>

\* The process ends and with it every thread: all of them are daemons.
Gone ==
  /\ server' = "down"
  /\ mutex' = NoTurn /\ active' = NoRun /\ process' = NoTurn /\ thread' = NoTurn
  /\ cancelled' = {} /\ halted' = {}
  /\ read' = [q \in Requests |-> NoRecord]
  /\ worker' = [t \in Turns |->
                  IF At(t, "none") THEN worker[t] ELSE Local("done", Run(t), NoRecord)]
  /\ timer' = [t \in Turns |-> "off"]
  /\ earlier' = {t \in Turns : ~At(t, "none")}
  /\ last' = [run |-> NoRun, thread |-> NoTurn]
  /\ reconciled' = FALSE
  /\ sweep' = [s \in Sweepers |-> Idle]
  /\ UNCHANGED <<store, proc, signalled, boots>>

StopExit == server = "exiting" /\ Gone

\* The server is killed, or the machine drops it.
Crash == server # "down" /\ boots < MaxBoots /\ Gone

Restart ==
  /\ server = "down"
  /\ server' = "up"
  /\ boots' = boots + 1
  /\ UNCHANGED <<vars, earlier, last, reconciled, sweep>>

-----------------------------------------------------------------------------
\* A thread of the server steps.  `prune' lists through `list', which returns once
\* the office is reconciled; a `finish' that raises ends the sweep it is part of.
ServerTurn(t, A) ==
  /\ server # "down"
  /\ A
  /\ At(t, "pruning") /\ worker' # worker => reconciled
  /\ mutex' \notin {mutex, NoTurn} => t \notin Judges /\ (Eager \/ Swept)
  /\ sweep' = [s \in Sweepers |->
       IF sweep[s].turn = t /\ At(t, "abandoned") /\ worker' # worker
       THEN Idle ELSE sweep[s]]
  /\ UNCHANGED <<boot, reconciled>>

ServerRequest(A) ==
  /\ server # "down"
  /\ A
  /\ UNCHANGED recovery

\* An engine lives on without its server; nobody reads its output.
Outlives(t) ==
  /\ server = "down"
  /\ Exit(t) \/ \E d \in Decisions : JournalAdd(t, d)
  /\ UNCHANGED recovery

Serving ==
  \/ \E t \in Turns : ServerTurn(t, TurnStep(t))
  \/ \E r \in Runs : ServerRequest(Cancel(r))
  \/ \E q \in Requests : ServerRequest(MessageRefused(q))
  \/ \E q \in Requests, r \in Runs : reconciled /\ ServerRequest(MessageRead(q, r))

RecoveryNext ==
  \/ Serving
  \/ \E t \in Turns : Outlives(t)
  \/ \E s \in Sweepers : SweepCheck(s) \/ SweepStep(s)
  \/ StopRead \/ StopHalt \/ StopJoin \/ StopExit \/ Crash \/ Restart

\* The threads and timers of a server that is up are scheduled as in RunSlot, an
\* engine that was signalled ends, a server that is down is started again and
\* somebody then looks at the runs.
RecoveryFairness ==
  /\ \A t \in Turns :
       /\ WF_all(ServerTurn(t, Request(t)))
       /\ WF_all(ServerTurn(t, Advance(t)))
       /\ WF_all(ServerTurn(t, TimerFires(t)))
       /\ WF_all(ServerTurn(t, Expire(t)))
       /\ WF_all(t \in signalled /\ Exit(t) /\ UNCHANGED recovery)
  /\ \A s \in Sweepers : WF_all(SweepCheck(s)) /\ WF_all(SweepStep(s))
  /\ WF_all(Restart)
  /\ WF_all(StopHalt) /\ WF_all(StopJoin) /\ WF_all(StopExit)

RecoverySpec == RecoveryInit /\ [][RecoveryNext]_all
FairRecoverySpec == RecoverySpec /\ RecoveryFairness

-----------------------------------------------------------------------------
(* What a user relies on.                                                  *)

\* A server never has two engines of its own, whatever an earlier server left and
\* however long the sweep takes, if its first read swept before its first claim.
OwnEngines == {t \in Turns \ earlier : proc[t] = "live"}
OneOwnEngine == \A t, u \in OwnEngines : t = u

\* A record says that its run is over only when the engine it names has ended or
\* was told to: reconciling after a crash forgets no engine a record names.
NoEngineForgotten ==
  \A r \in Runs : Stored(r, FinalStatus) =>
    \A t \in Left(disk[r]) : t \in signalled

\* A server that dies in the middle of a turn delays its verdict and no more: a
\* later server judges every run that was accepted.
JudgedAfterRestart ==
  \A r \in Runs : Stored(r, ActiveStatus) ~> ~Stored(r, ActiveStatus)
=============================================================================
