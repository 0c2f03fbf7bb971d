--------------------------- MODULE RunSlot_proofs ---------------------------
(***************************************************************************)
(* Theorems about RunSlot for every number of runs, turns, requests and    *)
(* decisions and for every choice of faults.                               *)
(***************************************************************************)
EXTENDS RunSlot, FiniteSetTheorems, TLAPS

\* The program counters of a turn that holds the mutex, of one that holds the
\* slot, of one whose process is the manager's and of one whose process may live.
Claiming   == {"launching", "resuming"}
Judging    == {"judging", "verified", "blamed", "decided"}
Owning     == {"registered", "announcing", "reading", "draining"}
Registered == Owning \cup Judging \cup {"stored", "abandoned"}
Working    == {"activated", "started", "spawned"} \cup Owning \cup Judging
Holding    == Working \cup {"stored", "abandoned"}
MayLive    == Owning \cup {"spawned"}

\* A turn with the mutex or the slot works on a record of its own run.
LocalsOK(w) ==
  w.pc \in Claiming \cup Holding =>
    /\ w.rec \in Record
    /\ w.rec.id = w.run
    /\ w.run \in Runs
    /\ w.pc = "decided" => w.rec.status \in FinalStatus

LocalsInv == \A t \in Turns : LocalsOK(worker[t])

\* One turn at a time has the mutex or the slot, and the slot names its run.
SlotInv ==
  /\ \A t \in Turns : worker[t].pc \in Holding => active = Run(t)
  /\ \A t, u \in Turns :
       {worker[t].pc, worker[u].pc} \subseteq Claiming \cup Holding => t = u
  /\ \A t \in Turns : worker[t].pc \in Claiming <=> mutex = t
  /\ mutex # NoTurn => active = NoRun

\* A live process belongs to a turn that waits for it, and the manager's process
\* to the turn in the slot.
ProcessInv ==
  /\ \A t \in Turns : proc[t] = "live" => worker[t].pc \in MayLive
  /\ \A t \in Turns : worker[t].pc \in Owning => process = t
  /\ process # NoTurn => worker[process].pc \in Registered

\* Cancels and halts concern the run in the slot and reached the manager's process.
StopInv ==
  /\ \A r \in cancelled \cup halted : r = active
  /\ cancelled \cup halted # {} /\ process # NoTurn => process \in signalled

\* What the records on disk say of the turns in progress.
DiskInv ==
  /\ \A r \in Runs : disk[r] # NoRecord =>
       disk[r].id = r /\ r \in Launched
  /\ \A q \in Requests :
       read[q] # NoRecord => read[q].id \in Launched
  /\ \A t \in Turns : worker[t].pc \in Claiming \cup Working =>
       Run(t) \in Launched /\ ~Stored(Run(t), FinalStatus)
  /\ Faults = {} =>
       \A r \in Runs : Stored(r, ActiveStatus) =>
         \E t \in Turns : worker[t].pc \in Claiming \cup Working /\ Run(t) = r

Inv == TypeOK /\ LocalsInv /\ SlotInv /\ ProcessInv /\ StopInv /\ DiskInv

-----------------------------------------------------------------------------
(* How the actions change the turns' threads.                              *)

WorkersOK == worker \in [Turns -> Worker] /\ LocalsInv

\* Only turn t's thread moves; it is at pc now and works for the same run.
Moved(t, pc) ==
  /\ \A u \in Turns \ {t} : worker'[u] = worker[u]
  /\ worker'[t].pc = pc
  /\ worker'[t].run = worker[t].run

LEMMA PutOK ==
  ASSUME NEW t \in Turns, NEW w \in Worker, WorkersOK, LocalsOK(w),
         worker' = [worker EXCEPT ![t] = w]
  PROVE  WorkersOK'
  BY DEF WorkersOK, LocalsInv

LEMMA PutMoves ==
  ASSUME NEW t \in Turns, NEW w, WorkersOK, w.run = worker[t].run,
         worker' = [worker EXCEPT ![t] = w]
  PROVE  Moved(t, w.pc)
  BY DEF WorkersOK, Moved

LEMMA LocalType ==
  ASSUME NEW pc \in Pcs, NEW r \in Runs \cup {NoRun}, NEW rec \in Record \cup {NoRecord}
  PROVE  /\ Local(pc, r, rec) \in Worker
         /\ Local(pc, r, rec).pc = pc
         /\ Local(pc, r, rec).run = r
         /\ Local(pc, r, rec).rec = rec
  BY DEF Local, Worker, Results

LEMMA NewRecordType ==
  ASSUME NEW r \in Runs
  PROVE  /\ NewRecord(r) \in Record
         /\ NewRecord(r).id = r
         /\ NewRecord(r).status = "queued"
  BY DEF NewRecord, Record, ActiveStatus

\* A turn that has the mutex or the slot has a record of its run.
LEMMA HasRecord ==
  ASSUME NEW t \in Turns, WorkersOK, worker[t].pc \in Claiming \cup Holding
  PROVE  /\ worker[t] \in Worker
         /\ worker[t].rec \in Record
         /\ worker[t].rec.id = worker[t].run
         /\ worker[t].run \in Runs
  BY DEF WorkersOK, LocalsInv, LocalsOK

LEMMA GotoMoves ==
  ASSUME NEW t \in Turns, NEW pc \in Pcs, WorkersOK, Goto(t, pc), pc # "decided",
         worker[t].pc \in Claiming \cup Holding
  PROVE  WorkersOK' /\ Moved(t, pc) /\ worker'[t].rec = worker[t].rec
<1> DEFINE w == [worker[t] EXCEPT !.pc = pc]
<1>1. w \in Worker /\ w.pc = pc /\ w.run = worker[t].run /\ w.rec = worker[t].rec
  BY HasRecord DEF Worker
<1>2. LocalsOK(w)
  BY <1>1, HasRecord DEF LocalsOK
<1>3. worker' = [worker EXCEPT ![t] = w]
  BY DEF Goto
<1> HIDE DEF w
<1>4. WorkersOK'
  BY <1>1, <1>2, <1>3, PutOK
<1>5. Moved(t, pc)
  BY <1>1, <1>3, PutMoves
<1>6. worker'[t].rec = worker[t].rec
  BY <1>1, <1>3 DEF WorkersOK
<1> QED
  BY <1>4, <1>5, <1>6

LEMMA EndMoves ==
  ASSUME NEW t \in Turns, NEW pc \in {"pruning", "done"}, WorkersOK, End(t, pc)
  PROVE  WorkersOK' /\ Moved(t, pc)
<1> DEFINE w == Local(pc, worker[t].run, NoRecord)
<1>1. worker[t].run \in Runs \cup {NoRun}
  BY DEF WorkersOK, Worker
<1>2. w \in Worker /\ w.pc = pc /\ w.run = worker[t].run
  BY <1>1, LocalType DEF Pcs
<1>3. LocalsOK(w)
  BY <1>2 DEF LocalsOK, Claiming, Holding, Working, Owning, Judging
<1>4. worker' = [worker EXCEPT ![t] = w]
  BY DEF End, Run
<1> HIDE DEF w
<1>5. WorkersOK'
  BY <1>2, <1>3, <1>4, PutOK
<1>6. Moved(t, pc)
  BY <1>2, <1>4, PutMoves
<1> QED
  BY <1>5, <1>6

\* A thread past the slot may change the runs it has left to prune.
LEMMA VictimsMove ==
  ASSUME NEW t \in Turns, NEW victims \in SUBSET Runs, WorkersOK, At(t, "pruning"),
         worker' = [worker EXCEPT ![t] = [@ EXCEPT !.victims = victims]]
  PROVE  WorkersOK' /\ Moved(t, "pruning")
<1> DEFINE w == [worker[t] EXCEPT !.victims = victims]
<1>1. w \in Worker /\ w.pc = "pruning" /\ w.run = worker[t].run
  BY DEF WorkersOK, Worker, At
<1>2. LocalsOK(w)
  BY <1>1 DEF LocalsOK, Claiming, Holding, Working, Owning, Judging
<1>3. worker' = [worker EXCEPT ![t] = w]
  OBVIOUS
<1> HIDE DEF w
<1>4. WorkersOK'
  BY <1>1, <1>2, <1>3, PutOK
<1>5. Moved(t, "pruning")
  BY <1>1, <1>3 DEF Moved, WorkersOK
<1> QED
  BY <1>4, <1>5

LEMMA VerdictType ==
  ASSUME NEW w \in Worker
  PROVE  Verdict(w) \in FinalStatus
  BY DEF Verdict, FinalStatus, Worker

LEMMA SpawnFailsMoves ==
  ASSUME NEW t \in Turns, WorkersOK, SpawnFails(t)
  PROVE  WorkersOK' /\ Moved(t, "judging")
<1> DEFINE rec == worker[t].rec
           w == [worker[t] EXCEPT !.pc = "judging", !.error = TRUE]
<1>1. worker[t].pc \in Claiming \cup Holding
  BY DEF SpawnFails, At, Holding, Working, Owning, Judging
<1>2. rec \in Record /\ rec.id = worker[t].rec.id
  BY <1>1, HasRecord DEF Record
<1>3. w \in Worker /\ w.pc = "judging" /\ w.run = worker[t].run /\ w.rec = rec
  BY <1>1, <1>2, HasRecord DEF Worker, Pcs, Results, SpawnFails, At
<1>4. LocalsOK(w)
  BY <1>1, <1>2, <1>3, HasRecord DEF LocalsOK, SpawnFails, At
<1>5. worker' = [worker EXCEPT ![t] = w]
  BY DEF SpawnFails
<1> HIDE DEF w, rec
<1>6. WorkersOK'
  BY <1>3, <1>4, <1>5, PutOK
<1>7. Moved(t, "judging")
  BY <1>3, <1>5, PutMoves
<1> QED
  BY <1>6, <1>7

LEMMA SaveRunningMoves ==
  ASSUME NEW t \in Turns, WorkersOK, SaveRunning(t)
  PROVE  WorkersOK' /\ Moved(t, "reading")
<1> DEFINE rec == [worker[t].rec EXCEPT !.status = "running", !.pid = t]
           w == [worker[t] EXCEPT !.pc = "reading", !.rec = rec]
<1>1. worker[t].pc \in Claiming \cup Holding
  BY DEF SaveRunning, At, Holding, Working, Owning, Judging
<1>2. rec \in Record /\ rec.id = worker[t].rec.id
  BY <1>1, HasRecord DEF Record, ActiveStatus
<1>3. w \in Worker /\ w.pc = "reading" /\ w.run = worker[t].run /\ w.rec = rec
  BY <1>1, <1>2, HasRecord DEF Worker, Pcs, Results, SaveRunning, At
<1>4. LocalsOK(w)
  BY <1>1, <1>2, <1>3, HasRecord DEF LocalsOK, SaveRunning, At
<1>5. worker' = [worker EXCEPT ![t] = w]
  BY DEF SaveRunning
<1> HIDE DEF w, rec
<1>6. WorkersOK'
  BY <1>3, <1>4, <1>5, PutOK
<1>7. Moved(t, "reading")
  BY <1>3, <1>5, PutMoves
<1> QED
  BY <1>6, <1>7

LEMMA ReadInitMoves ==
  ASSUME NEW t \in Turns, NEW isolated \in BOOLEAN, WorkersOK, ReadInit(t, isolated)
  PROVE  WorkersOK' /\ Moved(t, "reading")
<1> DEFINE rec == [worker[t].rec EXCEPT !.session = TRUE]
           w == [worker[t] EXCEPT !.rec.session = TRUE, !.error =
              worker[t].error \/ ~isolated]
<1>1. worker[t].pc \in Claiming \cup Holding
  BY DEF ReadInit, At, Holding, Working, Owning, Judging
<1>2. rec \in Record /\ rec.id = worker[t].rec.id
  BY <1>1, HasRecord DEF Record
<1>3. w \in Worker /\ w.pc = "reading" /\ w.run = worker[t].run /\ w.rec = rec
  BY <1>1, <1>2, HasRecord DEF Worker, Pcs, Results, ReadInit, At
<1>4. LocalsOK(w)
  BY <1>1, <1>2, <1>3, HasRecord DEF LocalsOK, ReadInit, At
<1>5. worker' = [worker EXCEPT ![t] = w]
  BY DEF ReadInit
<1> HIDE DEF w, rec
<1>6. WorkersOK'
  BY <1>3, <1>4, <1>5, PutOK
<1>7. Moved(t, "reading")
  BY <1>3, <1>5, PutMoves
<1> QED
  BY <1>6, <1>7

LEMMA ReadDecisionMoves ==
  ASSUME NEW t \in Turns, NEW d \in Decisions, WorkersOK, ReadDecision(t, d)
  PROVE  WorkersOK' /\ Moved(t, "reading")
<1> DEFINE rec == [worker[t].rec EXCEPT !.decisions = @ \cup {d}]
           w == [worker[t] EXCEPT !.rec = rec]
<1>1. worker[t].pc \in Claiming \cup Holding
  BY DEF ReadDecision, At, Holding, Working, Owning, Judging
<1>2. rec \in Record /\ rec.id = worker[t].rec.id
  BY <1>1, HasRecord DEF Record
<1>3. w \in Worker /\ w.pc = "reading" /\ w.run = worker[t].run /\ w.rec = rec
  BY <1>1, <1>2, HasRecord DEF Worker, Pcs, Results, ReadDecision, At
<1>4. LocalsOK(w)
  BY <1>1, <1>2, <1>3, HasRecord DEF LocalsOK, ReadDecision, At
<1>5. worker' = [worker EXCEPT ![t] = w]
  BY DEF ReadDecision
<1> HIDE DEF w, rec
<1>6. WorkersOK'
  BY <1>3, <1>4, <1>5, PutOK
<1>7. Moved(t, "reading")
  BY <1>3, <1>5, PutMoves
<1> QED
  BY <1>6, <1>7

LEMMA ReadResultMoves ==
  ASSUME NEW t \in Turns, NEW result \in Results, WorkersOK, ReadResult(t, result)
  PROVE  WorkersOK' /\ Moved(t, "reading")
<1> DEFINE rec == [worker[t].rec EXCEPT !.session = TRUE]
           w == [worker[t] EXCEPT !.rec = rec, !.result = result]
<1>1. worker[t].pc \in Claiming \cup Holding
  BY DEF ReadResult, At, Holding, Working, Owning, Judging
<1>2. rec \in Record /\ rec.id = worker[t].rec.id
  BY <1>1, HasRecord DEF Record
<1>3. w \in Worker /\ w.pc = "reading" /\ w.run = worker[t].run /\ w.rec = rec
  BY <1>1, <1>2, HasRecord DEF Worker, Pcs, Results, ReadResult, At
<1>4. LocalsOK(w)
  BY <1>1, <1>2, <1>3, HasRecord DEF LocalsOK, ReadResult, At
<1>5. worker' = [worker EXCEPT ![t] = w]
  BY DEF ReadResult
<1> HIDE DEF w, rec
<1>6. WorkersOK'
  BY <1>3, <1>4, <1>5, PutOK
<1>7. Moved(t, "reading")
  BY <1>3, <1>5, PutMoves
<1> QED
  BY <1>6, <1>7

LEMMA LoopFailsMoves ==
  ASSUME NEW t \in Turns, WorkersOK, LoopFails(t)
  PROVE  WorkersOK' /\ Moved(t, "draining")
<1> DEFINE rec == worker[t].rec
           w == [worker[t] EXCEPT !.pc = "draining", !.error = TRUE]
<1>1. worker[t].pc \in Claiming \cup Holding
  BY DEF LoopFails, At, Holding, Working, Owning, Judging
<1>2. rec \in Record /\ rec.id = worker[t].rec.id
  BY <1>1, HasRecord DEF Record
<1>3. w \in Worker /\ w.pc = "draining" /\ w.run = worker[t].run /\ w.rec = rec
  BY <1>1, <1>2, HasRecord DEF Worker, Pcs, Results, LoopFails, At
<1>4. LocalsOK(w)
  BY <1>1, <1>2, <1>3, HasRecord DEF LocalsOK, LoopFails, At
<1>5. worker' = [worker EXCEPT ![t] = w]
  BY DEF LoopFails
<1> HIDE DEF w, rec
<1>6. WorkersOK'
  BY <1>3, <1>4, <1>5, PutOK
<1>7. Moved(t, "draining")
  BY <1>3, <1>5, PutMoves
<1> QED
  BY <1>6, <1>7

LEMMA VerifyMoves ==
  ASSUME NEW t \in Turns, NEW valid \in BOOLEAN, WorkersOK, Verify(t, valid)
  PROVE  WorkersOK' /\ Moved(t, "verified")
<1> DEFINE rec == [worker[t].rec EXCEPT !.status = "verifying"]
           w == [worker[t] EXCEPT !.pc = "verified", !.rec = rec, !.valid = valid]
<1>1. worker[t].pc \in Claiming \cup Holding
  BY DEF Verify, At, Holding, Working, Owning, Judging
<1>2. rec \in Record /\ rec.id = worker[t].rec.id
  BY <1>1, HasRecord DEF Record, ActiveStatus
<1>3. w \in Worker /\ w.pc = "verified" /\ w.run = worker[t].run /\ w.rec = rec
  BY <1>1, <1>2, HasRecord DEF Worker, Pcs, Results, Verify, At
<1>4. LocalsOK(w)
  BY <1>1, <1>2, <1>3, HasRecord DEF LocalsOK, Verify, At
<1>5. worker' = [worker EXCEPT ![t] = w]
  BY DEF Verify
<1> HIDE DEF w, rec
<1>6. WorkersOK'
  BY <1>3, <1>4, <1>5, PutOK
<1>7. Moved(t, "verified")
  BY <1>3, <1>5, PutMoves
<1> QED
  BY <1>6, <1>7

LEMMA BlameMoves ==
  ASSUME NEW t \in Turns, NEW exitedClean \in BOOLEAN, WorkersOK, Blame(t, exitedClean)
  PROVE  WorkersOK' /\ Moved(t, "blamed")
<1> DEFINE rec == worker[t].rec
           w == [worker[t] EXCEPT !.pc = "blamed",
                     !.error = \/ worker[t].error
                               \/ Run(t) \in halted
                               \/ worker[t].result = "error"
                               \/ ~exitedClean]
<1>1. worker[t].pc \in Claiming \cup Holding
  BY DEF Blame, At, Holding, Working, Owning, Judging
<1>2. rec \in Record /\ rec.id = worker[t].rec.id
  BY <1>1, HasRecord DEF Record
<1>3. w \in Worker /\ w.pc = "blamed" /\ w.run = worker[t].run /\ w.rec = rec
  BY <1>1, <1>2, HasRecord DEF Worker, Pcs, Results, Blame, At
<1>4. LocalsOK(w)
  BY <1>1, <1>2, <1>3, HasRecord DEF LocalsOK, Blame, At
<1>5. worker' = [worker EXCEPT ![t] = w]
  BY DEF Blame, Run
<1> HIDE DEF w, rec
<1>6. WorkersOK'
  BY <1>3, <1>4, <1>5, PutOK
<1>7. Moved(t, "blamed")
  BY <1>3, <1>5, PutMoves
<1> QED
  BY <1>6, <1>7

LEMMA DecideMoves ==
  ASSUME NEW t \in Turns, WorkersOK, Decide(t)
  PROVE  WorkersOK' /\ Moved(t, "decided")
<1> DEFINE rec == [worker[t].rec EXCEPT !.status = Verdict(worker[t])]
           w == Local("decided", worker[t].run, rec)
<1>1. worker[t].pc \in Claiming \cup Holding
  BY DEF Decide, At, Holding, Working, Owning, Judging
<1>2. rec \in Record /\ rec.id = worker[t].rec.id /\ rec.status \in FinalStatus
  BY <1>1, HasRecord, VerdictType DEF Record
<1>3. w \in Worker /\ w.pc = "decided" /\ w.run = worker[t].run /\ w.rec = rec
  BY <1>1, <1>2, HasRecord, LocalType DEF Worker, Pcs, Results, Decide, At
<1>4. LocalsOK(w)
  BY <1>1, <1>2, <1>3, HasRecord DEF LocalsOK
<1>5. worker' = [worker EXCEPT ![t] = w]
  BY DEF Decide, Run
<1> HIDE DEF w, rec
<1>6. WorkersOK'
  BY <1>3, <1>4, <1>5, PutOK
<1>7. Moved(t, "decided")
  BY <1>3, <1>5, PutMoves
<1> QED
  BY <1>6, <1>7

\* A claim gives a fresh turn a queued record.
LEMMA ClaimMoves ==
  ASSUME NEW t \in Turns, NEW pc \in Claiming, NEW rec \in Record, WorkersOK,
         worker' = [worker EXCEPT ![t] = Local(pc, rec.id, rec)]
  PROVE  /\ WorkersOK'
         /\ \A u \in Turns \ {t} : worker'[u] = worker[u]
         /\ worker'[t].pc = pc
         /\ worker'[t].run = rec.id
<1> DEFINE w == Local(pc, rec.id, rec)
<1>1. rec.id \in Runs
  BY DEF Record
<1>2. w \in Worker /\ w.pc = pc /\ w.run = rec.id /\ w.rec = rec
  BY <1>1, LocalType DEF Pcs, Claiming
<1>3. LocalsOK(w)
  BY <1>1, <1>2 DEF LocalsOK, Claiming
<1>4. worker' = [worker EXCEPT ![t] = w]
  OBVIOUS
<1> HIDE DEF w
<1>5. WorkersOK'
  BY <1>2, <1>3, <1>4, PutOK
<1>6. \A u \in Turns : worker'[u] = IF u = t THEN w ELSE worker[u]
  BY <1>4 DEF WorkersOK
<1> QED
  BY <1>2, <1>5, <1>6

LEMMA LaunchMoves ==
  ASSUME NEW t \in Turns, NEW r \in Runs, WorkersOK, Launch(t, r)
  PROVE  /\ WorkersOK'
         /\ \A u \in Turns \ {t} : worker'[u] = worker[u]
         /\ worker'[t].pc = "launching"
         /\ worker'[t].run = r
<1> DEFINE rec == NewRecord(r)
<1>1. rec \in Record /\ rec.id = r
  BY NewRecordType
<1>2. worker' = [worker EXCEPT ![t] = Local("launching", rec.id, rec)]
  BY <1>1 DEF Launch
<1> HIDE DEF rec
<1> QED
  BY <1>1, <1>2, ClaimMoves DEF Claiming

\* The record a follow-up claims with: the one it read, queued.
Queued(q) == [read[q] EXCEPT !.status = "queued"]

LEMMA QueuedType ==
  ASSUME NEW q \in Requests, TypeOK, read[q] # NoRecord
  PROVE  /\ Queued(q) \in Record
         /\ Queued(q).id = read[q].id
         /\ Queued(q).status = "queued"
         /\ Queued(q).id \in Runs
<1>1. read[q] \in Record
  BY DEF TypeOK
<1> QED
  BY <1>1 DEF Queued, Record, ActiveStatus

LEMMA MessageClaimMoves ==
  ASSUME NEW t \in Turns, NEW q \in Requests, TypeOK, WorkersOK, MessageClaim(t, q)
  PROVE  /\ WorkersOK'
         /\ \A u \in Turns \ {t} : worker'[u] = worker[u]
         /\ worker'[t].pc = "resuming"
         /\ worker'[t].run = Queued(q).id
         /\ disk' = [disk EXCEPT ![Queued(q).id] = Queued(q)]
<1> DEFINE rec == Queued(q)
<1>1. rec \in Record
  BY QueuedType DEF MessageClaim
<1>2. /\ worker' = [worker EXCEPT ![t] = Local("resuming", rec.id, rec)]
      /\ disk' = [disk EXCEPT ![rec.id] = rec]
  BY DEF MessageClaim, Queued
<1> HIDE DEF rec
<1>3. /\ WorkersOK'
      /\ \A u \in Turns \ {t} : worker'[u] = worker[u]
      /\ worker'[t].pc = "resuming"
      /\ worker'[t].run = rec.id
  BY <1>1, <1>2, ClaimMoves DEF Claiming
<1> QED
  BY <1>2, <1>3 DEF rec

LEMMA ActivateMoves ==
  ASSUME NEW t \in Turns, WorkersOK, Activate(t)
  PROVE  WorkersOK' /\ Moved(t, "activated")
  BY GotoMoves DEF Activate, Claiming, Pcs

LEMMA BeginMoves ==
  ASSUME NEW t \in Turns, WorkersOK, Begin(t)
  PROVE  WorkersOK' /\ Moved(t, "started")
  BY GotoMoves DEF Begin, At, Holding, Working, Pcs

LEMMA SpawnMoves ==
  ASSUME NEW t \in Turns, WorkersOK, Spawn(t)
  PROVE  WorkersOK' /\ Moved(t, "spawned")
  BY GotoMoves DEF Spawn, At, Holding, Working, Pcs

LEMMA RegisterMoves ==
  ASSUME NEW t \in Turns, WorkersOK, Register(t)
  PROVE  WorkersOK' /\ Moved(t, "registered")
  BY GotoMoves DEF Register, At, Holding, Working, Pcs

LEMMA StartTimerMoves ==
  ASSUME NEW t \in Turns, WorkersOK, StartTimer(t)
  PROVE  WorkersOK' /\ Moved(t, "announcing")
  BY GotoMoves DEF StartTimer, At, Holding, Working, Owning, Pcs

LEMMA ReapMoves ==
  ASSUME NEW t \in Turns, WorkersOK, Reap(t)
  PROVE  WorkersOK' /\ Moved(t, "judging")
  BY GotoMoves DEF Reap, At, Holding, Working, Owning, Pcs

LEMMA StoreVerdictMoves ==
  ASSUME NEW t \in Turns, WorkersOK, StoreVerdict(t)
  PROVE  WorkersOK' /\ Moved(t, "stored")
  BY GotoMoves DEF StoreVerdict, At, Holding, Working, Judging, Pcs

LEMMA FinishFailsMoves ==
  ASSUME NEW t \in Turns, WorkersOK, FinishFails(t)
  PROVE  WorkersOK' /\ Moved(t, "abandoned")
  BY GotoMoves DEF FinishFails, At, Holding, Working, Judging, Pcs

LEMMA PruneListMoves ==
  ASSUME NEW t \in Turns, WorkersOK, PruneList(t)
  PROVE  WorkersOK' /\ \E pc \in {"pruning", "done"} : Moved(t, pc)
<1>1. CASE Surplus = {}
  <2>1. End(t, "done")
    BY <1>1 DEF PruneList, End
  <2> QED
    BY <2>1, EndMoves
<1>2. CASE Surplus # {}
  <2>1. worker' = [worker EXCEPT ![t] = [@ EXCEPT !.victims = Surplus]]
    BY <1>2 DEF PruneList
  <2>2. Surplus \in SUBSET Runs
    BY DEF Surplus, Finished
  <2> HIDE DEF Surplus
  <2> QED
    BY <2>1, <2>2, VictimsMove DEF PruneList
<1> QED
  BY <1>1, <1>2

LEMMA PruneUnlinkMoves ==
  ASSUME NEW t \in Turns, NEW r \in Runs, WorkersOK, PruneUnlink(t, r)
  PROVE  WorkersOK' /\ \E pc \in {"pruning", "done"} : Moved(t, pc)
<1> DEFINE rest == worker[t].victims \ {r}
<1>1. CASE worker[t].victims = {r}
  <2>1. End(t, "done")
    BY <1>1 DEF PruneUnlink, End
  <2> QED
    BY <2>1, EndMoves
<1>2. CASE worker[t].victims # {r}
  <2>1. worker' = [worker EXCEPT ![t] = [@ EXCEPT !.victims = rest]]
    BY <1>2 DEF PruneUnlink
  <2>2. rest \in SUBSET Runs
    BY DEF WorkersOK, Worker
  <2> HIDE DEF rest
  <2> QED
    BY <2>1, <2>2, VictimsMove DEF PruneUnlink
<1> QED
  BY <1>1, <1>2

LEMMA FreeMoves ==
  ASSUME NEW t \in Turns, WorkersOK, Free(t)
  PROVE  WorkersOK' /\ \E pc \in {"pruning", "done"} : Moved(t, pc)
  BY EndMoves DEF Free

-----------------------------------------------------------------------------
(* Steps that leave most of the invariant alone.                           *)

\* A thread that keeps the slot moves on without touching it.
LEMMA QuietStep ==
  ASSUME NEW t \in Turns, NEW pc \in Working, Inv, Moved(t, pc), worker[t].pc \in Working,
         UNCHANGED <<mutex, active, process, flags, disk, born, read, proc>>,
         signalled \subseteq signalled',
         pc \in Owning => worker[t].pc \in Owning,
         worker[t].pc \in Registered => pc \in Registered,
         proc[t] = "live" => pc \in MayLive
  PROVE  SlotInv' /\ ProcessInv' /\ StopInv' /\ DiskInv'
<1> USE DEF Inv, Moved, flags
<1>1. /\ mutex' = mutex /\ active' = active /\ process' = process
      /\ cancelled' = cancelled /\ halted' = halted
      /\ disk' = disk /\ born' = born /\ read' = read /\ proc' = proc
  OBVIOUS
<1>2. SlotInv'
  BY <1>1 DEF SlotInv, Run, Claiming, Holding, Working, Owning, Judging
<1>3. ProcessInv'
  BY <1>1 DEF ProcessInv, TypeOK, Registered, Holding, Working, Owning, Judging
<1>4. StopInv'
  BY <1>1 DEF StopInv
<1>5. DiskInv'
  <2>1. \A u \in Turns : /\ worker'[u].pc \in Claiming \cup Working <=>
                            worker[u].pc \in Claiming \cup Working
                         /\ worker'[u].run = worker[u].run
    BY DEF Claiming, Working, Owning, Judging
  <2> QED
    BY <1>1, <2>1 DEF DiskInv, Stored, Run, Launched
<1> QED
  BY <1>2, <1>3, <1>4, <1>5

\* A thread past the slot prunes.
LEMMA AsideStep ==
  ASSUME NEW t \in Turns, NEW pc \in {"pruning", "done"}, Inv, Moved(t, pc),
         At(t, "pruning"),
         UNCHANGED <<mutex, active, process, flags, born, read, proc, signalled>>,
         \A r \in Runs : disk'[r] \in {disk[r], NoRecord}
  PROVE  SlotInv' /\ ProcessInv' /\ StopInv' /\ DiskInv'
<1> USE DEF Inv, Moved, flags, At
<1>1. /\ mutex' = mutex /\ active' = active /\ process' = process
      /\ cancelled' = cancelled /\ halted' = halted
      /\ born' = born /\ read' = read /\ proc' = proc /\ signalled' = signalled
  OBVIOUS
<1>2. SlotInv'
  BY <1>1 DEF SlotInv, Run, Claiming, Holding, Working, Owning, Judging
<1>3. ProcessInv'
  BY <1>1 DEF ProcessInv, TypeOK, Registered, Holding, Working, Owning, Judging, MayLive
<1>4. StopInv'
  BY <1>1 DEF StopInv
<1>5. DiskInv'
  <2>1. \A u \in Turns : /\ worker'[u].pc \in Claiming \cup Working <=>
                            worker[u].pc \in Claiming \cup Working
                         /\ worker'[u].run = worker[u].run
    BY DEF Claiming, Working, Owning, Judging
  <2>2. \A t_1 \in Turns : worker[t_1].pc \in Claiming \cup Working => worker[t_1].run
     \in Runs
    BY DEF LocalsInv, LocalsOK, Holding
  <2>3. \A r \in Runs, S \in {ActiveStatus, FinalStatus} : Stored(r, S)' => Stored(r, S)
    BY DEF Stored
  <2> QED
    BY <1>1, <2>1, <2>2, <2>3 DEF DiskInv, Run, Launched
<1> QED
  BY <1>2, <1>3, <1>4, <1>5

\* No thread moves and no record changes.
LEMMA StillStep ==
  ASSUME Inv, UNCHANGED <<mutex, active, process, worker, disk, born>>,
         \A t \in Turns : proc'[t] = "live" => proc[t] = "live",
         \A q \in Requests : read'[q] \in {read[q], NoRecord} \cup {disk[r] : r \in Runs}
  PROVE  SlotInv' /\ ProcessInv' /\ DiskInv'
<1> USE DEF Inv
<1>1. SlotInv'
  BY DEF SlotInv, Run
<1>2. ProcessInv'
  BY DEF ProcessInv
<1>3. DiskInv'
  BY DEF DiskInv, Stored, Run, Launched
<1> QED
  BY <1>1, <1>2, <1>3

-----------------------------------------------------------------------------
(* The remaining steps, one lemma each.                                    *)

LEMMA LaunchedGrows ==
  ASSUME NEW r \in Runs, born \in Seq(Runs), born' = Append(born, r)
  PROVE  Launched' = Launched \cup {r}
<1>1. /\ Len(born) \in Nat /\ DOMAIN born = 1 .. Len(born)
      /\ DOMAIN born' = 1 .. (Len(born) + 1)
      /\ born'[Len(born) + 1] = r
      /\ \A i \in 1 .. Len(born) : born'[i] = born[i]
  OBVIOUS
<1> QED
  BY <1>1 DEF Launched

LEMMA LaunchStep ==
  ASSUME NEW t \in Turns, NEW r \in Runs, Inv, Launch(t, r)
  PROVE  SlotInv' /\ ProcessInv' /\ StopInv' /\ DiskInv'
<1> USE DEF Inv
<1>1. /\ \A u \in Turns \ {t} : worker'[u] = worker[u]
      /\ worker'[t].pc = "launching"
      /\ worker'[t].run = r
  BY LaunchMoves DEF WorkersOK, TypeOK
<1>2. /\ worker[t].pc = "none" /\ mutex = NoTurn /\ active = NoRun
      /\ r \notin Launched
      /\ mutex' = t /\ active' = active /\ process' = process
      /\ cancelled' = cancelled /\ halted' = halted /\ read' = read
      /\ proc' = proc /\ signalled' = signalled
      /\ disk' = [disk EXCEPT ![r] = NewRecord(r)] /\ born' = Append(born, r)
  BY DEF Launch, Claimable, At, flags, procs
<1>3. \A u \in Turns : worker[u].pc \notin Claiming \cup Holding
  BY <1>2, ConstantsAssumption DEF SlotInv, LocalsInv, LocalsOK, Run
<1>4. SlotInv'
  BY <1>1, <1>2, <1>3, ConstantsAssumption
     DEF SlotInv, Run, Claiming, Holding, Working, Owning, Judging
<1>5. ProcessInv'
  BY <1>1, <1>2, <1>3
     DEF ProcessInv, TypeOK, MayLive, Registered, Holding, Working, Owning, Judging
<1>6. StopInv'
  BY <1>2 DEF StopInv
<1>7. DiskInv'
  <2>1. /\ disk' \in [Runs -> Record \cup {NoRecord}]
        /\ disk'[r] # NoRecord /\ disk'[r].id = r /\ disk'[r].status = "queued"
        /\ \A s \in Runs \ {r} : disk'[s] = disk[s]
    BY <1>2, NewRecordType, ConstantsAssumption DEF TypeOK
  <2>2. Launched' = Launched \cup {r}
    BY <1>2, LaunchedGrows DEF TypeOK
  <2>3. \A q \in Requests : read[q] # NoRecord => read[q].id \in Runs
    BY DEF TypeOK, Record
  <2>4. \A u \in Turns : worker'[u].pc \in Claiming \cup Working => u = t
    BY <1>1, <1>3 DEF Holding
  <2>5. \A s \in Runs : Stored(s, ActiveStatus)' => s = r \/ Stored(s, ActiveStatus)
    BY <2>1 DEF Stored
  <2>6. ~Stored(r, FinalStatus)'
    BY <2>1 DEF Stored, FinalStatus
  <2>7. Faults = {} => \A s \in Runs : ~Stored(s, ActiveStatus)
    BY <1>3 DEF DiskInv, Holding
  <2>8. worker'[t].pc \in Claiming
    BY <1>1 DEF Claiming
  <2> QED
    BY <1>1, <1>2, <2>1, <2>2, <2>3, <2>4, <2>5, <2>6, <2>7, <2>8 DEF DiskInv, Run
<1> QED
  BY <1>4, <1>5, <1>6, <1>7

LEMMA LaunchFailsStep ==
  ASSUME NEW t \in Turns, Inv, LaunchFails(t)
  PROVE  SlotInv' /\ ProcessInv' /\ StopInv' /\ DiskInv'
<1> USE DEF Inv
<1>1. Moved(t, "done")
  BY EndMoves DEF WorkersOK, TypeOK, LaunchFails
<1>2. /\ worker[t].pc = "launching" /\ mutex' = NoTurn /\ active' = NoRun
      /\ Faults # {} /\ process' = process
      /\ cancelled' = cancelled /\ halted' = halted /\ read' = read
      /\ proc' = proc /\ signalled' = signalled /\ disk' = disk /\ born' = born
  BY DEF LaunchFails, At, flags, procs, store
<1>3. mutex = t /\ active = NoRun
  BY <1>2, ConstantsAssumption DEF SlotInv, Claiming
<1>4. SlotInv'
  BY <1>1, <1>2, <1>3, ConstantsAssumption
     DEF SlotInv, Moved, Run, Claiming, Holding, Working, Owning, Judging
<1>5. ProcessInv'
  BY <1>1, <1>2
     DEF ProcessInv, Moved, TypeOK, MayLive, Registered, Holding, Working, Owning, Judging
<1>6. StopInv'
  BY <1>2, <1>3 DEF StopInv
<1>7. DiskInv'
  <2>1. \A u \in Turns : /\ worker'[u].pc \in Claiming \cup Working =>
                            worker[u].pc \in Claiming \cup Working
                         /\ worker'[u].run = worker[u].run
    BY <1>1 DEF Moved, Claiming, Working, Owning, Judging
  <2> QED
    BY <1>2, <2>1 DEF DiskInv, Stored, Run, Launched
<1> QED
  BY <1>4, <1>5, <1>6, <1>7

LEMMA MessageClaimStep ==
  ASSUME NEW t \in Turns, NEW q \in Requests, Inv, MessageClaim(t, q)
  PROVE  SlotInv' /\ ProcessInv' /\ StopInv' /\ DiskInv'
<1> USE DEF Inv
<1>0. PICK rec \in Record : /\ rec = Queued(q) /\ rec.id = read[q].id
                            /\ rec.status = "queued" /\ rec.id \in Runs
  BY QueuedType DEF MessageClaim
<1>1. /\ \A u \in Turns \ {t} : worker'[u] = worker[u]
      /\ worker'[t].pc = "resuming"
      /\ worker'[t].run = rec.id
      /\ disk' = [disk EXCEPT ![rec.id] = rec]
  BY <1>0, MessageClaimMoves DEF WorkersOK, TypeOK
<1>2. /\ worker[t].pc = "none" /\ mutex = NoTurn /\ active = NoRun /\ read[q] # NoRecord
      /\ mutex' = t /\ active' = active /\ process' = process
      /\ cancelled' = cancelled /\ halted' = halted
      /\ proc' = proc /\ signalled' = signalled /\ born' = born
      /\ \A p \in Requests : read'[p] \in {read[p], NoRecord}
  BY DEF MessageClaim, Claimable, At, flags, procs, TypeOK
<1>3. \A u \in Turns : worker[u].pc \notin Claiming \cup Holding
  BY <1>2, ConstantsAssumption DEF SlotInv, LocalsInv, LocalsOK, Run
<1>4. SlotInv'
  BY <1>1, <1>2, <1>3, ConstantsAssumption
     DEF SlotInv, Run, Claiming, Holding, Working, Owning, Judging
<1>5. ProcessInv'
  BY <1>1, <1>2, <1>3
     DEF ProcessInv, TypeOK, MayLive, Registered, Holding, Working, Owning, Judging
<1>6. StopInv'
  BY <1>2 DEF StopInv
<1>7. DiskInv'
  <2>1. /\ disk'[rec.id] = rec
        /\ \A s \in Runs \ {rec.id} : disk'[s] = disk[s]
    BY <1>0, <1>1 DEF TypeOK
  <2>2. Launched' = Launched /\ rec.id \in Launched
    BY <1>0, <1>2 DEF DiskInv, Launched
  <2>3. \A u \in Turns : worker'[u].pc \in Claiming \cup Working => u = t
    BY <1>1, <1>3 DEF Holding
  <2>4. \A s \in Runs : Stored(s, ActiveStatus)' => s = rec.id \/ Stored(s, ActiveStatus)
    BY <2>1 DEF Stored
  <2>5. ~Stored(rec.id, FinalStatus)'
    BY <1>0, <2>1 DEF Stored, FinalStatus
  <2>6. Faults = {} => \A s \in Runs : ~Stored(s, ActiveStatus)
    BY <1>3 DEF DiskInv, Holding
  <2>7. worker'[t].pc \in Claiming
    BY <1>1 DEF Claiming
  <2> QED
    BY <1>0, <1>1, <1>2, <2>1, <2>2, <2>3, <2>4, <2>5, <2>6, <2>7 DEF DiskInv, Run
<1> QED
  BY <1>4, <1>5, <1>6, <1>7

LEMMA ActivateStep ==
  ASSUME NEW t \in Turns, Inv, Activate(t)
  PROVE  SlotInv' /\ ProcessInv' /\ StopInv' /\ DiskInv'
<1> USE DEF Inv
<1>1. Moved(t, "activated")
  BY ActivateMoves DEF WorkersOK, TypeOK
<1>2. /\ worker[t].pc \in Claiming /\ mutex' = NoTurn /\ active' = worker[t].run
      /\ process' = process /\ cancelled' = cancelled /\ halted' = halted
      /\ read' = read /\ proc' = proc /\ signalled' = signalled
      /\ disk' = disk /\ born' = born
  BY DEF Activate, Claiming, Run, flags, procs, store
<1>3. mutex = t /\ active = NoRun
  BY <1>2, ConstantsAssumption DEF SlotInv
<1>4. cancelled \cup halted = {}
  BY <1>3, ConstantsAssumption DEF StopInv, TypeOK
<1>5. \A u \in Turns \ {t} : worker[u].pc \notin Claiming \cup Holding
  BY <1>2 DEF SlotInv
<1>6. SlotInv'
  BY <1>1, <1>2, <1>3, <1>5, ConstantsAssumption
     DEF SlotInv, Moved, Run, Claiming, Holding, Working, Owning, Judging
<1>7. ProcessInv'
  BY <1>1, <1>2, <1>5
     DEF ProcessInv, Moved, TypeOK, MayLive, Registered, Claiming, Holding, Working,
         Owning, Judging
<1>8. StopInv'
  BY <1>2, <1>4 DEF StopInv
<1>9. DiskInv'
  <2>1. \A u \in Turns : /\ worker'[u].pc \in Claiming \cup Working <=>
                            worker[u].pc \in Claiming \cup Working
                         /\ worker'[u].run = worker[u].run
    BY <1>1, <1>2 DEF Moved, Claiming, Working, Owning, Judging
  <2> QED
    BY <1>2, <2>1 DEF DiskInv, Stored, Run, Launched
<1> QED
  BY <1>6, <1>7, <1>8, <1>9

\* The request that held the slot is gone and the slot stays taken.
LEMMA BeginFailsStep ==
  ASSUME NEW t \in Turns, Inv, BeginFails(t)
  PROVE  SlotInv' /\ ProcessInv' /\ StopInv' /\ DiskInv'
<1> USE DEF Inv
<1>1. Moved(t, "done")
  BY EndMoves DEF WorkersOK, TypeOK, BeginFails
<1>2. /\ worker[t].pc = "activated" /\ mutex' = mutex /\ active' = active
      /\ Faults # {} /\ process' = process
      /\ cancelled' = cancelled /\ halted' = halted /\ read' = read
      /\ proc' = proc /\ signalled' = signalled /\ disk' = disk /\ born' = born
  BY DEF BeginFails, At, slot, flags, procs, store
<1>3. SlotInv'
  BY <1>1, <1>2 DEF SlotInv, Moved, Run, Claiming, Holding, Working, Owning, Judging
<1>4. process # t
  BY <1>2, ConstantsAssumption DEF ProcessInv, Registered, Owning, Judging
<1>5. ProcessInv'
  BY <1>1, <1>2, <1>4
     DEF ProcessInv, Moved, TypeOK, MayLive, Registered, Holding, Working, Owning, Judging
<1>6. StopInv'
  BY <1>2 DEF StopInv
<1>7. DiskInv'
  <2>1. \A u \in Turns : /\ worker'[u].pc \in Claiming \cup Working =>
                            worker[u].pc \in Claiming \cup Working
                         /\ worker'[u].run = worker[u].run
    BY <1>1 DEF Moved, Claiming, Working, Owning, Judging
  <2> QED
    BY <1>2, <2>1 DEF DiskInv, Stored, Run, Launched
<1> QED
  BY <1>3, <1>5, <1>6, <1>7

LEMMA SpawnStep ==
  ASSUME NEW t \in Turns, Inv, Spawn(t)
  PROVE  SlotInv' /\ ProcessInv' /\ StopInv' /\ DiskInv'
<1> USE DEF Inv
<1>1. Moved(t, "spawned")
  BY SpawnMoves DEF WorkersOK, TypeOK
<1>2. /\ worker[t].pc = "started" /\ mutex' = mutex /\ active' = active
      /\ process' = process /\ cancelled' = cancelled /\ halted' = halted
      /\ read' = read /\ signalled' = signalled /\ disk' = disk /\ born' = born
      /\ \A u \in Turns \ {t} : proc'[u] = proc[u]
  BY DEF Spawn, At, slot, flags, store, TypeOK
<1>3. SlotInv'
  BY <1>1, <1>2 DEF SlotInv, Moved, Run, Claiming, Holding, Working, Owning, Judging
<1>4. process # t
  BY <1>2, ConstantsAssumption DEF ProcessInv, Registered, Owning, Judging
<1>5. ProcessInv'
  BY <1>1, <1>2, <1>4 DEF ProcessInv, Moved, TypeOK, MayLive, Registered, Owning, Judging
<1>6. StopInv'
  BY <1>2 DEF StopInv
<1>7. DiskInv'
  <2>1. \A u \in Turns : /\ worker'[u].pc \in Claiming \cup Working <=>
                            worker[u].pc \in Claiming \cup Working
                         /\ worker'[u].run = worker[u].run
    BY <1>1, <1>2 DEF Moved, Claiming, Working, Owning, Judging
  <2> QED
    BY <1>2, <2>1 DEF DiskInv, Stored, Run, Launched
<1> QED
  BY <1>3, <1>5, <1>6, <1>7

\* Registering carries out the cancel or halt that came before the process.
LEMMA RegisterStep ==
  ASSUME NEW t \in Turns, Inv, Register(t)
  PROVE  SlotInv' /\ ProcessInv' /\ StopInv' /\ DiskInv'
<1> USE DEF Inv
<1>1. Moved(t, "registered")
  BY RegisterMoves DEF WorkersOK, TypeOK
<1>2. /\ worker[t].pc = "spawned" /\ mutex' = mutex /\ active' = active
      /\ process' = t /\ cancelled' = cancelled /\ halted' = halted
      /\ read' = read /\ proc' = proc /\ disk' = disk /\ born' = born
      /\ worker[t].run \in cancelled \cup halted => t \in signalled'
  BY DEF Register, At, Run, slot, flags, store
<1>3. SlotInv'
  BY <1>1, <1>2 DEF SlotInv, Moved, Run, Claiming, Holding, Working, Owning, Judging
<1>4. \A u \in Turns \ {t} : worker[u].pc \notin Holding
  BY <1>2 DEF SlotInv, Holding, Working
<1>5. ProcessInv'
  BY <1>1, <1>2, <1>4
     DEF ProcessInv, Moved, TypeOK, MayLive, Registered, Holding, Working, Owning, Judging
<1>6. StopInv'
  <2>1. active = worker[t].run
    BY <1>2 DEF SlotInv, Run, Holding, Working
  <2> QED
    BY <1>2, <2>1 DEF StopInv
<1>7. DiskInv'
  <2>1. \A u \in Turns : /\ worker'[u].pc \in Claiming \cup Working <=>
                            worker[u].pc \in Claiming \cup Working
                         /\ worker'[u].run = worker[u].run
    BY <1>1, <1>2 DEF Moved, Claiming, Working, Owning, Judging
  <2> QED
    BY <1>2, <2>1 DEF DiskInv, Stored, Run, Launched
<1> QED
  BY <1>3, <1>5, <1>6, <1>7

\* The record a worker stores once its process runs.
Announced(t) == [worker[t].rec EXCEPT !.status = "running", !.pid = t]

LEMMA AnnouncedType ==
  ASSUME NEW t \in Turns, WorkersOK, SaveRunning(t)
  PROVE  /\ Announced(t) \in Record
         /\ Announced(t).id = worker[t].run
         /\ Announced(t).status = "running"
         /\ worker[t].run \in Runs
         /\ disk' = [disk EXCEPT ![worker[t].run] = Announced(t)]
<1>1. worker[t].pc \in Holding /\ worker[t].pc # "decided"
  BY DEF SaveRunning, At, Holding, Working, Owning
<1>2. worker[t].rec \in Record /\ worker[t].rec.id = worker[t].run /\ worker[t].run \in Runs
  BY <1>1, HasRecord
<1>3. /\ Announced(t) \in Record
      /\ Announced(t).id = worker[t].run
      /\ Announced(t).status = "running"
  BY <1>2 DEF Announced, Record, ActiveStatus
<1>4. disk' = [disk EXCEPT ![Announced(t).id] = Announced(t)]
  BY DEF SaveRunning, Announced
<1> QED
  BY <1>2, <1>3, <1>4

LEMMA SaveRunningStep ==
  ASSUME NEW t \in Turns, Inv, SaveRunning(t)
  PROVE  SlotInv' /\ ProcessInv' /\ StopInv' /\ DiskInv'
<1> USE DEF Inv
<1>0. WorkersOK
  BY DEF WorkersOK, TypeOK
<1>1. Moved(t, "reading")
  BY <1>0, SaveRunningMoves
<1>2. /\ worker[t].pc = "announcing" /\ mutex' = mutex /\ active' = active
      /\ process' = process /\ cancelled' = cancelled /\ halted' = halted
      /\ read' = read /\ proc' = proc /\ signalled' = signalled /\ born' = born
  BY DEF SaveRunning, At, slot, flags, procs
<1>3. PICK rec \in Record : /\ rec.id = worker[t].run /\ rec.id \in Runs
                            /\ rec.status = "running"
                            /\ disk' = [disk EXCEPT ![rec.id] = rec]
  BY <1>0, AnnouncedType
<1>4. SlotInv'
  BY <1>1, <1>2 DEF SlotInv, Moved, Run, Claiming, Holding, Working, Owning, Judging
<1>5. ProcessInv'
  BY <1>1, <1>2 DEF ProcessInv, Moved, TypeOK, MayLive, Registered, Owning, Judging
<1>6. StopInv'
  BY <1>2 DEF StopInv
<1>7. DiskInv'
  <2>1. \A u \in Turns : /\ worker'[u].pc \in Claiming \cup Working <=>
                            worker[u].pc \in Claiming \cup Working
                         /\ worker'[u].run = worker[u].run
    BY <1>1, <1>2 DEF Moved, Claiming, Working, Owning, Judging
  <2>2. /\ disk'[rec.id] = rec
        /\ \A s \in Runs \ {rec.id} : disk'[s] = disk[s]
    BY <1>3 DEF TypeOK
  <2>3. \A s \in Runs : Stored(s, FinalStatus)' => Stored(s, FinalStatus)
    BY <1>3, <2>2 DEF Stored, FinalStatus
  <2>4. \A s \in Runs : Stored(s, ActiveStatus)' => s = rec.id \/ Stored(s, ActiveStatus)
    BY <2>2 DEF Stored
  <2>5. worker'[t].pc \in Claiming \cup Working /\ worker'[t].run = rec.id
    BY <1>1, <1>3 DEF Moved, Working, Owning
  <2>6. \A u \in Turns : worker[u].pc \in Claiming \cup Working => worker[u].run \in Runs
    BY DEF LocalsInv, LocalsOK, Holding
  <2>7. Launched' = Launched
    BY <1>2 DEF Launched
  <2>8. rec.id \in Launched
    BY <1>2, <1>3 DEF DiskInv, Run, Claiming, Working, Owning
  <2> QED
    BY <1>2, <1>3, <2>1, <2>2, <2>3, <2>4, <2>5, <2>6, <2>7, <2>8 DEF DiskInv, Run
<1> QED
  BY <1>4, <1>5, <1>6, <1>7

LEMMA StoreVerdictStep ==
  ASSUME NEW t \in Turns, Inv, StoreVerdict(t)
  PROVE  SlotInv' /\ ProcessInv' /\ StopInv' /\ DiskInv'
<1> USE DEF Inv
<1>1. Moved(t, "stored")
  BY StoreVerdictMoves DEF WorkersOK, TypeOK
<1>2. /\ worker[t].pc = "decided" /\ mutex' = mutex /\ active' = active
      /\ process' = process /\ cancelled' = cancelled /\ halted' = halted
      /\ read' = read /\ proc' = proc /\ signalled' = signalled /\ born' = born
      /\ disk' = [disk EXCEPT ![worker[t].run] = worker[t].rec]
  BY DEF StoreVerdict, At, Run, slot, flags, procs
<1>3. PICK rec \in Record : /\ rec.id = worker[t].run /\ rec.id \in Runs
                            /\ rec.status \in FinalStatus
                            /\ disk' = [disk EXCEPT ![rec.id] = rec]
  BY <1>2 DEF LocalsInv, LocalsOK, At, Holding, Working, Judging
<1>4. SlotInv'
  BY <1>1, <1>2 DEF SlotInv, Moved, Run, Claiming, Holding, Working, Owning, Judging
<1>5. ProcessInv'
  BY <1>1, <1>2 DEF ProcessInv, Moved, TypeOK, MayLive, Registered, Owning, Judging
<1>6. StopInv'
  BY <1>2 DEF StopInv
<1>7. DiskInv'
  <2>1. \A u \in Turns \ {t} : worker[u].pc \notin Claiming \cup Holding
    BY <1>2 DEF SlotInv, Holding, Working, Judging
  <2>2. \A u \in Turns : worker'[u].pc \notin Claiming \cup Working
    BY <1>1, <2>1 DEF Moved, Claiming, Holding, Working, Owning, Judging
  <2>3. /\ disk'[rec.id] = rec
        /\ \A s \in Runs \ {rec.id} : disk'[s] = disk[s]
    BY <1>3 DEF TypeOK
  <2>4. \A s \in Runs : Stored(s, ActiveStatus)' => s # rec.id /\ Stored(s, ActiveStatus)
    BY <1>3, <2>3 DEF Stored, ActiveStatus, FinalStatus
  <2>5. Faults = {} => \A s \in Runs : Stored(s, ActiveStatus) => s = rec.id
    BY <1>3, <2>1 DEF DiskInv, Run, Holding
  <2>6. Launched' = Launched
    BY <1>2 DEF Launched
  <2>7. rec.id \in Launched
    BY <1>2, <1>3 DEF DiskInv, Run, Working, Judging
  <2> QED
    BY <1>2, <1>3, <2>2, <2>3, <2>4, <2>5, <2>6, <2>7 DEF DiskInv
<1> QED
  BY <1>4, <1>5, <1>6, <1>7

LEMMA FinishFailsStep ==
  ASSUME NEW t \in Turns, Inv, FinishFails(t)
  PROVE  SlotInv' /\ ProcessInv' /\ StopInv' /\ DiskInv'
<1> USE DEF Inv
<1>1. Moved(t, "abandoned")
  BY FinishFailsMoves DEF WorkersOK, TypeOK
<1>2. /\ worker[t].pc \in Judging /\ mutex' = mutex /\ active' = active
      /\ Faults # {} /\ process' = process
      /\ cancelled' = cancelled /\ halted' = halted /\ read' = read
      /\ proc' = proc /\ signalled' = signalled /\ disk' = disk /\ born' = born
  BY DEF FinishFails, Judging, slot, flags, procs, store
<1>3. SlotInv'
  BY <1>1, <1>2 DEF SlotInv, Moved, Run, Claiming, Holding, Working, Owning, Judging
<1>4. ProcessInv'
  BY <1>1, <1>2 DEF ProcessInv, Moved, TypeOK, MayLive, Registered, Owning, Judging
<1>5. StopInv'
  BY <1>2 DEF StopInv
<1>6. DiskInv'
  <2>1. \A u \in Turns : /\ worker'[u].pc \in Claiming \cup Working =>
                            worker[u].pc \in Claiming \cup Working
                         /\ worker'[u].run = worker[u].run
    BY <1>1, <1>2 DEF Moved, Claiming, Working, Owning, Judging
  <2> QED
    BY <1>2, <2>1 DEF DiskInv, Stored, Run, Launched
<1> QED
  BY <1>3, <1>4, <1>5, <1>6

LEMMA FreeStep ==
  ASSUME NEW t \in Turns, Inv, Free(t)
  PROVE  SlotInv' /\ ProcessInv' /\ StopInv' /\ DiskInv'
<1> USE DEF Inv
<1>1. PICK pc \in {"pruning", "done"} : Moved(t, pc)
  BY FreeMoves DEF WorkersOK, TypeOK
<1>2. /\ worker[t].pc \in {"stored", "abandoned"} /\ mutex = NoTurn /\ mutex' = mutex
      /\ cancelled' = cancelled \ {worker[t].run} /\ halted' = halted \ {worker[t].run}
      /\ read' = read /\ proc' = proc /\ signalled' = signalled
      /\ disk' = disk /\ born' = born
  BY DEF Free, Run, procs, store
<1>3. active = worker[t].run /\ worker[t].run \in Runs
  BY <1>2 DEF SlotInv, LocalsInv, LocalsOK, Run, Holding
<1>4. active' = NoRun /\ process' = NoTurn
  BY <1>3, ConstantsAssumption DEF Free, Running, Run
<1>5. \A u \in Turns \ {t} : worker[u].pc \notin Claiming \cup Holding
  BY <1>2 DEF SlotInv, Holding
<1>6. SlotInv'
  BY <1>1, <1>2, <1>4, <1>5, ConstantsAssumption
     DEF SlotInv, Moved, Run, Claiming, Holding, Working, Owning, Judging
<1>7. ProcessInv'
  BY <1>1, <1>2, <1>4, <1>5
     DEF ProcessInv, Moved, TypeOK, MayLive, Registered, Holding, Working, Owning, Judging
<1>8. StopInv'
  BY <1>2, <1>3, <1>4 DEF StopInv
<1>9. DiskInv'
  <2>1. \A u \in Turns : /\ worker'[u].pc \in Claiming \cup Working <=>
                            worker[u].pc \in Claiming \cup Working
                         /\ worker'[u].run = worker[u].run
    BY <1>1, <1>2 DEF Moved, Claiming, Working, Owning, Judging
  <2> QED
    BY <1>2, <2>1 DEF DiskInv, Stored, Run, Launched
<1> QED
  BY <1>6, <1>7, <1>8, <1>9

LEMMA CancelStop ==
  ASSUME NEW r \in Runs, Inv, Cancel(r)
  PROVE  StopInv'
<1>1. /\ active = r /\ active' = active /\ process' = process
      /\ cancelled' = cancelled \cup {r} /\ halted' = halted
      /\ process # NoTurn => process \in signalled'
  BY DEF Cancel, Running, SignalHeld, slot
<1> QED
  BY <1>1 DEF Inv, StopInv

LEMMA ExpireStop ==
  ASSUME NEW t \in Turns, Inv, Expire(t)
  PROVE  StopInv'
<1>1. active' = active /\ process' = process /\ cancelled' = cancelled
  BY DEF Expire, slot
<1>2. CASE Running(Run(t))
  <2>1. /\ active = Run(t) /\ halted' = halted \cup {Run(t)}
        /\ process # NoTurn => process \in signalled'
    BY <1>2 DEF Expire, Halt, Running, SignalHeld
  <2> QED
    BY <1>1, <2>1 DEF Inv, StopInv
<1>3. CASE ~Running(Run(t))
  <2>1. halted' = halted /\ signalled' = signalled
    BY <1>3 DEF Expire, Halt
  <2> QED
    BY <1>1, <2>1 DEF Inv, StopInv
<1> QED
  BY <1>2, <1>3

-----------------------------------------------------------------------------
(* Types.                                                                  *)

LEMMA TypeStep == TypeOK /\ LocalsInv /\ [Next]_vars => TypeOK' /\ LocalsInv'
<1> SUFFICES ASSUME TypeOK, LocalsInv, [Next]_vars PROVE TypeOK' /\ LocalsInv'
  OBVIOUS
<1> USE ConstantsAssumption DEF TypeOK, slot, flags, store, procs
<1>0. TypeOK /\ WorkersOK
  BY DEF WorkersOK
<1>1. ASSUME NEW t \in Turns, NEW r \in Runs, Launch(t, r) PROVE TypeOK' /\ LocalsInv'
  <2>1. WorkersOK'
    BY <1>0, <1>1, LaunchMoves
  <2> QED
    BY <1>0, <1>1, <2>1, NewRecordType DEF WorkersOK, Launch
<1>2. ASSUME NEW t \in Turns, LaunchFails(t) PROVE TypeOK' /\ LocalsInv'
  <2>1. WorkersOK'
    BY <1>0, <1>2, EndMoves DEF LaunchFails
  <2> QED
    BY <1>0, <1>2, <2>1 DEF WorkersOK, LaunchFails
<1>3. ASSUME NEW q \in Requests, NEW r \in Runs, MessageRead(q, r) PROVE TypeOK' /\
   LocalsInv'
  BY <1>0, <1>3 DEF WorkersOK, LocalsInv, MessageRead
<1>4. ASSUME NEW t \in Turns, NEW q \in Requests, MessageClaim(t, q) PROVE TypeOK' /\
   LocalsInv'
  <2>1. WorkersOK'
    BY <1>0, <1>4, MessageClaimMoves
  <2>2. disk' \in [Runs -> Record \cup {NoRecord}]
    <3>1. Queued(q) \in Record /\ Queued(q).id \in Runs
      BY <1>0, <1>4, QueuedType DEF MessageClaim
    <3>2. disk' = [disk EXCEPT ![Queued(q).id] = Queued(q)]
      BY <1>0, <1>4, MessageClaimMoves
    <3> QED
      BY <1>0, <3>1, <3>2
  <2> QED
    BY <1>0, <1>4, <2>1, <2>2 DEF WorkersOK, MessageClaim
<1>5. ASSUME NEW q \in Requests, MessageRefused(q) PROVE TypeOK' /\ LocalsInv'
  BY <1>0, <1>5 DEF WorkersOK, LocalsInv, MessageRefused
<1>6. ASSUME NEW t \in Turns, Activate(t) PROVE TypeOK' /\ LocalsInv'
  <2>1. WorkersOK'
    BY <1>0, <1>6, ActivateMoves
  <2>2. Run(t) \in Runs
    BY <1>0, <1>6, HasRecord DEF Activate, Run, Claiming
  <2> QED
    BY <1>0, <1>6, <2>1, <2>2 DEF WorkersOK, Activate
<1>7. ASSUME NEW t \in Turns, Begin(t) PROVE TypeOK' /\ LocalsInv'
  <2>1. WorkersOK'
    BY <1>0, <1>7, BeginMoves
  <2> QED
    BY <1>0, <1>7, <2>1 DEF WorkersOK, Begin
<1>8. ASSUME NEW t \in Turns, BeginFails(t) PROVE TypeOK' /\ LocalsInv'
  <2>1. WorkersOK'
    BY <1>0, <1>8, EndMoves DEF BeginFails
  <2> QED
    BY <1>0, <1>8, <2>1 DEF WorkersOK, BeginFails
<1>9. ASSUME NEW r \in Runs, Cancel(r) PROVE TypeOK' /\ LocalsInv'
  BY <1>0, <1>9 DEF WorkersOK, LocalsInv, Cancel, SignalHeld
<1>10. ASSUME NEW t \in Turns, Spawn(t) PROVE TypeOK' /\ LocalsInv'
  <2>1. WorkersOK'
    BY <1>0, <1>10, SpawnMoves
  <2> QED
    BY <1>0, <1>10, <2>1 DEF WorkersOK, Spawn
<1>11. ASSUME NEW t \in Turns, SpawnFails(t) PROVE TypeOK' /\ LocalsInv'
  <2>1. WorkersOK'
    BY <1>0, <1>11, SpawnFailsMoves
  <2> QED
    BY <1>0, <1>11, <2>1 DEF WorkersOK, SpawnFails
<1>12. ASSUME NEW t \in Turns, Register(t) PROVE TypeOK' /\ LocalsInv'
  <2>1. WorkersOK'
    BY <1>0, <1>12, RegisterMoves
  <2> QED
    BY <1>0, <1>12, <2>1 DEF WorkersOK, Register
<1>13. ASSUME NEW t \in Turns, StartTimer(t) PROVE TypeOK' /\ LocalsInv'
  <2>1. WorkersOK'
    BY <1>0, <1>13, StartTimerMoves
  <2> QED
    BY <1>0, <1>13, <2>1 DEF WorkersOK, StartTimer
<1>14. ASSUME NEW t \in Turns, SaveRunning(t) PROVE TypeOK' /\ LocalsInv'
  <2>1. WorkersOK'
    BY <1>0, <1>14, SaveRunningMoves
  <2> QED
    BY <1>0, <1>14, <2>1, AnnouncedType DEF WorkersOK, SaveRunning
<1>15. ASSUME NEW t \in Turns, NEW b \in BOOLEAN, ReadInit(t, b) PROVE TypeOK' /\ LocalsInv'
  <2>1. WorkersOK'
    BY <1>0, <1>15, ReadInitMoves
  <2> QED
    BY <1>0, <1>15, <2>1 DEF WorkersOK, ReadInit
<1>16. ASSUME NEW t \in Turns, NEW d \in Decisions, ReadDecision(t, d) PROVE TypeOK' /\
   LocalsInv'
  <2>1. WorkersOK'
    BY <1>0, <1>16, ReadDecisionMoves
  <2> QED
    BY <1>0, <1>16, <2>1 DEF WorkersOK, ReadDecision
<1>17. ASSUME NEW t \in Turns, NEW x \in Results, ReadResult(t, x) PROVE TypeOK' /\
   LocalsInv'
  <2>1. WorkersOK'
    BY <1>0, <1>17, ReadResultMoves
  <2> QED
    BY <1>0, <1>17, <2>1 DEF WorkersOK, ReadResult
<1>18. ASSUME NEW t \in Turns, LoopFails(t) PROVE TypeOK' /\ LocalsInv'
  <2>1. WorkersOK'
    BY <1>0, <1>18, LoopFailsMoves
  <2> QED
    BY <1>0, <1>18, <2>1 DEF WorkersOK, LoopFails
<1>19. ASSUME NEW t \in Turns, Reap(t) PROVE TypeOK' /\ LocalsInv'
  <2>1. WorkersOK'
    BY <1>0, <1>19, ReapMoves
  <2> QED
    BY <1>0, <1>19, <2>1 DEF WorkersOK, Reap
<1>20. ASSUME NEW t \in Turns, NEW b \in BOOLEAN, Verify(t, b) PROVE TypeOK' /\ LocalsInv'
  <2>1. WorkersOK'
    BY <1>0, <1>20, VerifyMoves
  <2> QED
    BY <1>0, <1>20, <2>1 DEF WorkersOK, Verify
<1>21. ASSUME NEW t \in Turns, NEW b \in BOOLEAN, Blame(t, b) PROVE TypeOK' /\ LocalsInv'
  <2>1. WorkersOK'
    BY <1>0, <1>21, BlameMoves
  <2> QED
    BY <1>0, <1>21, <2>1 DEF WorkersOK, Blame
<1>22. ASSUME NEW t \in Turns, Decide(t) PROVE TypeOK' /\ LocalsInv'
  <2>1. WorkersOK'
    BY <1>0, <1>22, DecideMoves
  <2> QED
    BY <1>0, <1>22, <2>1 DEF WorkersOK, Decide
<1>23. ASSUME NEW t \in Turns, StoreVerdict(t) PROVE TypeOK' /\ LocalsInv'
  <2>1. WorkersOK'
    BY <1>0, <1>23, StoreVerdictMoves
  <2>2. worker[t].rec \in Record /\ Run(t) \in Runs
    BY <1>0, <1>23, HasRecord DEF StoreVerdict, At, Run, Holding, Working, Judging
  <2> QED
    BY <1>0, <1>23, <2>1, <2>2 DEF WorkersOK, StoreVerdict
<1>24. ASSUME NEW t \in Turns, FinishFails(t) PROVE TypeOK' /\ LocalsInv'
  <2>1. WorkersOK'
    BY <1>0, <1>24, FinishFailsMoves
  <2> QED
    BY <1>0, <1>24, <2>1 DEF WorkersOK, FinishFails
<1>25. ASSUME NEW t \in Turns, Free(t) PROVE TypeOK' /\ LocalsInv'
  <2>1. WorkersOK'
    BY <1>0, <1>25, FreeMoves
  <2> QED
    BY <1>0, <1>25, <2>1 DEF WorkersOK, Free
<1>26. ASSUME NEW t \in Turns, PruneList(t) PROVE TypeOK' /\ LocalsInv'
  <2>1. WorkersOK'
    BY <1>0, <1>26, PruneListMoves
  <2> QED
    BY <1>0, <1>26, <2>1 DEF WorkersOK, PruneList
<1>27. ASSUME NEW t \in Turns, NEW r \in Runs, PruneUnlink(t, r) PROVE TypeOK' /\ LocalsInv'
  <2>1. WorkersOK'
    BY <1>0, <1>27, PruneUnlinkMoves
  <2> QED
    BY <1>0, <1>27, <2>1 DEF WorkersOK, PruneUnlink
<1>28. ASSUME NEW t \in Turns, NEW d \in Decisions, JournalAdd(t, d) PROVE TypeOK' /\
   LocalsInv'
  BY <1>0, <1>28 DEF WorkersOK, LocalsInv, JournalAdd
<1>29. ASSUME NEW t \in Turns, Exit(t) PROVE TypeOK' /\ LocalsInv'
  BY <1>0, <1>29 DEF WorkersOK, LocalsInv, Exit
<1>30. ASSUME NEW t \in Turns, TimerFires(t) PROVE TypeOK' /\ LocalsInv'
  BY <1>0, <1>30 DEF WorkersOK, LocalsInv, TimerFires
<1>31. ASSUME NEW t \in Turns, Expire(t) PROVE TypeOK' /\ LocalsInv'
  <2>1. Run(t) \in Runs \cup {NoRun}
    BY <1>0 DEF Run, Worker
  <2>2. halted' \subseteq Runs /\ signalled' \subseteq Turns
    BY <1>0, <1>31, <2>1 DEF Expire, Halt, Running, SignalHeld
  <2> QED
    BY <1>0, <1>31, <2>2 DEF WorkersOK, LocalsInv, Expire
<1>32. CASE UNCHANGED vars
  BY <1>0, <1>32 DEF WorkersOK, LocalsInv, vars
<1> QED
  BY <1>1, <1>2, <1>3, <1>4, <1>5, <1>6, <1>7, <1>8, <1>9, <1>10, <1>11, <1>12, <1>13,
     <1>14, <1>15, <1>16, <1>17, <1>18, <1>19, <1>20, <1>21, <1>22, <1>23, <1>24, <1>25,
     <1>26, <1>27, <1>28, <1>29, <1>30, <1>31, <1>32
     DEF Next, TurnStep, Request, Advance, Engine, Fail

-----------------------------------------------------------------------------
(* The inductive invariant.                                                *)

LEMMA InvInit == Init => Inv
<1> SUFFICES ASSUME Init PROVE Inv
  OBVIOUS
<1> USE ConstantsAssumption DEF Init
<1>1. Local("none", NoRun, NoRecord) \in Worker
  BY LocalType DEF Pcs
<1>2. \A t \in Turns : worker[t].pc = "none"
  BY DEF Local
<1>3. << >> \in Seq(Runs) /\ Launched = {}
  BY DEF Launched
<1>4. TypeOK
  BY <1>1, <1>3 DEF TypeOK
<1>5. LocalsInv
  BY <1>2 DEF LocalsInv, LocalsOK, Claiming, Holding, Working, Owning, Judging
<1>6. SlotInv
  BY <1>2 DEF SlotInv, Claiming, Holding, Working, Owning, Judging
<1>7. ProcessInv
  BY <1>2 DEF ProcessInv, Owning
<1>8. StopInv
  BY DEF StopInv
<1>9. DiskInv
  BY <1>2 DEF DiskInv, Stored, Claiming, Working, Owning, Judging
<1> QED
  BY <1>4, <1>5, <1>6, <1>7, <1>8, <1>9 DEF Inv

Rest == SlotInv /\ ProcessInv /\ StopInv /\ DiskInv

LEMMA InvStep == Inv /\ [Next]_vars => Inv'
<1> SUFFICES ASSUME Inv, [Next]_vars PROVE Inv'
  OBVIOUS
<1> USE ConstantsAssumption
<1>0. TypeOK /\ WorkersOK
  BY DEF Inv, TypeOK, WorkersOK
<1>1. ASSUME NEW t \in Turns, NEW r \in Runs, Launch(t, r) PROVE Rest'
  BY <1>1, LaunchStep DEF Rest
<1>2. ASSUME NEW t \in Turns, LaunchFails(t) PROVE Rest'
  BY <1>2, LaunchFailsStep DEF Rest
<1>3. ASSUME NEW q \in Requests, NEW r \in Runs, MessageRead(q, r) PROVE Rest'
  <2>1. /\ UNCHANGED <<mutex, active, process, worker, disk, born>>
        /\ \A u \in Turns : proc'[u] = "live" => proc[u] = "live"
        /\ \A p \in Requests : read'[p] \in {read[p], NoRecord} \cup {disk[s] : s \in Runs}
    BY <1>0, <1>3 DEF TypeOK, MessageRead, slot, store, procs
  <2>2. SlotInv' /\ ProcessInv' /\ DiskInv'
    BY <2>1, StillStep
  <2>3. StopInv'
    BY <1>3 DEF Inv, StopInv, MessageRead, slot, flags, procs
  <2> QED
    BY <2>2, <2>3 DEF Rest
<1>4. ASSUME NEW t \in Turns, NEW q \in Requests, MessageClaim(t, q) PROVE Rest'
  BY <1>4, MessageClaimStep DEF Rest
<1>5. ASSUME NEW q \in Requests, MessageRefused(q) PROVE Rest'
  <2>1. /\ UNCHANGED <<mutex, active, process, worker, disk, born>>
        /\ \A u \in Turns : proc'[u] = "live" => proc[u] = "live"
        /\ \A p \in Requests : read'[p] \in {read[p], NoRecord} \cup {disk[s] : s \in Runs}
    BY <1>0, <1>5 DEF TypeOK, MessageRefused, slot, store, procs
  <2>2. SlotInv' /\ ProcessInv' /\ DiskInv'
    BY <2>1, StillStep
  <2>3. StopInv'
    BY <1>5 DEF Inv, StopInv, MessageRefused, slot, flags, procs
  <2> QED
    BY <2>2, <2>3 DEF Rest
<1>6. ASSUME NEW t \in Turns, Activate(t) PROVE Rest'
  BY <1>6, ActivateStep DEF Rest
<1>7. ASSUME NEW t \in Turns, Begin(t) PROVE Rest'
  <2>1. Moved(t, "started")
    BY <1>0, <1>7, BeginMoves
  <2>2. "started" \in Working /\ worker[t].pc \in Working
    BY <1>7 DEF Begin, At, Working, Owning, Judging
  <2>3. /\ UNCHANGED <<mutex, active, process, flags, disk, born, read, proc>>
        /\ signalled \subseteq signalled'
    BY <1>7 DEF Begin, slot, store, procs
  <2>4. /\ "started" \in Owning => worker[t].pc \in Owning
        /\ worker[t].pc \in Registered => "started" \in Registered
        /\ proc[t] = "live" => "started" \in MayLive
    BY <1>7 DEF Begin, At, Registered, Owning, Judging, MayLive, Inv, ProcessInv
  <2> QED
    BY <2>1, <2>2, <2>3, <2>4, QuietStep DEF Rest
<1>8. ASSUME NEW t \in Turns, BeginFails(t) PROVE Rest'
  BY <1>8, BeginFailsStep DEF Rest
<1>9. ASSUME NEW r \in Runs, Cancel(r) PROVE Rest'
  <2>1. /\ UNCHANGED <<mutex, active, process, worker, disk, born>>
        /\ \A u \in Turns : proc'[u] = "live" => proc[u] = "live"
        /\ \A p \in Requests : read'[p] \in {read[p], NoRecord} \cup {disk[s] : s \in Runs}
    BY <1>0, <1>9 DEF TypeOK, Cancel, slot, store, procs
  <2>2. SlotInv' /\ ProcessInv' /\ DiskInv'
    BY <2>1, StillStep
  <2>3. StopInv'
    BY <1>9, CancelStop
  <2> QED
    BY <2>2, <2>3 DEF Rest
<1>10. ASSUME NEW t \in Turns, Spawn(t) PROVE Rest'
  BY <1>10, SpawnStep DEF Rest
<1>11. ASSUME NEW t \in Turns, SpawnFails(t) PROVE Rest'
  <2>1. Moved(t, "judging")
    BY <1>0, <1>11, SpawnFailsMoves
  <2>2. "judging" \in Working /\ worker[t].pc \in Working
    BY <1>11 DEF SpawnFails, At, Working, Owning, Judging
  <2>3. /\ UNCHANGED <<mutex, active, process, flags, disk, born, read, proc>>
        /\ signalled \subseteq signalled'
    BY <1>11 DEF SpawnFails, slot, store, procs
  <2>4. /\ "judging" \in Owning => worker[t].pc \in Owning
        /\ worker[t].pc \in Registered => "judging" \in Registered
        /\ proc[t] = "live" => "judging" \in MayLive
    BY <1>11 DEF SpawnFails, At, Registered, Owning, Judging, MayLive, Inv, ProcessInv
  <2> QED
    BY <2>1, <2>2, <2>3, <2>4, QuietStep DEF Rest
<1>12. ASSUME NEW t \in Turns, Register(t) PROVE Rest'
  BY <1>12, RegisterStep DEF Rest
<1>13. ASSUME NEW t \in Turns, StartTimer(t) PROVE Rest'
  <2>1. Moved(t, "announcing")
    BY <1>0, <1>13, StartTimerMoves
  <2>2. "announcing" \in Working /\ worker[t].pc \in Working
    BY <1>13 DEF StartTimer, At, Working, Owning, Judging
  <2>3. /\ UNCHANGED <<mutex, active, process, flags, disk, born, read, proc>>
        /\ signalled \subseteq signalled'
    BY <1>13 DEF StartTimer, slot, store, procs
  <2>4. /\ "announcing" \in Owning => worker[t].pc \in Owning
        /\ worker[t].pc \in Registered => "announcing" \in Registered
        /\ proc[t] = "live" => "announcing" \in MayLive
    BY <1>13 DEF StartTimer, At, Registered, Owning, Judging, MayLive, Inv, ProcessInv
  <2> QED
    BY <2>1, <2>2, <2>3, <2>4, QuietStep DEF Rest
<1>14. ASSUME NEW t \in Turns, SaveRunning(t) PROVE Rest'
  BY <1>14, SaveRunningStep DEF Rest
<1>15. ASSUME NEW t \in Turns, NEW b \in BOOLEAN, ReadInit(t, b) PROVE Rest'
  <2>1. Moved(t, "reading")
    BY <1>0, <1>15, ReadInitMoves
  <2>2. "reading" \in Working /\ worker[t].pc \in Working
    BY <1>15 DEF ReadInit, At, Working, Owning, Judging
  <2>3. /\ UNCHANGED <<mutex, active, process, flags, disk, born, read, proc>>
        /\ signalled \subseteq signalled'
    BY <1>15 DEF ReadInit, slot, store, procs
  <2>4. /\ "reading" \in Owning => worker[t].pc \in Owning
        /\ worker[t].pc \in Registered => "reading" \in Registered
        /\ proc[t] = "live" => "reading" \in MayLive
    BY <1>15 DEF ReadInit, At, Registered, Owning, Judging, MayLive, Inv, ProcessInv
  <2> QED
    BY <2>1, <2>2, <2>3, <2>4, QuietStep DEF Rest
<1>16. ASSUME NEW t \in Turns, NEW d \in Decisions, ReadDecision(t, d) PROVE Rest'
  <2>1. Moved(t, "reading")
    BY <1>0, <1>16, ReadDecisionMoves
  <2>2. "reading" \in Working /\ worker[t].pc \in Working
    BY <1>16 DEF ReadDecision, At, Working, Owning, Judging
  <2>3. /\ UNCHANGED <<mutex, active, process, flags, disk, born, read, proc>>
        /\ signalled \subseteq signalled'
    BY <1>16 DEF ReadDecision, slot, store, procs
  <2>4. /\ "reading" \in Owning => worker[t].pc \in Owning
        /\ worker[t].pc \in Registered => "reading" \in Registered
        /\ proc[t] = "live" => "reading" \in MayLive
    BY <1>16 DEF ReadDecision, At, Registered, Owning, Judging, MayLive, Inv, ProcessInv
  <2> QED
    BY <2>1, <2>2, <2>3, <2>4, QuietStep DEF Rest
<1>17. ASSUME NEW t \in Turns, NEW x \in Results, ReadResult(t, x) PROVE Rest'
  <2>1. Moved(t, "reading")
    BY <1>0, <1>17, ReadResultMoves
  <2>2. "reading" \in Working /\ worker[t].pc \in Working
    BY <1>17 DEF ReadResult, At, Working, Owning, Judging
  <2>3. /\ UNCHANGED <<mutex, active, process, flags, disk, born, read, proc>>
        /\ signalled \subseteq signalled'
    BY <1>17 DEF ReadResult, slot, store, procs
  <2>4. /\ "reading" \in Owning => worker[t].pc \in Owning
        /\ worker[t].pc \in Registered => "reading" \in Registered
        /\ proc[t] = "live" => "reading" \in MayLive
    BY <1>17 DEF ReadResult, At, Registered, Owning, Judging, MayLive, Inv, ProcessInv
  <2> QED
    BY <2>1, <2>2, <2>3, <2>4, QuietStep DEF Rest
<1>18. ASSUME NEW t \in Turns, LoopFails(t) PROVE Rest'
  <2>1. Moved(t, "draining")
    BY <1>0, <1>18, LoopFailsMoves
  <2>2. "draining" \in Working /\ worker[t].pc \in Working
    BY <1>18 DEF LoopFails, At, Working, Owning, Judging
  <2>3. /\ UNCHANGED <<mutex, active, process, flags, disk, born, read, proc>>
        /\ signalled \subseteq signalled'
    BY <1>18 DEF LoopFails, slot, store, procs
  <2>4. /\ "draining" \in Owning => worker[t].pc \in Owning
        /\ worker[t].pc \in Registered => "draining" \in Registered
        /\ proc[t] = "live" => "draining" \in MayLive
    BY <1>18 DEF LoopFails, At, Registered, Owning, Judging, MayLive, Inv, ProcessInv
  <2> QED
    BY <2>1, <2>2, <2>3, <2>4, QuietStep DEF Rest
<1>19. ASSUME NEW t \in Turns, Reap(t) PROVE Rest'
  <2>1. Moved(t, "judging")
    BY <1>0, <1>19, ReapMoves
  <2>2. "judging" \in Working /\ worker[t].pc \in Working
    BY <1>19 DEF Reap, At, Working, Owning, Judging
  <2>3. /\ UNCHANGED <<mutex, active, process, flags, disk, born, read, proc>>
        /\ signalled \subseteq signalled'
    BY <1>19 DEF Reap, slot, store, procs
  <2>4. /\ "judging" \in Owning => worker[t].pc \in Owning
        /\ worker[t].pc \in Registered => "judging" \in Registered
        /\ proc[t] = "live" => "judging" \in MayLive
    BY <1>19 DEF Reap, At, Registered, Owning, Judging, MayLive, Inv, ProcessInv
  <2> QED
    BY <2>1, <2>2, <2>3, <2>4, QuietStep DEF Rest
<1>20. ASSUME NEW t \in Turns, NEW b \in BOOLEAN, Verify(t, b) PROVE Rest'
  <2>1. Moved(t, "verified")
    BY <1>0, <1>20, VerifyMoves
  <2>2. "verified" \in Working /\ worker[t].pc \in Working
    BY <1>20 DEF Verify, At, Working, Owning, Judging
  <2>3. /\ UNCHANGED <<mutex, active, process, flags, disk, born, read, proc>>
        /\ signalled \subseteq signalled'
    BY <1>20 DEF Verify, slot, store, procs
  <2>4. /\ "verified" \in Owning => worker[t].pc \in Owning
        /\ worker[t].pc \in Registered => "verified" \in Registered
        /\ proc[t] = "live" => "verified" \in MayLive
    BY <1>20 DEF Verify, At, Registered, Owning, Judging, MayLive, Inv, ProcessInv
  <2> QED
    BY <2>1, <2>2, <2>3, <2>4, QuietStep DEF Rest
<1>21. ASSUME NEW t \in Turns, NEW b \in BOOLEAN, Blame(t, b) PROVE Rest'
  <2>1. Moved(t, "blamed")
    BY <1>0, <1>21, BlameMoves
  <2>2. "blamed" \in Working /\ worker[t].pc \in Working
    BY <1>21 DEF Blame, At, Working, Owning, Judging
  <2>3. /\ UNCHANGED <<mutex, active, process, flags, disk, born, read, proc>>
        /\ signalled \subseteq signalled'
    BY <1>21 DEF Blame, slot, store, procs
  <2>4. /\ "blamed" \in Owning => worker[t].pc \in Owning
        /\ worker[t].pc \in Registered => "blamed" \in Registered
        /\ proc[t] = "live" => "blamed" \in MayLive
    BY <1>21 DEF Blame, At, Registered, Owning, Judging, MayLive, Inv, ProcessInv
  <2> QED
    BY <2>1, <2>2, <2>3, <2>4, QuietStep DEF Rest
<1>22. ASSUME NEW t \in Turns, Decide(t) PROVE Rest'
  <2>1. Moved(t, "decided")
    BY <1>0, <1>22, DecideMoves
  <2>2. "decided" \in Working /\ worker[t].pc \in Working
    BY <1>22 DEF Decide, At, Working, Owning, Judging
  <2>3. /\ UNCHANGED <<mutex, active, process, flags, disk, born, read, proc>>
        /\ signalled \subseteq signalled'
    BY <1>22 DEF Decide, slot, store, procs
  <2>4. /\ "decided" \in Owning => worker[t].pc \in Owning
        /\ worker[t].pc \in Registered => "decided" \in Registered
        /\ proc[t] = "live" => "decided" \in MayLive
    BY <1>22 DEF Decide, At, Registered, Owning, Judging, MayLive, Inv, ProcessInv
  <2> QED
    BY <2>1, <2>2, <2>3, <2>4, QuietStep DEF Rest
<1>23. ASSUME NEW t \in Turns, StoreVerdict(t) PROVE Rest'
  BY <1>23, StoreVerdictStep DEF Rest
<1>24. ASSUME NEW t \in Turns, FinishFails(t) PROVE Rest'
  BY <1>24, FinishFailsStep DEF Rest
<1>25. ASSUME NEW t \in Turns, Free(t) PROVE Rest'
  BY <1>25, FreeStep DEF Rest
<1>26. ASSUME NEW t \in Turns, PruneList(t) PROVE Rest'
  <2>1. PICK pc \in {"pruning", "done"} : Moved(t, pc)
    BY <1>0, <1>26, PruneListMoves
  <2>2. /\ At(t, "pruning")
        /\ UNCHANGED <<mutex, active, process, flags, born, read, proc, signalled>>
        /\ \A s \in Runs : disk'[s] \in {disk[s], NoRecord}
    BY <1>0, <1>26 DEF TypeOK, PruneList, slot, store, procs
  <2> QED
    BY <2>1, <2>2, AsideStep DEF Rest
<1>27. ASSUME NEW t \in Turns, NEW r \in Runs, PruneUnlink(t, r) PROVE Rest'
  <2>1. PICK pc \in {"pruning", "done"} : Moved(t, pc)
    BY <1>0, <1>27, PruneUnlinkMoves
  <2>2. /\ At(t, "pruning")
        /\ UNCHANGED <<mutex, active, process, flags, born, read, proc, signalled>>
        /\ \A s \in Runs : disk'[s] \in {disk[s], NoRecord}
    BY <1>0, <1>27 DEF TypeOK, PruneUnlink, slot, store, procs
  <2> QED
    BY <2>1, <2>2, AsideStep DEF Rest
<1>28. ASSUME NEW t \in Turns, NEW d \in Decisions, JournalAdd(t, d) PROVE Rest'
  <2>1. /\ UNCHANGED <<mutex, active, process, worker, disk, born>>
        /\ \A u \in Turns : proc'[u] = "live" => proc[u] = "live"
        /\ \A p \in Requests : read'[p] \in {read[p], NoRecord} \cup {disk[s] : s \in Runs}
    BY <1>0, <1>28 DEF TypeOK, JournalAdd, slot, store, procs
  <2>2. SlotInv' /\ ProcessInv' /\ DiskInv'
    BY <2>1, StillStep
  <2>3. StopInv'
    BY <1>28 DEF Inv, StopInv, JournalAdd, slot, flags, procs
  <2> QED
    BY <2>2, <2>3 DEF Rest
<1>29. ASSUME NEW t \in Turns, Exit(t) PROVE Rest'
  <2>1. /\ UNCHANGED <<mutex, active, process, worker, disk, born>>
        /\ \A u \in Turns : proc'[u] = "live" => proc[u] = "live"
        /\ \A p \in Requests : read'[p] \in {read[p], NoRecord} \cup {disk[s] : s \in Runs}
    BY <1>0, <1>29 DEF TypeOK, Exit, slot, store, procs
  <2>2. SlotInv' /\ ProcessInv' /\ DiskInv'
    BY <2>1, StillStep
  <2>3. StopInv'
    BY <1>29 DEF Inv, StopInv, Exit, slot, flags, procs
  <2> QED
    BY <2>2, <2>3 DEF Rest
<1>30. ASSUME NEW t \in Turns, TimerFires(t) PROVE Rest'
  <2>1. /\ UNCHANGED <<mutex, active, process, worker, disk, born>>
        /\ \A u \in Turns : proc'[u] = "live" => proc[u] = "live"
        /\ \A p \in Requests : read'[p] \in {read[p], NoRecord} \cup {disk[s] : s \in Runs}
    BY <1>0, <1>30 DEF TypeOK, TimerFires, slot, store, procs
  <2>2. SlotInv' /\ ProcessInv' /\ DiskInv'
    BY <2>1, StillStep
  <2>3. StopInv'
    BY <1>30 DEF Inv, StopInv, TimerFires, slot, flags, procs
  <2> QED
    BY <2>2, <2>3 DEF Rest
<1>31. ASSUME NEW t \in Turns, Expire(t) PROVE Rest'
  <2>1. /\ UNCHANGED <<mutex, active, process, worker, disk, born>>
        /\ \A u \in Turns : proc'[u] = "live" => proc[u] = "live"
        /\ \A p \in Requests : read'[p] \in {read[p], NoRecord} \cup {disk[s] : s \in Runs}
    BY <1>0, <1>31 DEF TypeOK, Expire, slot, store, procs
  <2>2. SlotInv' /\ ProcessInv' /\ DiskInv'
    BY <2>1, StillStep
  <2>3. StopInv'
    BY <1>31, ExpireStop
  <2> QED
    BY <2>2, <2>3 DEF Rest
<1>32. ASSUME UNCHANGED vars PROVE Rest'
  <2> USE <1>32 DEF vars, slot, flags, store, procs
  <2>1. /\ UNCHANGED <<mutex, active, process, worker, disk, born>>
        /\ \A u \in Turns : proc'[u] = "live" => proc[u] = "live"
        /\ \A p \in Requests : read'[p] \in {read[p], NoRecord} \cup {disk[s] : s \in Runs}
    OBVIOUS
  <2>2. SlotInv' /\ ProcessInv' /\ DiskInv'
    BY <2>1, StillStep
  <2>3. StopInv'
    BY DEF Inv, StopInv
  <2> QED
    BY <2>2, <2>3 DEF Rest
<1>33. Rest'
  BY <1>1, <1>2, <1>3, <1>4, <1>5, <1>6, <1>7, <1>8, <1>9, <1>10, <1>11, <1>12, <1>13,
     <1>14, <1>15, <1>16, <1>17, <1>18, <1>19, <1>20, <1>21, <1>22, <1>23, <1>24, <1>25,
     <1>26, <1>27, <1>28, <1>29, <1>30, <1>31, <1>32
     DEF Next, TurnStep, Request, Advance, Engine, Fail, Rest
<1> QED
  BY <1>33, TypeStep DEF Inv, Rest

-----------------------------------------------------------------------------
(* The theorems.                                                           *)

LEMMA AlwaysInv == Spec => []Inv
<1> QED
  BY InvInit, InvStep, PTL DEF Spec

\* Every variable of the run manager keeps its type: in particular the locals a
\* worker thread carries into `finish' are those of a stored record.
THEOREM TypeCorrect == Spec => []TypeOK
<1>1. Inv => TypeOK
  BY DEF Inv
<1> QED
  BY <1>1, AlwaysInv, PTL

\* The slot does what the head of runs.py says: for any number of launches,
\* follow-ups, cancels, time limits and failing steps, two engine processes are
\* never alive together.
THEOREM OneRunHolds == Spec => []OneRun
<1>1. Inv => OneRun
  <2> SUFFICES ASSUME Inv, NEW t \in Turns, NEW u \in Turns,
                      proc[t] = "live", proc[u] = "live"
               PROVE  t = u
    BY DEF OneRun
  <2>1. worker[t].pc \in Holding /\ worker[u].pc \in Holding
    BY DEF Inv, ProcessInv, MayLive, Holding, Working
  <2> QED
    BY <2>1 DEF Inv, SlotInv
<1> QED
  BY <1>1, AlwaysInv, PTL

\* `cancel', `halt' and the check a worker makes when it registers its process
\* together reach every engine: no accepted stop is left without a signal.
THEOREM StopReachesHolds == Spec => []StopReaches
<1>1. Inv => StopReaches
  <2> SUFFICES ASSUME Inv, NEW r \in Runs, r \in cancelled \cup halted
               PROVE  /\ active = r
                      /\ \A t \in Turns :
                           proc[t] = "live" /\ ~At(t, "spawned") => t \in signalled
    BY DEF StopReaches
  <2>1. active = r
    BY DEF Inv, StopInv
  <2>2. ASSUME NEW t \in Turns, proc[t] = "live", ~At(t, "spawned")
        PROVE  t \in signalled
    <3>1. worker[t].pc \in Owning
      BY <2>2 DEF Inv, ProcessInv, MayLive, At
    <3>2. process = t /\ process # NoTurn
      BY <3>1, ConstantsAssumption DEF Inv, ProcessInv
    <3> QED
      BY <3>2 DEF Inv, StopInv
  <2> QED
    BY <2>1, <2>2
<1> QED
  BY <1>1, AlwaysInv, PTL

\* Without failing steps, a record in progress on disk is that of the run in the
\* slot or of one whose claim is under way.
THEOREM SettledWhenFreeHolds == Spec => []SettledWhenFree
<1>1. Inv => SettledWhenFree
  <2> SUFFICES ASSUME Inv, Faults = {}, NEW r \in Runs, Stored(r, ActiveStatus)
               PROVE  active = r \/ \E t \in Turns : mutex = t /\ Run(t) = r
    BY DEF SettledWhenFree
  <2>1. PICK t \in Turns : worker[t].pc \in Claiming \cup Working /\ Run(t) = r
    BY DEF Inv, DiskInv
  <2>2. CASE worker[t].pc \in Claiming
    BY <2>1, <2>2 DEF Inv, SlotInv
  <2>3. CASE worker[t].pc \in Working
    BY <2>1, <2>3 DEF Inv, SlotInv, Holding
  <2> QED
    BY <2>1, <2>2, <2>3
<1> QED
  BY <1>1, AlwaysInv, PTL

\* What VerdictStands says of one step.
VerdictStep ==
  \A r \in Runs : Stored(r, FinalStatus) /\ disk'[r] # disk[r] =>
    disk'[r] = NoRecord \/ (disk'[r].status = "queued" /\ active = NoRun)

\* Only a claim replaces a verdict: the steps that write a record in progress or
\* a verdict find that no verdict is stored for their run.
LEMMA VerdictKept == Inv /\ [Next]_vars => VerdictStep
<1> SUFFICES ASSUME Inv, [Next]_vars, NEW r \in Runs, Stored(r, FinalStatus),
                    disk'[r] # disk[r]
             PROVE  disk'[r] = NoRecord \/ (disk'[r].status = "queued" /\ active = NoRun)
  BY DEF VerdictStep
<1> USE ConstantsAssumption
<1>0. TypeOK /\ WorkersOK
  BY DEF Inv, TypeOK, WorkersOK
<1>1. ASSUME NEW t \in Turns, NEW s \in Runs, Launch(t, s)
      PROVE  disk'[r].status = "queued" /\ active = NoRun
  <2>1. active = NoRun /\ disk' = [disk EXCEPT ![s] = NewRecord(s)]
    BY <1>1 DEF Launch, Claimable
  <2>2. r = s
    BY <2>1, <1>0 DEF TypeOK
  <2> QED
    BY <2>1, <2>2, <1>0, NewRecordType DEF TypeOK
<1>2. ASSUME NEW t \in Turns, NEW q \in Requests, MessageClaim(t, q)
      PROVE  disk'[r].status = "queued" /\ active = NoRun
  <2>1. active = NoRun /\ read[q] # NoRecord
    BY <1>2 DEF MessageClaim, Claimable
  <2>2. PICK rec \in Record : rec = Queued(q) /\ rec.status = "queued"
    BY <1>0, <2>1, QueuedType
  <2>3. disk' = [disk EXCEPT ![rec.id] = rec]
    BY <1>0, <1>2, <2>2, MessageClaimMoves
  <2>4. r = rec.id
    BY <2>3, <1>0 DEF TypeOK
  <2> QED
    BY <2>1, <2>2, <2>3, <2>4, <1>0 DEF TypeOK
<1>3. ASSUME NEW t \in Turns, SaveRunning(t) PROVE FALSE
  <2>1. r = Run(t)
    BY <1>0, <1>3, AnnouncedType DEF TypeOK, Run
  <2> QED
    BY <2>1, <1>3 DEF Inv, DiskInv, SaveRunning, At, Working, Owning
<1>4. ASSUME NEW t \in Turns, StoreVerdict(t) PROVE FALSE
  <2>1. r = Run(t)
    BY <1>0, <1>4 DEF TypeOK, StoreVerdict
  <2> QED
    BY <2>1, <1>4 DEF Inv, DiskInv, StoreVerdict, At, Working, Judging
<1>5. ASSUME NEW t \in Turns, NEW s \in Runs, PruneUnlink(t, s)
      PROVE  disk'[r] = NoRecord
  BY <1>0, <1>5 DEF TypeOK, PruneUnlink
<1>6. disk' # disk
  OBVIOUS
<1> QED
  BY <1>1, <1>2, <1>3, <1>4, <1>5, <1>6
     DEF Next, TurnStep, Request, Advance, Engine, Fail, vars, store,
         LaunchFails, MessageRead, MessageRefused, Activate, Begin, BeginFails, Cancel,
         Spawn, SpawnFails, Register, StartTimer, ReadInit, ReadDecision, ReadResult,
         LoopFails, Reap, Verify, Blame, Decide, FinishFails, Free, PruneList,
         JournalAdd, Exit, TimerFires, Expire

\* A verdict that was stored stands until a follow-up claims the slot or prune
\* deletes it; the claim may come from a record read long before.
THEOREM VerdictStandsHolds == Spec => VerdictStands
<1>1. Inv /\ [Next]_vars => [VerdictStep]_vars
  BY VerdictKept
<1> QED
  BY <1>1, AlwaysInv, PTL DEF Spec, VerdictStands, VerdictStep

---------------------------------------------------------------------------
(* Pruning.  A run is listed as surplus while KeepRuns newer ones are       *)
(* stored; those stay newer whatever happens to their records until it is   *)
(* deleted.                                                                 *)

NewerThan(r) == {s \in Runs : Newer(r, s)}
Aged(r) == Cardinality(NewerThan(r)) >= KeepRuns
VictimsInv == \A t \in Turns : \A r \in worker[t].victims : Aged(r)

\* Finitely many runs are launched after a given one.
LEMMA LaterFinite ==
  ASSUME NEW runs \in Seq(Runs), NEW r
  PROVE  IsFiniteSet({s \in Runs : \E i, j \in DOMAIN runs : i < j /\ runs[i] = r /\ runs[j] = s})
<1> DEFINE N == Len(runs)
           S == {j \in 1..N : \E i \in 1..N : i < j /\ runs[i] = r}
           T == {s \in Runs : \E i, j \in DOMAIN runs : i < j /\ runs[i] = r /\ runs[j] = s}
           f == [j \in S |-> runs[j]]
<1>1. N \in Nat /\ DOMAIN runs = 1..N /\ \A j \in 1..N : runs[j] \in Runs
  OBVIOUS
<1>2. IsFiniteSet(S)
  <2>1. IsFiniteSet(1..N)
    BY <1>1, FS_Interval
  <2> QED
    BY <2>1, FS_Subset
<1>3. f \in Surjection(S, T)
  <2>1. \A j \in S : runs[j] \in T
    BY <1>1
  <2>2. \A s \in T : \E j \in S : runs[j] = s
    BY <1>1
  <2> QED
    BY <2>1, <2>2 DEF Surjection
<1> HIDE DEF S, T, f
<1>4. IsFiniteSet(T)
  BY <1>2, <1>3, FS_Surjection
<1> QED
  BY <1>4 DEF T

LEMMA NewerFinite == ASSUME NEW r \in Runs, born \in Seq(Runs) PROVE IsFiniteSet(NewerThan(r))
BY LaterFinite DEF NewerThan, Newer

\* What is newer stays so as further runs are launched.
LEMMA NewerStays ==
  ASSUME TypeOK, TypeOK', NEW r \in Runs, Aged(r),
         born' = born \/ \E s \in Runs : born' = Append(born, s)
  PROVE  Aged(r)'
<1>1. born \in Seq(Runs) /\ born' \in Seq(Runs)
  BY DEF TypeOK
<1>2. /\ Len(born) \in Nat /\ DOMAIN born = 1..Len(born)
      /\ \A i \in 1..Len(born) : i \in DOMAIN born' /\ born'[i] = born[i]
  <2>1. CASE born' = born
    BY <1>1, <2>1
  <2>2. ASSUME NEW s \in Runs, born' = Append(born, s)
        PROVE  \A i \in 1..Len(born) : i \in DOMAIN born' /\ born'[i] = born[i]
    <3>1. Len(Append(born, s)) = Len(born) + 1 /\ \A i \in 1..Len(born) : Append(born, s)[i] = born[i]
      BY <1>1
    <3>2. DOMAIN Append(born, s) = 1..(Len(born) + 1) /\ Len(born) \in Nat
      BY <1>1
    <3> QED
      BY <2>2, <3>1, <3>2
  <2> QED
    BY <1>1, <2>1, <2>2
<1>3. NewerThan(r) \subseteq NewerThan(r)'
  <2> SUFFICES ASSUME NEW s \in NewerThan(r) PROVE Newer(r, s)'
    BY DEF NewerThan
  <2>1. PICK i, j \in DOMAIN born : i < j /\ born[i] = r /\ born[j] = s
    BY DEF NewerThan, Newer
  <2>2. i \in DOMAIN born' /\ j \in DOMAIN born' /\ born'[i] = r /\ born'[j] = s
    BY <1>2, <2>1
  <2> QED
    BY <2>1, <2>2 DEF Newer
<1>4. IsFiniteSet(NewerThan(r)) /\ IsFiniteSet(NewerThan(r)')
  <2>1. IsFiniteSet(NewerThan(r)')
    BY <1>1, LaterFinite DEF NewerThan, Newer
  <2> QED
    BY <1>1, <2>1, NewerFinite
<1>5. /\ Cardinality(NewerThan(r)) \in Nat /\ Cardinality(NewerThan(r)') \in Nat
      /\ Cardinality(NewerThan(r)) <= Cardinality(NewerThan(r)')
  BY <1>3, <1>4, FS_Subset, FS_CardinalityType
<1> QED
  BY <1>5, ConstantsAssumption DEF Aged

\* A run that `prune' lists is older than those it was compared with.
LEMMA SurplusIsAged ==
  ASSUME TypeOK, NEW r \in Surplus
  PROVE  r \in Runs /\ Aged(r)
<1> DEFINE T == {s \in Finished : Newer(r, s)}
<1>1. r \in Runs /\ Cardinality(T) >= KeepRuns
  BY DEF Surplus, Finished
<1>2. T \subseteq NewerThan(r)
  BY DEF NewerThan, Finished
<1>3. IsFiniteSet(NewerThan(r))
  BY <1>1, NewerFinite DEF TypeOK
<1> HIDE DEF T
<1>4. /\ Cardinality(T) \in Nat /\ Cardinality(NewerThan(r)) \in Nat
      /\ Cardinality(T) <= Cardinality(NewerThan(r))
  BY <1>2, <1>3, FS_Subset, FS_CardinalityType
<1> QED
  BY <1>1, <1>4, ConstantsAssumption DEF Aged

\* Only the listing gives a turn runs to delete.
VictimsOnlyGo == \A u \in Turns : worker'[u].victims \subseteq worker[u].victims

\* A turn that takes no victim gives none to another.
LEMMA PutVictims ==
  ASSUME WorkersOK, NEW t \in Turns, NEW w, w.victims \subseteq worker[t].victims,
         worker' = [worker EXCEPT ![t] = w]
  PROVE  VictimsOnlyGo
BY DEF WorkersOK, VictimsOnlyGo

LEMMA LocalHasNone == ASSUME NEW pc, NEW r, NEW rec PROVE Local(pc, r, rec).victims = {}
BY DEF Local

LEMMA EndVictims ==
  ASSUME WorkersOK, NEW t \in Turns, NEW pc, End(t, pc)
  PROVE  VictimsOnlyGo
BY LocalHasNone, PutVictims DEF End

LEMMA GotoVictims ==
  ASSUME WorkersOK, NEW t \in Turns, NEW pc, Goto(t, pc)
  PROVE  VictimsOnlyGo
<1> DEFINE w == [worker[t] EXCEPT !.pc = pc]
<1>1. w.victims = worker[t].victims
  BY DEF WorkersOK, Worker
<1>2. worker' = [worker EXCEPT ![t] = w]
  BY DEF Goto
<1> HIDE DEF w
<1> QED
  BY <1>1, <1>2, PutVictims

\* No step of a turn but the listing adds victims.
LEMMA TurnVictims ==
  ASSUME WorkersOK, NEW t \in Turns, TurnStep(t), ~PruneList(t)
  PROVE  VictimsOnlyGo
<1>1. worker[t] \in Worker /\ worker \in [Turns -> Worker]
  BY DEF WorkersOK
<1>2. ASSUME NEW r \in Runs, Launch(t, r) PROVE VictimsOnlyGo
  BY <1>2, LocalHasNone, PutVictims DEF Launch
<1>3. ASSUME NEW q \in Requests, MessageClaim(t, q) PROVE VictimsOnlyGo
  BY <1>3, LocalHasNone, PutVictims DEF MessageClaim
<1>4. CASE Request(t)
  BY <1>4, GotoVictims DEF Request, Activate, Begin
<1>5. CASE Fail(t)
  <2>1. CASE LoopFails(t)
    <3> DEFINE w == [worker[t] EXCEPT !.pc = "draining", !.error = TRUE]
    <3>1. worker' = [worker EXCEPT ![t] = w]
      BY <2>1 DEF LoopFails
    <3>2. w.victims = worker[t].victims
      BY <1>1 DEF Worker
    <3> HIDE DEF w
    <3> QED
      BY <3>1, <3>2, PutVictims
  <2>2. CASE LaunchFails(t) \/ BeginFails(t)
    BY <2>2, EndVictims DEF LaunchFails, BeginFails
  <2>3. CASE FinishFails(t)
    BY <2>3, GotoVictims DEF FinishFails
  <2> QED
    BY <1>5, <2>1, <2>2, <2>3 DEF Fail
<1>6. CASE Engine(t) \/ TimerFires(t) \/ Expire(t)
  <2>1. ASSUME NEW b \in BOOLEAN, ReadInit(t, b) PROVE VictimsOnlyGo
    <3> DEFINE w == [worker[t] EXCEPT !.rec.session = TRUE, !.error = worker[t].error \/ ~b]
    <3>1. worker' = [worker EXCEPT ![t] = w]
      BY <2>1 DEF ReadInit
    <3>2. w.victims = worker[t].victims
      BY <1>1 DEF Worker
    <3> HIDE DEF w
    <3> QED
      BY <3>1, <3>2, PutVictims
  <2>2. ASSUME NEW d \in Decisions, ReadDecision(t, d) PROVE VictimsOnlyGo
    <3> DEFINE rec == [worker[t].rec EXCEPT !.decisions = @ \cup {d}]
               w == [worker[t] EXCEPT !.rec = rec]
    <3>1. worker' = [worker EXCEPT ![t] = w]
      BY <2>2 DEF ReadDecision
    <3>2. w.victims = worker[t].victims
      BY <1>1 DEF Worker
    <3> HIDE DEF w
    <3> QED
      BY <3>1, <3>2, PutVictims
  <2>3. ASSUME NEW x \in Results, ReadResult(t, x) PROVE VictimsOnlyGo
    <3> DEFINE w == [worker[t] EXCEPT !.rec.session = TRUE, !.result = x]
    <3>1. worker' = [worker EXCEPT ![t] = w]
      BY <2>3 DEF ReadResult
    <3>2. w.victims = worker[t].victims
      BY <1>1 DEF Worker
    <3> HIDE DEF w
    <3> QED
      BY <3>1, <3>2, PutVictims
  <2>4. CASE Exit(t) \/ TimerFires(t) \/ Expire(t) \/ \E d \in Decisions : JournalAdd(t, d)
    BY <2>4 DEF Exit, TimerFires, Expire, JournalAdd, VictimsOnlyGo
  <2> QED
    BY <1>6, <2>1, <2>2, <2>3, <2>4 DEF Engine
<1>7. CASE Advance(t)
  <2>1. CASE Spawn(t) \/ Register(t) \/ StartTimer(t) \/ Reap(t) \/ StoreVerdict(t)
    BY <2>1, GotoVictims DEF Spawn, Register, StartTimer, Reap, StoreVerdict
  <2>2. CASE SpawnFails(t)
    <3> DEFINE w == [worker[t] EXCEPT !.pc = "judging", !.error = TRUE]
    <3>1. worker' = [worker EXCEPT ![t] = w]
      BY <2>2 DEF SpawnFails
    <3>2. w.victims = worker[t].victims
      BY <1>1 DEF Worker
    <3> HIDE DEF w
    <3> QED
      BY <3>1, <3>2, PutVictims
  <2>3. CASE SaveRunning(t)
    <3> DEFINE rec == [worker[t].rec EXCEPT !.status = "running", !.pid = t]
               w == [worker[t] EXCEPT !.pc = "reading", !.rec = rec]
    <3>1. worker' = [worker EXCEPT ![t] = w]
      BY <2>3 DEF SaveRunning
    <3>2. w.victims = worker[t].victims
      BY <1>1 DEF Worker
    <3> HIDE DEF w
    <3> QED
      BY <3>1, <3>2, PutVictims
  <2>4. ASSUME NEW b \in BOOLEAN, Verify(t, b) PROVE VictimsOnlyGo
    <3> DEFINE w == [worker[t] EXCEPT !.pc = "verified", !.rec.status = "verifying", !.valid = b]
    <3>1. worker' = [worker EXCEPT ![t] = w]
      BY <2>4 DEF Verify
    <3>2. w.victims = worker[t].victims
      BY <1>1 DEF Worker
    <3> HIDE DEF w
    <3> QED
      BY <3>1, <3>2, PutVictims
  <2>5. ASSUME NEW b \in BOOLEAN, Blame(t, b) PROVE VictimsOnlyGo
    <3>1. PICK e : worker' = [worker EXCEPT ![t] = [@ EXCEPT !.pc = "blamed", !.error = e]]
      BY <2>5 DEF Blame
    <3> DEFINE w == [worker[t] EXCEPT !.pc = "blamed", !.error = e]
    <3>2. worker' = [worker EXCEPT ![t] = w]
      BY <3>1
    <3>3. w.victims = worker[t].victims
      BY <1>1 DEF Worker
    <3> HIDE DEF w
    <3> QED
      BY <3>2, <3>3, PutVictims
  <2>6. CASE Decide(t)
    BY <2>6, LocalHasNone, PutVictims DEF Decide
  <2>7. CASE Free(t)
    BY <2>7, EndVictims DEF Free
  <2>8. ASSUME NEW r \in Runs, PruneUnlink(t, r) PROVE VictimsOnlyGo
    <3> DEFINE w == [worker[t] EXCEPT !.victims = worker[t].victims \ {r}]
               v == Local("done", Run(t), NoRecord)
    <3>1. worker' = [worker EXCEPT ![t] = w] \/ worker' = [worker EXCEPT ![t] = v]
      BY <2>8 DEF PruneUnlink
    <3>2. w.victims \subseteq worker[t].victims
      BY <1>1 DEF Worker
    <3>3. v.victims = {}
      BY LocalHasNone
    <3> HIDE DEF w, v
    <3> QED
      BY <3>1, <3>2, <3>3, PutVictims
  <2> QED
    BY <1>7, <2>1, <2>2, <2>3, <2>4, <2>5, <2>6, <2>7, <2>8 DEF Advance
<1> QED
  BY <1>2, <1>3, <1>4, <1>5, <1>6, <1>7 DEF TurnStep

\* Nothing is listed at the start.
LEMMA VictimsInit == Init => VictimsInv
BY DEF Init, VictimsInv, Local

\* The listing takes only aged runs, and these stay aged.
LEMMA VictimsStep == Inv /\ Inv' /\ VictimsInv /\ [Next]_vars => VictimsInv'
<1> SUFFICES ASSUME Inv, Inv', VictimsInv, [Next]_vars PROVE VictimsInv'
  OBVIOUS
<1>0. WorkersOK /\ TypeOK /\ TypeOK'
  BY DEF Inv, TypeOK, WorkersOK
<1>1. born' = born \/ \E s \in Runs : born' = Append(born, s)
  <2>1. CASE \E t \in Turns, r \in Runs : Launch(t, r)
    BY <2>1 DEF Launch
  <2>2. CASE ~\E t \in Turns, r \in Runs : Launch(t, r)
    BY <2>2 DEF Next, TurnStep, Request, Advance, Engine, Fail, vars, store,
         LaunchFails, MessageClaim, MessageRead, MessageRefused, Activate, Begin, BeginFails, Cancel,
         Spawn, SpawnFails, Register, StartTimer, SaveRunning, ReadInit, ReadDecision, ReadResult,
         LoopFails, Reap, Verify, Blame, Decide, StoreVerdict, FinishFails, Free, PruneList,
         PruneUnlink, JournalAdd, Exit, TimerFires, Expire
  <2> QED
    BY <2>1, <2>2
<1>2. \A r \in Runs : Aged(r) => Aged(r)'
  BY <1>0, <1>1, NewerStays
<1>3. \A t \in Turns : worker[t].victims \subseteq Runs
  BY <1>0 DEF WorkersOK, Worker
<1>4. ASSUME VictimsOnlyGo PROVE VictimsInv'
  BY <1>2, <1>3, <1>4 DEF VictimsInv, VictimsOnlyGo
<1>5. ASSUME NEW t \in Turns, PruneList(t) PROVE VictimsInv'
  <2> DEFINE w == [worker[t] EXCEPT !.victims = Surplus]
  <2>1. worker' = [worker EXCEPT ![t] = Local("done", Run(t), NoRecord)] \/ worker' = [worker EXCEPT ![t] = w]
    BY <1>5 DEF PruneList
  <2>2. w.victims = Surplus
    BY <1>0 DEF WorkersOK, Worker
  <2> HIDE DEF w
  <2>3. worker'[t].victims \subseteq Surplus /\ \A u \in Turns \ {t} : worker'[u] = worker[u]
    BY <1>0, <2>1, <2>2, LocalHasNone DEF WorkersOK
  <2>4. \A u \in Turns : \A r \in worker'[u].victims : r \in Runs /\ Aged(r)
    BY <1>0, <1>3, <2>3, SurplusIsAged DEF VictimsInv
  <2> QED
    BY <1>2, <2>4 DEF VictimsInv
<1>6. ASSUME worker' = worker PROVE VictimsOnlyGo
  BY <1>6 DEF VictimsOnlyGo
<1>7. CASE \E t \in Turns : TurnStep(t)
  BY <1>0, <1>4, <1>5, <1>7, TurnVictims
<1>8. CASE ~\E t \in Turns : TurnStep(t)
  BY <1>4, <1>6, <1>8 DEF Next, vars, MessageRefused, MessageRead, Cancel
<1> QED
  BY <1>7, <1>8

\* What PruneSparesNewest says of one step.
PruneSpares ==
  \A r \in Runs : disk[r] # NoRecord /\ disk'[r] = NoRecord => Aged(r)

\* A record is only removed by the turn that listed it.
LEMMA PrunedIsAged == Inv /\ VictimsInv /\ [Next]_vars => PruneSpares
<1> SUFFICES ASSUME Inv, VictimsInv, [Next]_vars, NEW r \in Runs, disk[r] # NoRecord, disk'[r] = NoRecord
             PROVE  Aged(r)
  BY DEF PruneSpares
<1>0. WorkersOK /\ TypeOK /\ NoRecord \notin Record
  BY ConstantsAssumption DEF Inv, TypeOK, WorkersOK
<1>1. ASSUME NEW t \in Turns, NEW s \in Runs, Launch(t, s) PROVE FALSE
  BY <1>0, <1>1, NewRecordType DEF Launch, TypeOK
<1>2. ASSUME NEW t \in Turns, NEW q \in Requests, MessageClaim(t, q) PROVE FALSE
  <2>1. read[q] # NoRecord
    BY <1>2 DEF MessageClaim
  <2>2. Queued(q) \in Record /\ disk' = [disk EXCEPT ![Queued(q).id] = Queued(q)]
    BY <1>0, <1>2, <2>1, QueuedType, MessageClaimMoves
  <2> QED
    BY <1>0, <2>2 DEF TypeOK
<1>3. ASSUME NEW t \in Turns, SaveRunning(t) PROVE FALSE
  BY <1>0, <1>3, AnnouncedType DEF TypeOK
<1>4. ASSUME NEW t \in Turns, StoreVerdict(t) PROVE FALSE
  <2>1. worker[t].rec \in Record
    BY <1>0, <1>4, HasRecord DEF StoreVerdict, At, Holding, Working, Judging
  <2> QED
    BY <1>0, <1>4, <2>1 DEF StoreVerdict, TypeOK
<1>5. ASSUME NEW t \in Turns, NEW s \in Runs, PruneUnlink(t, s) PROVE Aged(r)
  <2>1. s \in worker[t].victims /\ disk' = [disk EXCEPT ![s] = NoRecord]
    BY <1>5 DEF PruneUnlink
  <2>2. r = s
    BY <1>0, <2>1 DEF TypeOK
  <2> QED
    BY <2>1, <2>2 DEF VictimsInv
<1>6. disk' # disk
  OBVIOUS
<1> QED
  BY <1>1, <1>2, <1>3, <1>4, <1>5, <1>6
     DEF Next, TurnStep, Request, Advance, Engine, Fail, vars, store,
         LaunchFails, MessageRead, MessageRefused, Activate, Begin, BeginFails, Cancel,
         Spawn, SpawnFails, Register, StartTimer, ReadInit, ReadDecision, ReadResult,
         LoopFails, Reap, Verify, Blame, Decide, FinishFails, Free, PruneList,
         JournalAdd, Exit, TimerFires, Expire

\* Whatever launches, finishes or resumes while prune goes through its list, which it made
\* without a lock, a run that it deletes is older than KeepRuns others (runs.py:679-684).
THEOREM PruneSparesNewestHolds == Spec => PruneSparesNewest
<1>1. Init => Inv /\ VictimsInv
  BY InvInit, VictimsInit
<1>2. Inv /\ VictimsInv /\ [Next]_vars => (Inv /\ VictimsInv)'
  BY InvStep, VictimsStep
<1>3. Inv /\ VictimsInv /\ [Next]_vars => [PruneSpares]_vars
  BY PrunedIsAged
<1> QED
  BY <1>1, <1>2, <1>3, PTL DEF Spec, PruneSparesNewest, PruneSpares, Aged, NewerThan

---------------------------------------------------------------------------
(* RunSlot implements OneSlot, for every number of runs, turns, requests   *)
(* and decisions and for every choice of faults: each step of the run      *)
(* manager is a step of the abstract executor or changes nothing it sees.  *)

\* A verdict of "cancelled" not stored yet belongs to a run whose cancel still
\* stands: only the turn that decided frees the slot.
CancelInv ==
  \A t \in Turns : At(t, "decided") /\ worker[t].rec.status = "cancelled" =>
    Run(t) \in cancelled

Live == \E t \in Turns : proc[t] = "live"

\* What the executor sees changes only through these.
Same ==
  /\ Holder' = Holder
  /\ Live' <=> Live
  /\ (cancelled' \cup halted' # {}) <=> (cancelled \cup halted # {})
  /\ disk' = disk

LEMMA SameStutters ==
  ASSUME Same
  PROVE  UNCHANGED Executor!vars
<1>1. [r \in Runs |-> Seen(disk'[r])] = [r \in Runs |-> Seen(disk[r])]
  BY DEF Same
<1>2. (\E t \in Turns : proc'[t] = "live") = (\E t \in Turns : proc[t] = "live")
  BY DEF Same, Live
<1>3. (cancelled' \cup halted' # {}) = (cancelled \cup halted # {})
  BY DEF Same
<1> QED
  BY <1>1, <1>2, <1>3 DEF Same, Executor!vars

\* A turn that has the slot or claims it works for the executor's run.
LEMMA HolderOf ==
  ASSUME Inv, NEW t \in Turns, worker[t].pc \in Claiming \cup Holding
  PROVE  /\ Holder = Run(t) /\ Run(t) \in Runs /\ Run(t) # NoRun
         /\ worker[t].pc \in Holding => mutex = NoTurn
         /\ worker[t].pc \in Claiming => mutex = t
<1>1. worker[t].run \in Runs
  BY HasRecord DEF Inv, TypeOK, WorkersOK
<1> QED
  BY <1>1, ConstantsAssumption DEF Inv, SlotInv, Holder, Run

\* No engine lives unless its turn waits for it in the slot.
LEMMA NoEngine ==
  ASSUME Inv, NEW t \in Turns, worker[t].pc \in (Claiming \cup Holding) \ MayLive
  PROVE  ~Live
<1> SUFFICES ASSUME NEW u \in Turns, proc[u] = "live" PROVE FALSE
  BY DEF Live
<1>1. worker[u].pc \in MayLive /\ worker[u].pc \in Holding
  BY DEF Inv, ProcessInv, MayLive, Holding, Working
<1>2. u = t
  BY <1>1 DEF Inv, SlotInv
<1> QED
  BY <1>1, <1>2

-----------------------------------------------------------------------------
(* The verdict "cancelled" and the cancel it answers.                      *)

LEMMA CancelInit == Init => CancelInv
  BY DEF Init, CancelInv, At, Local

\* The turn that decides looks at `cancelled' in the same step.
LEMMA DecidedStays ==
  ASSUME Inv, CancelInv, NEW t \in Turns, Decide(t)
  PROVE  CancelInv'
<1>0. TypeOK /\ WorkersOK
  BY DEF Inv, TypeOK, WorkersOK
<1> DEFINE rec == [worker[t].rec EXCEPT !.status = Verdict(worker[t])]
<1>1. worker' = [worker EXCEPT ![t] = Local("decided", Run(t), rec)]
  BY DEF Decide
<1>2. worker[t] \in Worker /\ worker[t].rec \in Record /\ worker[t].run \in Runs
  BY <1>0, HasRecord DEF Decide, At, Holding, Working, Judging
<1>3. rec.status = Verdict(worker[t])
  BY <1>2 DEF Record
<1>4. worker'[t].rec = rec /\ worker'[t].run = worker[t].run
      /\ \A u \in Turns \ {t} : worker'[u] = worker[u]
  BY <1>0, <1>1 DEF WorkersOK, Local, Run
<1>5. Verdict(worker[t]) = "cancelled" => worker[t].run \in cancelled
  <2> SUFFICES ASSUME worker[t].run \notin cancelled PROVE Verdict(worker[t]) # "cancelled"
    OBVIOUS
  <2> QED
    BY DEF Verdict
<1>6. cancelled' = cancelled
  BY DEF Decide, flags
<1> QED
  BY <1>3, <1>4, <1>5, <1>6 DEF CancelInv, At, Run

\* Every other step leaves the turns that have decided, and their cancels, alone.
LEMMA CancelKeeps ==
  ASSUME CancelInv, cancelled \subseteq cancelled',
         \A t \in Turns : worker'[t].pc = "decided" => worker'[t] = worker[t]
  PROVE  CancelInv'
  BY DEF CancelInv, At, Run

-----------------------------------------------------------------------------
(* The steps the executor does not see.                                    *)

\* Turn t's thread moves on, to anything but a decided verdict.
Turning(t) == \E pc \in Pcs \ {"decided"} : Moved(t, pc)
Unseen == UNCHANGED <<mutex, active, cancelled, halted, disk, proc>>

\* What a turn's own thread does without being seen.
Quiet(t) ==
  \/ Begin(t) \/ BeginFails(t) \/ SpawnFails(t) \/ Register(t) \/ StartTimer(t)
  \/ LoopFails(t) \/ Reap(t) \/ FinishFails(t) \/ PruneList(t)
  \/ \E isolated \in BOOLEAN : ReadInit(t, isolated)
  \/ \E d \in Decisions : ReadDecision(t, d)
  \/ \E result \in Results : ReadResult(t, result)
  \/ \E valid \in BOOLEAN : Verify(t, valid)
  \/ \E exitedClean \in BOOLEAN : Blame(t, exitedClean)

LEMMA TurningKeeps ==
  ASSUME CancelInv, cancelled \subseteq cancelled', NEW t \in Turns, Turning(t)
  PROVE  CancelInv'
<1>1. PICK pc \in Pcs \ {"decided"} : Moved(t, pc)
  BY DEF Turning
<1>2. \A u \in Turns : worker'[u].pc = "decided" => worker'[u] = worker[u]
  BY <1>1 DEF Moved
<1> QED
  BY <1>2, CancelKeeps

LEMMA QuietTurns ==
  ASSUME Inv, NEW t \in Turns, Quiet(t)
  PROVE  Turning(t) /\ Unseen
<1>0. WorkersOK
  BY DEF Inv, TypeOK, WorkersOK
<1> USE DEF slot, flags, store, procs, Turning, Unseen
<1>1. ASSUME Begin(t) PROVE Turning(t) /\ Unseen
  <2>1. Moved(t, "started")
    BY <1>0, <1>1, BeginMoves
  <2>2. Unseen
    BY <1>1 DEF Begin
  <2> QED
    BY <2>1, <2>2 DEF Pcs
<1>2. ASSUME SpawnFails(t) PROVE Turning(t) /\ Unseen
  <2>1. Moved(t, "judging")
    BY <1>0, <1>2, SpawnFailsMoves
  <2>2. Unseen
    BY <1>2 DEF SpawnFails
  <2> QED
    BY <2>1, <2>2 DEF Pcs
<1>3. ASSUME Register(t) PROVE Turning(t) /\ Unseen
  <2>1. Moved(t, "registered")
    BY <1>0, <1>3, RegisterMoves
  <2>2. Unseen
    BY <1>3 DEF Register
  <2> QED
    BY <2>1, <2>2 DEF Pcs
<1>4. ASSUME StartTimer(t) PROVE Turning(t) /\ Unseen
  <2>1. Moved(t, "announcing")
    BY <1>0, <1>4, StartTimerMoves
  <2>2. Unseen
    BY <1>4 DEF StartTimer
  <2> QED
    BY <2>1, <2>2 DEF Pcs
<1>5. ASSUME LoopFails(t) PROVE Turning(t) /\ Unseen
  <2>1. Moved(t, "draining")
    BY <1>0, <1>5, LoopFailsMoves
  <2>2. Unseen
    BY <1>5 DEF LoopFails
  <2> QED
    BY <2>1, <2>2 DEF Pcs
<1>6. ASSUME Reap(t) PROVE Turning(t) /\ Unseen
  <2>1. Moved(t, "judging")
    BY <1>0, <1>6, ReapMoves
  <2>2. Unseen
    BY <1>6 DEF Reap
  <2> QED
    BY <2>1, <2>2 DEF Pcs
<1>7. ASSUME FinishFails(t) PROVE Turning(t) /\ Unseen
  <2>1. Moved(t, "abandoned")
    BY <1>0, <1>7, FinishFailsMoves
  <2>2. Unseen
    BY <1>7 DEF FinishFails
  <2> QED
    BY <2>1, <2>2 DEF Pcs
<1>8. ASSUME BeginFails(t) PROVE Turning(t) /\ Unseen
  <2>1. Moved(t, "done")
    BY <1>0, <1>8, EndMoves DEF BeginFails
  <2>2. Unseen
    BY <1>8 DEF BeginFails
  <2> QED
    BY <2>1, <2>2 DEF Pcs
<1>9. ASSUME PruneList(t) PROVE Turning(t) /\ Unseen
  <2>1. \E pc \in {"pruning", "done"} : Moved(t, pc)
    BY <1>0, <1>9, PruneListMoves
  <2>2. Unseen
    BY <1>9 DEF PruneList
  <2> QED
    BY <2>1, <2>2 DEF Pcs
<1>10. ASSUME NEW isolated \in BOOLEAN, ReadInit(t, isolated) PROVE Turning(t) /\ Unseen
  <2>1. Moved(t, "reading")
    BY <1>0, <1>10, ReadInitMoves
  <2>2. Unseen
    BY <1>10 DEF ReadInit
  <2> QED
    BY <2>1, <2>2 DEF Pcs
<1>11. ASSUME NEW d \in Decisions, ReadDecision(t, d) PROVE Turning(t) /\ Unseen
  <2>1. Moved(t, "reading")
    BY <1>0, <1>11, ReadDecisionMoves
  <2>2. Unseen
    BY <1>11 DEF ReadDecision
  <2> QED
    BY <2>1, <2>2 DEF Pcs
<1>12. ASSUME NEW result \in Results, ReadResult(t, result) PROVE Turning(t) /\ Unseen
  <2>1. Moved(t, "reading")
    BY <1>0, <1>12, ReadResultMoves
  <2>2. Unseen
    BY <1>12 DEF ReadResult
  <2> QED
    BY <2>1, <2>2 DEF Pcs
<1>13. ASSUME NEW valid \in BOOLEAN, Verify(t, valid) PROVE Turning(t) /\ Unseen
  <2>1. Moved(t, "verified")
    BY <1>0, <1>13, VerifyMoves
  <2>2. Unseen
    BY <1>13 DEF Verify
  <2> QED
    BY <2>1, <2>2 DEF Pcs
<1>14. ASSUME NEW exitedClean \in BOOLEAN, Blame(t, exitedClean) PROVE Turning(t) /\ Unseen
  <2>1. Moved(t, "blamed")
    BY <1>0, <1>14, BlameMoves
  <2>2. Unseen
    BY <1>14 DEF Blame
  <2> QED
    BY <2>1, <2>2 DEF Pcs
<1> QED
  BY <1>1, <1>2, <1>3, <1>4, <1>5, <1>6, <1>7, <1>8, <1>9, <1>10, <1>11, <1>12, <1>13, <1>14 DEF Quiet

LEMMA UnseenSame ==
  ASSUME Inv, Unseen, \A t \in Turns : worker'[t].run = worker[t].run
  PROVE  Same
<1>1. mutex \in Turns \cup {NoTurn}
  BY DEF Inv, TypeOK
<1> QED
  BY <1>1, ConstantsAssumption DEF Unseen, Same, Holder, Run, Live

LEMMA TurningRuns ==
  ASSUME NEW t \in Turns, Turning(t)
  PROVE  \A u \in Turns : worker'[u].run = worker[u].run
  BY DEF Turning, Moved

-----------------------------------------------------------------------------
(* The steps the executor sees.                                            *)

\* What the executor reads of the records after one of them changed.
LEMMA SeenChange ==
  ASSUME NEW r \in Runs, NEW rec, TypeOK, disk' = [disk EXCEPT ![r] = rec]
  PROVE  [s \in Runs |-> Seen(disk'[s])] =
           [[s \in Runs |-> Seen(disk[s])] EXCEPT ![r] = Seen(rec)]
  BY DEF TypeOK

\* An in-progress record reads as busy and a verdict as itself.
LEMMA SeenRecord ==
  ASSUME NEW rec \in Record
  PROVE  /\ rec.status \in ActiveStatus => Seen(rec) = "busy"
         /\ rec.status \notin ActiveStatus => Seen(rec) = rec.status
  BY ConstantsAssumption DEF Seen

LEMMA LiveSame ==
  ASSUME UNCHANGED proc
  PROVE  (\E t \in Turns : proc'[t] = "live") = (\E t \in Turns : proc[t] = "live")
  OBVIOUS

\* A claim: the turn takes the mutex and stores a record in progress.
LEMMA ClaimSeen ==
  ASSUME Inv, NEW t \in Turns, NEW rec \in Record, rec.status \in ActiveStatus,
         Claimable, mutex' = t, worker'[t].run = rec.id,
         disk' = [disk EXCEPT ![rec.id] = rec],
         UNCHANGED <<active, proc, cancelled, halted>>
  PROVE  Executor!Claim(rec.id)
<1>1. rec.id \in Runs
  BY DEF Record
<1>2. Holder = NoRun /\ Holder' = rec.id
  BY ConstantsAssumption DEF Holder, Run, Claimable
<1>3. ~(\E u \in Turns : proc[u] = "live")
  <2> SUFFICES ASSUME NEW u \in Turns, proc[u] = "live" PROVE FALSE
    OBVIOUS
  <2>1. worker[u].pc \in Holding
    BY DEF Inv, ProcessInv, MayLive, Holding, Working
  <2> QED
    BY <2>1, HolderOf, <1>2
<1>4. Seen(rec) = "busy"
  BY SeenRecord
<1>5. [s \in Runs |-> Seen(disk'[s])] =
        [[s \in Runs |-> Seen(disk[s])] EXCEPT ![rec.id] = "busy"]
  BY <1>1, <1>4, SeenChange DEF Inv
<1>6. (\E u \in Turns : proc'[u] = "live") = (\E u \in Turns : proc[u] = "live")
  BY LiveSame
<1> QED
  BY <1>2, <1>3, <1>5, <1>6 DEF Executor!Claim

LEMMA LaunchSeen ==
  ASSUME Inv, NEW t \in Turns, NEW r \in Runs, Launch(t, r)
  PROVE  Executor!Claim(r)
<1>1. /\ NewRecord(r) \in Record /\ NewRecord(r).id = r
      /\ NewRecord(r).status \in ActiveStatus
  BY NewRecordType DEF ActiveStatus
<1>2. worker'[t].run = r
  BY DEF Inv, TypeOK, Launch, Local
<1> QED
  BY <1>1, <1>2, ClaimSeen DEF Launch, flags, procs

LEMMA MessageSeen ==
  ASSUME Inv, NEW t \in Turns, NEW q \in Requests, MessageClaim(t, q)
  PROVE  \E r \in Runs : Executor!Claim(r)
<1>0. TypeOK /\ WorkersOK
  BY DEF Inv, TypeOK, WorkersOK
<1>1. PICK rec \in Record : rec = Queued(q) /\ rec.status = "queued"
  BY <1>0, QueuedType DEF MessageClaim
<1>2. /\ disk' = [disk EXCEPT ![rec.id] = rec]
      /\ worker' = [worker EXCEPT ![t] = Local("resuming", rec.id, rec)]
  BY <1>1 DEF MessageClaim, Queued
<1>3. worker'[t].run = rec.id
  BY <1>2, <1>0 DEF TypeOK, Local
<1>4. Executor!Claim(rec.id)
  BY <1>1, <1>2, <1>3, ClaimSeen DEF MessageClaim, ActiveStatus, flags, procs
<1> QED
  BY <1>4, <1>1 DEF Record

\* Filling the slot hands the run from the mutex to `active'.
LEMMA ActivateSame ==
  ASSUME Inv, NEW t \in Turns, Activate(t)
  PROVE  Same
<1>1. mutex = t /\ Holder = Run(t)
  BY HolderOf DEF Activate, Claiming
<1> QED
  BY <1>1, ConstantsAssumption
     DEF Activate, Same, Holder, Live, flags, store, procs

LEMMA LaunchFailsSeen ==
  ASSUME Inv, NEW t \in Turns, LaunchFails(t)
  PROVE  Executor!Free
<1>1. mutex = t /\ ~Live
  BY HolderOf, NoEngine DEF LaunchFails, At, Claiming, MayLive, Owning
<1>2. cancelled = {} /\ halted = {}
  BY <1>1, HolderOf, ConstantsAssumption
     DEF Inv, SlotInv, StopInv, TypeOK, LaunchFails, At, Claiming
<1>3. Holder' = NoRun
  BY DEF LaunchFails, Holder
<1> QED
  BY <1>1, <1>2, <1>3 DEF Executor!Free, LaunchFails, Live, flags, store, procs

LEMMA SpawnSeen ==
  ASSUME Inv, NEW t \in Turns, Spawn(t)
  PROVE  Executor!Start
<1>1. Holder # NoRun /\ ~Live /\ mutex = NoTurn
  BY HolderOf, NoEngine
     DEF Spawn, At, Claiming, Holding, Working, MayLive, Owning
<1>2. \E u \in Turns : proc'[u] = "live"
  BY DEF Spawn, Inv, TypeOK
<1>3. Holder' = Holder
  BY <1>1 DEF Spawn, Holder, slot
<1> QED
  BY <1>1, <1>2, <1>3 DEF Executor!Start, Spawn, Live, flags, store

\* One engine at most is alive, so the executor's engine exits with it.
LEMMA ExitSeen ==
  ASSUME Inv, NEW t \in Turns, Exit(t)
  PROVE  Executor!Exit
<1>1. \A u \in Turns : proc[u] = "live" => u = t
  BY DEF Exit, Inv, ProcessInv, SlotInv, MayLive, Holding, Working
<1>2. ~(\E u \in Turns : proc'[u] = "live")
  BY <1>1 DEF Exit, Inv, TypeOK
<1>3. Holder' = Holder
  BY DEF Exit, Holder, Run, slot
<1> QED
  BY <1>2, <1>3 DEF Executor!Exit, Exit, flags, store

\* A stop that is accepted concerns the run in the slot.
LEMMA StopSeen ==
  ASSUME Inv, mutex = NoTurn, active # NoRun, cancelled' \cup halted' # {},
         UNCHANGED <<mutex, active, disk, proc>>
  PROVE  Executor!Stop
<1>1. Holder = active /\ Holder' = Holder
  BY DEF Holder
<1>2. (\E u \in Turns : proc'[u] = "live") = (\E u \in Turns : proc[u] = "live")
  BY LiveSame
<1> QED
  BY <1>1, <1>2 DEF Executor!Stop

LEMMA SaveSeen ==
  ASSUME Inv, NEW t \in Turns, SaveRunning(t)
  PROVE  Executor!Save
<1>0. TypeOK /\ WorkersOK
  BY DEF Inv, TypeOK, WorkersOK
<1>1. mutex = NoTurn /\ Holder = Run(t) /\ Run(t) \in Runs /\ Holder # NoRun
  BY HolderOf DEF SaveRunning, At, Holding, Working, Owning
<1>2. PICK rec \in Record : rec.status = "running" /\ disk' = [disk EXCEPT ![Run(t)] = rec]
  BY <1>0, AnnouncedType DEF SaveRunning, Run
<1>3. Seen(rec) = "busy"
  BY <1>2, SeenRecord DEF ActiveStatus
<1>4. [s \in Runs |-> Seen(disk'[s])] =
        [[s \in Runs |-> Seen(disk[s])] EXCEPT ![Holder] = "busy"]
  BY <1>0, <1>1, <1>2, <1>3, SeenChange
<1>5. Holder' = Holder
  BY <1>1 DEF SaveRunning, Holder, slot
<1> QED
  BY <1>1, <1>4, <1>5, LiveSame DEF Executor!Save, SaveRunning, flags, procs

\* A verdict is stored for the run in the slot, after its engine, and says
\* "cancelled" only of a run whose cancel still stands.
LEMMA SettleSeen ==
  ASSUME Inv, CancelInv, NEW t \in Turns, StoreVerdict(t)
  PROVE  \E verdict \in FinalStatus : Executor!Settle(verdict)
<1>0. TypeOK /\ WorkersOK
  BY DEF Inv, TypeOK, WorkersOK
<1>1. /\ mutex = NoTurn /\ Holder = Run(t) /\ Run(t) \in Runs /\ Holder # NoRun
      /\ ~Live
  BY HolderOf, NoEngine DEF StoreVerdict, At, Holding, Working, Judging, MayLive, Owning
<1> DEFINE verdict == worker[t].rec.status
<1>2. worker[t].rec \in Record /\ verdict \in FinalStatus
  BY DEF StoreVerdict, At, Inv, LocalsInv, LocalsOK, Holding, Working, Judging
<1>3. Seen(worker[t].rec) = verdict
  BY <1>2, SeenRecord DEF ActiveStatus, FinalStatus
<1>4. [s \in Runs |-> Seen(disk'[s])] =
        [[s \in Runs |-> Seen(disk[s])] EXCEPT ![Holder] = verdict]
  BY <1>0, <1>1, <1>3, SeenChange DEF StoreVerdict
<1>5. verdict = "cancelled" => cancelled \cup halted # {}
  BY DEF StoreVerdict, CancelInv
<1>6. Holder' = Holder
  BY <1>1 DEF StoreVerdict, Holder, slot
<1>7. UNCHANGED <<proc, cancelled, halted>>
  BY DEF StoreVerdict, flags, procs
<1> HIDE DEF verdict
<1>8. Executor!Settle(verdict)
  BY <1>1, <1>4, <1>5, <1>6, <1>7, LiveSame DEF Executor!Settle, Live
<1> QED
  BY <1>2, <1>8

LEMMA FreeSeen ==
  ASSUME Inv, NEW t \in Turns, Free(t)
  PROVE  Executor!Free
<1>1. mutex = NoTurn /\ active = Run(t) /\ active # NoRun /\ ~Live
  BY HolderOf, NoEngine DEF Free, Inv, SlotInv, Holder, Claiming, Holding, MayLive, Owning
<1>2. Holder' = NoRun
  BY <1>1 DEF Free, Running, Holder
<1>3. cancelled' = {} /\ halted' = {}
  BY <1>1 DEF Free, Inv, StopInv
<1> QED
  BY <1>1, <1>2, <1>3, LiveSame DEF Executor!Free, Free, Live, store, procs

LEMMA PruneSeen ==
  ASSUME Inv, NEW t \in Turns, NEW r \in Runs, PruneUnlink(t, r)
  PROVE  Executor!Prune(r)
<1>1. Seen(NoRecord) = "none"
  BY DEF Seen
<1>2. [s \in Runs |-> Seen(disk'[s])] =
        [[s \in Runs |-> Seen(disk[s])] EXCEPT ![r] = "none"]
  BY <1>1, SeenChange DEF PruneUnlink, Inv
<1>3. \A u \in Turns : worker'[u].run = worker[u].run
  BY PruneUnlinkMoves DEF Inv, TypeOK, WorkersOK, Moved
<1>4. Holder' = Holder
  BY <1>3, ConstantsAssumption DEF PruneUnlink, Holder, Run, slot, Inv, TypeOK
<1> QED
  BY <1>2, <1>4, LiveSame DEF Executor!Prune, PruneUnlink, flags, procs

-----------------------------------------------------------------------------
(* Each step of the run manager, and the theorem.                          *)

Implements == CancelInv' /\ [Executor!Next]_(Executor!vars)

LEMMA SameImplements ==
  ASSUME Same, CancelInv' PROVE Implements
  BY SameStutters DEF Implements

LEMMA ExpireImplements ==
  ASSUME Inv, CancelInv, NEW t \in Turns, Expire(t)
  PROVE  Implements
<1>1. CancelInv'
  BY CancelKeeps DEF Expire
<1>2. CASE Running(Run(t))
  <2>1. Executor!Stop
    BY <1>2, StopSeen DEF Expire, Halt, Running, slot, store
  <2> QED
    BY <1>1, <2>1 DEF Implements, Executor!Next
<1>3. CASE ~Running(Run(t))
  <2>1. Unseen /\ worker' = worker
    BY <1>3 DEF Expire, Halt, Unseen, slot, store
  <2> QED
    BY <1>1, <2>1, UnseenSame, SameImplements
<1> QED
  BY <1>2, <1>3

\* The turn that decides looks at `cancelled' and nothing is seen of it.
LEMMA DecideImplements ==
  ASSUME Inv, CancelInv, NEW t \in Turns, Decide(t)
  PROVE  Implements
<1>1. CancelInv'
  BY DecidedStays
<1>2. Moved(t, "decided")
  BY DecideMoves DEF Inv, TypeOK, WorkersOK
<1>3. Unseen /\ \A u \in Turns : worker'[u].run = worker[u].run
  BY <1>2 DEF Decide, Unseen, Moved, slot, flags, store, procs
<1> QED
  BY <1>1, <1>3, UnseenSame, SameImplements

\* Freeing the slot drops the cancel of the only turn that could have decided.
LEMMA FreedStays ==
  ASSUME Inv, NEW t \in Turns, Free(t)
  PROVE  CancelInv'
<1>1. PICK pc \in {"pruning", "done"} : Moved(t, pc)
  BY FreeMoves DEF Inv, TypeOK, WorkersOK
<1>2. \A u \in Turns : worker[u].pc = "decided" => u = t
  BY DEF Free, Inv, SlotInv, Holding, Working, Judging
<1>3. \A u \in Turns : worker'[u].pc # "decided"
  BY <1>1, <1>2 DEF Moved
<1> QED
  BY <1>3 DEF CancelInv, At

LEMMA StepImplements == Inv /\ CancelInv /\ [Next]_vars => Implements
<1> SUFFICES ASSUME Inv, CancelInv, [Next]_vars PROVE Implements
  OBVIOUS
<1>0. WorkersOK /\ TypeOK
  BY DEF Inv, TypeOK, WorkersOK
<1> USE DEF slot, flags, store, procs
<1>1. ASSUME NEW t \in Turns, NEW r \in Runs, Launch(t, r) PROVE Implements
  <2>1. CancelInv'
    BY <1>0, <1>1, LaunchMoves, CancelKeeps DEF Launch, Local, TypeOK
  <2> QED
    BY <1>1, <2>1, LaunchSeen DEF Implements, Executor!Next
<1>2. ASSUME NEW t \in Turns, NEW q \in Requests, MessageClaim(t, q) PROVE Implements
  <2>1. CancelInv'
    BY <1>0, <1>2, MessageClaimMoves, CancelKeeps DEF MessageClaim, Local, TypeOK
  <2> QED
    BY <1>2, <2>1, MessageSeen DEF Implements, Executor!Next
<1>3. ASSUME NEW t \in Turns, LaunchFails(t) PROVE Implements
  <2>1. Turning(t)
    BY <1>0, <1>3, EndMoves DEF LaunchFails, Turning, Pcs
  <2>2. CancelInv'
    BY <1>3, <2>1, TurningKeeps DEF LaunchFails
  <2> QED
    BY <1>3, <2>2, LaunchFailsSeen DEF Implements, Executor!Next
<1>4. ASSUME NEW t \in Turns, Activate(t) PROVE Implements
  <2>1. Turning(t)
    BY <1>0, <1>4, ActivateMoves DEF Turning, Pcs
  <2>2. CancelInv'
    BY <1>4, <2>1, TurningKeeps DEF Activate
  <2> QED
    BY <1>4, <2>2, ActivateSame, SameImplements
<1>5. ASSUME NEW t \in Turns, Spawn(t) PROVE Implements
  <2>1. Turning(t)
    BY <1>0, <1>5, SpawnMoves DEF Turning, Pcs
  <2>2. CancelInv'
    BY <1>5, <2>1, TurningKeeps DEF Spawn
  <2> QED
    BY <1>5, <2>2, SpawnSeen DEF Implements, Executor!Next
<1>6. ASSUME NEW t \in Turns, SaveRunning(t) PROVE Implements
  <2>1. Turning(t)
    BY <1>0, <1>6, SaveRunningMoves DEF Turning, Pcs
  <2>2. CancelInv'
    BY <1>6, <2>1, TurningKeeps DEF SaveRunning
  <2> QED
    BY <1>6, <2>2, SaveSeen DEF Implements, Executor!Next
<1>7. ASSUME NEW t \in Turns, StoreVerdict(t) PROVE Implements
  <2>1. Turning(t)
    BY <1>0, <1>7, StoreVerdictMoves DEF Turning, Pcs
  <2>2. CancelInv'
    BY <1>7, <2>1, TurningKeeps DEF StoreVerdict
  <2> QED
    BY <1>7, <2>2, SettleSeen DEF Implements, Executor!Next
<1>8. ASSUME NEW t \in Turns, Free(t) PROVE Implements
  BY <1>8, FreedStays, FreeSeen DEF Implements, Executor!Next
<1>9. ASSUME NEW t \in Turns, NEW r \in Runs, PruneUnlink(t, r) PROVE Implements
  <2>1. Turning(t)
    BY <1>0, <1>9, PruneUnlinkMoves DEF Turning, Pcs
  <2>2. CancelInv'
    BY <1>9, <2>1, TurningKeeps DEF PruneUnlink
  <2> QED
    BY <1>9, <2>2, PruneSeen DEF Implements, Executor!Next
<1>10. ASSUME NEW t \in Turns, Exit(t) PROVE Implements
  <2>1. CancelInv'
    BY <1>10, CancelKeeps DEF Exit
  <2> QED
    BY <1>10, <2>1, ExitSeen DEF Implements, Executor!Next
<1>11. ASSUME NEW r \in Runs, Cancel(r) PROVE Implements
  <2>1. CancelInv'
    BY <1>11, CancelKeeps DEF Cancel
  <2>2. Executor!Stop
    BY <1>11, StopSeen DEF Cancel, Running
  <2> QED
    BY <2>1, <2>2 DEF Implements, Executor!Next
<1>12. ASSUME NEW t \in Turns, Quiet(t) PROVE Implements
  <2>1. Turning(t) /\ Unseen
    BY <1>12, QuietTurns
  <2>2. CancelInv'
    BY <2>1, TurningKeeps DEF Unseen
  <2> QED
    BY <2>1, <2>2, TurningRuns, UnseenSame, SameImplements
<1>13. ASSUME Unseen, worker' = worker PROVE Implements
  <2>1. CancelInv'
    BY <1>13, CancelKeeps DEF Unseen
  <2> QED
    BY <1>13, <2>1, UnseenSame, SameImplements
<1>14. ASSUME NEW t \in Turns,
             (\E d \in Decisions : JournalAdd(t, d)) \/ TimerFires(t)
       PROVE  Unseen /\ worker' = worker
  BY <1>14 DEF JournalAdd, TimerFires, Unseen
<1>15. ASSUME NEW q \in Requests,
             MessageRefused(q) \/ (\E r \in Runs : MessageRead(q, r))
       PROVE  Unseen /\ worker' = worker
  BY <1>15 DEF MessageRefused, MessageRead, Unseen
<1>16. ASSUME UNCHANGED vars PROVE Unseen /\ worker' = worker
  BY <1>16 DEF vars, Unseen
<1>17. ASSUME NEW t \in Turns, Expire(t) \/ Decide(t) PROVE Implements
  BY <1>17, ExpireImplements, DecideImplements
<1>18. ASSUME NEW t \in Turns, TurnStep(t) PROVE Implements
  BY <1>1, <1>2, <1>3, <1>4, <1>5, <1>6, <1>7, <1>8, <1>9, <1>10, <1>12, <1>13, <1>14,
     <1>17, <1>18
     DEF TurnStep, Request, Advance, Engine, Fail, Quiet
<1> QED
  BY <1>11, <1>13, <1>15, <1>16, <1>18 DEF Next

LEMMA InitImplements == Init => Executor!Init
<1> SUFFICES ASSUME Init PROVE Executor!Init
  OBVIOUS
<1>1. Holder = NoRun
  BY DEF Init, Holder
<1>2. ~(\E t \in Turns : proc[t] = "live")
  BY DEF Init
<1>3. ~(cancelled \cup halted # {})
  BY DEF Init
<1>4. [r \in Runs |-> Seen(disk[r])] = [r \in Runs |-> "none"]
  BY DEF Init, Seen
<1> QED
  BY <1>1, <1>2, <1>3, <1>4 DEF Executor!Init

\* The run manager with its threads, mutex, timers and engine processes is an
\* executor of one run at a time: engines start only in the slot, one at a time,
\* stops concern the run in the slot, and a verdict waits for the engine's end.
THEOREM ExecutesOneAtATimeHolds == Spec => ExecutesOneAtATime
<1>1. Inv /\ CancelInv /\ [Next]_vars => CancelInv' /\ [Executor!Next]_(Executor!vars)
  BY StepImplements DEF Implements
<1>2. Spec => []CancelInv
  BY <1>1, CancelInit, AlwaysInv, PTL DEF Spec
<1> QED
  BY <1>1, <1>2, InitImplements, AlwaysInv, PTL DEF Spec, ExecutesOneAtATime, Executor!Spec
=============================================================================
