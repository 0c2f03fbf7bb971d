------------------------- MODULE RunRecovery_proofs -------------------------
(***************************************************************************)
(* Theorems about RunRecovery for every number of runs, turns, servers and *)
(* sweeping threads, whatever fails and whenever a server dies.            *)
(***************************************************************************)
EXTENDS RunRecovery, RunSlot_proofs

\* The program counters of a turn before its engine starts and of one that reads
\* its own engine's output, whose record names that engine.
Early   == {"none", "launching", "resuming", "activated", "started"}
Reading == {"reading", "draining"}

\* A turn's engine starts with the turn's own step and never before it.
SpawnInv ==
  \A t \in Turns : /\ worker[t].pc \in Early  => proc[t] = "none"
                   /\ worker[t].pc \in MayLive => proc[t] # "none"

\* The engine a record names did start; it ended or it was told to.
Known(rec)   == rec.pid # NoTurn => proc[rec.pid] # "none"
Settled(rec) == rec.pid # NoTurn =>
                  proc[rec.pid] = "exited" \/ (proc[rec.pid] = "live" /\ rec.pid \in signalled)

StoredOK(r) == disk[r] # NoRecord =>
                 Known(disk[r]) /\ (disk[r].status \in FinalStatus => Settled(disk[r]))
ReadOK(q)   == read[q] # NoRecord => Settled(read[q])
HeldOK(t)   == worker[t].rec # NoRecord =>
                 \/ Settled(worker[t].rec)
                 \/ worker[t].pc \in Reading /\ worker[t].rec.pid = t

\* Wherever a record is, on disk, in a request, in a turn, its engine is accounted
\* for; only a record in progress on disk may name an engine nobody has stopped.
EnginesInv ==
  /\ \A r \in Runs : StoredOK(r)
  /\ \A q \in Requests : ReadOK(q)
  /\ \A t \in Turns : HeldOK(t)

\* A sweep that has read a record has one, and it is one of those on disk.
SweepOK(s) == /\ sweep[s].pc = "read" => sweep[s].rec # NoRecord
              /\ sweep[s].rec # NoRecord => Known(sweep[s].rec)
SweepInv   == \A s \in Sweepers : SweepOK(s)

\* A server stops only when another may follow.
BootsInv == server # "up" => boots < MaxBoots

RecoveryInv ==
  RecoveryTypeOK /\ LocalsInv /\ SpawnInv /\ EnginesInv /\ SweepInv /\ BootsInv

-----------------------------------------------------------------------------
(* Engines only go forward, and so does what is known of them.             *)

Forward ==
  /\ signalled \subseteq signalled'
  /\ \A t \in Turns : \/ proc'[t] = proc[t]
                      \/ proc[t] = "none" /\ proc'[t] = "live"
                      \/ proc[t] = "live" /\ proc'[t] = "exited"

LEMMA KnownStays ==
  ASSUME NEW rec \in Record, Forward, Known(rec)
  PROVE  Known(rec)'
  BY DEF Forward, Known, Record

LEMMA SettledStays ==
  ASSUME NEW rec \in Record, Forward, Settled(rec)
  PROVE  Settled(rec)'
  BY DEF Forward, Settled, Record

LEMMA SettledIsKnown ==
  ASSUME NEW rec, Settled(rec)
  PROVE  Known(rec)
  BY DEF Known, Settled

\* Turn t's thread lets go of its record or keeps one that names the same engine.
PidKept(t) ==
  worker'[t].rec # NoRecord =>
    worker[t].rec # NoRecord /\ worker'[t].rec.pid = worker[t].rec.pid

\* What a step leaves to show once it is known which records it changed.
LEMMA EnginesStep ==
  ASSUME TypeOK, TypeOK', EnginesInv, Forward,
         \A r \in Runs : disk'[r] = disk[r] \/ StoredOK(r)',
         \A q \in Requests : read'[q] = read[q] \/ ReadOK(q)',
         \A t \in Turns : \/ PidKept(t) /\ (worker[t].pc \in Reading => worker'[t].pc \in Reading)
                          \/ HeldOK(t)'
  PROVE  EnginesInv'
<1>1. ASSUME NEW r \in Runs, disk'[r] = disk[r] PROVE StoredOK(r)'
  <2>1. disk[r] # NoRecord => disk[r] \in Record
    BY DEF TypeOK
  <2>2. StoredOK(r)
    BY DEF EnginesInv
  <2> QED
    BY <1>1, <2>1, <2>2 DEF Forward, StoredOK, Known, Settled, Record
<1>2. ASSUME NEW q \in Requests, read'[q] = read[q] PROVE ReadOK(q)'
  <2>1. read[q] # NoRecord => read[q] \in Record
    BY DEF TypeOK
  <2>2. ReadOK(q)
    BY DEF EnginesInv
  <2> QED
    BY <1>2, <2>1, <2>2 DEF Forward, ReadOK, Settled, Record
<1>3. ASSUME NEW t \in Turns, PidKept(t),
             worker[t].pc \in Reading => worker'[t].pc \in Reading
      PROVE  HeldOK(t)'
  <2>1. worker[t].rec # NoRecord => worker[t].rec.pid \in Turns \cup {NoTurn}
    BY DEF TypeOK, Worker, Record
  <2>2. HeldOK(t)
    BY DEF EnginesInv
  <2> QED
    BY <1>3, <2>1, <2>2 DEF Forward, HeldOK, PidKept, Settled
<1> QED
  BY <1>1, <1>2, <1>3 DEF EnginesInv

\* A turn's thread moves on; no engine starts or ends and no record is stored.
LEMMA ThreadStep ==
  ASSUME NEW t \in Turns, NEW pc, TypeOK, TypeOK', SpawnInv, EnginesInv,
         Moved(t, pc), PidKept(t),
         UNCHANGED <<disk, read, proc>>, signalled \subseteq signalled',
         pc \in Early => worker[t].pc \in Early,
         pc \in MayLive => worker[t].pc \in MayLive,
         worker[t].pc \in Reading => pc \in Reading
  PROVE  Forward /\ SpawnInv' /\ EnginesInv'
<1>1. Forward
  BY DEF Forward
<1>2. SpawnInv'
  BY DEF SpawnInv, Moved
<1>3. \A u \in Turns : PidKept(u) /\ (worker[u].pc \in Reading => worker'[u].pc \in Reading)
  BY DEF Moved, PidKept
<1> QED
  BY <1>1, <1>2, <1>3, EnginesStep

\* No thread moves and no record is stored.
LEMMA AsideKeeps ==
  ASSUME TypeOK, TypeOK', SpawnInv, EnginesInv, Forward,
         UNCHANGED <<disk, worker>>,
         \A t \in Turns : proc[t] = "none" => proc'[t] = "none",
         \A q \in Requests : read'[q] = read[q] \/ ReadOK(q)'
  PROVE  SpawnInv' /\ EnginesInv'
<1>1. SpawnInv'
  BY DEF SpawnInv, Forward
<1>2. \A u \in Turns : PidKept(u) /\ (worker[u].pc \in Reading => worker'[u].pc \in Reading)
  BY DEF PidKept
<1> QED
  BY <1>1, <1>2, EnginesStep

-----------------------------------------------------------------------------
(* The steps of a server's threads, as in RunSlot.                         *)

\* What every step starts from.
Base == TypeOK /\ LocalsInv /\ SpawnInv /\ EnginesInv

LEMMA BaseType == ASSUME Base PROVE WorkersOK
  BY DEF Base, TypeOK, WorkersOK

\* A turn that has a record works on a typed one.
LEMMA LocalRecord ==
  ASSUME NEW t \in Turns, Base
  PROVE  /\ worker[t] \in Worker
         /\ worker[t].rec # NoRecord => worker[t].rec \in Record
  BY DEF Base, TypeOK, Worker

LEMMA ActivateKeeps ==
  ASSUME NEW t \in Turns, Base, TypeOK', Activate(t)
  PROVE  Forward /\ SpawnInv' /\ EnginesInv'
<1>1. Moved(t, "activated")
  BY BaseType, ActivateMoves
<1>2. PidKept(t)
  BY LocalRecord DEF Activate, PidKept, Goto, Worker, Record, At, Holding, Working, Owning, Judging
<1>3. UNCHANGED <<disk, read, proc>> /\ signalled \subseteq signalled'
  BY DEF Activate, store, procs
<1> QED
  BY <1>1, <1>2, <1>3, ThreadStep DEF Activate, Base, At, Early, MayLive, Owning, Reading

LEMMA BeginKeeps ==
  ASSUME NEW t \in Turns, Base, TypeOK', Begin(t)
  PROVE  Forward /\ SpawnInv' /\ EnginesInv'
<1>1. Moved(t, "started")
  BY BaseType, BeginMoves
<1>2. PidKept(t)
  BY LocalRecord DEF Begin, PidKept, Goto, Worker, Record, At, Holding, Working, Owning, Judging
<1>3. UNCHANGED <<disk, read, proc>> /\ signalled \subseteq signalled'
  BY DEF Begin, store, procs
<1> QED
  BY <1>1, <1>2, <1>3, ThreadStep DEF Begin, Base, At, Early, MayLive, Owning, Reading

LEMMA RegisterKeeps ==
  ASSUME NEW t \in Turns, Base, TypeOK', Register(t)
  PROVE  Forward /\ SpawnInv' /\ EnginesInv'
<1>1. Moved(t, "registered")
  BY BaseType, RegisterMoves
<1>2. PidKept(t)
  BY LocalRecord DEF Register, PidKept, Goto, Worker, Record, At, Holding, Working, Owning, Judging
<1>3. UNCHANGED <<disk, read, proc>> /\ signalled \subseteq signalled'
  BY DEF Register, store, procs
<1> QED
  BY <1>1, <1>2, <1>3, ThreadStep DEF Register, Base, At, Early, MayLive, Owning, Reading

LEMMA StartTimerKeeps ==
  ASSUME NEW t \in Turns, Base, TypeOK', StartTimer(t)
  PROVE  Forward /\ SpawnInv' /\ EnginesInv'
<1>1. Moved(t, "announcing")
  BY BaseType, StartTimerMoves
<1>2. PidKept(t)
  BY LocalRecord DEF StartTimer, PidKept, Goto, Worker, Record, At, Holding, Working, Owning, Judging
<1>3. UNCHANGED <<disk, read, proc>> /\ signalled \subseteq signalled'
  BY DEF StartTimer, store, procs
<1> QED
  BY <1>1, <1>2, <1>3, ThreadStep DEF StartTimer, Base, At, Early, MayLive, Owning, Reading

LEMMA SpawnFailsKeeps ==
  ASSUME NEW t \in Turns, Base, TypeOK', SpawnFails(t)
  PROVE  Forward /\ SpawnInv' /\ EnginesInv'
<1>1. Moved(t, "judging")
  BY BaseType, SpawnFailsMoves
<1>2. PidKept(t)
  BY LocalRecord DEF SpawnFails, PidKept, Worker, Record, At, Holding, Working, Owning, Judging
<1>3. UNCHANGED <<disk, read, proc>> /\ signalled \subseteq signalled'
  BY DEF SpawnFails, store, procs
<1> QED
  BY <1>1, <1>2, <1>3, ThreadStep DEF SpawnFails, Base, At, Early, MayLive, Owning, Reading

LEMMA LoopFailsKeeps ==
  ASSUME NEW t \in Turns, Base, TypeOK', LoopFails(t)
  PROVE  Forward /\ SpawnInv' /\ EnginesInv'
<1>1. Moved(t, "draining")
  BY BaseType, LoopFailsMoves
<1>2. PidKept(t)
  BY LocalRecord DEF LoopFails, PidKept, Worker, Record, At, Holding, Working, Owning, Judging
<1>3. UNCHANGED <<disk, read, proc>> /\ signalled \subseteq signalled'
  BY DEF LoopFails, store, procs
<1> QED
  BY <1>1, <1>2, <1>3, ThreadStep DEF LoopFails, Base, At, Early, MayLive, Owning, Reading

LEMMA ReadInitKeeps ==
  ASSUME NEW t \in Turns, NEW b \in BOOLEAN, Base, TypeOK', ReadInit(t, b)
  PROVE  Forward /\ SpawnInv' /\ EnginesInv'
<1>1. Moved(t, "reading")
  BY BaseType, ReadInitMoves
<1>2. PidKept(t)
  <2> DEFINE rec == [worker[t].rec EXCEPT !.session = TRUE]
             w == [worker[t] EXCEPT !.rec.session = TRUE, !.error = worker[t].error \/ ~b]
  <2>1. worker[t] \in Worker /\ worker[t].rec \in Record
    BY BaseType, HasRecord DEF ReadInit, At, Holding, Working, Owning, Judging
  <2>2. rec.pid = worker[t].rec.pid
    BY <2>1 DEF Record
  <2>3. w.rec = rec
    BY <2>1 DEF Worker
  <2>4. worker' = [worker EXCEPT ![t] = w]
    BY DEF ReadInit
  <2> HIDE DEF w, rec
  <2>5. worker'[t] = w
    BY <2>4, BaseType DEF WorkersOK
  <2> QED
    BY <2>1, <2>2, <2>3, <2>5, ConstantsAssumption DEF PidKept
<1>3. UNCHANGED <<disk, read, proc>> /\ signalled \subseteq signalled'
  BY DEF ReadInit, store, procs
<1> QED
  BY <1>1, <1>2, <1>3, ThreadStep DEF ReadInit, Base, At, Early, MayLive, Owning, Reading

LEMMA ReadDecisionKeeps ==
  ASSUME NEW t \in Turns, NEW d \in Decisions, Base, TypeOK', ReadDecision(t, d)
  PROVE  Forward /\ SpawnInv' /\ EnginesInv'
<1>1. Moved(t, "reading")
  BY BaseType, ReadDecisionMoves
<1>2. PidKept(t)
  <2> DEFINE rec == [worker[t].rec EXCEPT !.decisions = @ \cup {d}]
             w == [worker[t] EXCEPT !.rec = rec]
  <2>1. worker[t] \in Worker /\ worker[t].rec \in Record
    BY BaseType, HasRecord DEF ReadDecision, At, Holding, Working, Owning, Judging
  <2>2. rec.pid = worker[t].rec.pid
    BY <2>1 DEF Record
  <2>3. w.rec = rec
    BY <2>1 DEF Worker
  <2>4. worker' = [worker EXCEPT ![t] = w]
    BY DEF ReadDecision
  <2> HIDE DEF w, rec
  <2>5. worker'[t] = w
    BY <2>4, BaseType DEF WorkersOK
  <2> QED
    BY <2>1, <2>2, <2>3, <2>5, ConstantsAssumption DEF PidKept
<1>3. UNCHANGED <<disk, read, proc>> /\ signalled \subseteq signalled'
  BY DEF ReadDecision, store, procs
<1> QED
  BY <1>1, <1>2, <1>3, ThreadStep DEF ReadDecision, Base, At, Early, MayLive, Owning, Reading

LEMMA ReadResultKeeps ==
  ASSUME NEW t \in Turns, NEW x \in Results, Base, TypeOK', ReadResult(t, x)
  PROVE  Forward /\ SpawnInv' /\ EnginesInv'
<1>1. Moved(t, "reading")
  BY BaseType, ReadResultMoves
<1>2. PidKept(t)
  <2> DEFINE rec == [worker[t].rec EXCEPT !.session = TRUE]
             w == [worker[t] EXCEPT !.rec = rec, !.result = x]
  <2>1. worker[t] \in Worker /\ worker[t].rec \in Record
    BY BaseType, HasRecord DEF ReadResult, At, Holding, Working, Owning, Judging
  <2>2. rec.pid = worker[t].rec.pid
    BY <2>1 DEF Record
  <2>3. w.rec = rec
    BY <2>1 DEF Worker
  <2>4. worker' = [worker EXCEPT ![t] = w]
    BY DEF ReadResult
  <2> HIDE DEF w, rec
  <2>5. worker'[t] = w
    BY <2>4, BaseType DEF WorkersOK
  <2> QED
    BY <2>1, <2>2, <2>3, <2>5, ConstantsAssumption DEF PidKept
<1>3. UNCHANGED <<disk, read, proc>> /\ signalled \subseteq signalled'
  BY DEF ReadResult, store, procs
<1> QED
  BY <1>1, <1>2, <1>3, ThreadStep DEF ReadResult, Base, At, Early, MayLive, Owning, Reading

LEMMA VerifyKeeps ==
  ASSUME NEW t \in Turns, NEW b \in BOOLEAN, Base, TypeOK', Verify(t, b)
  PROVE  Forward /\ SpawnInv' /\ EnginesInv'
<1>1. Moved(t, "verified")
  BY BaseType, VerifyMoves
<1>2. PidKept(t)
  <2> DEFINE rec == [worker[t].rec EXCEPT !.status = "verifying"]
             w == [worker[t] EXCEPT !.pc = "verified", !.rec = rec, !.valid = b]
  <2>1. worker[t] \in Worker /\ worker[t].rec \in Record
    BY BaseType, HasRecord DEF Verify, At, Holding, Working, Owning, Judging
  <2>2. rec.pid = worker[t].rec.pid
    BY <2>1 DEF Record
  <2>3. w.rec = rec
    BY <2>1 DEF Worker
  <2>4. worker' = [worker EXCEPT ![t] = w]
    BY DEF Verify
  <2> HIDE DEF w, rec
  <2>5. worker'[t] = w
    BY <2>4, BaseType DEF WorkersOK
  <2> QED
    BY <2>1, <2>2, <2>3, <2>5, ConstantsAssumption DEF PidKept
<1>3. UNCHANGED <<disk, read, proc>> /\ signalled \subseteq signalled'
  BY DEF Verify, store, procs
<1> QED
  BY <1>1, <1>2, <1>3, ThreadStep DEF Verify, Base, At, Early, MayLive, Owning, Reading

LEMMA BlameKeeps ==
  ASSUME NEW t \in Turns, NEW b \in BOOLEAN, Base, TypeOK', Blame(t, b)
  PROVE  Forward /\ SpawnInv' /\ EnginesInv'
<1>1. Moved(t, "blamed")
  BY BaseType, BlameMoves
<1>2. PidKept(t)
  BY LocalRecord DEF Blame, PidKept, Worker, Record, At, Holding, Working, Owning, Judging
<1>3. UNCHANGED <<disk, read, proc>> /\ signalled \subseteq signalled'
  BY DEF Blame, store, procs
<1> QED
  BY <1>1, <1>2, <1>3, ThreadStep DEF Blame, Base, At, Early, MayLive, Owning, Reading

LEMMA DecideKeeps ==
  ASSUME NEW t \in Turns, Base, TypeOK', Decide(t)
  PROVE  Forward /\ SpawnInv' /\ EnginesInv'
<1>1. Moved(t, "decided")
  BY BaseType, DecideMoves
<1>2. PidKept(t)
  <2> DEFINE rec == [worker[t].rec EXCEPT !.status = Verdict(worker[t])]
             w == Local("decided", worker[t].run, rec)
  <2>1. worker[t] \in Worker /\ worker[t].rec \in Record
    BY BaseType, HasRecord DEF Decide, At, Holding, Working, Owning, Judging
  <2>2. rec.pid = worker[t].rec.pid
    BY <2>1 DEF Record
  <2>3. w.rec = rec
    BY <2>1 DEF Worker, Local
  <2>4. worker' = [worker EXCEPT ![t] = w]
    BY DEF Decide, Run
  <2> HIDE DEF w, rec
  <2>5. worker'[t] = w
    BY <2>4, BaseType DEF WorkersOK
  <2> QED
    BY <2>1, <2>2, <2>3, <2>5, ConstantsAssumption DEF PidKept
<1>3. UNCHANGED <<disk, read, proc>> /\ signalled \subseteq signalled'
  BY DEF Decide, store, procs
<1> QED
  BY <1>1, <1>2, <1>3, ThreadStep DEF Decide, Base, At, Early, MayLive, Owning, Reading

LEMMA FinishFailsKeeps ==
  ASSUME NEW t \in Turns, Base, TypeOK', FinishFails(t)
  PROVE  Forward /\ SpawnInv' /\ EnginesInv'
<1>1. Moved(t, "abandoned")
  BY BaseType, FinishFailsMoves
<1>2. PidKept(t)
  BY LocalRecord DEF FinishFails, PidKept, Goto, Worker, Record, At, Holding, Working, Owning, Judging
<1>3. UNCHANGED <<disk, read, proc>> /\ signalled \subseteq signalled'
  BY DEF FinishFails, store, procs
<1> QED
  BY <1>1, <1>2, <1>3, ThreadStep DEF FinishFails, Base, At, Early, MayLive, Owning, Reading

\* A thread that ends its work lets go of its record.
LEMMA EndKeeps ==
  ASSUME NEW t \in Turns, NEW pc \in {"pruning", "done"}, Base, TypeOK', End(t, pc),
         UNCHANGED <<disk, read, proc, signalled>>,
         worker[t].pc \notin Reading
  PROVE  Forward /\ SpawnInv' /\ EnginesInv'
<1>1. Moved(t, pc)
  BY BaseType, EndMoves
<1>2. PidKept(t)
  BY BaseType DEF PidKept, End, Local, WorkersOK
<1>3. UNCHANGED <<disk, read, proc>> /\ signalled \subseteq signalled'
  OBVIOUS
<1> QED
  BY <1>1, <1>2, <1>3, ThreadStep DEF Base, Early, MayLive, Owning

LEMMA LaunchFailsKeeps ==
  ASSUME NEW t \in Turns, Base, TypeOK', LaunchFails(t)
  PROVE  Forward /\ SpawnInv' /\ EnginesInv'
  BY EndKeeps DEF LaunchFails, At, store, procs, Reading

LEMMA BeginFailsKeeps ==
  ASSUME NEW t \in Turns, Base, TypeOK', BeginFails(t)
  PROVE  Forward /\ SpawnInv' /\ EnginesInv'
  BY EndKeeps DEF BeginFails, At, store, procs, Reading

LEMMA FreeKeeps ==
  ASSUME NEW t \in Turns, Base, TypeOK', Free(t)
  PROVE  Forward /\ SpawnInv' /\ EnginesInv'
  BY EndKeeps DEF Free, At, store, procs, Reading

\* Pruning takes records away and concerns no engine.
LEMMA PruneKeeps ==
  ASSUME NEW t \in Turns, Base, TypeOK', At(t, "pruning"),
         PruneList(t) \/ \E r \in Runs : PruneUnlink(t, r)
  PROVE  Forward /\ SpawnInv' /\ EnginesInv'
<1>1. PICK pc \in {"pruning", "done"} : Moved(t, pc)
  BY BaseType, PruneListMoves, PruneUnlinkMoves
<1>2. PidKept(t)
  <2>1. PICK w, victims : /\ worker' = [worker EXCEPT ![t] = w]
                          /\ \/ w = Local("done", worker[t].run, NoRecord)
                             \/ w = [worker[t] EXCEPT !.victims = victims]
    <3>1. CASE PruneList(t)
      <4>1. CASE Surplus = {}
        BY <3>1, <4>1 DEF PruneList, Run
      <4>2. CASE Surplus # {}
        BY <3>1, <4>2 DEF PruneList
      <4> QED
        BY <4>1, <4>2
    <3>2. ASSUME NEW r \in Runs, PruneUnlink(t, r)
          PROVE  \E w, victims : /\ worker' = [worker EXCEPT ![t] = w]
                                 /\ \/ w = Local("done", worker[t].run, NoRecord)
                                    \/ w = [worker[t] EXCEPT !.victims = victims]
      <4>1. CASE worker[t].victims = {r}
        BY <3>2, <4>1 DEF PruneUnlink, Run
      <4>2. CASE worker[t].victims # {r}
        BY <3>2, <4>2 DEF PruneUnlink
      <4> QED
        BY <4>1, <4>2
    <3> QED
      BY <3>1, <3>2
  <2>2. worker'[t] = w
    BY <2>1, BaseType DEF WorkersOK
  <2>3. CASE w = Local("done", worker[t].run, NoRecord)
    BY <2>2, <2>3 DEF PidKept, Local
  <2>4. CASE w = [worker[t] EXCEPT !.victims = victims]
    BY <2>2, <2>4, LocalRecord DEF PidKept, Worker
  <2> QED
    BY <2>1, <2>3, <2>4
<1>3. read' = read /\ proc' = proc /\ signalled' = signalled
  BY DEF PruneList, PruneUnlink, procs
<1>4. Forward
  BY <1>3 DEF Forward
<1>5. SpawnInv'
  BY <1>1, <1>3 DEF Base, SpawnInv, Moved, Early, MayLive, Owning
<1>6. \A r \in Runs : disk'[r] = disk[r] \/ disk'[r] = NoRecord
  BY DEF PruneList, PruneUnlink, store, Base, TypeOK
<1>7. \A r \in Runs : disk'[r] = disk[r] \/ StoredOK(r)'
  BY <1>6 DEF StoredOK
<1>8. \A u \in Turns : PidKept(u) /\ (worker[u].pc \in Reading => worker'[u].pc \in Reading)
  BY <1>1, <1>2 DEF Moved, PidKept, At, Reading
<1> QED
  BY <1>3, <1>4, <1>5, <1>7, <1>8, EnginesStep DEF Base

\* A claim stores the record it works on, which names no engine that still runs
\* unstopped.
LEMMA ClaimKeeps ==
  ASSUME NEW t \in Turns, NEW rec \in Record, NEW pc \in Claiming, Base, TypeOK',
         Settled(rec), At(t, "none"),
         disk' = [disk EXCEPT ![rec.id] = rec],
         worker' = [worker EXCEPT ![t] = Local(pc, rec.id, rec)],
         UNCHANGED <<proc, signalled>>,
         \A q \in Requests : read'[q] = read[q] \/ read'[q] = NoRecord
  PROVE  Forward /\ SpawnInv' /\ EnginesInv'
<1>1. Forward
  BY DEF Forward
<1>2. /\ worker'[t].pc = pc /\ worker'[t].rec = rec
      /\ \A u \in Turns \ {t} : worker'[u] = worker[u]
  BY BaseType DEF WorkersOK, Local
<1>3. SpawnInv'
  BY <1>2 DEF Base, SpawnInv, At, Claiming, Early, MayLive, Owning
<1>4. Settled(rec)' /\ Known(rec)'
  BY <1>1, SettledStays, KnownStays, SettledIsKnown
<1>5. \A r \in Runs : disk'[r] = disk[r] \/ StoredOK(r)'
  BY <1>4 DEF Base, TypeOK, StoredOK, Settled, Known
<1>6. HeldOK(t)'
  BY <1>2, <1>4 DEF HeldOK, Settled
<1>7. \A u \in Turns \ {t} :
        PidKept(u) /\ (worker[u].pc \in Reading => worker'[u].pc \in Reading)
  BY <1>2 DEF PidKept
<1>8. \A q \in Requests : read'[q] = read[q] \/ ReadOK(q)'
  BY DEF ReadOK
<1> QED
  BY <1>1, <1>3, <1>5, <1>6, <1>7, <1>8, EnginesStep DEF Base

LEMMA LaunchKeeps ==
  ASSUME NEW t \in Turns, NEW r \in Runs, Base, TypeOK', Launch(t, r)
  PROVE  Forward /\ SpawnInv' /\ EnginesInv'
<1> DEFINE rec == NewRecord(r)
<1>1. rec \in Record /\ rec.id = r
  BY NewRecordType
<1>2. Settled(rec)
  BY DEF Settled, NewRecord
<1>3. /\ disk' = [disk EXCEPT ![rec.id] = rec] /\ At(t, "none")
      /\ worker' = [worker EXCEPT ![t] = Local("launching", rec.id, rec)]
      /\ proc' = proc /\ signalled' = signalled /\ read' = read
  BY <1>1 DEF Launch, procs
<1> HIDE DEF rec
<1> QED
  BY <1>1, <1>2, <1>3, ClaimKeeps DEF Claiming

LEMMA MessageClaimKeeps ==
  ASSUME NEW t \in Turns, NEW q \in Requests, Base, TypeOK', MessageClaim(t, q)
  PROVE  Forward /\ SpawnInv' /\ EnginesInv'
<1> DEFINE rec == Queued(q)
<1>1. read[q] \in Record /\ read[q] # NoRecord
  BY DEF MessageClaim, Base, TypeOK
<1>2. rec \in Record /\ rec.pid = read[q].pid
  BY <1>1 DEF Queued, Record, ActiveStatus
<1>3. Settled(read[q])
  BY <1>1 DEF Base, EnginesInv, ReadOK
<1>4. Settled(rec)
  BY <1>2, <1>3 DEF Settled
<1>5. /\ disk' = [disk EXCEPT ![rec.id] = rec] /\ At(t, "none")
      /\ worker' = [worker EXCEPT ![t] = Local("resuming", rec.id, rec)]
      /\ proc' = proc /\ signalled' = signalled
      /\ read' = [read EXCEPT ![q] = NoRecord]
  BY DEF MessageClaim, Queued, procs
<1> HIDE DEF rec
<1>6. \A p \in Requests : read'[p] = read[p] \/ read'[p] = NoRecord
  BY <1>5 DEF Base, TypeOK
<1> QED
  BY <1>2, <1>4, <1>5, <1>6, ClaimKeeps DEF Claiming

\* The engine starts: until now no record could name it.
LEMMA SpawnKeeps ==
  ASSUME NEW t \in Turns, Base, TypeOK', Spawn(t)
  PROVE  Forward /\ SpawnInv' /\ EnginesInv'
<1>1. Moved(t, "spawned")
  BY BaseType, SpawnMoves
<1>2. PidKept(t)
  BY LocalRecord DEF Spawn, PidKept, Goto, Worker, Record
<1>3. /\ proc[t] = "none" /\ proc' = [proc EXCEPT ![t] = "live"]
      /\ disk' = disk /\ read' = read /\ signalled' = signalled
  BY DEF Spawn, Base, SpawnInv, At, Early, store
<1>4. Forward
  BY <1>3 DEF Forward, Base, TypeOK
<1>5. SpawnInv'
  BY <1>1, <1>3 DEF Base, TypeOK, SpawnInv, Moved, Early, MayLive, Owning
<1>6. \A u \in Turns : PidKept(u) /\ (worker[u].pc \in Reading => worker'[u].pc \in Reading)
  BY <1>1, <1>2 DEF Moved, PidKept, Spawn, At, Reading
<1> QED
  BY <1>3, <1>4, <1>5, <1>6, EnginesStep DEF Base

\* The running record names the engine its turn has started.
LEMMA SaveRunningKeeps ==
  ASSUME NEW t \in Turns, Base, TypeOK', SaveRunning(t)
  PROVE  Forward /\ SpawnInv' /\ EnginesInv'
<1>1. Moved(t, "reading")
  BY BaseType, SaveRunningMoves
<1>2. /\ worker[t].pc = "announcing" /\ proc' = proc /\ signalled' = signalled
      /\ read' = read
  BY DEF SaveRunning, At, procs
<1>3. Forward
  BY <1>2 DEF Forward
<1>4. SpawnInv'
  BY <1>1, <1>2 DEF Base, SpawnInv, Moved, Early, MayLive, Owning
<1>5. proc[t] # "none"
  BY <1>2 DEF Base, SpawnInv, MayLive, Owning
<1> DEFINE rec == Announced(t)
<1>6. /\ worker[t] \in Worker /\ worker[t].rec \in Record
      /\ rec.status = "running"
      /\ disk' = [disk EXCEPT ![worker[t].run] = rec]
  BY <1>2, BaseType, AnnouncedType, HasRecord DEF Holding, Working, Owning
<1>7. rec.pid = t
  BY <1>6 DEF Announced, Record
<1>8. worker'[t].rec = rec
  <2>1. worker' = [worker EXCEPT ![t] = [worker[t] EXCEPT !.pc = "reading", !.rec = rec]]
    BY DEF SaveRunning, Announced
  <2> HIDE DEF rec
  <2> QED
    BY <1>6, <2>1, BaseType DEF WorkersOK, Worker
<1> HIDE DEF rec
<1>9. HeldOK(t)'
  BY <1>1, <1>7, <1>8 DEF HeldOK, Moved, Reading
<1>10. \A r \in Runs : disk'[r] = disk[r] \/ StoredOK(r)'
  BY <1>2, <1>5, <1>6, <1>7 DEF Base, TypeOK, StoredOK, Known, FinalStatus
<1>11. \A u \in Turns \ {t} :
         PidKept(u) /\ (worker[u].pc \in Reading => worker'[u].pc \in Reading)
  BY <1>1 DEF Moved, PidKept
<1> QED
  BY <1>2, <1>3, <1>4, <1>9, <1>10, <1>11, EnginesStep DEF Base

\* The output ended with the engine, so the record a turn is judged by names an
\* engine that is gone.
LEMMA ReapKeeps ==
  ASSUME NEW t \in Turns, Base, TypeOK', Reap(t)
  PROVE  Forward /\ SpawnInv' /\ EnginesInv'
<1>1. Moved(t, "judging")
  BY BaseType, ReapMoves
<1>2. /\ worker[t].pc \in Reading /\ proc[t] = "exited"
      /\ proc' = proc /\ signalled' = signalled /\ read' = read /\ disk' = disk
  BY DEF Reap, Reading, store
<1>3. Forward
  BY <1>2 DEF Forward
<1>4. SpawnInv'
  BY <1>1, <1>2 DEF Base, SpawnInv, Moved, Early, MayLive, Owning
<1>5. worker'[t].rec = worker[t].rec
  BY LocalRecord, BaseType DEF Reap, Goto, WorkersOK, Worker
<1>6. HeldOK(t)
  BY DEF Base, EnginesInv
<1>7. HeldOK(t)'
  BY <1>2, <1>5, <1>6 DEF HeldOK, Settled
<1>8. \A u \in Turns \ {t} :
        PidKept(u) /\ (worker[u].pc \in Reading => worker'[u].pc \in Reading)
  BY <1>1 DEF Moved, PidKept
<1> QED
  BY <1>2, <1>3, <1>4, <1>7, <1>8, EnginesStep DEF Base

LEMMA StoreVerdictKeeps ==
  ASSUME NEW t \in Turns, Base, TypeOK', StoreVerdict(t)
  PROVE  Forward /\ SpawnInv' /\ EnginesInv'
<1>1. Moved(t, "stored")
  BY BaseType, StoreVerdictMoves
<1>2. /\ worker[t].pc = "decided" /\ disk' = [disk EXCEPT ![worker[t].run] = worker[t].rec]
      /\ proc' = proc /\ signalled' = signalled /\ read' = read
  BY DEF StoreVerdict, At, Run, procs
<1>3. worker[t].rec \in Record
  BY <1>2, BaseType, HasRecord DEF Holding, Working, Judging
<1>4. Forward
  BY <1>2 DEF Forward
<1>5. SpawnInv'
  BY <1>1, <1>2 DEF Base, SpawnInv, Moved, Early, MayLive, Owning
<1>6. PidKept(t)
  BY LocalRecord DEF StoreVerdict, PidKept, Goto, Worker, Record
<1>7. Settled(worker[t].rec)
  BY <1>2, <1>3, ConstantsAssumption DEF Base, EnginesInv, HeldOK, Reading
<1>8. \A r \in Runs : disk'[r] = disk[r] \/ StoredOK(r)'
  BY <1>2, <1>7 DEF Base, TypeOK, StoredOK, Known, Settled
<1>9. \A u \in Turns : PidKept(u) /\ (worker[u].pc \in Reading => worker'[u].pc \in Reading)
  BY <1>1, <1>2, <1>6 DEF Moved, PidKept, Reading
<1> QED
  BY <1>2, <1>4, <1>5, <1>8, <1>9, EnginesStep DEF Base

\* A request reads the record of a run that is over.
LEMMA MessageReadKeeps ==
  ASSUME NEW q \in Requests, NEW r \in Runs, Base, TypeOK', MessageRead(q, r)
  PROVE  Forward /\ SpawnInv' /\ EnginesInv'
<1>1. /\ disk' = disk /\ worker' = worker /\ proc' = proc /\ signalled' = signalled
      /\ read' = [read EXCEPT ![q] = disk[r]]
      /\ disk[r] # NoRecord /\ disk[r].status \in FinalStatus
  BY DEF MessageRead, store, procs, Stored
<1>2. Forward
  BY <1>1 DEF Forward
<1>3. Settled(disk[r])
  BY <1>1 DEF Base, EnginesInv, StoredOK
<1>4. \A p \in Requests : read'[p] = read[p] \/ ReadOK(p)'
  BY <1>1, <1>3 DEF Base, TypeOK, ReadOK, Settled
<1> QED
  BY <1>1, <1>2, <1>4, AsideKeeps DEF Base

\* The steps of timers, cancels and engines, which touch no record.
LEMMA AsideStepKeeps ==
  ASSUME Base, TypeOK',
         \/ UNCHANGED vars
         \/ \E q \in Requests : MessageRefused(q)
         \/ \E r \in Runs : Cancel(r)
         \/ \E t \in Turns : TimerFires(t) \/ Expire(t) \/ Exit(t)
         \/ \E t \in Turns, d \in Decisions : JournalAdd(t, d)
  PROVE  Forward /\ SpawnInv' /\ EnginesInv'
<1>1. disk' = disk /\ worker' = worker
  BY DEF vars, store, MessageRefused, Cancel, TimerFires, Expire, Exit, JournalAdd
<1>2. signalled \subseteq signalled'
  BY DEF vars, procs, MessageRefused, Cancel, SignalHeld, Halt, TimerFires, Expire, Exit,
         JournalAdd
<1>3. \A u \in Turns : proc'[u] = proc[u] \/ (proc[u] = "live" /\ proc'[u] = "exited")
  BY DEF vars, procs, MessageRefused, Cancel, TimerFires, Expire, Exit, JournalAdd,
         Base, TypeOK
<1>4. \A q \in Requests : read'[q] = read[q] \/ read'[q] = NoRecord
  BY DEF vars, MessageRefused, Cancel, TimerFires, Expire, Exit, JournalAdd, Base, TypeOK
<1>5. Forward
  BY <1>2, <1>3 DEF Forward
<1>6. \A q \in Requests : read'[q] = read[q] \/ ReadOK(q)'
  BY <1>4 DEF ReadOK
<1> QED
  BY <1>1, <1>3, <1>5, <1>6, AsideKeeps DEF Base

\* One server's threads keep every engine accounted for.
LEMMA ServerKeeps ==
  ASSUME Base, [Next]_vars
  PROVE  TypeOK' /\ LocalsInv' /\ Forward /\ SpawnInv' /\ EnginesInv'
<1>1. TypeOK' /\ LocalsInv'
  BY TypeStep DEF Base
<1>2. ASSUME NEW t \in Turns, Request(t) \/ Fail(t)
      PROVE  Forward /\ SpawnInv' /\ EnginesInv'
  BY <1>1, <1>2, ActivateKeeps, BeginKeeps, LaunchFailsKeeps, BeginFailsKeeps,
     LoopFailsKeeps, FinishFailsKeeps DEF Request, Fail
<1>3. ASSUME NEW t \in Turns, Engine(t) PROVE Forward /\ SpawnInv' /\ EnginesInv'
  BY <1>1, <1>3, ReadInitKeeps, ReadDecisionKeeps, ReadResultKeeps, AsideStepKeeps
     DEF Engine
<1>4. ASSUME NEW t \in Turns, Advance(t) PROVE Forward /\ SpawnInv' /\ EnginesInv'
  <2>1. CASE PruneList(t) \/ \E r \in Runs : PruneUnlink(t, r)
    <3>1. At(t, "pruning")
      BY <2>1 DEF PruneList, PruneUnlink
    <3> QED
      BY <1>1, <2>1, <3>1, PruneKeeps
  <2>2. CASE \/ Spawn(t) \/ SpawnFails(t) \/ Register(t) \/ StartTimer(t) \/ SaveRunning(t)
    BY <1>1, <2>2, SpawnKeeps, SpawnFailsKeeps, RegisterKeeps, StartTimerKeeps,
       SaveRunningKeeps
  <2>3. CASE \/ Reap(t) \/ Decide(t) \/ StoreVerdict(t) \/ Free(t)
             \/ \E valid \in BOOLEAN : Verify(t, valid)
             \/ \E exitedClean \in BOOLEAN : Blame(t, exitedClean)
    BY <1>1, <2>3, ReapKeeps, VerifyKeeps, BlameKeeps, DecideKeeps, StoreVerdictKeeps,
       FreeKeeps
  <2> QED
    BY <1>4, <2>1, <2>2, <2>3 DEF Advance
<1>5. ASSUME NEW t \in Turns, TurnStep(t) PROVE Forward /\ SpawnInv' /\ EnginesInv'
  <2>1. CASE TimerFires(t) \/ Expire(t)
    BY <1>1, <2>1, AsideStepKeeps
  <2>2. CASE \/ \E r \in Runs : Launch(t, r)
             \/ \E q \in Requests : MessageClaim(t, q)
    BY <1>1, <2>2, LaunchKeeps, MessageClaimKeeps
  <2> QED
    BY <1>2, <1>3, <1>4, <1>5, <2>1, <2>2 DEF TurnStep
<1>6. CASE \E q \in Requests : MessageRefused(q) \/ \E r \in Runs : MessageRead(q, r)
  BY <1>1, <1>6, AsideStepKeeps, MessageReadKeeps
<1>7. CASE UNCHANGED vars \/ \E r \in Runs : Cancel(r)
  BY <1>1, <1>7, AsideStepKeeps
<1> QED
  BY <1>1, <1>5, <1>6, <1>7 DEF Next

-----------------------------------------------------------------------------
(* The sweep of `reconcile' and the life of the server.                    *)

\* A thread in `reconcile' lets go of its record or keeps the one it has.
SweepKept(s) ==
  /\ sweep'[s].rec \in {NoRecord, sweep[s].rec}
  /\ sweep'[s].pc = "read" => sweep[s].pc = "read" /\ sweep'[s].rec = sweep[s].rec

LEMMA SweepStays ==
  ASSUME RecoveryTypeOK, SweepInv, Forward, \A s \in Sweepers : SweepKept(s)
  PROVE  SweepInv'
<1> SUFFICES ASSUME NEW s \in Sweepers PROVE SweepOK(s)'
  BY DEF SweepInv
<1>1. sweep[s].rec # NoRecord => sweep[s].rec \in Record
  BY DEF RecoveryTypeOK, Sweep
<1>2. SweepKept(s) /\ SweepOK(s)
  BY DEF SweepInv
<1> QED
  BY <1>1, <1>2 DEF SweepKept, SweepOK, Known, Forward, Record

LEMMA IdleType == Idle \in Sweep /\ Idle.pc = "idle" /\ Idle.rec = NoRecord
  BY DEF Idle, Sweep

\* A step of one server's threads or of an engine that outlived its server, with
\* what it does to the sweep.
LEMMA ThreadsKeep ==
  ASSUME RecoveryInv, [Next]_vars, UNCHANGED boot, UNCHANGED reconciled,
         sweep' \in [Sweepers -> Sweep],
         \A s \in Sweepers : sweep'[s] \in {Idle, sweep[s]}
  PROVE  RecoveryInv'
<1>1. TypeOK' /\ LocalsInv' /\ Forward /\ SpawnInv' /\ EnginesInv'
  BY ServerKeeps DEF RecoveryInv, RecoveryTypeOK, Base
<1>2. RecoveryTypeOK'
  BY <1>1 DEF RecoveryInv, RecoveryTypeOK, boot
<1>3. \A s \in Sweepers : SweepKept(s)
  BY IdleType DEF SweepKept
<1>4. SweepInv'
  BY <1>1, <1>3, SweepStays DEF RecoveryInv
<1> QED
  BY <1>1, <1>2, <1>4 DEF RecoveryInv, BootsInv, boot

\* `reconcile' looks at the office, lists its records and reads one of them.
LEMMA SweepKeeps ==
  ASSUME RecoveryInv, NEW s \in Sweepers,
         \/ SweepCheck(s) \/ SweepBegin(s) \/ SweepNext(s) \/ SweepEnd(s)
         \/ \E r \in Runs : SweepRead(s, r)
  PROVE  RecoveryInv'
<1>1. UNCHANGED <<vars, boot>>
  BY DEF SweepCheck, SweepBegin, SweepNext, SweepEnd, SweepRead
<1>2. TypeOK' /\ LocalsInv' /\ Forward /\ SpawnInv' /\ EnginesInv'
  BY <1>1, ServerKeeps DEF RecoveryInv, RecoveryTypeOK, Base
<1>3. sweep[s] \in Sweep /\ sweep \in [Sweepers -> Sweep]
  BY DEF RecoveryInv, RecoveryTypeOK
<1> DEFINE Good(w) ==
             /\ w \in Sweep
             /\ w.pc = "read" => w.rec # NoRecord
             /\ w.rec # NoRecord => w.rec = sweep[s].rec \/ \E r \in Runs : w.rec = disk[r]
<1>4. PICK w : sweep' = [sweep EXCEPT ![s] = w] /\ Good(w)
  <2>1. CASE SweepCheck(s)
    <3> DEFINE w == [sweep[s] EXCEPT !.pc = "checked"]
    <3>1. sweep' = [sweep EXCEPT ![s] = w]
      BY <2>1 DEF SweepCheck
    <3>2. Good(w)
      BY <1>3 DEF Sweep
    <3> QED
      BY <3>1, <3>2
  <2>2. CASE SweepBegin(s)
    <3> DEFINE todo == {r \in Runs : disk[r] # NoRecord}
               w == [sweep[s] EXCEPT !.pc = "sweeping", !.todo = todo]
    <3>1. sweep' = [sweep EXCEPT ![s] = w]
      BY <2>2 DEF SweepBegin
    <3>2. todo \in SUBSET Runs
      OBVIOUS
    <3>3. Good(w)
      <4> HIDE DEF todo
      <4> QED
        BY <1>3, <3>2 DEF Sweep
    <3> QED
      BY <3>1, <3>3
  <2>3. CASE SweepNext(s)
    <3> DEFINE w == [sweep[s] EXCEPT !.pc = "sweeping", !.turn = NoTurn]
    <3>1. sweep' = [sweep EXCEPT ![s] = w]
      BY <2>3 DEF SweepNext
    <3>2. Good(w)
      BY <1>3 DEF Sweep
    <3> QED
      BY <3>1, <3>2
  <2>4. CASE SweepEnd(s)
    BY <2>4, IdleType DEF SweepEnd
  <2>5. ASSUME NEW r \in Runs, SweepRead(s, r)
        PROVE  \E w : sweep' = [sweep EXCEPT ![s] = w] /\ Good(w)
    <3> DEFINE rest == sweep[s].todo \ {r}
    <3>1. rest \in SUBSET Runs /\ (disk[r] # NoRecord => disk[r] \in Record)
      BY <1>3 DEF Sweep, RecoveryInv, RecoveryTypeOK, TypeOK
    <3>2. CASE disk[r] = NoRecord
      BY <2>5, <3>2, IdleType DEF SweepRead
    <3>3. CASE disk[r] # NoRecord /\ disk[r].status \in ActiveStatus
      <4> DEFINE w == [sweep[s] EXCEPT !.pc = "read", !.rec = disk[r], !.todo = rest]
      <4>1. sweep' = [sweep EXCEPT ![s] = w]
        BY <2>5, <3>3 DEF SweepRead
      <4>2. Good(w)
        <5> HIDE DEF rest
        <5> QED
          BY <1>3, <3>1, <3>3 DEF Sweep
      <4> QED
        BY <4>1, <4>2
    <3>4. CASE disk[r] # NoRecord /\ disk[r].status \notin ActiveStatus
      <4> DEFINE w == [sweep[s] EXCEPT !.todo = rest]
      <4>1. sweep' = [sweep EXCEPT ![s] = w] /\ sweep[s].pc = "sweeping"
        BY <2>5, <3>4 DEF SweepRead
      <4>2. Good(w)
        <5> HIDE DEF rest
        <5> QED
          BY <1>3, <3>1, <4>1 DEF Sweep
      <4> QED
        BY <4>1, <4>2
    <3> QED
      BY <3>2, <3>3, <3>4
  <2> QED
    BY <2>1, <2>2, <2>3, <2>4, <2>5
<1>5. sweep' \in [Sweepers -> Sweep] /\ sweep'[s] = w
      /\ \A x \in Sweepers \ {s} : sweep'[x] = sweep[x]
  BY <1>3, <1>4
<1>6. reconciled' \in BOOLEAN
  BY DEF RecoveryInv, RecoveryTypeOK, SweepCheck, SweepBegin, SweepNext, SweepEnd, SweepRead
<1>7. RecoveryTypeOK'
  BY <1>1, <1>2, <1>5, <1>6 DEF RecoveryInv, RecoveryTypeOK, boot
<1>8. proc' = proc /\ \A x \in Sweepers : SweepOK(x)
  BY <1>1 DEF vars, procs, RecoveryInv, SweepInv
<1>9. \A r \in Runs : disk[r] # NoRecord => Known(disk[r])
  BY DEF RecoveryInv, EnginesInv, StoredOK
<1>10. \A x \in Sweepers \ {s} : SweepOK(x)'
  BY <1>5, <1>8 DEF SweepOK, Known
<1>11. SweepOK(s)'
  BY <1>4, <1>5, <1>8, <1>9 DEF SweepOK, Known
<1> QED
  BY <1>1, <1>2, <1>7, <1>10, <1>11 DEF RecoveryInv, SweepInv, BootsInv, boot

\* A sweep hands the record it read to a turn that judges it; whatever engine the
\* record names has ended or is told to end now.
LEMMA SweepJudgeKeeps ==
  ASSUME RecoveryInv, NEW s \in Sweepers, NEW t \in Turns, SweepJudge(s, t)
  PROVE  RecoveryInv'
<1> DEFINE rec == sweep[s].rec
<1>1. /\ sweep[s] \in Sweep /\ sweep \in [Sweepers -> Sweep] /\ TypeOK /\ WorkersOK
      /\ rec \in Record
      /\ Known(rec)
  <2>1. sweep[s] \in Sweep /\ sweep \in [Sweepers -> Sweep] /\ TypeOK /\ WorkersOK
    BY DEF RecoveryInv, RecoveryTypeOK, WorkersOK, TypeOK
  <2>2. sweep[s].pc = "read" /\ SweepOK(s)
    BY DEF SweepJudge, RecoveryInv, SweepInv
  <2> QED
    BY <2>1, <2>2 DEF SweepOK, Sweep
<1>2. /\ disk' = disk /\ read' = read /\ proc' = proc /\ timer' = timer
      /\ mutex' = mutex /\ active' = active /\ thread' = thread /\ process' = process
      /\ cancelled' = cancelled /\ halted' = halted /\ journal' = journal /\ born' = born
      /\ server' = server /\ boots' = boots /\ earlier' = earlier /\ last' = last
      /\ reconciled' = reconciled
  BY DEF SweepJudge, slot, flags, store, boot
<1>3. CASE Running(rec.id)
  <2> DEFINE v == [sweep[s] EXCEPT !.pc = "sweeping", !.rec = NoRecord]
  <2>1. sweep' = [sweep EXCEPT ![s] = v] /\ worker' = worker /\ signalled' = signalled
    BY <1>3 DEF SweepJudge
  <2>2. v \in Sweep /\ v.pc # "read" /\ v.rec = NoRecord
    BY <1>1 DEF Sweep
  <2> HIDE DEF v
  <2>3. UNCHANGED vars
    BY <1>2, <2>1 DEF vars, slot, flags, store, procs
  <2>4. TypeOK' /\ LocalsInv' /\ Forward /\ SpawnInv' /\ EnginesInv'
    BY <2>3, ServerKeeps DEF RecoveryInv, RecoveryTypeOK, Base
  <2>5. RecoveryTypeOK'
    BY <1>1, <1>2, <2>1, <2>2, <2>4 DEF RecoveryInv, RecoveryTypeOK
  <2>6. \A x \in Sweepers : SweepKept(x)
    BY <1>1, <2>1, <2>2 DEF SweepKept
  <2>7. SweepInv'
    BY <2>4, <2>6, SweepStays DEF RecoveryInv
  <2> QED
    BY <1>2, <2>4, <2>5, <2>7 DEF RecoveryInv, BootsInv
<1>4. CASE ~Running(rec.id)
  <2> DEFINE v == [sweep[s] EXCEPT !.pc = "judging", !.rec = NoRecord, !.turn = t]
             w == [Local("judging", rec.id, rec) EXCEPT !.error = TRUE]
  <2>1. /\ sweep' = [sweep EXCEPT ![s] = v] /\ worker' = [worker EXCEPT ![t] = w]
        /\ signalled' = signalled \cup Left(rec) /\ worker[t].pc = "none"
    BY <1>4 DEF SweepJudge, At
  <2>2. v \in Sweep /\ v.pc # "read" /\ v.rec = NoRecord
    BY <1>1 DEF Sweep
  <2>3. Local("judging", rec.id, rec) \in Worker
    BY <1>1, LocalType DEF Record, Pcs
  <2>4. w \in Worker /\ w.pc = "judging" /\ w.run = rec.id /\ w.rec = rec
    BY <2>3 DEF Local, Worker
  <2>5. LocalsOK(w)
    BY <1>1, <2>4 DEF LocalsOK, Record
  <2> HIDE DEF v, w, rec
  <2>6. WorkersOK'
    BY <1>1, <2>1, <2>4, <2>5, PutOK
  <2>7. /\ worker'[t].pc = "judging" /\ worker'[t].rec = rec
        /\ \A u \in Turns \ {t} : worker'[u] = worker[u]
    BY <1>1, <2>1, <2>4 DEF WorkersOK
  <2>8. TypeOK' /\ LocalsInv'
    BY <1>1, <1>2, <2>1, <2>6 DEF TypeOK, WorkersOK, Left
  <2>9. Forward
    BY <1>2, <2>1 DEF Forward
  <2>10. SpawnInv'
    BY <1>2, <2>1, <2>7 DEF RecoveryInv, SpawnInv, Early, MayLive, Owning
  <2>11. HeldOK(t)'
    BY <1>1, <1>2, <2>1, <2>7 DEF HeldOK, Known, Settled, Left, Record, TypeOK
  <2>12. \A u \in Turns \ {t} :
           PidKept(u) /\ (worker[u].pc \in Reading => worker'[u].pc \in Reading)
    BY <2>7 DEF PidKept
  <2>13. EnginesInv'
    BY <1>1, <1>2, <2>8, <2>9, <2>11, <2>12, EnginesStep DEF RecoveryInv
  <2>14. RecoveryTypeOK'
    BY <1>1, <1>2, <2>1, <2>2, <2>8 DEF RecoveryInv, RecoveryTypeOK
  <2>15. \A x \in Sweepers : SweepKept(x)
    BY <1>1, <2>1, <2>2 DEF SweepKept
  <2>16. SweepInv'
    BY <2>9, <2>15, SweepStays DEF RecoveryInv
  <2> QED
    BY <1>2, <2>8, <2>10, <2>13, <2>14, <2>16 DEF RecoveryInv, BootsInv
<1> QED
  BY <1>3, <1>4

\* The server process stops in order, up to its exit, and starts again.
LEMMA StopKeeps ==
  ASSUME RecoveryInv, StopRead \/ StopHalt \/ StopJoin \/ Restart
  PROVE  RecoveryInv'
<1>1. /\ disk' = disk /\ read' = read /\ worker' = worker /\ proc' = proc /\ sweep' = sweep
      /\ mutex' = mutex /\ active' = active /\ thread' = thread /\ process' = process
      /\ cancelled' = cancelled /\ journal' = journal /\ born' = born /\ timer' = timer
      /\ earlier' = earlier /\ reconciled' = reconciled
  BY DEF StopRead, StopHalt, StopJoin, Restart, vars, slot, flags, store, procs
<1>2. /\ halted' \subseteq Runs /\ signalled' \subseteq Turns
      /\ signalled \subseteq signalled'
  BY DEF StopRead, StopHalt, StopJoin, Restart, vars, flags, procs, Halt, Running,
         SignalHeld, RecoveryInv, RecoveryTypeOK, TypeOK
<1>3. TypeOK' /\ LocalsInv'
  BY <1>1, <1>2 DEF RecoveryInv, RecoveryTypeOK, TypeOK, LocalsInv
<1>4. Forward
  BY <1>1, <1>2 DEF Forward
<1>5. SpawnInv' /\ EnginesInv'
  BY <1>1, <1>3, <1>4, AsideKeeps DEF RecoveryInv, RecoveryTypeOK
<1>6. \A s \in Sweepers : SweepKept(s)
  BY <1>1 DEF SweepKept
<1>7. SweepInv'
  BY <1>4, <1>6, SweepStays DEF RecoveryInv
<1>8. server' \in {"up", "halting", "joining", "exiting", "down"}
  BY DEF StopRead, StopHalt, StopJoin, Restart
<1>9. last' \in [run : Runs \cup {NoRun}, thread : Turns \cup {NoTurn}]
  BY DEF StopRead, StopHalt, StopJoin, Restart, RecoveryInv, RecoveryTypeOK, TypeOK
<1>10. boots' \in 1 .. MaxBoots /\ BootsInv'
  <2>1. boots \in 1 .. MaxBoots /\ MaxBoots \in Nat /\ BootsInv
    BY RecoveryAssumption DEF RecoveryInv, RecoveryTypeOK
  <2>2. CASE StopRead \/ StopHalt \/ StopJoin
    BY <2>1, <2>2 DEF StopRead, StopHalt, StopJoin, BootsInv
  <2>3. CASE Restart
    BY <2>1, <2>3 DEF Restart, BootsInv
  <2> QED
    BY <2>2, <2>3
<1> QED
  BY <1>1, <1>3, <1>5, <1>7, <1>8, <1>9, <1>10 DEF RecoveryInv, RecoveryTypeOK

\* The process ends, in order or not: its threads are gone, the records and the
\* engines stay as they are.
LEMMA GoneKeeps ==
  ASSUME RecoveryInv, Gone, boots < MaxBoots
  PROVE  RecoveryInv'
<1>1. /\ disk' = disk /\ journal' = journal /\ born' = born /\ proc' = proc
      /\ signalled' = signalled /\ boots' = boots
  BY DEF Gone, store
<1>2. \A t \in Turns :
        worker'[t] = IF worker[t].pc = "none" THEN worker[t]
                     ELSE Local("done", worker[t].run, NoRecord)
  BY DEF Gone, At, Run
<1>3. \A t \in Turns : /\ Local("done", worker[t].run, NoRecord) \in Worker
                       /\ Local("done", worker[t].run, NoRecord).pc = "done"
                       /\ Local("done", worker[t].run, NoRecord).rec = NoRecord
  <2>1. \A t \in Turns : worker[t].run \in Runs \cup {NoRun}
    BY DEF RecoveryInv, RecoveryTypeOK, TypeOK, Worker
  <2>2. "done" \in Pcs
    BY DEF Pcs
  <2> QED
    BY <2>1, <2>2, LocalType
<1>4. worker' \in [Turns -> Worker]
  BY <1>2, <1>3 DEF Gone, At, Run, RecoveryInv, RecoveryTypeOK, TypeOK
<1>5. TypeOK'
  BY <1>1, <1>4 DEF Gone, RecoveryInv, RecoveryTypeOK, TypeOK
<1>6. \A t \in Turns : \/ worker'[t] = worker[t] /\ worker[t].pc = "none"
                       \/ worker'[t].pc = "done" /\ worker'[t].rec = NoRecord
  BY <1>2, <1>3
<1>7. LocalsInv'
  BY <1>6 DEF LocalsInv, LocalsOK, Claiming, Holding, Working, Owning, Judging
<1>8. Forward
  BY <1>1 DEF Forward
<1>9. SpawnInv'
  BY <1>1, <1>6 DEF RecoveryInv, SpawnInv, Early, MayLive, Owning
<1>10. \A t \in Turns :
         \/ PidKept(t) /\ (worker[t].pc \in Reading => worker'[t].pc \in Reading)
         \/ HeldOK(t)'
  BY <1>6 DEF PidKept, HeldOK, Reading
<1>11. \A q \in Requests : read'[q] = read[q] \/ ReadOK(q)'
  BY DEF Gone, ReadOK
<1>12. EnginesInv'
  BY <1>1, <1>5, <1>8, <1>10, <1>11, EnginesStep DEF RecoveryInv, RecoveryTypeOK
<1>13. \A s \in Sweepers : sweep'[s] = Idle
  BY DEF Gone
<1>14. SweepInv'
  BY <1>13, IdleType DEF SweepInv, SweepOK
<1>15. RecoveryTypeOK'
  BY <1>1, <1>5, IdleType DEF Gone, RecoveryInv, RecoveryTypeOK
<1> QED
  BY <1>1, <1>7, <1>9, <1>12, <1>14, <1>15 DEF RecoveryInv, BootsInv

-----------------------------------------------------------------------------
(* The inductive invariant.                                                *)

LEMMA RecoveryInvInit == RecoveryInit => RecoveryInv
<1> SUFFICES ASSUME RecoveryInit PROVE RecoveryInv
  OBVIOUS
<1>1. Inv
  BY InvInit DEF RecoveryInit
<1>2. /\ \A t \in Turns : worker[t].pc = "none" /\ worker[t].rec = NoRecord
      /\ \A t \in Turns : proc[t] = "none"
      /\ \A r \in Runs : disk[r] = NoRecord
      /\ \A q \in Requests : read[q] = NoRecord
  BY DEF RecoveryInit, Init, Local
<1>3. SpawnInv
  BY <1>2 DEF SpawnInv, MayLive, Owning
<1>4. EnginesInv
  BY <1>2 DEF EnginesInv, StoredOK, ReadOK, HeldOK
<1>5. SweepInv
  BY IdleType DEF RecoveryInit, SweepInv, SweepOK
<1>6. RecoveryTypeOK
  <2>1. boots \in 1 .. MaxBoots
    BY RecoveryAssumption DEF RecoveryInit
  <2>2. sweep \in [Sweepers -> Sweep] /\ TypeOK
    BY <1>1, IdleType DEF Inv, RecoveryInit
  <2>3. last \in [run : Runs \cup {NoRun}, thread : Turns \cup {NoTurn}]
    BY DEF RecoveryInit
  <2> QED
    BY <2>1, <2>2, <2>3 DEF RecoveryInit, RecoveryTypeOK
<1>7. BootsInv
  BY DEF RecoveryInit, BootsInv
<1> QED
  BY <1>1, <1>3, <1>4, <1>5, <1>6, <1>7 DEF RecoveryInv, Inv

LEMMA RecoveryInvStep == RecoveryInv /\ [RecoveryNext]_all => RecoveryInv'
<1> SUFFICES ASSUME RecoveryInv, [RecoveryNext]_all PROVE RecoveryInv'
  OBVIOUS
<1>0. sweep \in [Sweepers -> Sweep] /\ Idle \in Sweep
  BY IdleType DEF RecoveryInv, RecoveryTypeOK
<1>1. ASSUME NEW t \in Turns, ServerTurn(t, TurnStep(t)) PROVE RecoveryInv'
  <2>1. [Next]_vars /\ UNCHANGED boot /\ UNCHANGED reconciled
    BY <1>1 DEF ServerTurn, Next
  <2>2. sweep' = [s \in Sweepers |->
                    IF sweep[s].turn = t /\ At(t, "abandoned") /\ worker' # worker
                    THEN Idle ELSE sweep[s]]
    BY <1>1 DEF ServerTurn
  <2>3. /\ sweep' \in [Sweepers -> Sweep]
        /\ \A s \in Sweepers : sweep'[s] \in {Idle, sweep[s]}
    BY <1>0, <2>2
  <2> QED
    BY <2>1, <2>3, ThreadsKeep
<1>2. ASSUME [Next]_vars, UNCHANGED recovery PROVE RecoveryInv'
  BY <1>0, <1>2, ThreadsKeep DEF recovery
<1>3. CASE Serving
  <2>1. CASE \E t \in Turns : ServerTurn(t, TurnStep(t))
    BY <1>1, <2>1
  <2>2. CASE \/ \E r \in Runs : ServerRequest(Cancel(r))
             \/ \E q \in Requests : ServerRequest(MessageRefused(q))
             \/ \E q \in Requests, r \in Runs : ServerRequest(MessageRead(q, r))
    BY <1>2, <2>2 DEF ServerRequest, Next
  <2> QED
    BY <1>3, <2>1, <2>2 DEF Serving
<1>4. CASE \E t \in Turns : Outlives(t)
  BY <1>2, <1>4 DEF Outlives, Next, TurnStep, Engine
<1>5. CASE \E s \in Sweepers : SweepCheck(s) \/ SweepStep(s)
  BY <1>5, SweepKeeps, SweepJudgeKeeps DEF SweepStep
<1>6. CASE StopRead \/ StopHalt \/ StopJoin \/ Restart
  BY <1>6, StopKeeps
<1>7. CASE StopExit \/ Crash
  BY <1>7, GoneKeeps DEF StopExit, Crash, RecoveryInv, BootsInv
<1>8. CASE UNCHANGED all
  BY <1>2, <1>8 DEF all
<1> QED
  BY <1>3, <1>4, <1>5, <1>6, <1>7, <1>8 DEF RecoveryNext

LEMMA AlwaysRecoveryInv == RecoverySpec => []RecoveryInv
<1> QED
  BY RecoveryInvInit, RecoveryInvStep, PTL DEF RecoverySpec

-----------------------------------------------------------------------------
(* One engine for each server.  A claim may come only once the first read  *)
(* has swept, so the turns `reconcile' judges with and the turns of claims *)
(* never work together.                                                    *)

\* The program counters of a turn up to its verdict, and of one at work for a claim.
Before == Claiming \cup {"activated", "started", "spawned"} \cup Owning
Mine   == Claiming \cup Holding

\* A turn kept for `reconcile' only judges, and a thread in `reconcile' waits for it.
JudgesInv ==
  \A t \in Judges :
    /\ worker[t].pc \notin Before
    /\ worker[t].pc \in Holding =>
         \E s \in Sweepers : sweep[s].pc = "judging" /\ sweep[s].turn = t

\* Of the others one at a time has the mutex or the slot, and only after the sweep.
OwnersInv ==
  /\ \A t \in Turns \ Judges : worker[t].pc \in Holding => active = Run(t)
  /\ \A t, u \in Turns \ Judges : {worker[t].pc, worker[u].pc} \subseteq Mine => t = u
  /\ \A t \in Turns \ Judges : worker[t].pc \in Mine => Swept
  /\ \A t \in Turns : worker[t].pc \in Claiming <=> mutex = t
  /\ mutex # NoTurn => active = NoRun

\* An engine of this server's belongs to a turn that waits for it.
LiveInv == \A t \in Turns : proc[t] = "live" => worker[t].pc \in MayLive \/ t \in earlier

OneInv == JudgesInv /\ OwnersInv /\ LiveInv

\* No turn of a claim is at work.
Vacant == \A t \in Turns \ Judges : worker[t].pc \notin Mine

LEMMA VacantOwners ==
  ASSUME JudgesInv', Vacant', mutex' = NoTurn
  PROVE  OwnersInv'
<1>1. \A t \in Turns : worker'[t].pc \notin Claiming
  BY DEF JudgesInv, Vacant, Mine, Before
<1> QED
  BY <1>1, ConstantsAssumption DEF OwnersInv, Vacant, Mine

\* What a step of turn t leaves alone and what it does to a sweep that waits for t.
Turned(t) ==
  /\ earlier' = earlier /\ reconciled' = reconciled
  /\ \A s \in Sweepers :
       sweep'[s] = IF sweep[s].turn = t /\ worker[t].pc = "abandoned" /\ worker' # worker
                   THEN Idle ELSE sweep[s]

LEMMA SweptStays ==
  ASSUME NEW t \in Turns, Turned(t), Swept
  PROVE  Swept'
  BY IdleType DEF Turned, Swept

\* The turns of `reconcile' stay what they are when turn t moves on.
LEMMA JudgesStay ==
  ASSUME NEW t \in Turns, NEW pc, JudgesInv, Turned(t),
         \A u \in Turns \ {t} : worker'[u] = worker[u],
         worker'[t].pc = pc,
         t \in Judges => /\ pc \in Before => worker[t].pc \in Before
                         /\ pc \in Holding =>
                              worker[t].pc \in Holding /\ worker[t].pc # "abandoned"
  PROVE  JudgesInv'
<1> SUFFICES ASSUME NEW u \in Judges
             PROVE  /\ worker'[u].pc \notin Before
                    /\ worker'[u].pc \in Holding =>
                         \E s \in Sweepers : sweep'[s].pc = "judging" /\ sweep'[s].turn = u
  BY DEF JudgesInv
<1>1. u \in Turns
  BY RecoveryAssumption
<1>2. worker'[u].pc \notin Before
  BY <1>1 DEF JudgesInv
<1>3. ASSUME worker'[u].pc \in Holding
      PROVE  \E s \in Sweepers : sweep'[s].pc = "judging" /\ sweep'[s].turn = u
  <2>1. worker[u].pc \in Holding /\ (u = t => worker[t].pc # "abandoned")
    BY <1>1, <1>3
  <2>2. PICK s \in Sweepers : sweep[s].pc = "judging" /\ sweep[s].turn = u
    BY <2>1 DEF JudgesInv
  <2>3. sweep'[s] = sweep[s]
    BY <2>1, <2>2 DEF Turned
  <2> QED
    BY <2>2, <2>3
<1> QED
  BY <1>2, <1>3

LEMMA LivesStay ==
  ASSUME NEW t \in Turns, NEW pc, LiveInv, earlier' = earlier,
         \A u \in Turns \ {t} : worker'[u] = worker[u],
         worker'[t].pc = pc,
         \A u \in Turns \ {t} : proc'[u] = "live" => proc[u] = "live",
         proc'[t] = "live" =>
           pc \in MayLive \/ (proc[t] = "live" /\ worker[t].pc \notin MayLive)
  PROVE  LiveInv'
  BY DEF LiveInv

\* A turn that has the slot, or is past it, moves on and leaves the slot alone.
LEMMA MovesOn ==
  ASSUME NEW t \in Turns, NEW pc, OneInv, Moved(t, pc), Turned(t),
         mutex' = mutex, active' = active,
         worker[t].pc \notin Claiming \cup {"none", "abandoned"}, pc \notin Claiming,
         pc \in Holding => worker[t].pc \in Holding,
         pc \in Before => worker[t].pc \in Before,
         \A u \in Turns \ {t} : proc'[u] = "live" => proc[u] = "live",
         proc'[t] = "live" =>
           pc \in MayLive \/ (proc[t] = "live" /\ worker[t].pc \notin MayLive)
  PROVE  OneInv'
<1> USE DEF Moved
<1>1. JudgesInv'
  BY JudgesStay DEF OneInv
<1>2. LiveInv'
  BY LivesStay DEF OneInv, Turned
<1>3. \A u \in Turns : /\ worker'[u].pc \in Holding => worker[u].pc \in Holding
                       /\ worker'[u].pc \in Claiming <=> worker[u].pc \in Claiming
                       /\ worker'[u].pc \in Mine => worker[u].pc \in Mine
                       /\ worker'[u].run = worker[u].run
  BY DEF Mine
<1>4. Swept => Swept'
  BY SweptStays
<1>5. OwnersInv'
  BY <1>3, <1>4 DEF OneInv, OwnersInv, Run
<1> QED
  BY <1>1, <1>2, <1>5 DEF OneInv

\* No thread moves.
LEMMA StandsStill ==
  ASSUME OneInv, UNCHANGED <<mutex, active, worker, sweep, reconciled, earlier>>,
         \A t \in Turns : proc'[t] = "live" => proc[t] = "live"
  PROVE  OneInv'
<1>1. Swept' = Swept
  BY DEF Swept
<1>2. JudgesInv'
  BY DEF OneInv, JudgesInv
<1>3. OwnersInv'
  BY <1>1 DEF OneInv, OwnersInv, Run
<1>4. LiveInv'
  BY DEF OneInv, LiveInv
<1> QED
  BY <1>2, <1>3, <1>4 DEF OneInv

\* What holds of a thread of the server when it takes a step.
Serves(t) == RecoveryInv /\ OneInv /\ WorkersOK /\ Turned(t)

\* A turn in the slot works: its thread starts, its engine runs and is judged.
LEMMA WorkStep ==
  ASSUME NEW t \in Turns, Serves(t),
         \/ Begin(t)
         \/ Register(t)
         \/ StartTimer(t)
         \/ SaveRunning(t)
         \/ LoopFails(t)
         \/ \E b \in BOOLEAN : ReadInit(t, b)
         \/ \E d \in Decisions : ReadDecision(t, d)
         \/ \E x \in Results : ReadResult(t, x)
         \/ Spawn(t)
         \/ SpawnFails(t)
         \/ Reap(t)
         \/ \E b \in BOOLEAN : Verify(t, b)
         \/ \E b \in BOOLEAN : Blame(t, b)
         \/ Decide(t)
         \/ StoreVerdict(t)
         \/ FinishFails(t)
         \/ BeginFails(t)
  PROVE  OneInv'
<1>0. OneInv /\ WorkersOK /\ Turned(t) /\ SpawnInv /\ proc \in [Turns -> {"none", "live", "exited"}]
  BY DEF Serves, RecoveryInv, RecoveryTypeOK, TypeOK
<1>1. ASSUME Begin(t) PROVE OneInv'
  <2>1. Moved(t, "started")
    BY <1>0, <1>1, BeginMoves
  <2>2. mutex' = mutex /\ active' = active
    BY <1>1 DEF Begin, slot
  <2>3. /\ \A u \in Turns \ {t} : proc'[u] = "live" => proc[u] = "live"
        /\ proc'[t] = "live" =>
             "started" \in MayLive \/ (proc[t] = "live" /\ worker[t].pc \notin MayLive)
    BY <1>0, <1>1 DEF Begin, procs, At, MayLive, Owning
  <2> QED
    BY <1>0, <1>1, <2>1, <2>2, <2>3, MovesOn
       DEF Begin, At, Before, Holding, Working, Owning, Judging, Claiming
<1>2. ASSUME Register(t) PROVE OneInv'
  <2>1. Moved(t, "registered")
    BY <1>0, <1>2, RegisterMoves
  <2>2. mutex' = mutex /\ active' = active
    BY <1>2 DEF Register, slot
  <2>3. /\ \A u \in Turns \ {t} : proc'[u] = "live" => proc[u] = "live"
        /\ proc'[t] = "live" =>
             "registered" \in MayLive \/ (proc[t] = "live" /\ worker[t].pc \notin MayLive)
    BY <1>0, <1>2 DEF Register, procs, At, MayLive, Owning
  <2> QED
    BY <1>0, <1>2, <2>1, <2>2, <2>3, MovesOn
       DEF Register, At, Before, Holding, Working, Owning, Judging, Claiming
<1>3. ASSUME StartTimer(t) PROVE OneInv'
  <2>1. Moved(t, "announcing")
    BY <1>0, <1>3, StartTimerMoves
  <2>2. mutex' = mutex /\ active' = active
    BY <1>3 DEF StartTimer, slot
  <2>3. /\ \A u \in Turns \ {t} : proc'[u] = "live" => proc[u] = "live"
        /\ proc'[t] = "live" =>
             "announcing" \in MayLive \/ (proc[t] = "live" /\ worker[t].pc \notin MayLive)
    BY <1>0, <1>3 DEF StartTimer, procs, At, MayLive, Owning
  <2> QED
    BY <1>0, <1>3, <2>1, <2>2, <2>3, MovesOn
       DEF StartTimer, At, Before, Holding, Working, Owning, Judging, Claiming
<1>4. ASSUME SaveRunning(t) PROVE OneInv'
  <2>1. Moved(t, "reading")
    BY <1>0, <1>4, SaveRunningMoves
  <2>2. mutex' = mutex /\ active' = active
    BY <1>4 DEF SaveRunning, slot
  <2>3. /\ \A u \in Turns \ {t} : proc'[u] = "live" => proc[u] = "live"
        /\ proc'[t] = "live" =>
             "reading" \in MayLive \/ (proc[t] = "live" /\ worker[t].pc \notin MayLive)
    BY <1>0, <1>4 DEF SaveRunning, procs, At, MayLive, Owning
  <2> QED
    BY <1>0, <1>4, <2>1, <2>2, <2>3, MovesOn
       DEF SaveRunning, At, Before, Holding, Working, Owning, Judging, Claiming
<1>5. ASSUME LoopFails(t) PROVE OneInv'
  <2>1. Moved(t, "draining")
    BY <1>0, <1>5, LoopFailsMoves
  <2>2. mutex' = mutex /\ active' = active
    BY <1>5 DEF LoopFails, slot
  <2>3. /\ \A u \in Turns \ {t} : proc'[u] = "live" => proc[u] = "live"
        /\ proc'[t] = "live" =>
             "draining" \in MayLive \/ (proc[t] = "live" /\ worker[t].pc \notin MayLive)
    BY <1>0, <1>5 DEF LoopFails, procs, At, MayLive, Owning
  <2> QED
    BY <1>0, <1>5, <2>1, <2>2, <2>3, MovesOn
       DEF LoopFails, At, Before, Holding, Working, Owning, Judging, Claiming
<1>6. ASSUME NEW b \in BOOLEAN, ReadInit(t, b) PROVE OneInv'
  <2>1. Moved(t, "reading")
    BY <1>0, <1>6, ReadInitMoves
  <2>2. mutex' = mutex /\ active' = active
    BY <1>6 DEF ReadInit, slot
  <2>3. /\ \A u \in Turns \ {t} : proc'[u] = "live" => proc[u] = "live"
        /\ proc'[t] = "live" =>
             "reading" \in MayLive \/ (proc[t] = "live" /\ worker[t].pc \notin MayLive)
    BY <1>0, <1>6 DEF ReadInit, procs, At, MayLive, Owning
  <2> QED
    BY <1>0, <1>6, <2>1, <2>2, <2>3, MovesOn
       DEF ReadInit, At, Before, Holding, Working, Owning, Judging, Claiming
<1>7. ASSUME NEW d \in Decisions, ReadDecision(t, d) PROVE OneInv'
  <2>1. Moved(t, "reading")
    BY <1>0, <1>7, ReadDecisionMoves
  <2>2. mutex' = mutex /\ active' = active
    BY <1>7 DEF ReadDecision, slot
  <2>3. /\ \A u \in Turns \ {t} : proc'[u] = "live" => proc[u] = "live"
        /\ proc'[t] = "live" =>
             "reading" \in MayLive \/ (proc[t] = "live" /\ worker[t].pc \notin MayLive)
    BY <1>0, <1>7 DEF ReadDecision, procs, At, MayLive, Owning
  <2> QED
    BY <1>0, <1>7, <2>1, <2>2, <2>3, MovesOn
       DEF ReadDecision, At, Before, Holding, Working, Owning, Judging, Claiming
<1>8. ASSUME NEW x \in Results, ReadResult(t, x) PROVE OneInv'
  <2>1. Moved(t, "reading")
    BY <1>0, <1>8, ReadResultMoves
  <2>2. mutex' = mutex /\ active' = active
    BY <1>8 DEF ReadResult, slot
  <2>3. /\ \A u \in Turns \ {t} : proc'[u] = "live" => proc[u] = "live"
        /\ proc'[t] = "live" =>
             "reading" \in MayLive \/ (proc[t] = "live" /\ worker[t].pc \notin MayLive)
    BY <1>0, <1>8 DEF ReadResult, procs, At, MayLive, Owning
  <2> QED
    BY <1>0, <1>8, <2>1, <2>2, <2>3, MovesOn
       DEF ReadResult, At, Before, Holding, Working, Owning, Judging, Claiming
<1>9. ASSUME Spawn(t) PROVE OneInv'
  <2>1. Moved(t, "spawned")
    BY <1>0, <1>9, SpawnMoves
  <2>2. mutex' = mutex /\ active' = active
    BY <1>9 DEF Spawn, slot
  <2>3. /\ \A u \in Turns \ {t} : proc'[u] = "live" => proc[u] = "live"
        /\ proc'[t] = "live" =>
             "spawned" \in MayLive \/ (proc[t] = "live" /\ worker[t].pc \notin MayLive)
    BY <1>0, <1>9 DEF Spawn, procs, At, MayLive, Owning
  <2> QED
    BY <1>0, <1>9, <2>1, <2>2, <2>3, MovesOn
       DEF Spawn, At, Before, Holding, Working, Owning, Judging, Claiming
<1>10. ASSUME SpawnFails(t) PROVE OneInv'
  <2>1. Moved(t, "judging")
    BY <1>0, <1>10, SpawnFailsMoves
  <2>2. mutex' = mutex /\ active' = active
    BY <1>10 DEF SpawnFails, slot
  <2>3. /\ \A u \in Turns \ {t} : proc'[u] = "live" => proc[u] = "live"
        /\ proc'[t] = "live" =>
             "judging" \in MayLive \/ (proc[t] = "live" /\ worker[t].pc \notin MayLive)
    BY <1>0, <1>10 DEF SpawnFails, procs, At, MayLive, Owning, Early, SpawnInv
  <2> QED
    BY <1>0, <1>10, <2>1, <2>2, <2>3, MovesOn
       DEF SpawnFails, At, Before, Holding, Working, Owning, Judging, Claiming
<1>11. ASSUME Reap(t) PROVE OneInv'
  <2>1. Moved(t, "judging")
    BY <1>0, <1>11, ReapMoves
  <2>2. mutex' = mutex /\ active' = active
    BY <1>11 DEF Reap, slot
  <2>3. /\ \A u \in Turns \ {t} : proc'[u] = "live" => proc[u] = "live"
        /\ proc'[t] = "live" =>
             "judging" \in MayLive \/ (proc[t] = "live" /\ worker[t].pc \notin MayLive)
    BY <1>0, <1>11 DEF Reap, procs, At, MayLive, Owning
  <2> QED
    BY <1>0, <1>11, <2>1, <2>2, <2>3, MovesOn
       DEF Reap, At, Before, Holding, Working, Owning, Judging, Claiming
<1>12. ASSUME NEW b \in BOOLEAN, Verify(t, b) PROVE OneInv'
  <2>1. Moved(t, "verified")
    BY <1>0, <1>12, VerifyMoves
  <2>2. mutex' = mutex /\ active' = active
    BY <1>12 DEF Verify, slot
  <2>3. /\ \A u \in Turns \ {t} : proc'[u] = "live" => proc[u] = "live"
        /\ proc'[t] = "live" =>
             "verified" \in MayLive \/ (proc[t] = "live" /\ worker[t].pc \notin MayLive)
    BY <1>0, <1>12 DEF Verify, procs, At, MayLive, Owning
  <2> QED
    BY <1>0, <1>12, <2>1, <2>2, <2>3, MovesOn
       DEF Verify, At, Before, Holding, Working, Owning, Judging, Claiming
<1>13. ASSUME NEW b \in BOOLEAN, Blame(t, b) PROVE OneInv'
  <2>1. Moved(t, "blamed")
    BY <1>0, <1>13, BlameMoves
  <2>2. mutex' = mutex /\ active' = active
    BY <1>13 DEF Blame, slot
  <2>3. /\ \A u \in Turns \ {t} : proc'[u] = "live" => proc[u] = "live"
        /\ proc'[t] = "live" =>
             "blamed" \in MayLive \/ (proc[t] = "live" /\ worker[t].pc \notin MayLive)
    BY <1>0, <1>13 DEF Blame, procs, At, MayLive, Owning
  <2> QED
    BY <1>0, <1>13, <2>1, <2>2, <2>3, MovesOn
       DEF Blame, At, Before, Holding, Working, Owning, Judging, Claiming
<1>14. ASSUME Decide(t) PROVE OneInv'
  <2>1. Moved(t, "decided")
    BY <1>0, <1>14, DecideMoves
  <2>2. mutex' = mutex /\ active' = active
    BY <1>14 DEF Decide, slot
  <2>3. /\ \A u \in Turns \ {t} : proc'[u] = "live" => proc[u] = "live"
        /\ proc'[t] = "live" =>
             "decided" \in MayLive \/ (proc[t] = "live" /\ worker[t].pc \notin MayLive)
    BY <1>0, <1>14 DEF Decide, procs, At, MayLive, Owning
  <2> QED
    BY <1>0, <1>14, <2>1, <2>2, <2>3, MovesOn
       DEF Decide, At, Before, Holding, Working, Owning, Judging, Claiming
<1>15. ASSUME StoreVerdict(t) PROVE OneInv'
  <2>1. Moved(t, "stored")
    BY <1>0, <1>15, StoreVerdictMoves
  <2>2. mutex' = mutex /\ active' = active
    BY <1>15 DEF StoreVerdict, slot
  <2>3. /\ \A u \in Turns \ {t} : proc'[u] = "live" => proc[u] = "live"
        /\ proc'[t] = "live" =>
             "stored" \in MayLive \/ (proc[t] = "live" /\ worker[t].pc \notin MayLive)
    BY <1>0, <1>15 DEF StoreVerdict, procs, At, MayLive, Owning
  <2> QED
    BY <1>0, <1>15, <2>1, <2>2, <2>3, MovesOn
       DEF StoreVerdict, At, Before, Holding, Working, Owning, Judging, Claiming
<1>16. ASSUME FinishFails(t) PROVE OneInv'
  <2>1. Moved(t, "abandoned")
    BY <1>0, <1>16, FinishFailsMoves
  <2>2. mutex' = mutex /\ active' = active
    BY <1>16 DEF FinishFails, slot
  <2>3. /\ \A u \in Turns \ {t} : proc'[u] = "live" => proc[u] = "live"
        /\ proc'[t] = "live" =>
             "abandoned" \in MayLive \/ (proc[t] = "live" /\ worker[t].pc \notin MayLive)
    BY <1>0, <1>16 DEF FinishFails, procs, At, MayLive, Owning
  <2> QED
    BY <1>0, <1>16, <2>1, <2>2, <2>3, MovesOn
       DEF FinishFails, At, Before, Holding, Working, Owning, Judging, Claiming
<1>17. ASSUME BeginFails(t) PROVE OneInv'
  <2>1. Moved(t, "done")
    BY <1>0, <1>17, EndMoves DEF BeginFails
  <2>2. mutex' = mutex /\ active' = active
    BY <1>17 DEF BeginFails, slot
  <2>3. /\ \A u \in Turns \ {t} : proc'[u] = "live" => proc[u] = "live"
        /\ proc'[t] = "live" =>
             "done" \in MayLive \/ (proc[t] = "live" /\ worker[t].pc \notin MayLive)
    BY <1>0, <1>17 DEF BeginFails, procs, At, MayLive, Owning, Early, SpawnInv
  <2> QED
    BY <1>0, <1>17, <2>1, <2>2, <2>3, MovesOn
       DEF BeginFails, At, Before, Holding, Working, Owning, Judging, Claiming
<1> QED
  BY <1>1, <1>2, <1>3, <1>4, <1>5, <1>6, <1>7, <1>8, <1>9,
     <1>10, <1>11, <1>12, <1>13, <1>14, <1>15, <1>16, <1>17

\* A turn past its verdict prunes.
LEMMA PruneStep ==
  ASSUME NEW t \in Turns, Serves(t), PruneList(t) \/ \E r \in Runs : PruneUnlink(t, r)
  PROVE  OneInv'
<1>0. OneInv /\ WorkersOK /\ Turned(t)
  BY DEF Serves
<1>1. PICK pc \in {"pruning", "done"} : Moved(t, pc)
  BY <1>0, PruneListMoves, PruneUnlinkMoves
<1>2. /\ mutex' = mutex /\ active' = active /\ proc' = proc
      /\ worker[t].pc = "pruning"
  BY DEF PruneList, PruneUnlink, slot, procs, At
<1> QED
  BY <1>0, <1>1, <1>2, MovesOn DEF Before, Holding, Working, Owning, Judging, Claiming, MayLive

\* A request claims: the sweep is over, nobody else has the mutex or the slot.
LEMMA ClaimStep ==
  ASSUME NEW t \in Turns, Serves(t), NEW pc \in Claiming,
         At(t, "none"), Claimable, t \notin Judges, Swept,
         \A u \in Turns \ {t} : worker'[u] = worker[u], worker'[t].pc = pc,
         mutex' = t, active' = active, proc' = proc
  PROVE  OneInv'
<1>0. OneInv /\ WorkersOK /\ Turned(t) /\ SpawnInv
  BY DEF Serves, RecoveryInv
<1>1. JudgesInv'
  BY <1>0, JudgesStay DEF OneInv
<1>2. proc'[t] # "live"
  BY <1>0 DEF SpawnInv, At, Early
<1>3. LiveInv'
  BY <1>0, <1>2, LivesStay DEF OneInv, Turned
<1>4. \A u \in Turns \ Judges : worker[u].pc \notin Mine
  <2> SUFFICES ASSUME NEW u \in Turns \ Judges, worker[u].pc \in Mine PROVE FALSE
    OBVIOUS
  <2>1. worker[u].pc \notin Claiming
    BY <1>0, ConstantsAssumption DEF OneInv, OwnersInv, Claimable
  <2>2. worker[u].pc \in Holding
    BY <2>1 DEF Mine
  <2>3. worker[u].run = NoRun
    BY <1>0, <2>2 DEF OneInv, OwnersInv, Claimable, Run
  <2>4. worker[u].run \in Runs
    BY <1>0, <2>2 DEF WorkersOK, LocalsInv, LocalsOK
  <2> QED
    BY <2>3, <2>4, ConstantsAssumption
<1>5. \A u \in Turns : worker[u].pc \notin Claiming
  BY <1>0, ConstantsAssumption DEF OneInv, OwnersInv, Claimable
<1>6. Swept'
  BY <1>0, SweptStays
<1>7. pc \notin Holding
  BY DEF Claiming, Holding, Working, Owning, Judging
<1>8. OwnersInv'
  BY <1>4, <1>5, <1>6, <1>7, ConstantsAssumption DEF OwnersInv, Mine, Claimable
<1> QED
  BY <1>1, <1>3, <1>8 DEF OneInv

\* The request fills the slot and lets go of the mutex.
LEMMA ActivateSlot ==
  ASSUME NEW t \in Turns, Serves(t), Activate(t)
  PROVE  OneInv'
<1>0. OneInv /\ WorkersOK /\ Turned(t) /\ SpawnInv
  BY DEF Serves, RecoveryInv
<1>1. Moved(t, "activated")
  BY <1>0, ActivateMoves
<1>2. /\ worker[t].pc \in Claiming /\ active' = worker[t].run /\ mutex' = NoTurn
      /\ proc' = proc
  BY DEF Activate, Claiming, Run, procs
<1>3. t \notin Judges
  BY <1>0, <1>2 DEF OneInv, JudgesInv, Before
<1>4. JudgesInv'
  BY <1>0, <1>1, <1>3, JudgesStay DEF OneInv, Moved
<1>5. proc'[t] # "live"
  BY <1>0, <1>2 DEF SpawnInv, Claiming, Early
<1>6. LiveInv'
  BY <1>0, <1>1, <1>2, <1>5, LivesStay DEF OneInv, Turned, Moved
<1>7. \A u \in Turns \ Judges : worker'[u].pc \in Mine => u = t
  BY <1>0, <1>1, <1>2, <1>3 DEF OneInv, OwnersInv, Moved, Mine
<1>8. \A u \in Turns : worker'[u].pc \notin Claiming
  BY <1>0, <1>1, <1>2 DEF OneInv, OwnersInv, Moved, Claiming
<1>9. Swept'
  BY <1>0, <1>2, <1>3, SweptStays DEF OneInv, OwnersInv, Mine
<1>10. worker'[t].run = active'
  BY <1>1, <1>2 DEF Moved
<1>11. OwnersInv'
  BY <1>2, <1>7, <1>8, <1>9, <1>10, ConstantsAssumption DEF OwnersInv, Mine, Run
<1> QED
  BY <1>4, <1>6, <1>11 DEF OneInv

\* A turn lets go of the mutex or the slot.
LEMMA LetsGo ==
  ASSUME NEW t \in Turns, Serves(t), LaunchFails(t) \/ Free(t)
  PROVE  OneInv'
<1>0. OneInv /\ WorkersOK /\ Turned(t) /\ SpawnInv
  BY DEF Serves, RecoveryInv
<1>1. PICK pc \in {"pruning", "done"} : Moved(t, pc)
  <2>1. CASE LaunchFails(t)
    BY <1>0, <2>1, EndMoves DEF LaunchFails
  <2>2. CASE Free(t)
    BY <1>0, <2>2, FreeMoves
  <2> QED
    BY <2>1, <2>2
<1>2. worker[t].pc \in {"launching", "stored", "abandoned"} /\ mutex' = NoTurn /\ proc' = proc
  BY DEF LaunchFails, Free, At, procs
<1>3. pc \notin Mine /\ pc \notin Before
  BY DEF Mine, Before, Claiming, Holding, Working, Owning, Judging
<1>4. JudgesInv'
  BY <1>0, <1>1, <1>3, JudgesStay DEF OneInv, Moved, Mine
<1>5. proc'[t] = "live" => proc[t] = "live" /\ worker[t].pc \notin MayLive
  BY <1>2 DEF MayLive, Owning
<1>6. LiveInv'
  BY <1>0, <1>1, <1>2, <1>5, LivesStay DEF OneInv, Turned, Moved
<1>7. \A u \in Turns \ Judges : worker[u].pc \in Mine => u = t
  <2>1. CASE t \in Judges
    <3>1. worker[t].pc \in Holding
      BY <1>0, <1>2, <2>1 DEF OneInv, JudgesInv, Before, Claiming, Holding
    <3>2. ~Swept
      BY <1>0, <2>1, <3>1 DEF OneInv, JudgesInv, Swept
    <3> QED
      BY <1>0, <3>2 DEF OneInv, OwnersInv
  <2>2. CASE t \notin Judges
    <3>1. worker[t].pc \in Mine
      BY <1>2 DEF Mine, Claiming, Holding
    <3> QED
      BY <1>0, <2>2, <3>1 DEF OneInv, OwnersInv
  <2> QED
    BY <2>1, <2>2
<1>8. Vacant'
  BY <1>1, <1>3, <1>7 DEF Vacant, Moved
<1>9. OwnersInv'
  BY <1>2, <1>4, <1>8, VacantOwners
<1> QED
  BY <1>4, <1>6, <1>9 DEF OneInv

\* One server's threads, once the first read has swept before the first claim.
LEMMA ServerStep ==
  ASSUME ~Eager, RecoveryInv, OneInv, NEW t \in Turns, ServerTurn(t, TurnStep(t))
  PROVE  OneInv'
<1>1. WorkersOK
  BY DEF RecoveryInv, RecoveryTypeOK, TypeOK, WorkersOK
<1>2. /\ TurnStep(t)
      /\ mutex' \notin {mutex, NoTurn} => t \notin Judges /\ Swept
      /\ Turned(t)
  BY DEF ServerTurn, Turned, boot, At
<1>3. Serves(t)
  BY <1>1, <1>2 DEF Serves
<1>4. ASSUME NEW r \in Runs, Launch(t, r) PROVE OneInv'
  <2>1. /\ \A u \in Turns \ {t} : worker'[u] = worker[u]
        /\ worker'[t].pc = "launching"
    BY <1>1, <1>4, LaunchMoves
  <2>2. /\ At(t, "none") /\ Claimable /\ mutex' = t /\ active' = active /\ proc' = proc
        /\ mutex = NoTurn
    BY <1>4 DEF Launch, procs, Claimable
  <2>3. t \notin Judges /\ Swept
    BY <1>2, <2>2, ConstantsAssumption
  <2> QED
    BY <1>3, <2>1, <2>2, <2>3, ClaimStep DEF Claiming
<1>5. ASSUME NEW q \in Requests, MessageClaim(t, q) PROVE OneInv'
  <2>1. /\ \A u \in Turns \ {t} : worker'[u] = worker[u]
        /\ worker'[t].pc = "resuming"
    BY <1>1, <1>5, MessageClaimMoves DEF RecoveryInv, RecoveryTypeOK
  <2>2. /\ At(t, "none") /\ Claimable /\ mutex' = t /\ active' = active /\ proc' = proc
        /\ mutex = NoTurn
    BY <1>5 DEF MessageClaim, procs, Claimable
  <2>3. t \notin Judges /\ Swept
    BY <1>2, <2>2, ConstantsAssumption
  <2> QED
    BY <1>3, <2>1, <2>2, <2>3, ClaimStep DEF Claiming
<1>6. ASSUME TimerFires(t) \/ Expire(t) \/ Exit(t) \/ \E d \in Decisions : JournalAdd(t, d)
      PROVE  OneInv'
  <2>1. worker' = worker /\ mutex' = mutex /\ active' = active
    BY <1>6 DEF TimerFires, Expire, Exit, JournalAdd, slot
  <2>2. \A u \in Turns : proc'[u] = "live" => proc[u] = "live"
    BY <1>6 DEF TimerFires, Expire, Exit, JournalAdd, procs, RecoveryInv, RecoveryTypeOK,
                TypeOK
  <2>3. sweep' = sweep /\ earlier' = earlier /\ reconciled' = reconciled
    <3>1. \A s \in Sweepers : sweep'[s] = sweep[s]
      BY <1>2, <2>1 DEF Turned
    <3>2. sweep \in [Sweepers -> Sweep]
      BY DEF RecoveryInv, RecoveryTypeOK
    <3>3. sweep' = [s \in Sweepers |-> sweep'[s]]
      BY DEF ServerTurn
    <3> QED
      BY <1>2, <3>1, <3>2, <3>3 DEF Turned
  <2> QED
    BY <2>1, <2>2, <2>3, StandsStill
<1>7. CASE Advance(t)
  BY <1>3, <1>7, WorkStep, PruneStep, LetsGo DEF Advance
<1>8. CASE Request(t) \/ Fail(t)
  BY <1>3, <1>8, WorkStep, ActivateSlot, LetsGo DEF Request, Fail
<1>9. CASE Engine(t)
  BY <1>3, <1>6, <1>9, WorkStep DEF Engine
<1> QED
  BY <1>2, <1>4, <1>5, <1>6, <1>7, <1>8, <1>9 DEF TurnStep

\* A thread is in `reconcile', so no turn of a claim is at work.
LEMMA SweepingStep ==
  ASSUME RecoveryInv, OneInv, ~Swept, JudgesInv',
         UNCHANGED <<mutex, active, proc, earlier>>,
         \A t \in Turns \ Judges : worker'[t] = worker[t],
         \A t \in Turns : /\ worker'[t].pc \in Claiming <=> worker[t].pc \in Claiming
                          /\ worker[t].pc \in MayLive => worker'[t].pc \in MayLive
  PROVE  OneInv'
<1>1. \A t \in Turns \ Judges : worker[t].pc \notin Mine
  BY DEF OneInv, OwnersInv
<1>2. OwnersInv'
  BY <1>1 DEF OneInv, OwnersInv, Mine
<1>3. LiveInv'
  BY DEF OneInv, LiveInv
<1> QED
  BY <1>2, <1>3 DEF OneInv

LEMMA SweepMoves ==
  ASSUME RecoveryInv, OneInv, NEW s \in Sweepers, SweepCheck(s) \/ SweepStep(s)
  PROVE  OneInv'
<1>1. sweep \in [Sweepers -> Sweep] /\ worker \in [Turns -> Worker]
  BY DEF RecoveryInv, RecoveryTypeOK, TypeOK
<1>2. UNCHANGED <<mutex, active, proc, earlier>>
  BY DEF SweepCheck, SweepStep, SweepBegin, SweepNext, SweepEnd, SweepRead, SweepJudge,
         vars, slot, procs, boot
<1>3. ~Swept
  BY DEF Swept, SweepCheck, SweepStep, SweepBegin, SweepNext, SweepEnd, SweepRead, SweepJudge
<1>4. \A x \in Sweepers \ {s} : sweep'[x] = sweep[x]
  BY <1>1 DEF SweepCheck, SweepStep, SweepBegin, SweepNext, SweepEnd, SweepRead, SweepJudge
<1>5. CASE worker' = worker
  <2>1. \A t \in Judges : worker[t].pc \in Holding =>
          ~(sweep[s].pc = "judging" /\ sweep[s].turn = t)
    <3>1. sweep[s].pc = "judging" => At(sweep[s].turn, "done")
      BY DEF SweepCheck, SweepStep, SweepBegin, SweepNext, SweepEnd, SweepRead, SweepJudge,
             Idle
    <3> QED
      BY <3>1 DEF At, Holding, Working, Owning, Judging
  <2>2. JudgesInv'
    BY <1>4, <1>5, <2>1 DEF OneInv, JudgesInv
  <2> QED
    BY <1>2, <1>3, <1>5, <2>2, SweepingStep
<1>6. CASE worker' # worker
  <2>1. PICK t \in Turns : SweepJudge(s, t)
    BY <1>6 DEF SweepCheck, SweepStep, SweepBegin, SweepNext, SweepEnd, SweepRead, vars
  <2> DEFINE rec == sweep[s].rec
             w == [Local("judging", rec.id, rec) EXCEPT !.error = TRUE]
             v == [sweep[s] EXCEPT !.pc = "judging", !.rec = NoRecord, !.turn = t]
  <2>2. /\ worker' = [worker EXCEPT ![t] = w] /\ sweep' = [sweep EXCEPT ![s] = v]
        /\ t \in Judges /\ worker[t].pc = "none" /\ sweep[s].pc = "read"
    BY <1>6, <2>1 DEF SweepJudge, At
  <2>3. w.pc = "judging"
    BY DEF Local
  <2>4. v.pc = "judging" /\ v.turn = t
    BY <1>1 DEF Sweep
  <2> HIDE DEF w, v, rec
  <2>5. /\ worker'[t].pc = "judging"
        /\ \A u \in Turns \ {t} : worker'[u] = worker[u]
        /\ sweep'[s].pc = "judging" /\ sweep'[s].turn = t
    BY <1>1, <2>2, <2>3, <2>4
  <2>6. JudgesInv'
    <3> SUFFICES ASSUME NEW u \in Judges
                 PROVE  /\ worker'[u].pc \notin Before
                        /\ worker'[u].pc \in Holding =>
                             \E x \in Sweepers : sweep'[x].pc = "judging" /\ sweep'[x].turn = u
      BY DEF JudgesInv
    <3>1. CASE u = t
      BY <2>5, <3>1 DEF Before, Claiming, Owning
    <3>2. CASE u # t
      BY <1>4, <2>2, <2>5, <3>2, RecoveryAssumption DEF OneInv, JudgesInv
    <3> QED
      BY <3>1, <3>2
  <2>7. \A u \in Turns \ Judges : worker'[u] = worker[u]
    BY <2>2, <2>5
  <2>8. \A u \in Turns : /\ worker'[u].pc \in Claiming <=> worker[u].pc \in Claiming
                         /\ worker[u].pc \in MayLive => worker'[u].pc \in MayLive
    BY <2>2, <2>5 DEF Claiming, MayLive, Owning
  <2> QED
    BY <1>2, <1>3, <2>6, <2>7, <2>8, SweepingStep
<1> QED
  BY <1>5, <1>6

\* The process ends: its turns are over and its engines are an earlier server's.
LEMMA GoneOne ==
  ASSUME RecoveryInv, OneInv, Gone
  PROVE  OneInv'
<1>1. \A t \in Turns : worker'[t].pc \in {"none", "done"}
  BY DEF Gone, At, Local
<1>2. JudgesInv'
  BY <1>1, RecoveryAssumption
     DEF JudgesInv, Before, Claiming, Holding, Working, Owning, Judging
<1>3. Vacant'
  BY <1>1 DEF Vacant, Mine, Claiming, Holding, Working, Owning, Judging
<1>4. OwnersInv'
  BY <1>2, <1>3, VacantOwners DEF Gone
<1>5. \A t \in Turns : proc'[t] = "live" => t \in earlier'
  BY DEF Gone, At, RecoveryInv, SpawnInv, Early
<1> QED
  BY <1>2, <1>4, <1>5 DEF OneInv, LiveInv

LEMMA OneInvInit == RecoveryInit => OneInv
<1> SUFFICES ASSUME RecoveryInit PROVE OneInv
  OBVIOUS
<1>1. \A t \in Turns : worker[t].pc = "none" /\ proc[t] = "none"
  BY DEF RecoveryInit, Init, Local
<1>2. mutex = NoTurn
  BY DEF RecoveryInit, Init
<1> QED
  BY <1>1, <1>2, ConstantsAssumption, RecoveryAssumption
     DEF OneInv, JudgesInv, OwnersInv, LiveInv, Before, Mine, Claiming, Holding, Working,
         Owning, Judging

LEMMA OneInvStep ==
  ASSUME ~Eager
  PROVE  RecoveryInv /\ OneInv /\ [RecoveryNext]_all => OneInv'
<1> SUFFICES ASSUME RecoveryInv, OneInv, [RecoveryNext]_all PROVE OneInv'
  OBVIOUS
<1>1. CASE \E t \in Turns : ServerTurn(t, TurnStep(t))
  BY <1>1, ServerStep
<1>2. CASE \/ \E r \in Runs : ServerRequest(Cancel(r))
           \/ \E q \in Requests : ServerRequest(MessageRefused(q))
           \/ \E q \in Requests, r \in Runs : ServerRequest(MessageRead(q, r))
  BY <1>2, StandsStill
     DEF ServerRequest, recovery, boot, Cancel, MessageRefused, MessageRead, slot, procs
<1>3. CASE \E t \in Turns : Outlives(t)
  <2>1. UNCHANGED <<mutex, active, worker, sweep, reconciled, earlier>>
    BY <1>3 DEF Outlives, Exit, JournalAdd, slot, recovery, boot
  <2>2. \A t \in Turns : proc'[t] = "live" => proc[t] = "live"
    BY <1>3 DEF Outlives, Exit, JournalAdd, procs, RecoveryInv, RecoveryTypeOK, TypeOK
  <2> QED
    BY <2>1, <2>2, StandsStill
<1>4. CASE \E s \in Sweepers : SweepCheck(s) \/ SweepStep(s)
  BY <1>4, SweepMoves
<1>5. CASE StopRead \/ StopHalt \/ StopJoin \/ Restart
  BY <1>5, StandsStill DEF StopRead, StopHalt, StopJoin, Restart, vars, slot, procs
<1>6. CASE StopExit \/ Crash
  BY <1>6, GoneOne DEF StopExit, Crash
<1>7. CASE UNCHANGED all
  BY <1>7, StandsStill DEF all, vars, slot, procs, recovery, boot
<1> QED
  BY <1>1, <1>2, <1>3, <1>4, <1>5, <1>6, <1>7 DEF RecoveryNext, Serving

-----------------------------------------------------------------------------
(* The theorems.                                                           *)

\* Whenever a server dies and whatever the next one's first read finds, every
\* variable keeps its type: a record that `reconcile' hands to `finish' is one
\* that was stored, and a turn of a dead server holds none.
THEOREM RecoveryTypeCorrect == RecoverySpec => []RecoveryTypeOK
<1>1. RecoveryInv => RecoveryTypeOK
  BY DEF RecoveryInv
<1> QED
  BY <1>1, AlwaysRecoveryInv, PTL

\* Over any number of crashes, restarts, sweeps and follow-ups, and whatever steps
\* fail, a record says that its run is over only when the engine it names has
\* ended or was told to.
THEOREM NoEngineForgottenHolds == RecoverySpec => []NoEngineForgotten
<1>1. RecoveryInv => NoEngineForgotten
  BY ConstantsAssumption
     DEF RecoveryInv, EnginesInv, StoredOK, NoEngineForgotten, Stored, Left, Settled
<1> QED
  BY <1>1, AlwaysRecoveryInv, PTL

\* The slot does after a restart what it does before it: once the first read has
\* swept before the first claim, no crash, sweep, follow-up or failing step ever
\* gives a server two engines of its own.
THEOREM OneOwnEngineHolds ==
  ASSUME ~Eager
  PROVE  RecoverySpec => []OneOwnEngine
<1>1. OneInv => OneOwnEngine
  <2> SUFFICES ASSUME OneInv, NEW t \in Turns, NEW u \in Turns,
                      t \in OwnEngines, u \in OwnEngines
               PROVE  t = u
    BY DEF OneOwnEngine, OwnEngines
  <2>1. worker[t].pc \in MayLive /\ worker[u].pc \in MayLive
    BY DEF OwnEngines, OneInv, LiveInv
  <2>2. t \notin Judges /\ u \notin Judges
    BY <2>1 DEF OneInv, JudgesInv, Before, MayLive
  <2>3. worker[t].pc \in Mine /\ worker[u].pc \in Mine
    BY <2>1 DEF Mine, Holding, Working, MayLive
  <2> QED
    BY <2>2, <2>3 DEF OneInv, OwnersInv
<1>2. RecoveryInv /\ OneInv /\ [RecoveryNext]_all => OneInv'
  BY OneInvStep
<1> QED
  BY <1>1, <1>2, OneInvInit, AlwaysRecoveryInv, PTL DEF RecoverySpec

-----------------------------------------------------------------------------
(* Verdicts over restarts.  A record that says its run is in progress may  *)
(* be judged by a later server, and a verdict is written by one turn, as   *)
(* long as one thread is in `reconcile'.                                   *)

\* No two threads find the office not reconciled.
Alone == \A s, u \in Sweepers : s = u

\* A turn that will store a verdict, or a thread that has read a record to judge, finds none.
VerdictsInv ==
  /\ \A r \in Runs : disk[r] # NoRecord => disk[r].id = r
  /\ \A t \in Turns : worker[t].pc \in Claiming \cup Working => ~Stored(Run(t), FinalStatus)
  /\ \A s \in Sweepers : sweep[s].pc = "read" => ~Stored(sweep[s].rec.id, FinalStatus)

\* While a turn works for a verdict no other does, and no sweep is about to judge.
LEMMA Only ==
  ASSUME Alone, OneInv, NEW t \in Turns, worker[t].pc \in Working
  PROVE  /\ \A u \in Turns : worker[u].pc \in Claiming \cup Working => u = t
         /\ \A s \in Sweepers : sweep[s].pc # "read"
<1>1. Working \subseteq Holding /\ Claiming \subseteq Before /\ Claiming \cup Working \subseteq Mine
  BY DEF Holding, Before, Mine
<1>2. CASE t \in Judges
  <2>1. PICK s \in Sweepers : sweep[s].pc = "judging" /\ sweep[s].turn = t
    BY <1>1, <1>2 DEF OneInv, JudgesInv
  <2>2. ~Swept /\ \A x \in Sweepers : x = s
    BY <2>1 DEF Swept, Alone
  <2>3. ASSUME NEW u \in Turns, worker[u].pc \in Claiming \cup Working PROVE u = t
    <3>1. u \in Judges
      BY <1>1, <2>2, <2>3 DEF OneInv, OwnersInv
    <3>2. worker[u].pc \in Holding
      BY <1>1, <2>3, <3>1 DEF OneInv, JudgesInv
    <3> QED
      BY <2>1, <2>2, <3>1, <3>2 DEF OneInv, JudgesInv
  <2> QED
    BY <2>1, <2>2, <2>3
<1>3. CASE t \notin Judges
  <2>1. Swept
    BY <1>1, <1>3 DEF OneInv, OwnersInv
  <2>2. ASSUME NEW u \in Turns, worker[u].pc \in Claiming \cup Working PROVE u = t
    <3>1. u \notin Judges
      BY <1>1, <2>1, <2>2 DEF OneInv, JudgesInv, Swept
    <3> QED
      BY <1>1, <1>3, <2>2, <3>1 DEF OneInv, OwnersInv
  <2> QED
    BY <2>1, <2>2 DEF Swept
<1> QED
  BY <1>2, <1>3

\* A step that stores no verdict keeps the invariant when the turns and sweeps at work were so
\* before, or find no verdict.
LEMMA NoVerdict ==
  ASSUME VerdictsInv,
         \A r \in Runs : disk'[r] = disk[r] \/ disk'[r] = NoRecord
                           \/ (disk'[r].id = r /\ disk'[r].status \notin FinalStatus),
         \A t \in Turns : worker'[t].pc \in Claiming \cup Working =>
           \/ worker[t].pc \in Claiming \cup Working /\ worker'[t].run = worker[t].run
           \/ ~Stored(worker'[t].run, FinalStatus)
           \/ disk'[worker'[t].run].status \notin FinalStatus,
         \A t \in Turns : worker'[t].pc \in Claiming \cup Working => worker'[t].run \in Runs,
         \A s \in Sweepers : sweep'[s].pc = "read" =>
           \/ sweep[s].pc = "read" /\ sweep'[s].rec = sweep[s].rec
           \/ ~Stored(sweep'[s].rec.id, FinalStatus),
         \A s \in Sweepers : sweep'[s].pc = "read" => sweep'[s].rec.id \in Runs
  PROVE  VerdictsInv'
<1>1. \A r \in Runs : ~Stored(r, FinalStatus) => ~Stored(r, FinalStatus)'
  BY DEF Stored
<1>2. \A r \in Runs : disk'[r] # NoRecord => disk'[r].id = r
  BY DEF VerdictsInv
<1>3. \A t \in Turns : worker'[t].pc \in Claiming \cup Working =>
        ~Stored(worker'[t].run, FinalStatus) \/ disk'[worker'[t].run].status \notin FinalStatus
  BY DEF VerdictsInv, Run
<1>4. \A s \in Sweepers : sweep'[s].pc = "read" => ~Stored(sweep'[s].rec.id, FinalStatus)
  BY DEF VerdictsInv
<1> QED
  BY <1>1, <1>2, <1>3, <1>4 DEF VerdictsInv, Run, Stored

\* What a turn that claims nothing does to the turns at work: it goes on for its run or stops.
GoesOn ==
  \A u \in Turns : worker'[u].pc \in Claiming \cup Working =>
    worker[u].pc \in Claiming \cup Working /\ worker'[u].run = worker[u].run

\* A thread that moves on only leaves the set of those at work.
LEMMA MovedGoesOn ==
  ASSUME NEW t \in Turns, NEW pc, Moved(t, pc),
         pc \in Claiming \cup Working => worker[t].pc \in Claiming \cup Working
  PROVE  GoesOn
BY DEF GoesOn, Moved

LEMMA RequestGoesOn ==
  ASSUME NEW t \in Turns, WorkersOK, Request(t) \/ Fail(t)
  PROVE  GoesOn /\ disk' = disk
<1> USE DEF Claiming, Working, Owning, Judging, At
<1>1. CASE Activate(t)
  BY <1>1, ActivateMoves, MovedGoesOn DEF Activate, store
<1>2. CASE Begin(t)
  BY <1>2, BeginMoves, MovedGoesOn DEF Begin, store
<1>3. CASE LaunchFails(t)
  BY <1>3, EndMoves, MovedGoesOn DEF LaunchFails, store
<1>4. CASE BeginFails(t)
  BY <1>4, EndMoves, MovedGoesOn DEF BeginFails, store
<1>5. CASE LoopFails(t)
  BY <1>5, LoopFailsMoves, MovedGoesOn DEF LoopFails, store
<1>6. CASE FinishFails(t)
  BY <1>6, FinishFailsMoves, MovedGoesOn DEF FinishFails, store
<1> QED
  BY <1>1, <1>2, <1>3, <1>4, <1>5, <1>6 DEF Request, Fail

LEMMA EngineGoesOn ==
  ASSUME NEW t \in Turns, WorkersOK, Engine(t) \/ TimerFires(t) \/ Expire(t)
  PROVE  GoesOn /\ disk' = disk
<1> USE DEF Claiming, Working, Owning, Judging, At
<1>1. ASSUME NEW b \in BOOLEAN, ReadInit(t, b) PROVE GoesOn /\ disk' = disk
  BY <1>1, ReadInitMoves, MovedGoesOn DEF ReadInit, store
<1>2. ASSUME NEW d \in Decisions, ReadDecision(t, d) PROVE GoesOn /\ disk' = disk
  BY <1>2, ReadDecisionMoves, MovedGoesOn DEF ReadDecision, store
<1>3. ASSUME NEW x \in Results, ReadResult(t, x) PROVE GoesOn /\ disk' = disk
  BY <1>3, ReadResultMoves, MovedGoesOn DEF ReadResult, store
<1>4. CASE Exit(t) \/ TimerFires(t) \/ Expire(t) \/ \E d \in Decisions : JournalAdd(t, d)
  BY <1>4 DEF Exit, TimerFires, Expire, JournalAdd, store, GoesOn
<1> QED
  BY <1>1, <1>2, <1>3, <1>4 DEF Engine

\* The steps up to a verdict, but for those that store something.
LEMMA WorkGoesOn ==
  ASSUME NEW t \in Turns, WorkersOK, Advance(t), ~SaveRunning(t), ~StoreVerdict(t),
         \A r \in Runs : ~PruneUnlink(t, r)
  PROVE  GoesOn /\ disk' = disk
<1> USE DEF Claiming, Working, Owning, Judging, At
<1>1. CASE Spawn(t)
  BY <1>1, SpawnMoves, MovedGoesOn DEF Spawn, store
<1>2. CASE SpawnFails(t)
  BY <1>2, SpawnFailsMoves, MovedGoesOn DEF SpawnFails, store
<1>3. CASE Register(t)
  BY <1>3, RegisterMoves, MovedGoesOn DEF Register, store
<1>4. CASE StartTimer(t)
  BY <1>4, StartTimerMoves, MovedGoesOn DEF StartTimer, store
<1>5. CASE Reap(t)
  BY <1>5, ReapMoves, MovedGoesOn DEF Reap, store
<1>6. ASSUME NEW b \in BOOLEAN, Verify(t, b) PROVE GoesOn /\ disk' = disk
  BY <1>6, VerifyMoves, MovedGoesOn DEF Verify, store
<1>7. ASSUME NEW b \in BOOLEAN, Blame(t, b) PROVE GoesOn /\ disk' = disk
  BY <1>7, BlameMoves, MovedGoesOn DEF Blame, store
<1>8. CASE Decide(t)
  BY <1>8, DecideMoves, MovedGoesOn DEF Decide, store
<1>9. CASE Free(t)
  BY <1>9, FreeMoves, MovedGoesOn DEF Free, store
<1>10. CASE PruneList(t)
  BY <1>10, PruneListMoves, MovedGoesOn DEF PruneList, store
<1> QED
  BY <1>1, <1>2, <1>3, <1>4, <1>5, <1>6, <1>7, <1>8, <1>9, <1>10 DEF Advance

\* A thread that keeps at "read" was there with the same record.
SweepsStay == \A s \in Sweepers : sweep'[s].pc = "read" => sweep[s].pc = "read" /\ sweep'[s].rec = sweep[s].rec

\* What is known of the types when a thread steps.
LEMMA KnownTypes ==
  ASSUME RecoveryInv
  PROVE  /\ WorkersOK /\ TypeOK
         /\ \A u \in Turns : worker[u].pc \in Claiming \cup Working => worker[u].run \in Runs
         /\ \A s \in Sweepers : sweep[s].pc = "read" => sweep[s].rec \in Record /\ sweep[s].rec.id \in Runs
<1>1. WorkersOK /\ TypeOK
  BY DEF RecoveryInv, RecoveryTypeOK, WorkersOK, TypeOK
<1>2. \A u \in Turns : worker[u].pc \in Claiming \cup Working => worker[u].run \in Runs
  BY <1>1 DEF WorkersOK, LocalsInv, LocalsOK, Holding
<1>3. \A s \in Sweepers : sweep[s].pc = "read" => sweep[s].rec \in Record
  BY DEF RecoveryInv, RecoveryTypeOK, SweepInv, SweepOK, Sweep
<1> QED
  BY <1>1, <1>2, <1>3 DEF Record

\* A step of the server's threads that stores nothing.
LEMMA QuietVerdicts ==
  ASSUME RecoveryInv, VerdictsInv, GoesOn, disk' = disk, SweepsStay
  PROVE  VerdictsInv' /\ VerdictStep
<1>1. VerdictsInv'
  BY KnownTypes, NoVerdict DEF GoesOn, SweepsStay
<1> QED
  BY <1>1 DEF VerdictStep

\* A claim stores a queued record, in the place of a verdict or of nothing.
LEMMA ClaimVerdicts ==
  ASSUME RecoveryInv, VerdictsInv, SweepsStay, NEW t \in Turns, NEW rec \in Record,
         rec.status = "queued", active = NoRun,
         disk' = [disk EXCEPT ![rec.id] = rec],
         \A u \in Turns \ {t} : worker'[u] = worker[u], worker'[t].run = rec.id
  PROVE  VerdictsInv' /\ VerdictStep
<1>1. rec.id \in Runs /\ rec.status \notin FinalStatus
  BY DEF Record, FinalStatus
<1>2. \A r \in Runs : disk'[r] = IF r = rec.id THEN rec ELSE disk[r]
  BY KnownTypes DEF TypeOK
<1>3. VerdictsInv'
  <2>1. \A r \in Runs : disk'[r] = disk[r] \/ (disk'[r].id = r /\ disk'[r].status \notin FinalStatus)
    BY <1>1, <1>2
  <2>2. \A u \in Turns : worker'[u].pc \in Claiming \cup Working =>
          /\ worker'[u].run \in Runs
          /\ \/ worker[u].pc \in Claiming \cup Working /\ worker'[u].run = worker[u].run
             \/ disk'[worker'[u].run].status \notin FinalStatus
    BY <1>1, <1>2, KnownTypes
  <2> QED
    BY <2>1, <2>2, KnownTypes, NoVerdict DEF SweepsStay
<1> QED
  BY <1>2, <1>3 DEF VerdictStep

\* A turn stores that its run is under way: of that run no verdict is stored.
LEMMA RunningVerdicts ==
  ASSUME RecoveryInv, VerdictsInv, SweepsStay, NEW t \in Turns, SaveRunning(t)
  PROVE  VerdictsInv' /\ VerdictStep
<1>0. WorkersOK /\ TypeOK
  BY KnownTypes
<1>1. /\ Announced(t) \in Record /\ Announced(t).id = worker[t].run
      /\ Announced(t).status = "running" /\ worker[t].run \in Runs
      /\ disk' = [disk EXCEPT ![worker[t].run] = Announced(t)]
  BY <1>0, AnnouncedType
<1>2. Moved(t, "reading") /\ worker[t].pc = "announcing"
  BY <1>0, SaveRunningMoves DEF SaveRunning, At
<1>3. GoesOn
  BY <1>2, MovedGoesOn DEF Working, Owning
<1>4. \A r \in Runs : disk'[r] = IF r = worker[t].run THEN Announced(t) ELSE disk[r]
  BY <1>0, <1>1 DEF TypeOK
<1>5. VerdictsInv'
  <2>1. \A r \in Runs :
          disk'[r] = disk[r] \/ (disk'[r].id = r /\ disk'[r].status \notin FinalStatus)
    BY <1>1, <1>4 DEF FinalStatus
  <2> QED
    BY <1>3, <2>1, KnownTypes, NoVerdict DEF GoesOn, SweepsStay
<1>6. ~Stored(worker[t].run, FinalStatus)
  BY <1>2 DEF VerdictsInv, Run, Working, Owning
<1> QED
  BY <1>4, <1>5, <1>6 DEF VerdictStep

\* A turn stores its verdict: there was none, and nobody is at work for another one.
LEMMA StoredVerdicts ==
  ASSUME Alone, RecoveryInv, OneInv, VerdictsInv, SweepsStay, NEW t \in Turns, StoreVerdict(t)
  PROVE  VerdictsInv' /\ VerdictStep
<1>0. WorkersOK /\ TypeOK
  BY KnownTypes
<1>1. Moved(t, "stored") /\ worker[t].pc = "decided" /\ worker[t].pc \in Working
  BY <1>0, StoreVerdictMoves DEF StoreVerdict, At, Working, Judging
<1>2. worker[t].run \in Runs /\ worker[t].rec.id = worker[t].run
  BY <1>0, <1>1, HasRecord DEF Holding
<1>3. \A r \in Runs : disk'[r] = IF r = worker[t].run THEN worker[t].rec ELSE disk[r]
  BY <1>0, <1>2 DEF StoreVerdict, Run, TypeOK
<1>4. /\ \A u \in Turns : worker[u].pc \in Claiming \cup Working => u = t
      /\ \A s \in Sweepers : sweep[s].pc # "read"
  BY <1>1, Only
<1>5. \A u \in Turns : worker'[u].pc \notin Claiming \cup Working
  BY <1>1, <1>4 DEF Moved, Claiming, Working, Owning, Judging
<1>6. \A s \in Sweepers : sweep'[s].pc # "read"
  BY <1>4 DEF SweepsStay
<1>7. VerdictsInv'
  BY <1>2, <1>3, <1>5, <1>6 DEF VerdictsInv
<1>8. ~Stored(worker[t].run, FinalStatus)
  BY <1>1 DEF VerdictsInv, Run
<1> QED
  BY <1>3, <1>7, <1>8 DEF VerdictStep

\* Prune deletes.
LEMMA PruneVerdicts ==
  ASSUME RecoveryInv, VerdictsInv, SweepsStay, NEW t \in Turns, NEW r \in Runs, PruneUnlink(t, r)
  PROVE  VerdictsInv' /\ VerdictStep
<1>0. WorkersOK /\ TypeOK
  BY KnownTypes
<1>1. GoesOn
  BY <1>0, PruneUnlinkMoves, MovedGoesOn DEF Claiming, Working, Owning, Judging
<1>2. \A o \in Runs : disk'[o] \in {disk[o], NoRecord}
  BY <1>0 DEF PruneUnlink, TypeOK
<1>3. VerdictsInv'
  BY <1>1, <1>2, KnownTypes, NoVerdict DEF GoesOn, SweepsStay
<1> QED
  BY <1>2, <1>3 DEF VerdictStep

\* A step of one of the server's threads.
LEMMA ServerVerdicts ==
  ASSUME Alone, RecoveryInv, OneInv, VerdictsInv, NEW t \in Turns, ServerTurn(t, TurnStep(t))
  PROVE  VerdictsInv' /\ VerdictStep
<1>0. WorkersOK /\ TypeOK /\ TurnStep(t)
  BY KnownTypes DEF ServerTurn
<1>1. SweepsStay
  <2>1. \A s \in Sweepers : sweep'[s] \in {Idle, sweep[s]}
    BY DEF ServerTurn
  <2> QED
    BY <2>1, IdleType DEF SweepsStay
<1>2. ASSUME NEW r \in Runs, Launch(t, r) PROVE VerdictsInv' /\ VerdictStep
  <2>1. /\ disk' = [disk EXCEPT ![r] = NewRecord(r)] /\ active = NoRun
        /\ NewRecord(r) \in Record /\ NewRecord(r).id = r /\ NewRecord(r).status = "queued"
    BY <1>2, NewRecordType DEF Launch, Claimable
  <2> QED
    BY <1>0, <1>1, <1>2, <2>1, LaunchMoves, ClaimVerdicts
<1>3. ASSUME NEW q \in Requests, MessageClaim(t, q) PROVE VerdictsInv' /\ VerdictStep
  <2>1. active = NoRun /\ read[q] # NoRecord
    BY <1>3 DEF MessageClaim, Claimable
  <2>2. Queued(q) \in Record /\ Queued(q).status = "queued"
    BY <1>0, <2>1, QueuedType
  <2> QED
    BY <1>0, <1>1, <1>3, <2>1, <2>2, MessageClaimMoves, ClaimVerdicts
<1>4. CASE Request(t) \/ Fail(t)
  BY <1>0, <1>1, <1>4, RequestGoesOn, QuietVerdicts
<1>5. CASE Engine(t) \/ TimerFires(t) \/ Expire(t)
  BY <1>0, <1>1, <1>5, EngineGoesOn, QuietVerdicts
<1>6. CASE Advance(t)
  <2>1. CASE SaveRunning(t)
    BY <1>1, <2>1, RunningVerdicts
  <2>2. CASE StoreVerdict(t)
    BY <1>1, <2>2, StoredVerdicts
  <2>3. CASE \E r \in Runs : PruneUnlink(t, r)
    BY <1>1, <2>3, PruneVerdicts
  <2> QED
    BY <1>0, <1>1, <1>6, <2>1, <2>2, <2>3, WorkGoesOn, QuietVerdicts
<1> QED
  BY <1>0, <1>2, <1>3, <1>4, <1>5, <1>6 DEF TurnStep

\* A thread in `reconcile' reads a record that has no verdict, and hands it to a turn.
LEMMA SweepVerdicts ==
  ASSUME RecoveryInv, VerdictsInv, NEW s \in Sweepers, SweepCheck(s) \/ SweepStep(s)
  PROVE  VerdictsInv' /\ disk' = disk
<1>1. sweep \in [Sweepers -> Sweep] /\ worker \in [Turns -> Worker]
  BY DEF RecoveryInv, RecoveryTypeOK, TypeOK
<1>2. disk' = disk
  BY DEF SweepCheck, SweepStep, SweepBegin, SweepNext, SweepEnd, SweepRead, SweepJudge,
         vars, store
<1>3. \A x \in Sweepers \ {s} : sweep'[x] = sweep[x]
  BY <1>1 DEF SweepCheck, SweepStep, SweepBegin, SweepNext, SweepEnd, SweepRead, SweepJudge
<1>4. CASE SweepCheck(s) \/ SweepBegin(s) \/ SweepNext(s) \/ SweepEnd(s)
  <2>1. worker' = worker
    BY <1>4 DEF SweepCheck, SweepBegin, SweepNext, SweepEnd, vars
  <2>2. sweep'[s].pc # "read"
    BY <1>1, <1>4, IdleType DEF SweepCheck, SweepBegin, SweepNext, SweepEnd, Sweep
  <2> QED
    BY <1>2, <1>3, <2>1, <2>2, KnownTypes, NoVerdict
<1>5. ASSUME NEW r \in Runs, SweepRead(s, r) PROVE VerdictsInv'
  <2>1. worker' = worker
    BY <1>5 DEF SweepRead, vars
  <2>2. sweep'[s].pc = "read" =>
          disk[r] # NoRecord /\ disk[r].status \in ActiveStatus /\ sweep'[s].rec = disk[r]
    <3> DEFINE w == [sweep[s] EXCEPT !.pc = "read", !.rec = disk[r], !.todo = sweep[s].todo \ {r}]
               v == [sweep[s] EXCEPT !.todo = sweep[s].todo \ {r}]
    <3>1. /\ sweep'[s] = IF disk[r] = NoRecord THEN Idle
                         ELSE IF disk[r].status \in ActiveStatus THEN w ELSE v
          /\ sweep[s].pc = "sweeping"
      BY <1>1, <1>5 DEF SweepRead
    <3>2. w.rec = disk[r] /\ v.pc = sweep[s].pc
      BY <1>1 DEF Sweep
    <3> HIDE DEF w, v
    <3> QED
      BY <3>1, <3>2, IdleType
  <2>3. sweep'[s].pc = "read" => sweep'[s].rec.id = r /\ ~Stored(r, FinalStatus)
    BY <2>2 DEF VerdictsInv, Stored, ActiveStatus, FinalStatus
  <2> QED
    BY <1>2, <1>3, <2>1, <2>3, KnownTypes, NoVerdict
<1>6. ASSUME NEW t \in Turns, SweepJudge(s, t) PROVE VerdictsInv'
  <2> DEFINE rec == sweep[s].rec
             w == [Local("judging", rec.id, rec) EXCEPT !.error = TRUE]
  <2>1. sweep[s].pc = "read" /\ (worker' = worker \/ worker' = [worker EXCEPT ![t] = w])
    BY <1>6 DEF SweepJudge
  <2>2. sweep'[s].pc # "read"
    <3> DEFINE v == [sweep[s] EXCEPT !.pc = "judging", !.rec = NoRecord, !.turn = t]
               x == [sweep[s] EXCEPT !.pc = "sweeping", !.rec = NoRecord]
    <3>1. sweep' = [sweep EXCEPT ![s] = v] \/ sweep' = [sweep EXCEPT ![s] = x]
      BY <1>6 DEF SweepJudge
    <3>2. v.pc = "judging" /\ x.pc = "sweeping"
      BY <1>1 DEF Sweep
    <3> HIDE DEF v, x
    <3> QED
      BY <1>1, <3>1, <3>2
  <2>3. w.run = rec.id /\ rec.id \in Runs /\ ~Stored(rec.id, FinalStatus)
    BY <2>1, KnownTypes DEF Local, VerdictsInv
  <2> HIDE DEF w, rec
  <2>4. \A u \in Turns : worker'[u] = worker[u]
                           \/ (worker'[u].run \in Runs /\ ~Stored(worker'[u].run, FinalStatus))
    BY <1>1, <2>1, <2>3
  <2>5. \A u \in Turns : worker'[u].pc \in Claiming \cup Working =>
          /\ worker'[u].run \in Runs
          /\ \/ worker[u].pc \in Claiming \cup Working /\ worker'[u].run = worker[u].run
             \/ ~Stored(worker'[u].run, FinalStatus)
    BY <2>4, KnownTypes
  <2> QED
    BY <1>2, <1>3, <2>2, <2>5, KnownTypes, NoVerdict
<1> QED
  BY <1>2, <1>4, <1>5, <1>6 DEF SweepStep

\* Every step keeps it, the sweeps' by Only.
LEMMA VerdictsStep ==
  ASSUME ~Eager, Alone, RecoveryInv, OneInv, VerdictsInv, [RecoveryNext]_all
  PROVE  VerdictsInv' /\ VerdictStep
<1>1. CASE \E t \in Turns : ServerTurn(t, TurnStep(t))
  BY <1>1, ServerVerdicts
<1>2. ASSUME worker' = worker, disk' = disk, sweep' = sweep PROVE VerdictsInv' /\ VerdictStep
  BY <1>2, QuietVerdicts DEF GoesOn, SweepsStay
<1>3. CASE \/ \E r \in Runs : ServerRequest(Cancel(r))
           \/ \E q \in Requests : ServerRequest(MessageRefused(q))
           \/ \E q \in Requests, r \in Runs : ServerRequest(MessageRead(q, r))
  BY <1>2, <1>3 DEF ServerRequest, recovery, Cancel, MessageRefused, MessageRead, store
<1>4. CASE \E t \in Turns : Outlives(t)
  BY <1>2, <1>4 DEF Outlives, Exit, JournalAdd, store, recovery
<1>5. CASE \E s \in Sweepers : SweepCheck(s) \/ SweepStep(s)
  BY <1>5, SweepVerdicts DEF VerdictStep
<1>6. CASE StopRead \/ StopHalt \/ StopJoin \/ Restart
  BY <1>2, <1>6 DEF StopRead, StopHalt, StopJoin, Restart, vars, store
<1>7. CASE StopExit \/ Crash
  <2>1. /\ disk' = disk /\ \A t \in Turns : worker'[t].pc \in {"none", "done"}
        /\ \A s \in Sweepers : sweep'[s].pc # "read"
    BY <1>7, IdleType DEF StopExit, Crash, Gone, At, Local, store
  <2>2. GoesOn /\ SweepsStay
    BY <2>1 DEF GoesOn, SweepsStay, Claiming, Working, Owning, Judging
  <2> QED
    BY <2>1, <2>2, QuietVerdicts
<1>8. CASE UNCHANGED all
  BY <1>2, <1>8 DEF all, vars, store, recovery
<1> QED
  BY <1>1, <1>3, <1>4, <1>5, <1>6, <1>7, <1>8 DEF RecoveryNext, Serving

\* A new office has no verdicts.
LEMMA VerdictsInit == RecoveryInit => VerdictsInv
<1> SUFFICES ASSUME RecoveryInit PROVE VerdictsInv
  OBVIOUS
<1>1. \A r \in Runs : disk[r] = NoRecord
  BY DEF RecoveryInit, Init
<1>2. \A t \in Turns : worker[t].pc = "none"
  BY DEF RecoveryInit, Init, Local
<1>3. \A s \in Sweepers : sweep[s].pc # "read"
  BY IdleType DEF RecoveryInit
<1> QED
  BY <1>1, <1>2, <1>3 DEF VerdictsInv, Claiming, Working, Owning, Judging

\* Over crashes, restarts and sweeps as well, a verdict that was stored stands until a follow-up
\* claims the slot or prune deletes it, if claims wait for the first read's sweep and only
\* one thread does that sweep (runs.py:663-677).
THEOREM VerdictStandsOverRestarts ==
  ASSUME ~Eager, Alone
  PROVE  RecoverySpec => VerdictStands
<1>1. RecoveryInv /\ OneInv /\ VerdictsInv /\ [RecoveryNext]_all
        => (RecoveryInv /\ OneInv /\ VerdictsInv)' /\ VerdictStep
  BY RecoveryInvStep, OneInvStep, VerdictsStep
<1>2. VerdictStep => [VerdictStep]_vars
  OBVIOUS
<1>3. RecoveryInit => RecoveryInv /\ OneInv /\ VerdictsInv
  BY RecoveryInvInit, OneInvInit, VerdictsInit
<1> QED
  BY <1>1, <1>2, <1>3, PTL DEF RecoverySpec, VerdictStands, VerdictStep
=============================================================================
