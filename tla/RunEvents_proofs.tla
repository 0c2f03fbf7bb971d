-------------------------- MODULE RunEvents_proofs --------------------------
(***************************************************************************)
(* Theorems about RunEvents for every number of turns, pages, servers and  *)
(* events, and whether or not a follow-up may overtake `finish'.           *)
(***************************************************************************)
EXTENDS RunEvents, WellFoundedInduction, TLAPS

\* The program counters of a turn that emits, of one that has the slot and of one
\* that is neither over nor to come.
Emitting == {"begun", "started", "running", "judging", "decided"}
InSlot   == {"activated", "begun", "started", "running"}
Busy     == Emitting \cup {"claimed", "activated", "saved"}

TurnsInv ==
  /\ turn \in [Turns -> [pc : TurnPcs, seq : Nat]]
  /\ stored \in StoredRecord \cup {NoRecord}
  /\ reconciled \in BOOLEAN

\* One turn at a time is busy; it has a record, its server has reconciled, and it
\* has the slot from when it was put there until it frees it.
BusyInv ==
  /\ \A t, u \in Turns : {turn[t].pc, turn[u].pc} \subseteq Busy => t = u
  /\ \A t \in Turns : turn[t].pc \in Busy => stored # NoRecord
  /\ \A t \in Turns : turn[t].pc \in Busy \cup {"read"} => reconciled
  /\ \A t \in Turns : turn[t].pc \in InSlot => active = t

\* The log grows, and a turn that emits is past all that is in it.
LogInv ==
  /\ log \in Seq(Event)
  /\ Growing(log)
  /\ \A t \in Turns : turn[t].pc \in Emitting =>
       \A i \in DOMAIN log : log[i].seq <= turn[t].seq

EventsInv == TurnsInv /\ BusyInv /\ LogInv

-----------------------------------------------------------------------------
\* `begin' and `reconcile' take the largest number there is: it exists because the
\* log grows.
LEMMA AfterLogBounds ==
  ASSUME log \in Seq(Event), Growing(log), NEW n \in Nat
  PROVE  /\ AfterLog(n) \in Nat
         /\ \A i \in DOMAIN log : log[i].seq <= AfterLog(n)
<1> DEFINE S == {n} \cup {log[i].seq : i \in DOMAIN log}
<1>1. \A i \in DOMAIN log : log[i].seq \in Nat
  <2>1. \A i \in DOMAIN log : log[i] \in Event
    OBVIOUS
  <2> QED
    BY <2>1 DEF Event
<1>2. \E m \in S : \A k \in S : m >= k
  <2>1. CASE log = << >>
    BY <2>1
  <2>2. CASE log # << >>
    <3>1. Len(log) \in DOMAIN log /\ \A i \in DOMAIN log : i \in Nat /\ i <= Len(log)
      BY <2>2
    <3>2. \A i \in DOMAIN log : log[i].seq <= log[Len(log)].seq
      BY <1>1, <3>1 DEF Growing
    <3>3. CASE n <= log[Len(log)].seq
      BY <1>1, <3>1, <3>2, <3>3
    <3>4. CASE ~(n <= log[Len(log)].seq)
      BY <1>1, <3>1, <3>2, <3>4
    <3> QED
      BY <3>3, <3>4
  <2> QED
    BY <2>1, <2>2
<1>3. AfterLog(n) \in S /\ \A k \in S : AfterLog(n) >= k
  BY <1>2 DEF AfterLog, Max
<1> QED
  BY <1>1, <1>3

\* `emit' numbers an event above all that is in the log and above its record.
LEMMA EmitGrows ==
  ASSUME TurnsInv, LogInv, NEW t \in Turns, NEW kind \in {"user", "delta", "text", "verdict"},
         NEW pc \in TurnPcs, turn[t].pc \in Emitting, Emit(t, kind, pc)
  PROVE  /\ turn' = [turn EXCEPT ![t] = [pc |-> pc, seq |-> turn[t].seq + 1]]
         /\ turn' \in [Turns -> [pc : TurnPcs, seq : Nat]]
         /\ log' \in Seq(Event)
         /\ Growing(log')
         /\ \A i \in DOMAIN log' : log'[i].seq <= turn'[t].seq
<1> DEFINE n == turn[t].seq
           event == [seq |-> n + 1, turn |-> t, kind |-> kind]
<1>1. n \in Nat /\ event \in Event
  BY DEF TurnsInv, Event
<1>2. \A i \in DOMAIN log : log[i].seq \in Nat /\ log[i].seq <= n
  <2>1. \A i \in DOMAIN log : log[i] \in Event
    BY DEF LogInv
  <2> QED
    BY <2>1 DEF LogInv, Event
<1>3. turn' = [turn EXCEPT ![t] = [pc |-> pc, seq |-> n + 1]]
  BY DEF Emit
<1>4. turn' \in [Turns -> [pc : TurnPcs, seq : Nat]] /\ turn'[t].seq = n + 1
  BY <1>1, <1>3 DEF TurnsInv
<1>5. CASE log' = log
  BY <1>1, <1>2, <1>3, <1>4, <1>5 DEF LogInv
<1>6. CASE log' = Append(log, event)
  <2>1. log' \in Seq(Event) /\ Len(log') = Len(log) + 1
    BY <1>1, <1>6 DEF LogInv
  <2>2. log'[Len(log) + 1].seq = n + 1
    BY <1>6 DEF LogInv
  <2>3. \A i \in DOMAIN log : log'[i] = log[i]
    BY <1>6 DEF LogInv
  <2>4. \A i \in DOMAIN log' : i \in DOMAIN log \/ i = Len(log) + 1
    BY <2>1 DEF LogInv
  <2>5. \A i \in DOMAIN log' : log'[i].seq \in Nat /\ log'[i].seq <= n + 1
    BY <1>1, <1>2, <2>2, <2>3, <2>4
  <2>6. ASSUME NEW i \in DOMAIN log', NEW j \in DOMAIN log', i < j
        PROVE  log'[i].seq < log'[j].seq
    <3>1. i \in DOMAIN log
      BY <2>1, <2>4, <2>6 DEF LogInv
    <3>2. CASE j \in DOMAIN log
      BY <2>3, <2>6, <3>1, <3>2 DEF LogInv, Growing
    <3>3. CASE j = Len(log) + 1
      BY <1>1, <1>2, <2>2, <2>3, <3>1, <3>3
    <3> QED
      BY <2>4, <3>2, <3>3
  <2> QED
    BY <1>3, <1>4, <2>1, <2>5, <2>6 DEF Growing
<1> QED
  BY <1>5, <1>6 DEF Emit

\* The first state satisfies the invariant.
LEMMA EventsInitInv == EventsInit => EventsInv
<1> SUFFICES ASSUME EventsInit PROVE EventsInv
  OBVIOUS
<1>1. \A t \in Turns : turn[t].pc = "none"
  BY DEF EventsInit
<1>2. TurnsInv
  BY DEF EventsInit, TurnsInv, TurnPcs
<1>3. BusyInv
  BY <1>1 DEF BusyInv, Busy, Emitting, InSlot
<1>4. LogInv
  BY <1>1 DEF EventsInit, LogInv, Growing, Emitting
<1> QED
  BY <1>2, <1>3, <1>4 DEF EventsInv

\* A turn whose counter stays where it is, moved to another place of its work.
Moved(t, pc) ==
  /\ turn' = [turn EXCEPT ![t].pc = pc]
  /\ log' = log
  /\ reconciled' = reconciled

LEMMA MovedInv ==
  ASSUME EventsInv, NEW t \in Turns, NEW pc \in TurnPcs, Moved(t, pc),
         turn[t].pc \in Busy \cup {"freed"},
         pc \in Busy => turn[t].pc \in Busy,
         pc \in Emitting => turn[t].pc \in Emitting,
         pc # "read",
         stored' \in StoredRecord \cup {NoRecord},
         stored' = NoRecord => stored = NoRecord,
         pc \in InSlot => active' = t,
         \/ active' = active
         \/ turn[t].pc \in Busy
  PROVE  EventsInv'
<1>1. /\ turn' \in [Turns -> [pc : TurnPcs, seq : Nat]]
      /\ turn'[t].pc = pc
      /\ turn'[t].seq = turn[t].seq
      /\ \A u \in Turns : u # t => turn'[u] = turn[u]
  BY DEF Moved, EventsInv, TurnsInv
<1>2. TurnsInv'
  BY <1>1 DEF Moved, EventsInv, TurnsInv
<1>3. BusyInv'
  <2>1. ASSUME NEW u \in Turns, turn'[u].pc \in Busy PROVE turn[u].pc \in Busy
    BY <1>1, <2>1
  <2>2. ASSUME NEW u \in Turns, turn'[u].pc \in InSlot PROVE active' = u
    BY <1>1, <2>2 DEF EventsInv, BusyInv, InSlot, Busy, Emitting
  <2>3. ASSUME NEW u \in Turns, turn'[u].pc \in Busy \cup {"read"} PROVE reconciled'
    BY <1>1, <2>1, <2>3 DEF Moved, EventsInv, BusyInv
  <2> QED
    BY <2>1, <2>2, <2>3 DEF EventsInv, BusyInv
<1>4. LogInv'
  BY <1>1 DEF Moved, EventsInv, LogInv
<1> QED
  BY <1>2, <1>3, <1>4 DEF EventsInv

\* What an event does to the turn that emits it.
LEMMA EmitInv ==
  ASSUME EventsInv, NEW t \in Turns, NEW kind \in {"user", "delta", "text", "verdict"},
         NEW pc \in Emitting, turn[t].pc \in Emitting, Emit(t, kind, pc),
         pc \in InSlot => turn[t].pc \in InSlot,
         active' = active, stored' = stored, reconciled' = reconciled
  PROVE  EventsInv'
<1>1. pc \in TurnPcs /\ pc \in Busy /\ pc # "read" /\ turn[t].pc \in Busy
  BY DEF Emitting, TurnPcs, Busy
<1>2. /\ turn' = [turn EXCEPT ![t] = [pc |-> pc, seq |-> turn[t].seq + 1]]
      /\ turn' \in [Turns -> [pc : TurnPcs, seq : Nat]]
      /\ log' \in Seq(Event)
      /\ Growing(log')
      /\ \A i \in DOMAIN log' : log'[i].seq <= turn'[t].seq
  BY <1>1, EmitGrows DEF EventsInv
<1>3. turn'[t].pc = pc /\ \A u \in Turns : u # t => turn'[u] = turn[u]
  BY <1>2 DEF EventsInv, TurnsInv
<1>4. TurnsInv'
  BY <1>2 DEF EventsInv, TurnsInv
<1>5. BusyInv'
  BY <1>1, <1>3 DEF EventsInv, BusyInv
<1>6. LogInv'
  BY <1>1, <1>2, <1>3 DEF EventsInv, BusyInv, LogInv, Busy
<1> QED
  BY <1>4, <1>5, <1>6 DEF EventsInv

\* What the pages do concerns no turn.
LEMMA StillInv ==
  ASSUME EventsInv, UNCHANGED <<active, stored, turn, log, reconciled>>
  PROVE  EventsInv'
BY DEF EventsInv, TurnsInv, BusyInv, LogInv, Growing

-----------------------------------------------------------------------------
(* The steps of a turn.                                                    *)

\* A claim stores a record.
LEMMA ClaimStored ==
  ASSUME EventsInv, NEW t \in Turns, Launch(t) \/ MessageClaim(t)
  PROVE  stored' \in StoredRecord /\ stored' # NoRecord
<1>1. turn[t].seq \in Nat
  BY DEF EventsInv, TurnsInv
<1>2. \E final \in BOOLEAN, n \in Nat : stored' = [final |-> final, seq |-> n]
  BY <1>1 DEF Launch, MessageClaim
<1>3. stored' \in [final : BOOLEAN, seq : Nat]
  BY <1>2
<1> QED
  BY <1>3, EventsAssumption DEF StoredRecord

\* Nobody else is busy when a turn claims.
LEMMA ClaimInv ==
  ASSUME EventsInv, NEW t \in Turns, Launch(t) \/ MessageClaim(t)
  PROVE  EventsInv'
<1>1. \A u \in Turns : turn[u].pc \notin Busy
  <2>1. CASE Launch(t)
    BY <2>1 DEF Launch, EventsInv, BusyInv
  <2>2. CASE MessageClaim(t)
    <3>1. ASSUME NEW u \in Turns, turn[u].pc \in InSlot PROVE FALSE
      BY <2>2, <3>1, EventsAssumption DEF MessageClaim, EventsInv, BusyInv
    <3> QED
      BY <2>2, <3>1 DEF MessageClaim, Busy, Emitting, InSlot
  <2> QED
    BY <2>1, <2>2
<1>2. reconciled /\ turn[t].pc \in {"none", "read"}
  BY DEF Launch, MessageClaim, At, EventsInv, BusyInv
<1>3. stored' \in StoredRecord /\ stored' # NoRecord
  BY ClaimStored
<1>4. /\ turn' = [turn EXCEPT ![t].pc = "claimed"]
      /\ log' = log
      /\ reconciled' = reconciled
  BY DEF Launch, MessageClaim, Goto
<1>5. /\ turn' \in [Turns -> [pc : TurnPcs, seq : Nat]]
      /\ turn'[t].pc = "claimed"
      /\ \A u \in Turns : u # t => turn'[u] = turn[u]
  BY <1>4 DEF EventsInv, TurnsInv, TurnPcs
<1>6. TurnsInv'
  BY <1>3, <1>4, <1>5 DEF EventsInv, TurnsInv
<1>7. BusyInv'
  BY <1>1, <1>2, <1>3, <1>4, <1>5 DEF EventsInv, BusyInv, Busy, InSlot, Emitting
<1>8. LogInv'
  BY <1>4, <1>5 DEF EventsInv, LogInv, Emitting
<1> QED
  BY <1>6, <1>7, <1>8 DEF EventsInv

\* Reading the record leaves the turn where it emits nothing.
LEMMA MessageReadInv ==
  ASSUME EventsInv, NEW t \in Turns, MessageRead(t)
  PROVE  EventsInv'
<1>1. stored.seq \in Nat /\ reconciled
  BY DEF MessageRead, Settled, EventsInv, TurnsInv, StoredRecord
<1>2. /\ turn' \in [Turns -> [pc : TurnPcs, seq : Nat]]
      /\ turn'[t].pc = "read"
      /\ \A u \in Turns : u # t => turn'[u] = turn[u]
  BY <1>1 DEF MessageRead, EventsInv, TurnsInv, TurnPcs
<1>3. TurnsInv'
  BY <1>2 DEF MessageRead, EventsInv, TurnsInv
<1>4. BusyInv'
  BY <1>1, <1>2 DEF MessageRead, EventsInv, BusyInv, Busy, InSlot, Emitting
<1>5. LogInv'
  BY <1>2 DEF MessageRead, EventsInv, LogInv, Emitting
<1> QED
  BY <1>3, <1>4, <1>5 DEF EventsInv

\* `begin' puts the turn past the log before it emits.
LEMMA BeginInv ==
  ASSUME EventsInv, NEW t \in Turns, Begin(t)
  PROVE  EventsInv'
<1> DEFINE n == AfterLog(turn[t].seq)
<1>1. turn[t].seq \in Nat /\ turn[t].pc = "activated"
  BY DEF Begin, At, EventsInv, TurnsInv
<1>2. n \in Nat /\ \A i \in DOMAIN log : log[i].seq <= n
  BY <1>1, AfterLogBounds DEF EventsInv, LogInv
<1>3. /\ turn' \in [Turns -> [pc : TurnPcs, seq : Nat]]
      /\ turn'[t].pc = "begun" /\ turn'[t].seq = n
      /\ \A u \in Turns : u # t => turn'[u] = turn[u]
  BY <1>2 DEF Begin, EventsInv, TurnsInv, TurnPcs
<1>4. TurnsInv'
  BY <1>3 DEF Begin, EventsInv, TurnsInv
<1>5. BusyInv'
  BY <1>1, <1>3 DEF Begin, EventsInv, BusyInv, Busy, InSlot, Emitting
<1>6. LogInv'
  BY <1>2, <1>3 DEF Begin, EventsInv, LogInv
<1> QED
  BY <1>4, <1>5, <1>6 DEF EventsInv

\* A new server has nobody at work.
LEMMA RestartInv ==
  ASSUME EventsInv, Restart
  PROVE  EventsInv'
<1>1. turn' \in [Turns -> [pc : TurnPcs, seq : Nat]]
  BY DEF Restart, EventsInv, TurnsInv, TurnPcs
<1>2. \A t \in Turns : turn'[t].pc \in {"none", "done"}
  BY DEF Restart, EventsInv, TurnsInv
<1>3. TurnsInv'
  BY <1>1 DEF Restart, EventsInv, TurnsInv
<1>4. BusyInv'
  BY <1>2 DEF BusyInv, Busy, InSlot, Emitting
<1>5. LogInv'
  BY <1>2 DEF Restart, EventsInv, LogInv, Emitting
<1> QED
  BY <1>3, <1>4, <1>5 DEF EventsInv

\* The turn that judges counts on from the log, and nobody else is busy yet.
LEMMA ReconcileInv ==
  ASSUME EventsInv, Reconcile
  PROVE  EventsInv'
<1>1. \A u \in Turns : turn[u].pc \notin Busy \cup {"read"}
  BY DEF Reconcile, EventsInv, BusyInv
<1>2. CASE turn' = turn
  <2>1. TurnsInv'
    BY <1>2 DEF Reconcile, EventsInv, TurnsInv
  <2>2. BusyInv'
    BY <1>1, <1>2 DEF BusyInv, Busy, InSlot, Emitting
  <2>3. LogInv'
    BY <1>1, <1>2 DEF Reconcile, EventsInv, LogInv, Busy
  <2> QED
    BY <2>1, <2>2, <2>3 DEF EventsInv
<1>3. CASE turn' # turn
  <2>1. stored # NoRecord
    BY <1>3 DEF Reconcile
  <2>2. PICK t \in Turns :
          turn' = [turn EXCEPT ![t] = [pc |-> "judging", seq |-> AfterLog(stored.seq)]]
    BY <1>3 DEF Reconcile
  <2>3. stored.seq \in Nat
    BY <2>1 DEF EventsInv, TurnsInv, StoredRecord
  <2>4. AfterLog(stored.seq) \in Nat /\ \A i \in DOMAIN log : log[i].seq <= AfterLog(stored.seq)
    BY <2>3, AfterLogBounds DEF EventsInv, LogInv
  <2>5. /\ turn' \in [Turns -> [pc : TurnPcs, seq : Nat]]
        /\ turn'[t].pc = "judging" /\ turn'[t].seq = AfterLog(stored.seq)
        /\ \A u \in Turns : u # t => turn'[u] = turn[u]
    BY <2>2, <2>4 DEF EventsInv, TurnsInv, TurnPcs
  <2>6. TurnsInv'
    BY <2>5 DEF Reconcile, EventsInv, TurnsInv
  <2>7. BusyInv'
    BY <1>1, <2>1, <2>5 DEF Reconcile, EventsInv, BusyInv, Busy, InSlot, Emitting
  <2>8. LogInv'
    BY <1>1, <2>4, <2>5 DEF Reconcile, EventsInv, LogInv, Busy
  <2> QED
    BY <2>6, <2>7, <2>8 DEF EventsInv
<1> QED
  BY <1>2, <1>3

\* A turn at work stores its record or leaves it alone.
LEMMA WorkStored ==
  ASSUME EventsInv, NEW t \in Turns, Work(t)
  PROVE  stored' \in StoredRecord \cup {NoRecord} /\ (stored' = NoRecord => stored = NoRecord)
<1>1. turn[t].seq \in Nat
  BY DEF EventsInv, TurnsInv
<1>2. CASE stored' = stored
  BY <1>2 DEF EventsInv, TurnsInv
<1>3. CASE \E final \in BOOLEAN : stored' = [final |-> final, seq |-> turn[t].seq]
  BY <1>1, <1>3, EventsAssumption DEF StoredRecord
<1> QED
  BY <1>2, <1>3
     DEF Work, Activate, Begin, EmitUser, SaveRunning, EmitOutput, EmitVerdict, SaveVerdict,
         Free, DropList

\* The steps that keep the counter of the turn.
LEMMA MoveInv ==
  ASSUME EventsInv, NEW t \in Turns,
         Activate(t) \/ SaveRunning(t) \/ SaveVerdict(t) \/ Free(t) \/ DropList(t)
  PROVE  EventsInv'
<1>1. stored' \in StoredRecord \cup {NoRecord} /\ (stored' = NoRecord => stored = NoRecord)
  BY WorkStored DEF Work
<1>2. CASE Activate(t)
  BY <1>1, <1>2, MovedInv
     DEF Activate, At, Goto, Moved, TurnPcs, Busy, Emitting, InSlot
<1>3. CASE SaveRunning(t)
  BY <1>1, <1>3, MovedInv
     DEF SaveRunning, At, Goto, Moved, TurnPcs, Busy, Emitting, InSlot, EventsInv, BusyInv
<1>4. CASE SaveVerdict(t)
  BY <1>1, <1>4, MovedInv
     DEF SaveVerdict, At, Goto, Moved, TurnPcs, Busy, Emitting, InSlot
<1>5. CASE Free(t)
  BY <1>1, <1>5, MovedInv
     DEF Free, At, Goto, Moved, TurnPcs, Busy, Emitting, InSlot
<1>6. CASE DropList(t)
  BY <1>1, <1>6, MovedInv
     DEF DropList, At, Goto, Moved, TurnPcs, Busy, Emitting, InSlot
<1> QED
  BY <1>2, <1>3, <1>4, <1>5, <1>6

\* The steps that emit.
LEMMA EmittingInv ==
  ASSUME EventsInv, NEW t \in Turns,
         \/ EmitUser(t)
         \/ \E kind \in {"delta", "text"} : EmitOutput(t, kind)
         \/ EmitVerdict(t)
  PROVE  EventsInv'
<1>1. CASE EmitUser(t)
  BY <1>1, EmitInv DEF EmitUser, At, Emitting, InSlot
<1>2. CASE \E kind \in {"delta", "text"} : EmitOutput(t, kind)
  BY <1>2, EmitInv DEF EmitOutput, At, Emitting, InSlot
<1>3. CASE EmitVerdict(t)
  BY <1>3, EmitInv DEF EmitVerdict, Emitting, InSlot
<1> QED
  BY <1>1, <1>2, <1>3

LEMMA EventsStep == EventsInv /\ [EventsNext]_vars => EventsInv'
<1> SUFFICES ASSUME EventsInv, [EventsNext]_vars PROVE EventsInv'
  OBVIOUS
<1>1. ASSUME NEW t \in Turns, Launch(t) \/ MessageClaim(t) PROVE EventsInv'
  BY <1>1, ClaimInv
<1>2. ASSUME NEW t \in Turns, MessageRead(t) PROVE EventsInv'
  BY <1>2, MessageReadInv
<1>3. ASSUME NEW t \in Turns, Work(t) PROVE EventsInv'
  BY <1>3, BeginInv, MoveInv, EmittingInv DEF Work
<1>4. CASE Reconcile
  BY <1>4, ReconcileInv
<1>5. CASE Restart
  BY <1>5, RestartInv
<1>6. ASSUME NEW f \in Followers, Follow(f) PROVE EventsInv'
  <2>1. UNCHANGED <<active, stored, turn, log, reconciled>>
    BY <1>6 DEF Follow, Connect, Replay, Send, Sent, Wait, Lose
  <2> QED
    BY <2>1, StillInv
<1>7. CASE UNCHANGED vars
  BY <1>7, StillInv DEF vars
<1> QED
  BY <1>1, <1>2, <1>3, <1>4, <1>5, <1>6, <1>7 DEF EventsNext

LEMMA AlwaysEventsInv == EventsSpec => []EventsInv
  BY EventsInitInv, EventsStep, PTL DEF EventsSpec

-----------------------------------------------------------------------------
\* `begin' and `reconcile' never reuse a number that is in the log, as the comment
\* in `begin' says: whatever turns follow each other, whatever record a follow-up
\* read and wherever the server died, the stored numbers only grow.
THEOREM LogGrowsHolds == EventsSpec => []LogGrows
<1>1. EventsInv => LogGrows
  BY DEF EventsInv, LogInv, LogGrows
<1> QED
  BY <1>1, AlwaysEventsInv, PTL

-----------------------------------------------------------------------------
(* When a stream may end.                                                  *)

\* A record in progress is that of a turn which has not stored its verdict, once
\* the server has reconciled.
ProgressInv ==
  reconciled /\ stored # NoRecord /\ ~stored.final =>
    \E t \in Turns : turn[t].pc \in Busy \ {"saved"}

\* A page is connected only to a server that has reconciled and shows a record.
Connected == {"replaying", "sending", "waiting"}
StreamInv ==
  /\ stream = [f \in Followers |-> stream[f]]
  /\ \A f \in Followers :
       /\ stream[f] = [x \in DOMAIN stream[f] |-> stream[f][x]]
       /\ {"pc", "ending"} \subseteq DOMAIN stream[f]
       /\ stream[f].pc \in Connected => reconciled /\ stored # NoRecord

EndsInv == EventsInv /\ ProgressInv /\ StreamInv

\* Only storing a verdict ends the progress of a record, and the turn that frees the
\* slot or drops the list is no longer the one in progress.
LEMMA ProgressStep == EventsInv /\ ProgressInv /\ [EventsNext]_vars => ProgressInv'
<1> SUFFICES ASSUME EventsInv, ProgressInv, [EventsNext]_vars,
                    reconciled', stored' # NoRecord, ~stored'.final
             PROVE  \E t \in Turns : turn'[t].pc \in Busy \ {"saved"}
  BY DEF ProgressInv
<1>0. turn \in [Turns -> [pc : TurnPcs, seq : Nat]]
  BY DEF EventsInv, TurnsInv
<1>1. ASSUME NEW t \in Turns, Launch(t) \/ MessageClaim(t)
      PROVE  turn'[t].pc \in Busy \ {"saved"}
  BY <1>0, <1>1 DEF Launch, MessageClaim, Goto, Busy
<1>2. ASSUME NEW t \in Turns, MessageRead(t) PROVE FALSE
  BY <1>2 DEF MessageRead, Settled
<1>3. ASSUME NEW t \in Turns, Activate(t) \/ Begin(t) \/ SaveRunning(t)
      PROVE  turn'[t].pc \in Busy \ {"saved"}
  <2>1. turn'[t].pc \in {"activated", "begun", "running"}
    <3>1. CASE Goto(t, "activated") \/ Goto(t, "running")
      BY <1>0, <3>1 DEF Goto
    <3>2. CASE Begin(t)
      BY <1>0, <3>2 DEF Begin
    <3> QED
      BY <1>3, <3>1, <3>2 DEF Activate, SaveRunning
  <2> QED
    BY <2>1 DEF Busy, Emitting
<1>4. ASSUME NEW t \in Turns,
             \/ EmitUser(t) \/ EmitVerdict(t)
             \/ \E kind \in {"delta", "text"} : EmitOutput(t, kind)
      PROVE  turn'[t].pc \in Busy \ {"saved"}
  <2>1. \E pc \in {"started", "running", "decided"}, kind \in {"user", "delta", "text", "verdict"} :
          Emit(t, kind, pc)
    BY <1>4 DEF EmitUser, EmitVerdict, EmitOutput
  <2>2. turn'[t].pc \in {"started", "running", "decided"}
    BY <1>0, <2>1 DEF Emit
  <2> QED
    BY <2>2 DEF Busy, Emitting
<1>5. ASSUME NEW t \in Turns, SaveVerdict(t) PROVE FALSE
  <2>1. stored'.final = TRUE
    BY <1>5 DEF SaveVerdict
  <2> QED
    BY <2>1
<1>6. ASSUME NEW t \in Turns, Free(t) \/ DropList(t)
      PROVE  \E u \in Turns : turn'[u].pc \in Busy \ {"saved"}
  <2>0. reconciled /\ stored # NoRecord /\ ~stored.final
    BY <1>6 DEF Free, DropList
  <2>1. PICK u \in Turns : turn[u].pc \in Busy \ {"saved"}
    BY <2>0 DEF ProgressInv
  <2>2. u # t
    BY <1>6, <2>1 DEF Free, DropList, At, Busy, Emitting
  <2>3. turn'[u] = turn[u]
    BY <1>0, <1>6, <2>2 DEF Free, DropList, Goto
  <2> QED
    BY <2>1, <2>3
<1>7. ASSUME Reconcile PROVE \E u \in Turns : turn'[u].pc \in Busy \ {"saved"}
  <2>1. stored # NoRecord /\ ~Settled
    BY <1>7 DEF Reconcile, Settled
  <2>2. PICK t \in Turns :
          turn' = [turn EXCEPT ![t] = [pc |-> "judging", seq |-> AfterLog(stored.seq)]]
    BY <1>7, <2>1 DEF Reconcile
  <2> QED
    BY <1>0, <2>2 DEF Busy, Emitting
<1>8. ASSUME Restart PROVE FALSE
  BY <1>8 DEF Restart
<1>9. ASSUME NEW f \in Followers, Follow(f)
       PROVE  \E u \in Turns : turn'[u].pc \in Busy \ {"saved"}
  BY <1>9 DEF Follow, Connect, Replay, Send, Sent, Wait, Lose, ProgressInv
<1>10. CASE UNCHANGED vars
  BY <1>10 DEF vars, ProgressInv
<1> QED
  BY <1>1, <1>2, <1>3, <1>4, <1>5, <1>6, <1>7, <1>8, <1>9, <1>10 DEF EventsNext, Work

\* What a page does to its connection; it ends for good only as `wait' finds no
\* active run.
LEMMA FollowStep ==
  ASSUME StreamInv, NEW f \in Followers, Follow(f)
  PROVE  /\ StreamInv'
         /\ \A g \in Followers : stream'[g].ending /\ ~stream[g].ending =>
              stream[g].pc = "waiting" /\ active = NoTurn
<1>1. UNCHANGED <<active, stored, turn, reconciled>>
  BY DEF Follow, Connect, Replay, Send, Sent, Wait, Lose
<1>2. stream' = [stream EXCEPT ![f] = stream'[f]]
  BY DEF Follow, Connect, Replay, Send, Sent, Wait, Lose, StreamInv
<1>3. /\ stream'[f] = [x \in DOMAIN stream'[f] |-> stream'[f][x]]
      /\ {"pc", "ending"} \subseteq DOMAIN stream'[f]
      /\ stream'[f].pc \in Connected => reconciled /\ stored # NoRecord
      /\ stream'[f].ending /\ ~stream[f].ending =>
           stream[f].pc = "waiting" /\ active = NoTurn
  <2>1. CASE Connect(f)
    BY <2>1 DEF Connect, Off, StreamInv
  <2>2. CASE Replay(f)
    BY <2>2 DEF Replay, StreamInv, Connected
  <2>3. CASE Send(f)
    BY <2>3 DEF Send, StreamInv, Connected
  <2>4. CASE Sent(f)
    BY <2>4 DEF Sent, StreamInv, Connected
  <2>5. CASE Wait(f)
    <3>1. CASE active # NoTurn
      BY <2>5, <3>1 DEF Wait, StreamInv, Connected
    <3>2. CASE active = NoTurn
      BY <2>5, <3>2 DEF Wait, StreamInv, Connected
    <3> QED
      BY <3>1, <3>2
  <2>6. CASE Lose(f)
    BY <2>6 DEF Lose, Off, StreamInv, Connected
  <2> QED
    BY <2>1, <2>2, <2>3, <2>4, <2>5, <2>6 DEF Follow
<1>4. \A g \in Followers : g # f => stream'[g] = stream[g]
  BY <1>2 DEF StreamInv
<1> QED
  BY <1>1, <1>2, <1>3, <1>4 DEF StreamInv

LEMMA EndsInitInv == EventsInit => EndsInv
<1> SUFFICES ASSUME EventsInit PROVE EndsInv
  OBVIOUS
<1>1. ProgressInv
  BY DEF EventsInit, ProgressInv
<1>2. StreamInv
  BY DEF EventsInit, StreamInv, Off, Connected
<1> QED
  BY <1>1, <1>2, EventsInitInv DEF EndsInv

LEMMA EndsStep == EndsInv /\ [EventsNext]_vars => EndsInv'
<1> SUFFICES ASSUME EndsInv, [EventsNext]_vars PROVE EndsInv'
  OBVIOUS
<1>1. EventsInv' /\ ProgressInv'
  BY EventsStep, ProgressStep DEF EndsInv
<1>2. StreamInv'
  <2>1. CASE \E f \in Followers : Follow(f)
    BY <2>1, FollowStep DEF EndsInv
  <2>2. CASE Restart
    BY <2>2 DEF Restart, EndsInv, StreamInv, Off, Connected
  <2>3. CASE UNCHANGED vars
    BY <2>3 DEF vars, EndsInv, StreamInv
  <2>4. ASSUME stream' = stream, reconciled => reconciled', stored # NoRecord => stored' # NoRecord
        PROVE  StreamInv'
    BY <2>4 DEF EndsInv, StreamInv
  <2>5. CASE Reconcile
    BY <2>4, <2>5 DEF Reconcile
  <2>6. ASSUME NEW t \in Turns, Launch(t) \/ MessageClaim(t) PROVE StreamInv'
    BY <2>4, <2>6, ClaimStored DEF Launch, MessageClaim, EndsInv
  <2>7. ASSUME NEW t \in Turns, MessageRead(t) PROVE StreamInv'
    BY <2>4, <2>7 DEF MessageRead
  <2>8. ASSUME NEW t \in Turns, Work(t) PROVE StreamInv'
    <3>1. stored' = NoRecord => stored = NoRecord
      BY <2>8, WorkStored DEF EndsInv
    <3>2. stream' = stream /\ reconciled' = reconciled
      BY <2>8 DEF Work, Activate, Begin, EmitUser, SaveRunning, EmitOutput, EmitVerdict,
                  SaveVerdict, Free, DropList
    <3> QED
      BY <2>4, <3>1, <3>2
  <2> QED
    BY <2>1, <2>2, <2>3, <2>5, <2>6, <2>7, <2>8 DEF EventsNext
<1> QED
  BY <1>1, <1>2 DEF EndsInv

\* What EndsWhenSettled says of one step.
EndStep ==
  \A f \in Followers : stream'[f].ending /\ ~stream[f].ending =>
    \/ Settled
    \/ Judging
    \/ \E t \in Turns : At(t, "claimed")

\* A connected page is told the end only as no run is in the slot: then a record in
\* progress is that of a turn which is being claimed or judged.
LEMMA EndsSettled == EndsInv /\ [EventsNext]_vars => EndStep
<1> SUFFICES ASSUME EndsInv, [EventsNext]_vars, NEW f \in Followers,
                    stream'[f].ending, ~stream[f].ending
             PROVE  \/ Settled
                    \/ Judging
                    \/ \E t \in Turns : At(t, "claimed")
  BY DEF EndStep
<1>1. stream[f].pc = "waiting" /\ active = NoTurn
  <2>1. CASE \E g \in Followers : Follow(g)
    BY <2>1, FollowStep DEF EndsInv
  <2>2. CASE stream' = stream
    BY <2>2
  <2>3. CASE Restart
    BY <2>3 DEF Restart, Off
  <2> QED
    BY <2>1, <2>2, <2>3
       DEF EventsNext, Work, Launch, MessageRead, MessageClaim, Activate, Begin, EmitUser,
           SaveRunning, EmitOutput, EmitVerdict, SaveVerdict, Free, DropList, Reconcile, vars
<1>2. reconciled /\ stored # NoRecord
  BY <1>1 DEF EndsInv, StreamInv, Connected
<1>3. CASE ~stored.final
  <2>1. PICK t \in Turns : turn[t].pc \in Busy \ {"saved"}
    BY <1>2, <1>3 DEF EndsInv, ProgressInv
  <2>2. active # t
    BY <1>1, EventsAssumption
  <2>3. turn[t].pc \in {"claimed", "judging", "decided"}
    BY <2>1, <2>2 DEF EndsInv, EventsInv, BusyInv, Busy, Emitting, InSlot
  <2> QED
    BY <2>2, <2>3 DEF Judging, At
<1> QED
  BY <1>2, <1>3 DEF Settled

\* The server tells a page the end of a run only when the verdict of the run is
\* stored, or while a turn is being claimed or judged.
THEOREM EndsWhenSettledHolds == EventsSpec => EndsWhenSettled
<1>1. EndsInv /\ [EventsNext]_vars => [EndStep]_vars
  BY EndsSettled
<1>2. EventsSpec => []EndsInv
  BY EndsInitInv, EndsStep, PTL DEF EventsSpec
<1> QED
  BY <1>1, <1>2, PTL DEF EventsSpec, EndsWhenSettled, EndStep

-----------------------------------------------------------------------------
(* What `After' keeps of a list.                                           *)

LEMMA LeastNatural ==
  ASSUME NEW S \in SUBSET Nat, S # {}
  PROVE  \E m \in S : \A n \in S : m <= n
<1>1. PICK m \in S : \A n \in S : ~(<<n, m>> \in OpToRel(<, Nat))
  BY NatLessThanWellFounded, WFMin
<1>2. \A n \in S : ~(n < m)
  BY <1>1 DEF OpToRel
<1> QED
  BY <1>2

KeptStep(events, m, before, n) ==
  IF events[n].seq > m THEN Append(before, events[n]) ELSE before

\* the first n
Filters(events, m, F, n) ==
  /\ F \in [0..n -> Seq(Event)]
  /\ F[0] = << >>
  /\ \A i \in 1..n : F[i] = KeptStep(events, m, F[i - 1], i)

LEMMA FilterExists ==
  ASSUME NEW events \in Seq(Event), NEW m \in Nat
  PROVE  \A n \in 0..Len(events) : \E F : Filters(events, m, F, n)
<1> DEFINE Bad == {n \in 0..Len(events) : ~ \E F : Filters(events, m, F, n)}
<1> SUFFICES ASSUME Bad # {} PROVE FALSE
  OBVIOUS
<1>1. PICK n \in Bad : \A k \in Bad : n <= k
  <2>1. Bad \subseteq Nat
    OBVIOUS
  <2> HIDE DEF Bad
  <2> QED
    BY <2>1, LeastNatural
<1>2. n \in 0..Len(events) /\ ~ \E F : Filters(events, m, F, n)
  OBVIOUS
<1>3. CASE n = 0
  <2>1. Filters(events, m, [i \in 0..0 |-> << >>], 0)
    BY DEF Filters
  <2> QED
    BY <1>2, <1>3, <2>1
<1>4. CASE n # 0
  <2>1. n - 1 \in 0..Len(events) /\ n - 1 \notin Bad
    BY <1>1, <1>2, <1>4
  <2>2. PICK F : Filters(events, m, F, n - 1)
    BY <2>1
  <2> DEFINE G == [i \in 0..n |-> IF i = n THEN KeptStep(events, m, F[n - 1], n) ELSE F[i]]
  <2>3. KeptStep(events, m, F[n - 1], n) \in Seq(Event)
    BY <1>2, <1>4, <2>2 DEF Filters, KeptStep
  <2>4. Filters(events, m, G, n)
    <3>1. n \in Nat /\ n - 1 \in Nat
      BY <1>2, <1>4
    <3>2. \A i \in 0..n : i # n => i \in 0..(n - 1) /\ G[i] = F[i]
      BY <3>1
    <3>3. G \in [0..n -> Seq(Event)]
      BY <2>2, <2>3, <3>1, <3>2 DEF Filters
    <3>4. G[0] = << >>
      BY <2>2, <3>1, <3>2, <1>4 DEF Filters
    <3>5. ASSUME NEW i \in 1..n PROVE G[i] = KeptStep(events, m, G[i - 1], i)
      <4>1. i - 1 \in 0..n /\ i - 1 # n /\ i \in 0..n
        BY <3>1
      <4>2. G[i - 1] = F[i - 1]
        BY <3>2, <4>1
      <4>3. CASE i = n
        BY <4>1, <4>2, <4>3
      <4>4. CASE i # n
        BY <2>2, <3>1, <3>2, <4>1, <4>2, <4>4 DEF Filters
      <4> QED
        BY <4>3, <4>4
    <3> HIDE DEF G
    <3> QED
      BY <3>3, <3>4, <3>5 DEF Filters
  <2> QED
    BY <1>2, <2>4
<1> QED
  BY <1>3, <1>4

LEMMA AfterFilters ==
  ASSUME NEW events \in Seq(Event), NEW m \in Nat
  PROVE  \E F : Filters(events, m, F, Len(events)) /\ After(events, m) = F[Len(events)]
<1> DEFINE Body(F) == [n \in 0 .. Len(events) |->
        IF n = 0 THEN << >>
        ELSE IF events[n].seq > m THEN Append(F[n - 1], events[n]) ELSE F[n - 1]]
    K == CHOOSE F : F = Body(F)
<1>1. PICK F : Filters(events, m, F, Len(events))
  BY FilterExists
<1>2. F = Body(F)
  <2>1. \A n \in 0..Len(events) : F[n] = Body(F)[n]
    <3> SUFFICES ASSUME NEW n \in 0..Len(events) PROVE F[n] = Body(F)[n]
      OBVIOUS
    <3>1. CASE n = 0
      BY <1>1, <3>1 DEF Filters
    <3>2. CASE n # 0
      <4>1. n \in 1..Len(events)
        BY <3>2
      <4> QED
        BY <1>1, <3>2, <4>1 DEF Filters, KeptStep
    <3> QED
      BY <3>1, <3>2
  <2>2. F = [n \in 0..Len(events) |-> F[n]]
    BY <1>1 DEF Filters
  <2>3. Body(F) = [n \in 0..Len(events) |-> Body(F)[n]]
    OBVIOUS
  <2> HIDE DEF Body
  <2> QED
    BY <2>1, <2>2, <2>3
<1>3. K = Body(K)
  BY <1>2
<1>4. After(events, m) = K[Len(events)]
  BY DEF After
<1> HIDE DEF K
<1>5. \A n \in 0..Len(events) : K[n] = F[n]
  <2> DEFINE Bad == {n \in 0..Len(events) : K[n] # F[n]}
  <2> SUFFICES ASSUME Bad # {} PROVE FALSE
    OBVIOUS
  <2>1. PICK n \in Bad : \A k \in Bad : n <= k
    <3>1. Bad \subseteq Nat
      OBVIOUS
    <3> HIDE DEF Bad
    <3> QED
      BY <3>1, LeastNatural
  <2>2. n \in 0..Len(events) /\ K[n] # F[n]
    BY <2>1
  <2>3. \A k \in 0..Len(events) : k < n => K[k] = F[k]
    BY <2>1
  <2>4. K[n] = Body(K)[n] /\ F[n] = Body(F)[n]
    BY <1>2, <1>3
  <2>5. n # 0
    BY <2>2, <2>4
  <2>6. K[n - 1] = F[n - 1]
    BY <2>2, <2>3, <2>5
  <2> QED
    BY <2>2, <2>4, <2>5, <2>6
<1> QED
  BY <1>1, <1>4, <1>5

\* What is kept of the first n events of a list that grows.
Keeps(events, m, kept, n) ==
  /\ kept \in Seq(Event)
  /\ Growing(kept)
  /\ \A j \in DOMAIN kept : \E i \in 1..n : kept[j] = events[i] /\ events[i].seq > m
  /\ \A i \in 1..n : events[i].seq > m => \E j \in DOMAIN kept : kept[j] = events[i]

\* One more event is above all that is kept.
LEMMA KeepsOneMore ==
  ASSUME NEW events \in Seq(Event), Growing(events), NEW m \in Nat, NEW n \in 1..Len(events),
         NEW kept, Keeps(events, m, kept, n - 1)
  PROVE  Keeps(events, m, KeptStep(events, m, kept, n), n)
<1>0. \A i \in 1..Len(events) : events[i] \in Event /\ events[i].seq \in Nat
  <2>1. \A i \in 1..Len(events) : events[i] \in Event
    OBVIOUS
  <2> QED
    BY <2>1 DEF Event
<1>1. \A i \in 1..n : i \in 1..(n - 1) \/ i = n
  OBVIOUS
<1>2. \A i \in 1..(n - 1) : i \in 1..Len(events) /\ i \in 1..n /\ i < n
  OBVIOUS
<1>3. CASE ~(events[n].seq > m)
  <2>1. KeptStep(events, m, kept, n) = kept
    BY <1>3 DEF KeptStep
  <2> QED
    BY <1>1, <1>2, <1>3, <2>1 DEF Keeps
<1>4. CASE events[n].seq > m
  <2> DEFINE more == Append(kept, events[n])
  <2>1. KeptStep(events, m, kept, n) = more
    BY <1>4 DEF KeptStep
  <2>2. /\ more \in Seq(Event)
        /\ DOMAIN more = DOMAIN kept \cup {Len(kept) + 1}
        /\ more[Len(kept) + 1] = events[n]
        /\ \A j \in DOMAIN kept : more[j] = kept[j] /\ j \in Nat /\ j < Len(kept) + 1
        /\ Len(kept) \in Nat
    BY <1>0 DEF Keeps
  <2> HIDE DEF more
  <2>3. ASSUME NEW j \in DOMAIN kept PROVE kept[j].seq < events[n].seq
    <3>1. PICK i \in 1..(n - 1) : kept[j] = events[i]
      BY DEF Keeps
    <3> QED
      BY <1>2, <3>1 DEF Growing
  <2>4. Growing(more)
    <3> SUFFICES ASSUME NEW i \in DOMAIN more, NEW j \in DOMAIN more, i < j
                 PROVE  more[i].seq < more[j].seq
      BY DEF Growing
    <3>1. i \in DOMAIN kept
      BY <2>2
    <3>2. CASE j \in DOMAIN kept
      BY <2>2, <3>1, <3>2 DEF Keeps, Growing
    <3>3. CASE j = Len(kept) + 1
      BY <2>2, <2>3, <3>1, <3>3
    <3> QED
      BY <2>2, <3>2, <3>3
  <2>5. \A j \in DOMAIN more : \E i \in 1..n : more[j] = events[i] /\ events[i].seq > m
    BY <1>2, <1>4, <2>2 DEF Keeps
  <2>6. \A i \in 1..n : events[i].seq > m => \E j \in DOMAIN more : more[j] = events[i]
    BY <1>1, <2>2 DEF Keeps
  <2> QED
    BY <2>1, <2>2, <2>4, <2>5, <2>6 DEF Keeps
<1> QED
  BY <1>3, <1>4

\* `after' keeps, in order, exactly the events that are numbered above m.
LEMMA AfterKeeps ==
  ASSUME NEW events \in Seq(Event), Growing(events), NEW m \in Nat
  PROVE  Keeps(events, m, After(events, m), Len(events))
<1>1. PICK F : Filters(events, m, F, Len(events)) /\ After(events, m) = F[Len(events)]
  BY AfterFilters
<1> DEFINE Bad == {n \in 0..Len(events) : ~Keeps(events, m, F[n], n)}
<1> SUFFICES ASSUME Bad # {} PROVE FALSE
  BY <1>1
<1>2. PICK n \in Bad : \A k \in Bad : n <= k
  <2>1. Bad \subseteq Nat
    OBVIOUS
  <2> HIDE DEF Bad
  <2> QED
    BY <2>1, LeastNatural
<1>3. n \in 0..Len(events) /\ ~Keeps(events, m, F[n], n)
  OBVIOUS
<1>4. n # 0
  <2>1. Keeps(events, m, << >>, 0)
    BY DEF Keeps, Growing
  <2> QED
    BY <1>1, <1>3, <2>1 DEF Filters
<1>5. n \in 1..Len(events) /\ n - 1 \in 0..Len(events) /\ n - 1 \notin Bad
  BY <1>2, <1>3, <1>4
<1>6. Keeps(events, m, F[n - 1], n - 1)
  BY <1>5
<1>7. F[n] = KeptStep(events, m, F[n - 1], n)
  BY <1>1, <1>5 DEF Filters
<1> QED
  BY <1>3, <1>5, <1>6, <1>7, KeepsOneMore

\* The same, said of the two lists as a page sees them.
LEMMA AfterIs ==
  ASSUME NEW events \in Seq(Event), Growing(events), NEW m \in Nat
  PROVE  /\ After(events, m) \in Seq(Event)
         /\ Growing(After(events, m))
         /\ \A i \in DOMAIN After(events, m) : After(events, m)[i].seq > m
         /\ ToSet(After(events, m)) = {e \in ToSet(events) : e.seq > m}
<1> DEFINE kept == After(events, m)
<1>1. Keeps(events, m, kept, Len(events))
  BY AfterKeeps
<1> HIDE DEF kept
<1>2. \A i \in DOMAIN kept : kept[i].seq > m
  BY <1>1 DEF Keeps
<1>3. DOMAIN events = 1..Len(events)
  OBVIOUS
<1>4. ToSet(kept) = {e \in ToSet(events) : e.seq > m}
  <2>1. ASSUME NEW e \in ToSet(kept) PROVE e \in ToSet(events) /\ e.seq > m
    <3>1. PICK j \in DOMAIN kept : e = kept[j]
      BY DEF ToSet
    <3>2. PICK i \in 1..Len(events) : kept[j] = events[i] /\ events[i].seq > m
      BY <1>1 DEF Keeps
    <3> QED
      BY <1>3, <3>1, <3>2 DEF ToSet
  <2>2. ASSUME NEW e \in ToSet(events), e.seq > m PROVE e \in ToSet(kept)
    <3>1. PICK i \in 1..Len(events) : e = events[i]
      BY <1>3 DEF ToSet
    <3>2. PICK j \in DOMAIN kept : kept[j] = events[i]
      BY <1>1, <2>2, <3>1 DEF Keeps
    <3> QED
      BY <3>1, <3>2 DEF ToSet
  <2> QED
    BY <2>1, <2>2
<1> QED
  BY <1>1, <1>2, <1>4 DEF Keeps, kept

-----------------------------------------------------------------------------
(* What a page gets is in order.                                           *)

\* The events of the turn in progress grow as the log does, and nothing is in
\* progress before the server has reconciled.
LiveInv ==
  /\ live \in Seq(Event)
  /\ Growing(live)
  /\ \A t \in Turns : turn[t].pc \in Emitting =>
       \A i \in DOMAIN live : live[i].seq <= turn[t].seq
  /\ ~reconciled => live = << >>

\* A page has events in order; while it is connected, those are numbered up to what
\* was sent last, and what it still gets is numbered above.
PageInOrder(s) ==
  /\ s \in Stream
  /\ Growing(s.got)
  /\ Growing(s.batch)
  /\ s.pc \in Connected =>
       /\ \A i \in DOMAIN s.got : s.got[i].seq <= s.after
       /\ \A i \in DOMAIN s.batch : s.batch[i].seq > s.after

PagesInv ==
  /\ stream = [f \in Followers |-> stream[f]]
  /\ \A f \in Followers : PageInOrder(stream[f])

OrderInv == EventsInv /\ LiveInv /\ PagesInv

LEMMA NumbersAreNatural ==
  ASSUME NEW events \in Seq(Event)
  PROVE  \A i \in DOMAIN events : events[i] \in Event /\ events[i].seq \in Nat
<1>1. \A i \in DOMAIN events : events[i] \in Event
  OBVIOUS
<1> QED
  BY <1>1 DEF Event

LEMMA NothingGrows == << >> \in Seq(Event) /\ Growing(<< >>)
  BY DEF Growing

\* An event above all others may follow them.
LEMMA AppendGrows ==
  ASSUME NEW events \in Seq(Event), Growing(events), NEW event \in Event,
         \A i \in DOMAIN events : events[i].seq < event.seq
  PROVE  /\ Append(events, event) \in Seq(Event)
         /\ Growing(Append(events, event))
         /\ \A i \in DOMAIN Append(events, event) :
              Append(events, event)[i].seq <= event.seq
         /\ ToSet(Append(events, event)) = ToSet(events) \cup {event}
<1> DEFINE more == Append(events, event)
<1>1. /\ more \in Seq(Event)
      /\ DOMAIN more = DOMAIN events \cup {Len(events) + 1}
      /\ more[Len(events) + 1] = event
      /\ \A i \in DOMAIN events : more[i] = events[i] /\ i \in Nat /\ i < Len(events) + 1
      /\ Len(events) \in Nat
  OBVIOUS
<1>2. event.seq \in Nat /\ \A i \in DOMAIN events : events[i].seq \in Nat
  BY NumbersAreNatural DEF Event
<1> HIDE DEF more
<1>3. Growing(more)
  <2> SUFFICES ASSUME NEW i \in DOMAIN more, NEW j \in DOMAIN more, i < j
               PROVE  more[i].seq < more[j].seq
    BY DEF Growing
  <2>1. i \in DOMAIN events
    BY <1>1
  <2>2. CASE j \in DOMAIN events
    BY <1>1, <2>1, <2>2 DEF Growing
  <2>3. CASE j = Len(events) + 1
    BY <1>1, <2>1, <2>3
  <2> QED
    BY <1>1, <2>2, <2>3
<1>4. \A i \in DOMAIN more : more[i].seq <= event.seq
  BY <1>1, <1>2
<1>5. ToSet(more) = ToSet(events) \cup {event}
  BY <1>1 DEF ToSet
<1> QED
  BY <1>1, <1>3, <1>4, <1>5 DEF more

\* What comes after the first event of a batch is above it.
LEMMA TailGrows ==
  ASSUME NEW events \in Seq(Event), Growing(events), events # << >>
  PROVE  /\ Head(events) \in Event
         /\ Tail(events) \in Seq(Event)
         /\ Growing(Tail(events))
         /\ \A i \in DOMAIN Tail(events) : Tail(events)[i].seq > Head(events).seq
         /\ ToSet(events) = {Head(events)} \cup ToSet(Tail(events))
<1>1. /\ Tail(events) \in Seq(Event)
      /\ Head(events) = events[1]
      /\ 1 \in DOMAIN events
      /\ \A i \in DOMAIN Tail(events) : i + 1 \in DOMAIN events /\ Tail(events)[i] = events[i + 1]
                                        /\ i \in Nat /\ i > 0
      /\ \A i \in DOMAIN events : i = 1 \/ (i - 1 \in DOMAIN Tail(events) /\ i = (i - 1) + 1)
  OBVIOUS
<1>2. \A i \in DOMAIN events : events[i].seq \in Nat
  BY NumbersAreNatural
<1> DEFINE rest == Tail(events)
<1> HIDE DEF rest
<1>3. Growing(Tail(events))
  BY <1>1 DEF Growing
<1>4. \A i \in DOMAIN Tail(events) : Tail(events)[i].seq > Head(events).seq
  BY <1>1, <1>2 DEF Growing
<1>5. ToSet(events) = {Head(events)} \cup ToSet(Tail(events))
  <2>1. \A i \in DOMAIN events : i # 1 => events[i] = Tail(events)[i - 1] /\ i - 1 \in DOMAIN Tail(events)
    BY <1>1
  <2> QED
    BY <1>1, <2>1 DEF ToSet
<1> QED
  BY <1>1, <1>3, <1>4, <1>5

\* The steps of a turn that emit, and those that leave both lists alone.
Emits(t) ==
  \/ EmitUser(t)
  \/ \E kind \in {"delta", "text"} : EmitOutput(t, kind)
  \/ EmitVerdict(t)

Moves(t) ==
  \/ Launch(t) \/ MessageRead(t) \/ MessageClaim(t)
  \/ Activate(t) \/ SaveRunning(t) \/ SaveVerdict(t) \/ Free(t)

LEMMA StepKinds ==
  ASSUME [EventsNext]_vars
  PROVE  \/ \E t \in Turns : Emits(t) \/ Moves(t) \/ Begin(t) \/ DropList(t)
         \/ Reconcile \/ Restart
         \/ \E f \in Followers : Follow(f)
         \/ UNCHANGED vars
BY DEF EventsNext, Work, Emits, Moves

\* What a step that emits does.
LEMMA EmitsOne ==
  ASSUME EventsInv, NEW t \in Turns, Emits(t)
  PROVE  \E kind \in {"user", "delta", "text", "verdict"}, pc \in {"started", "running", "decided"} :
           /\ Emit(t, kind, pc)
           /\ turn[t].pc \in {"begun", "running", "judging"}
           /\ [seq |-> turn[t].seq + 1, turn |-> t, kind |-> kind] \in Event
           /\ UNCHANGED <<active, stored, stream, boots, reconciled>>
<1>1. turn[t].seq \in Nat
  BY DEF EventsInv, TurnsInv
<1>2. \A kind \in {"user", "delta", "text", "verdict"} :
        [seq |-> turn[t].seq + 1, turn |-> t, kind |-> kind] \in Event
  BY <1>1 DEF Event
<1> QED
  BY <1>2 DEF Emits, EmitUser, EmitOutput, EmitVerdict, At

\* What a step that leaves the lists alone does: a turn that emits afterwards emitted
\* before.
LEMMA MovesOne ==
  ASSUME EventsInv, NEW t \in Turns, Moves(t)
  PROVE  /\ UNCHANGED <<log, live, stream, boots, reconciled>>
         /\ \A u \in Turns : u # t => turn'[u] = turn[u]
         /\ turn'[t].pc \in Emitting => turn[t].pc \in Emitting /\ turn'[t].seq = turn[t].seq
<1>1. UNCHANGED <<log, live, stream, boots, reconciled>>
  BY DEF Moves, Launch, MessageRead, MessageClaim, Activate, SaveRunning, SaveVerdict, Free
<1>2. CASE MessageRead(t)
  BY <1>1, <1>2 DEF MessageRead, EventsInv, TurnsInv, Emitting
<1>3. CASE ~MessageRead(t)
  <2>1. PICK pc \in {"claimed", "activated", "running", "saved", "freed"} :
          Goto(t, pc) /\ (pc = "running" => turn[t].pc = "started")
    BY <1>3 DEF Moves, Launch, MessageClaim, Activate, SaveRunning, SaveVerdict, Free, At
  <2> QED
    BY <1>1, <2>1 DEF Goto, EventsInv, TurnsInv, Emitting
<1> QED
  BY <1>2, <1>3

LEMMA LiveStep == EventsInv /\ LiveInv /\ [EventsNext]_vars => LiveInv'
<1> SUFFICES ASSUME EventsInv, LiveInv, [EventsNext]_vars PROVE LiveInv'
  OBVIOUS
<1>0. \A t \in Turns : turn[t].seq \in Nat
  BY DEF EventsInv, TurnsInv
<1>1. ASSUME NEW t \in Turns, Emits(t) PROVE LiveInv'
  <2>1. PICK kind \in {"user", "delta", "text", "verdict"}, pc \in {"started", "running", "decided"} :
           /\ Emit(t, kind, pc)
           /\ turn[t].pc \in {"begun", "running", "judging"}
           /\ [seq |-> turn[t].seq + 1, turn |-> t, kind |-> kind] \in Event
           /\ UNCHANGED <<active, stored, stream, boots, reconciled>>
    BY <1>1, EmitsOne
  <2> DEFINE event == [seq |-> turn[t].seq + 1, turn |-> t, kind |-> kind]
  <2>2. /\ live' = Append(live, event)
        /\ turn' = [turn EXCEPT ![t] = [pc |-> pc, seq |-> event.seq]]
    BY <2>1 DEF Emit
  <2>3. event \in Event /\ event.seq = turn[t].seq + 1
    BY <2>1
  <2>4. turn'[t].seq = event.seq /\ \A u \in Turns : u # t => turn'[u] = turn[u]
    BY <2>2 DEF EventsInv, TurnsInv
  <2> HIDE DEF event
  <2>5. \A i \in DOMAIN live : live[i].seq < event.seq
    <3>1. \A i \in DOMAIN live : live[i].seq <= turn[t].seq
      BY <2>1 DEF LiveInv, Emitting
    <3>2. \A i \in DOMAIN live : live[i].seq \in Nat
      BY NumbersAreNatural DEF LiveInv
    <3> QED
      BY <1>0, <2>3, <3>1, <3>2
  <2>6. /\ Append(live, event) \in Seq(Event)
        /\ Growing(Append(live, event))
        /\ \A i \in DOMAIN Append(live, event) : Append(live, event)[i].seq <= event.seq
    BY <2>3, <2>5, AppendGrows DEF LiveInv
  <2>7. ASSUME NEW u \in Turns, turn'[u].pc \in Emitting PROVE u = t
    <3>1. CASE u # t
      BY <2>1, <2>4, <2>7, <3>1 DEF EventsInv, BusyInv, Busy, Emitting
    <3> QED
      BY <3>1
  <2>8. reconciled'
    BY <2>1 DEF EventsInv, BusyInv, Busy, Emitting
  <2>9. ASSUME NEW u \in Turns, turn'[u].pc \in Emitting, NEW i \in DOMAIN live'
        PROVE  live'[i].seq <= turn'[u].seq
    BY <2>2, <2>4, <2>6, <2>7, <2>9
  <2> QED
    BY <2>2, <2>6, <2>8, <2>9 DEF LiveInv
<1>2. ASSUME NEW t \in Turns, Moves(t) PROVE LiveInv'
  <2>1. /\ UNCHANGED <<log, live, stream, boots, reconciled>>
        /\ \A u \in Turns : u # t => turn'[u] = turn[u]
        /\ turn'[t].pc \in Emitting => turn[t].pc \in Emitting /\ turn'[t].seq = turn[t].seq
    BY <1>2, MovesOne
  <2>2. ASSUME NEW u \in Turns, turn'[u].pc \in Emitting
        PROVE  turn[u].pc \in Emitting /\ turn'[u].seq = turn[u].seq
    BY <2>1, <2>2
  <2> QED
    BY <2>1, <2>2 DEF LiveInv, Growing
<1>3. ASSUME live' = << >> PROVE LiveInv'
  BY <1>3, NothingGrows DEF LiveInv
<1>4. ASSUME NEW t \in Turns, Begin(t) \/ DropList(t) PROVE LiveInv'
  BY <1>3, <1>4 DEF Begin, DropList
<1>5. CASE Reconcile
  BY <1>3, <1>5 DEF Reconcile, LiveInv
<1>6. CASE Restart
  BY <1>3, <1>6 DEF Restart
<1>7. ASSUME UNCHANGED <<turn, live, reconciled>> PROVE LiveInv'
  BY <1>7 DEF LiveInv, Growing
<1>8. ASSUME NEW f \in Followers, Follow(f) PROVE LiveInv'
  BY <1>7, <1>8 DEF Follow, Connect, Replay, Send, Sent, Wait, Lose
<1>9. CASE UNCHANGED vars
  BY <1>7, <1>9 DEF vars
<1> QED
  BY StepKinds, <1>1, <1>2, <1>4, <1>5, <1>6, <1>8, <1>9

LEMMA OffInOrder ==
  ASSUME NEW got \in Seq(Event), Growing(got)
  PROVE  PageInOrder(Off(got))
BY NothingGrows DEF PageInOrder, Stream, Off, Connected

\* The last event of a page is the highest it has.
LEMMA LastIsHighest ==
  ASSUME NEW events \in Seq(Event), Growing(events), events # << >>
  PROVE  /\ Last(events) \in ToSet(events)
         /\ Last(events).seq \in Nat
         /\ \A i \in DOMAIN events : events[i].seq <= Last(events).seq
<1>1. /\ Len(events) \in DOMAIN events
      /\ \A i \in DOMAIN events : i \in Nat /\ (i < Len(events) \/ i = Len(events))
  OBVIOUS
<1>2. \A i \in DOMAIN events : events[i].seq \in Nat
  BY NumbersAreNatural
<1> QED
  BY <1>1, <1>2 DEF Growing, Last, ToSet

\* What is sent next is what is above all that was sent, from the log or the list.
LEMMA BatchInOrder ==
  ASSUME NEW s \in Stream, PageInOrder(s), s.pc \in Connected,
         NEW events \in Seq(Event), Growing(events), NEW ending \in BOOLEAN
  PROVE  PageInOrder([s EXCEPT !.pc = "sending", !.ending = ending,
                               !.batch = After(events, s.after)])
<1> DEFINE b == After(events, s.after)
           r == [s EXCEPT !.pc = "sending", !.ending = ending, !.batch = b]
<1>1. s.after \in Nat
  BY DEF Stream
<1>2. b \in Seq(Event) /\ Growing(b) /\ \A i \in DOMAIN b : b[i].seq > s.after
  BY <1>1, AfterIs
<1> HIDE DEF b
<1>3. r \in Stream
  BY <1>2 DEF Stream
<1>4. r.got = s.got /\ r.after = s.after /\ r.batch = b /\ r.pc = "sending"
  BY DEF Stream
<1> HIDE DEF r
<1>5. PageInOrder(r)
  BY <1>2, <1>3, <1>4 DEF PageInOrder, Connected
<1> QED
  BY <1>5 DEF r, b

LEMMA SentInOrder ==
  ASSUME NEW s \in Stream, PageInOrder(s), s.pc = "sending", s.batch # << >>
  PROVE  PageInOrder([s EXCEPT !.batch = Tail(s.batch), !.after = Head(s.batch).seq,
                               !.got = Append(s.got, Head(s.batch))])
<1> DEFINE e == Head(s.batch)
           r == [s EXCEPT !.batch = Tail(s.batch), !.after = e.seq, !.got = Append(s.got, e)]
<1>1. s.got \in Seq(Event) /\ s.batch \in Seq(Event) /\ s.after \in Nat
  BY DEF Stream
<1>2. /\ e \in Event /\ Tail(s.batch) \in Seq(Event) /\ Growing(Tail(s.batch))
      /\ \A i \in DOMAIN Tail(s.batch) : Tail(s.batch)[i].seq > e.seq
  BY <1>1, TailGrows DEF PageInOrder
<1>3. e.seq \in Nat /\ e.seq > s.after
  <2>1. e = s.batch[1] /\ 1 \in DOMAIN s.batch
    BY <1>1
  <2>2. \A i \in DOMAIN s.batch : s.batch[i].seq > s.after
    BY DEF PageInOrder, Connected
  <2> QED
    BY <1>2, <2>1, <2>2 DEF Event
<1> HIDE DEF e
<1>4. \A i \in DOMAIN s.got : s.got[i].seq < e.seq
  <2>1. \A i \in DOMAIN s.got : s.got[i].seq \in Nat
    BY <1>1, NumbersAreNatural
  <2> QED
    BY <1>1, <1>3, <2>1 DEF PageInOrder, Connected
<1>5. /\ Append(s.got, e) \in Seq(Event)
      /\ Growing(Append(s.got, e))
      /\ \A i \in DOMAIN Append(s.got, e) : Append(s.got, e)[i].seq <= e.seq
  BY <1>1, <1>2, <1>4, AppendGrows DEF PageInOrder
<1>6. r \in Stream
  BY <1>2, <1>3, <1>5 DEF Stream
<1>7. r.got = Append(s.got, e) /\ r.after = e.seq /\ r.batch = Tail(s.batch) /\ r.pc = s.pc
  BY DEF Stream
<1> HIDE DEF r
<1>8. PageInOrder(r)
  BY <1>2, <1>5, <1>6, <1>7 DEF PageInOrder
<1> QED
  BY <1>8 DEF r, e

\* What a page's step does to its connection.
LEMMA FollowInOrder ==
  ASSUME OrderInv, NEW f \in Followers, Follow(f)
  PROVE  PageInOrder(stream'[f])
<1> DEFINE s == stream[f]
<1>1. s \in Stream /\ PageInOrder(s)
  BY DEF OrderInv, PagesInv, PageInOrder
<1>2. /\ s.got \in Seq(Event) /\ s.batch \in Seq(Event) /\ s.after \in Nat
      /\ s.pc \in {"off", "replaying", "sending", "waiting", "ended"} /\ s.ending \in BOOLEAN
  BY <1>1 DEF Stream
<1>3. /\ log \in Seq(Event) /\ Growing(log) /\ live \in Seq(Event) /\ Growing(live)
  BY DEF OrderInv, EventsInv, LogInv, LiveInv
<1>4. f \in DOMAIN stream
  BY DEF OrderInv, PagesInv
<1>5. CASE Connect(f)
  <2> DEFINE n == IF s.got = << >> THEN 0 ELSE Last(s.got).seq
             r == [Off(s.got) EXCEPT !.pc = "replaying", !.after = n]
  <2>1. stream'[f] = r
    BY <1>4, <1>5 DEF Connect
  <2>2. n \in Nat /\ \A i \in DOMAIN s.got : s.got[i].seq <= n
    BY <1>1, <1>2, LastIsHighest DEF PageInOrder
  <2> HIDE DEF n
  <2>3. r \in Stream /\ r.got = s.got /\ r.batch = << >> /\ r.after = n
    BY <1>2, <2>2, NothingGrows DEF Off, Stream
  <2> HIDE DEF r
  <2> QED
    BY <1>1, <2>1, <2>2, <2>3, NothingGrows DEF PageInOrder
<1>6. CASE Replay(f)
  <2>1. s.pc = "replaying"
    BY <1>6 DEF Replay
  <2>2. stream'[f] = [s EXCEPT !.pc = "sending", !.batch = After(log, s.after)]
    BY <1>4, <1>6 DEF Replay
  <2>3. stream'[f] = [s EXCEPT !.pc = "sending", !.ending = s.ending, !.batch = After(log, s.after)]
    BY <1>1, <2>2 DEF Stream
  <2> HIDE DEF s
  <2>4. PageInOrder([s EXCEPT !.pc = "sending", !.ending = s.ending,
                              !.batch = After(log, s.after)])
    BY <1>1, <1>2, <1>3, <2>1, BatchInOrder DEF Connected
  <2> QED
    BY <2>3, <2>4
<1>7. CASE Send(f)
  <2>1. s.pc = "sending" /\ s.batch # << >>
    BY <1>7 DEF Send
  <2>2. stream'[f] = [s EXCEPT !.batch = Tail(s.batch), !.after = Head(s.batch).seq,
                               !.got = Append(s.got, Head(s.batch))]
    <3>1. stream' = [stream EXCEPT ![f] =
                       [stream[f] EXCEPT !.batch = Tail(stream[f].batch),
                                         !.after = Head(stream[f].batch).seq,
                                         !.got = Append(stream[f].got, Head(stream[f].batch))]]
      BY <1>7 DEF Send
    <3> QED
      BY <1>4, <3>1
  <2> HIDE DEF s
  <2> QED
    BY <1>1, <2>1, <2>2, SentInOrder
<1>8. CASE Sent(f)
  <2> DEFINE to == IF s.ending THEN "ended" ELSE "waiting"
             r == [s EXCEPT !.pc = to]
  <2>1. s.pc = "sending" /\ stream'[f] = r
    BY <1>1, <1>4, <1>8 DEF Sent, Stream
  <2>2. r \in Stream /\ r.got = s.got /\ r.batch = s.batch /\ r.after = s.after
    BY <1>1 DEF Stream
  <2> HIDE DEF r, s
  <2> QED
    BY <1>1, <2>1, <2>2 DEF PageInOrder, Connected
<1>9. CASE Wait(f)
  <2>1. s.pc = "waiting"
    BY <1>9 DEF Wait
  <2>2. \E events \in {log, live}, ending \in BOOLEAN :
          stream'[f] = [s EXCEPT !.pc = "sending", !.ending = ending,
                                 !.batch = After(events, s.after)]
    <3>1. CASE active # NoTurn
      <4>1. stream'[f] = [s EXCEPT !.pc = "sending", !.batch = After(live, s.after)]
        BY <1>4, <1>9, <3>1 DEF Wait
      <4>2. stream'[f] = [s EXCEPT !.pc = "sending", !.ending = s.ending,
                                   !.batch = After(live, s.after)]
        BY <1>1, <4>1 DEF Stream
      <4> QED
        BY <1>2, <4>2
    <3>2. CASE active = NoTurn
      <4>1. stream'[f] = [s EXCEPT !.pc = "sending", !.ending = TRUE,
                                   !.batch = After(log, s.after)]
        BY <1>4, <1>9, <3>2 DEF Wait
      <4> QED
        BY <4>1
    <3> QED
      BY <3>1, <3>2
  <2> HIDE DEF s
  <2>3. \A events \in {log, live}, ending \in BOOLEAN :
          PageInOrder([s EXCEPT !.pc = "sending", !.ending = ending,
                                !.batch = After(events, s.after)])
    BY <1>1, <1>3, <2>1, BatchInOrder DEF Connected
  <2> QED
    BY <2>2, <2>3
<1>10. CASE Lose(f)
  <2>1. stream'[f] = Off(s.got)
    BY <1>4, <1>10 DEF Lose
  <2> HIDE DEF s
  <2> QED
    BY <1>1, <1>2, <2>1, OffInOrder DEF PageInOrder
<1> QED
  BY <1>5, <1>6, <1>7, <1>8, <1>9, <1>10 DEF Follow

\* A page's step concerns no other page.
LEMMA FollowOne ==
  ASSUME PagesInv, NEW f \in Followers, Follow(f)
  PROVE  /\ stream' = [g \in Followers |-> stream'[g]]
         /\ \A g \in Followers : g # f => stream'[g] = stream[g]
         /\ UNCHANGED <<active, stored, turn, log, live, boots, reconciled>>
BY DEF Follow, Connect, Replay, Send, Sent, Wait, Lose, PagesInv

LEMMA PagesStep == OrderInv /\ [EventsNext]_vars => PagesInv'
<1> SUFFICES ASSUME OrderInv, [EventsNext]_vars PROVE PagesInv'
  OBVIOUS
<1>1. ASSUME NEW f \in Followers, Follow(f) PROVE PagesInv'
  <2>1. PageInOrder(stream'[f])
    BY <1>1, FollowInOrder
  <2>2. /\ stream' = [g \in Followers |-> stream'[g]]
        /\ \A g \in Followers : g # f => stream'[g] = stream[g]
    BY <1>1, FollowOne DEF OrderInv
  <2>3. \A g \in Followers : PageInOrder(stream'[g])
    BY <2>1, <2>2 DEF OrderInv, PagesInv
  <2> QED
    BY <2>2, <2>3 DEF PagesInv
<1>2. CASE Restart
  <2>1. stream' = [f \in Followers |-> IF stream[f].pc = "ended"
                                       THEN stream[f] ELSE Off(stream[f].got)]
    BY <1>2 DEF Restart
  <2>2. \A f \in Followers : PageInOrder(stream'[f])
    <3> SUFFICES ASSUME NEW f \in Followers PROVE PageInOrder(stream'[f])
      OBVIOUS
    <3>1. PageInOrder(stream[f])
      BY DEF OrderInv, PagesInv
    <3>2. stream[f].got \in Seq(Event) /\ Growing(stream[f].got)
      BY <3>1 DEF PageInOrder, Stream
    <3> QED
      BY <2>1, <3>1, <3>2, OffInOrder
  <2>3. stream' = [f \in Followers |-> stream'[f]]
    BY <2>1
  <2> QED
    BY <2>2, <2>3 DEF PagesInv
<1>3. ASSUME stream' = stream PROVE PagesInv'
  BY <1>3 DEF OrderInv, PagesInv
<1>4. ASSUME NEW t \in Turns, Emits(t) PROVE stream' = stream
  BY <1>4, EmitsOne DEF OrderInv
<1>5. ASSUME NEW t \in Turns, Moves(t) PROVE stream' = stream
  BY <1>5, MovesOne DEF OrderInv
<1>6. ASSUME NEW t \in Turns, Begin(t) \/ DropList(t) PROVE stream' = stream
  BY <1>6 DEF Begin, DropList
<1>7. Reconcile \/ UNCHANGED vars => stream' = stream
  BY DEF Reconcile, vars
<1> QED
  BY StepKinds, <1>1, <1>2, <1>3, <1>4, <1>5, <1>6, <1>7

LEMMA OrderInitInv == EventsInit => OrderInv
<1> SUFFICES ASSUME EventsInit PROVE OrderInv
  OBVIOUS
<1>1. EventsInv
  BY EventsInitInv
<1>2. LiveInv
  BY NothingGrows DEF EventsInit, LiveInv
<1>3. PagesInv
  <2>1. \A f \in Followers : stream[f] = Off(<< >>)
    BY DEF EventsInit
  <2>2. PageInOrder(Off(<< >>))
    BY NothingGrows, OffInOrder
  <2>3. stream = [f \in Followers |-> stream[f]]
    BY DEF EventsInit
  <2> QED
    BY <2>1, <2>2, <2>3 DEF PagesInv
<1> QED
  BY <1>1, <1>2, <1>3 DEF OrderInv

LEMMA OrderStep == OrderInv /\ [EventsNext]_vars => OrderInv'
  BY EventsStep, LiveStep, PagesStep DEF OrderInv

\* A page gets every event at most once and in order, as the page's reducer and its
\* reconnection by number rely on: across the switch from the log to the live list,
\* lost connections and restarts, and whether or not a follow-up overtakes `finish'.
THEOREM FollowerInOrderHolds == EventsSpec => []FollowerInOrder
<1>1. OrderInv => FollowerInOrder
  BY DEF OrderInv, PagesInv, PageInOrder, FollowerInOrder
<1> QED
  BY <1>1, OrderInitInv, OrderStep, PTL DEF EventsSpec

\* The slot and the number of servers.
PlacesInv == active \in Turns \cup {NoTurn} /\ boots \in 1 .. MaxBoots

LEMMA PlacesStep == EventsInv /\ PlacesInv /\ [EventsNext]_vars => PlacesInv'
<1> SUFFICES ASSUME EventsInv, PlacesInv, [EventsNext]_vars PROVE PlacesInv'
  OBVIOUS
<1>1. ASSUME NEW t \in Turns, Emits(t) PROVE PlacesInv'
  BY <1>1, EmitsOne DEF PlacesInv
<1>2. ASSUME NEW t \in Turns, Moves(t) PROVE PlacesInv'
  BY <1>2 DEF Moves, Launch, MessageRead, MessageClaim, Activate, SaveRunning, SaveVerdict, Free,
              PlacesInv
<1>3. ASSUME NEW t \in Turns, Begin(t) \/ DropList(t) PROVE PlacesInv'
  BY <1>3 DEF Begin, DropList, PlacesInv
<1>4. ASSUME Restart PROVE PlacesInv'
  BY <1>4, EventsAssumption DEF Restart, PlacesInv
<1>5. ASSUME NEW f \in Followers, Follow(f) PROVE PlacesInv'
  BY <1>5 DEF Follow, Connect, Replay, Send, Sent, Wait, Lose, PlacesInv
<1>6. ASSUME Reconcile \/ UNCHANGED vars PROVE PlacesInv'
  BY <1>6 DEF Reconcile, vars, PlacesInv
<1> QED
  BY StepKinds, <1>1, <1>2, <1>3, <1>4, <1>5, <1>6

\* Every reachable state has its type: lists hold events, connections are one of the
\* shapes that `events' in routes_runs.py goes through.
THEOREM EventsTypes == EventsSpec => []EventsTypeOK
<1>1. EventsInit => OrderInv /\ PlacesInv
  BY OrderInitInv, EventsAssumption DEF EventsInit, PlacesInv
<1>2. OrderInv /\ PlacesInv /\ [EventsNext]_vars => (OrderInv /\ PlacesInv)'
  BY OrderStep, PlacesStep DEF OrderInv
<1>3. OrderInv /\ PlacesInv => EventsTypeOK
  BY DEF OrderInv, EventsInv, TurnsInv, LogInv, LiveInv, PagesInv, PageInOrder, PlacesInv,
         EventsTypeOK
<1> QED
  BY <1>1, <1>2, <1>3, PTL DEF EventsSpec

-----------------------------------------------------------------------------
(* A page has each turn in full, if no follow-up overtakes `finish'.       *)

\* A turn that has emitted nothing yet.
Early == {"none", "read", "claimed", "activated"}

\* An event that its turn emitted: no event of the turn is numbered above its counter,
\* what is stored is in the log, and its number is that of no other event of its turn.
Made(e) ==
  /\ turn[e.turn].pc \notin Early
  /\ e.seq \in 1 .. turn[e.turn].seq
  /\ e.kind = "delta" \/ e \in ToSet(log)
  /\ \A l \in ToSet(log) : l.turn = e.turn /\ l.seq = e.seq => l = e

Received(f) == ToSet(stream[f].got) \cup ToSet(stream[f].batch)

MadeInv ==
  /\ \A e \in ToSet(log) \cup ToSet(live) : Made(e)
  /\ \A f \in Followers : \A e \in Received(f) : Made(e)

\* While the list of a turn is not dropped yet, no other turn is busy.
FreedInv ==
  \A t, u \in Turns : turn[t].pc = "freed" =>
    /\ turn[u].pc \in Busy \cup {"freed"} => t = u
    /\ reconciled /\ stored # NoRecord

\* Between two events of a turn there is none of another in the log, and after one of
\* the turn that emits there is none of another.
InTurns ==
  /\ \A e, g \in ToSet(log), d \in ToSet(log) \cup ToSet(live) :
       e.turn = d.turn /\ e.seq < g.seq /\ g.seq < d.seq => g.turn = e.turn
  /\ \A e, g \in ToSet(log) : turn[e.turn].pc \in Emitting /\ e.seq < g.seq => g.turn = e.turn

\* The list has all that is stored of the turn that emits, and of a turn that it has
\* an event of, all that is stored before it.
LiveHas ==
  /\ \A e \in ToSet(log) : turn[e.turn].pc \in Emitting => e \in ToSet(live)
  /\ \A e \in ToSet(log), d \in ToSet(live) :
       e.turn = d.turn /\ e.seq < d.seq => e \in ToSet(live)

\* Of the turns a page has events of, or is being sent events of, it misses nothing
\* that is before them in the log; it goes on from the last event it has.
HiddenFrom(got, e) ==
  \E d \in ToSet(got) : d.kind = "delta" /\ d.seq >= e.seq /\ d.turn # e.turn

GotFull(s, events) ==
  \A d \in ToSet(s.got), e \in events :
    e.turn = d.turn /\ e.seq < d.seq => e \in ToSet(s.got) \/ HiddenFrom(s.got, e)

BatchFull(s, events) ==
  \A d \in ToSet(s.batch), e \in events :
    e.turn = d.turn /\ e.seq < d.seq =>
      e \in ToSet(s.batch) \cup ToSet(s.got) \/ HiddenFrom(s.got, e)

GoesOn(s) ==
  s.pc \in Connected => s.after = IF s.got = << >> THEN 0 ELSE Last(s.got).seq

PagesFull ==
  \A f \in Followers :
    GotFull(stream[f], ToSet(log)) /\ BatchFull(stream[f], ToSet(log)) /\ GoesOn(stream[f])

FullInv == OrderInv /\ MadeInv /\ FreedInv /\ InTurns /\ LiveHas /\ PagesFull

LEMMA ListsAreEvents ==
  ASSUME OrderInv
  PROVE  /\ \A e \in ToSet(log) \cup ToSet(live) : e \in Event
         /\ \A f \in Followers : \A e \in Received(f) : e \in Event
         /\ \A e \in Event : e.seq \in Nat /\ e.turn \in Turns
         /\ \A t \in Turns : turn[t].seq \in Nat
<1>1. log \in Seq(Event) /\ live \in Seq(Event)
  BY DEF OrderInv, EventsInv, LogInv, LiveInv
<1>2. \A f \in Followers : stream[f].got \in Seq(Event) /\ stream[f].batch \in Seq(Event)
  BY DEF OrderInv, PagesInv, PageInOrder, Stream
<1>3. \A e \in ToSet(log) \cup ToSet(live) : e \in Event
  BY <1>1 DEF ToSet
<1>4. \A f \in Followers : \A e \in Received(f) : e \in Event
  BY <1>2 DEF ToSet, Received
<1>5. \A t \in Turns : turn[t].seq \in Nat
  BY DEF OrderInv, EventsInv, TurnsInv
<1> QED
  BY <1>3, <1>4, <1>5 DEF Event

\* All that is listed is numbered up to the counter of a turn that emits.
LEMMA BelowCounter ==
  ASSUME OrderInv, NEW t \in Turns, turn[t].pc \in Emitting,
         NEW e \in ToSet(log) \cup ToSet(live)
  PROVE  e.seq <= turn[t].seq
BY DEF OrderInv, EventsInv, LogInv, LiveInv, ToSet

\* The log tells its events apart by their numbers.
LEMMA LogNumbers ==
  ASSUME OrderInv, NEW e \in ToSet(log), NEW g \in ToSet(log), e.seq = g.seq
  PROVE  e = g
<1>1. PICK i, j \in DOMAIN log : e = log[i] /\ g = log[j]
  BY DEF ToSet
<1>2. log \in Seq(Event) /\ Growing(log)
  BY DEF OrderInv, EventsInv, LogInv
<1>3. log[i].seq \in Nat /\ log[j].seq \in Nat /\ i \in Nat /\ j \in Nat
  BY <1>2, NumbersAreNatural
<1>4. ~(i < j) /\ ~(j < i)
  BY <1>1, <1>2, <1>3 DEF Growing
<1> QED
  BY <1>1, <1>3, <1>4

\* One event more, in sets.
Emitted(t, event) ==
  /\ event \in Event /\ event.turn = t /\ event.seq = turn[t].seq + 1
  /\ turn[t].pc \in {"begun", "running", "judging"}
  /\ turn'[t].pc \in {"started", "running", "decided"}
  /\ turn'[t].seq = event.seq
  /\ \A u \in Turns : u # t => turn'[u] = turn[u]
  /\ ToSet(live') = ToSet(live) \cup {event}
  /\ \/ event.kind = "delta" /\ ToSet(log') = ToSet(log)
     \/ ToSet(log') = ToSet(log) \cup {event}
  /\ UNCHANGED <<stored, stream, reconciled>>

LEMMA EmitsEvent ==
  ASSUME OrderInv, NEW t \in Turns, Emits(t)
  PROVE  \E event \in Event : Emitted(t, event)
<1>1. PICK kind \in {"user", "delta", "text", "verdict"}, pc \in {"started", "running", "decided"} :
         /\ Emit(t, kind, pc)
         /\ turn[t].pc \in {"begun", "running", "judging"}
         /\ [seq |-> turn[t].seq + 1, turn |-> t, kind |-> kind] \in Event
         /\ UNCHANGED <<active, stored, stream, boots, reconciled>>
  BY EmitsOne DEF OrderInv
<1> DEFINE event == [seq |-> turn[t].seq + 1, turn |-> t, kind |-> kind]
<1>2. /\ live' = Append(live, event)
      /\ log' = IF kind = "delta" THEN log ELSE Append(log, event)
      /\ turn' = [turn EXCEPT ![t] = [pc |-> pc, seq |-> event.seq]]
  BY <1>1 DEF Emit
<1>3. event \in Event /\ event.seq = turn[t].seq + 1 /\ event.turn = t /\ event.kind = kind
  BY <1>1
<1>4. /\ turn'[t].seq = event.seq /\ turn'[t].pc = pc
      /\ \A u \in Turns : u # t => turn'[u] = turn[u]
  BY <1>2 DEF OrderInv, EventsInv, TurnsInv
<1> HIDE DEF event
<1>5. turn[t].pc \in Emitting /\ turn[t].seq \in Nat
  BY <1>1, ListsAreEvents DEF Emitting
<1>6. \A e \in ToSet(log) \cup ToSet(live) : e.seq < event.seq
  <2>1. \A e \in ToSet(log) \cup ToSet(live) : e.seq \in Nat /\ e.seq <= turn[t].seq
    BY <1>5, BelowCounter, ListsAreEvents
  <2> QED
    BY <1>3, <1>5, <2>1
<1>7. /\ log \in Seq(Event) /\ Growing(log) /\ live \in Seq(Event) /\ Growing(live)
      /\ \A i \in DOMAIN log : log[i].seq < event.seq
      /\ \A i \in DOMAIN live : live[i].seq < event.seq
  BY <1>6 DEF OrderInv, EventsInv, LogInv, LiveInv, ToSet
<1>8. ToSet(live') = ToSet(live) \cup {event}
  BY <1>2, <1>3, <1>7, AppendGrows
<1>9. \/ event.kind = "delta" /\ ToSet(log') = ToSet(log)
      \/ ToSet(log') = ToSet(log) \cup {event}
  BY <1>2, <1>3, <1>7, AppendGrows
<1>10. Emitted(t, event)
  BY <1>1, <1>3, <1>4, <1>8, <1>9 DEF Emitted
<1> QED
  BY <1>3, <1>10

\* A turn that has begun to emit stays begun and never counts down.
LEMMA CountersGrow ==
  ASSUME OrderInv, [EventsNext]_vars, NEW t \in Turns, turn[t].pc \notin Early
  PROVE  turn'[t].pc \notin Early /\ turn[t].seq <= turn'[t].seq
<1>0. turn \in [Turns -> [pc : TurnPcs, seq : Nat]] /\ turn[t].seq \in Nat
  BY DEF OrderInv, EventsInv, TurnsInv
<1>1. ASSUME NEW u \in Turns, Emits(u) PROVE turn'[t].pc \notin Early /\ turn[t].seq <= turn'[t].seq
  <2>1. PICK event \in Event : Emitted(u, event)
    BY <1>1, EmitsEvent
  <2> QED
    BY <1>0, <2>1 DEF Emitted, Early
<1>2. ASSUME NEW u \in Turns, Moves(u) PROVE turn'[t].pc \notin Early /\ turn[t].seq <= turn'[t].seq
  <2>1. CASE u # t
    BY <1>0, <1>2, <2>1, MovesOne DEF OrderInv
  <2>2. CASE u = t
    <3>1. \E pc \in {"running", "saved", "freed"} : Goto(t, pc)
      BY <1>2, <2>2 DEF Moves, Launch, MessageRead, MessageClaim, Activate, SaveRunning,
                        SaveVerdict, Free, At, Early
    <3> QED
      BY <1>0, <3>1 DEF Goto, Early
  <2> QED
    BY <2>1, <2>2
<1>3. ASSUME NEW u \in Turns, Begin(u) PROVE turn'[t].pc \notin Early /\ turn[t].seq <= turn'[t].seq
  <2>1. u # t
    BY <1>3 DEF Begin, At, Early
  <2> QED
    BY <1>0, <1>3, <2>1 DEF Begin
<1>4. ASSUME NEW u \in Turns, DropList(u)
      PROVE  turn'[t].pc \notin Early /\ turn[t].seq <= turn'[t].seq
  BY <1>0, <1>4 DEF DropList, Goto, Early
<1>5. ASSUME Reconcile PROVE turn'[t].pc \notin Early /\ turn[t].seq <= turn'[t].seq
  <2>1. CASE turn' = turn
    BY <1>0, <2>1
  <2>2. CASE turn' # turn
    <3>1. PICK u \in Turns :
            At(u, "none") /\ turn' = [turn EXCEPT ![u] = [pc |-> "judging", seq |-> AfterLog(stored.seq)]]
      BY <1>5, <2>2 DEF Reconcile
    <3>2. u # t
      BY <3>1 DEF At, Early
    <3> QED
      BY <1>0, <3>1, <3>2
  <2> QED
    BY <2>1, <2>2
<1>6. ASSUME Restart PROVE turn'[t].pc \notin Early /\ turn[t].seq <= turn'[t].seq
  <2>1. turn'[t] = [turn[t] EXCEPT !.pc = "done"]
    BY <1>6 DEF Restart, Early
  <2> QED
    BY <1>0, <2>1 DEF Early
<1>7. ASSUME NEW f \in Followers, Follow(f)
      PROVE  turn'[t].pc \notin Early /\ turn[t].seq <= turn'[t].seq
  BY <1>0, <1>7, FollowOne DEF OrderInv
<1>8. ASSUME UNCHANGED vars PROVE turn'[t].pc \notin Early /\ turn[t].seq <= turn'[t].seq
  BY <1>0, <1>8 DEF vars
<1> QED
  BY StepKinds, <1>1, <1>2, <1>3, <1>4, <1>5, <1>6, <1>7, <1>8

\* A step that emits nothing leaves the log alone.
LEMMA LogStays ==
  ASSUME OrderInv, [EventsNext]_vars
  PROVE  \/ \E t \in Turns, event \in Event : Emitted(t, event)
         \/ /\ log' = log
            /\ live' = live \/ live' = << >>
<1>1. ASSUME NEW t \in Turns, Emits(t) PROVE \E event \in Event : Emitted(t, event)
  BY <1>1, EmitsEvent
<1>2. ASSUME NEW t \in Turns, Moves(t) PROVE log' = log /\ live' = live
  BY <1>2, MovesOne DEF OrderInv
<1>3. ASSUME NEW t \in Turns, Begin(t) \/ DropList(t) PROVE log' = log /\ live' = << >>
  BY <1>3 DEF Begin, DropList
<1>4. ASSUME NEW f \in Followers, Follow(f) PROVE log' = log /\ live' = live
  BY <1>4, FollowOne DEF OrderInv
<1>5. Reconcile \/ Restart \/ UNCHANGED vars => log' = log /\ (live' = live \/ live' = << >>)
  BY DEF Reconcile, Restart, vars
<1> QED
  BY StepKinds, <1>1, <1>2, <1>3, <1>4, <1>5

\* What was made stays so ...
LEMMA MadeStays ==
  ASSUME OrderInv, [EventsNext]_vars, NEW e \in Event, Made(e)
  PROVE  Made(e)'
<1>1. e.turn \in Turns /\ e.seq \in Nat /\ turn[e.turn].seq \in Nat
  BY ListsAreEvents
<1>2. /\ turn'[e.turn].pc \notin Early /\ turn[e.turn].seq <= turn'[e.turn].seq
  BY <1>1, CountersGrow DEF Made
<1>3. turn'[e.turn].seq \in Nat
  BY <1>1, EventsStep DEF OrderInv, EventsInv, TurnsInv
<1>4. e.seq \in 1 .. turn'[e.turn].seq
  BY <1>1, <1>2, <1>3 DEF Made
<1>5. CASE log' = log
  BY <1>2, <1>4, <1>5 DEF Made
<1>6. CASE \E t \in Turns, event \in Event : Emitted(t, event)
  <2>1. PICK t \in Turns, event \in Event : Emitted(t, event)
    BY <1>6
  <2>2. ToSet(log) \subseteq ToSet(log') /\ ToSet(log') \subseteq ToSet(log) \cup {event}
    BY <2>1 DEF Emitted
  <2>3. ASSUME event.turn = e.turn, event.seq = e.seq PROVE FALSE
    BY <1>1, <2>1, <2>3 DEF Emitted, Made
  <2>4. e.kind = "delta" \/ e \in ToSet(log')
    BY <2>2 DEF Made
  <2>5. \A l \in ToSet(log') : l.turn = e.turn /\ l.seq = e.seq => l = e
    BY <2>2, <2>3 DEF Made
  <2> QED
    BY <1>2, <1>4, <2>4, <2>5 DEF Made
<1> QED
  BY <1>5, <1>6, LogStays

\* ... and a new event is made.
LEMMA MadeNew ==
  ASSUME OrderInv, MadeInv, NEW t \in Turns, NEW event \in Event, Emitted(t, event)
  PROVE  Made(event)'
<1>1. turn[t].seq \in Nat /\ event.seq \in Nat
  BY ListsAreEvents
<1>2. turn'[event.turn].pc \notin Early
  BY DEF Emitted, Early
<1>3. event.seq \in 1 .. turn'[event.turn].seq
  BY <1>1 DEF Emitted
<1>4. event.kind = "delta" \/ event \in ToSet(log')
  BY DEF Emitted
<1>5. ASSUME NEW l \in ToSet(log'), l.turn = event.turn, l.seq = event.seq PROVE l = event
  <2>1. CASE l \in ToSet(log)
    <3>1. Made(l) /\ l.seq \in Nat
      BY <2>1, ListsAreEvents DEF MadeInv
    <3> QED
      BY <1>1, <1>5, <3>1 DEF Made, Emitted
  <2>2. CASE l = event
    BY <2>2
  <2> QED
    BY <2>1, <2>2 DEF Emitted
<1> QED
  BY <1>2, <1>3, <1>4, <1>5 DEF Made

\* What the step of a page does to it, in sets: it goes on from the last event it has,
\* takes what is above that from the log or the list, gets the next one, or only moves.
Fresh(s, r) ==
  /\ r.got = s.got /\ r.batch = << >> /\ GoesOn(r)

Takes(s, r, events) ==
  /\ s.pc \in Connected
  /\ r.got = s.got /\ r.after = s.after
  /\ ToSet(r.batch) = {e \in ToSet(events) : e.seq > s.after}

Gets(s, r) ==
  /\ s.pc = "sending" /\ s.batch # << >>
  /\ r = [s EXCEPT !.batch = Tail(s.batch), !.after = Head(s.batch).seq,
                   !.got = Append(s.got, Head(s.batch))]

Same(s, r) ==
  /\ r.got = s.got /\ r.batch = s.batch /\ r.after = s.after
  /\ s.pc \in Connected

LEMMA PageKinds ==
  ASSUME OrderInv, NEW f \in Followers, Follow(f)
  PROVE  \/ Fresh(stream[f], stream'[f])
         \/ \E events \in {log, live} : Takes(stream[f], stream'[f], events)
         \/ Gets(stream[f], stream'[f])
         \/ Same(stream[f], stream'[f])
<1> DEFINE s == stream[f]
<1>1. s \in Stream
  BY DEF OrderInv, PagesInv, PageInOrder
<1>2. s.got \in Seq(Event) /\ s.batch \in Seq(Event) /\ s.after \in Nat
  BY <1>1 DEF Stream
<1>3. /\ log \in Seq(Event) /\ Growing(log) /\ live \in Seq(Event) /\ Growing(live)
  BY DEF OrderInv, EventsInv, LogInv, LiveInv
<1>4. f \in DOMAIN stream
  BY DEF OrderInv, PagesInv
<1>5. CASE Connect(f)
  <2> DEFINE n == IF s.got = << >> THEN 0 ELSE Last(s.got).seq
  <2>1. stream'[f] = [Off(s.got) EXCEPT !.pc = "replaying", !.after = n]
    BY <1>4, <1>5 DEF Connect
  <2>2. stream'[f].got = s.got /\ stream'[f].batch = << >> /\ stream'[f].after = n
    BY <2>1 DEF Off
  <2> QED
    BY <2>2 DEF Fresh, GoesOn
<1>6. CASE Replay(f)
  <2>1. s.pc = "replaying"
    BY <1>6 DEF Replay
  <2>2. stream'[f] = [s EXCEPT !.pc = "sending", !.batch = After(log, s.after)]
    BY <1>4, <1>6 DEF Replay
  <2>3. stream'[f].got = s.got /\ stream'[f].after = s.after /\ stream'[f].batch = After(log, s.after)
    BY <1>1, <2>2 DEF Stream
  <2>4. ToSet(After(log, s.after)) = {e \in ToSet(log) : e.seq > s.after}
    BY <1>2, <1>3, AfterIs
  <2> HIDE DEF s
  <2>5. Takes(s, stream'[f], log)
    BY <2>1, <2>3, <2>4 DEF Takes, Connected
  <2> QED
    BY <2>5 DEF s
<1>7. CASE Send(f)
  <2>1. s.pc = "sending" /\ s.batch # << >>
    BY <1>7 DEF Send
  <2>2. stream' = [stream EXCEPT ![f] =
                     [stream[f] EXCEPT !.batch = Tail(stream[f].batch),
                                       !.after = Head(stream[f].batch).seq,
                                       !.got = Append(stream[f].got, Head(stream[f].batch))]]
    BY <1>7 DEF Send
  <2> QED
    BY <1>4, <2>1, <2>2 DEF Gets
<1>8. CASE Sent(f)
  <2> DEFINE to == IF s.ending THEN "ended" ELSE "waiting"
  <2>1. s.pc = "sending" /\ stream'[f] = [s EXCEPT !.pc = to]
    BY <1>1, <1>4, <1>8 DEF Sent, Stream
  <2>2. stream'[f].got = s.got /\ stream'[f].batch = s.batch /\ stream'[f].after = s.after
    BY <1>1, <2>1 DEF Stream
  <2> QED
    BY <2>1, <2>2 DEF Same, Connected
<1>9. CASE Wait(f)
  <2>1. s.pc = "waiting"
    BY <1>9 DEF Wait
  <2>2. CASE active # NoTurn
    <3>1. stream'[f] = [s EXCEPT !.pc = "sending", !.batch = After(live, s.after)]
      BY <1>4, <1>9, <2>2 DEF Wait
    <3>2. stream'[f].got = s.got /\ stream'[f].after = s.after /\ stream'[f].batch = After(live, s.after)
      BY <1>1, <3>1 DEF Stream
    <3>3. ToSet(After(live, s.after)) = {e \in ToSet(live) : e.seq > s.after}
      BY <1>2, <1>3, AfterIs
    <3> HIDE DEF s
    <3>4. Takes(s, stream'[f], live)
      BY <2>1, <3>2, <3>3 DEF Takes, Connected
    <3> QED
      BY <3>4 DEF s
  <2>3. CASE active = NoTurn
    <3>1. stream'[f] = [s EXCEPT !.pc = "sending", !.ending = TRUE, !.batch = After(log, s.after)]
      BY <1>4, <1>9, <2>3 DEF Wait
    <3>2. stream'[f].got = s.got /\ stream'[f].after = s.after /\ stream'[f].batch = After(log, s.after)
      BY <1>1, <3>1 DEF Stream
    <3>3. ToSet(After(log, s.after)) = {e \in ToSet(log) : e.seq > s.after}
      BY <1>2, <1>3, AfterIs
    <3> HIDE DEF s
    <3>4. Takes(s, stream'[f], log)
      BY <2>1, <3>2, <3>3 DEF Takes, Connected
    <3> QED
      BY <3>4 DEF s
  <2> QED
    BY <2>2, <2>3
<1>10. CASE Lose(f)
  <2>1. stream'[f] = Off(s.got)
    BY <1>4, <1>10 DEF Lose
  <2>2. Fresh(s, Off(s.got))
    BY DEF Fresh, Off, GoesOn, Connected
  <2> QED
    BY <2>1, <2>2
<1> QED
  BY <1>5, <1>6, <1>7, <1>8, <1>9, <1>10 DEF Follow

\* The next event of a page, in sets.
LEMMA GetsOne ==
  ASSUME NEW s \in Stream, PageInOrder(s), NEW r, Gets(s, r)
  PROVE  LET e == Head(s.batch)
         IN /\ ToSet(s.batch) = {e} \cup ToSet(r.batch)
            /\ ToSet(r.got) = ToSet(s.got) \cup {e}
            /\ \A d \in ToSet(r.batch) : d.seq > e.seq
            /\ r.after = e.seq /\ r.got # << >> /\ Last(r.got) = e
<1> DEFINE e == Head(s.batch)
<1>1. s.got \in Seq(Event) /\ s.batch \in Seq(Event)
  BY DEF Stream
<1>2. r.batch = Tail(s.batch) /\ r.after = e.seq /\ r.got = Append(s.got, e)
  BY DEF Gets, Stream
<1>3. /\ e \in Event
      /\ \A i \in DOMAIN Tail(s.batch) : Tail(s.batch)[i].seq > e.seq
      /\ ToSet(s.batch) = {e} \cup ToSet(Tail(s.batch))
  BY <1>1, TailGrows DEF Gets, PageInOrder
<1> HIDE DEF e
<1>4. ToSet(r.got) = ToSet(s.got) \cup {e} /\ r.got # << >> /\ Last(r.got) = e
  <2>1. /\ DOMAIN Append(s.got, e) = DOMAIN s.got \cup {Len(s.got) + 1}
        /\ \A i \in DOMAIN s.got : Append(s.got, e)[i] = s.got[i]
        /\ Append(s.got, e)[Len(s.got) + 1] = e
        /\ Len(Append(s.got, e)) = Len(s.got) + 1
        /\ Append(s.got, e) # << >>
    BY <1>1, <1>3
  <2> QED
    BY <1>2, <2>1 DEF ToSet, Last
<1>5. \A d \in ToSet(r.batch) : d.seq > e.seq
  BY <1>2, <1>3 DEF ToSet
<1> QED
  BY <1>2, <1>3, <1>4, <1>5 DEF e

\* A page has and is sent only what it had, what is in the log or what is in the list.
LEMMA ReceivedFrom ==
  ASSUME OrderInv, NEW f \in Followers, NEW g \in Followers, Follow(g)
  PROVE  ToSet(stream'[f].got) \cup ToSet(stream'[f].batch)
           \subseteq Received(f) \cup ToSet(log) \cup ToSet(live)
<1>1. CASE f # g
  BY <1>1, FollowOne DEF OrderInv, Received
<1>2. CASE f = g
  <2> DEFINE s == stream[f]
             r == stream'[f]
  <2>0. s \in Stream /\ PageInOrder(s)
    BY DEF OrderInv, PagesInv, PageInOrder
  <2>1. CASE Fresh(s, r)
    BY <2>1 DEF Fresh, Received, ToSet
  <2>2. CASE \E events \in {log, live} : Takes(s, r, events)
    BY <2>2 DEF Takes, Received
  <2>3. CASE Gets(s, r)
    <3> HIDE DEF s, r
    <3>1. ToSet(r.got) \cup ToSet(r.batch) \subseteq ToSet(s.got) \cup ToSet(s.batch)
      BY <2>0, <2>3, GetsOne
    <3> QED
      BY <3>1 DEF s, r, Received
  <2>4. CASE Same(s, r)
    BY <2>4 DEF Same, Received
  <2> QED
    BY <1>2, <2>1, <2>2, <2>3, <2>4, PageKinds
<1> QED
  BY <1>1, <1>2

LEMMA MadeStep == OrderInv /\ MadeInv /\ [EventsNext]_vars => MadeInv'
<1> SUFFICES ASSUME OrderInv, MadeInv, [EventsNext]_vars PROVE MadeInv'
  OBVIOUS
<1>1. \A e \in Event : Made(e) => Made(e)'
  BY MadeStays
<1>2. \A e \in ToSet(log) \cup ToSet(live) : Made(e)'
  BY <1>1, ListsAreEvents DEF MadeInv
<1>3. \A f \in Followers : \A e \in Received(f) : Made(e)'
  BY <1>1, ListsAreEvents DEF MadeInv
<1>4. ASSUME NEW e \in ToSet(log') \cup ToSet(live') PROVE Made(e)'
  <2>1. CASE log' = log /\ (live' = live \/ live' = << >>)
    BY <1>2, <1>4, <2>1 DEF ToSet
  <2>2. ASSUME NEW t \in Turns, NEW event \in Event, Emitted(t, event) PROVE Made(e)'
    <3>1. e \in ToSet(log) \cup ToSet(live) \/ e = event
      BY <1>4, <2>2 DEF Emitted
    <3>2. Made(event)'
      BY <2>2, MadeNew
    <3> QED
      BY <1>2, <3>1, <3>2
  <2> QED
    BY <2>1, <2>2, LogStays
<1>5. ASSUME NEW f \in Followers
      PROVE  ToSet(stream'[f].got) \cup ToSet(stream'[f].batch)
               \subseteq Received(f) \cup ToSet(log) \cup ToSet(live)
  <2>1. ASSUME NEW g \in Followers, Follow(g)
        PROVE  ToSet(stream'[f].got) \cup ToSet(stream'[f].batch)
                 \subseteq Received(f) \cup ToSet(log) \cup ToSet(live)
    BY <2>1, ReceivedFrom
  <2>2. CASE stream' = stream
    BY <2>2 DEF Received
  <2>3. CASE Restart
    <3>1. stream'[f] = IF stream[f].pc = "ended" THEN stream[f] ELSE Off(stream[f].got)
      BY <2>3 DEF Restart
    <3>2. ToSet(stream'[f].got) = ToSet(stream[f].got)
          /\ ToSet(stream'[f].batch) \subseteq ToSet(stream[f].batch)
      BY <3>1 DEF Off, ToSet
    <3> QED
      BY <3>2 DEF Received
  <2>4. ASSUME NEW t \in Turns, Emits(t) \/ Moves(t) PROVE stream' = stream
    BY <2>4, EmitsOne, MovesOne DEF OrderInv
  <2>5. ASSUME NEW t \in Turns, Begin(t) \/ DropList(t) PROVE stream' = stream
    BY <2>5 DEF Begin, DropList
  <2>6. Reconcile \/ UNCHANGED vars => stream' = stream
    BY DEF Reconcile, vars
  <2> QED
    BY StepKinds, <2>1, <2>2, <2>3, <2>4, <2>5, <2>6
<1>6. ASSUME NEW f \in Followers, NEW e \in Received(f)' PROVE Made(e)'
  <2>1. e \in Received(f) \cup ToSet(log) \cup ToSet(live)
    BY <1>5, <1>6 DEF Received
  <2> QED
    BY <1>2, <1>3, <2>1
<1> QED
  BY <1>4, <1>6 DEF MadeInv

\* Nothing but the turn that frees the slot gets to where its list is to be dropped;
\* a follow-up that does not overtake it waits until it has done so.
LEMMA FreedStep ==
  ASSUME ~Overtake, EventsInv, FreedInv, [EventsNext]_vars
  PROVE  FreedInv'
<1>0. turn \in [Turns -> [pc : TurnPcs, seq : Nat]]
  BY DEF EventsInv, TurnsInv
<1>1. ASSUME NEW t \in Turns, Launch(t) \/ MessageClaim(t) PROVE FreedInv'
  <2>1. \A u \in Turns : turn[u].pc # "freed"
    BY <1>1 DEF Launch, MessageClaim, At, FreedInv
  <2>2. \A u \in Turns : turn'[u].pc # "freed"
    BY <1>0, <1>1, <2>1 DEF Launch, MessageClaim, Goto
  <2> QED
    BY <2>2 DEF FreedInv
<1>2. ASSUME UNCHANGED <<stored, reconciled>>,
             \A u \in Turns : turn'[u].pc \in Busy \cup {"freed"} => turn[u].pc = turn'[u].pc
      PROVE  FreedInv'
  BY <1>2 DEF FreedInv
<1>3. ASSUME NEW t \in Turns, MessageRead(t) PROVE FreedInv'
  BY <1>0, <1>2, <1>3 DEF MessageRead, Busy, Emitting
\* A busy turn is the only one that is busy, and none is freed.
<1>4. ASSUME NEW t \in Turns, turn[t].pc \in Busy, turn'[t].pc \in Busy \cup {"freed"},
             \A u \in Turns : u # t => turn'[u] = turn[u],
             reconciled' = reconciled, stored = NoRecord \/ stored' # NoRecord
      PROVE  FreedInv'
  <2>1. \A u \in Turns : u # t => turn'[u].pc \notin Busy \cup {"freed"}
    BY <1>4 DEF FreedInv, EventsInv, BusyInv
  <2>2. reconciled' /\ stored' # NoRecord
    BY <1>4 DEF EventsInv, BusyInv
  <2> QED
    BY <2>1, <2>2 DEF FreedInv
<1>5. ASSUME NEW t \in Turns, Emits(t) PROVE FreedInv'
  <2>1. PICK kind \in {"user", "delta", "text", "verdict"}, pc \in {"started", "running", "decided"} :
         /\ Emit(t, kind, pc)
         /\ turn[t].pc \in {"begun", "running", "judging"}
         /\ UNCHANGED <<active, stored, stream, boots, reconciled>>
    BY <1>5, EmitsOne
  <2>2. turn'[t].pc = pc /\ \A u \in Turns : u # t => turn'[u] = turn[u]
    BY <1>0, <2>1 DEF Emit
  <2> QED
    BY <1>4, <2>1, <2>2 DEF Busy, Emitting
<1>6. ASSUME NEW t \in Turns, Activate(t) \/ Begin(t) \/ SaveRunning(t) \/ SaveVerdict(t) \/ Free(t)
      PROVE  FreedInv'
  <2>1. stored' = NoRecord => stored = NoRecord
    BY <1>6, WorkStored DEF Work
  <2>2. turn[t].pc \in Busy
    BY <1>6 DEF Activate, Begin, SaveRunning, SaveVerdict, Free, At, Busy, Emitting
  <2>3. /\ turn'[t].pc \in {"activated", "begun", "running", "saved", "freed"}
        /\ \A u \in Turns : u # t => turn'[u] = turn[u]
    <3>1. CASE Begin(t)
      BY <1>0, <3>1 DEF Begin
    <3>2. CASE \E pc \in {"activated", "running", "saved", "freed"} : Goto(t, pc)
      BY <1>0, <3>2 DEF Goto
    <3> QED
      BY <1>6, <3>1, <3>2 DEF Activate, SaveRunning, SaveVerdict, Free
  <2>4. reconciled' = reconciled
    BY <1>6 DEF Activate, Begin, SaveRunning, SaveVerdict, Free
  <2> QED
    BY <1>4, <2>1, <2>2, <2>3, <2>4 DEF Busy, Emitting
<1>7. ASSUME NEW t \in Turns, DropList(t) PROVE FreedInv'
  BY <1>0, <1>2, <1>7 DEF DropList, Goto, Busy, Emitting
<1>8. CASE Reconcile
  <2>1. \A u \in Turns : turn[u].pc # "freed"
    BY <1>8 DEF Reconcile, FreedInv
  <2>2. \A u \in Turns : turn'[u].pc # "freed"
    BY <1>0, <1>8, <2>1 DEF Reconcile
  <2> QED
    BY <2>2 DEF FreedInv
<1>9. CASE Restart
  <2>1. \A u \in Turns : turn'[u].pc \in {"none", "done"}
    BY <1>0, <1>9 DEF Restart
  <2> QED
    BY <2>1 DEF FreedInv
<1>10. ASSUME NEW f \in Followers, Follow(f) PROVE FreedInv'
  <2>1. UNCHANGED <<stored, turn, reconciled>>
    BY <1>10 DEF Follow, Connect, Replay, Send, Sent, Wait, Lose
  <2> QED
    BY <1>2, <2>1
<1>11. CASE UNCHANGED vars
  BY <1>2, <1>11 DEF vars
<1> QED
  BY StepKinds, <1>1, <1>3, <1>5, <1>6, <1>7, <1>8, <1>9, <1>10, <1>11 DEF Moves

TurnsApart == InTurns /\ LiveHas

\* The turn that emits is the only one, and it has emitted all that is above an event
\* of its own.
LEMMA ApartEmits ==
  ASSUME OrderInv, MadeInv, TurnsApart, NEW t \in Turns, NEW event \in Event, Emitted(t, event)
  PROVE  TurnsApart'
<1>0. /\ turn[t].pc \in Emitting /\ turn[t].seq \in Nat /\ event.seq = turn[t].seq + 1
      /\ event.turn = t
  BY ListsAreEvents DEF Emitted, Emitting
<1>1. /\ ToSet(live') = ToSet(live) \cup {event}
      /\ ToSet(log) \subseteq ToSet(log')
      /\ ToSet(log') \subseteq ToSet(log) \cup {event}
  BY DEF Emitted
<1>2. \A e \in ToSet(log) \cup ToSet(live) : e.seq \in Nat /\ e.seq < event.seq
  <2>1. \A e \in ToSet(log) \cup ToSet(live) : e.seq \in Nat /\ e.seq <= turn[t].seq
    BY <1>0, BelowCounter, ListsAreEvents
  <2> QED
    BY <1>0, <2>1
<1>3. ASSUME NEW u \in Turns, turn'[u].pc \in Emitting PROVE u = t
  <2>1. CASE u # t
    <3>1. turn[u].pc \in Busy /\ turn[t].pc \in Busy
      BY <1>0, <1>3, <2>1 DEF Emitted, Busy
    <3> QED
      BY <2>1, <3>1 DEF OrderInv, EventsInv, BusyInv
  <2> QED
    BY <2>1
<1>4. \A e \in ToSet(log') : e.turn \in Turns
  BY <1>1, ListsAreEvents
\* Only the new event is numbered as high as it.
<1>5. \A e, g \in ToSet(log') \cup ToSet(live') : e.seq < g.seq =>
        e \in ToSet(log) \cup ToSet(live) /\ e # event
  BY <1>0, <1>1, <1>2
<1>6. ASSUME NEW e \in ToSet(log'), NEW g \in ToSet(log'), NEW d \in ToSet(log') \cup ToSet(live'),
             e.turn = d.turn, e.seq < g.seq, g.seq < d.seq
      PROVE  g.turn = e.turn
  <2>1. e \in ToSet(log) /\ g \in ToSet(log)
    BY <1>1, <1>5, <1>6
  <2>2. CASE d = event
    BY <1>0, <1>6, <2>1, <2>2 DEF TurnsApart, InTurns
  <2>3. CASE d # event
    BY <1>1, <1>6, <2>1, <2>3 DEF TurnsApart, InTurns
  <2> QED
    BY <2>2, <2>3
<1>7. ASSUME NEW e \in ToSet(log'), NEW g \in ToSet(log'), turn'[e.turn].pc \in Emitting,
             e.seq < g.seq
      PROVE  g.turn = e.turn
  <2>1. e.turn = t /\ e \in ToSet(log)
    BY <1>1, <1>3, <1>4, <1>5, <1>7
  <2>2. CASE g = event
    BY <1>0, <2>1, <2>2
  <2>3. CASE g # event
    BY <1>0, <1>1, <1>7, <2>1, <2>3 DEF TurnsApart, InTurns
  <2> QED
    BY <2>2, <2>3
<1>8. ASSUME NEW e \in ToSet(log'), turn'[e.turn].pc \in Emitting PROVE e \in ToSet(live')
  <2>1. e.turn = t
    BY <1>3, <1>4, <1>8
  <2> QED
    BY <1>0, <1>1, <2>1 DEF TurnsApart, LiveHas
<1>9. ASSUME NEW e \in ToSet(log'), NEW d \in ToSet(live'), e.turn = d.turn, e.seq < d.seq
      PROVE  e \in ToSet(live')
  <2>1. e \in ToSet(log)
    BY <1>1, <1>5, <1>9
  <2>2. CASE d = event
    BY <1>0, <1>1, <1>9, <2>1, <2>2 DEF TurnsApart, LiveHas
  <2>3. CASE d # event
    BY <1>1, <1>9, <2>1, <2>3 DEF TurnsApart, LiveHas
  <2> QED
    BY <2>2, <2>3
<1>10. InTurns'
  BY <1>6, <1>7 DEF InTurns
<1>11. LiveHas'
  BY <1>8, <1>9 DEF LiveHas
<1> QED
  BY <1>10, <1>11 DEF TurnsApart

\* A step that emits nothing keeps this if the list is dropped only with nobody emitting,
\* and nobody emits who has events and did not emit before.
LEMMA ApartStays ==
  ASSUME OrderInv, MadeInv, TurnsApart, log' = log,
         \/ live' = live
         \/ live' = << >> /\ \A e \in ToSet(log) : turn'[e.turn].pc \notin Emitting,
         \A e \in ToSet(log) : turn'[e.turn].pc \in Emitting => turn[e.turn].pc \in Emitting
  PROVE  TurnsApart'
<1>1. ToSet(log') = ToSet(log) /\ ToSet(live') \subseteq ToSet(live)
  BY DEF ToSet
<1>2. InTurns'
  <2>1. \A e, g \in ToSet(log'), d \in ToSet(log') \cup ToSet(live') :
          e.turn = d.turn /\ e.seq < g.seq /\ g.seq < d.seq => g.turn = e.turn
    BY <1>1 DEF TurnsApart, InTurns
  <2>2. \A e, g \in ToSet(log') : turn'[e.turn].pc \in Emitting /\ e.seq < g.seq => g.turn = e.turn
    BY <1>1 DEF TurnsApart, InTurns
  <2> QED
    BY <2>1, <2>2 DEF InTurns
<1>3. LiveHas'
  <2>1. CASE live' = live
    BY <1>1, <2>1 DEF TurnsApart, LiveHas
  <2>2. CASE live' = << >> /\ \A e \in ToSet(log) : turn'[e.turn].pc \notin Emitting
    <3>1. ToSet(live') = {}
      BY <2>2 DEF ToSet
    <3> QED
      BY <1>1, <2>2, <3>1 DEF LiveHas
  <2> QED
    BY <2>1, <2>2
<1> QED
  BY <1>2, <1>3 DEF TurnsApart

LEMMA ApartStep ==
  ASSUME OrderInv, MadeInv, FreedInv, TurnsApart, [EventsNext]_vars
  PROVE  TurnsApart'
<1>0. /\ turn \in [Turns -> [pc : TurnPcs, seq : Nat]]
      /\ \A e \in ToSet(log) : e.turn \in Turns /\ turn[e.turn].pc \notin Early
  BY ListsAreEvents DEF OrderInv, EventsInv, TurnsInv, MadeInv, Made
<1>1. ASSUME NEW t \in Turns, Emits(t) PROVE TurnsApart'
  BY <1>1, EmitsEvent, ApartEmits
<1>2. ASSUME NEW t \in Turns, Moves(t) PROVE TurnsApart'
  <2>1. /\ log' = log /\ live' = live
        /\ \A u \in Turns : turn'[u].pc \in Emitting => turn[u].pc \in Emitting
    BY <1>2, MovesOne DEF OrderInv
  <2> QED
    BY <1>0, <2>1, ApartStays
<1>3. ASSUME NEW t \in Turns, Begin(t) PROVE TurnsApart'
  <2>1. /\ log' = log /\ live' = << >> /\ turn[t].pc = "activated"
        /\ \A u \in Turns : u # t => turn'[u] = turn[u]
    BY <1>0, <1>3 DEF Begin, At
  <2>2. ASSUME NEW e \in ToSet(log) PROVE turn'[e.turn].pc \notin Emitting
    <3>1. e.turn # t
      BY <1>0, <2>1 DEF Early
    <3>2. turn[e.turn].pc \notin Emitting
      BY <1>0, <2>1, <3>1 DEF OrderInv, EventsInv, BusyInv, Busy
    <3> QED
      BY <1>0, <2>1, <3>1, <3>2
  <2> QED
    BY <2>1, <2>2, ApartStays
<1>4. ASSUME NEW t \in Turns, DropList(t) PROVE TurnsApart'
  <2>1. log' = log /\ live' = << >>
    BY <1>4 DEF DropList
  <2>2. ASSUME NEW u \in Turns PROVE turn'[u].pc \notin Emitting
    <3>1. turn[u].pc \notin Emitting
      BY <1>4 DEF DropList, At, FreedInv, Busy, Emitting
    <3> QED
      BY <1>0, <1>4, <3>1 DEF DropList, Goto, Emitting
  <2> QED
    BY <1>0, <2>1, <2>2, ApartStays
<1>5. CASE Reconcile
  <2>1. log' = log /\ live' = live
    BY <1>5 DEF Reconcile
  <2>2. ASSUME NEW e \in ToSet(log) PROVE turn'[e.turn] = turn[e.turn]
    <3>1. CASE turn' = turn
      BY <3>1
    <3>2. CASE turn' # turn
      <4>1. PICK u \in Turns : At(u, "none") /\
              turn' = [turn EXCEPT ![u] = [pc |-> "judging", seq |-> AfterLog(stored.seq)]]
        BY <1>5, <3>2 DEF Reconcile
      <4>2. u # e.turn
        BY <1>0, <4>1 DEF At, Early
      <4> QED
        BY <1>0, <4>1, <4>2
    <3> QED
      BY <3>1, <3>2
  <2> QED
    BY <2>1, <2>2, ApartStays
<1>6. CASE Restart
  <2>1. log' = log /\ live' = << >> /\ \A u \in Turns : turn'[u].pc \in {"none", "done"}
    BY <1>0, <1>6 DEF Restart
  <2> QED
    BY <1>0, <2>1, ApartStays DEF Emitting
<1>7. ASSUME UNCHANGED <<turn, log, live>> PROVE TurnsApart'
  BY <1>7, ApartStays
<1>8. ASSUME NEW f \in Followers, Follow(f) PROVE TurnsApart'
  BY <1>7, <1>8, FollowOne DEF OrderInv
<1>9. CASE UNCHANGED vars
  BY <1>7, <1>9 DEF vars
<1> QED
  BY StepKinds, <1>1, <1>2, <1>3, <1>4, <1>5, <1>6, <1>8, <1>9

\* What a page takes misses nothing: what is above the last event it has is in what it
\* takes from, and what is below it, it has, unless that event is a lost turn's delta.
LEMMA TakesInFull ==
  ASSUME OrderInv, MadeInv, TurnsApart, PagesFull, NEW f \in Followers, NEW r,
         NEW events \in {log, live}, Takes(stream[f], r, events)
  PROVE  GotFull(r, ToSet(log)) /\ BatchFull(r, ToSet(log)) /\ GoesOn(r)
<1> DEFINE s == stream[f]
<1>1. /\ s.pc \in Connected /\ r.got = s.got /\ r.after = s.after
      /\ ToSet(r.batch) = {e \in ToSet(events) : e.seq > s.after}
  BY DEF Takes
<1>2. GotFull(s, ToSet(log)) /\ GoesOn(s)
  BY DEF PagesFull
<1>3. PageInOrder(s) /\ s.got \in Seq(Event) /\ s.after \in Nat
  BY DEF OrderInv, PagesInv, PageInOrder, Stream
<1>4. \A e \in ToSet(s.got) : Made(e)
  BY DEF MadeInv, Received
<1> HIDE DEF s
<1>5. GotFull(r, ToSet(log)) /\ GoesOn(r)
  BY <1>1, <1>2 DEF GotFull, GoesOn
<1>6. ASSUME NEW d \in ToSet(r.batch), NEW e \in ToSet(log), e.turn = d.turn, e.seq < d.seq
      PROVE  e \in ToSet(r.batch) \cup ToSet(r.got) \/ HiddenFrom(r.got, e)
  <2>1. d \in ToSet(log) \cup ToSet(live) /\ d \in ToSet(events) /\ d.seq > s.after
    BY <1>1, <1>6
  <2>2. /\ e.seq \in Nat /\ d.seq \in Nat /\ Made(e) /\ e.turn \in Turns
        /\ turn[e.turn].seq \in Nat
    BY <2>1, ListsAreEvents DEF MadeInv
  <2>3. CASE e.seq > s.after
    <3>1. e \in ToSet(events)
      <4>1. CASE events = log
        BY <4>1
      <4>2. CASE events = live
        BY <1>6, <2>1, <4>2 DEF TurnsApart, LiveHas
      <4> QED
        BY <4>1, <4>2
    <3> QED
      BY <1>1, <2>3, <3>1
  <2>4. CASE ~(e.seq > s.after)
    <3> DEFINE last == Last(s.got)
    <3>1. e.seq > 0
      BY <2>2 DEF Made
    <3>2. s.got # << >> /\ s.after = last.seq
      BY <1>1, <1>2, <1>3, <2>2, <2>4, <3>1 DEF GoesOn
    <3>3. last \in ToSet(s.got) /\ last.seq \in Nat /\ Made(last)
      BY <1>3, <1>4, <3>2, LastIsHighest DEF PageInOrder
    <3>4. e.seq <= last.seq /\ last.seq < d.seq
      BY <1>3, <2>1, <2>2, <2>4, <3>2
    <3> HIDE DEF last
    <3>5. CASE last.turn = e.turn
      <4>1. CASE e.seq = last.seq
        BY <1>1, <3>3, <3>5, <4>1 DEF Made
      <4>2. CASE e.seq < last.seq
        BY <1>1, <1>2, <3>3, <3>5, <4>2 DEF GotFull
      <4> QED
        BY <2>2, <3>3, <3>4, <4>1, <4>2
    <3>6. CASE last.turn # e.turn /\ last.kind = "delta"
      <4>1. last.seq >= e.seq
        BY <2>2, <3>3, <3>4
      <4> QED
        BY <1>1, <3>3, <3>6, <4>1 DEF HiddenFrom
    <3>7. CASE last.turn # e.turn /\ last \in ToSet(log)
      <4>1. e.seq # last.seq
        BY <3>7, LogNumbers
      <4>2. e.seq < last.seq
        BY <2>2, <3>3, <3>4, <4>1
      <4>3. last.turn = e.turn
        BY <1>6, <2>1, <3>4, <3>7, <4>2 DEF TurnsApart, InTurns
      <4> QED
        BY <3>7, <4>3
    <3> QED
      BY <3>3, <3>5, <3>6, <3>7 DEF Made
  <2> QED
    BY <2>3, <2>4
<1>7. BatchFull(r, ToSet(log))
  BY <1>6 DEF BatchFull
<1> QED
  BY <1>5, <1>7

\* What it gets next was next: all that is above it is still to come.
LEMMA GetsInFull ==
  ASSUME OrderInv, PagesFull, NEW f \in Followers, NEW r, Gets(stream[f], r)
  PROVE  GotFull(r, ToSet(log)) /\ BatchFull(r, ToSet(log)) /\ GoesOn(r)
<1> DEFINE s == stream[f]
           next == Head(s.batch)
<1>1. s \in Stream /\ PageInOrder(s)
  BY DEF OrderInv, PagesInv, PageInOrder
<1>2. GotFull(s, ToSet(log)) /\ BatchFull(s, ToSet(log))
  BY DEF PagesFull
<1>3. Received(f) = ToSet(s.got) \cup ToSet(s.batch)
  BY DEF Received
<1> HIDE DEF s
<1>4. /\ ToSet(s.batch) = {next} \cup ToSet(r.batch)
      /\ ToSet(r.got) = ToSet(s.got) \cup {next}
      /\ \A d \in ToSet(r.batch) : d.seq > next.seq
      /\ r.after = next.seq /\ r.got # << >> /\ Last(r.got) = next
  BY <1>1, GetsOne DEF s
<1> HIDE DEF next
<1>5. GoesOn(r)
  BY <1>4 DEF GoesOn
<1>6. \A e \in ToSet(log) : HiddenFrom(s.got, e) => HiddenFrom(r.got, e)
  BY <1>4 DEF HiddenFrom
<1>7. \A e \in ToSet(log) \cup {next} \cup ToSet(r.batch) : e.seq \in Nat
  <2>1. \A e \in ToSet(log) \cup Received(f) : e.seq \in Nat
    BY ListsAreEvents
  <2> QED
    BY <1>3, <1>4, <2>1
<1>8. ASSUME NEW d \in ToSet(r.got), NEW e \in ToSet(log), e.turn = d.turn, e.seq < d.seq
      PROVE  e \in ToSet(r.got) \/ HiddenFrom(r.got, e)
  <2>1. CASE d \in ToSet(s.got)
    BY <1>2, <1>4, <1>6, <1>8, <2>1 DEF GotFull
  <2>2. CASE d = next
    <3>1. e \in ToSet(s.batch) \cup ToSet(s.got) \/ HiddenFrom(s.got, e)
      BY <1>2, <1>4, <1>8, <2>2 DEF BatchFull
    <3>2. e \notin ToSet(r.batch)
      BY <1>4, <1>7, <1>8, <2>2
    <3> QED
      BY <1>4, <1>6, <3>1, <3>2
  <2> QED
    BY <1>4, <2>1, <2>2
<1>9. ASSUME NEW d \in ToSet(r.batch), NEW e \in ToSet(log), e.turn = d.turn, e.seq < d.seq
      PROVE  e \in ToSet(r.batch) \cup ToSet(r.got) \/ HiddenFrom(r.got, e)
  <2>1. e \in ToSet(s.batch) \cup ToSet(s.got) \/ HiddenFrom(s.got, e)
    BY <1>2, <1>4, <1>9 DEF BatchFull
  <2> QED
    BY <1>4, <1>6, <2>1
<1> QED
  BY <1>5, <1>8, <1>9 DEF GotFull, BatchFull

\* Without a batch there is nothing it could miss before.
LEMMA FreshInFull ==
  ASSUME PagesFull, NEW f \in Followers, NEW r, Fresh(stream[f], r)
  PROVE  GotFull(r, ToSet(log)) /\ BatchFull(r, ToSet(log)) /\ GoesOn(r)
<1>1. ToSet(r.batch) = {} /\ r.got = stream[f].got /\ GoesOn(r)
  BY DEF Fresh, ToSet
<1>2. GotFull(stream[f], ToSet(log))
  BY DEF PagesFull
<1> QED
  BY <1>1, <1>2 DEF GotFull, BatchFull

\* A new event is above all that a page has of its turn.
LEMMA EmittedInFull ==
  ASSUME OrderInv, MadeInv, PagesFull, NEW t \in Turns, NEW event \in Event, Emitted(t, event)
  PROVE  PagesFull'
<1> SUFFICES ASSUME NEW f \in Followers
             PROVE  /\ GotFull(stream[f], ToSet(log')) /\ BatchFull(stream[f], ToSet(log'))
                    /\ GoesOn(stream[f])
  BY DEF PagesFull, Emitted
<1>1. ToSet(log') \subseteq ToSet(log) \cup {event} /\ event.turn = t /\ event.seq = turn[t].seq + 1
  BY DEF Emitted
<1>2. \A d \in Received(f) : d.turn = t => ~(event.seq < d.seq)
  <2>1. \A d \in Received(f) : Made(d) /\ d.seq \in Nat
    BY ListsAreEvents DEF MadeInv
  <2>2. turn[t].seq \in Nat
    BY ListsAreEvents
  <2> QED
    BY <1>1, <2>1, <2>2 DEF Made
<1>3. GotFull(stream[f], ToSet(log)) /\ BatchFull(stream[f], ToSet(log)) /\ GoesOn(stream[f])
  BY DEF PagesFull
<1>4. GotFull(stream[f], ToSet(log'))
  BY <1>1, <1>2, <1>3 DEF GotFull, Received
<1>5. BatchFull(stream[f], ToSet(log'))
  BY <1>1, <1>2, <1>3 DEF BatchFull, Received
<1> QED
  BY <1>3, <1>4, <1>5

LEMMA FullStep ==
  ASSUME OrderInv, MadeInv, TurnsApart, PagesFull, [EventsNext]_vars
  PROVE  PagesFull'
<1>1. ASSUME NEW t \in Turns, Emits(t) PROVE PagesFull'
  BY <1>1, EmitsEvent, EmittedInFull
<1>2. ASSUME stream' = stream, log' = log PROVE PagesFull'
  BY <1>2 DEF PagesFull
<1>3. ASSUME NEW t \in Turns, Moves(t) PROVE PagesFull'
  BY <1>2, <1>3, MovesOne DEF OrderInv
<1>4. ASSUME NEW t \in Turns, Begin(t) \/ DropList(t) PROVE PagesFull'
  BY <1>2, <1>4 DEF Begin, DropList
<1>5. CASE Reconcile \/ UNCHANGED vars
  BY <1>2, <1>5 DEF Reconcile, vars
<1>6. ASSUME NEW f \in Followers, Follow(f) PROVE PagesFull'
  <2>1. /\ log' = log
        /\ \A g \in Followers : g # f => stream'[g] = stream[g]
    BY <1>6, FollowOne DEF OrderInv
  <2>2. /\ GotFull(stream'[f], ToSet(log)) /\ BatchFull(stream'[f], ToSet(log))
        /\ GoesOn(stream'[f])
    <3>1. CASE Fresh(stream[f], stream'[f])
      BY <3>1, FreshInFull
    <3>2. CASE \E events \in {log, live} : Takes(stream[f], stream'[f], events)
      BY <3>2, TakesInFull
    <3>3. CASE Gets(stream[f], stream'[f])
      BY <3>3, GetsInFull
    <3>4. CASE Same(stream[f], stream'[f])
      BY <3>4 DEF Same, PagesFull, GotFull, BatchFull, GoesOn
    <3> QED
      BY <1>6, <3>1, <3>2, <3>3, <3>4, PageKinds
  <2> QED
    BY <2>1, <2>2 DEF PagesFull
<1>7. CASE Restart
  <2> SUFFICES ASSUME NEW f \in Followers
               PROVE  /\ GotFull(stream'[f], ToSet(log)) /\ BatchFull(stream'[f], ToSet(log))
                      /\ GoesOn(stream'[f])
    BY <1>7 DEF Restart, PagesFull
  <2>1. stream'[f] = IF stream[f].pc = "ended" THEN stream[f] ELSE Off(stream[f].got)
    BY <1>7 DEF Restart
  <2>2. CASE stream'[f] = stream[f]
    BY <2>2 DEF PagesFull
  <2>3. CASE stream'[f] = Off(stream[f].got)
    <3>1. Fresh(stream[f], Off(stream[f].got))
      BY DEF Fresh, Off, GoesOn, Connected
    <3> QED
      BY <2>3, <3>1, FreshInFull
  <2> QED
    BY <2>1, <2>2, <2>3
<1> QED
  BY StepKinds, <1>1, <1>3, <1>4, <1>5, <1>6, <1>7

LEMMA FullInitInv == EventsInit => FullInv
<1> SUFFICES ASSUME EventsInit PROVE FullInv
  OBVIOUS
<1>1. OrderInv
  BY OrderInitInv
<1>2. ToSet(log) = {} /\ ToSet(live) = {}
  BY DEF EventsInit, ToSet
<1>3. \A f \in Followers : /\ stream[f] = Off(<< >>)
                           /\ ToSet(stream[f].got) = {} /\ ToSet(stream[f].batch) = {}
  BY DEF EventsInit, ToSet, Off
<1>4. MadeInv
  BY <1>2, <1>3 DEF MadeInv, Received
<1>5. FreedInv
  BY DEF EventsInit, FreedInv
<1>6. InTurns /\ LiveHas
  BY <1>2 DEF InTurns, LiveHas
<1>7. PagesFull
  BY <1>2, <1>3 DEF PagesFull, GotFull, BatchFull, GoesOn, Off, Connected
<1> QED
  BY <1>1, <1>4, <1>5, <1>6, <1>7 DEF FullInv

\* A follow-up that claims its run before the worker of the turn before has dropped the
\* list may lose its own list; without one, of each turn a page has every stored event
\* before the last one it has, whatever connections are lost and wherever the server
\* dies, except what a delta of a turn that its server did not survive numbers over.
THEOREM TurnInFullHolds ==
  ASSUME ~Overtake
  PROVE  EventsSpec => []TurnInFull
<1>1. FullInv /\ [EventsNext]_vars => FullInv'
  <2> SUFFICES ASSUME FullInv, [EventsNext]_vars PROVE FullInv'
    OBVIOUS
  <2>1. OrderInv' /\ MadeInv'
    BY OrderStep, MadeStep DEF FullInv
  <2>2. FreedInv'
    BY FreedStep DEF FullInv, OrderInv
  <2>3. TurnsApart'
    BY ApartStep DEF FullInv, TurnsApart
  <2>4. PagesFull'
    BY FullStep DEF FullInv, TurnsApart
  <2> QED
    BY <2>1, <2>2, <2>3, <2>4 DEF FullInv, TurnsApart
<1>2. FullInv => TurnInFull
  BY DEF FullInv, PagesFull, GotFull, HiddenFrom, TurnInFull, Hidden
<1> QED
  BY <1>1, <1>2, FullInitInv, PTL DEF EventsSpec

=============================================================================
