----------------------------- MODULE RunEvents -----------------------------
(***************************************************************************)
(* The events of one advisor run (src/fo/serve/runs.py, routes_runs.py and *)
(* server.py): the worker of each turn numbers them and appends them to    *)
(* the log and to the live list, followers replay the log and then wait on *)
(* the live list, the page folds what it gets (app/src/lib/transcript.ts)  *)
(* and reconnects with the last number it has.  The server may die: the    *)
(* log and the record stay, the live list and the numbers counted in       *)
(* memory are gone.                                                        *)
(*                                                                         *)
(* A turn is a launch, a follow-up or the judging of a run that an earlier *)
(* server left in progress.  As in RunRecovery with ~Eager, nothing is     *)
(* claimed while the server reconciles.                                    *)
(***************************************************************************)
EXTENDS Integers, Sequences, SequencesExt

CONSTANTS Turns,      \* turns; each is used once
          Followers,  \* pages that follow the run
          MaxSeq,     \* no engine output is numbered above this
          MaxBoots,   \* servers started one after the other
          Overtake,   \* whether a follow-up may come before `finish' dropped the list
          NoTurn, NoRecord

ASSUME EventsAssumption ==
  /\ NoTurn \notin Turns
  /\ NoRecord \notin [final : BOOLEAN, seq : Nat]
  /\ MaxSeq \in Nat
  /\ MaxBoots \in Nat \ {0}
  /\ Overtake \in BOOLEAN

VARIABLES
  active,      \* the turn of this run in the slot, or NoTurn
  stored,      \* the record on disk: whether its status is final, its counter
  turn,        \* each turn's program counter and the counter of its record
  log,         \* the stored events
  live,        \* the events of the turn in progress; a missing list reads as empty
  stream,      \* what each page's connection does
  boots,       \* servers started so far
  reconciled   \* whether this server has begun to reconcile

vars == <<active, stored, turn, log, live, stream, boots, reconciled>>

\* A delta is streamed and not stored; all other kinds are stored.
Event == [seq : Nat, turn : Turns, kind : {"user", "delta", "text", "verdict"}]
StoredRecord == [final : BOOLEAN, seq : Nat]

TurnPcs == {"none", "read", "claimed", "activated", "begun", "started", "running",
            "judging", "decided", "saved", "freed", "done"}

\* A connection: whether it sends, waits or is closed, the number it has sent last,
\* what it still has to send, whether it ends then; and all that the page received.
Stream == [pc : {"off", "replaying", "sending", "waiting", "ended"}, after : Nat,
           batch : Seq(Event), ending : BOOLEAN, got : Seq(Event)]

EventsTypeOK ==
  /\ active \in Turns \cup {NoTurn}
  /\ stored \in StoredRecord \cup {NoRecord}
  /\ turn \in [Turns -> [pc : TurnPcs, seq : Nat]]
  /\ log \in Seq(Event)
  /\ live \in Seq(Event)
  /\ stream \in [Followers -> Stream]
  /\ boots \in 1 .. MaxBoots
  /\ reconciled \in BOOLEAN

Off(got) == [pc |-> "off", after |-> 0, batch |-> << >>, ending |-> FALSE, got |-> got]

EventsInit ==
  /\ active = NoTurn
  /\ stored = NoRecord
  /\ turn = [t \in Turns |-> [pc |-> "none", seq |-> 0]]
  /\ log = << >>
  /\ live = << >>
  /\ stream = [f \in Followers |-> Off(<< >>)]
  /\ boots = 1
  /\ reconciled = FALSE

-----------------------------------------------------------------------------
At(t, pc) == turn[t].pc = pc
Goto(t, pc) == turn' = [turn EXCEPT ![t].pc = pc]
Settled == stored # NoRecord /\ stored.final
Judging == \E t \in Turns : turn[t].pc \in {"judging", "decided"} /\ active # t

\* The largest of a record's counter and the numbers in the log.
AfterLog(seq) == Max({seq} \cup {log[i].seq : i \in DOMAIN log})

\* What of a list is numbered above seq.
After(events, seq) ==
  LET Kept[n \in 0 .. Len(events)] ==
        IF n = 0 THEN << >>
        ELSE IF events[n].seq > seq THEN Append(Kept[n - 1], events[n]) ELSE Kept[n - 1]
  IN Kept[Len(events)]

\* `emit': one step under the lock the followers wait with.
Emit(t, kind, pc) ==
  LET event == [seq |-> turn[t].seq + 1, turn |-> t, kind |-> kind]
  IN /\ turn' = [turn EXCEPT ![t] = [pc |-> pc, seq |-> event.seq]]
     /\ log' = IF kind = "delta" THEN log ELSE Append(log, event)
     /\ live' = Append(live, event)

-----------------------------------------------------------------------------
(* A turn.                                                                 *)

LaunchUncounted(t) ==
  /\ At(t, "none")
  /\ stored = NoRecord
  /\ reconciled
  /\ stored' = [final |-> FALSE]
  /\ Goto(t, "claimed")
  /\ UNCHANGED <<active, log, live, stream, boots, reconciled>>

\* `launch' stores a record that counts from nothing.
Launch(t) ==
  /\ At(t, "none")
  /\ stored = NoRecord
  /\ reconciled
  /\ stored' = [final |-> FALSE, seq |-> 0]
  /\ Goto(t, "claimed")
  /\ UNCHANGED <<active, log, live, stream, boots, reconciled>>

\* `message' reads the record without the mutex ...
MessageRead(t) ==
  /\ At(t, "none")
  /\ Settled
  /\ reconciled
  /\ turn' = [turn EXCEPT ![t] = [pc |-> "read", seq |-> stored.seq]]
  /\ UNCHANGED <<active, stored, log, live, stream, boots, reconciled>>

\* ... and stores what it read when it has claimed the slot.
MessageClaim(t) ==
  /\ At(t, "read")
  /\ active = NoTurn
  /\ \A u \in Turns : turn[u].pc \notin {"claimed", "judging", "decided", "saved"}
  /\ Overtake \/ \A u \in Turns : ~At(u, "freed")
  /\ stored' = [final |-> FALSE, seq |-> turn[t].seq]
  /\ Goto(t, "claimed")
  /\ UNCHANGED <<active, log, live, stream, boots, reconciled>>

Activate(t) ==
  /\ At(t, "claimed")
  /\ active' = t
  /\ Goto(t, "activated")
  /\ UNCHANGED <<stored, log, live, stream, boots, reconciled>>

BeginFromRecord(t) ==
  /\ At(t, "activated")
  /\ turn' = [turn EXCEPT ![t].pc = "begun"]
  /\ live' = << >>
  /\ UNCHANGED <<active, stored, log, stream, boots, reconciled>>

\* `begin' counts on from the log and puts up a fresh list.
Begin(t) ==
  /\ At(t, "activated")
  /\ turn' = [turn EXCEPT ![t] = [pc |-> "begun", seq |-> AfterLog(turn[t].seq)]]
  /\ live' = << >>
  /\ UNCHANGED <<active, stored, log, stream, boots, reconciled>>

EmitUser(t) ==
  /\ At(t, "begun")
  /\ Emit(t, "user", "started")
  /\ UNCHANGED <<active, stored, stream, boots, reconciled>>

\* The running record is stored with the counter as it is now.
SaveRunning(t) ==
  /\ At(t, "started")
  /\ stored' = [final |-> FALSE, seq |-> turn[t].seq]
  /\ Goto(t, "running")
  /\ UNCHANGED <<active, log, live, stream, boots, reconciled>>

EmitOutput(t, kind) ==
  /\ At(t, "running")
  /\ turn[t].seq < MaxSeq
  /\ Emit(t, kind, "running")
  /\ UNCHANGED <<active, stored, stream, boots, reconciled>>

\* `finish' emits the status before it saves.
EmitVerdict(t) ==
  /\ turn[t].pc \in {"running", "judging"}
  /\ Emit(t, "verdict", "decided")
  /\ UNCHANGED <<active, stored, stream, boots, reconciled>>

SaveVerdict(t) ==
  /\ At(t, "decided")
  /\ stored' = [final |-> TRUE, seq |-> turn[t].seq]
  /\ Goto(t, "saved")
  /\ UNCHANGED <<active, log, live, stream, boots, reconciled>>

FreeUnsaved(t) ==
  /\ turn[t].pc \in {"decided", "saved"}
  /\ active' = NoTurn
  /\ Goto(t, "freed")
  /\ UNCHANGED <<stored, log, live, stream, boots, reconciled>>

\* It frees the slot under one lock ...
Free(t) ==
  /\ At(t, "saved")
  /\ active' = NoTurn
  /\ Goto(t, "freed")
  /\ UNCHANGED <<stored, log, live, stream, boots, reconciled>>

\* ... and drops the list, which wakes the followers, under another.
DropList(t) ==
  /\ At(t, "freed")
  /\ live' = << >>
  /\ Goto(t, "done")
  /\ UNCHANGED <<active, stored, log, stream, boots, reconciled>>

-----------------------------------------------------------------------------
(* The server dies and another one starts.                                 *)

Restart ==
  /\ boots < MaxBoots
  /\ boots' = boots + 1
  /\ reconciled' = FALSE
  /\ active' = NoTurn
  /\ live' = << >>
  /\ turn' = [t \in Turns |-> IF turn[t].pc \in {"none", "read"}
                              THEN [pc |-> "none", seq |-> 0]
                              ELSE [turn[t] EXCEPT !.pc = "done"]]
  /\ stream' = [f \in Followers |-> IF stream[f].pc = "ended"
                                    THEN stream[f] ELSE Off(stream[f].got)]
  /\ UNCHANGED <<stored, log>>

\* The first read: a record in progress is judged, counting on from the log.
Reconcile ==
  /\ ~reconciled
  /\ reconciled' = TRUE
  /\ IF stored = NoRecord \/ Settled
     THEN UNCHANGED turn
     ELSE \E t \in Turns :
            /\ At(t, "none")
            /\ turn' = [turn EXCEPT ![t] =
                          [pc |-> "judging", seq |-> AfterLog(stored.seq)]]
  /\ UNCHANGED <<active, stored, log, live, stream, boots>>

-----------------------------------------------------------------------------
(* A page that follows the run.                                            *)

\* The page connects for the first time, again after the connection was lost, or
\* after the end for a follow-up; it names the last event it has.
Connect(f) ==
  /\ stream[f].pc \in {"off", "ended"}
  /\ stored # NoRecord
  /\ reconciled
  /\ stream' = [stream EXCEPT ![f] =
       [Off(@.got) EXCEPT !.pc = "replaying",
                          !.after = IF stream[f].got = << >> THEN 0 ELSE Last(stream[f].got).seq]]
  /\ UNCHANGED <<active, stored, turn, log, live, boots, reconciled>>

Replay(f) ==
  /\ stream[f].pc = "replaying"
  /\ stream' = [stream EXCEPT ![f] =
       [@ EXCEPT !.pc = "sending", !.batch = After(log, stream[f].after)]]
  /\ UNCHANGED <<active, stored, turn, log, live, boots, reconciled>>

Send(f) ==
  /\ stream[f].pc = "sending"
  /\ stream[f].batch # << >>
  /\ LET s == stream[f]
         event == Head(s.batch)
     IN stream' = [stream EXCEPT ![f] =
          [s EXCEPT !.batch = Tail(s.batch), !.after = event.seq, !.got = Append(s.got, event)]]
  /\ UNCHANGED <<active, stored, turn, log, live, boots, reconciled>>

Sent(f) ==
  /\ stream[f].pc = "sending"
  /\ stream[f].batch = << >>
  /\ stream' = [stream EXCEPT ![f].pc = IF stream[f].ending THEN "ended" ELSE "waiting"]
  /\ UNCHANGED <<active, stored, turn, log, live, boots, reconciled>>

WaitUnfiltered(f) ==
  /\ stream[f].pc = "waiting"
  /\ IF active # NoTurn
     THEN /\ After(live, stream[f].after) # << >>
          /\ stream' = [stream EXCEPT ![f] = [@ EXCEPT !.pc = "sending", !.batch = live]]
     ELSE stream' = [stream EXCEPT ![f] =
            [@ EXCEPT !.pc = "sending", !.ending = TRUE, !.batch = After(log, stream[f].after)]]
  /\ UNCHANGED <<active, stored, turn, log, live, boots, reconciled>>

WaitForgets(f) ==
  /\ stream[f].pc = "waiting"
  /\ IF active # NoTurn
     THEN /\ After(live, stream[f].after) # << >>
          /\ stream' = [stream EXCEPT ![f] =
               [@ EXCEPT !.pc = "sending", !.batch = <<Last(live)>>]]
     ELSE stream' = [stream EXCEPT ![f] =
            [@ EXCEPT !.pc = "sending", !.ending = TRUE, !.batch = After(log, stream[f].after)]]
  /\ UNCHANGED <<active, stored, turn, log, live, boots, reconciled>>

\* `wait': while the run is active, what is new in the list; then the rest of the
\* log, and the end.  A wait that times out changes nothing.
Wait(f) ==
  /\ stream[f].pc = "waiting"
  /\ IF active # NoTurn
     THEN LET fresh == After(live, stream[f].after)
          IN /\ fresh # << >>
             /\ stream' = [stream EXCEPT ![f] = [@ EXCEPT !.pc = "sending", !.batch = fresh]]
     ELSE stream' = [stream EXCEPT ![f] =
            [@ EXCEPT !.pc = "sending", !.ending = TRUE, !.batch = After(log, stream[f].after)]]
  /\ UNCHANGED <<active, stored, turn, log, live, boots, reconciled>>

\* The connection is lost with what was not received yet.
Lose(f) ==
  /\ stream[f].pc \in {"replaying", "sending", "waiting"}
  /\ stream' = [stream EXCEPT ![f] = Off(@.got)]
  /\ UNCHANGED <<active, stored, turn, log, live, boots, reconciled>>

-----------------------------------------------------------------------------
Work(t) ==
  \/ Activate(t) \/ Begin(t) \/ EmitUser(t) \/ SaveRunning(t)
  \/ \E kind \in {"delta", "text"} : EmitOutput(t, kind)
  \/ EmitVerdict(t) \/ SaveVerdict(t) \/ Free(t) \/ DropList(t)

Follow(f) == Connect(f) \/ Replay(f) \/ Send(f) \/ Sent(f) \/ Wait(f) \/ Lose(f)

EventsNext ==
  \/ \E t \in Turns : Launch(t) \/ MessageRead(t) \/ MessageClaim(t) \/ Work(t)
  \/ Reconcile \/ Restart
  \/ \E f \in Followers : Follow(f)

EventsSpec == EventsInit /\ [][EventsNext]_vars

-----------------------------------------------------------------------------
(* What a user relies on.                                                  *)

Growing(events) == \A i, j \in DOMAIN events : i < j => events[i].seq < events[j].seq

\* No number is stored twice and none is out of order, whatever record a follow-up
\* counted on from and wherever the server died.
LogGrows == Growing(log)

\* A page gets every event at most once and in order, across the switch from the
\* log to the live list, lost connections and restarts.
FollowerInOrder == \A f \in Followers : Growing(stream[f].got)

\* Of each turn, a page has every stored event before the last one it has, except
\* one that is numbered below a delta of a turn that its server did not survive.
Hidden(f, event) ==
  \E d \in ToSet(stream[f].got) :
    d.kind = "delta" /\ d.seq >= event.seq /\ d.turn # event.turn
TurnInFull ==
  \A f \in Followers : \A d \in ToSet(stream[f].got), event \in ToSet(log) :
    event.turn = d.turn /\ event.seq < d.seq =>
      event \in ToSet(stream[f].got) \/ Hidden(f, event)

\* The server ends a stream only when the verdict is stored, for the page then
\* reads the record once and for all; or while a turn is being claimed or judged.
EndsWhenSettled ==
  [][\A f \in Followers : stream'[f].ending /\ ~stream[f].ending =>
       \/ Settled
       \/ Judging
       \/ \E t \in Turns : At(t, "claimed")]_vars
=============================================================================
