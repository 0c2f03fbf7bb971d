------------------------------ MODULE OneSlot ------------------------------
(***************************************************************************)
(* What the advisor run manager (src/fo/serve/runs.py) promises, without   *)
(* its threads, its mutex and its flags: one run at a time has the slot,   *)
(* only that run has an engine, may be stopped and gets a verdict, and the *)
(* verdict waits for the engine to be gone.  RunSlot implements it.        *)
(***************************************************************************)
CONSTANTS Runs, Verdicts, NoRun

VARIABLES
  slot,     \* the run being executed, or NoRun
  engine,   \* whether an engine process is alive
  stopped,  \* whether the run in the slot was cancelled or halted
  record    \* what a reader finds of each run: nothing, "busy" or a verdict

vars == <<slot, engine, stopped, record>>

Init ==
  /\ slot = NoRun
  /\ engine = FALSE
  /\ stopped = FALSE
  /\ record = [r \in Runs |-> "none"]

\* A launch or a follow-up takes the free slot and its record reads as busy.
Claim(r) ==
  /\ slot = NoRun
  /\ ~engine
  /\ slot' = r
  /\ record' = [record EXCEPT ![r] = "busy"]
  /\ UNCHANGED <<engine, stopped>>

Start ==
  /\ slot # NoRun
  /\ ~engine
  /\ engine' = TRUE
  /\ UNCHANGED <<slot, stopped, record>>

Exit ==
  /\ engine' = FALSE
  /\ UNCHANGED <<slot, stopped, record>>

\* Only the run in the slot can be stopped.
Stop ==
  /\ slot # NoRun
  /\ stopped' = TRUE
  /\ UNCHANGED <<slot, engine, record>>

\* The run in the slot stores its progress ...
Save ==
  /\ slot # NoRun
  /\ record' = [record EXCEPT ![slot] = "busy"]
  /\ UNCHANGED <<slot, engine, stopped>>

\* ... and, after its engine, its verdict: "cancelled" only if it was stopped.
Settle(verdict) ==
  /\ slot # NoRun
  /\ ~engine
  /\ verdict = "cancelled" => stopped
  /\ record' = [record EXCEPT ![slot] = verdict]
  /\ UNCHANGED <<slot, engine, stopped>>

Free ==
  /\ ~engine
  /\ slot' = NoRun
  /\ stopped' = FALSE
  /\ UNCHANGED <<engine, record>>

\* Old records are deleted at any time.
Prune(r) ==
  /\ record' = [record EXCEPT ![r] = "none"]
  /\ UNCHANGED <<slot, engine, stopped>>

Next ==
  \/ \E r \in Runs : Claim(r) \/ Prune(r)
  \/ \E verdict \in Verdicts : Settle(verdict)
  \/ Start \/ Exit \/ Stop \/ Save \/ Free

Spec == Init /\ [][Next]_vars
=============================================================================
