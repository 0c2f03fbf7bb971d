----------------------------- MODULE Transcript -----------------------------
(***************************************************************************)
(* A run's events folded into the conversation the advisor page shows      *)
(* (app/src/lib/transcript.ts) and what the page draws of it               *)
(* (app/src/components/run-view.tsx).  An event carries a number, its kind *)
(* and what the fold reads of it; a text is the sequence of its pieces.    *)
(***************************************************************************)
EXTENDS Integers, Sequences, SequencesExt

empty == [items |-> <<>>, status |-> "none", last |-> 0, denied |-> 0, web |-> <<>>]

User(event) == [type |-> "user", seq |-> event.seq]
Said(event, text, streaming) ==
    [type |-> "assistant", seq |-> event.seq, text |-> text, streaming |-> streaming]
Ran(event, steps) == [type |-> "steps", seq |-> event.seq, steps |-> steps]
Recorded(event) == [type |-> "decision", seq |-> event.seq, id |-> event.id]
Step(event) == [id |-> event.id, nested |-> event.nested, ok |-> "running"]

\* The assistant's message is still streaming as the last item.
Streams(items) == items # <<>> /\ Last(items).type = "assistant" /\ Last(items).streaming
Steps(items) == items # <<>> /\ Last(items).type = "steps"

Replaced(items, item) == Append(Front(items), item)

Settled(step, event) == IF step.id = event.id THEN [step EXCEPT !.ok = event.ok] ELSE step

Holds(item, event) == item.type = "steps" /\ \E i \in DOMAIN item.steps : item.steps[i].id = event.id

\* The last steps that hold the call take its result.
WithResult(items, event) ==
    LET i == SelectLastInSeq(items, LAMBDA item : Holds(item, event))
    IN IF i = 0 THEN items
       ELSE [items EXCEPT ![i].steps = [j \in DOMAIN @ |-> Settled(@[j], event)]]

WithItem(items, event) ==
    CASE event.kind = "user" -> Append(items, User(event))
      [] event.kind = "delta" /\ ~event.nested ->
           IF Streams(items)
           THEN Replaced(items, [Last(items) EXCEPT !.text = @ \o event.text])
           ELSE Append(items, Said(event, event.text, TRUE))
      [] event.kind = "text" /\ ~event.nested ->
           IF Streams(items) THEN Replaced(items, Said(event, event.text, FALSE))
           ELSE Append(items, Said(event, event.text, FALSE))
      [] event.kind = "tool" ->
           IF Steps(items) THEN Replaced(items, [Last(items) EXCEPT !.steps = Append(@, Step(event))])
           ELSE Append(items, Ran(event, <<Step(event)>>))
      [] event.kind = "tool_result" -> WithResult(items, event)
      [] event.kind = "decision" /\ \A i \in DOMAIN items :
              ~(items[i].type = "decision" /\ items[i].id = event.id) ->
           Append(items, Recorded(event))
      [] OTHER -> items

Taken(state, event) ==
    [items |-> WithItem(state.items, event),
     status |-> IF event.kind = "status" THEN event.status ELSE state.status,
     last |-> event.seq,
     denied |-> state.denied + IF event.kind = "result" THEN event.denials ELSE 0,
     web |-> IF event.kind = "web" THEN Append(state.web, event.seq) ELSE state.web]

apply(state, event) == IF event.seq <= state.last THEN state ELSE Taken(state, event)

---------------------------------------------------------------------------
(* What the page draws *)

ACTIVE == {"queued", "running", "verifying"}

\* transcript.status ?? run?.status; "none" is no status.
StatusOf(transcript, status) == IF transcript.status # "none" THEN transcript.status ELSE status

Outcome(status) ==
    CASE status = "completed" -> "open report"
      [] status = "partial" -> "resume"
      [] status = "failed" -> "start over"
      [] status = "awaiting_input" -> "waiting"
      [] status = "cancelled" -> "continue"
      [] OTHER -> "nothing"
=============================================================================
