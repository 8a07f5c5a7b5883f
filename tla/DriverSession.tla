--------------------------- MODULE DriverSession ---------------------------
(***************************************************************************)
(* main() of surrogate_loop.py with an agent: the set-up (Setup) and then  *)
(* the iterations with the model (ModelTurn).  One process, one step at a  *)
(* time.  What build() does between two turns is SurrogateLoop's.          *)
(***************************************************************************)
EXTENDS Setup, ModelTurn, Descent

vars == <<setupVars, turnVars>>

Init == SetupInit /\ TurnInit

\* On to the iterations.  Of the set-up only the screen's text and the surrogate
\* live on, and neither decides what a turn does: they are let go.
Iterate ==
    /\ step = "screened"
    /\ step' = "iterating"
    /\ k' = 0 /\ fmax' = FALSE /\ truths' = <<>> /\ preds' = <<>> /\ tries' = 0
    /\ factors' = {} /\ kShot' = 0 /\ current' = 0 /\ ranked' = <<>>
    /\ UNCHANGED <<queue, group, turnVars>>

Next ==
    \/ SetupNext /\ UNCHANGED turnVars
    \/ Iterate
    \/ step = "iterating" /\ TurnNext /\ UNCHANGED setupVars

\* The driver keeps going: each run of the flow has a time limit, and the model
\* service is taken to answer or to fail (a request with tools has a limit, one
\* without has none).
Spec == Init /\ [][Next]_vars /\ WF_vars(Next)

-----------------------------------------------------------------------------
\* However often requests are retried and whatever the model calls, main()
\* comes to its end: the set-up stops it, or the iterations are over.
SessionEnds == <>(step \in {"stopped", "raised"} \/ at = "over")

\* What a session has still to go through, the weightiest first: the steps of
\* main(), anchors, what is to be predicted or then looked at, the group that
\* ties; turns, the phases of one, requests, the next reply, attempts, calls.
Left ==
    <<1..[start |-> 7, placed |-> 6, anchors |-> 5, screen |-> 4, ranking |-> 3,
          screened |-> 2, iterating |-> 1, stopped |-> 0, raised |-> 0][step],
      (tries + 1)..k,
      IF step = "screen" THEN (Len(queue) + 1)..Cardinality(Grid) ELSE 1..Len(queue),
      1..Len(group),
      (turn + 1)..Turns,
      1..[off |-> 6, draft |-> 5, ask |-> 4, tools |-> 4, replied |-> 3,
          build |-> 2, between |-> 1, over |-> 0][at],
      1..left,
      IF at = "tools" THEN {} ELSE {"reply"},
      (attempt + 1)..Attempts,
      1..Len(todo)>>

\* No retry, tool call, turn or regrouping goes in a circle: each leaves less to
\* do, so that a session whose every step ends has an end.
SessionAdvances == [][Less(Left', Left)]_vars
=============================================================================
