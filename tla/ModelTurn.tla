----------------------------- MODULE ModelTurn -----------------------------
(***************************************************************************)
(* One iteration of run_iterations (iterate.py) from the side of the model *)
(* service: an optional shortlist that the surrogate prices, a session in  *)
(* which the model may call read-only tools, the retries of each request,  *)
(* and the parsing of the answer.  The service is external: a request is   *)
(* answered, or fails in a way that is worth a retry or in one that is not.*)
(***************************************************************************)
EXTENDS Naturals, Sequences

CONSTANTS
    Turns,        \* iterations
    Attempts,     \* requests _retrying makes before it gives up; 5 in the code
    MaxCalls,     \* requests of one tool session; 12 in the code
    Offered,      \* the tools the session declares
    Named,        \* the names the model's calls may use
    CallsPerReply \* the calls of one reply: the model's bound

ASSUME TurnAssumption ==
    /\ Turns \in Nat \ {0} /\ Attempts \in Nat \ {0} /\ MaxCalls \in Nat \ {0}
    /\ CallsPerReply \in Nat

VARIABLES
    arm,     \* [tools, consult]: the session's --no-tools and --no-consult
    at,      \* where run_iterations is
    turn,    \* iterations begun
    attempt, \* failed requests of the present _retrying
    left,    \* requests the tool session may still make
    history, \* the messages sent with the next request: [role, calls, answers, text]
    todo,    \* calls of the last reply that are still to be run
    answers, \* what those that ran gave: [name, error]
    final,   \* the message whose text will be taken as the reply; 0 for none
    notes    \* the transcript: what each turn proposed

turnVars == <<arm, at, turn, attempt, left, history, todo, answers, final, notes>>

\* What a request is made of: unchanged by a retry.
talk == <<arm, turn, left, history, todo, answers, final, notes>>

Prompt == [role |-> "user", calls |-> <<>>, answers |-> <<>>, text |-> TRUE]

TurnInit ==
    /\ arm = [tools |-> FALSE, consult |-> FALSE]
    /\ at = "off" /\ turn = 0 /\ attempt = 0 /\ left = 0
    /\ history = <<>> /\ todo = <<>> /\ answers = <<>> /\ final = 0 /\ notes = <<>>

-----------------------------------------------------------------------------
\* The call of run_iterations, with the session's options.
EnterLoop ==
    /\ at = "off" /\ at' = "between"
    /\ arm' \in [tools : BOOLEAN, consult : BOOLEAN]
    /\ UNCHANGED <<turn, attempt, left, history, todo, answers, final, notes>>

BeginTurn ==
    /\ at = "between" /\ turn < Turns
    /\ turn' = turn + 1
    /\ at' = IF arm.consult THEN "draft" ELSE "ask"
    /\ attempt' = 0 /\ left' = MaxCalls
    /\ history' = <<Prompt>> /\ final' = 0
    /\ todo' = <<>> /\ answers' = <<>>
    /\ UNCHANGED <<arm, notes>>

\* Mutant: the attempts do not run out.
RetryForever ==
    /\ at \in {"draft", "ask"}
    /\ attempt' = (attempt + 1) % Attempts
    /\ UNCHANGED <<at, talk>>

\* _retrying: a quota or server error, with attempts left.
Retry ==
    /\ at \in {"draft", "ask"} /\ attempt < Attempts - 1
    /\ attempt' = attempt + 1
    /\ UNCHANGED <<at, talk>>

\* The shortlist: answered or failed for good, the turn goes on; the
\* surrogate's prices, if it gave any, are added to the prompt.
Draft ==
    /\ at = "draft"
    /\ at' = "ask" /\ attempt' = 0
    /\ UNCHANGED talk

\* An error that is not worth a retry, or the last attempt's: the loop breaks.
Lost ==
    /\ at = "ask"
    /\ at' = "over"
    /\ UNCHANGED <<attempt, talk>>

\* A session without tools: the reply is the text, which may be empty.
PlainReply ==
    /\ at = "ask" /\ ~arm.tools
    /\ at' = "replied"
    /\ final' \in {0, Len(history) + 1}
    /\ UNCHANGED <<arm, turn, attempt, left, history, todo, answers, notes>>

\* A candidate without content ends the session with the text there is.
EmptyReply ==
    /\ at = "ask" /\ arm.tools
    /\ at' = "replied"
    /\ UNCHANGED <<attempt, talk>>

\* A reply with any text and any calls; without calls it ends the session.
Reply ==
    /\ at = "ask" /\ arm.tools
    /\ \E n \in 0..CallsPerReply, text \in BOOLEAN : \E calls \in [1..n -> Named] :
          /\ history' = Append(history, [role |-> "model", calls |-> calls,
                                         answers |-> <<>>, text |-> text])
          /\ final' = IF text THEN Len(history) + 1 ELSE final
          /\ todo' = calls /\ answers' = <<>>
          /\ at' = IF n = 0 THEN "replied" ELSE "tools"
    /\ UNCHANGED <<arm, turn, attempt, left, notes>>

\* Mutant: a call that raises is passed over.
RunToolQuietly ==
    /\ at = "tools" /\ todo # <<>>
    /\ \E error \in BOOLEAN :
          /\ Head(todo) \notin Offered => error
          /\ answers' = IF error THEN answers
                        ELSE Append(answers, [name |-> Head(todo), error |-> error])
    /\ todo' = Tail(todo)
    /\ UNCHANGED <<arm, at, turn, attempt, left, history, final, notes>>

\* One call: a tool that is not offered, or that raises, is answered with the
\* exception.
RunTool ==
    /\ at = "tools" /\ todo # <<>>
    /\ \E error \in BOOLEAN :
          /\ Head(todo) \notin Offered => error
          /\ answers' = Append(answers, [name |-> Head(todo), error |-> error])
    /\ todo' = Tail(todo)
    /\ UNCHANGED <<arm, at, turn, attempt, left, history, final, notes>>

\* All the answers in one message, and the next request unless it was the last.
SendBack ==
    /\ at = "tools" /\ todo = <<>>
    /\ history' = Append(history, [role |-> "user", calls |-> <<>>,
                                   answers |-> answers, text |-> FALSE])
    /\ left' = left - 1 /\ attempt' = 0
    /\ at' = IF left' = 0 THEN "replied" ELSE "ask"
    /\ UNCHANGED <<arm, turn, todo, answers, final, notes>>

\* parse_proposals: how many of the text's objects are legal and new is the
\* model's doing.  The transcript is written before anything is built; a turn
\* that proposes nothing is the last.
Parse ==
    /\ at = "replied"
    /\ \E legal \in IF final = 0 THEN {FALSE} ELSE BOOLEAN :
          /\ notes' = Append(notes, legal)
          /\ at' = IF legal THEN "build" ELSE "over"
    /\ UNCHANGED <<arm, turn, attempt, left, history, todo, answers, final>>

\* build(): SurrogateLoop's matter.  After the last turn the loop returns.
Built ==
    /\ at = "build"
    /\ at' = IF turn < Turns THEN "between" ELSE "over"
    /\ UNCHANGED <<attempt, talk>>

TurnNext ==
    \/ EnterLoop \/ BeginTurn \/ Retry \/ Draft \/ Lost \/ PlainReply \/ EmptyReply \/ Reply
    \/ RunTool \/ SendBack \/ Parse \/ Built

-----------------------------------------------------------------------------
\* Whatever was retried and whichever tools failed, every request carries a
\* conversation the service accepts: user and model alternate, and a reply with
\* calls is followed by one message with an answer to each, in order
\* ("number of function response parts must equal number of function call
\* parts").
Paired ==
    at = "ask" =>
        /\ history[Len(history)].role = "user"
        /\ \A i \in 1..Len(history) :
              history[i].role = IF i % 2 = 1 THEN "user" ELSE "model"
        /\ \A i \in 1..(Len(history) - 1) :
              [j \in DOMAIN history[i + 1].answers |-> history[i + 1].answers[j].name]
                 = history[i].calls
=============================================================================
