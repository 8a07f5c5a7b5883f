------------------------ MODULE DriverSessionProofs ------------------------
(***************************************************************************)
(* What holds of the driver's session for any policy, grid and surrogate,  *)
(* any number of anchors, turns, attempts and tool calls: the anchors are  *)
(* honest (Setup), the ranking is sound (Setup), and every conversation is *)
(* one the service accepts (ModelTurn).                                    *)
(***************************************************************************)
EXTENDS DriverSession, FiniteSetTheorems, TLAPS

-----------------------------------------------------------------------------
(* The anchors.                                                            *)

Truth == [of : Nat, measured : SUBSET Metrics]
Pred  == [of : Nat, scaled : BOOLEAN]

\* The lists that surrogate.calibrate zips are of one length, the i-th of each
\* is about the same anchor, and no factor is there before the last anchor ran.
AnchorInv ==
    /\ tries \in Nat
    /\ truths \in Seq(Truth) /\ preds \in Seq(Pred) /\ Len(truths) = Len(preds)
    /\ \A i \in 1..Len(truths) : truths[i].of = preds[i].of /\ ~preds[i].scaled
    /\ step \in {"start", "placed", "anchors"} => factors = {}
    /\ CalibrationHonest

-----------------------------------------------------------------------------
(* The screen.                                                             *)

Entry == [knobs : Grid, score : Nat]

Configs(entries) == {entries[i].knobs : i \in 1..Len(entries)}

\* How many configurations of the grid are predicted before one.
Position(g) == Cardinality({h \in Grid : Before(h, g)})

Sorted(entries) ==
    \A i, j \in 1..Len(entries) : i < j => entries[i].score <= entries[j].score

\* None of these is better than one of those by more than a tie.
NotAfter(these, those) ==
    \A i \in 1..Len(these), j \in 1..Len(those) : these[i].score <= those[j].score + Tol

\* While the grid is predicted: what has been, once each, best first.
Predicting ==
    /\ queue \in Seq(Entry) /\ group = <<>> /\ ranked = <<>>
    /\ Sorted(queue)
    /\ \A i \in 1..Len(queue) : Position(queue[i].knobs) \in Nat /\ Position(queue[i].knobs) < Len(queue)
    /\ \A i, j \in 1..Len(queue) : i < j => queue[i].knobs # queue[j].knobs

\* While ties are broken: the grid is split over the three lists; a group ties
\* with its first, and what is out is before both of the others.
Breaking ==
    /\ queue \in Seq(Entry) /\ group \in Seq(Entry) /\ ranked \in Seq(Entry)
    /\ Len(queue) + Len(group) + Len(ranked) = Cardinality(Grid)
    /\ Configs(queue) \cup Configs(group) \cup Configs(ranked) = Grid
    /\ Sorted(queue)
    /\ \A i \in 1..Len(group) : current <= group[i].score /\ group[i].score <= current + Tol
    /\ group # <<>> => \A i \in 1..Len(queue) : current <= queue[i].score
    /\ \A i, j \in 1..Len(ranked) : i < j => ranked[i].score <= ranked[j].score + Tol
    /\ NotAfter(ranked, group) /\ NotAfter(ranked, queue)

ScreenInv ==
    /\ current \in Nat
    /\ step \in {"start", "placed", "anchors"} => queue = <<>> /\ group = <<>> /\ ranked = <<>>
    /\ step = "screen" => Predicting
    /\ step = "ranking" => Breaking
    /\ ScreenSound

-----------------------------------------------------------------------------
(* The conversation.                                                       *)

Answer  == [name : Named, error : BOOLEAN]
Message == [role : {"user", "model"}, calls : Seq(Named), answers : Seq(Answer), text : BOOLEAN]

\* The names that a message answers are the calls of the one before it.
Replies(message, before) ==
    /\ Len(message.answers) = Len(before.calls)
    /\ \A j \in 1..Len(before.calls) : message.answers[j].name = before.calls[j]

Conversation ==
    /\ history \in Seq(Message)
    /\ \A i \in 1..Len(history) :
          /\ i % 2 = 1 => history[i].role = "user" /\ history[i].calls = <<>>
          /\ i % 2 = 0 => history[i].role = "model" /\ history[i].answers = <<>>
    /\ \A i \in 1..(Len(history) - 1) : Replies(history[i + 1], history[i])

\* What has been answered and what is still to be run are the last reply's
\* calls, in their order.
Answering ==
    /\ history # <<>> /\ answers \in Seq(Answer) /\ todo \in Seq(Named)
    /\ Len(answers) + Len(todo) = Len(history[Len(history)].calls)
    /\ \A j \in 1..Len(answers) : answers[j].name = history[Len(history)].calls[j]
    /\ \A j \in 1..Len(todo) : todo[j] = history[Len(history)].calls[Len(answers) + j]

TurnInv ==
    /\ at \in {"draft", "ask"} => Conversation /\ Len(history) % 2 = 1
    /\ at = "tools" => Conversation /\ Len(history) % 2 = 0 /\ Answering

SessionInv == AnchorInv /\ ScreenInv /\ TurnInv

-----------------------------------------------------------------------------
\* One message more: the old ones stay in their places.
LEMMA OneMore ==
    ASSUME NEW S, NEW s \in Seq(S), NEW e \in S
    PROVE  /\ Append(s, e) \in Seq(S)
           /\ Len(Append(s, e)) = Len(s) + 1
           /\ \A i \in 1..Len(s) : Append(s, e)[i] = s[i]
           /\ Append(s, e)[Len(s) + 1] = e
OBVIOUS

LEMMA Parity ==
    ASSUME NEW n \in Nat
    PROVE  /\ n % 2 = 0 \/ n % 2 = 1
           /\ n % 2 = 0 => (n + 1) % 2 = 1
           /\ n % 2 = 1 => (n + 1) % 2 = 0
OBVIOUS

\* A conversation goes on with a message of the other side that answers the
\* calls of its last one.
LEMMA GoesOn ==
    ASSUME Conversation, history # <<>>, NEW message \in Message,
           history' = Append(history, message),
           Len(history) % 2 = 0 => message.role = "user" /\ message.calls = <<>>,
           Len(history) % 2 = 1 => message.role = "model" /\ message.answers = <<>>,
           Replies(message, history[Len(history)])
    PROVE  /\ Conversation'
           /\ Len(history') = Len(history) + 1
           /\ history'[Len(history')] = message
<1> DEFINE h == history  n == Len(history)
<1>1. h \in Seq(Message) /\ n \in Nat /\ n > 0
  BY DEF Conversation
<1>2. /\ history' \in Seq(Message) /\ Len(history') = n + 1
      /\ \A i \in 1..n : history'[i] = h[i]
      /\ history'[n + 1] = message
  BY <1>1, OneMore
<1>3. ASSUME NEW i \in 1..Len(history')
      PROVE  /\ i % 2 = 1 => history'[i].role = "user" /\ history'[i].calls = <<>>
             /\ i % 2 = 0 => history'[i].role = "model" /\ history'[i].answers = <<>>
  <2>1. CASE i \in 1..n
    BY <2>1, <1>2 DEF Conversation
  <2>2. CASE i = n + 1
    <3>1. (i % 2 = 1 => n % 2 = 0) /\ (i % 2 = 0 => n % 2 = 1)
      BY <2>2, <1>1, Parity
    <3> QED
      BY <3>1, <2>2, <1>2
  <2> QED
    BY <2>1, <2>2, <1>1, <1>2
<1>4. ASSUME NEW i \in 1..(Len(history') - 1)
      PROVE  Replies(history'[i + 1], history'[i])
  <2>1. CASE i \in 1..(n - 1)
    <3>1. history'[i + 1] = h[i + 1] /\ history'[i] = h[i]
      BY <2>1, <1>1, <1>2
    <3> QED
      BY <3>1, <2>1 DEF Conversation
  <2>2. CASE i = n
    BY <2>2, <1>1, <1>2
  <2> QED
    BY <2>1, <2>2, <1>1, <1>2
<1> QED
  BY <1>2, <1>3, <1>4 DEF Conversation

\* Answers to each of some calls, in order, bear the calls' names.
LEMMA InOrder ==
    ASSUME NEW given \in Seq(Answer), NEW calls \in Seq(Named), Len(given) = Len(calls),
           \A j \in 1..Len(calls) : given[j].name = calls[j]
    PROVE  [j \in DOMAIN given |-> given[j].name] = calls
OBVIOUS

\* A conversation that ends on the user's side is one the service accepts.
LEMMA Accepted ==
    ASSUME Conversation, Len(history) % 2 = 1
    PROVE  Paired
<1>1. history \in Seq(Message) /\ Len(history) \in Nat /\ Len(history) \in 1..Len(history)
  BY DEF Conversation
<1>2. history[Len(history)].role = "user"
  BY <1>1 DEF Conversation
<1>3. ASSUME NEW i \in 1..Len(history)
      PROVE  history[i].role = IF i % 2 = 1 THEN "user" ELSE "model"
  <2>1. i % 2 = 1 \/ i % 2 = 0
    BY <1>1, Parity
  <2> QED
    BY <2>1 DEF Conversation
<1>4. ASSUME NEW i \in 1..(Len(history) - 1)
      PROVE  [j \in DOMAIN history[i + 1].answers |-> history[i + 1].answers[j].name] = history[i].calls
  <2>1. i \in 1..Len(history) /\ i + 1 \in 1..Len(history)
    BY <1>1
  <2>2. history[i + 1].answers \in Seq(Answer) /\ history[i].calls \in Seq(Named)
    <3>1. history[i] \in Message /\ history[i + 1] \in Message
      BY <2>1, <1>1
    <3> QED
      BY <3>1 DEF Message
  <2>3. Replies(history[i + 1], history[i])
    BY DEF Conversation
  <2>4. /\ Len(history[i + 1].answers) = Len(history[i].calls)
        /\ \A j \in 1..Len(history[i].calls) :
              history[i + 1].answers[j].name = history[i].calls[j]
    BY <2>3 DEF Replies
  <2> QED
    BY <2>2, <2>4, InOrder, Zenon
<1> QED
  BY <1>2, <1>3, <1>4 DEF Paired

LEMMA TurnInit0 ==
    ASSUME TurnInit
    PROVE  TurnInv
BY DEF TurnInit, TurnInv

LEMMA TurnStep ==
    ASSUME TurnInv, TurnNext
    PROVE  TurnInv'
<1> USE DEF TurnInv
<1>1. CASE EnterLoop
  BY <1>1 DEF EnterLoop
<1>2. CASE BeginTurn
  <2>1. Prompt \in Message /\ Prompt.role = "user" /\ Prompt.calls = <<>>
    BY DEF Prompt, Message
  <2>2. history' = <<Prompt>> /\ at' \in {"draft", "ask"}
    BY <1>2 DEF BeginTurn
  <2>3. history' \in Seq(Message) /\ Len(history') = 1 /\ history'[1] = Prompt
    BY <2>1, <2>2
  <2>4. Conversation'
    BY <2>1, <2>3 DEF Conversation
  <2> QED
    BY <2>2, <2>3, <2>4
<1>3. CASE Retry \/ Draft
  <2>1. at \in {"draft", "ask"} /\ at' \in {"draft", "ask"} /\ history' = history
    BY <1>3 DEF Retry, Draft, talk
  <2> QED
    BY <2>1 DEF Conversation
<1>4. CASE Lost \/ PlainReply \/ EmptyReply \/ Parse \/ Built
  BY <1>4 DEF Lost, PlainReply, EmptyReply, Parse, Built
<1>5. CASE Reply
  <2>1. PICK n \in 0..CallsPerReply, text \in BOOLEAN : \E calls \in [1..n -> Named] :
            /\ history' = Append(history, [role |-> "model", calls |-> calls,
                                           answers |-> <<>>, text |-> text])
            /\ todo' = calls /\ answers' = <<>>
            /\ at' = IF n = 0 THEN "replied" ELSE "tools"
    BY <1>5 DEF Reply
  <2>2. PICK calls \in [1..n -> Named] :
            /\ history' = Append(history, [role |-> "model", calls |-> calls,
                                           answers |-> <<>>, text |-> text])
            /\ todo' = calls /\ answers' = <<>>
            /\ at' = IF n = 0 THEN "replied" ELSE "tools"
    BY <2>1
  <2> DEFINE message == [role |-> "model", calls |-> calls, answers |-> <<>>, text |-> text]
  <2>3. n \in Nat /\ calls \in Seq(Named)
    BY TurnAssumption
  <2>4. message \in Message /\ message.role = "model" /\ message.calls = calls /\ message.answers = <<>>
    BY <2>3 DEF Message
  <2>5. Conversation /\ Len(history) % 2 = 1
    BY <1>5 DEF Reply
  <2>6. history \in Seq(Message) /\ history # <<>> /\ Len(history) \in Nat /\ Len(history) \in 1..Len(history)
    BY <2>5 DEF Conversation
  <2>7. Replies(message, history[Len(history)])
    BY <2>4, <2>5, <2>6 DEF Conversation, Replies
  <2> HIDE DEF message
  <2>8. history' = Append(history, message)
    BY <2>2 DEF message
  <2>9. Conversation' /\ Len(history') = Len(history) + 1 /\ history'[Len(history')] = message
    BY <2>4, <2>5, <2>6, <2>7, <2>8, GoesOn
  <2>10. Len(history') % 2 = 0 /\ history' # <<>>
    <3>1. Len(history') % 2 = 0
      BY <2>5, <2>6, <2>9, Parity
    <3>2. history' \in Seq(Message) /\ Len(history') > 0
      BY <2>6, <2>9 DEF Conversation
    <3> QED
      BY <3>1, <3>2
  <2>11. Answering'
    BY <2>2, <2>3, <2>4, <2>9, <2>10 DEF Answering
  <2> QED
    BY <2>2, <2>9, <2>10, <2>11
<1>6. CASE RunTool
  <2>1. PICK error \in BOOLEAN : answers' = Append(answers, [name |-> Head(todo), error |-> error])
    BY <1>6 DEF RunTool
  <2>2. /\ todo # <<>> /\ todo' = Tail(todo) /\ history' = history /\ at' = "tools"
        /\ Conversation /\ Len(history) % 2 = 0 /\ Answering
    BY <1>6 DEF RunTool
  <2> DEFINE answer == [name |-> Head(todo), error |-> error]
             calls == history[Len(history)].calls
  <2>3. /\ answers \in Seq(Answer) /\ todo \in Seq(Named) /\ Len(todo) > 0
        /\ Len(answers) + Len(todo) = Len(calls)
        /\ \A j \in 1..Len(answers) : answers[j].name = calls[j]
        /\ \A j \in 1..Len(todo) : todo[j] = calls[Len(answers) + j]
    BY <2>2 DEF Answering
  <2>4. Head(todo) \in Named /\ Head(todo) = calls[Len(answers) + 1]
    BY <2>3
  <2>5. answer \in Answer /\ answer.name = calls[Len(answers) + 1]
    BY <2>4 DEF Answer
  <2> HIDE DEF answer, calls
  <2>6. /\ answers' \in Seq(Answer) /\ Len(answers') = Len(answers) + 1
        /\ \A j \in 1..Len(answers) : answers'[j] = answers[j]
        /\ answers'[Len(answers) + 1] = answer
    <3>1. answers' = Append(answers, answer)
      BY <2>1 DEF answer
    <3> QED
      BY <3>1, <2>3, <2>5, OneMore
  <2>7. /\ todo' \in Seq(Named) /\ Len(todo') = Len(todo) - 1
        /\ \A j \in 1..Len(todo') : todo'[j] = todo[j + 1]
    BY <2>2, <2>3
  <2>8. \A j \in 1..Len(answers') : answers'[j].name = calls[j]
    <3>1. ASSUME NEW j \in 1..Len(answers') PROVE j \in 1..Len(answers) \/ j = Len(answers) + 1
      BY <2>3, <2>6
    <3> QED
      BY <3>1, <2>3, <2>5, <2>6
  <2>9. \A j \in 1..Len(todo') : todo'[j] = calls[Len(answers') + j]
    <3> SUFFICES ASSUME NEW j \in 1..Len(todo')
                 PROVE  todo'[j] = calls[Len(answers') + j]
      OBVIOUS
    <3>1. j + 1 \in 1..Len(todo) /\ Len(answers') + j = Len(answers) + (j + 1)
      BY <2>3, <2>6, <2>7
    <3> QED
      BY <3>1, <2>3, <2>7
  <2>10. calls' = calls
    BY <2>2 DEF calls
  <2>11. Answering'
    <3>1. Len(answers') + Len(todo') = Len(calls)
      <4>1. Len(answers) \in Nat /\ Len(todo) \in Nat
        BY <2>3
      <4>2. Len(answers) + Len(todo) = Len(calls)
        BY <2>3
      <4>3. Len(answers') = Len(answers) + 1 /\ Len(todo') = Len(todo) - 1
        BY <2>6, <2>7
      <4> QED
        BY <4>1, <4>2, <4>3
    <3>2. history' # <<>>
      BY <2>2 DEF Answering
    <3> QED
      BY <3>1, <3>2, <2>2, <2>6, <2>7, <2>8, <2>9 DEF Answering, calls
  <2> QED
    BY <2>2, <2>11 DEF Conversation
<1>7. CASE SendBack
  <2>1. /\ todo = <<>> /\ at' \in {"replied", "ask"}
        /\ Conversation /\ Len(history) % 2 = 0 /\ Answering
        /\ history' = Append(history, [role |-> "user", calls |-> <<>>,
                                       answers |-> answers, text |-> FALSE])
    BY <1>7 DEF SendBack
  <2> DEFINE message == [role |-> "user", calls |-> <<>>, answers |-> answers, text |-> FALSE]
  <2>2. answers \in Seq(Answer) /\ history # <<>> /\ history \in Seq(Message)
    BY <2>1 DEF Answering, Conversation
  <2>3. message \in Message /\ message.role = "user" /\ message.calls = <<>> /\ message.answers = answers
    BY <2>2 DEF Message
  <2> HIDE DEF message
  <2>4. Replies(message, history[Len(history)])
    BY <2>1, <2>2, <2>3 DEF Answering, Replies
  <2>5. history' = Append(history, message)
    BY <2>1 DEF message
  <2>6. Conversation' /\ Len(history') = Len(history) + 1
    BY <2>1, <2>2, <2>3, <2>4, <2>5, GoesOn
  <2>7. Len(history') % 2 = 1
    <3>1. Len(history) \in Nat
      BY <2>2
    <3> QED
      BY <3>1, <2>1, <2>6, Parity
  <2> QED
    BY <2>1, <2>6, <2>7
<1> QED
  BY <1>1, <1>2, <1>3, <1>4, <1>5, <1>6, <1>7 DEF TurnNext

-----------------------------------------------------------------------------
LEMMA AnchorStep ==
    ASSUME AnchorInv, SetupNext
    PROVE  AnchorInv'
<1> USE DEF AnchorInv, CalibrationHonest
<1>1. CASE Place
  BY <1>1 DEF Place, screenVars
<1>2. CASE Register
  BY <1>2 DEF Register, screenVars
<1>3. CASE RunAnchor
  <2>1. /\ step = "anchors" /\ tries' = tries + 1 /\ factors = {}
        /\ step' = step /\ factors' = factors /\ kShot' = kShot
    BY <1>3 DEF RunAnchor
  <2>2. CASE truths' = truths /\ preds' = preds
    BY <2>1, <2>2
  <2>3. ASSUME NEW m \in SUBSET Metrics,
               truths' = Append(truths, [of |-> tries', measured |-> m]),
               preds' = Append(preds, [of |-> tries', scaled |-> factors # {}])
        PROVE  AnchorInv'
    <3> DEFINE n == Len(truths)
               truth == [of |-> tries', measured |-> m]
               pred == [of |-> tries', scaled |-> FALSE]
    <3>1. truth \in Truth /\ pred \in Pred /\ truth.of = pred.of /\ ~pred.scaled
      BY <2>1 DEF Truth, Pred
    <3>2. truths' = Append(truths, truth) /\ preds' = Append(preds, pred)
      BY <2>1, <2>3
    <3> HIDE DEF truth, pred
    <3>3. /\ truths' \in Seq(Truth) /\ Len(truths') = n + 1 /\ truths'[n + 1] = truth
          /\ \A i \in 1..n : truths'[i] = truths[i]
      BY <3>1, <3>2, OneMore
    <3>4. /\ preds' \in Seq(Pred) /\ Len(preds') = n + 1 /\ preds'[n + 1] = pred
          /\ \A i \in 1..n : preds'[i] = preds[i]
      BY <3>1, <3>2, OneMore
    <3>5. \A i \in 1..Len(truths') : truths'[i].of = preds'[i].of /\ ~preds'[i].scaled
      <4> SUFFICES ASSUME NEW i \in 1..Len(truths')
                   PROVE  truths'[i].of = preds'[i].of /\ ~preds'[i].scaled
        OBVIOUS
      <4>1. i \in 1..n \/ i = n + 1
        BY <3>3
      <4> QED
        BY <4>1, <3>1, <3>3, <3>4
    <3> QED
      BY <2>1, <3>3, <3>4, <3>5
  <2> QED
    BY <1>3, <2>2, <2>3 DEF RunAnchor
<1>4. CASE Anchor
  <2>1. /\ factors' = UNION {{[metric |-> m, truth |-> truths[i].of, pred |-> preds[i]] :
                                 m \in truths[i].measured} : i \in DOMAIN truths}
        /\ kShot' = IF factors' = {} THEN 0 ELSE Len(truths)
        /\ step' = "screen" /\ tries' = tries /\ truths' = truths /\ preds' = preds
    BY <1>4 DEF Anchor, Claimed
  <2>2. ASSUME NEW f \in factors'
        PROVE  f.pred.of = f.truth /\ ~f.pred.scaled /\ Len(truths) > 0
    <3>1. PICK i \in DOMAIN truths : f \in {[metric |-> m, truth |-> truths[i].of, pred |-> preds[i]] :
                                               m \in truths[i].measured}
      BY <2>1
    <3>2. f.truth = truths[i].of /\ f.pred = preds[i]
      BY <3>1
    <3>3. i \in 1..Len(truths) /\ Len(truths) \in Nat
      BY <3>1
    <3> QED
      BY <3>2, <3>3
  <2>3. kShot' > 0 <=> factors' # {}
    BY <2>1, <2>2
  <2> QED
    BY <2>1, <2>2, <2>3
<1>5. CASE AnchorRaises \/ WorkerLost
  BY <1>5 DEF AnchorRaises, WorkerLost, anchorVars
<1>6. CASE Predict \/ Predicted \/ Join \/ Flush \/ Ranked
  <2>1. /\ step \notin {"start", "placed", "anchors"} \/ step' = step
        /\ step' \notin {"start", "placed", "anchors"} \/ step' = step
        /\ UNCHANGED anchorVars
    BY <1>6 DEF Predict, Predicted, Join, Flush, Ranked
  <2> QED
    BY <2>1 DEF anchorVars
<1> QED
  BY <1>1, <1>2, <1>3, <1>4, <1>5, <1>6 DEF SetupNext

-----------------------------------------------------------------------------
\* Euclid's division.
LEMMA Quotient ==
    ASSUME NEW n \in Int, NEW m \in Nat \ {0}
    PROVE  n \div m \in Int /\ m * (n \div m) <= n /\ n < m * (n \div m) + m
OBVIOUS

LEMMA Products ==
    ASSUME NEW a \in Int, NEW b \in Int, NEW m \in Nat \ {0}
    PROVE  (m * a <= m * b <=> a <= b) /\ (m * a < m * b <=> a < b)
OBVIOUS

LEMMA Regroup ==
    ASSUME NEW a \in Int, NEW b \in Int, NEW c \in Int
    PROVE  (a * b) * c = a * (b * c) /\ (b * c) * a = a * (b * c) /\ a * b = b * a /\ b * c \in Int
OBVIOUS

\* What RoundTo gives is a multiple of the unit, no further from the quotient
\* than half a unit, and on the same side of every other multiple.
LEMMA Rounded ==
    ASSUME NEW n \in Int, NEW d \in Nat \ {0}, NEW u \in Nat \ {0}
    PROVE  /\ RoundTo(n, d, u) \in Int
           /\ 2 * (d * RoundTo(n, d, u) - n) <= u * d
           /\ 2 * (n - d * RoundTo(n, d, u)) <= u * d
           /\ \A a \in Int : d * (u * a) <= n => u * a <= RoundTo(n, d, u)
           /\ \A b \in Int : n <= d * (u * b) => RoundTo(n, d, u) <= u * b
<1> DEFINE m == d * u  q == n \div m  v == RoundTo(n, d, u)  r == n - d * (u * q)
<1>1. m \in Nat \ {0}
  OBVIOUS
<1>2. q \in Int /\ m * q <= n /\ n < m * q + m
  BY <1>1, Quotient
<1>3. m * q = d * (u * q) /\ (u * q) * d = d * (u * q) /\ u * d = m /\ u * q \in Int
  <2> HIDE DEF q
  <2> QED
    BY <1>2, Regroup
<1>4. r \in Int /\ 0 <= r /\ r < m
  BY <1>1, <1>2, <1>3
<1>5. v = IF 2 * r > m \/ (2 * r = m /\ ((u * q) \div u) % 2 = 1) THEN u * q + u ELSE u * q
  BY <1>3 DEF RoundTo
<1>6. /\ v = u * q \/ v = u * q + u
      /\ v = u * q + u => 2 * r >= m
      /\ v = u * q => 2 * r <= m
  BY <1>1, <1>3, <1>4, <1>5
<1>7. v \in Int
  BY <1>3, <1>6
<1>8. 2 * (d * v - n) <= m /\ 2 * (n - d * v) <= m
  <2>1. CASE v = u * q
    BY <2>1, <1>1, <1>3, <1>4, <1>6
  <2>2. CASE v = u * q + u
    <3>1. d * v = d * (u * q) + m
      BY <2>2, <1>3
    <3> QED
      BY <2>2, <3>1, <1>1, <1>3, <1>4, <1>6
  <2> QED
    BY <2>1, <2>2, <1>6
<1>9. ASSUME NEW a \in Int, d * (u * a) <= n
      PROVE  u * a <= v
  <2>1. m * a < m * (q + 1)
    BY <1>1, <1>2, <1>9
  <2>2. a <= q
    BY <2>1, <1>1, <1>2, Products
  <2>3. u * a <= u * q
    BY <2>2, <1>2, Products
  <2> QED
    BY <2>3, <1>3, <1>6
<1>10. ASSUME NEW b \in Int, n <= d * (u * b)
       PROVE  v <= u * b
  <2>1. m * q <= m * b /\ m * b = d * (u * b)
    BY <1>1, <1>2, <1>10
  <2>2. q <= b
    BY <2>1, <1>1, <1>2, Products
  <2>3. CASE q = b
    <3>1. r = 0
      BY <2>3, <1>3, <1>4, <1>10
    <3>2. v = u * q
      BY <3>1, <1>1, <1>5
    <3> QED
      BY <3>2, <2>3, <1>3
  <2>4. CASE q < b
    <3>1. u * (q + 1) <= u * b
      BY <2>4, <1>2, Products
    <3>2. u * (q + 1) = u * q + u
      BY <1>2
    <3> QED
      BY <3>1, <3>2, <1>3, <1>6
  <2> QED
    BY <2>2, <2>3, <2>4, <1>2
<1> HIDE DEF v
<1> QED
  BY <1>3, <1>7, <1>8, <1>9, <1>10 DEF v

-----------------------------------------------------------------------------
LEMMA Clipped ==
    ASSUME NEW name \in Screened
    PROVE  /\ Clip(name).low \in Int /\ Clip(name).high \in Int
           /\ Clip(name).low \in {Policy[name].low, Domain[name].low}
           /\ Clip(name).high \in {Policy[name].high, Domain[name].high}
           /\ Policy[name].low <= Clip(name).low /\ Domain[name].low <= Clip(name).low
           /\ Clip(name).high <= Policy[name].high /\ Clip(name).high <= Domain[name].high
           /\ Clip(name).low < Clip(name).high
<1>1. name \in Range(Names) /\ Clip(name).low < Clip(name).high
  BY SetupAssumption DEF Screened
<1>2. /\ Policy[name].low \in Int /\ Policy[name].high \in Int
      /\ Domain[name].low \in Int /\ Domain[name].high \in Int
  BY <1>1, SetupAssumption
<1>3. ASSUME NEW a \in Int, NEW b \in Int
      PROVE  /\ Max({a, b}) \in {a, b} /\ a <= Max({a, b}) /\ b <= Max({a, b})
             /\ Min({a, b}) \in {a, b} /\ Min({a, b}) <= a /\ Min({a, b}) <= b
  <2>1. Max({a, b}) = (IF a >= b THEN a ELSE b) /\ Min({a, b}) = (IF a >= b THEN b ELSE a)
    BY DEF Max, Min
  <2> QED
    BY <2>1
<1>4. /\ Clip(name).low = Max({Policy[name].low, Domain[name].low})
      /\ Clip(name).high = Min({Policy[name].high, Domain[name].high})
  BY DEF Clip
<1>5. /\ Clip(name).low \in {Policy[name].low, Domain[name].low}
      /\ Policy[name].low <= Clip(name).low /\ Domain[name].low <= Clip(name).low
  <2> DEFINE a == Policy[name].low  b == Domain[name].low
  <2>1. a \in Int /\ b \in Int /\ Clip(name).low = Max({a, b})
    BY <1>2, <1>4
  <2> HIDE DEF a, b
  <2>2. Max({a, b}) \in {a, b} /\ a <= Max({a, b}) /\ b <= Max({a, b})
    BY <2>1, <1>3
  <2>3. Clip(name).low \in {a, b} /\ a <= Clip(name).low /\ b <= Clip(name).low
    BY <2>1, <2>2
  <2> QED
    BY <2>3 DEF a, b
<1>6. /\ Clip(name).high \in {Policy[name].high, Domain[name].high}
      /\ Clip(name).high <= Policy[name].high /\ Clip(name).high <= Domain[name].high
  <2> DEFINE a == Policy[name].high  b == Domain[name].high
  <2>1. a \in Int /\ b \in Int /\ Clip(name).high = Min({a, b})
    BY <1>2, <1>4
  <2> HIDE DEF a, b
  <2>2. Min({a, b}) \in {a, b} /\ Min({a, b}) <= a /\ Min({a, b}) <= b
    BY <2>1, <1>3
  <2>3. Clip(name).high \in {a, b} /\ Clip(name).high <= a /\ Clip(name).high <= b
    BY <2>1, <2>2
  <2> QED
    BY <2>3 DEF a, b
<1>7. Clip(name).low \in Int /\ Clip(name).high \in Int
  BY <1>2, <1>5, <1>6, Zenon
<1> QED
  BY <1>1, <1>5, <1>6, <1>7, Zenon

\* No value of an axis leaves the clipped range by more than the rounding.
LEMMA PointInRange ==
    ASSUME NEW name \in Screened, NEW i \in 0..(PerAxis - 1)
    PROVE  /\ Point(name, i) \in Int
           /\ Clip(name).low - 5 <= Point(name, i) /\ Point(name, i) <= Clip(name).high + 5
<1> DEFINE low == Clip(name).low  high == Clip(name).high  d == PerAxis - 1
           n == low * d + i * (high - low)
           t == RoundTo(n, d, 10)
           v == Point(name, i)
<1>1. low \in Int /\ high \in Int /\ low < high /\ d \in Nat \ {0} /\ i \in 0..d
  BY Clipped, SetupAssumption
<1>2. v = IF Policy[name].kind = "int" THEN RoundTo(t, 1, Unit) ELSE t
  BY DEF Point
<1>3. low \in {Policy[name].low, Domain[name].low} /\ high \in {Policy[name].high, Domain[name].high}
  BY Clipped
<1> HIDE DEF low, high, d, v
<1>4. n \in Int /\ d * low <= n /\ n <= d * high
  <2>1. 0 <= i * (high - low) /\ i * (high - low) <= d * (high - low) /\ i * (high - low) \in Int
    BY <1>1
  <2>2. d * (high - low) = d * high - low * d /\ low * d = d * low /\ d * high \in Int /\ d * low \in Int
    BY <1>1
  <2> QED
    BY <2>1, <2>2
<1> HIDE DEF n
<1>5. t \in Int /\ 2 * (d * t - n) <= 10 * d /\ 2 * (n - d * t) <= 10 * d
  <2>1. 10 \in Nat \ {0}
    OBVIOUS
  <2> QED
    BY <2>1, <1>1, <1>4, Rounded
<1>6. low - 5 <= t /\ t <= high + 5
  <2>1. d * (low - 5) = d * low - 5 * d /\ d * (high + 5) = d * high + 5 * d /\ d * t \in Int
        /\ d * low \in Int /\ d * high \in Int
    BY <1>1, <1>5
  <2>2. d * (low - 5) <= d * t /\ d * t <= d * (high + 5)
    BY <2>1, <1>1, <1>4, <1>5
  <2> QED
    BY <2>2, <1>1, <1>5, Products
<1>7. CASE Policy[name].kind = "int"
  <2>1. low % Unit = 0 /\ high % Unit = 0
    <3>1. name \in Range(Names)
      BY SetupAssumption DEF Screened
    <3> QED
      BY <3>1, <1>3, <1>7, SetupAssumption
  <2>2. PICK a \in Int, b \in Int : low = Unit * a /\ high = Unit * b
    <3>1. low = Unit * (low \div Unit) /\ high = Unit * (high \div Unit)
      BY <2>1, <1>1 DEF Unit
    <3>2. low \div Unit \in Int /\ high \div Unit \in Int
      BY <1>1 DEF Unit
    <3> QED
      BY <3>1, <3>2
  <2>3. low = 10 * (1000 * a) /\ high = 10 * (1000 * b) /\ 1000 * a \in Int /\ 1000 * b \in Int
    BY <2>2 DEF Unit
  <2>4. low <= t /\ t <= high
    <3> DEFINE a0 == 1000 * a  b0 == 1000 * b
    <3>1. a0 \in Int /\ b0 \in Int /\ low = 10 * a0 /\ high = 10 * b0 /\ 10 \in Nat \ {0}
      BY <2>3
    <3> HIDE DEF a0, b0
    <3>2. d * (10 * a0) <= n /\ n <= d * (10 * b0)
      BY <3>1, <1>4
    <3>3. 10 * a0 <= t /\ t <= 10 * b0
      BY <3>1, <3>2, <1>1, <1>4, Rounded
    <3> QED
      BY <3>1, <3>3
  <2>5. v = RoundTo(t, 1, Unit) /\ Unit \in Nat \ {0} /\ 1 \in Nat \ {0}
    BY <1>2, <1>7 DEF Unit
  <2> HIDE DEF t
  <2>6. 1 * (Unit * a) <= t /\ t <= 1 * (Unit * b)
    BY <2>2, <2>4, <1>1, <1>5
  <2>7. v \in Int /\ Unit * a <= v /\ v <= Unit * b
    BY <2>5, <2>6, <1>5, Rounded
  <2> QED
    BY <2>2, <2>7, <1>1 DEF low, high, v
<1>8. CASE Policy[name].kind # "int"
  BY <1>2, <1>5, <1>6, <1>8 DEF low, high, v
<1> QED
  BY <1>7, <1>8

\* A configuration of the grid is within the policy's ranges and the fitted
\* ones, up to the rounding.
LEMMA GridInRange ==
    ASSUME NEW g \in Grid, NEW name \in Screened
    PROVE  /\ g[name] >= Policy[name].low - 5 /\ g[name] <= Policy[name].high + 5
           /\ g[name] >= Domain[name].low - 5 /\ g[name] <= Domain[name].high + 5
<1>1. PICK axis \in [Screened -> 0..(PerAxis - 1)] : g = [x \in Screened |-> Point(x, axis[x])]
  BY DEF Grid
<1>2. axis[name] \in 0..(PerAxis - 1) /\ g[name] = Point(name, axis[name])
  BY <1>1
<1> DEFINE v == g[name]
<1>3. v \in Int /\ Clip(name).low - 5 <= v /\ v <= Clip(name).high + 5
  BY <1>2, PointInRange
<1>4. /\ Policy[name].low \in Int /\ Policy[name].high \in Int
      /\ Domain[name].low \in Int /\ Domain[name].high \in Int
  <2>1. name \in Range(Names)
    BY SetupAssumption DEF Screened
  <2> QED
    BY <2>1, SetupAssumption
<1> QED
  BY <1>3, <1>4, Clipped

-----------------------------------------------------------------------------
\* There are finitely many functions from a finite set to a finite set.
LEMMA FiniteFunctions ==
    ASSUME NEW S, NEW T, IsFiniteSet(S), IsFiniteSet(T)
    PROVE  IsFiniteSet([S -> T])
<1> DEFINE F == [S -> T]
           graph == [f \in F |-> {<<x, f[x]>> : x \in S}]
<1>1. IsFiniteSet(SUBSET (S \X T))
  BY FS_Product, FS_SUBSET
<1>2. graph \in [F -> SUBSET (S \X T)]
  OBVIOUS
<1>3. ASSUME NEW f \in F, NEW g \in F, graph[f] = graph[g]
      PROVE  f = g
  <2>1. ASSUME NEW x \in S
        PROVE  f[x] = g[x]
    <3>1. <<x, f[x]>> \in graph[g]
      BY <1>3
    <3>2. PICK y \in S : <<x, f[x]>> = <<y, g[y]>>
      BY <3>1
    <3> QED
      BY <3>2
  <2> QED
    BY <2>1
<1> HIDE DEF graph
<1>4. graph \in Injection(F, SUBSET (S \X T))
  BY <1>2, <1>3 DEF Injection, IsInjective
<1> QED
  BY <1>1, <1>4, FS_Injection

LEMMA FiniteGrid == IsFiniteSet(Grid)
<1>1. IsFiniteSet(Screened)
  <2> DEFINE name == [i \in 1..Len(Names) |-> Names[i]]
  <2>1. Names \in Seq(STRING) /\ Len(Names) \in Nat
    BY SetupAssumption
  <2>2. name \in Surjection(1..Len(Names), Range(Names))
    BY <2>1 DEF Surjection, Range
  <2>3. IsFiniteSet(Range(Names))
    BY <2>1, <2>2, FS_Interval, FS_Surjection
  <2>4. Screened \subseteq Range(Names)
    BY SetupAssumption DEF Screened
  <2> QED
    BY <2>3, <2>4, FS_Subset
<1> DEFINE Axes == [Screened -> 0..(PerAxis - 1)]
           point == [axis \in Axes |-> [name \in Screened |-> Point(name, axis[name])]]
<1>2. IsFiniteSet(Axes)
  <2>1. IsFiniteSet(0..(PerAxis - 1))
    BY SetupAssumption, FS_Interval
  <2> QED
    BY <1>1, <2>1, FiniteFunctions
<1>3. CASE Screened = {}
  BY <1>3, FS_EmptySet DEF Grid
<1>4. CASE Screened # {}
  <2>1. Grid = {point[axis] : axis \in Axes}
    BY <1>4 DEF Grid
  <2> HIDE DEF point
  <2>2. DOMAIN point = Axes /\ point = [axis \in Axes |-> point[axis]]
    BY DEF point
  <2>3. point \in Surjection(Axes, Grid)
    BY <2>1, <2>2 DEF Surjection
  <2> QED
    BY <1>2, <2>3, FS_Surjection
<1> QED
  BY <1>3, <1>4

\* A list of different configurations as long as the grid holds all of it.
LEMMA WholeGrid ==
    ASSUME NEW q \in Seq(Entry), Len(q) = Cardinality(Grid),
           \A i, j \in 1..Len(q) : i < j => q[i].knobs # q[j].knobs
    PROVE  Configs(q) = Grid
<1> DEFINE n == Len(q)  config == [i \in 1..n |-> q[i].knobs]
<1>1. n \in Nat /\ \A i \in 1..n : q[i].knobs \in Grid
  <2>1. \A i \in 1..n : q[i] \in Entry
    OBVIOUS
  <2> QED
    BY <2>1 DEF Entry
<1>2. config \in [1..n -> Grid]
  BY <1>1
<1>3. ASSUME NEW i \in 1..n, NEW j \in 1..n, config[i] = config[j]
      PROVE  i = j
  <2>1. ~(i < j) /\ ~(j < i)
    BY <1>3
  <2> QED
    BY <2>1, <1>1
<1>4. config \in Injection(1..n, Grid)
  BY <1>2, <1>3 DEF Injection, IsInjective
<1>5. Cardinality(1..n) = Cardinality(Grid)
  BY <1>1, FS_Interval
<1>6. config \in Surjection(1..n, Grid)
  BY <1>4, <1>5, FiniteGrid, FS_Injection
<1>7. \A g \in Grid : \E i \in 1..n : config[i] = g
  BY <1>6 DEF Surjection
<1> QED
  BY <1>1, <1>7 DEF Configs

LEMMA Inserted ==
    ASSUME NEW S, NEW s \in Seq(S), NEW e \in S, NEW p \in 1..(Len(s) + 1)
    PROVE  /\ InsertAt(s, p, e) \in Seq(S)
           /\ Len(InsertAt(s, p, e)) = Len(s) + 1
           /\ \A i \in 1..(Len(s) + 1) :
                 InsertAt(s, p, e)[i] = IF i < p THEN s[i] ELSE IF i = p THEN e ELSE s[i - 1]
<1> DEFINE a == SubSeq(s, 1, p - 1)  b == SubSeq(s, p, Len(s))
<1>1. Len(s) \in Nat /\ p \in Nat
  OBVIOUS
<1>2. a \in Seq(S) /\ Len(a) = p - 1 /\ \A i \in 1..(p - 1) : a[i] = s[i]
  BY <1>1
<1>3. b \in Seq(S) /\ Len(b) = Len(s) - p + 1 /\ \A i \in 1..(Len(s) - p + 1) : b[i] = s[p + i - 1]
  BY <1>1
<1>4. <<e>> \in Seq(S) /\ Len(<<e>>) = 1 /\ <<e>>[1] = e
  OBVIOUS
<1>5. InsertAt(s, p, e) = (a \o <<e>>) \o b
  BY DEF InsertAt
<1> HIDE DEF a, b
<1> DEFINE c == a \o <<e>>
<1>6. c \in Seq(S) /\ Len(c) = p /\ c[p] = e /\ \A i \in 1..(p - 1) : c[i] = s[i]
  BY <1>1, <1>2, <1>4
<1> HIDE DEF c
<1>7. c \o b \in Seq(S) /\ Len(c \o b) = Len(s) + 1
  BY <1>1, <1>3, <1>6
<1>8. ASSUME NEW i \in 1..(Len(s) + 1)
      PROVE  (c \o b)[i] = IF i < p THEN s[i] ELSE IF i = p THEN e ELSE s[i - 1]
  <2>1. (i <= p => (c \o b)[i] = c[i]) /\ (i > p => (c \o b)[i] = b[i - p])
    BY <1>1, <1>3, <1>6
  <2>2. CASE i <= p
    BY <2>1, <2>2, <1>1, <1>6
  <2>3. CASE i > p
    <3>1. i - p \in 1..(Len(s) - p + 1) /\ p + (i - p) - 1 = i - 1
      BY <2>3, <1>1
    <3>2. b[i - p] = s[i - 1]
      BY <3>1, <1>3
    <3>3. ~(i < p) /\ i # p
      BY <2>3, <1>1
    <3>4. (c \o b)[i] = b[i - p]
      BY <2>1, <2>3
    <3> QED
      BY <3>2, <3>3, <3>4, Zenon
  <2>4. i <= p \/ i > p
    BY <1>1
  <2> QED
    BY <2>2, <2>3, <2>4, Zenon
<1> QED
  BY <1>5, <1>7, <1>8 DEF c

LEMMA Removed ==
    ASSUME NEW S, NEW s \in Seq(S), NEW p \in 1..Len(s)
    PROVE  /\ RemoveAt(s, p) \in Seq(S)
           /\ Len(RemoveAt(s, p)) = Len(s) - 1
           /\ \A i \in 1..(Len(s) - 1) : RemoveAt(s, p)[i] = IF i < p THEN s[i] ELSE s[i + 1]
<1> DEFINE a == SubSeq(s, 1, p - 1)  b == SubSeq(s, p + 1, Len(s))
<1>1. Len(s) \in Nat /\ p \in Nat
  OBVIOUS
<1>2. a \in Seq(S) /\ Len(a) = p - 1 /\ \A i \in 1..(p - 1) : a[i] = s[i]
  BY <1>1
<1>3. b \in Seq(S) /\ Len(b) = Len(s) - p /\ \A i \in 1..(Len(s) - p) : b[i] = s[p + i]
  BY <1>1
<1>4. RemoveAt(s, p) = a \o b
  BY DEF RemoveAt
<1> HIDE DEF a, b
<1>5. a \o b \in Seq(S) /\ Len(a \o b) = Len(s) - 1
  <2>1. a \in Seq(S) /\ b \in Seq(S)
    BY <1>2, <1>3
  <2>2. a \o b \in Seq(S) /\ Len(a \o b) = Len(a) + Len(b)
    BY <2>1
  <2>3. Len(a) = p - 1 /\ Len(b) = Len(s) - p
    BY <1>2, <1>3
  <2> QED
    BY <2>2, <2>3, <1>1
<1>6. ASSUME NEW i \in 1..(Len(s) - 1)
      PROVE  (a \o b)[i] = IF i < p THEN s[i] ELSE s[i + 1]
  <2>1. (i <= p - 1 => (a \o b)[i] = a[i]) /\ (i > p - 1 => (a \o b)[i] = b[i - (p - 1)])
    BY <1>1, <1>2, <1>3
  <2>2. CASE i < p
    BY <2>1, <2>2, <1>1, <1>2
  <2>3. CASE i >= p
    <3>1. i - (p - 1) \in 1..(Len(s) - p) /\ p + (i - (p - 1)) = i + 1
      BY <2>3, <1>1
    <3>2. b[i - (p - 1)] = s[i + 1]
      BY <3>1, <1>3
    <3>3. ~(i < p) /\ i > p - 1
      BY <2>3, <1>1
    <3>4. (a \o b)[i] = b[i - (p - 1)]
      BY <2>1, <3>3
    <3> QED
      BY <3>2, <3>3, <3>4, Zenon
  <2>4. i < p \/ i >= p
    BY <1>1
  <2> QED
    BY <2>2, <2>3, <2>4, Zenon
<1> QED
  BY <1>4, <1>5, <1>6

-----------------------------------------------------------------------------
LEMMA EntryType ==
    ASSUME NEW s \in Seq(Entry), NEW i \in 1..Len(s)
    PROVE  s[i] \in Entry /\ s[i].knobs \in Grid /\ s[i].score \in Nat
<1>1. s[i] \in Entry
  OBVIOUS
<1> QED
  BY <1>1 DEF Entry

LEMMA ConfigsNone == Configs(<<>>) = {}
BY DEF Configs

LEMMA ConfigsAppend ==
    ASSUME NEW s \in Seq(Entry), NEW e \in Entry
    PROVE  Configs(Append(s, e)) = Configs(s) \cup {e.knobs}
<1> DEFINE t == Append(s, e)
<1>1. /\ Len(s) \in Nat /\ Len(t) = Len(s) + 1 /\ t[Len(s) + 1] = e
      /\ \A i \in 1..Len(s) : t[i] = s[i]
  BY OneMore
<1> HIDE DEF t
<1>2. ASSUME NEW i \in 1..Len(t)
      PROVE  t[i].knobs \in Configs(s) \cup {e.knobs}
  <2>1. i \in 1..Len(s) \/ i = Len(s) + 1
    BY <1>1
  <2> QED
    BY <2>1, <1>1 DEF Configs
<1>3. ASSUME NEW i \in 1..Len(s)
      PROVE  s[i].knobs \in Configs(t)
  <2>1. i \in 1..Len(t) /\ t[i] = s[i]
    BY <1>1
  <2> QED
    BY <2>1 DEF Configs
<1>4. e.knobs \in Configs(t)
  <2>1. Len(s) + 1 \in 1..Len(t)
    BY <1>1
  <2> QED
    BY <2>1, <1>1 DEF Configs
<1>5. Configs(t) \subseteq Configs(s) \cup {e.knobs}
  BY <1>2 DEF Configs
<1>6. Configs(s) \subseteq Configs(t)
  BY <1>3 DEF Configs
<1> QED
  BY <1>4, <1>5, <1>6 DEF t

LEMMA ConfigsRemove ==
    ASSUME NEW s \in Seq(Entry), NEW p \in 1..Len(s), NEW t \in Seq(Entry),
           Len(t) = Len(s) - 1,
           \A i \in 1..(Len(s) - 1) : t[i] = IF i < p THEN s[i] ELSE s[i + 1]
    PROVE  Configs(s) = Configs(t) \cup {s[p].knobs}
<1>1. Len(s) \in Nat /\ p \in Nat
  OBVIOUS
<1>2. ASSUME NEW i \in 1..Len(t)
      PROVE  t[i].knobs \in Configs(s)
  <2>1. i \in 1..(Len(s) - 1) /\ i \in 1..Len(s) /\ i + 1 \in 1..Len(s)
    BY <1>1
  <2>2. t[i] = s[i] \/ t[i] = s[i + 1]
    BY <2>1, Zenon
  <2> QED
    BY <2>1, <2>2 DEF Configs
<1>3. ASSUME NEW i \in 1..Len(s)
      PROVE  s[i].knobs \in Configs(t) \cup {s[p].knobs}
  <2>1. CASE i < p
    <3>1. i \in 1..(Len(s) - 1) /\ i \in 1..Len(t)
      BY <2>1, <1>1
    <3>2. t[i] = s[i]
      BY <3>1, <2>1
    <3> QED
      BY <3>1, <3>2 DEF Configs
  <2>2. CASE i > p
    <3>1. i - 1 \in 1..(Len(s) - 1) /\ i - 1 \in 1..Len(t) /\ ~(i - 1 < p) /\ (i - 1) + 1 = i
      BY <2>2, <1>1
    <3>2. t[i - 1] = s[(i - 1) + 1]
      BY <3>1
    <3> QED
      BY <3>1, <3>2 DEF Configs
  <2>3. CASE i = p
    BY <2>3
  <2> QED
    BY <2>1, <2>2, <2>3, <1>1
<1>4. Configs(t) \subseteq Configs(s)
  BY <1>2 DEF Configs
<1>5. Configs(s) \subseteq Configs(t) \cup {s[p].knobs}
  BY <1>3 DEF Configs
<1>6. s[p].knobs \in Configs(s)
  BY DEF Configs
<1> QED
  BY <1>4, <1>5, <1>6

LEMMA HeadTail ==
    ASSUME NEW s \in Seq(Entry), s # <<>>
    PROVE  /\ Head(s) \in Entry /\ Head(s) = s[1] /\ 1 \in 1..Len(s)
           /\ Tail(s) \in Seq(Entry) /\ Len(Tail(s)) = Len(s) - 1
           /\ \A i \in 1..(Len(s) - 1) : Tail(s)[i] = s[i + 1]
           /\ Configs(s) = Configs(Tail(s)) \cup {Head(s).knobs}
<1> DEFINE t == Tail(s)
<1>1. /\ Head(s) \in Entry /\ Head(s) = s[1] /\ 1 \in 1..Len(s)
      /\ t \in Seq(Entry) /\ Len(t) = Len(s) - 1
      /\ \A i \in 1..(Len(s) - 1) : t[i] = s[i + 1]
  OBVIOUS
<1> HIDE DEF t
<1>2. \A i \in 1..(Len(s) - 1) : t[i] = IF i < 1 THEN s[i] ELSE s[i + 1]
  BY <1>1
<1>3. Configs(s) = Configs(t) \cup {s[1].knobs}
  BY <1>1, <1>2, ConfigsRemove
<1> QED
  BY <1>1, <1>3 DEF t

-----------------------------------------------------------------------------
LEMMA PredictStep ==
    ASSUME ScreenInv, Predict
    PROVE  ScreenInv'
<1>1. PICK g \in Grid, score \in 0..WorstScore :
          /\ Cardinality({h \in Grid : Before(h, g)}) = Len(queue)
          /\ \E p \in 1..(Len(queue) + 1) :
                /\ \A i \in DOMAIN queue : i < p <=> queue[i].score <= score
                /\ queue' = InsertAt(queue, p, [knobs |-> g, score |-> score])
  BY DEF Predict
<1>2. PICK p \in 1..(Len(queue) + 1) :
          /\ \A i \in DOMAIN queue : i < p <=> queue[i].score <= score
          /\ queue' = InsertAt(queue, p, [knobs |-> g, score |-> score])
  BY <1>1
<1> DEFINE entry == [knobs |-> g, score |-> score]
           n == Len(queue)
<1>3. Predicting /\ step = "screen" /\ step' = "screen" /\ group' = group /\ ranked' = ranked /\ current' = current
  BY DEF ScreenInv, Predict, screenVars
<1>4. queue \in Seq(Entry) /\ n \in Nat /\ DOMAIN queue = 1..n /\ Sorted(queue)
  BY <1>3 DEF Predicting
<1>5. entry \in Entry /\ entry.knobs = g /\ entry.score = score /\ score \in Nat /\ Position(g) = n
  BY <1>1, SetupAssumption DEF Entry, Position
<1> HIDE DEF entry
<1>6. /\ queue' \in Seq(Entry) /\ Len(queue') = n + 1
      /\ \A i \in 1..(n + 1) : queue'[i] = IF i < p THEN queue[i] ELSE IF i = p THEN entry ELSE queue[i - 1]
  <2>1. queue' = InsertAt(queue, p, entry) /\ entry \in Entry
    BY <1>2, <1>5 DEF entry
  <2>2. queue \in Seq(Entry) /\ p \in 1..(Len(queue) + 1)
    BY <1>2, <1>4
  <2> DEFINE q == InsertAt(queue, p, entry)
  <2>3. q \in Seq(Entry) /\ Len(q) = n + 1
    BY <2>1, <2>2, Inserted
  <2>4. \A s \in Seq(Entry), e \in Entry : \A r, i \in 1..(Len(s) + 1) :
            InsertAt(s, r, e)[i] = IF i < r THEN s[i] ELSE IF i = r THEN e ELSE s[i - 1]
    BY Inserted
  <2>5. ASSUME NEW i \in 1..(n + 1)
        PROVE  q[i] = IF i < p THEN queue[i] ELSE IF i = p THEN entry ELSE queue[i - 1]
    BY <2>1, <2>2, <2>4
  <2> QED
    BY <2>1, <2>3, <2>5, Zenon
\* Where each of the new queue's comes from.
<1>7. ASSUME NEW i \in 1..(n + 1)
      PROVE  \/ i < p /\ i \in 1..n /\ queue'[i] = queue[i] /\ queue[i].score <= score
             \/ i = p /\ queue'[i] = entry
             \/ i > p /\ i - 1 \in 1..n /\ queue'[i] = queue[i - 1] /\ score < queue[i - 1].score
  <2>1. CASE i < p
    <3>1. i \in 1..n /\ queue'[i] = queue[i]
      BY <2>1, <1>4, <1>6
    <3> QED
      BY <3>1, <2>1, <1>2, <1>4
  <2>2. CASE i = p
    BY <2>2, <1>6
  <2>3. CASE i > p
    <3>1. i - 1 \in 1..n /\ ~(i < p) /\ i # p /\ ~(i - 1 < p)
      BY <2>3, <1>4
    <3>2. queue'[i] = queue[i - 1]
      BY <3>1, <1>6
    <3>3. ~(queue[i - 1].score <= score) /\ queue[i - 1].score \in Nat
      BY <3>1, <1>2, <1>4, EntryType
    <3> QED
      BY <3>1, <3>2, <3>3, <2>3, <1>5
  <2>4. i < p \/ i = p \/ i > p
    BY <1>4
  <2> QED
    BY <2>1, <2>2, <2>3, <2>4
<1>8. Sorted(queue')
  <2> SUFFICES ASSUME NEW i \in 1..(n + 1), NEW j \in 1..(n + 1), i < j
               PROVE  queue'[i].score <= queue'[j].score
    BY <1>6 DEF Sorted
  <2>1. \A l \in 1..n : queue[l].score \in Nat
    BY <1>4, EntryType
  <2>2. \A l, m \in 1..n : l < m => queue[l].score <= queue[m].score
    BY <1>4 DEF Sorted
  <2>3. CASE i < p /\ j < p
    BY <2>3, <2>2, <1>7
  <2>4. CASE i < p /\ j = p
    BY <2>4, <1>5, <1>7
  <2>5. CASE i < p /\ j > p
    BY <2>5, <2>1, <1>5, <1>7
  <2>6. CASE i = p /\ j > p
    BY <2>6, <2>1, <1>5, <1>7
  <2>7. CASE i > p /\ j > p
    <3>1. i - 1 < j - 1
      BY <1>4
    <3>2. i - 1 \in 1..n /\ queue'[i] = queue[i - 1] /\ j - 1 \in 1..n /\ queue'[j] = queue[j - 1]
      BY <2>7, <1>7
    <3>3. queue[i - 1].score <= queue[j - 1].score
      BY <3>1, <3>2, <2>2
    <3> QED
      BY <3>2, <3>3
  <2> QED
    BY <2>3, <2>4, <2>5, <2>6, <2>7, <1>4
\* The one that is new is of a later position than the others.
<1>9. \A i \in 1..n : Position(queue[i].knobs) \in Nat /\ Position(queue[i].knobs) < n
  BY <1>3 DEF Predicting
<1>10. ASSUME NEW i \in 1..(n + 1)
       PROVE  Position(queue'[i].knobs) \in Nat /\ Position(queue'[i].knobs) < n + 1
  <2>1. Position(entry.knobs) \in Nat /\ Position(entry.knobs) < n + 1
    BY <1>4, <1>5
  <2>2. \A j \in 1..n : Position(queue[j].knobs) \in Nat /\ Position(queue[j].knobs) < n + 1
    BY <1>4, <1>9
  <2>3. queue'[i] = entry \/ \E j \in 1..n : queue'[i] = queue[j]
    BY <1>7
  <2> QED
    BY <2>1, <2>2, <2>3, Zenon
<1>11. ASSUME NEW i \in 1..(n + 1), NEW j \in 1..(n + 1), i < j
       PROVE  queue'[i].knobs # queue'[j].knobs
  <2>1. \A l \in 1..n : queue[l].knobs # g
    BY <1>4, <1>5, <1>9
  <2>2. \A l, m \in 1..n : l < m => queue[l].knobs # queue[m].knobs
    BY <1>3 DEF Predicting
  <2>3. CASE i < p /\ j < p
    BY <2>3, <2>2, <1>7, <1>11
  <2>4. CASE i < p /\ j = p
    BY <2>4, <2>1, <1>5, <1>7
  <2>5. CASE i < p /\ j > p
    <3>1. i < j - 1 /\ j - 1 \in 1..n /\ i \in 1..n
      BY <2>5, <1>4
    <3> QED
      BY <3>1, <2>5, <2>2, <1>7
  <2>6. CASE i = p /\ j > p
    BY <2>6, <2>1, <1>5, <1>7
  <2>7. CASE i > p /\ j > p
    <3>1. i - 1 < j - 1
      BY <1>4, <1>11
    <3> QED
      BY <3>1, <2>7, <2>2, <1>7
  <2> QED
    BY <2>3, <2>4, <2>5, <2>6, <2>7, <1>4, <1>11
<1>12. Predicting'
  BY <1>3, <1>6, <1>8, <1>10, <1>11 DEF Predicting, Sorted, Position
<1> QED
  BY <1>3, <1>12 DEF ScreenInv, ScreenSound

LEMMA JoinStep ==
    ASSUME ScreenInv, Join
    PROVE  ScreenInv'
<1> DEFINE best == Head(queue)  n == Len(queue)  m == Len(group)
<1>1. /\ Breaking /\ step = "ranking" /\ step' = "ranking" /\ ranked' = ranked /\ current \in Nat
      /\ queue # <<>> /\ group' = Append(group, best) /\ queue' = Tail(queue)
      /\ current' = IF group = <<>> THEN best.score ELSE current
      /\ group = <<>> \/ best.score - current <= Tol
  BY DEF ScreenInv, Join, Ties
<1>2. queue \in Seq(Entry) /\ group \in Seq(Entry) /\ ranked \in Seq(Entry)
      /\ n \in Nat /\ m \in Nat /\ Sorted(queue)
  BY <1>1 DEF Breaking
<1>3. /\ best \in Entry /\ best = queue[1] /\ 1 \in 1..n
      /\ queue' \in Seq(Entry) /\ Len(queue') = n - 1
      /\ \A i \in 1..(n - 1) : queue'[i] = queue[i + 1]
      /\ Configs(queue) = Configs(queue') \cup {best.knobs}
  BY <1>1, <1>2, HeadTail
<1>4. best.score \in Nat /\ Tol \in Nat
  BY <1>3, SetupAssumption DEF Entry
<1> HIDE DEF best
<1>5. /\ group' \in Seq(Entry) /\ Len(group') = m + 1 /\ group'[m + 1] = best
      /\ \A i \in 1..m : group'[i] = group[i]
  BY <1>1, <1>2, <1>3, OneMore
<1>6. Configs(group') = Configs(group) \cup {best.knobs}
  BY <1>1, <1>2, <1>3, ConfigsAppend
<1>7. /\ Len(queue') + Len(group') + Len(ranked') = Cardinality(Grid)
      /\ Configs(queue') \cup Configs(group') \cup Configs(ranked') = Grid
  <2>1. n + m + Len(ranked) = Cardinality(Grid) /\ Len(ranked) \in Nat
    BY <1>1, <1>2 DEF Breaking
  <2>2. Len(queue') + Len(group') = n + m
    BY <1>2, <1>3, <1>5
  <2>3. Configs(queue) \cup Configs(group) \cup Configs(ranked) = Grid
    BY <1>1 DEF Breaking
  <2>4. Configs(queue') \cup Configs(group') \cup Configs(ranked) = Grid
    BY <2>3, <1>3, <1>6
  <2> QED
    BY <2>1, <2>2, <2>4, <1>1
\* The best of the queue is no worse than what stays in it.
<1>8. /\ \A i \in 1..n : queue[i].score \in Nat /\ best.score <= queue[i].score
      /\ \A i \in 1..(n - 1) : i + 1 \in 1..n
  <2> SUFFICES ASSUME NEW i \in 1..n
               PROVE  queue[i].score \in Nat /\ best.score <= queue[i].score
    BY <1>2
  <2>1. queue[i].score \in Nat
    BY <1>2, EntryType
  <2>2. CASE i = 1
    BY <2>1, <2>2, <1>3
  <2>3. CASE 1 < i
    BY <2>1, <2>3, <1>2, <1>3 DEF Sorted
  <2> QED
    BY <2>2, <2>3, <1>2
<1>9. Sorted(queue')
  <2> SUFFICES ASSUME NEW i \in 1..(n - 1), NEW j \in 1..(n - 1), i < j
               PROVE  queue'[i].score <= queue'[j].score
    BY <1>3 DEF Sorted
  <2>1. i + 1 < j + 1 /\ i + 1 \in 1..n /\ j + 1 \in 1..n
    BY <1>2
  <2>2. queue[i + 1].score <= queue[j + 1].score
    BY <2>1, <1>2 DEF Sorted
  <2> QED
    BY <2>2, <1>3
<1>10. \A i \in 1..m : group[i].score \in Nat /\ current <= group[i].score /\ group[i].score <= current + Tol
  BY <1>1, <1>2, EntryType DEF Breaking
<1>11. /\ current' \in Nat /\ current' <= best.score /\ best.score <= current' + Tol
       /\ group # <<>> => current' = current
  <2>1. CASE group = <<>>
    BY <2>1, <1>1, <1>4
  <2>2. CASE group # <<>>
    BY <2>2, <1>1, <1>3, <1>4 DEF Breaking
  <2> QED
    BY <2>1, <2>2
<1>12. \A i \in 1..(m + 1) : current' <= group'[i].score /\ group'[i].score <= current' + Tol
  <2> SUFFICES ASSUME NEW i \in 1..(m + 1)
               PROVE  current' <= group'[i].score /\ group'[i].score <= current' + Tol
    OBVIOUS
  <2>1. CASE i = m + 1
    BY <2>1, <1>5, <1>11
  <2>2. CASE i \in 1..m
    <3>1. group # <<>>
      BY <2>2, <1>2
    <3> QED
      BY <3>1, <2>2, <1>5, <1>10, <1>11
  <2> QED
    BY <2>1, <2>2, <1>2
<1>13. \A i \in 1..(n - 1) : current' <= queue'[i].score
  <2> SUFFICES ASSUME NEW i \in 1..(n - 1)
               PROVE  current' <= queue'[i].score
    OBVIOUS
  <2>1. i + 1 \in 1..n /\ queue'[i] = queue[i + 1]
    BY <1>3, <1>8
  <2>2. queue[i + 1].score \in Nat /\ best.score <= queue[i + 1].score
    BY <2>1, <1>8
  <2> QED
    BY <2>1, <2>2, <1>4, <1>11
<1>14. NotAfter(ranked', group') /\ NotAfter(ranked', queue')
  <2> SUFFICES ASSUME NEW i \in 1..Len(ranked)
               PROVE  /\ \A j \in 1..(m + 1) : ranked[i].score <= group'[j].score + Tol
                      /\ \A j \in 1..(n - 1) : ranked[i].score <= queue'[j].score + Tol
    BY <1>1, <1>3, <1>5 DEF NotAfter
  <2>1. /\ \A j \in 1..m : ranked[i].score <= group[j].score + Tol
        /\ \A j \in 1..n : ranked[i].score <= queue[j].score + Tol
    BY <1>1 DEF Breaking, NotAfter
  <2>2. ASSUME NEW j \in 1..(m + 1)
        PROVE  ranked[i].score <= group'[j].score + Tol
    <3>1. j \in 1..m \/ j = m + 1
      BY <1>2
    <3> QED
      BY <3>1, <2>1, <1>3, <1>5
  <2>3. ASSUME NEW j \in 1..(n - 1)
        PROVE  ranked[i].score <= queue'[j].score + Tol
    BY <2>1, <1>3, <1>8
  <2> QED
    BY <2>2, <2>3
<1>15. \A i, j \in 1..Len(ranked') : i < j => ranked'[i].score <= ranked'[j].score + Tol
  BY <1>1 DEF Breaking
<1>16. Breaking'
  BY <1>1, <1>2, <1>3, <1>5, <1>7, <1>9, <1>12, <1>13, <1>14, <1>15 DEF Breaking
<1> QED
  BY <1>1, <1>11, <1>16 DEF ScreenInv, ScreenSound

LEMMA FlushStep ==
    ASSUME ScreenInv, Flush
    PROVE  ScreenInv'
<1> DEFINE n == Len(queue)  m == Len(group)  l == Len(ranked)
<1>1. /\ Breaking /\ step = "ranking" /\ step' = "ranking" /\ current \in Nat
      /\ group # <<>> /\ queue' = queue /\ current' = current
  BY DEF ScreenInv, Flush
<1>2. queue \in Seq(Entry) /\ group \in Seq(Entry) /\ ranked \in Seq(Entry)
      /\ n \in Nat /\ m \in Nat /\ l \in Nat /\ DOMAIN group = 1..m /\ Tol \in Nat
  BY <1>1, SetupAssumption DEF Breaking
<1>3. PICK p \in 1..m : ranked' = Append(ranked, group[p]) /\ group' = RemoveAt(group, p)
  BY <1>2 DEF Flush
<1> DEFINE out == group[p]
<1>4. out \in Entry /\ out.score \in Nat /\ current <= out.score /\ out.score <= current + Tol
  BY <1>1, <1>2, EntryType DEF Breaking
<1>5. /\ group' \in Seq(Entry) /\ Len(group') = m - 1
      /\ \A i \in 1..(m - 1) : group'[i] = IF i < p THEN group[i] ELSE group[i + 1]
  BY <1>2, <1>3, Removed
<1>6. Configs(group) = Configs(group') \cup {out.knobs}
  BY <1>2, <1>5, ConfigsRemove
<1>7. Configs(ranked') = Configs(ranked) \cup {out.knobs}
  BY <1>2, <1>3, <1>4, ConfigsAppend
<1>8. /\ ranked' \in Seq(Entry) /\ Len(ranked') = l + 1 /\ ranked'[l + 1] = out
      /\ \A i \in 1..l : ranked'[i] = ranked[i]
  BY <1>2, <1>3, <1>4, OneMore
<1> HIDE DEF out
<1>9. /\ Len(queue') + Len(group') + Len(ranked') = Cardinality(Grid)
      /\ Configs(queue') \cup Configs(group') \cup Configs(ranked') = Grid
  <2>1. n + m + l = Cardinality(Grid)
    BY <1>1 DEF Breaking
  <2>2. n + Len(group') + Len(ranked') = n + m + l
    BY <1>2, <1>5, <1>8
  <2>3. Configs(queue) \cup Configs(group) \cup Configs(ranked) = Grid
    BY <1>1 DEF Breaking
  <2>4. Configs(queue) \cup Configs(group') \cup Configs(ranked') = Grid
    BY <2>3, <1>6, <1>7
  <2> QED
    BY <2>1, <2>2, <2>4, <1>1
\* What stays in the group was in it.
<1>10. ASSUME NEW i \in 1..(m - 1)
       PROVE  \E j \in 1..m : group'[i] = group[j]
  <2>1. i \in 1..m /\ i + 1 \in 1..m
    BY <1>2
  <2>2. group'[i] = group[i] \/ group'[i] = group[i + 1]
    BY <1>5, Zenon
  <2> QED
    BY <2>1, <2>2
<1>11. \A j \in 1..m : group[j].score \in Nat /\ current <= group[j].score /\ group[j].score <= current + Tol
  BY <1>1, <1>2, EntryType DEF Breaking
<1>12. \A j \in 1..n : queue[j].score \in Nat /\ current <= queue[j].score
  BY <1>1, <1>2, EntryType DEF Breaking
<1>13. \A i \in 1..(m - 1) : group'[i].score \in Nat /\ current <= group'[i].score /\ group'[i].score <= current + Tol
  BY <1>10, <1>11
<1>14. \A i \in 1..l : /\ \A j \in 1..m : ranked[i].score <= group[j].score + Tol
                       /\ \A j \in 1..n : ranked[i].score <= queue[j].score + Tol
  BY <1>1 DEF Breaking, NotAfter
<1>15. \A i \in 1..l : ranked[i].score <= out.score + Tol
  BY <1>14 DEF out
<1>16. \A i, j \in 1..(l + 1) : i < j => ranked'[i].score <= ranked'[j].score + Tol
  <2> SUFFICES ASSUME NEW i \in 1..(l + 1), NEW j \in 1..(l + 1), i < j
               PROVE  ranked'[i].score <= ranked'[j].score + Tol
    OBVIOUS
  <2>1. i \in 1..l /\ (j \in 1..l \/ j = l + 1)
    BY <1>2
  <2>2. CASE j \in 1..l
    BY <2>1, <2>2, <1>1, <1>8 DEF Breaking
  <2>3. CASE j = l + 1
    BY <2>1, <2>3, <1>8, <1>15
  <2> QED
    BY <2>1, <2>2, <2>3
<1>17. NotAfter(ranked', group') /\ NotAfter(ranked', queue')
  <2> SUFFICES ASSUME NEW i \in 1..(l + 1)
               PROVE  /\ \A j \in 1..(m - 1) : ranked'[i].score <= group'[j].score + Tol
                      /\ \A j \in 1..n : ranked'[i].score <= queue[j].score + Tol
    BY <1>1, <1>5, <1>8 DEF NotAfter
  <2>1. CASE i \in 1..l
    <3>1. ranked'[i] = ranked[i]
      BY <2>1, <1>8
    <3> QED
      BY <2>1, <3>1, <1>10, <1>14
  <2>2. CASE i = l + 1
    <3>1. ranked'[i].score = out.score
      BY <2>2, <1>8
    <3>2. ASSUME NEW j \in 1..(m - 1)
          PROVE  out.score <= group'[j].score + Tol
      <4>1. group'[j].score \in Nat /\ current <= group'[j].score
        BY <1>13
      <4> QED
        BY <4>1, <1>1, <1>2, <1>4
    <3>3. ASSUME NEW j \in 1..n
          PROVE  out.score <= queue[j].score + Tol
      <4>1. queue[j].score \in Nat /\ current <= queue[j].score
        BY <1>12
      <4> QED
        BY <4>1, <1>1, <1>2, <1>4
    <3> QED
      BY <3>1, <3>2, <3>3
  <2>3. i \in 1..l \/ i = l + 1
    BY <1>2
  <2> QED
    BY <2>1, <2>2, <2>3
<1>18. Breaking'
  BY <1>1, <1>2, <1>5, <1>8, <1>9, <1>12, <1>13, <1>16, <1>17 DEF Breaking, Sorted
<1> QED
  BY <1>1, <1>18 DEF ScreenInv, ScreenSound

LEMMA ScreenStep ==
    ASSUME ScreenInv, SetupNext
    PROVE  ScreenInv'
<1>1. CASE Place \/ RunAnchor
  <2>1. /\ step \in {"start", "anchors"} /\ step' \in {"placed", "stopped", "anchors"}
        /\ UNCHANGED screenVars
    BY <1>1 DEF Place, RunAnchor
  <2> QED
    BY <2>1 DEF ScreenInv, ScreenSound, screenVars
<1>2. CASE AnchorRaises \/ WorkerLost
  <2>1. step' = "raised" /\ current' = current
    BY <1>2 DEF AnchorRaises, WorkerLost, screenVars
  <2> QED
    BY <2>1 DEF ScreenInv, ScreenSound
<1>3. CASE Register \/ Anchor
  <2>1. /\ step \in {"placed", "anchors"} /\ step' \in {"stopped", "raised", "screen", "anchors"}
        /\ UNCHANGED screenVars
    BY <1>3 DEF Register, Anchor, Calibrating
  <2>2. queue' = <<>> /\ group' = <<>> /\ ranked' = <<>> /\ current' \in Nat
    BY <2>1 DEF ScreenInv, screenVars
  <2>3. Predicting'
    BY <2>2 DEF Predicting, Sorted
  <2> QED
    BY <2>1, <2>2, <2>3 DEF ScreenInv, ScreenSound
<1>4. CASE Predicted
  <2>1. /\ Predicting /\ Len(queue) = Cardinality(Grid) /\ step' = "ranking"
        /\ queue' = queue /\ group' = <<>> /\ ranked' = <<>> /\ current' \in Nat
    BY <1>4 DEF ScreenInv, Predicted, screenVars, Predicting
  <2>2. Configs(queue) = Grid
    BY <2>1, WholeGrid DEF Predicting
  <2>3. Configs(queue) \cup Configs(<<>>) \cup Configs(<<>>) = Grid
    BY <2>2, ConfigsNone
  <2>4. Len(queue) \in Nat /\ Len(<<>>) = 0 /\ <<>> \in Seq(Entry)
    BY <2>1 DEF Predicting
  <2>5. Breaking'
    BY <2>1, <2>3, <2>4 DEF Predicting, Breaking, Sorted, NotAfter
  <2> QED
    BY <2>1, <2>5 DEF ScreenInv, ScreenSound
<1>5. CASE Ranked
  <2>1. /\ Breaking /\ queue = <<>> /\ group = <<>> /\ step' = "screened"
        /\ ranked' = ranked /\ current' \in Nat
    BY <1>5 DEF ScreenInv, Ranked, screenVars
  <2>2. ranked \in Seq(Entry) /\ Len(ranked) = Cardinality(Grid) /\ DOMAIN ranked = 1..Len(ranked)
    BY <2>1 DEF Breaking
  <2>3. Configs(ranked) = Grid
    BY <2>1, ConfigsNone DEF Breaking
  <2>4. {ranked[i].knobs : i \in DOMAIN ranked} = Grid
    BY <2>2, <2>3 DEF Configs
  <2>5. \A i \in DOMAIN ranked : ranked[i].knobs \in Grid
    BY <2>4
  <2>6. ScreenSound'
    BY <2>1, <2>2, <2>4, <2>5, GridInRange DEF Breaking, ScreenSound
  <2> QED
    BY <2>1, <2>6 DEF ScreenInv
<1> QED
  BY <1>1, <1>2, <1>3, <1>4, <1>5, PredictStep, JoinStep, FlushStep DEF SetupNext

-----------------------------------------------------------------------------
\* The three are inductive: the set-up touches nothing of the conversation, a
\* turn nothing of the set-up, and what Iterate lets go is not used again.
THEOREM SessionInductive == Spec => []SessionInv
<1>1. Init => SessionInv
  <2> SUFFICES ASSUME Init
               PROVE  SessionInv
    OBVIOUS
  <2>1. SetupInit /\ TurnInv
    BY TurnInit0 DEF Init
  <2>2. AnchorInv
    BY <2>1 DEF SetupInit, AnchorInv, CalibrationHonest
  <2>3. ScreenInv
    BY <2>1 DEF SetupInit, ScreenInv, ScreenSound
  <2> QED
    BY <2>1, <2>2, <2>3 DEF SessionInv
<1>2. SessionInv /\ [Next]_vars => SessionInv'
  <2> SUFFICES ASSUME SessionInv, [Next]_vars
               PROVE  SessionInv'
    OBVIOUS
  <2>1. AnchorInv /\ ScreenInv /\ TurnInv
    BY DEF SessionInv
  <2>2. ASSUME UNCHANGED turnVars
        PROVE  TurnInv'
    BY <2>1, <2>2 DEF turnVars, TurnInv, Conversation, Answering
  <2>3. ASSUME UNCHANGED setupVars
        PROVE  AnchorInv' /\ ScreenInv'
    <3>1. AnchorInv'
      BY <2>1, <2>3 DEF setupVars, AnchorInv, CalibrationHonest
    <3>2. ScreenInv'
      BY <2>1, <2>3 DEF setupVars, ScreenInv, ScreenSound, Predicting, Breaking, Sorted, NotAfter, Configs, Position
    <3> QED
      BY <3>1, <3>2
  <2>4. CASE SetupNext /\ UNCHANGED turnVars
    BY <2>1, <2>2, <2>4, AnchorStep, ScreenStep DEF SessionInv
  <2>5. CASE Iterate
    <3>1. UNCHANGED turnVars /\ step' = "iterating"
      BY <2>5 DEF Iterate
    <3>2. AnchorInv'
      BY <2>5 DEF Iterate, AnchorInv, CalibrationHonest
    <3>3. ScreenInv'
      BY <2>5 DEF Iterate, ScreenInv, ScreenSound
    <3> QED
      BY <2>2, <3>1, <3>2, <3>3 DEF SessionInv
  <2>6. CASE TurnNext /\ UNCHANGED setupVars
    BY <2>1, <2>3, <2>6, TurnStep DEF SessionInv
  <2>7. CASE UNCHANGED vars
    BY <2>2, <2>3, <2>7 DEF vars, SessionInv
  <2> QED
    BY <2>4, <2>5, <2>6, <2>7 DEF Next
<1> QED
  BY <1>1, <1>2, PTL DEF Spec

\* A factor compares a measurement of an anchor with the raw prediction for the
\* same anchor, and k_shot claims anchors exactly when there is a factor,
\* whichever of any number of anchors build and whatever is measured of them.
THEOREM AnchorsAreHonest == Spec => []CalibrationHonest
<1>1. SessionInv => CalibrationHonest
  BY DEF SessionInv, AnchorInv
<1> QED
  BY <1>1, SessionInductive, PTL

\* The ranking of _break_ties is the whole grid, in order up to a tie, and
\* within the policy's and the fitted ranges up to the rounding: for any knobs
\* and ranges, points per axis, predictions and tolerance.
THEOREM RankingIsSound == Spec => []ScreenSound
<1>1. SessionInv => ScreenSound
  BY DEF SessionInv, ScreenInv
<1> QED
  BY <1>1, SessionInductive, PTL

\* Every request is a conversation that the service accepts, for any tools,
\* any number of calls in a reply, and any failures.
THEOREM RequestsAreAccepted == Spec => []Paired
<1>1. SessionInv => Paired
  <2>1. at # "ask" => Paired
    BY DEF Paired
  <2>2. SessionInv /\ at = "ask" => Paired
    BY Accepted DEF SessionInv, TurnInv
  <2> QED
    BY <2>1, <2>2
<1> QED
  BY <1>1, SessionInductive, PTL

-----------------------------------------------------------------------------
(* Every step takes something off what is left (Descent).                  *)

StepsAhead(x) ==
    [start |-> 7, placed |-> 6, anchors |-> 5, screen |-> 4, ranking |-> 3,
     screened |-> 2, iterating |-> 1, stopped |-> 0, raised |-> 0][x]

PhasesAhead(x) ==
    [off |-> 6, draft |-> 5, ask |-> 4, tools |-> 4, replied |-> 3,
     build |-> 2, between |-> 1, over |-> 0][x]

LEMMA Ranks ==
    /\ StepsAhead("start") = 7 /\ StepsAhead("placed") = 6
    /\ StepsAhead("anchors") = 5 /\ StepsAhead("screen") = 4
    /\ StepsAhead("ranking") = 3 /\ StepsAhead("screened") = 2
    /\ StepsAhead("iterating") = 1
    /\ StepsAhead("stopped") = 0 /\ StepsAhead("raised") = 0
    /\ PhasesAhead("off") = 6 /\ PhasesAhead("draft") = 5
    /\ PhasesAhead("ask") = 4 /\ PhasesAhead("tools") = 4
    /\ PhasesAhead("replied") = 3 /\ PhasesAhead("build") = 2
    /\ PhasesAhead("between") = 1 /\ PhasesAhead("over") = 0
<1>1. /\ StepsAhead("start") = 7 /\ StepsAhead("placed") = 6
      /\ StepsAhead("anchors") = 5 /\ StepsAhead("screen") = 4
      /\ StepsAhead("ranking") = 3 /\ StepsAhead("screened") = 2
      /\ StepsAhead("iterating") = 1
      /\ StepsAhead("stopped") = 0 /\ StepsAhead("raised") = 0
  BY DEF StepsAhead
<1>2. /\ PhasesAhead("off") = 6 /\ PhasesAhead("draft") = 5
      /\ PhasesAhead("ask") = 4 /\ PhasesAhead("tools") = 4
      /\ PhasesAhead("replied") = 3 /\ PhasesAhead("build") = 2
      /\ PhasesAhead("between") = 1 /\ PhasesAhead("over") = 0
  BY DEF PhasesAhead
<1> QED
  BY <1>1, <1>2

\* The places of Left.
InPlace ==
    /\ DOMAIN Left = 1..10
    /\ Left[1] = 1..StepsAhead(step)
    /\ Left[2] = (tries + 1)..k
    /\ Left[3] = IF step = "screen" THEN (Len(queue) + 1)..Cardinality(Grid)
                                    ELSE 1..Len(queue)
    /\ Left[4] = 1..Len(group)
    /\ Left[5] = (turn + 1)..Turns
    /\ Left[6] = 1..PhasesAhead(at)
    /\ Left[7] = 1..left
    /\ Left[8] = IF at = "tools" THEN {} ELSE {"reply"}
    /\ Left[9] = (attempt + 1)..Attempts
    /\ Left[10] = 1..Len(todo)

LEMMA LeftInPlace == InPlace /\ InPlace'
BY DEF InPlace, Left, StepsAhead, PhasesAhead

LEMMA Shrinks ==
    ASSUME NEW i \in 1..10, Left'[i] \subseteq Left[i], Left'[i] # Left[i],
           \A j \in 1..10 : j < i => Left'[j] = Left[j]
    PROVE  Less(Left', Left)
BY LeftInPlace DEF InPlace, Less

\* A counter that goes up leaves fewer numbers above it; a shorter list has
\* fewer places.
LEMMA Fewer ==
    ASSUME NEW m \in Nat, NEW n \in Nat, m < n
    PROVE  /\ \A top \in Nat : n <= top =>
                 /\ (n + 1)..top \subseteq (m + 1)..top
                 /\ (n + 1)..top # (m + 1)..top
           /\ 1..m \subseteq 1..n /\ 1..m # 1..n
<1>1. n \in 1..n /\ n \notin 1..m
  OBVIOUS
<1>2. ASSUME NEW top \in Nat, n <= top
      PROVE  /\ n \in (m + 1)..top /\ n \notin (n + 1)..top
             /\ (n + 1)..top \subseteq (m + 1)..top
  BY <1>2
<1> QED
  BY <1>1, <1>2

\* What a turn's counters are.
Counted ==
    /\ k \in Nat /\ turn \in Nat /\ attempt \in Nat /\ left \in Nat
    /\ at \in {"draft", "ask", "tools"} => left > 0

LEMMA CountedStep == Counted /\ [Next]_vars => Counted'
<1> SUFFICES ASSUME Counted, [Next]_vars PROVE Counted'
  OBVIOUS
<1> USE TurnAssumption DEF Counted
<1>1. CASE UNCHANGED vars
  BY <1>1 DEF vars, setupVars, turnVars
<1>2. CASE SetupNext /\ UNCHANGED turnVars
  <2>1. k' = k
    BY <1>2 DEF SetupNext, Place, Register, RunAnchor, AnchorRaises, Anchor,
                WorkerLost, Predict, Predicted, Join, Flush, Ranked, anchorVars
  <2> QED
    BY <1>2, <2>1 DEF turnVars
<1>3. CASE Iterate
  BY <1>3 DEF Iterate, turnVars
<1>4. CASE TurnNext /\ UNCHANGED setupVars
  <2>1. k' = k
    BY <1>4 DEF setupVars
  <2>2. CASE EnterLoop \/ BeginTurn \/ Retry \/ Draft
    BY <2>1, <2>2 DEF EnterLoop, BeginTurn, Retry, Draft, talk
  <2>3. CASE Lost \/ PlainReply \/ EmptyReply \/ Reply
    BY <2>1, <2>3 DEF Lost, PlainReply, EmptyReply, Reply, talk
  <2>4. CASE RunTool
    BY <2>1, <2>4 DEF RunTool
  <2>5. CASE SendBack
    <3>1. left > 0 /\ left \in Nat
      BY <2>5 DEF SendBack
    <3>2. left' = left - 1 /\ (left' # 0 => at' = "ask") /\ (left' = 0 => at' = "replied")
          /\ attempt' = 0 /\ turn' = turn
      BY <2>5 DEF SendBack
    <3>3. left' \in Nat /\ (left' # 0 => left' > 0)
      BY <3>1, <3>2
    <3> QED
      BY <2>1, <3>2, <3>3
  <2>6. CASE Parse \/ Built
    BY <2>1, <2>6 DEF Parse, Built, talk
  <2> QED
    BY <1>4, <2>2, <2>3, <2>4, <2>5, <2>6 DEF TurnNext
<1> QED
  BY <1>1, <1>2, <1>3, <1>4 DEF Next

\* A step of main().
LEMMA StepTaken ==
    ASSUME StepsAhead(step) \in Nat, StepsAhead(step') \in Nat,
           StepsAhead(step') < StepsAhead(step)
    PROVE  Less(Left', Left)
<1>1. Left'[1] \subseteq Left[1] /\ Left'[1] # Left[1]
  BY LeftInPlace, Fewer DEF InPlace
<1>2. \A j \in 1..10 : j < 1 => Left'[j] = Left[j]
  OBVIOUS
<1> QED
  BY <1>1, <1>2, Shrinks

LEMMA SameSetup ==
    ASSUME UNCHANGED setupVars
    PROVE  Left'[1] = Left[1] /\ Left'[2] = Left[2] /\ Left'[3] = Left[3] /\ Left'[4] = Left[4]
BY LeftInPlace DEF InPlace, setupVars

\* A phase of a turn.
LEMMA PhaseTaken ==
    ASSUME UNCHANGED setupVars, turn' = turn,
           PhasesAhead(at) \in Nat, PhasesAhead(at') \in Nat,
           PhasesAhead(at') < PhasesAhead(at)
    PROVE  Less(Left', Left)
<1>1. Left'[6] \subseteq Left[6] /\ Left'[6] # Left[6]
  BY LeftInPlace, Fewer DEF InPlace
<1>2. Left'[5] = Left[5]
  BY LeftInPlace DEF InPlace
<1>3. \A j \in 1..10 : j < 6 => Left'[j] = Left[j]
  BY <1>2, SameSetup
<1> QED
  BY <1>1, <1>3, Shrinks

\* What is before a configuration of the grid is not all of it.
LEMMA RoomInGrid ==
    ASSUME NEW g \in Grid
    PROVE  /\ Cardinality(Grid) \in Nat
           /\ Position(g) \in Nat /\ Position(g) < Cardinality(Grid)
<1> DEFINE before == {h \in Grid : Before(h, g)}
<1>1. \A name \in Screened : g[name] \in Int
  <2>1. PICK axis \in [Screened -> 0..(PerAxis - 1)] : g = [x \in Screened |-> Point(x, axis[x])]
    BY DEF Grid
  <2> QED
    BY <2>1, PointInRange
<1>2. ~ Before(g, g)
  BY <1>1 DEF Before
<1>3. before \subseteq Grid /\ before # Grid
  BY <1>2
<1>4. IsFiniteSet(Grid)
  BY FiniteGrid
<1>5. /\ IsFiniteSet(before) /\ Cardinality(before) <= Cardinality(Grid)
      /\ Cardinality(before) = Cardinality(Grid) => before = Grid
  BY <1>3, <1>4, FS_Subset
<1> QED
  BY <1>3, <1>4, <1>5, FS_CardinalityType DEF Position

\* The set-up.
LEMMA SetupAdvances ==
    ASSUME SessionInv, Counted, SetupNext
    PROVE  Less(Left', Left)
<1>1. AnchorInv /\ ScreenInv
  BY DEF SessionInv
<1>2. CASE Place \/ Register
  <2>1. /\ step \in {"start", "placed"}
        /\ step = "start" => step' \in {"placed", "stopped"}
        /\ step = "placed" => step' \in {"raised", "screen", "anchors", "stopped"}
    BY <1>2 DEF Place, Register, Calibrating
  <2> QED
    BY <2>1, Ranks, StepTaken
<1>3. CASE RunAnchor
  <2>1. tries < k /\ tries' = tries + 1 /\ UNCHANGED <<step, k>> /\ tries \in Nat /\ k \in Nat
    BY <1>1, <1>3 DEF RunAnchor, AnchorInv, Counted
  <2>2. Left'[2] \subseteq Left[2] /\ Left'[2] # Left[2]
    BY <2>1, LeftInPlace, Fewer DEF InPlace
  <2>3. Left'[1] = Left[1]
    BY <2>1, LeftInPlace DEF InPlace
  <2>4. \A j \in 1..10 : j < 2 => Left'[j] = Left[j]
    BY <2>3
  <2> QED
    BY <2>2, <2>4, Shrinks
<1>4. CASE AnchorRaises \/ Anchor \/ WorkerLost
  <2>1. /\ step \in {"start", "placed", "anchors"}
        /\ step' = "raised" \/ (step = "anchors" /\ step' = "screen")
    BY <1>4 DEF AnchorRaises, Anchor, WorkerLost
  <2> QED
    BY <2>1, Ranks, StepTaken
<1>5. CASE Predict
  <2>1. PICK g \in Grid, score \in 0..WorstScore, p \in 1..(Len(queue) + 1) :
           /\ Cardinality({h \in Grid : Before(h, g)}) = Len(queue)
           /\ queue' = InsertAt(queue, p, [knobs |-> g, score |-> score])
    BY <1>5 DEF Predict
  <2>2. step = "screen" /\ step' = "screen" /\ UNCHANGED <<tries, k>>
    BY <1>5 DEF Predict, anchorVars
  <2>3. queue \in Seq(Entry) /\ Len(queue) \in Nat
    BY <1>1, <2>2 DEF ScreenInv, Predicting
  <2>4. Len(queue') = Len(queue) + 1
    <3>1. [knobs |-> g, score |-> score] \in Entry
      BY SetupAssumption DEF Entry
    <3> QED
      BY <2>1, <2>3, <3>1, Inserted
  <2>5. Len(queue) < Cardinality(Grid) /\ Cardinality(Grid) \in Nat
    BY <2>1, RoomInGrid DEF Position
  <2>6. /\ Left[3] = (Len(queue) + 1)..Cardinality(Grid)
        /\ Left'[3] = (Len(queue') + 1)..Cardinality(Grid)
    BY <2>2, LeftInPlace DEF InPlace
  <2>7. Left'[3] \subseteq Left[3] /\ Left'[3] # Left[3]
    BY <2>3, <2>4, <2>5, <2>6, Fewer
  <2>8. Left'[1] = Left[1] /\ Left'[2] = Left[2]
    BY <2>2, LeftInPlace DEF InPlace
  <2>9. \A j \in 1..10 : j < 3 => Left'[j] = Left[j]
    BY <2>8
  <2> QED
    BY <2>7, <2>9, Shrinks
<1>6. CASE Predicted \/ Ranked
  <2>1. \/ step = "screen" /\ step' = "ranking"
        \/ step = "ranking" /\ step' = "screened"
    BY <1>6 DEF Predicted, Ranked
  <2> QED
    BY <2>1, Ranks, StepTaken
<1>7. CASE Join
  <2>1. /\ step = "ranking" /\ queue # <<>> /\ queue' = Tail(queue)
        /\ UNCHANGED <<step, tries, k>>
    BY <1>7 DEF Join, anchorVars
  <2>2. queue \in Seq(Entry)
    BY <1>1, <2>1 DEF ScreenInv, Breaking
  <2>3. Len(queue') \in Nat /\ Len(queue) \in Nat /\ Len(queue') < Len(queue)
    BY <2>1, <2>2
  <2>4. Left[3] = 1..Len(queue) /\ Left'[3] = 1..Len(queue')
    BY <2>1, LeftInPlace DEF InPlace
  <2>5. Left'[3] \subseteq Left[3] /\ Left'[3] # Left[3]
    BY <2>3, <2>4, Fewer
  <2>6. Left'[1] = Left[1] /\ Left'[2] = Left[2]
    BY <2>1, LeftInPlace DEF InPlace
  <2>7. \A j \in 1..10 : j < 3 => Left'[j] = Left[j]
    BY <2>6
  <2> QED
    BY <2>5, <2>7, Shrinks
<1>8. CASE Flush
  <2>1. PICK i \in DOMAIN group : group' = RemoveAt(group, i)
    BY <1>8 DEF Flush
  <2>2. step = "ranking" /\ UNCHANGED <<step, tries, k, queue>>
    BY <1>8 DEF Flush, anchorVars
  <2>3. group \in Seq(Entry) /\ DOMAIN group = 1..Len(group) /\ Len(group) \in Nat
    BY <1>1, <2>2 DEF ScreenInv, Breaking
  <2>4. Len(group') = Len(group) - 1
    <3>1. i \in 1..Len(group)
      BY <2>1, <2>3
    <3>2. Len(RemoveAt(group, i)) = Len(group) - 1
      BY <2>3, <3>1, Removed
    <3> QED
      BY <2>1, <3>2
  <2>4a. Len(group') \in Nat /\ Len(group') < Len(group)
    <3>1. Len(group) > 0
      BY <2>1, <2>3
    <3> QED
      BY <2>3, <2>4, <3>1
  <2>4b. Left[4] = 1..Len(group) /\ Left'[4] = 1..Len(group')
    BY LeftInPlace DEF InPlace
  <2>5. Left'[4] \subseteq Left[4] /\ Left'[4] # Left[4]
    BY <2>3, <2>4a, <2>4b, Fewer
  <2>6. Left'[1] = Left[1] /\ Left'[2] = Left[2] /\ Left'[3] = Left[3]
    BY <2>2, LeftInPlace DEF InPlace
  <2>7. \A j \in 1..10 : j < 4 => Left'[j] = Left[j]
    BY <2>6
  <2> QED
    BY <2>5, <2>7, Shrinks
<1> QED
  BY <1>2, <1>3, <1>4, <1>5, <1>6, <1>7, <1>8 DEF SetupNext

\* The iterations.
LEMMA TurnAdvances ==
    ASSUME SessionInv, Counted, TurnNext, UNCHANGED setupVars
    PROVE  Less(Left', Left)
<1>1. CASE EnterLoop \/ Draft \/ Lost \/ PlainReply \/ EmptyReply \/ Parse \/ Built
  <2>1. /\ turn' = turn
        /\ \/ at = "off" /\ at' = "between"
           \/ at = "draft" /\ at' = "ask"
           \/ at = "ask" /\ at' \in {"over", "replied"}
           \/ at = "replied" /\ at' \in {"build", "over"}
           \/ at = "build" /\ at' \in {"between", "over"}
    BY <1>1 DEF EnterLoop, Draft, Lost, PlainReply, EmptyReply, Parse, Built, talk
  <2> QED
    BY <2>1, Ranks, PhaseTaken
<1>2. CASE BeginTurn
  <2>1. turn < Turns /\ turn' = turn + 1 /\ turn \in Nat /\ Turns \in Nat
    BY <1>2, TurnAssumption DEF BeginTurn, Counted
  <2>2. Left'[5] \subseteq Left[5] /\ Left'[5] # Left[5]
    BY <2>1, LeftInPlace, Fewer DEF InPlace
  <2>3. \A j \in 1..10 : j < 5 => Left'[j] = Left[j]
    BY SameSetup
  <2> QED
    BY <2>2, <2>3, Shrinks
<1>3. CASE Retry
  <2>1. /\ attempt < Attempts - 1 /\ attempt' = attempt + 1
        /\ UNCHANGED <<turn, at, left>> /\ attempt \in Nat /\ Attempts \in Nat
    BY <1>3, TurnAssumption DEF Retry, talk, Counted
  <2>2. Left'[9] \subseteq Left[9] /\ Left'[9] # Left[9]
    BY <2>1, LeftInPlace, Fewer DEF InPlace
  <2>3. Left'[5] = Left[5] /\ Left'[6] = Left[6] /\ Left'[7] = Left[7] /\ Left'[8] = Left[8]
    BY <2>1, LeftInPlace DEF InPlace
  <2>4. \A j \in 1..10 : j < 9 => Left'[j] = Left[j]
    BY <2>3, SameSetup
  <2> QED
    BY <2>2, <2>4, Shrinks
<1>4. CASE Reply
  <2>1. at = "ask" /\ at' \in {"replied", "tools"} /\ UNCHANGED <<turn, left>>
    BY <1>4 DEF Reply
  <2>2. CASE at' = "replied"
    BY <2>1, <2>2, Ranks, PhaseTaken
  <2>3. CASE at' = "tools"
    <3>1. Left'[8] = {} /\ Left[8] = {"reply"}
      BY <2>1, <2>3, LeftInPlace DEF InPlace
    <3>2. Left'[6] = Left[6]
      BY <2>1, <2>3, LeftInPlace, Ranks DEF InPlace
    <3>3. Left'[5] = Left[5] /\ Left'[7] = Left[7]
      BY <2>1, LeftInPlace DEF InPlace
    <3>4. \A j \in 1..10 : j < 8 => Left'[j] = Left[j]
      BY <3>2, <3>3, SameSetup
    <3> QED
      BY <3>1, <3>4, Shrinks
  <2> QED
    BY <2>1, <2>2, <2>3
<1>5. CASE RunTool
  <2>1. /\ at = "tools" /\ todo # <<>> /\ todo' = Tail(todo)
        /\ UNCHANGED <<turn, at, left, attempt>>
    BY <1>5 DEF RunTool
  <2>2. todo \in Seq(Named)
    BY <2>1 DEF SessionInv, TurnInv, Answering
  <2>3. Len(todo') \in Nat /\ Len(todo) \in Nat /\ Len(todo') < Len(todo)
    BY <2>1, <2>2
  <2>4. Left'[10] \subseteq Left[10] /\ Left'[10] # Left[10]
    BY <2>3, LeftInPlace, Fewer DEF InPlace
  <2>5. /\ Left'[5] = Left[5] /\ Left'[6] = Left[6] /\ Left'[7] = Left[7]
        /\ Left'[8] = Left[8] /\ Left'[9] = Left[9]
    BY <2>1, LeftInPlace DEF InPlace
  <2>6. \A j \in 1..10 : j < 10 => Left'[j] = Left[j]
    BY <2>5, SameSetup
  <2> QED
    BY <2>4, <2>6, Shrinks
<1>6. CASE SendBack
  <2>1. /\ at = "tools" /\ left' = left - 1 /\ turn' = turn
        /\ at' = "replied" \/ at' = "ask"
        /\ left \in Nat /\ left' \in Nat /\ left' < left
    BY <1>6 DEF SendBack, Counted
  <2>2. CASE at' = "replied"
    BY <2>1, <2>2, Ranks, PhaseTaken
  <2>3. CASE at' = "ask"
    <3>1. Left'[7] \subseteq Left[7] /\ Left'[7] # Left[7]
      BY <2>1, LeftInPlace, Fewer DEF InPlace
    <3>2. Left'[5] = Left[5]
      BY <2>1, LeftInPlace DEF InPlace
    <3>3. Left'[6] = Left[6]
      BY <2>1, <2>3, LeftInPlace, Ranks DEF InPlace
    <3>4. \A j \in 1..10 : j < 7 => Left'[j] = Left[j]
      BY <3>2, <3>3, SameSetup
    <3> QED
      BY <3>1, <3>4, Shrinks
  <2> QED
    BY <2>1, <2>2, <2>3
<1> QED
  BY <1>1, <1>2, <1>3, <1>4, <1>5, <1>6 DEF TurnNext

\* No retry, tool call, turn or regrouping of the ranking goes in a circle, for
\* any grid, anchors, turns, attempts and calls.
THEOREM SessionAlwaysAdvances == Spec => SessionAdvances
<1>1. Init => Counted
  BY SetupAssumption DEF Init, SetupInit, TurnInit, Counted
<1>2. SessionInv /\ Counted /\ [Next]_vars => [Less(Left', Left)]_vars
  <2> SUFFICES ASSUME SessionInv, Counted, Next PROVE Less(Left', Left)
    OBVIOUS
  <2>1. CASE Iterate
    BY <2>1, Ranks, StepTaken DEF Iterate
  <2> QED
    BY <2>1, SetupAdvances, TurnAdvances DEF Next
<1> QED
  BY <1>1, <1>2, CountedStep, SessionInductive, PTL DEF Spec, SessionAdvances
=============================================================================
