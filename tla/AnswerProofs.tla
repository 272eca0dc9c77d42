---------------------------- MODULE AnswerProofs ----------------------------
(***************************************************************************)
(* Three answers and what is proved of them. First the web search loop of  *)
(* the gateway: one envelope for all turns, a result for every call, and   *)
(* one report of what the turns cost. The envelope is argued about as a    *)
(* value, the sequence of its frames: a frame that Fits leaves it Whole.   *)
(* Then the turn of the chat agent: what the vote elects, and why an       *)
(* answer may say nothing of a concern. There the argument is about one    *)
(* call and its entries in the bucket, out or waiting: whatever happens to *)
(* a call, as soon as its result is out a concern about it was told, was   *)
(* overlooked, or waits in the bucket. Last the session of the chat agent, *)
(* from the stream to the page: every question has its answer once, and    *)
(* every result goes to the card of its call.                              *)
(***************************************************************************)
EXTENDS WebSearch, AnswerCheck, Chat, FiniteSums, SequenceTheorems, FiniteSetTheorems, TLAPS

Ends == {"end_turn", "failed", "tool_use", "response.completed", "response.incomplete",
         "response.failed"}
Frames == {<<"start">>, <<"error">>} \cup ({"open", "close"} \X Nat) \cup ({"stop"} \X Ends)
Turns == [started : BOOLEAN, ended : BOOLEAN, blocks : Nat, block : Kinds \cup {"none"}, at : Nat,
          calls : Seq(Nat), results : Seq(Nat), client : BOOLEAN, error : BOOLEAN]
Exchanges == [calls : Seq(Nat), results : Seq(Nat)]

(* What a client may have got, s, up to the last of its frames.            *)
At(s, kind) == {i \in 1..Len(s) : s[i][1] = kind}
Numbers(s, n) == {s[i][2] : i \in {j \in 1..n : s[j][1] = "open"}}
Whole(s) ==
  /\ \A i \in At(s, "open") : Numbers(s, i - 1) = 0..(s[i][2] - 1)
  /\ \A i \in At(s, "open") \cup At(s, "close") : \E j \in At(s, "start") : j < i
  /\ \A i \in At(s, "close") : \E j \in 1..(i - 1) : s[j] = <<"open", s[i][2]>>
  /\ \A i, j \in At(s, "start") : i = j
  /\ \A i \in At(s, "stop") : i = Len(s)
Has(s, kind) == At(s, kind) # {}
HasOpened(s, n) == \E j \in 1..Len(s) : s[j] = <<"open", n>>

SearchShape ==
  /\ pc \in {"idle", "plain", "turn", "read", "search", "report", "done", "passed"}
  /\ dialect \in {"anthropic", "responses"} /\ is_stream \in BOOLEAN /\ gone \in BOOLEAN
  /\ envelope_open \in BOOLEAN /\ global_index \in Nat /\ terminal \in Ends
  /\ turn \in Turns /\ sent \in Seq(Frames) /\ conversation \in Seq(Exchanges)
  /\ merged \in Nat

(* The envelope: open from the first start on, and stopped when the loop is *)
(* left; the block being read has its place in it.                          *)
EnvelopeInv ==
  /\ Whole(sent) /\ Numbers(sent, Len(sent)) = 0..(global_index - 1)
  /\ envelope_open <=> Has(sent, "start")
  /\ turn.started => envelope_open
  /\ turn.block \in {"text", "client"} => HasOpened(sent, turn.at)
  /\ pc \notin {"report", "done"} => ~Has(sent, "stop")
  /\ envelope_open /\ ~gone /\ pc \in {"report", "done"} => Has(sent, "stop")
  /\ envelope_open \/ pc = "read" => is_stream

(* The calls of a turn, and the results there are of the first of them.    *)
CallsInv ==
  /\ \A i \in DOMAIN conversation :
       conversation[i].calls # << >> /\ conversation[i].results = conversation[i].calls
  /\ pc = "read" => turn.results = << >>
  /\ pc = "search" => /\ ~turn.client /\ turn.calls # << >>
                      /\ Len(turn.results) <= Len(turn.calls)
                      /\ \A i \in DOMAIN turn.results : turn.results[i] = turn.calls[i]

UsageInv ==
  /\ pc \notin {"passed"} => merged = billed
  /\ pc \notin {"passed", "done"} => reports = << >>
  /\ pc = "done" /\ ~gone => reports = IF is_stream \/ billed > 0 THEN <<billed>> ELSE << >>

SearchInv == SearchShape /\ EnvelopeInv /\ CallsInv /\ UsageInv
---------------------------------------------------------------------------
\* A frame by its first part.
LEMMA Kind ==
  ASSUME NEW f \in Frames
  PROVE  /\ f[1] \in {"start", "error", "open", "close", "stop"}
         /\ f[1] = "open" => f = <<"open", f[2]>> /\ f[2] \in Nat
         /\ f[1] = "close" => f = <<"close", f[2]>> /\ f[2] \in Nat
<1>1. CASE f = <<"start">> \/ f = <<"error">>
  BY <1>1
<1>2. CASE f \in {"open", "close"} \X Nat
  BY <1>2
<1>3. CASE f \in {"stop"} \X Ends
  BY <1>3
<1>4. QED
  BY <1>1, <1>2, <1>3 DEF Frames

\* One frame more. It may open a block only under the next number, close only a
\* block that is open, start only once, and come only before the stop.
Fits(s, f) ==
  /\ f[1] = "open" => Has(s, "start") /\ Numbers(s, Len(s)) = 0..(f[2] - 1)
  /\ f[1] = "close" => Has(s, "start") /\ HasOpened(s, f[2])
  /\ f[1] = "start" => ~Has(s, "start")
  /\ ~Has(s, "stop")

LEMMA OneFrame ==
  ASSUME NEW s \in Seq(Frames), NEW f \in Frames, Whole(s), Fits(s, f)
  PROVE  /\ Append(s, f) \in Seq(Frames) /\ Whole(Append(s, f))
         /\ \A kind : Has(Append(s, f), kind) <=> Has(s, kind) \/ f[1] = kind
         /\ \A n : HasOpened(s, n) \/ f = <<"open", n>> => HasOpened(Append(s, f), n)
         /\ f[1] # "open" =>
              Numbers(Append(s, f), Len(Append(s, f))) = Numbers(s, Len(s))
         /\ f[1] = "open" =>
              Numbers(Append(s, f), Len(Append(s, f))) = Numbers(s, Len(s)) \cup {f[2]}
<1> DEFINE t == Append(s, f)
           n == Len(s)
<1>1. /\ t \in Seq(Frames) /\ n \in Nat /\ Len(t) = n + 1 /\ t[n + 1] = f
      /\ \A i \in 1..n : t[i] = s[i]
  OBVIOUS
<1> HIDE DEF t
<1>2. \A kind : At(t, kind) = At(s, kind) \cup (IF f[1] = kind THEN {n + 1} ELSE {})
  <2>1. 1..(n + 1) = 1..n \cup {n + 1}
    BY <1>1
  <2>2. QED
    BY <1>1, <2>1 DEF At
<1>3. \A i \in 0..n : Numbers(t, i) = Numbers(s, i)
  BY <1>1 DEF Numbers
<1>4. \A kind : At(s, kind) \subseteq 1..n
  BY DEF At
<1>5. ASSUME NEW i \in At(t, "open")
      PROVE  Numbers(t, i - 1) = 0..(t[i][2] - 1)
  <2>1. CASE i \in At(s, "open")
    <3>1. i \in 1..n /\ i - 1 \in 0..n /\ t[i] = s[i]
      BY <1>1, <1>4, <2>1
    <3>2. Numbers(s, i - 1) = 0..(s[i][2] - 1)
      BY <2>1 DEF Whole
    <3>3. QED
      BY <1>3, <3>1, <3>2
  <2>2. CASE i = n + 1 /\ f[1] = "open"
    <3>1. t[i] = f /\ i - 1 = n /\ n \in 0..n
      BY <1>1, <2>2
    <3>2. Numbers(s, n) = 0..(f[2] - 1)
      BY <2>2 DEF Fits
    <3>3. QED
      BY <1>3, <3>1, <3>2
  <2>3. QED
    BY <1>2, <1>5, <2>1, <2>2
<1>6. ASSUME NEW i \in At(t, "open") \cup At(t, "close")
      PROVE  \E j \in At(t, "start") : j < i
  <2>1. CASE i \in At(s, "open") \cup At(s, "close")
    <3>1. PICK j \in At(s, "start") : j < i
      BY <2>1 DEF Whole
    <3>2. QED
      BY <1>2, <3>1
  <2>2. CASE i = n + 1 /\ f[1] \in {"open", "close"}
    <3>1. PICK j \in At(s, "start") : TRUE
      BY <2>2 DEF Fits, Has
    <3>2. j < n + 1
      BY <1>1, <1>4, <3>1
    <3>3. QED
      BY <1>2, <2>2, <3>1, <3>2
  <2>3. QED
    BY <1>2, <1>6, <2>1, <2>2
<1>7. ASSUME NEW i \in At(t, "close")
      PROVE  \E j \in 1..(i - 1) : t[j] = <<"open", t[i][2]>>
  <2>1. CASE i \in At(s, "close")
    <3>1. PICK j \in 1..(i - 1) : s[j] = <<"open", s[i][2]>>
      BY <2>1 DEF Whole
    <3>2. i \in 1..n /\ j \in 1..n /\ t[i] = s[i] /\ t[j] = s[j]
      BY <1>1, <1>4, <2>1
    <3>3. QED
      BY <3>1, <3>2
  <2>2. CASE i = n + 1 /\ f[1] = "close"
    <3>1. PICK j \in 1..n : s[j] = <<"open", f[2]>>
      BY <2>2 DEF Fits, HasOpened
    <3>2. j \in 1..(i - 1) /\ t[j] = s[j] /\ t[i] = f
      BY <1>1, <2>2
    <3>3. QED
      BY <3>1, <3>2
  <2>3. QED
    BY <1>2, <1>7, <2>1, <2>2
<1>8. ASSUME NEW i \in At(t, "start"), NEW j \in At(t, "start")
      PROVE  i = j
  BY <1>2, <1>8 DEF Whole, Fits, Has
<1>9. ASSUME NEW i \in At(t, "stop")
      PROVE  i = Len(t)
  BY <1>1, <1>2, <1>9 DEF Fits, Has
<1>10. Whole(t)
  BY <1>5, <1>6, <1>7, <1>8, <1>9 DEF Whole
<1>11. \A kind : Has(t, kind) <=> Has(s, kind) \/ f[1] = kind
  BY <1>2 DEF Has
<1>12. ASSUME NEW m, HasOpened(s, m) \/ f = <<"open", m>>
       PROVE  HasOpened(t, m)
  <2>1. CASE HasOpened(s, m)
    <3>1. PICK j \in 1..n : s[j] = <<"open", m>>
      BY <2>1 DEF HasOpened
    <3>2. j \in 1..Len(t) /\ t[j] = s[j]
      BY <1>1
    <3>3. QED
      BY <3>1, <3>2 DEF HasOpened
  <2>2. CASE f = <<"open", m>>
    <3>1. n + 1 \in 1..Len(t)
      BY <1>1
    <3>2. QED
      BY <1>1, <2>2, <3>1 DEF HasOpened
  <2>3. QED
    BY <1>12, <2>1, <2>2
<1>13. /\ f[1] # "open" => Numbers(t, Len(t)) = Numbers(s, n)
       /\ f[1] = "open" => Numbers(t, Len(t)) = Numbers(s, n) \cup {f[2]}
  <2>1. {i \in 1..(n + 1) : t[i][1] = "open"}
          = {i \in 1..n : s[i][1] = "open"} \cup (IF f[1] = "open" THEN {n + 1} ELSE {})
    <3>1. 1..(n + 1) = 1..n \cup {n + 1}
      BY <1>1
    <3>2. QED
      BY <1>1, <3>1
  <2>2. QED
    BY <1>1, <2>1 DEF Numbers
<1>14. QED
  BY <1>1, <1>10, <1>11, <1>12, <1>13 DEF t
---------------------------------------------------------------------------
\* The records the actions make are turns and frames.
LEMMA NewTurnIsTurn == NewTurn \in Turns
BY DEF NewTurn, Turns, Kinds

LEMMA FramesThatAre ==
  /\ <<"start">> \in Frames /\ <<"error">> \in Frames
  /\ \A n \in Nat : <<"open", n>> \in Frames /\ <<"close", n>> \in Frames
  /\ \A e \in Ends : <<"stop", e>> \in Frames
BY DEF Frames

LEMMA EndsThatAre ==
  SearchShape => Completed \in Ends /\ Failed \in Ends
BY DEF SearchShape, Completed, Failed, Ends

\* A refused turn and a crash end an open envelope with two frames.
LEMMA TwoFrames ==
  ASSUME NEW s \in Seq(Frames), NEW f \in Frames, NEW g \in Frames
  PROVE  /\ s \o <<f>> = Append(s, f)
         /\ s \o <<f, g>> = Append(Append(s, f), g)
         /\ (s \o <<f>>) \o <<g>> = Append(Append(s, f), g)
         /\ (s \o <<f>>) \o << >> = Append(s, f)
OBVIOUS

\* The next block takes the next number.
LEMMA NextNumber ==
  ASSUME NEW n \in Nat, NEW m, m = n + 1, NEW N, N = 0..(n - 1) \cup {n}
  PROVE  N = 0..(m - 1)
OBVIOUS

\* What a refused turn and a crash leave of an open envelope: whole, and stopped.
LEMMA ErrorThenStop ==
  ASSUME NEW s \in Seq(Frames), Whole(s), ~Has(s, "stop"), NEW e \in Ends
  PROVE  LET t == Append(Append(s, <<"error">>), <<"stop", e>>)
         IN /\ t \in Seq(Frames) /\ Whole(t) /\ Has(t, "stop")
            /\ Has(t, "start") <=> Has(s, "start")
            /\ Numbers(t, Len(t)) = Numbers(s, Len(s))
            /\ \A n : HasOpened(s, n) => HasOpened(t, n)
<1> DEFINE m == Append(s, <<"error">>)
           t == Append(m, <<"stop", e>>)
<1>1. <<"error">> \in Frames /\ <<"stop", e>> \in Frames
  BY FramesThatAre
<1>2. Fits(s, <<"error">>)
  BY DEF Fits
<1>3. /\ m \in Seq(Frames) /\ Whole(m)
      /\ \A kind : Has(m, kind) <=> Has(s, kind) \/ kind = "error"
      /\ \A n : HasOpened(s, n) => HasOpened(m, n)
      /\ Numbers(m, Len(m)) = Numbers(s, Len(s))
  BY <1>1, <1>2, OneFrame
<1> HIDE DEF m
<1>4. Fits(m, <<"stop", e>>)
  BY <1>3 DEF Fits
<1>5. /\ t \in Seq(Frames) /\ Whole(t)
      /\ \A kind : Has(t, kind) <=> Has(m, kind) \/ kind = "stop"
      /\ \A n : HasOpened(m, n) => HasOpened(t, n)
      /\ Numbers(t, Len(t)) = Numbers(m, Len(m))
  BY <1>1, <1>3, <1>4, OneFrame
<1> HIDE DEF t
<1>6. /\ t \in Seq(Frames) /\ Whole(t) /\ Has(t, "stop")
      /\ Has(t, "start") <=> Has(s, "start")
      /\ Numbers(t, Len(t)) = Numbers(s, Len(s))
      /\ \A n : HasOpened(s, n) => HasOpened(t, n)
  BY <1>3, <1>5
<1>7. QED
  BY <1>6 DEF t, m

\* Every step of the loop keeps the types of its state.
LEMMA ShapeStays ==
  ASSUME SearchShape, [Next]_vars
  PROVE  SearchShape'
<1> USE DEF SearchShape
<1>1. CASE UNCHANGED vars
  BY <1>1 DEF vars, reading, searching
<1>2. CASE Begin \/ PassThrough \/ DeadlinePasses \/ ToolForgotten \/ Report
  BY <1>2 DEF Begin, PassThrough, DeadlinePasses, ToolForgotten, Report, reading, searching
<1>3. CASE OpenTurn
  <2>1. [NewTurn EXCEPT !.blocks = turn.blocks] \in Turns
    BY NewTurnIsTurn DEF Turns
  <2>2. QED
    BY <1>3, <2>1 DEF OpenTurn, searching
<1>4. CASE TurnRefused
  <2>1. <<"error">> \in Frames /\ <<"stop", Failed>> \in Frames
    BY FramesThatAre, EndsThatAre
  <2>2. sent' \in Seq(Frames)
    BY <1>4, <2>1 DEF TurnRefused
  <2>3. QED
    BY <1>4, <2>2 DEF TurnRefused, searching
<1>5. CASE Crash
  <2>1. <<"error">> \in Frames /\ <<"stop", Failed>> \in Frames
    BY FramesThatAre, EndsThatAre
  <2>2. sent' \in Seq(Frames)
    BY <1>5, <2>1 DEF Crash
  <2>3. QED
    BY <1>5, <2>2 DEF Crash, searching
<1>6. CASE TurnStarts
  <2>1. sent' \in Seq(Frames) /\ envelope_open' \in BOOLEAN
    <3>1. Append(sent, <<"start">>) \in Seq(Frames)
      BY FramesThatAre
    <3>2. QED
      BY <1>6, <3>1 DEF TurnStarts
  <2>2. turn' \in Turns
    BY <1>6 DEF TurnStarts, Turns
  <2>3. merged' \in Nat
    BY <1>6 DEF TurnStarts, Usage
  <2>4. QED
    BY <1>6, <2>1, <2>2, <2>3 DEF TurnStarts, searching
<1>7. ASSUME NEW kind \in Kinds, BlockStarts(kind) PROVE SearchShape'
  <2>1. sent' \in Seq(Frames) /\ global_index' \in Nat
    <3>1. <<"open", global_index>> \in Frames
      BY FramesThatAre
    <3>2. Append(sent, <<"open", global_index>>) \in Seq(Frames)
      BY <3>1
    <3>3. global_index + 1 \in Nat
      OBVIOUS
    <3>4. CASE kind = "ours"
      <4>1. sent' = sent /\ global_index' = global_index
        BY <1>7, <3>4 DEF BlockStarts
      <4>2. QED
        BY <4>1
    <3>5. CASE kind # "ours"
      <4>1. sent' = Append(sent, <<"open", global_index>>) /\ global_index' = global_index + 1
        BY <1>7, <3>5 DEF BlockStarts
      <4>2. QED
        BY <3>2, <3>3, <4>1
    <3>6. QED
      BY <3>4, <3>5
  <2>2. turn' \in Turns
    <3>1. turn' = [turn EXCEPT !.blocks = turn.blocks + 1, !.block = kind, !.at = global_index,
                               !.client = turn.client \/ kind = "client"]
      BY <1>7 DEF BlockStarts
    <3>2. (turn.client \/ kind = "client") \in BOOLEAN
      OBVIOUS
    <3>3. turn.blocks + 1 \in Nat
      BY DEF Turns
    <3> DEFINE c == turn.client \/ kind = "client"
    <3>4. c \in BOOLEAN /\ turn' = [turn EXCEPT !.blocks = turn.blocks + 1, !.block = kind,
                                                !.at = global_index, !.client = c]
      BY <3>1, <3>2
    <3> HIDE DEF c
    <3>5. QED
      BY <3>3, <3>4 DEF Turns
  <2>3. QED
    BY <1>7, <2>1, <2>2 DEF BlockStarts, searching
<1>8. CASE BlockStops
  <2>1. sent' \in Seq(Frames)
    <3>1. turn.at \in Nat
      BY DEF Turns
    <3>2. QED
      <4>1. <<"close", turn.at>> \in Frames
        BY <3>1, FramesThatAre
      <4>2. Append(sent, <<"close", turn.at>>) \in Seq(Frames)
        BY <4>1
      <4>3. QED
        BY <1>8, <4>2 DEF BlockStops
  <2>2. turn' \in Turns
    <3> DEFINE made == IF turn.block = "ours" THEN Append(turn.calls, turn.blocks) ELSE turn.calls
    <3>1. made \in Seq(Nat)
      <4>1. turn.calls \in Seq(Nat) /\ turn.blocks \in Nat
        BY DEF Turns
      <4>2. QED
        BY <4>1
    <3>2. turn' = [turn EXCEPT !.block = "none", !.calls = made]
      BY <1>8 DEF BlockStops
    <3> HIDE DEF made
    <3>3. QED
      BY <3>1, <3>2 DEF Turns
  <2>3. QED
    BY <1>8, <2>1, <2>2 DEF BlockStops, searching
<1>9. CASE TurnEnds
  <2>1. turn' \in Turns
    BY <1>9 DEF TurnEnds, Turns
  <2>2. terminal' \in Ends
    BY <1>9 DEF TurnEnds, Ends
  <2>3. merged' \in Nat
    BY <1>9 DEF TurnEnds, Usage
  <2>4. QED
    BY <1>9, <2>1, <2>2, <2>3 DEF TurnEnds, searching
<1>10. CASE ErrorEvent
  <2>1. turn' \in Turns
    BY <1>10 DEF ErrorEvent, Turns
  <2>2. sent' \in Seq(Frames)
    BY <1>10, FramesThatAre DEF ErrorEvent
  <2>3. QED
    BY <1>10, <2>1, <2>2 DEF ErrorEvent, searching
<1>11. CASE TurnOver
  <2>1. sent' \in Seq(Frames)
    <3>1. Failed \in Ends /\ terminal \in Ends
      BY EndsThatAre
    <3>2. <<"stop", Failed>> \in Frames /\ <<"stop", terminal>> \in Frames
      BY <3>1, FramesThatAre
    <3>3. /\ Append(sent, <<"stop", Failed>>) \in Seq(Frames)
          /\ Append(sent, <<"stop", terminal>>) \in Seq(Frames)
      BY <3>2
    <3>4. QED
      BY <1>11, <3>3 DEF TurnOver
  <2>2. QED
    BY <1>11, <2>1 DEF TurnOver
<1>12. CASE WholeTurn
  <2>1. turn' \in Turns
    <3>1. PICK made \in 0..MaxBlocks, client \in BOOLEAN :
            turn' = [NewTurn EXCEPT !.ended = TRUE, !.calls = [i \in 1..made |-> i],
                                    !.client = client]
      BY <1>12 DEF WholeTurn
    <3>2. made \in Nat
      BY WebSearchAssumption
    <3>3. [i \in 1..made |-> i] \in Seq(Nat)
      BY <3>2
    <3>4. QED
      BY <3>1, <3>3, NewTurnIsTurn DEF Turns
  <2>2. merged' \in Nat
    BY <1>12 DEF WholeTurn, Usage
  <2>3. QED
    BY <1>12, <2>1, <2>2 DEF WholeTurn
<1>13. CASE WholeTurnFails \/ Disconnect
  BY <1>13 DEF WholeTurnFails, Disconnect, reading, searching
<1>14. CASE SearchTooLate \/ DoSearch
  <2>1. turn' \in Turns
    <3>1. turn.calls \in Seq(Nat) /\ turn.results \in Seq(Nat) /\ Len(turn.results) < Len(turn.calls)
      BY <1>14 DEF SearchTooLate, DoSearch, Unanswered, Turns
    <3>2. Len(turn.results) + 1 \in 1..Len(turn.calls)
      BY <3>1
    <3>3. Append(turn.results, turn.calls[Len(turn.results) + 1]) \in Seq(Nat)
      BY <3>1, <3>2
    <3>4. turn' = [turn EXCEPT !.results = Append(turn.results, turn.calls[Len(turn.results) + 1])]
      BY <1>14 DEF SearchTooLate, DoSearch
    <3>5. QED
      BY <3>3, <3>4 DEF Turns
  <2>2. QED
    BY <1>14, <2>1 DEF SearchTooLate, DoSearch, searching
<1>15. CASE Continue
  <2>1. [calls |-> turn.calls, results |-> turn.results] \in Exchanges
    BY DEF Turns, Exchanges
  <2>2. conversation' \in Seq(Exchanges)
    BY <1>15, <2>1 DEF Continue
  <2>3. QED
    BY <1>15, <2>2 DEF Continue, reading
<1>16. QED
  BY <1>1, <1>2, <1>3, <1>4, <1>5, <1>6, <1>7, <1>8, <1>9, <1>10, <1>11, <1>12, <1>13, <1>14, <1>15
     DEF Next, Step
---------------------------------------------------------------------------
\* What an action that sends nothing, or one frame, has to show.
LEMMA SilentStep ==
  ASSUME SearchShape, EnvelopeInv, UNCHANGED <<sent, envelope_open, global_index, is_stream>>,
         turn'.started => turn.started,
         turn'.block \in {"text", "client"} => turn'.block = turn.block /\ turn'.at = turn.at,
         pc' \in {"report", "done"} => pc \in {"report", "done"} \/ gone' \/ ~envelope_open,
         pc \in {"report", "done"} => pc' \in {"report", "done"},
         gone => gone', pc' = "read" => is_stream
  PROVE  EnvelopeInv'
BY DEF EnvelopeInv
---------------------------------------------------------------------------
\* Every step keeps the envelope whole: an action sends nothing, a frame that
\* fits, or an error and the stop.
LEMMA EnvelopeStays ==
  ASSUME SearchShape, SearchShape', EnvelopeInv, [Next]_vars
  PROVE  EnvelopeInv'
<1>1. CASE UNCHANGED vars
  BY <1>1 DEF vars, reading, searching, EnvelopeInv
<1>2. CASE Begin
  BY <1>2, SilentStep DEF Begin, reading
<1>3. CASE PassThrough
  BY <1>3, SilentStep DEF PassThrough, reading
<1>4. CASE DeadlinePasses
  BY <1>4, SilentStep DEF DeadlinePasses, reading, EnvelopeInv
<1>5. CASE ToolForgotten
  BY <1>5, SilentStep DEF ToolForgotten, reading, EnvelopeInv
<1>6. CASE Report
  BY <1>6, SilentStep DEF Report, reading
<1>7. CASE OpenTurn
  BY <1>7, SilentStep DEF OpenTurn, NewTurn, searching
<1>8. CASE Disconnect
  BY <1>8, SilentStep DEF Disconnect, reading, SearchShape
<1>9. CASE WholeTurn
  BY <1>9, SilentStep DEF WholeTurn, NewTurn, EnvelopeInv
<1>10. CASE WholeTurnFails
  BY <1>10, SilentStep DEF WholeTurnFails, reading, EnvelopeInv
<1>11. CASE SearchTooLate
  BY <1>11 DEF SearchTooLate, SearchShape, Turns, EnvelopeInv
<1>12. CASE DoSearch
  BY <1>12 DEF DoSearch, SearchShape, Turns, EnvelopeInv
<1>13. CASE Continue
  BY <1>13, SilentStep DEF Continue, reading
<1>14. CASE TurnEnds
  BY <1>14 DEF TurnEnds, SearchShape, Turns, EnvelopeInv
<1>15. CASE TurnStarts
  <2> DEFINE f == <<"start">>
  <2>1. /\ f \in Frames /\ f[1] = "start"
        /\ sent \in Seq(Frames) /\ Whole(sent)
    BY FramesThatAre DEF SearchShape, EnvelopeInv
  <2>2. /\ pc = "read" /\ pc' = pc /\ is_stream' = is_stream /\ gone' = gone
        /\ global_index' = global_index /\ envelope_open'
        /\ turn'.block = turn.block /\ turn'.at = turn.at
    BY <1>15 DEF TurnStarts, SearchShape, Turns
  <2>3. CASE envelope_open
    BY <1>15, <2>2, <2>3 DEF TurnStarts, EnvelopeInv
  <2>4. CASE ~envelope_open
    <3>1. Fits(sent, f)
      BY <2>2, <2>4 DEF Fits, EnvelopeInv
    <3>2. sent' = Append(sent, f)
      BY <1>15, <2>4 DEF TurnStarts
    <3> HIDE DEF f
    <3>3. /\ Whole(sent') /\ Numbers(sent', Len(sent')) = Numbers(sent, Len(sent))
          /\ \A kind : Has(sent', kind) <=> Has(sent, kind) \/ kind = "start"
          /\ \A n : HasOpened(sent, n) => HasOpened(sent', n)
      BY <2>1, <3>1, <3>2, OneFrame
    <3>4. QED
      BY <2>2, <3>3 DEF EnvelopeInv
  <2>5. QED
    BY <2>3, <2>4
<1>16. ASSUME NEW kind \in Kinds, BlockStarts(kind) PROVE EnvelopeInv'
  <2> DEFINE f == <<"open", global_index>>
  <2>1. /\ f \in Frames /\ f[1] = "open" /\ f[2] = global_index
        /\ sent \in Seq(Frames) /\ Whole(sent) /\ global_index \in Nat
    BY FramesThatAre DEF SearchShape, EnvelopeInv
  <2>2. /\ pc = "read" /\ pc' = pc /\ is_stream' = is_stream /\ gone' = gone
        /\ envelope_open' = envelope_open /\ turn.started
    BY <1>16 DEF BlockStarts, Receiving
  <2>3. turn'.started = turn.started /\ turn'.block = kind /\ turn'.at = global_index
    BY <1>16 DEF BlockStarts, SearchShape, Turns
  <2>4. CASE kind = "ours"
    BY <1>16, <2>2, <2>3, <2>4 DEF BlockStarts, EnvelopeInv
  <2>5. CASE kind # "ours"
    <3>1. Fits(sent, f)
      BY <2>1, <2>2 DEF Fits, EnvelopeInv
    <3>2. sent' = Append(sent, f) /\ global_index' = global_index + 1
      BY <1>16, <2>5 DEF BlockStarts
    <3> HIDE DEF f
    <3>3. /\ Whole(sent') /\ Numbers(sent', Len(sent')) = Numbers(sent, Len(sent)) \cup {global_index}
          /\ \A k : Has(sent', k) <=> Has(sent, k) \/ k = "open"
          /\ \A n : HasOpened(sent, n) \/ f = <<"open", n>> => HasOpened(sent', n)
      BY <2>1, <3>1, <3>2, OneFrame
    <3>4. Numbers(sent', Len(sent')) = 0..(global_index' - 1)
      <4>1. Numbers(sent, Len(sent)) = 0..(global_index - 1)
        BY DEF EnvelopeInv
      <4>2. Numbers(sent', Len(sent')) = 0..(global_index - 1) \cup {global_index}
        BY <3>3, <4>1
      <4>3. QED
        BY <2>1, <3>2, <4>2, NextNumber
    <3>5. HasOpened(sent', turn'.at)
      BY <2>3, <3>3 DEF f
    <3>6. QED
      BY <2>2, <2>3, <3>3, <3>4, <3>5 DEF EnvelopeInv
  <2>6. QED
    BY <2>4, <2>5
<1>17. CASE BlockStops
  <2> DEFINE f == <<"close", turn.at>>
  <2>1. /\ f \in Frames /\ f[1] = "close" /\ f[2] = turn.at
        /\ sent \in Seq(Frames) /\ Whole(sent)
    BY FramesThatAre DEF SearchShape, EnvelopeInv, Turns
  <2>2. /\ pc = "read" /\ pc' = pc /\ is_stream' = is_stream /\ gone' = gone
        /\ envelope_open' = envelope_open /\ turn.started /\ global_index' = global_index
    BY <1>17 DEF BlockStops, Receiving
  <2>3. turn'.started = turn.started /\ turn'.block = "none"
    BY <1>17 DEF BlockStops, SearchShape, Turns
  <2>4. CASE turn.block = "ours"
    BY <1>17, <2>2, <2>3, <2>4 DEF BlockStops, EnvelopeInv
  <2>5. CASE turn.block # "ours"
    <3>1. turn.block \in {"text", "client"}
      BY <1>17, <2>5 DEF BlockStops, SearchShape, Turns, Kinds
    <3>2. Fits(sent, f)
      BY <2>1, <2>2, <3>1 DEF Fits, EnvelopeInv
    <3>3. sent' = Append(sent, f)
      BY <1>17, <2>5 DEF BlockStops
    <3> HIDE DEF f
    <3>4. /\ Whole(sent') /\ Numbers(sent', Len(sent')) = Numbers(sent, Len(sent))
          /\ \A k : Has(sent', k) <=> Has(sent, k) \/ k = "close"
      BY <2>1, <3>2, <3>3, OneFrame
    <3>5. QED
      BY <2>2, <2>3, <3>4 DEF EnvelopeInv
  <2>6. QED
    BY <2>4, <2>5
<1>18. CASE ErrorEvent
  <2> DEFINE f == <<"error">>
  <2>1. /\ f \in Frames /\ f[1] = "error"
        /\ sent \in Seq(Frames) /\ Whole(sent)
    BY FramesThatAre DEF SearchShape, EnvelopeInv
  <2>2. /\ pc = "read" /\ pc' = pc /\ is_stream' = is_stream /\ gone' = gone
        /\ envelope_open' = envelope_open /\ global_index' = global_index
        /\ sent' = Append(sent, f)
    BY <1>18 DEF ErrorEvent
  <2>3. turn'.started = turn.started /\ turn'.block = turn.block /\ turn'.at = turn.at
    BY <1>18 DEF ErrorEvent, SearchShape, Turns
  <2>4. Fits(sent, f)
    BY <2>1, <2>2 DEF Fits, EnvelopeInv
  <2> HIDE DEF f
  <2>5. /\ Whole(sent') /\ Numbers(sent', Len(sent')) = Numbers(sent, Len(sent))
        /\ \A k : Has(sent', k) <=> Has(sent, k) \/ k = "error"
        /\ \A n : HasOpened(sent, n) => HasOpened(sent', n)
    BY <2>1, <2>2, <2>4, OneFrame
  <2>6. QED
    BY <2>2, <2>3, <2>5 DEF EnvelopeInv
<1>19. CASE TurnOver
  <2>1. /\ pc = "read" /\ is_stream' = is_stream /\ turn' = turn
        /\ envelope_open' = envelope_open /\ global_index' = global_index
        /\ pc' \in {"search", "report"}
    BY <1>19 DEF TurnOver
  <2>2. CASE IsSearchTurn /\ ~force_final
    BY <1>19, <2>1, <2>2 DEF TurnOver, EnvelopeInv
  <2>3. CASE ~(IsSearchTurn /\ ~force_final)
    <3>1. PICK e \in Ends : sent' = Append(sent, <<"stop", e>>)
      <4>1. terminal \in Ends /\ Failed \in Ends
        BY EndsThatAre DEF SearchShape
      <4>2. QED
        BY <1>19, <2>3, <4>1 DEF TurnOver
    <3> DEFINE f == <<"stop", e>>
    <3>2. /\ f \in Frames /\ f[1] = "stop" /\ sent \in Seq(Frames) /\ Whole(sent)
      BY FramesThatAre DEF SearchShape, EnvelopeInv
    <3>3. Fits(sent, f)
      BY <2>1, <3>2 DEF Fits, EnvelopeInv
    <3>4. sent' = Append(sent, f)
      BY <3>1
    <3> HIDE DEF f
    <3>5. /\ Whole(sent') /\ Numbers(sent', Len(sent')) = Numbers(sent, Len(sent))
          /\ \A k : Has(sent', k) <=> Has(sent, k) \/ k = "stop"
          /\ \A n : HasOpened(sent, n) => HasOpened(sent', n)
      BY <3>2, <3>3, <3>4, OneFrame
    <3>6. pc' = "report"
      BY <1>19, <2>3 DEF TurnOver
    <3>7. QED
      BY <2>1, <3>5, <3>6 DEF EnvelopeInv
  <2>4. QED
    BY <2>2, <2>3
<1>20. CASE TurnRefused
  <2>1. /\ pc = "turn" /\ pc' = "report" /\ UNCHANGED is_stream /\ turn' = turn
        /\ envelope_open' = envelope_open /\ global_index' = global_index /\ is_stream
    BY <1>20 DEF TurnRefused
  <2>2. /\ sent \in Seq(Frames) /\ Whole(sent) /\ Failed \in Ends /\ ~Has(sent, "stop")
    BY <2>1, EndsThatAre DEF SearchShape, EnvelopeInv
  <2>3. <<"error">> \in Frames /\ <<"stop", Failed>> \in Frames
    BY <2>2, FramesThatAre
  <2>4. CASE envelope_open
    <3>1. sent' = (sent \o <<<<"error">>>>) \o <<<<"stop", Failed>>>>
      BY <1>20, <2>4 DEF TurnRefused
    <3>2. sent' = Append(Append(sent, <<"error">>), <<"stop", Failed>>)
      BY <2>2, <2>3, <3>1, TwoFrames
    <3>3. /\ Whole(sent') /\ Has(sent', "stop")
          /\ Has(sent', "start") <=> Has(sent, "start")
          /\ Numbers(sent', Len(sent')) = Numbers(sent, Len(sent))
          /\ \A n : HasOpened(sent, n) => HasOpened(sent', n)
      BY <2>2, <3>2, ErrorThenStop
    <3>4. QED
      BY <2>1, <3>3 DEF EnvelopeInv
  <2>5. CASE ~envelope_open
    <3> DEFINE f == <<"error">>
    <3>1. sent' = (sent \o <<f>>) \o << >>
      BY <1>20, <2>5 DEF TurnRefused
    <3>2. sent' = Append(sent, f)
      BY <2>2, <2>3, <3>1, TwoFrames
    <3>3. Fits(sent, f) /\ f \in Frames /\ f[1] = "error"
      BY <2>2, <2>3 DEF Fits
    <3> HIDE DEF f
    <3>4. /\ Whole(sent') /\ Numbers(sent', Len(sent')) = Numbers(sent, Len(sent))
          /\ \A k : Has(sent', k) <=> Has(sent, k) \/ k = "error"
          /\ \A n : HasOpened(sent, n) => HasOpened(sent', n)
      BY <2>2, <3>2, <3>3, OneFrame
    <3>5. QED
      BY <2>1, <2>5, <3>4 DEF EnvelopeInv
  <2>6. QED
    BY <2>4, <2>5 DEF SearchShape
<1>21. CASE Crash
  <2>1. /\ pc \notin {"report", "done"} /\ pc' = "report" /\ is_stream' = is_stream /\ turn' = turn
        /\ envelope_open' = envelope_open /\ global_index' = global_index /\ is_stream
    BY <1>21 DEF Crash
  <2>2. /\ sent \in Seq(Frames) /\ Whole(sent) /\ Failed \in Ends /\ ~Has(sent, "stop")
    BY <2>1, EndsThatAre DEF SearchShape, EnvelopeInv
  <2>3. <<"error">> \in Frames /\ <<"stop", Failed>> \in Frames
    BY <2>2, FramesThatAre
  <2>4. CASE envelope_open
    <3>1. sent' = sent \o <<<<"error">>, <<"stop", Failed>>>>
      BY <1>21, <2>4 DEF Crash
    <3>2. sent' = Append(Append(sent, <<"error">>), <<"stop", Failed>>)
      BY <2>2, <2>3, <3>1, TwoFrames
    <3>3. /\ Whole(sent') /\ Has(sent', "stop")
          /\ Has(sent', "start") <=> Has(sent, "start")
          /\ Numbers(sent', Len(sent')) = Numbers(sent, Len(sent))
          /\ \A n : HasOpened(sent, n) => HasOpened(sent', n)
      BY <2>2, <3>2, ErrorThenStop
    <3>4. QED
      BY <2>1, <3>3 DEF EnvelopeInv
  <2>5. CASE ~envelope_open
    BY <1>21, <2>1, <2>5, SilentStep DEF Crash
  <2>6. QED
    BY <2>4, <2>5 DEF SearchShape
<1>22. QED
  BY <1>1, <1>2, <1>3, <1>4, <1>5, <1>6, <1>7, <1>8, <1>9, <1>10, <1>11, <1>12, <1>13, <1>14,
     <1>15, <1>16, <1>17, <1>18, <1>19, <1>20, <1>21 DEF Next, Step
---------------------------------------------------------------------------
\* Results are given in the order of the calls, and a turn is continued only
\* when it has all of them.
LEMMA CallsStay ==
  ASSUME SearchShape, SearchShape', CallsInv, [Next]_vars
  PROVE  CallsInv'
<1>1. CASE UNCHANGED vars
  BY <1>1 DEF vars, reading, searching, CallsInv
<1>2. CASE Begin
  BY <1>2 DEF Begin, reading, searching, CallsInv
<1>3. CASE PassThrough
  BY <1>3 DEF PassThrough, reading, searching, CallsInv
<1>4. CASE DeadlinePasses
  BY <1>4 DEF DeadlinePasses, reading, searching, CallsInv
<1>5. CASE ToolForgotten
  BY <1>5 DEF ToolForgotten, reading, searching, CallsInv
<1>6. CASE Report
  BY <1>6 DEF Report, reading, searching, CallsInv
<1>7. CASE OpenTurn
  <2>1. turn'.results = << >> /\ pc' = "read" /\ conversation' = conversation
    BY <1>7 DEF OpenTurn, NewTurn, searching
  <2>2. QED
    BY <2>1 DEF CallsInv
<1>8. CASE Disconnect
  BY <1>8 DEF Disconnect, reading, searching, CallsInv
<1>9. CASE WholeTurn
  <2>1. PICK made \in 0..MaxBlocks, client \in BOOLEAN :
          /\ turn' = [NewTurn EXCEPT !.ended = TRUE, !.calls = [i \in 1..made |-> i],
                                     !.client = client]
          /\ pc' \in {"search", "report"}
          /\ pc' = "search" => made > 0 /\ ~client
    BY <1>9 DEF WholeTurn
  <2>2. conversation' = conversation
    BY <1>9 DEF WholeTurn
  <2>3. /\ turn'.results = << >> /\ turn'.client = client
        /\ turn'.calls = [i \in 1..made |-> i]
    BY <2>1 DEF NewTurn
  <2>4. made \in Nat
    BY WebSearchAssumption
  <2>5. made > 0 => Len(turn'.calls) = made /\ turn'.calls # << >>
    BY <2>3, <2>4
  <2>6. Len(turn'.results) = 0 /\ DOMAIN turn'.results = {} /\ Len(turn'.calls) \in Nat
    BY <2>3, <2>4
  <2>7. QED
    BY <2>1, <2>2, <2>3, <2>4, <2>5, <2>6 DEF CallsInv
<1>10. CASE WholeTurnFails
  BY <1>10 DEF WholeTurnFails, reading, searching, CallsInv
<1>11. ASSUME SearchTooLate \/ DoSearch
       PROVE  CallsInv'
  <2>1. /\ turn' = [turn EXCEPT !.results = Append(turn.results, turn.calls[Len(turn.results) + 1])]
        /\ Len(turn.results) < Len(turn.calls) /\ pc = "search" /\ pc' = "search"
        /\ conversation' = conversation
    BY <1>11 DEF SearchTooLate, DoSearch, Unanswered, searching
  <2>2. /\ turn'.results = Append(turn.results, turn.calls[Len(turn.results) + 1])
        /\ turn'.calls = turn.calls /\ turn'.client = turn.client
        /\ turn.calls \in Seq(Nat) /\ turn.results \in Seq(Nat)
    BY <2>1 DEF SearchShape, Turns
  <2> DEFINE n == Len(turn.results) + 1
             answer == turn.calls[n]
  <2>3. /\ Len(turn'.results) = n
        /\ \A i \in DOMAIN turn'.results :
             \/ i = n /\ turn'.results[i] = answer
             \/ i \in DOMAIN turn.results /\ turn'.results[i] = turn.results[i]
    <3>1. Len(turn.results) \in Nat /\ n \in 1..Len(turn.calls)
      BY <2>1, <2>2
    <3>2. answer \in Nat
      BY <2>2, <3>1
    <3> HIDE DEF answer
    <3>3. turn'.results = Append(turn.results, answer)
      BY <2>2 DEF answer
    <3>4. QED
      BY <2>2, <3>2, <3>3
  <2>4. Len(turn'.results) <= Len(turn'.calls)
    BY <2>1, <2>2, <2>3
  <2>5. QED
    BY <2>1, <2>2, <2>3, <2>4 DEF CallsInv
<1>12. CASE Continue
  <2>1. /\ pc = "search" /\ pc' = "turn" /\ turn' = turn
        /\ conversation' = Append(conversation, [calls |-> turn.calls, results |-> turn.results])
        /\ ~(Len(turn.results) < Len(turn.calls))
    BY <1>12 DEF Continue, Unanswered, reading
  <2>2. turn.calls \in Seq(Nat) /\ turn.results \in Seq(Nat) /\ conversation \in Seq(Exchanges)
    BY DEF SearchShape, Turns
  <2>3. turn.results = turn.calls /\ turn.calls # << >>
    <3>1. /\ Len(turn.results) = Len(turn.calls)
          /\ \A i \in DOMAIN turn.results : turn.results[i] = turn.calls[i]
      BY <2>1, <2>2 DEF CallsInv
    <3>2. QED
      BY <2>1, <2>2, <3>1 DEF CallsInv
  <2> DEFINE e == [calls |-> turn.calls, results |-> turn.results]
  <2>4. e.calls # << >> /\ e.results = e.calls
    BY <2>3
  <2>5. e \in Exchanges
    BY <2>2 DEF Exchanges
  <2> HIDE DEF e
  <2>6. conversation' = Append(conversation, e)
    BY <2>1 DEF e
  <2>7. \A i \in DOMAIN conversation' :
           \/ i \in DOMAIN conversation /\ conversation'[i] = conversation[i]
           \/ conversation'[i] = e
    BY <2>2, <2>5, <2>6
  <2>8. QED
    BY <2>1, <2>4, <2>7 DEF CallsInv
<1>13. CASE TurnStarts
  BY <1>13 DEF TurnStarts, searching, SearchShape, Turns, CallsInv
<1>14. ASSUME NEW kind \in Kinds, BlockStarts(kind) PROVE CallsInv'
  <2>1. pc = "read" /\ pc' = "read" /\ conversation' = conversation
    BY <1>14 DEF BlockStarts, Receiving, searching
  <2>2. turn'.results = turn.results
    BY <1>14 DEF BlockStarts, SearchShape, Turns
  <2>3. QED
    BY <2>1, <2>2 DEF CallsInv
<1>15. CASE BlockStops
  <2>1. pc = "read" /\ pc' = "read" /\ conversation' = conversation
    BY <1>15 DEF BlockStops, Receiving, searching
  <2>2. turn'.results = turn.results
    BY <1>15 DEF BlockStops, SearchShape, Turns
  <2>3. QED
    BY <2>1, <2>2 DEF CallsInv
<1>16. CASE TurnEnds \/ ErrorEvent
  <2>1. pc = "read" /\ pc' = "read" /\ conversation' = conversation
    BY <1>16 DEF TurnEnds, ErrorEvent, Receiving, searching
  <2>2. turn'.results = turn.results
    BY <1>16 DEF TurnEnds, ErrorEvent, SearchShape, Turns
  <2>3. QED
    BY <2>1, <2>2 DEF CallsInv
<1>17. CASE TurnOver
  <2>1. pc = "read" /\ pc' \in {"search", "report"} /\ conversation' = conversation /\ turn' = turn
    BY <1>17 DEF TurnOver
  <2>2. pc' = "search" => turn.calls # << >> /\ ~turn.client
    BY <1>17 DEF TurnOver, IsSearchTurn
  <2>3. turn.results = << >> /\ Len(turn.calls) \in Nat
    BY <2>1 DEF CallsInv, SearchShape, Turns
  <2>4. Len(turn.results) = 0 /\ DOMAIN turn.results = {}
    BY <2>3
  <2>5. QED
    BY <2>1, <2>2, <2>3, <2>4 DEF CallsInv
<1>18. CASE TurnRefused
  BY <1>18 DEF TurnRefused, searching, CallsInv
<1>19. CASE Crash
  BY <1>19 DEF Crash, searching, CallsInv
<1>20. QED
  BY <1>1, <1>2, <1>3, <1>4, <1>5, <1>6, <1>7, <1>8, <1>9, <1>10, <1>11, <1>12, <1>13, <1>14,
     <1>15, <1>16, <1>17, <1>18, <1>19 DEF Next, Step
---------------------------------------------------------------------------
\* What a turn adds to the bill it adds to the sum that is reported.
LEMMA UsageStays ==
  ASSUME SearchShape, EnvelopeInv, UsageInv, [Next]_vars
  PROVE  UsageInv'
<1>1. CASE UNCHANGED vars
  BY <1>1 DEF vars, UsageInv
<1>2. CASE Begin \/ OpenTurn \/ Continue
  BY <1>2 DEF Begin, OpenTurn, Continue, UsageInv
<1>13. CASE DeadlinePasses
  BY <1>13 DEF DeadlinePasses, UsageInv
<1>14. CASE ToolForgotten
  BY <1>14 DEF ToolForgotten, UsageInv
<1>3. CASE PassThrough
  BY <1>3 DEF PassThrough, UsageInv
<1>4. CASE TurnRefused \/ Crash \/ WholeTurnFails \/ Disconnect
  BY <1>4 DEF TurnRefused, Crash, WholeTurnFails, Disconnect, UsageInv
<1>5. CASE TurnStarts \/ TurnEnds
  BY <1>5 DEF TurnStarts, TurnEnds, Receiving, Usage, UsageInv
<1>6. ASSUME NEW kind \in Kinds, BlockStarts(kind) PROVE UsageInv'
  BY <1>6 DEF BlockStarts, UsageInv
<1>7. CASE BlockStops \/ ErrorEvent
  BY <1>7 DEF BlockStops, ErrorEvent, UsageInv
<1>8. CASE TurnOver
  BY <1>8 DEF TurnOver, UsageInv
<1>9. CASE WholeTurn
  BY <1>9 DEF WholeTurn, Usage, UsageInv
<1>10. CASE SearchTooLate \/ DoSearch
  BY <1>10 DEF SearchTooLate, DoSearch, UsageInv
<1>11. CASE Report
  <2>1. /\ pc = "report" /\ pc' = "done" /\ merged' = merged /\ billed' = billed
        /\ is_stream' = is_stream
        /\ reports' = IF is_stream \/ merged > 0 THEN Append(reports, merged) ELSE reports
    BY <1>11 DEF Report
  <2>2. reports = << >> /\ merged = billed
    BY <2>1 DEF UsageInv
  <2>3. reports' = IF is_stream \/ billed > 0 THEN <<billed>> ELSE << >>
    BY <2>1, <2>2
  <2>4. QED
    BY <2>1, <2>2, <2>3 DEF UsageInv
<1>15. QED
  BY <1>1, <1>2, <1>3, <1>4, <1>5, <1>6, <1>7, <1>8, <1>9, <1>10, <1>11, <1>13, <1>14
     DEF Next, Step
---------------------------------------------------------------------------
\* The strengthened invariant of the loop.
LEMMA SearchInvHolds ==
  Spec => []SearchInv
<1>1. Init => SearchInv
  <2> SUFFICES ASSUME Init PROVE SearchInv
    OBVIOUS
  <2>1. SearchShape
    <3>1. sent = << >> /\ conversation = << >> /\ << >> \in Seq(Frames) /\ << >> \in Seq(Exchanges)
      BY DEF Init
    <3>2. terminal \in Ends
      BY DEF Init, Completed, Ends
    <3>3. QED
      BY <3>1, <3>2, NewTurnIsTurn DEF Init, SearchShape
  <2>2. EnvelopeInv
    <3>1. sent = << >> /\ global_index = 0 /\ envelope_open = FALSE /\ turn.started = FALSE
          /\ turn.block = "none" /\ pc = "idle"
      BY DEF Init, NewTurn
    <3>2. Len(sent) = 0 /\ \A kind : At(sent, kind) = {}
      BY <3>1 DEF At
    <3>3. Numbers(sent, Len(sent)) = {} /\ 0..(global_index - 1) = {}
      BY <3>1, <3>2 DEF Numbers
    <3>4. QED
      BY <3>1, <3>2, <3>3 DEF EnvelopeInv, Whole, Has
  <2>3. CallsInv /\ UsageInv
    BY DEF Init, CallsInv, UsageInv
  <2>4. QED
    BY <2>1, <2>2, <2>3 DEF SearchInv
<1>2. SearchInv /\ [Next]_vars => SearchInv'
  BY ShapeStays, EnvelopeStays, CallsStay, UsageStays DEF SearchInv
<1>3. QED
  BY <1>1, <1>2, PTL DEF Spec

\* The client of a web search sees one envelope, whatever turns, searches,
\* refusals and errors it is made of (the stream handlers of the loop).
THEOREM OneEnvelope ==
  Spec => []Stitched
<1>1. ASSUME SearchInv PROVE Stitched
  <2>1. /\ Whole(sent) /\ Len(sent) \in Nat
        /\ pc = "done" /\ envelope_open /\ ~gone => Has(sent, "stop")
    BY <1>1 DEF SearchInv, EnvelopeInv, SearchShape
  <2>2. \A kind : Places(kind, Len(sent)) = At(sent, kind)
    BY DEF Places, At
  <2>3. \A n : Opened(n) = Numbers(sent, n)
    BY DEF Opened, Places, Numbers
  <2>4. QED
    BY <2>1, <2>2, <2>3 DEF Stitched, Whole, Has
<1>2. QED
  BY <1>1, SearchInvHolds, PTL

\* The model gets one result for every call it made, in order, and a turn that
\* also calls a tool of the client is not continued.
THEOREM CallsAreAnswered ==
  Spec => []EveryCallAnswered
<1>1. ASSUME SearchInv PROVE EveryCallAnswered
  <2>1. DOMAIN conversation = 1..Len(conversation)
    BY <1>1 DEF SearchInv, SearchShape
  <2>2. QED
    BY <1>1, <2>1 DEF SearchInv, CallsInv, EveryCallAnswered
<1>2. QED
  BY <1>1, SearchInvHolds, PTL

\* What the turns cost is reported once, whichever way the loop ends.
THEOREM UsageIsReported ==
  Spec => []UsageReported
<1>1. SearchInv => UsageReported
  BY DEF SearchInv, UsageInv, UsageReported
<1>2. QED
  BY <1>1, SearchInvHolds, PTL
-----------------------------------------------------------------------------
Tallies == UNION {[S -> Nat] : S \in {T \in SUBSET Nat : IsFiniteSet(T)}}
Ballots == [cast : Nat, votes : Tallies, warned : SUBSET Nat]
EnvelopeRecords == [form : {"none", "failed", "sql"}, result : Nat, warned : BOOLEAN,
                 vote : {"none", "PASS", "WARN", "FAIL"},
                 validation : {"none", "PASS", "WARN", "FAIL", "unparsed"}]
CallRecords == [at : {"idle", "ask", "vote", "check", "validated", "over"},
          ballot : Ballots, env : EnvelopeRecords]
Entries == ({"sql"} \X SqlCalls) \cup ({"val"} \X (SqlCalls \cup {"model"}))

AnswerShape ==
  /\ answering \in {"open", "sent", "done", "broken"}
  /\ sql \in [SqlCalls -> CallRecords] /\ bucket \in Seq(Entries) /\ shipped \in 0..Len(bucket)
  /\ seen \subseteq SqlCalls /\ overlooked \subseteq SqlCalls

(* What the vote came to is what the ballot says, as long as the ballot is    *)
(* kept.                                                                      *)
Elected(c, call) ==
  /\ call.at = "ask" => c \notin Voted
  /\ c \in Voted /\ call.at = "check" =>
       \/ Results(call.ballot) = {} /\ call.env.vote = "FAIL"
       \/ /\ call.env.result \in Leaders(call.ballot)
          /\ call.env.vote = Verdict(call.ballot, call.env.result)
---------------------------------------------------------------------------
\* A finite set of at most one element.
LEMMA OneLeader ==
  ASSUME NEW S, IsFiniteSet(S), NEW x \in S, NEW y \in S, ~(Cardinality(S) > 1)
  PROVE  x = y
<1>1. SUFFICES ASSUME x # y PROVE FALSE
  OBVIOUS
<1>2. IsFiniteSet({x}) /\ Cardinality({x}) = 1
  BY FS_Singleton
<1>3. Cardinality({x} \cup {y}) = 2
  BY <1>1, <1>2, FS_AddElement
<1>4. Cardinality({x} \cup {y}) <= Cardinality(S) /\ Cardinality(S) \in Nat
  BY FS_Subset, FS_CardinalityType
<1>5. QED
  BY <1>3, <1>4

\* What a leader of a ballot has over the other results.
LEMMA ElectedIsSound ==
  ASSUME NEW ballot \in Ballots, NEW x \in Leaders(ballot)
  PROVE  /\ \A y \in Results(ballot) \ {x} : ballot.votes[y] <= ballot.votes[x]
         /\ Verdict(ballot, x) = "PASS" =>
              \A y \in Results(ballot) \ {x} :
                 \/ ballot.votes[y] < ballot.votes[x]
                 \/ y \in ballot.warned /\ x \notin ballot.warned
<1> DEFINE largest == {y \in Results(ballot) :
                         \A z \in Results(ballot) : ballot.votes[z] <= ballot.votes[y]}
           clean == largest \ ballot.warned
<1>1. /\ IsFiniteSet(Results(ballot))
      /\ \A y \in Results(ballot) : ballot.votes[y] \in Nat
  <2>1. PICK S \in {T \in SUBSET Nat : IsFiniteSet(T)} : ballot.votes \in [S -> Nat]
    BY DEF Ballots, Tallies
  <2>2. QED
    BY <2>1 DEF Results
<1>2. Leaders(ballot) = IF clean # {} THEN clean ELSE largest
  BY DEF Leaders
<1>3. x \in largest /\ Leaders(ballot) \subseteq Results(ballot)
  BY <1>2
<1>4. IsFiniteSet(Leaders(ballot))
  BY <1>1, <1>3, FS_Subset
<1>5. ASSUME Verdict(ballot, x) = "PASS", NEW y \in Results(ballot) \ {x},
             ~(ballot.votes[y] < ballot.votes[x])
      PROVE  y \in ballot.warned /\ x \notin ballot.warned
  <2>1. ~(Cardinality(Leaders(ballot)) > 1)
    BY <1>5 DEF Verdict
  <2>2. y \notin Leaders(ballot)
    BY <1>4, <1>5, <2>1, OneLeader
  <2>3. y \in largest
    <3>1. ballot.votes[y] = ballot.votes[x]
      BY <1>1, <1>3, <1>5
    <3>2. QED
      BY <1>3, <1>5, <3>1
  <2>4. clean # {} /\ y \notin clean
    BY <1>2, <2>2, <2>3
  <2>5. QED
    BY <1>2, <2>3, <2>4
<1>6. QED
  BY <1>3, <1>5

\* A leader is one of the results.
LEMMA Leading ==
  ASSUME NEW ballot \in Ballots, NEW x \in Leaders(ballot)
  PROVE  x \in Nat
<1>1. Results(ballot) \subseteq Nat
  BY DEF Ballots, Tallies, Results
<1>2. QED
  BY <1>1 DEF Leaders

\* What a specialist's call gives has seen neither a vote nor the validator.
LEMMA EnvelopesAre ==
  ASSUME NEW n \in Nat, NEW env \in Envelopes(n)
  PROVE  /\ env \in EnvelopeRecords /\ env.vote = "none" /\ env.validation = "none"
         /\ env.form # "failed" => env.result \in 1..n
<1>1. env = Failure \/ \E x \in 1..n, w \in BOOLEAN : env = Rows(x, w)
  BY DEF Envelopes
<1>2. CASE env = Failure
  BY <1>2 DEF Failure, NoEnvelope, EnvelopeRecords
<1>3. ASSUME NEW x \in 1..n, NEW w \in BOOLEAN, env = Rows(x, w)
      PROVE  /\ env \in EnvelopeRecords /\ env.vote = "none" /\ env.validation = "none"
             /\ env.form # "failed" => env.result \in 1..n
  <2>1. env = [form |-> "sql", result |-> x, warned |-> w, vote |-> "none", validation |-> "none"]
    BY <1>3 DEF Rows, NoEnvelope
  <2>2. x \in Nat
    OBVIOUS
  <2>3. QED
    BY <2>1, <2>2 DEF EnvelopeRecords
<1>4. QED
  BY <1>1, <1>2, <1>3

\* The records a call starts with.
LEMMA NothingYet ==
  NoBallot \in Ballots /\ NoEnvelope \in EnvelopeRecords /\ Results(NoBallot) = {}
<1>1. NoBallot.votes \in [{} -> Nat] /\ DOMAIN NoBallot.votes = {}
  BY DEF NoBallot
<1>2. IsFiniteSet({})
  BY FS_EmptySet
<1>3. NoBallot.votes \in Tallies
  BY <1>1, <1>2 DEF Tallies
<1>4. QED
  BY <1>1, <1>3 DEF NoBallot, NoEnvelope, Ballots, EnvelopeRecords, Results

\* A candidate's vote makes a ballot again.
LEMMA OneVoteMore ==
  ASSUME NEW ballot \in Ballots, NEW env \in EnvelopeRecords
  PROVE  [cast   |-> ballot.cast + 1,
          votes  |-> [x \in Results(ballot) \cup {env.result} |->
                        (IF x \in Results(ballot) THEN ballot.votes[x] ELSE 0)
                          + (IF x = env.result THEN 1 ELSE 0)],
          warned |-> IF env.warned THEN ballot.warned \cup {env.result} ELSE ballot.warned]
           \in Ballots
<1> DEFINE S == Results(ballot) \cup {env.result}
           votes == [x \in S |-> (IF x \in Results(ballot) THEN ballot.votes[x] ELSE 0)
                                   + (IF x = env.result THEN 1 ELSE 0)]
           warned == IF env.warned THEN ballot.warned \cup {env.result} ELSE ballot.warned
<1>1. PICK T \in SUBSET Nat : IsFiniteSet(T) /\ ballot.votes \in [T -> Nat]
  BY DEF Ballots, Tallies
<1>2. Results(ballot) = T /\ env.result \in Nat
  BY <1>1 DEF Results, EnvelopeRecords
<1>3. IsFiniteSet(S) /\ S \in SUBSET Nat
  BY <1>1, <1>2, FS_AddElement
<1>4. votes \in [S -> Nat]
  <2>1. \A x \in S : x \in Results(ballot) => ballot.votes[x] \in Nat
    BY <1>1, <1>2
  <2>2. QED
    BY <2>1
<1>5. votes \in Tallies
  BY <1>3, <1>4 DEF Tallies
<1>6. warned \in SUBSET Nat /\ ballot.cast + 1 \in Nat
  BY <1>2 DEF Ballots
<1> HIDE DEF votes, warned
<1>7. [cast |-> ballot.cast + 1, votes |-> votes, warned |-> warned] \in Ballots
  BY <1>5, <1>6 DEF Ballots
<1>8. QED
  BY <1>7 DEF votes, warned

\* The smaller of two numbers is a number.
LEMMA SmallerIsOne ==
  ASSUME NEW a \in Nat, NEW b \in Nat
  PROVE  Min({a, b}) \in Nat
<1>1. \E x \in {a, b} : \A y \in {a, b} : x <= y
  OBVIOUS
<1>2. QED
  BY <1>1 DEF Min
---------------------------------------------------------------------------
(* What of the bucket is out, and what waits.                              *)
Upto(b, n) == {b[i] : i \in 1..n}
Beyond(b, n) == {b[i] : i \in (n + 1)..Len(b)}
Out == Upto(bucket, shipped)
Waiting == Beyond(bucket, shipped)

(* One call, with the entries that are out and those that wait, the calls   *)
(* the user was told about, t, and those overlooked, o: as soon as its      *)
(* result is out, a concern about it was told, or overlooked, or waits.     *)
Told(c, call, out, wait, t, o) ==
  /\ call.at \in {"idle", "ask", "vote", "check"} => call.env.validation = "none"
  /\ call.at \in {"idle", "ask", "vote"} => call.env = NoEnvelope
  /\ <<"sql", c>> \in out \cup wait => call.at \in {"check", "validated", "over"}
  /\ <<"val", c>> \in out \cup wait =>
       call.at \in {"validated", "over"} /\ call.env.validation # "none"
  /\ call.at = "validated" /\ call.env.validation = "PASS" => <<"val", c>> \in out \cup wait
  /\ Concern(call.env) /\ <<"sql", c>> \in out =>
       c \in t \cup o \/ (<<"val", c>> \in wait /\ call.env.validation \in Concerns)

Closed ==
  /\ answering \in {"sent", "done"} => AllOver /\ shipped = Len(bucket)
  /\ answering = "done" => gated = Gate

AnswerInv ==
  /\ AnswerShape /\ Closed
  /\ \A c \in SqlCalls : Elected(c, sql[c]) /\ Told(c, sql[c], Out, Waiting, seen, overlooked)

\* An entry joins those that wait, and changes nothing of those that are out.
LEMMA OneEntry ==
  ASSUME NEW b \in Seq(Entries), NEW e \in Entries, NEW n \in 0..Len(b)
  PROVE  /\ Append(b, e) \in Seq(Entries) /\ n \in 0..Len(Append(b, e))
         /\ Upto(Append(b, e), n) = Upto(b, n)
         /\ Beyond(Append(b, e), n) = Beyond(b, n) \cup {e}
<1> DEFINE t == Append(b, e)
<1>1. /\ t \in Seq(Entries) /\ Len(t) = Len(b) + 1 /\ Len(b) \in Nat
      /\ \A i \in 1..Len(b) : t[i] = b[i]
      /\ t[Len(b) + 1] = e
  OBVIOUS
<1> HIDE DEF t
<1>2. Upto(t, n) = Upto(b, n)
  BY <1>1 DEF Upto
<1>3. (n + 1)..Len(t) = ((n + 1)..Len(b)) \cup {Len(b) + 1}
  BY <1>1
<1>4. Beyond(t, n) = Beyond(b, n) \cup {e}
  BY <1>1, <1>3 DEF Beyond
<1>5. QED
  BY <1>1, <1>2, <1>4 DEF t

\* When everything is out nothing waits.
LEMMA AllOut ==
  ASSUME NEW b \in Seq(Entries), NEW n \in 0..Len(b)
  PROVE  /\ Upto(b, Len(b)) = Upto(b, n) \cup Beyond(b, n)
         /\ Beyond(b, Len(b)) = {}
<1>1. Len(b) \in Nat /\ 1..Len(b) = 1..n \cup (n + 1)..Len(b) /\ (Len(b) + 1)..Len(b) = {}
  OBVIOUS
<1>2. QED
  BY <1>1 DEF Upto, Beyond

\* The entries of a call, and the model's own.
LEMMA Entry ==
  ASSUME NEW c \in SqlCalls
  PROVE  <<"sql", c>> \in Entries /\ <<"val", c>> \in Entries /\ <<"val", "model">> \in Entries
BY DEF Entries

\* An entry of something else, and more that is told or overlooked, change
\* nothing for a call.
LEMMA OthersEntry ==
  ASSUME NEW c, NEW call, NEW out, NEW wait, NEW t, NEW o, NEW w, NEW t2, NEW o2,
         Told(c, call, out, wait, t, o), t \subseteq t2, o \subseteq o2,
         \/ w = wait \/ \E e : w = wait \cup {e} /\ e # <<"sql", c>> /\ e # <<"val", c>>
  PROVE  Told(c, call, out, w, t2, o2)
BY DEF Told

\* An action of one call keeps the invariant if it keeps it for that call.
LEMMA CallChanges ==
  ASSUME AnswerInv, NEW c \in SqlCalls, NEW call \in CallRecords,
         sql' = [sql EXCEPT ![c] = call],
         \/ bucket' = bucket
         \/ bucket' = Append(bucket, <<"sql", c>>)
         \/ bucket' = Append(bucket, <<"val", c>>),
         overlooked' = overlooked \/ overlooked' = overlooked \cup {c},
         shipped' = shipped, seen' = seen, answering' = answering, gated' = gated,
         answering = "open" \/ sql[c].at \notin {"idle", "over"},
         Elected(c, call)', Told(c, call, Out', Waiting', seen', overlooked')
  PROVE  AnswerInv'
<1>1. AnswerShape'
  <2>1. sql' \in [SqlCalls -> CallRecords]
    BY DEF AnswerInv, AnswerShape
  <2>2. bucket' \in Seq(Entries) /\ shipped' \in 0..Len(bucket')
    BY OneEntry, Entry DEF AnswerInv, AnswerShape
  <2>3. QED
    BY <2>1, <2>2 DEF AnswerInv, AnswerShape
<1>2. answering \notin {"sent", "done"}
  BY DEF AnswerInv, Closed, AllOver
<1>3. Closed'
  BY <1>2 DEF Closed
<1>4. ASSUME NEW d \in SqlCalls, d # c
      PROVE  Elected(d, sql[d])' /\ Told(d, sql[d], Out, Waiting, seen, overlooked)'
  <2>1. sql'[d] = sql[d]
    BY <1>4 DEF AnswerInv, AnswerShape
  <2>2. /\ Out' = Out
        /\ \/ Waiting' = Waiting
           \/ \E e : Waiting' = Waiting \cup {e} /\ e # <<"sql", d>> /\ e # <<"val", d>>
    <3>1. /\ bucket \in Seq(Entries) /\ shipped \in 0..Len(bucket)
          /\ <<"sql", c>> \in Entries /\ <<"val", c>> \in Entries
      BY Entry DEF AnswerInv, AnswerShape
    <3>2. CASE bucket' = bucket
      BY <3>2 DEF Out, Waiting
    <3>3. ASSUME NEW e \in Entries, bucket' = Append(bucket, e)
          PROVE  Out' = Out /\ Waiting' = Waiting \cup {e}
      BY <3>1, <3>3, OneEntry DEF Out, Waiting
    <3>4. QED
      BY <1>4, <3>1, <3>2, <3>3
  <2>3. /\ Elected(d, sql[d])
        /\ Told(d, sql[d], Out, Waiting, seen, overlooked)
    BY DEF AnswerInv
  <2>4. Told(d, sql[d], Out', Waiting', seen', overlooked')
    BY <2>2, <2>3, OthersEntry
  <2>5. QED
    BY <2>1, <2>3, <2>4
<1>5. sql'[c] = call
  BY DEF AnswerInv, AnswerShape
<1>6. \A d \in SqlCalls : (Elected(d, sql[d]) /\ Told(d, sql[d], Out, Waiting, seen, overlooked))'
  BY <1>4, <1>5
<1>7. QED
  BY <1>1, <1>3, <1>6 DEF AnswerInv
---------------------------------------------------------------------------
\* A result is stashed: its entry waits.
LEMMA ResultStashed ==
  ASSUME AnswerInv, NEW c \in SqlCalls, NEW env \in EnvelopeRecords, env.validation = "none",
         sql[c].at \in {"ask", "vote"}, Stashed(c, env, <<"sql", c>>),
         Elected(c, [sql[c] EXCEPT !.at = "check", !.env = env]),
         UNCHANGED <<deep, extras, answering, shipped, seen, gated, overlooked>>
  PROVE  AnswerInv'
<1> DEFINE call == [sql[c] EXCEPT !.at = "check", !.env = env]
           e == <<"sql", c>>
<1>1. /\ sql' = [sql EXCEPT ![c] = call] /\ bucket' = Append(bucket, e)
      /\ call \in CallRecords /\ call.at = "check" /\ call.env = env
  BY DEF Stashed, Becomes, AnswerInv, AnswerShape, CallRecords
<1>2. /\ bucket \in Seq(Entries) /\ shipped \in 0..Len(bucket) /\ e \in Entries
  BY Entry DEF AnswerInv, AnswerShape
<1>3. Out' = Out /\ Waiting' = Waiting \cup {e}
  BY <1>1, <1>2, OneEntry DEF Out, Waiting
<1>4. /\ <<"sql", c>> \notin Out \cup Waiting /\ <<"val", c>> \notin Out \cup Waiting
  BY DEF AnswerInv, Told
<1>5. <<"val", c>> # e
  OBVIOUS
<1>6. Elected(c, call)
  OBVIOUS
<1> HIDE DEF call
<1>7. Told(c, call, Out', Waiting', seen', overlooked')
  BY <1>1, <1>3, <1>4, <1>5 DEF Told
<1>8. QED
  BY <1>1, <1>6, <1>7, CallChanges

\* Every action of a call.
LEMMA CallStep ==
  ASSUME AnswerInv, NEW c \in SqlCalls,
         \/ AskSql(c) \/ SpecialistAnswers(c) \/ SpecialistRaises(c)
         \/ Candidate(c) \/ Elect(c)
         \/ AutoValidate(c) \/ NothingToValidate(c) \/ CrossFamilyCheck(c)
  PROVE  AnswerInv'
<1>1. /\ sql[c] \in CallRecords /\ Elected(c, sql[c])
      /\ Told(c, sql[c], Out, Waiting, seen, overlooked)
      /\ bucket \in Seq(Entries) /\ shipped \in 0..Len(bucket)
  BY DEF AnswerInv, AnswerShape
<1>2. CASE AskSql(c)
  <2> DEFINE call == [sql[c] EXCEPT !.at = IF c \in Voted THEN "vote" ELSE "ask"]
  <2>1. /\ sql[c].at = "idle" /\ answering = "open" /\ sql' = [sql EXCEPT ![c] = call]
        /\ UNCHANGED <<deep, extras, answering, bucket, shipped, seen, gated, overlooked>>
    BY <1>2 DEF AskSql, Becomes
  <2>2. /\ call \in CallRecords /\ call.env = sql[c].env /\ call.at \in {"ask", "vote"}
        /\ call.at = "ask" => c \notin Voted
    BY <1>1 DEF CallRecords
  <2> HIDE DEF call
  <2>3. Elected(c, call) /\ Told(c, call, Out, Waiting, seen, overlooked)
    BY <1>1, <2>1, <2>2 DEF Elected, Told
  <2>4. Out' = Out /\ Waiting' = Waiting
    BY <2>1 DEF Out, Waiting
  <2>5. QED
    BY <2>1, <2>2, <2>3, <2>4, CallChanges
<1>3. CASE SpecialistAnswers(c)
  <2>1. PICK env \in Envelopes(1) : Stashed(c, env, <<"sql", c>>)
    BY <1>3 DEF SpecialistAnswers
  <2>2. env \in EnvelopeRecords /\ env.validation = "none"
    BY EnvelopesAre
  <2>3. Elected(c, [sql[c] EXCEPT !.at = "check", !.env = env])
    BY <1>1, <1>3 DEF SpecialistAnswers, Elected, CallRecords
  <2>4. QED
    BY <1>3, <2>1, <2>2, <2>3, ResultStashed DEF SpecialistAnswers
<1>4. CASE SpecialistRaises(c)
  <2> DEFINE call == [sql[c] EXCEPT !.at = "over", !.ballot = NoBallot]
  <2>1. /\ sql[c].at \in {"ask", "vote"} /\ sql' = [sql EXCEPT ![c] = call]
        /\ UNCHANGED <<deep, extras, answering, bucket, shipped, seen, gated, overlooked>>
    BY <1>4 DEF SpecialistRaises, Becomes
  <2>2. call \in CallRecords /\ call.env = sql[c].env /\ call.at = "over"
    BY <1>1, NothingYet DEF CallRecords
  <2> HIDE DEF call
  <2>3. Elected(c, call) /\ Told(c, call, Out, Waiting, seen, overlooked)
    BY <1>1, <2>1, <2>2 DEF Elected, Told
  <2>4. Out' = Out /\ Waiting' = Waiting
    BY <2>1 DEF Out, Waiting
  <2>5. QED
    BY <2>1, <2>2, <2>3, <2>4, CallChanges
<1>5. CASE Candidate(c)
  <2>1. /\ sql[c].at = "vote" /\ sql[c].ballot \in Ballots
        /\ UNCHANGED <<deep, extras, answering, bucket, shipped, seen, gated, overlooked>>
    BY <1>1, <1>5 DEF Candidate, CallRecords
  <2>2. PICK env \in Envelopes(Min({MaxResults, Cardinality(Results(sql[c].ballot)) + 1})) :
          Becomes(c, [sql[c] EXCEPT !.ballot =
            IF env.form = "failed" THEN [sql[c].ballot EXCEPT !.cast = sql[c].ballot.cast + 1]
            ELSE [cast   |-> sql[c].ballot.cast + 1,
                  votes  |-> [x \in Results(sql[c].ballot) \cup {env.result} |->
                                (IF x \in Results(sql[c].ballot) THEN sql[c].ballot.votes[x] ELSE 0)
                                  + (IF x = env.result THEN 1 ELSE 0)],
                  warned |-> IF env.warned THEN sql[c].ballot.warned \cup {env.result}
                             ELSE sql[c].ballot.warned]])
    BY <1>5 DEF Candidate
  <2> DEFINE ballot == IF env.form = "failed" THEN [sql[c].ballot EXCEPT !.cast = sql[c].ballot.cast + 1]
            ELSE [cast   |-> sql[c].ballot.cast + 1,
                  votes  |-> [x \in Results(sql[c].ballot) \cup {env.result} |->
                                (IF x \in Results(sql[c].ballot) THEN sql[c].ballot.votes[x] ELSE 0)
                                  + (IF x = env.result THEN 1 ELSE 0)],
                  warned |-> IF env.warned THEN sql[c].ballot.warned \cup {env.result}
                             ELSE sql[c].ballot.warned]
             call == [sql[c] EXCEPT !.ballot = ballot]
  <2>3. ballot \in Ballots
    <3>1. env \in EnvelopeRecords
      <4>1. IsFiniteSet(Results(sql[c].ballot))
        BY <2>1 DEF Ballots, Tallies, Results
      <4>2. Min({MaxResults, Cardinality(Results(sql[c].ballot)) + 1}) \in Nat
        BY <4>1, FS_CardinalityType, SmallerIsOne, AnswerAssumption
      <4>3. QED
        BY <4>2, EnvelopesAre
    <3>2. CASE env.form = "failed"
      BY <2>1, <3>2 DEF Ballots
    <3>3. CASE env.form # "failed"
      BY <2>1, <3>1, <3>3, OneVoteMore
    <3>4. QED
      BY <3>2, <3>3
  <2>4. sql' = [sql EXCEPT ![c] = call]
    BY <2>2 DEF Becomes
  <2> HIDE DEF ballot
  <2>5. call \in CallRecords /\ call.env = sql[c].env /\ call.at = "vote"
    BY <1>1, <2>1, <2>3 DEF CallRecords
  <2> HIDE DEF call
  <2>6. Elected(c, call) /\ Told(c, call, Out, Waiting, seen, overlooked)
    BY <1>1, <2>1, <2>5 DEF Elected, Told
  <2>7. Out' = Out /\ Waiting' = Waiting
    BY <2>1 DEF Out, Waiting
  <2>8. QED
    BY <2>1, <2>4, <2>5, <2>6, <2>7, CallChanges
<1>6. CASE Elect(c)
  <2>1. /\ sql[c].at = "vote" /\ sql[c].ballot \in Ballots
        /\ UNCHANGED <<deep, extras, answering, shipped, seen, gated, overlooked>>
    BY <1>1, <1>6 DEF Elect, CallRecords
  <2>2. CASE /\ Results(sql[c].ballot) = {}
             /\ Stashed(c, [Failure EXCEPT !.vote = "FAIL"], <<"sql", c>>)
    <3> DEFINE env == [Failure EXCEPT !.vote = "FAIL"]
    <3>1. env \in EnvelopeRecords /\ env.validation = "none" /\ env.vote = "FAIL"
      BY DEF Failure, NoEnvelope, EnvelopeRecords
    <3>2. Stashed(c, env, <<"sql", c>>)
      BY <2>2
    <3> HIDE DEF env
    <3>3. Elected(c, [sql[c] EXCEPT !.at = "check", !.env = env])
      BY <1>1, <2>1, <2>2, <3>1 DEF Elected, CallRecords
    <3>4. QED
      BY <2>1, <3>1, <3>2, <3>3, ResultStashed
  <2>3. ASSUME NEW x \in Leaders(sql[c].ballot), NEW w \in BOOLEAN,
               Stashed(c, [form |-> "sql", result |-> x, warned |-> w,
                           vote |-> Verdict(sql[c].ballot, x), validation |-> "none"], <<"sql", c>>)
        PROVE  AnswerInv'
    <3> DEFINE env == [form |-> "sql", result |-> x, warned |-> w,
                       vote |-> Verdict(sql[c].ballot, x), validation |-> "none"]
    <3>1. /\ env \in EnvelopeRecords /\ env.validation = "none"
          /\ env.vote = Verdict(sql[c].ballot, x) /\ env.result = x
      BY <2>1, Leading DEF EnvelopeRecords, Verdict
    <3>2. Stashed(c, env, <<"sql", c>>)
      BY <2>3
    <3> HIDE DEF env
    <3>3. Elected(c, [sql[c] EXCEPT !.at = "check", !.env = env])
      BY <1>1, <2>1, <2>3, <3>1 DEF Elected, CallRecords
    <3>4. QED
      BY <2>1, <3>1, <3>2, <3>3, ResultStashed
  <2>4. QED
    BY <1>6, <2>2, <2>3 DEF Elect
<1>7. CASE AutoValidate(c)
  <2>1. /\ sql[c].at = "check" /\ sql[c].env.validation = "none" /\ sql[c].env \in EnvelopeRecords
        /\ UNCHANGED <<deep, extras, answering, shipped, seen, gated>>
    BY <1>1, <1>7 DEF AutoValidate, Told, CallRecords
  <2>2. ASSUME NEW v \in {"PASS", "WARN", "FAIL", "unparsed"}
        PROVE  LET call == [sql[c] EXCEPT !.at = "validated", !.ballot = NoBallot, !.env.validation = v]
               IN /\ call \in CallRecords /\ call.at = "validated" /\ call.env.validation = v
                  /\ call.env.vote = sql[c].env.vote
    BY <1>1, <2>1, NothingYet DEF CallRecords, EnvelopeRecords
  <2>3. ASSUME NEW v \in {"PASS", "WARN", "FAIL", "unparsed"},
               Becomes(c, [sql[c] EXCEPT !.at = "validated", !.ballot = NoBallot, !.env.validation = v]),
               bucket' = Append(bucket, <<"val", c>>), UNCHANGED overlooked
        PROVE  AnswerInv'
    <3> DEFINE call == [sql[c] EXCEPT !.at = "validated", !.ballot = NoBallot, !.env.validation = v]
               e == <<"val", c>>
    <3>1. /\ sql' = [sql EXCEPT ![c] = call] /\ bucket' = Append(bucket, e)
          /\ e \in Entries /\ e # <<"sql", c>>
      BY <2>3, Entry DEF Becomes
    <3>2. /\ call \in CallRecords /\ call.at = "validated" /\ call.env.validation = v
          /\ call.env.vote = sql[c].env.vote
      BY <2>2
    <3> HIDE DEF call
    <3>3. Out' = Out /\ Waiting' = Waiting \cup {e}
      BY <1>1, <2>1, <3>1, OneEntry DEF Out, Waiting
    <3>4. Elected(c, call)
      BY <3>2 DEF Elected
    <3>5. Told(c, call, Out', Waiting', seen', overlooked')
      BY <1>1, <2>1, <2>3, <3>1, <3>2, <3>3 DEF Told, Concern, Concerns
    <3>6. QED
      BY <2>1, <2>3, <3>1, <3>2, <3>4, <3>5, CallChanges
  <2>4. ASSUME Becomes(c, [sql[c] EXCEPT !.at = "validated", !.ballot = NoBallot,
                                         !.env.validation = "WARN"]),
               Note(c, IsOut(<<"sql", c>>)), UNCHANGED bucket
        PROVE  AnswerInv'
    <3> DEFINE call == [sql[c] EXCEPT !.at = "validated", !.ballot = NoBallot,
                                      !.env.validation = "WARN"]
    <3>1. sql' = [sql EXCEPT ![c] = call]
      BY <2>4 DEF Becomes
    <3>2. /\ call \in CallRecords /\ call.at = "validated" /\ call.env.validation = "WARN"
          /\ call.env.vote = sql[c].env.vote
      BY <2>2
    <3> HIDE DEF call
    <3>3. Out' = Out /\ Waiting' = Waiting
      BY <2>1, <2>4 DEF Out, Waiting
    <3>4. Elected(c, call)
      BY <3>2 DEF Elected
    <3>5. /\ <<"sql", c>> \in Out => c \in overlooked'
          /\ overlooked' = overlooked \/ overlooked' = overlooked \cup {c}
      BY <2>4 DEF Note, IsOut, Out, Upto
    <3>6. Told(c, call, Out', Waiting', seen', overlooked')
      BY <1>1, <2>1, <3>2, <3>3, <3>5 DEF Told
    <3>7. QED
      BY <2>1, <2>4, <3>1, <3>2, <3>4, <3>5, <3>6, CallChanges
  <2>5. QED
    BY <1>7, <2>3, <2>4 DEF AutoValidate
<1>8. CASE NothingToValidate(c)
  <2> DEFINE call == [sql[c] EXCEPT !.at = "over", !.ballot = NoBallot]
  <2>1. /\ sql[c].at = "check" /\ sql' = [sql EXCEPT ![c] = call]
        /\ UNCHANGED <<deep, extras, answering, bucket, shipped, seen, gated, overlooked>>
    BY <1>8 DEF NothingToValidate, Becomes
  <2>2. call \in CallRecords /\ call.env = sql[c].env /\ call.at = "over"
    BY <1>1, NothingYet DEF CallRecords
  <2> HIDE DEF call
  <2>3. Elected(c, call) /\ Told(c, call, Out, Waiting, seen, overlooked)
    BY <1>1, <2>1, <2>2 DEF Elected, Told
  <2>4. Out' = Out /\ Waiting' = Waiting
    BY <2>1 DEF Out, Waiting
  <2>5. QED
    BY <2>1, <2>2, <2>3, <2>4, CallChanges
<1>9. CASE CrossFamilyCheck(c)
  <2>1. /\ sql[c].at = "validated" /\ sql[c].env \in EnvelopeRecords
        /\ UNCHANGED <<deep, extras, answering, bucket, shipped, seen, gated>>
    BY <1>1, <1>9 DEF CrossFamilyCheck, CallRecords
  <2>2. Out' = Out /\ Waiting' = Waiting
    BY <2>1 DEF Out, Waiting
  <2>3. ASSUME Becomes(c, [sql[c] EXCEPT !.at = "over"]), UNCHANGED overlooked
        PROVE  AnswerInv'
    <3> DEFINE call == [sql[c] EXCEPT !.at = "over"]
    <3>1. sql' = [sql EXCEPT ![c] = call]
      BY <2>3 DEF Becomes
    <3>2. call \in CallRecords /\ call.env = sql[c].env /\ call.at = "over"
      BY <1>1 DEF CallRecords
    <3> HIDE DEF call
    <3>3. Elected(c, call) /\ Told(c, call, Out, Waiting, seen, overlooked)
      BY <1>1, <2>1, <3>2 DEF Elected, Told
    <3>4. QED
      BY <2>1, <2>2, <2>3, <3>1, <3>2, <3>3, CallChanges
  <2>4. ASSUME sql[c].env.validation = "PASS",
               Becomes(c, [sql[c] EXCEPT !.at = "over", !.env.validation = "WARN"]),
               Note(c, IsOut(<<"sql", c>>) /\ IsOut(<<"val", c>>))
        PROVE  AnswerInv'
    <3> DEFINE call == [sql[c] EXCEPT !.at = "over", !.env.validation = "WARN"]
    <3>1. sql' = [sql EXCEPT ![c] = call]
      BY <2>4 DEF Becomes
    <3>2. call \in CallRecords /\ call.env.validation = "WARN" /\ call.at = "over"
      BY <1>1 DEF CallRecords, EnvelopeRecords
    <3> HIDE DEF call
    <3>3. /\ <<"sql", c>> \in Out /\ <<"val", c>> \in Out => c \in overlooked'
          /\ overlooked' = overlooked \/ overlooked' = overlooked \cup {c}
      BY <2>4 DEF Note, IsOut, Out, Upto
    <3>4. <<"val", c>> \in Out \cup Waiting
      BY <1>1, <2>1, <2>4 DEF Told
    <3>5. Told(c, call, Out, Waiting, seen, overlooked')
      BY <1>1, <2>1, <3>2, <3>3, <3>4 DEF Told, Concerns
    <3>6. Elected(c, call)
      BY <3>2 DEF Elected
    <3>7. QED
      BY <2>1, <2>2, <3>1, <3>2, <3>3, <3>5, <3>6, CallChanges
  <2>5. QED
    BY <1>9, <2>3, <2>4 DEF CrossFamilyCheck
<1>10. QED
  BY <1>2, <1>3, <1>4, <1>5, <1>6, <1>7, <1>8, <1>9
---------------------------------------------------------------------------
\* What the turn sends is out, and what it shows of it is told.
LEMMA Flushed ==
  ASSUME AnswerShape, \A c \in SqlCalls : Told(c, sql[c], Out, Waiting, seen, overlooked),
         Flush, UNCHANGED <<sql, bucket, overlooked>>
  PROVE  /\ shipped' = Len(bucket) /\ seen' \subseteq SqlCalls
         /\ \A c \in SqlCalls : Told(c, sql[c], Out', Waiting', seen', overlooked')
<1>1. bucket \in Seq(Entries) /\ shipped \in 0..Len(bucket) /\ seen \subseteq SqlCalls
  BY DEF AnswerShape
<1>2. Out' = Out \cup Waiting /\ Waiting' = {}
  BY <1>1, AllOut DEF Flush, Out, Waiting
<1>3. seen' \subseteq SqlCalls
  <2>1. \A i \in (shipped + 1)..Len(bucket) : Shows(bucket[i]) => bucket[i][2] \in SqlCalls
    BY DEF Shows
  <2>2. QED
    BY <1>1, <2>1 DEF Flush
<1>4. \A e \in Waiting : Shows(e) => e[2] \in seen'
  BY DEF Flush, Waiting, Beyond
<1>5. seen \subseteq seen'
  BY DEF Flush
<1>6. ASSUME NEW c \in SqlCalls
      PROVE  Told(c, sql[c], Out', Waiting', seen', overlooked')
  <2>1. <<"sql", c>> \in Waiting /\ Concern(sql[c].env) => c \in seen'
    <3>1. ASSUME <<"sql", c>> \in Waiting, Concern(sql[c].env) PROVE Shows(<<"sql", c>>)
      BY <3>1 DEF Shows
    <3>2. QED
      BY <1>4, <3>1
  <2>2. <<"val", c>> \in Waiting /\ sql[c].env.validation \in Concerns => c \in seen'
    <3>1. ASSUME <<"val", c>> \in Waiting, sql[c].env.validation \in Concerns
          PROVE  Shows(<<"val", c>>)
      BY <3>1 DEF Shows
    <3>2. QED
      BY <1>4, <3>1
  <2>3. Told(c, sql[c], Out, Waiting, seen, overlooked) /\ overlooked' = overlooked
    OBVIOUS
  <2>4. QED
    BY <1>2, <1>5, <2>1, <2>2, <2>3 DEF Told
<1>7. QED
  BY <1>3, <1>6 DEF Flush

\* Every action of the turn itself.
LEMMA TurnStep ==
  ASSUME AnswerInv, AskValidator \/ StreamYields \/ StreamFinishes \/ StreamRaises \/ CloseTurn
  PROVE  AnswerInv'
<1>1. /\ AnswerShape /\ Closed /\ sql' = sql /\ overlooked' = overlooked
      /\ \A c \in SqlCalls : Elected(c, sql[c]) /\ Told(c, sql[c], Out, Waiting, seen, overlooked)
  BY DEF AnswerInv, AskValidator, StreamYields, StreamFinishes, StreamRaises, CloseTurn
<1>2. CASE AskValidator
  <2> DEFINE e == <<"val", "model">>
  <2>1. /\ answering = "open" /\ bucket' = Append(bucket, e)
        /\ UNCHANGED <<answering, shipped, seen, gated>>
    BY <1>2 DEF AskValidator
  <2>2. \A c \in SqlCalls : e # <<"sql", c>> /\ e # <<"val", c>>
    BY AnswerAssumption
  <2>3. e \in Entries
    BY DEF Entries
  <2>4. bucket \in Seq(Entries) /\ shipped \in 0..Len(bucket)
    BY <1>1 DEF AnswerShape
  <2> HIDE DEF e
  <2>5. /\ bucket' \in Seq(Entries) /\ shipped' \in 0..Len(bucket')
        /\ Out' = Out /\ Waiting' = Waiting \cup {e}
    BY <2>1, <2>3, <2>4, OneEntry DEF Out, Waiting
  <2>6. \A c \in SqlCalls : Told(c, sql[c], Out', Waiting', seen', overlooked')
    BY <1>1, <2>1, <2>2, <2>5, OthersEntry
  <2>7. AnswerShape'
    BY <1>1, <2>1, <2>5 DEF AnswerShape
  <2>8. Closed'
    BY <2>1 DEF Closed
  <2>9. QED
    BY <1>1, <2>6, <2>7, <2>8 DEF AnswerInv
<1>3. CASE StreamYields
  <2>1. /\ answering = "open" /\ Flush /\ UNCHANGED <<answering, bucket, gated>>
    BY <1>3 DEF StreamYields
  <2>2. /\ shipped' = Len(bucket) /\ seen' \subseteq SqlCalls
        /\ \A c \in SqlCalls : Told(c, sql[c], Out', Waiting', seen', overlooked')
    BY <1>1, <2>1, Flushed
  <2>3. AnswerShape'
    BY <1>1, <2>1, <2>2 DEF AnswerShape
  <2>4. Closed'
    BY <2>1 DEF Closed
  <2>5. QED
    BY <1>1, <2>2, <2>3, <2>4 DEF AnswerInv
<1>4. CASE StreamFinishes
  <2>1. /\ answering' = "sent" /\ AllOver /\ Flush /\ UNCHANGED <<bucket, gated>>
    BY <1>4 DEF StreamFinishes
  <2>2. /\ shipped' = Len(bucket) /\ seen' \subseteq SqlCalls
        /\ \A c \in SqlCalls : Told(c, sql[c], Out', Waiting', seen', overlooked')
    BY <1>1, <2>1, Flushed
  <2>3. AnswerShape'
    BY <1>1, <2>1, <2>2 DEF AnswerShape
  <2>4. Closed'
    BY <1>1, <2>1, <2>2 DEF Closed, AllOver
  <2>5. QED
    BY <1>1, <2>2, <2>3, <2>4 DEF AnswerInv
<1>5. CASE StreamRaises
  <2>1. answering' = "broken" /\ UNCHANGED <<bucket, shipped, seen, gated>>
    BY <1>5 DEF StreamRaises
  <2>2. AnswerShape' /\ Closed'
    BY <1>1, <2>1 DEF AnswerShape, Closed
  <2>3. QED
    BY <1>1, <2>1, <2>2 DEF AnswerInv, Out, Waiting
<1>6. CASE CloseTurn
  <2>1. /\ answering = "sent" /\ answering' = "done" /\ gated' = Gate
        /\ UNCHANGED <<bucket, shipped, seen>>
    BY <1>6 DEF CloseTurn
  <2>2. AnswerShape'
    BY <1>1, <2>1 DEF AnswerShape
  <2>3. Closed'
    BY <1>1, <2>1 DEF Closed, AllOver, Gate
  <2>4. QED
    BY <1>1, <2>1, <2>2, <2>3 DEF AnswerInv, Out, Waiting
<1>7. QED
  BY <1>2, <1>3, <1>4, <1>5, <1>6

\* The strengthened invariant of the checks in a turn.
LEMMA AnswerInvHolds ==
  AnswerSpec => []AnswerInv
<1>1. AnswerInit => AnswerInv
  <2> SUFFICES ASSUME AnswerInit PROVE AnswerInv
    OBVIOUS
  <2> DEFINE call == [at |-> "idle", ballot |-> NoBallot, env |-> NoEnvelope]
  <2>1. call \in CallRecords /\ call.at = "idle" /\ call.env = NoEnvelope
    BY NothingYet DEF CallRecords
  <2>2. sql = [c \in SqlCalls |-> call] /\ bucket = << >> /\ shipped = 0 /\ answering = "open"
    BY DEF AnswerInit
  <2> HIDE DEF call
  <2>3. Len(bucket) = 0 /\ bucket \in Seq(Entries)
    BY <2>2
  <2>4. Out = {} /\ Waiting = {}
    BY <2>2, <2>3 DEF Out, Waiting, Upto, Beyond
  <2>5. NoEnvelope.validation = "none" /\ ~Concern(NoEnvelope)
    BY DEF NoEnvelope, Concern, Concerns
  <2>6. \A c \in SqlCalls : Elected(c, sql[c]) /\ Told(c, sql[c], Out, Waiting, seen, overlooked)
    BY <2>1, <2>2, <2>4, <2>5 DEF Elected, Told
  <2>7. AnswerShape /\ Closed
    BY <2>1, <2>2, <2>3 DEF AnswerInit, AnswerShape, Closed
  <2>8. QED
    BY <2>6, <2>7 DEF AnswerInv
<1>2. AnswerInv /\ [AnswerNext]_answerVars => AnswerInv'
  <2>1. ASSUME AnswerInv, UNCHANGED answerVars PROVE AnswerInv'
    BY <2>1 DEF answerVars, AnswerInv, AnswerShape, Closed, AllOver, Gate, Out, Waiting
  <2>2. QED
    BY <2>1, CallStep, TurnStep DEF AnswerNext
<1>3. QED
  BY <1>1, <1>2, PTL DEF AnswerSpec

\* What a vote elects, no other result had more candidates for, and a PASS
\* hides no tie (ask_sql_verified), for any number of candidates and results.
THEOREM VoteIsFair ==
  AnswerSpec => []VoteIsSound
<1>1. ASSUME AnswerInv PROVE VoteIsSound
  <2>1. ASSUME NEW c \in Voted, sql[c].at = "check"
        PROVE  LET ballot == sql[c].ballot
                   env == sql[c].env
                   others == Results(ballot) \ {env.result}
               IN \/ Results(ballot) = {} /\ env.vote = "FAIL"
                  \/ /\ \A x \in others : ballot.votes[x] <= ballot.votes[env.result]
                     /\ env.vote = "PASS" =>
                          \A x \in others : \/ ballot.votes[x] < ballot.votes[env.result]
                                            \/ x \in ballot.warned /\ env.result \notin ballot.warned
    <3>1. c \in SqlCalls
      BY AnswerAssumption
    <3>2. Elected(c, sql[c]) /\ sql[c].ballot \in Ballots
      BY <1>1, <3>1 DEF AnswerInv, AnswerShape, CallRecords
    <3>3. \/ Results(sql[c].ballot) = {} /\ sql[c].env.vote = "FAIL"
          \/ /\ sql[c].env.result \in Leaders(sql[c].ballot)
             /\ sql[c].env.vote = Verdict(sql[c].ballot, sql[c].env.result)
      BY <2>1, <3>2 DEF Elected
    <3>4. QED
      BY <3>2, <3>3, ElectedIsSound
  <2>2. QED
    BY <2>1 DEF VoteIsSound
<1>2. QED
  BY <1>1, AnswerInvHolds, PTL

\* A turn that ends without a word about a result that was not confirmed has
\* one of the known causes (the bucket, the frames sent from it, the gate).
THEOREM SilenceHasCause ==
  AnswerSpec => []QuietAnswerHasCause
<1>1. ASSUME AnswerInv PROVE QuietAnswerHasCause
  <2>1. SUFFICES ASSUME answering = "done", NEW c \in SqlCalls, <<"sql", c>> \in ToSet(bucket),
                        Concern(sql[c].env) \/ sql[c].env.validation # "PASS",
                        ~gated, sql[c].env.validation # "unparsed",
                        \A i \in DOMAIN bucket : bucket[i][1] = "val" => bucket[i][2] = c
                 PROVE  c \in seen \/ c \in overlooked
    BY DEF QuietAnswerHasCause
  <2>2. /\ bucket \in Seq(Entries) /\ DOMAIN bucket = 1..Len(bucket) /\ Len(bucket) \in Nat
        /\ shipped = Len(bucket) /\ ~Gate /\ sql[c].env \in EnvelopeRecords
        /\ Told(c, sql[c], Out, Waiting, seen, overlooked)
    BY <1>1, <2>1 DEF AnswerInv, AnswerShape, Closed, CallRecords
  <2>3. Waiting = {} /\ Out = {bucket[i] : i \in DOMAIN bucket}
    BY <2>2 DEF Out, Waiting, Upto, Beyond
  <2>4. PICK i \in DOMAIN bucket : bucket[i] = <<"sql", c>>
    BY <2>1 DEF ToSet
  <2>5. <<"sql", c>> \in Out
    BY <2>3, <2>4
  <2>6. PICK j \in DOMAIN bucket : bucket[j][1] = "val"
    BY <2>2, <2>4 DEF Gate
  <2>7. bucket[j] = <<"val", c>>
    <3>1. bucket[j] \in Entries /\ bucket[j][2] = c
      BY <2>1, <2>2, <2>6
    <3>2. QED
      BY <2>6, <3>1 DEF Entries
  <2>8. sql[c].env.validation # "none"
    BY <2>2, <2>3, <2>6, <2>7 DEF Told
  <2>9. Concern(sql[c].env)
    BY <2>1, <2>2, <2>8 DEF Concern, Concerns, EnvelopeRecords
  <2>10. QED
    BY <2>2, <2>3, <2>5, <2>9 DEF Told
<1>2. QED
  BY <1>1, AnswerInvHolds, PTL

----------------------------------------------------------------------------
(* The chat session.  Its types; then what adding results does to cards.      *)

Stages == {"none", "posting", "reading", "saving", "closing", "over", "crashed"}
Said == {"question", "answer"} \X Questions
Happenings == ({"event", "end", "error"} \X {0}) \cup ({"use"} \X Calls)
Answers == Tools \X Calls
Shown == {"event", "error", "done"}
Analyses ==
  [at : Stages, model : {"talking", "acting", "ended"}, queue : Seq(Happenings),
   stash : Seq(Answers), emitted : Nat, cards : Seq(Cards), frames : Seq(Shown),
   blurred : SUBSET Tools, cut : BOOLEAN, displaced : BOOLEAN]
CallStages == {"unused", "asked", "running", "validating", "over"}
Pages ==
  [at : {"ready", "sending", "tailing", "away", "loaded"}, shows : Seq(Said),
   on : 0..MaxQuestions, read : Nat, running : SUBSET Questions, saved : SUBSET Questions,
   missed : SUBSET Questions, twice : SUBSET Questions, stopped : SUBSET Questions]

AnalysesTyped ==
  /\ analysis \in [Questions -> Analyses]
  /\ \A n \in Questions : analysis[n].emitted <= Len(analysis[n].stash)
CallsTyped ==
  /\ calls \in [Calls -> [of : 0..MaxQuestions, tool : Tools, at : CallStages]]
  /\ \A c \in Calls : calls[c].at # "unused" => calls[c].of \in Questions
PageTyped ==
  /\ history \in Seq(Said) /\ active \in 0..MaxQuestions /\ page \in Pages
  /\ page.at \in {"sending", "tailing"} => page.on \in Questions
ChatTyped == AnalysesTyped /\ CallsTyped /\ PageTyped /\ faults \in 0..MaxFaults

\* The card a result goes to is one of the open ones.
LEMMA OpenCardsAre ==
  ASSUME NEW cards \in Seq(Cards), NEW name, OpenCards(cards, name) # {}
  PROVE  Min(OpenCards(cards, name)) \in OpenCards(cards, name)
<1>1. OpenCards(cards, name) \in SUBSET (1..Len(cards)) /\ Len(cards) \in Nat
  BY DEF OpenCards
<1>2. QED
  BY <1>1, FirstPlace DEF Min

\* Cards stay cards when a result is added.
LEMMA AddResultType ==
  ASSUME ChatAssumption, NEW cards \in Seq(Cards), NEW r \in Answers
  PROVE  AddResult(cards, r) \in Seq(Cards)
<1>1. r[1] \in Tools /\ r[2] \in Calls /\ r[2] \in 0..MaxCalls /\ 0 \in 0..MaxCalls
  BY ChatAssumption DEF Answers, Calls, ChatAssumption
<1>2. CASE OpenCards(cards, r[1]) # {}
  <2> DEFINE i == Min(OpenCards(cards, r[1]))
  <2>1. i \in DOMAIN cards
    BY <1>2, OpenCardsAre DEF OpenCards
  <2>2. AddResult(cards, r) = [cards EXCEPT ![i].result = r[2]]
    BY <1>2 DEF AddResult
  <2> HIDE DEF i
  <2>3. cards[i] \in Cards
    BY <2>1
  <2>4. [cards[i] EXCEPT !.result = r[2]] \in Cards
    BY <1>1, <2>3 DEF Cards
  <2>5. QED
    BY <2>1, <2>2, <2>4
<1>3. CASE OpenCards(cards, r[1]) = {}
  <2>1. [tool |-> r[1], call |-> 0, result |-> r[2]] \in Cards
    BY <1>1 DEF Cards
  <2>2. AddResult(cards, r) = Append(cards, [tool |-> r[1], call |-> 0, result |-> r[2]])
    BY <1>3 DEF AddResult
  <2>3. QED
    BY <2>1, <2>2
<1>4. QED
  BY <1>2, <1>3

\* What the cards become with a sequence of results, one by one.
Stepwise(h, cards, seq) ==
  /\ h \in [0..Len(seq) -> Seq(Cards)] /\ h[0] = cards
  /\ \A k \in 1..Len(seq) : h[k] = AddResult(h[k - 1], seq[k])

CardFold(g, cards, seq) ==
  g = [s \in SUBSET (DOMAIN seq) |->
         IF s = {} THEN cards ELSE AddResult(g[s \ {Top(s)}], seq[Top(s)])]

\* The fold of YieldResults, by its definition.
LEMMA FoldOfCards ==
  ASSUME NEW cards, NEW seq
  PROVE  FoldLeft(AddResult, cards, seq) = (CHOOSE g : CardFold(g, cards, seq))[DOMAIN seq]
BY DEF FoldLeft, MapThenFoldSet, CardFold, Top, Max

\* The fold of YieldResults adds the results one by one.
LEMMA ResultsAdded ==
  ASSUME ChatAssumption, NEW cards \in Seq(Cards), NEW seq \in Seq(Answers)
  PROVE  \E h : Stepwise(h, cards, seq) /\ FoldLeft(AddResult, cards, seq) = h[Len(seq)]
<1> DEFINE n == Len(seq)
           V == Seq(Cards)
           step == [p \in V \X (1..n) |-> AddResult(p[1], seq[p[2]])]
<1>1. n \in Nat /\ DOMAIN seq = 1..n /\ \A k \in 1..n : seq[k] \in Answers
  OBVIOUS
<1>2. \A v \in V : \A k \in 1..n : step[<<v, k>>] = AddResult(v, seq[k]) /\ step[<<v, k>>] \in V
  <2> SUFFICES ASSUME NEW v \in V, NEW k \in 1..n
               PROVE  step[<<v, k>>] = AddResult(v, seq[k]) /\ step[<<v, k>>] \in V
    OBVIOUS
  <2>1. <<v, k>> \in V \X (1..n)
    OBVIOUS
  <2>2. step[<<v, k>>] = AddResult(v, seq[k])
    BY <2>1
  <2>3. AddResult(v, seq[k]) \in V
    BY <1>1, AddResultType
  <2>4. QED
    BY <2>2, <2>3
<1> HIDE DEF step, n, V
<1>3. PICK g \in [SUBSET (1..n) -> V] : Folds(g, cards, step, n)
  <2>1. cards \in V
    BY DEF V
  <2>2. QED
    BY <1>1, <1>2, <2>1, FoldExists
<1>4. CardFold(g, cards, seq)
  <2>1. ASSUME NEW s \in SUBSET (1..n)
        PROVE  g[s] = IF s = {} THEN cards ELSE AddResult(g[s \ {Top(s)}], seq[Top(s)])
    <3>1. CASE s = {}
      BY <1>3, <3>1 DEF Folds
    <3>2. CASE s # {}
      <4>1. Top(s) \in 1..n
        BY <1>1, <3>2, TopIsTop
      <4>2. g[s \ {Top(s)}] \in V
        BY <1>3
      <4>3. g[s] = step[<<g[s \ {Top(s)}], Top(s)>>]
        BY <1>3, <3>2 DEF Folds
      <4>4. QED
        BY <1>2, <3>2, <4>1, <4>2, <4>3
    <3>3. QED
      BY <3>1, <3>2
  <2>2. QED
    BY <1>1, <1>3, <2>1 DEF CardFold
<1> DEFINE f == CHOOSE x : CardFold(x, cards, seq)
           h == [k \in 0..n |-> f[1..k]]
<1>5. CardFold(f, cards, seq)
  BY <1>4
<1> HIDE DEF f
<1>6. f[1..0] = cards /\ \A k \in 1..n : f[1..k] = AddResult(f[1..(k - 1)], seq[k])
  <2>1. \A s \in SUBSET (1..n) :
           f[s] = IF s = {} THEN cards ELSE AddResult(f[s \ {Top(s)}], seq[Top(s)])
    BY <1>1, <1>5 DEF CardFold
  <2>2. 1..0 = {} /\ 1..0 \in SUBSET (1..n)
    OBVIOUS
  <2>3. ASSUME NEW k \in 1..n PROVE f[1..k] = AddResult(f[1..(k - 1)], seq[k])
    <3>1. /\ 1..k \in SUBSET (1..n) /\ 1..k # {}
          /\ Top(1..k) = k /\ (1..k) \ {k} = 1..(k - 1)
      BY <1>1, FirstPlaces
    <3>2. f[1..k] = AddResult(f[(1..k) \ {Top(1..k)}], seq[Top(1..k)])
      BY <2>1, <3>1
    <3>3. QED
      BY <3>1, <3>2
  <2>4. QED
    BY <2>1, <2>2, <2>3
<1>7. \A k \in 0..n : h[k] \in V
  <2> DEFINE Good == {k \in 0..n : h[k] \in V}
  <2>1. 0 \in Good
    BY <1>1, <1>6 DEF V
  <2>2. ASSUME NEW k \in 1..n, k - 1 \in Good PROVE k \in Good
    <3>1. h[k - 1] \in V /\ h[k - 1] = f[1..(k - 1)] /\ h[k] = f[1..k] /\ k \in 0..n
      BY <1>1, <2>2
    <3>2. AddResult(h[k - 1], seq[k]) \in V
      BY <1>1, <3>1, AddResultType DEF V
    <3>3. QED
      BY <1>6, <3>1, <3>2
  <2> HIDE DEF Good
  <2>3. \A k \in 0..n : k \in Good
    BY <1>1, <2>1, <2>2, PlaceInduction
  <2>4. QED
    BY <2>3 DEF Good
<1>8. h[0] = cards /\ \A k \in 1..n : h[k] = AddResult(h[k - 1], seq[k])
  <2>1. 0 \in 0..n /\ \A k \in 1..n : k \in 0..n /\ k - 1 \in 0..n
    BY <1>1
  <2>2. \A k \in 0..n : h[k] = f[1..k]
    OBVIOUS
  <2> HIDE DEF h
  <2>3. QED
    BY <1>6, <2>1, <2>2
<1>9. FoldLeft(AddResult, cards, seq) = h[n]
  <2>1. FoldLeft(AddResult, cards, seq) = f[1..n]
    BY <1>1, FoldOfCards DEF f
  <2>2. QED
    BY <1>1, <2>1
<1>10. h \in [0..n -> V]
  BY <1>7
<1>11. Stepwise(h, cards, seq)
  BY <1>8, <1>10 DEF Stepwise, n, V
<1>12. QED
  BY <1>9, <1>11 DEF n

\* A relay takes frames.
LEMMA PublishType ==
  ASSUME NEW frames \in Seq(Shown), NEW kind \in Shown
  PROVE  Publish(frames, kind) \in Seq(Shown)
BY DEF Publish

\* A question not asked.
LEMMA EmptyIsTyped == NoAnalysis \in Analyses /\ NoAnalysis.emitted <= Len(NoAnalysis.stash)
BY DEF NoAnalysis, Analyses, Stages, Happenings, Answers, Cards, Shown, Tools

\* What is left of a sequence after k elements.
LEMMA SuffixIs ==
  ASSUME NEW S, NEW s \in Seq(S), NEW k \in Nat, k <= Len(s), NEW t, t = SubSeq(s, k + 1, Len(s))
  PROVE  /\ t \in Seq(S) /\ Len(t) = Len(s) - k /\ DOMAIN t = 1..(Len(s) - k)
         /\ \A i \in 1..(Len(s) - k) : t[i] = s[k + i]
<1>1. Len(s) \in Nat /\ DOMAIN s = 1..Len(s)
  OBVIOUS
<1>2. \A i \in (k + 1)..Len(s) : s[i] \in S
  BY <1>1
<1>3. /\ t \in Seq(S) /\ Len(t) = IF k + 1 <= Len(s) THEN Len(s) - (k + 1) + 1 ELSE 0
      /\ \A i \in 1..(Len(s) - (k + 1) + 1) : t[i] = s[k + 1 + i - 1]
  BY <1>1, <1>2, SubSeqProperties
<1> DEFINE n == Len(s)
<1> HIDE DEF n
<1>4. n \in Nat /\ k <= n
  BY <1>1 DEF n
<1>5. Len(t) = IF k + 1 <= n THEN n - (k + 1) + 1 ELSE 0
  BY <1>3 DEF n
<1>6. Len(t) = n - k
  BY <1>4, <1>5
<1>7. \A i \in 1..(n - k) : i \in 1..(n - (k + 1) + 1) /\ k + 1 + i - 1 = k + i
  BY <1>4
<1>8. \A i \in 1..(n - k) : t[i] = s[k + i]
  <2>1. \A i \in 1..(n - (k + 1) + 1) : t[i] = s[k + 1 + i - 1]
    BY <1>3 DEF n
  <2>2. QED
    BY <1>7, <2>1
<1>9. DOMAIN t = 1..Len(t)
  BY <1>3
<1>10. QED
  BY <1>3, <1>6, <1>8, <1>9 DEF n

\* The results not yielded yet are the rest of the stash.
LEMMA FreshIs ==
  ASSUME NEW a \in Analyses, a.emitted <= Len(a.stash)
  PROVE  /\ Fresh(a) \in Seq(Answers) /\ Len(Fresh(a)) = Len(a.stash) - a.emitted
         /\ \A k \in 1..Len(Fresh(a)) : Fresh(a)[k] = a.stash[a.emitted + k]
<1>1. a.stash \in Seq(Answers) /\ a.emitted \in Nat
  BY DEF Analyses
<1> DEFINE s == a.stash
           k == a.emitted
           t == Fresh(a)
<1>2. t = SubSeq(s, k + 1, Len(s))
  BY DEF Fresh
<1>3. s \in Seq(Answers) /\ k \in Nat /\ k <= Len(s)
  BY <1>1
<1> HIDE DEF s, k, t
<1>4. /\ t \in Seq(Answers) /\ Len(t) = Len(s) - k
      /\ \A i \in 1..(Len(s) - k) : t[i] = s[k + i]
  BY <1>2, <1>3, SuffixIs
<1>5. \A i \in 1..Len(t) : t[i] = s[k + i]
  BY <1>4
<1>6. QED
  BY <1>4, <1>5 DEF s, k, t

\* Results overtake under names of tools.
LEMMA EarlyIs ==
  ASSUME NEW a \in Analyses, a.emitted <= Len(a.stash)
  PROVE  Early(a) \subseteq Tools
<1>1. ToSet(Fresh(a)) \subseteq Answers
  BY FreshIs DEF ToSet
<1>2. QED
  BY <1>1 DEF Early, Answers

\* What a yield leaves, field by field.
LEMMA YieldIs ==
  ASSUME ChatAssumption, NEW a \in Analyses, a.emitted <= Len(a.stash), a.queue # <<>>,
         NEW cards \in Seq(Cards), NEW b, b = YieldResults(a, cards)
  PROVE  /\ b \in Analyses /\ b.at = a.at /\ b.model = a.model /\ b.queue = Tail(a.queue)
         /\ b.stash = a.stash /\ b.emitted = Len(a.stash)
         /\ b.cards = FoldLeft(AddResult, cards, Fresh(a))
         /\ b.frames = Publish(a.frames, "event") /\ b.blurred = a.blurred \cup Early(a)
         /\ b.cut = a.cut /\ b.displaced = a.displaced
<1> DEFINE folded == FoldLeft(AddResult, cards, Fresh(a))
<1>1. folded \in Seq(Cards)
  <2>1. Fresh(a) \in Seq(Answers)
    BY FreshIs
  <2>2. PICK h : Stepwise(h, cards, Fresh(a)) /\ folded = h[Len(Fresh(a))]
    BY <2>1, ResultsAdded
  <2>3. Len(Fresh(a)) \in 0..Len(Fresh(a))
    BY <2>1
  <2>4. QED
    BY <2>2, <2>3 DEF Stepwise
<1>2. Publish(a.frames, "event") \in Seq(Shown)
  BY PublishType DEF Analyses, Shown
<1>3. Tail(a.queue) \in Seq(Happenings)
  BY HeadTailProperties DEF Analyses
<1>4. Early(a) \subseteq Tools
  BY EarlyIs
<1>5. Len(a.stash) \in Nat
  BY DEF Analyses
<1> DEFINE e == Early(a)
           q == Tail(a.queue)
           fr == Publish(a.frames, "event")
<1>6. b = [a EXCEPT !.cards = folded, !.emitted = Len(a.stash), !.blurred = @ \cup e,
                    !.queue = q, !.frames = fr]
  BY DEF YieldResults
<1>7. /\ folded \in Seq(Cards) /\ fr \in Seq(Shown) /\ q \in Seq(Happenings) /\ e \subseteq Tools
  BY <1>1, <1>2, <1>3, <1>4
<1> HIDE DEF e, q, fr, folded
<1>8a. b = [at |-> a.at, model |-> a.model, queue |-> q, stash |-> a.stash, emitted |-> Len(a.stash),
            cards |-> folded, frames |-> fr, blurred |-> a.blurred \cup e, cut |-> a.cut,
            displaced |-> a.displaced]
  BY <1>6 DEF Analyses
<1>8b. /\ a.at \in Stages /\ a.model \in {"talking", "acting", "ended"} /\ a.stash \in Seq(Answers)
       /\ a.blurred \in SUBSET Tools /\ a.cut \in BOOLEAN /\ a.displaced \in BOOLEAN
  BY DEF Analyses
<1>8. /\ b \in Analyses /\ b.at = a.at /\ b.model = a.model /\ b.queue = q
      /\ b.stash = a.stash /\ b.emitted = Len(a.stash)
      /\ b.cards = folded
      /\ b.frames = fr /\ b.blurred = a.blurred \cup e
      /\ b.cut = a.cut /\ b.displaced = a.displaced
  BY <1>5, <1>7, <1>8a, <1>8b DEF Analyses
<1>9. QED
  BY <1>8 DEF e, q, fr, folded

\* Types, when one analysis changes.
LEMMA OneAnalysis ==
  ASSUME AnalysesTyped, NEW n \in Questions, NEW b \in Analyses, b.emitted <= Len(b.stash),
         analysis' = [analysis EXCEPT ![n] = b]
  PROVE  AnalysesTyped'
BY DEF AnalysesTyped

\* An event for the queue changes the queue.
LEMMA EnqueueIs ==
  ASSUME AnalysesTyped, NEW n \in Questions, NEW event \in Happenings, NEW b, b = Enqueue(n, event)
  PROVE  /\ b \in Analyses /\ b.emitted <= Len(b.stash)
         /\ b = [analysis[n] EXCEPT !.queue = Append(analysis[n].queue, event)]
         /\ b.model = analysis[n].model
<1>1. analysis[n] \in Analyses /\ analysis[n].queue \in Seq(Happenings)
  BY DEF AnalysesTyped, Analyses
<1>2. Append(analysis[n].queue, event) \in Seq(Happenings)
  BY <1>1
<1>3. QED
  BY <1>1, <1>2 DEF Enqueue, AnalysesTyped, Analyses

\* Types, when the model goes on.
LEMMA OtherModel ==
  ASSUME NEW b \in Analyses, b.emitted <= Len(b.stash), NEW m \in {"talking", "acting", "ended"}
  PROVE  LET c == [b EXCEPT !.model = m] IN c \in Analyses /\ c.emitted <= Len(c.stash)
BY DEF Analyses


\* Types, when the model speaks, ends or fails.
LEMMA AgentTyped ==
  ASSUME ChatAssumption, ChatTyped, NEW n \in Questions,
         ModelSays(n) \/ ToolsReturn(n) \/ ModelEnds(n) \/ ModelFails(n)
  PROVE  AnalysesTyped'
<1>1. \A k \in {"event", "end", "error"} : <<k, 0>> \in Happenings
  BY DEF Happenings, ChatAssumption
<1>2. AnalysesTyped
  BY DEF ChatTyped
<1>3. CASE ModelSays(n)
  <2> DEFINE b == Enqueue(n, <<"event", 0>>)
  <2>1. analysis' = [analysis EXCEPT ![n] = b]
    BY <1>3 DEF ModelSays
  <2>2. b \in Analyses /\ b.emitted <= Len(b.stash)
    BY <1>1, <1>2, EnqueueIs
  <2>3. QED
    BY <1>2, <2>1, <2>2, OneAnalysis
<1>4. CASE ToolsReturn(n)
  <2> DEFINE b == Enqueue(n, <<"event", 0>>)
             c == [b EXCEPT !.model = "talking"]
  <2>1. analysis' = [analysis EXCEPT ![n] = c]
    BY <1>4 DEF ToolsReturn
  <2>2. b \in Analyses /\ b.emitted <= Len(b.stash)
    BY <1>1, <1>2, EnqueueIs
  <2> HIDE DEF b
  <2>3. c \in Analyses /\ c.emitted <= Len(c.stash)
    BY <2>2, OtherModel
  <2> HIDE DEF c
  <2>4. QED
    BY <1>2, <2>1, <2>3, OneAnalysis
<1>5. CASE ModelEnds(n)
  <2> DEFINE b == Enqueue(n, <<"end", 0>>)
             c == [b EXCEPT !.model = "ended"]
  <2>1. analysis' = [analysis EXCEPT ![n] = c]
    BY <1>5 DEF ModelEnds
  <2>2. b \in Analyses /\ b.emitted <= Len(b.stash)
    BY <1>1, <1>2, EnqueueIs
  <2> HIDE DEF b
  <2>3. c \in Analyses /\ c.emitted <= Len(c.stash)
    BY <2>2, OtherModel
  <2> HIDE DEF c
  <2>4. QED
    BY <1>2, <2>1, <2>3, OneAnalysis
<1>6. CASE ModelFails(n)
  <2> DEFINE b == Enqueue(n, <<"error", 0>>)
             c == [b EXCEPT !.model = "ended"]
  <2>1. analysis' = [analysis EXCEPT ![n] = c]
    BY <1>6 DEF ModelFails
  <2>2. b \in Analyses /\ b.emitted <= Len(b.stash)
    BY <1>1, <1>2, EnqueueIs
  <2> HIDE DEF b
  <2>3. c \in Analyses /\ c.emitted <= Len(c.stash)
    BY <2>2, OtherModel
  <2> HIDE DEF c
  <2>4. QED
    BY <1>2, <2>1, <2>3, OneAnalysis
<1>7. QED
  BY <1>3, <1>4, <1>5, <1>6

\* Types, when the model asks for a tool.
LEMMA AsksTyped ==
  ASSUME ChatAssumption, ChatTyped, NEW n \in Questions, NEW c \in Calls, NEW name \in Tools,
         ModelAsks(n, c, name)
  PROVE  AnalysesTyped' /\ CallsTyped'
<1>1. <<"use", c>> \in Happenings
  BY DEF Happenings, ChatAssumption, Calls
<1>2. AnalysesTyped'
  <2> DEFINE b == Enqueue(n, <<"use", c>>)
  <2>1. analysis' = [analysis EXCEPT ![n] = b]
    BY DEF ModelAsks
  <2>2. b \in Analyses /\ b.emitted <= Len(b.stash)
    BY <1>1, EnqueueIs DEF ChatTyped
  <2>3. QED
    BY <2>1, <2>2, OneAnalysis DEF ChatTyped
<1>3. CallsTyped'
  <2>1. n \in 0..MaxQuestions
    BY DEF Questions, ChatAssumption
  <2>2. QED
    BY <2>1 DEF ModelAsks, ChatTyped, CallsTyped, CallStages
<1>4. QED
  BY <1>2, <1>3

\* Types, and the stash, when a tool leaves a result.
LEMMA StashIs ==
  ASSUME AnalysesTyped, NEW n \in Questions, NEW name \in Tools, NEW c \in Calls,
         Stash(n, name, c)
  PROVE  /\ AnalysesTyped' /\ analysis'[n].stash = Append(analysis[n].stash, <<name, c>>)
<1>1. analysis[n] \in Analyses /\ analysis[n].stash \in Seq(Answers) /\ <<name, c>> \in Answers
  BY DEF AnalysesTyped, Analyses, Answers
<1>2. /\ Append(analysis[n].stash, <<name, c>>) \in Seq(Answers)
      /\ Len(Append(analysis[n].stash, <<name, c>>)) = Len(analysis[n].stash) + 1
      /\ Len(analysis[n].stash) \in Nat
  BY <1>1
<1> DEFINE b == [analysis[n] EXCEPT !.stash = Append(analysis[n].stash, <<name, c>>)]
<1>2a. /\ analysis[n].emitted \in Nat /\ analysis[n].emitted <= Len(analysis[n].stash)
  BY <1>1 DEF AnalysesTyped, Analyses
<1>3. b \in Analyses /\ b.stash = Append(analysis[n].stash, <<name, c>>) /\ b.emitted = analysis[n].emitted
  BY <1>1, <1>2 DEF Analyses
<1>4. analysis' = [analysis EXCEPT ![n] = b]
  BY DEF Stash
<1> HIDE DEF b
<1>5. QED
  BY <1>2, <1>2a, <1>3, <1>4, OneAnalysis DEF AnalysesTyped

\* Types, when a tool answers, validates or fails.
LEMMA ToolsTyped ==
  ASSUME ChatAssumption, ChatTyped, NEW c \in Calls, ToolAnswers(c) \/ AutoValidates(c) \/ ToolFails(c)
  PROVE  AnalysesTyped' /\ CallsTyped'
<1>1. calls[c].at # "unused" /\ calls[c].of \in Questions
  BY DEF ToolAnswers, AutoValidates, ToolFails, ChatTyped, CallsTyped
<1>2. Sql \in Tools /\ Validator \in Tools /\ AnalysesTyped /\ CallsTyped
  BY DEF Tools, ChatTyped
<1>3. CASE ToolAnswers(c)
  <2>1. AnalysesTyped'
    BY <1>1, <1>2, <1>3, StashIs DEF ToolAnswers
  <2>2. CallsTyped'
    BY <1>2, <1>3 DEF ToolAnswers, CallsTyped, CallStages
  <2>3. QED
    BY <2>1, <2>2
<1>4. CASE AutoValidates(c)
  <2>1. AnalysesTyped'
    BY <1>1, <1>2, <1>4, StashIs DEF AutoValidates
  <2>2. CallsTyped'
    BY <1>2, <1>4 DEF AutoValidates, CallsTyped, CallStages
  <2>3. QED
    BY <2>1, <2>2
<1>5. CASE ToolFails(c)
  <2>1. CallsTyped'
    BY <1>2, <1>5 DEF ToolFails, CallsTyped, CallStages
  <2>2. CASE calls[c].at = "validating"
    BY <1>2, <1>5, <2>1, <2>2 DEF ToolFails, AnalysesTyped
  <2>3. CASE calls[c].at # "validating"
    <3> DEFINE n == calls[c].of
               b == [analysis[n] EXCEPT !.blurred = @ \cup {calls[c].tool}]
    <3>1. calls[c].tool \in Tools /\ n \in Questions /\ analysis[n] \in Analyses
      BY <1>1, <1>2 DEF CallsTyped, AnalysesTyped
    <3>2. b \in Analyses /\ b.emitted <= Len(b.stash)
      BY <1>2, <3>1 DEF Analyses, AnalysesTyped
    <3>3. analysis' = [analysis EXCEPT ![n] = b]
      BY <1>5, <2>3 DEF ToolFails
    <3> HIDE DEF b, n
    <3>4. QED
      BY <1>2, <2>1, <3>1, <3>2, <3>3, OneAnalysis
  <2>4. QED
    BY <2>1, <2>2, <2>3
<1>6. QED
  BY <1>3, <1>4, <1>5

\* Types, when the tools of a message start.
LEMMA StartTyped ==
  ASSUME ChatAssumption, ChatTyped, NEW n \in Questions, ToolsStart(n)
  PROVE  AnalysesTyped' /\ CallsTyped'
<1> DEFINE e == Shared(CallsOf(n, "asked"))
           b == [analysis[n] EXCEPT !.model = "acting", !.blurred = @ \cup e]
<1>1. e \subseteq Tools
  BY DEF Shared
<1>2. analysis[n] \in Analyses /\ analysis[n].emitted <= Len(analysis[n].stash)
  BY DEF ChatTyped, AnalysesTyped
<1>3. analysis' = [analysis EXCEPT ![n] = b]
  BY DEF ToolsStart
<1>4. CallsTyped'
  BY DEF ToolsStart, ChatTyped, CallsTyped, CallStages, CallsOf
<1> HIDE DEF e
<1>5. b \in Analyses /\ b.emitted <= Len(b.stash)
  BY <1>1, <1>2 DEF Analyses
<1> HIDE DEF b
<1>6. QED
  BY <1>3, <1>4, <1>5, OneAnalysis DEF ChatTyped

\* Cards stay cards when a call is shown.
LEMMA AddCallType ==
  ASSUME ChatAssumption, CallsTyped, NEW cards \in Seq(Cards), NEW c \in Calls
  PROVE  AddCall(cards, c) \in Seq(Cards)
<1>1. calls[c].tool \in Tools /\ c \in 0..MaxCalls /\ 0 \in 0..MaxCalls
  BY DEF CallsTyped, Calls, ChatAssumption
<1>2. [tool |-> calls[c].tool, call |-> c, result |-> 0] \in Cards
  BY <1>1 DEF Cards
<1>3. QED
  BY <1>2 DEF AddCall

\* What a read of the stream makes of the analysis.
CardsThen(n) == LET a == analysis[n] IN
  IF Head(a.queue)[1] = "use" THEN AddCall(a.cards, Head(a.queue)[2]) ELSE a.cards

\* What a read of the stream leaves.
LEMMA ReadIs ==
  ASSUME ChatAssumption, ChatTyped, NEW n \in Questions, StreamRead(n)
  PROVE  /\ analysis' = [analysis EXCEPT ![n] = YieldResults(analysis[n], CardsThen(n))]
         /\ CardsThen(n) \in Seq(Cards) /\ analysis[n].queue # <<>>
         /\ analysis[n] \in Analyses /\ analysis[n].emitted <= Len(analysis[n].stash)
<1>1. analysis[n] \in Analyses /\ analysis[n].emitted <= Len(analysis[n].stash) /\ CallsTyped
  BY DEF ChatTyped, AnalysesTyped
<1>2. analysis[n].queue # <<>> /\ analysis[n].queue \in Seq(Happenings)
  BY <1>1 DEF StreamRead, Analyses
<1>3. Head(analysis[n].queue) = analysis[n].queue[1] /\ 1 \in DOMAIN analysis[n].queue
  BY <1>2
<1>4. analysis[n].cards \in Seq(Cards)
  BY <1>1 DEF Analyses
<1>5. CardsThen(n) \in Seq(Cards)
  <2>1. CASE Head(analysis[n].queue)[1] = "use"
    <3>1. Head(analysis[n].queue)[2] \in Calls
      BY <1>2, <1>3, <2>1 DEF Happenings
    <3>2. QED
      BY <1>1, <1>4, <2>1, <3>1, AddCallType DEF CardsThen
  <2>2. CASE Head(analysis[n].queue)[1] # "use"
    BY <1>4, <2>2 DEF CardsThen
  <2>3. QED
    BY <2>1, <2>2
<1>6. analysis' = [analysis EXCEPT ![n] = YieldResults(analysis[n], CardsThen(n))]
  BY DEF StreamRead, CardsThen
<1>7. QED
  BY <1>1, <1>2, <1>5, <1>6

\* The record the end of a stream leaves.
Ended(b) == [b EXCEPT !.at = "saving", !.stash = <<>>, !.emitted = 0, !.frames = Publish(@, "done")]
Cut(a) == [a EXCEPT !.cut = TRUE, !.frames = Publish(@, "error"), !.queue = Tail(@)]

\* What an error frame leaves, field by field.
LEMMA CutIs ==
  ASSUME NEW a \in Analyses, a.queue # <<>>, NEW b, b = Cut(a)
  PROVE  /\ b \in Analyses /\ b.at = a.at /\ b.model = a.model /\ b.queue = Tail(a.queue)
         /\ b.stash = a.stash /\ b.emitted = a.emitted /\ b.cards = a.cards
         /\ b.frames = Publish(a.frames, "error") /\ b.blurred = a.blurred /\ b.cut = TRUE
         /\ b.displaced = a.displaced
<1>1. /\ a.at \in Stages /\ a.model \in {"talking", "acting", "ended"} /\ a.stash \in Seq(Answers)
      /\ a.blurred \in SUBSET Tools /\ a.cut \in BOOLEAN /\ a.displaced \in BOOLEAN
      /\ a.emitted \in Nat /\ a.cards \in Seq(Cards) /\ a.frames \in Seq(Shown)
      /\ a.queue \in Seq(Happenings)
  BY DEF Analyses
<1>2. Publish(a.frames, "error") \in Seq(Shown)
  BY <1>1, PublishType DEF Shown
<1>3. Tail(a.queue) \in Seq(Happenings)
  BY <1>1, HeadTailProperties
<1> DEFINE fr == Publish(a.frames, "error")
           q == Tail(a.queue)
<1>4. b = [a EXCEPT !.cut = TRUE, !.frames = fr, !.queue = q]
  BY DEF Cut
<1>5. fr \in Seq(Shown) /\ q \in Seq(Happenings)
  BY <1>2, <1>3
<1> HIDE DEF fr, q
<1>6. b = [at |-> a.at, model |-> a.model, queue |-> q, stash |-> a.stash, emitted |-> a.emitted,
            cards |-> a.cards, frames |-> fr, blurred |-> a.blurred, cut |-> TRUE,
            displaced |-> a.displaced]
  BY <1>4 DEF Analyses
<1>7. /\ b \in Analyses /\ b.at = a.at /\ b.model = a.model /\ b.queue = q
      /\ b.stash = a.stash /\ b.emitted = a.emitted /\ b.cards = a.cards
      /\ b.frames = fr /\ b.blurred = a.blurred /\ b.cut = TRUE
      /\ b.displaced = a.displaced
  BY <1>1, <1>5, <1>6 DEF Analyses
<1>8. QED
  BY <1>7 DEF fr, q

\* What the end of the stream leaves, field by field.
LEMMA EndedIs ==
  ASSUME NEW a \in Analyses, NEW b, b = Ended(a)
  PROVE  /\ b \in Analyses /\ b.at = "saving" /\ b.model = a.model /\ b.queue = a.queue
         /\ b.stash = <<>> /\ b.emitted = 0 /\ b.cards = a.cards
         /\ b.frames = Publish(a.frames, "done") /\ b.blurred = a.blurred /\ b.cut = a.cut
         /\ b.displaced = a.displaced
<1>1. /\ a.at \in Stages /\ a.model \in {"talking", "acting", "ended"} /\ a.stash \in Seq(Answers)
      /\ a.blurred \in SUBSET Tools /\ a.cut \in BOOLEAN /\ a.displaced \in BOOLEAN
      /\ a.emitted \in Nat /\ a.cards \in Seq(Cards) /\ a.frames \in Seq(Shown)
      /\ a.queue \in Seq(Happenings)
  BY DEF Analyses
<1>2. Publish(a.frames, "done") \in Seq(Shown)
  BY <1>1, PublishType DEF Shown
<1> DEFINE fr == Publish(a.frames, "done")
<1>4. b = [a EXCEPT !.at = "saving", !.stash = <<>>, !.emitted = 0, !.frames = fr]
  BY DEF Ended
<1>5. fr \in Seq(Shown)
  BY <1>2
<1> HIDE DEF fr
<1>6. b = [at |-> "saving", model |-> a.model, queue |-> a.queue, stash |-> <<>>, emitted |-> 0,
            cards |-> a.cards, frames |-> fr, blurred |-> a.blurred, cut |-> a.cut,
            displaced |-> a.displaced]
  BY <1>4 DEF Analyses
<1>7. /\ b \in Analyses /\ b.at = "saving" /\ b.model = a.model /\ b.queue = a.queue
      /\ b.stash = <<>> /\ b.emitted = 0 /\ b.cards = a.cards
      /\ b.frames = fr /\ b.blurred = a.blurred /\ b.cut = a.cut
      /\ b.displaced = a.displaced
  BY <1>1, <1>5, <1>6 DEF Analyses, Stages
<1>8. QED
  BY <1>7 DEF fr

Rest(n) == IF Head(analysis[n].queue)[1] = "end" THEN YieldResults(analysis[n], analysis[n].cards)
           ELSE Cut(analysis[n])

\* What the end of the stream leaves.
LEMMA EndIs ==
  ASSUME ChatAssumption, ChatTyped, NEW n \in Questions, StreamEnds(n)
  PROVE  /\ analysis' = [analysis EXCEPT ![n] = Ended(Rest(n))]
         /\ analysis[n].queue # <<>> /\ analysis[n].cards \in Seq(Cards)
         /\ analysis[n] \in Analyses /\ analysis[n].emitted <= Len(analysis[n].stash)
         /\ Rest(n) \in Analyses
<1>1. analysis[n] \in Analyses /\ analysis[n].emitted <= Len(analysis[n].stash) /\ analysis[n].queue # <<>>
  BY DEF ChatTyped, AnalysesTyped, StreamEnds
<1>2. analysis[n].cards \in Seq(Cards)
  BY <1>1 DEF Analyses
<1>3. analysis' = [analysis EXCEPT ![n] = Ended(Rest(n))]
  BY DEF StreamEnds, Ended, Rest, Cut
<1>4. Rest(n) \in Analyses
  <2>1. YieldResults(analysis[n], analysis[n].cards) \in Analyses
    BY <1>1, <1>2, YieldIs
  <2>2. Cut(analysis[n]) \in Analyses
    BY <1>1, CutIs
  <2>3. QED
    BY <2>1, <2>2 DEF Rest
<1>5. QED
  BY <1>1, <1>2, <1>3, <1>4

Broken(n) == [NoAnalysis EXCEPT !.at = "closing", !.cut = TRUE,
                                !.frames = Publish(analysis[n].frames, "error")]

\* What a failed producer leaves, field by field.
LEMMA BrokenIs ==
  ASSUME AnalysesTyped, NEW n \in Questions, NEW b, b = Broken(n)
  PROVE  /\ b \in Analyses /\ b.at = "closing" /\ b.model = "talking" /\ b.queue = <<>>
         /\ b.stash = <<>> /\ b.emitted = 0 /\ b.cards = <<>>
         /\ b.frames = Publish(analysis[n].frames, "error") /\ b.blurred = {} /\ b.cut = TRUE
         /\ b.displaced = FALSE
<1>1. Publish(analysis[n].frames, "error") \in Seq(Shown)
  BY PublishType DEF Shown, AnalysesTyped, Analyses
<1> DEFINE fr == Publish(analysis[n].frames, "error")
<1>4. b = [NoAnalysis EXCEPT !.at = "closing", !.cut = TRUE, !.frames = fr]
  BY DEF Broken
<1>5. fr \in Seq(Shown)
  BY <1>1
<1> HIDE DEF fr
<1>6. b = [at |-> "closing", model |-> "talking", queue |-> <<>>, stash |-> <<>>, emitted |-> 0,
            cards |-> <<>>, frames |-> fr, blurred |-> {}, cut |-> TRUE, displaced |-> FALSE]
  BY <1>4 DEF NoAnalysis
<1>6a. <<>> \in Seq(Happenings) /\ <<>> \in Seq(Answers) /\ <<>> \in Seq(Cards)
  OBVIOUS
<1>7. /\ b \in Analyses /\ b.at = "closing" /\ b.model = "talking" /\ b.queue = <<>>
      /\ b.stash = <<>> /\ b.emitted = 0 /\ b.cards = <<>>
      /\ b.frames = fr /\ b.blurred = {} /\ b.cut = TRUE
      /\ b.displaced = FALSE
  BY <1>5, <1>6, <1>6a DEF Analyses, Stages
<1>8. QED
  BY <1>7 DEF fr

\* Types, through the steps of the producer.
LEMMA ProducerTyped ==
  ASSUME ChatAssumption, ChatTyped, NEW n \in Questions,
         StreamRead(n) \/ StreamEnds(n) \/ ProducerFails(n) \/ SaveAnswer(n) \/ Finish(n)
  PROVE  AnalysesTyped' /\ CallsTyped'
<1>0. AnalysesTyped /\ CallsTyped /\ analysis[n] \in Analyses /\ analysis[n].emitted <= Len(analysis[n].stash)
  BY DEF ChatTyped, AnalysesTyped
<1>1. CASE StreamRead(n)
  <2>1. CallsTyped'
    BY <1>0, <1>1 DEF StreamRead, CallsTyped
  <2> DEFINE b == YieldResults(analysis[n], CardsThen(n))
  <2>2. b \in Analyses /\ b.stash = analysis[n].stash /\ b.emitted = Len(analysis[n].stash)
    BY <1>0, <1>1, ReadIs, YieldIs
  <2>3. analysis' = [analysis EXCEPT ![n] = b]
    BY <1>1, ReadIs
  <2> HIDE DEF b
  <2>4. b.emitted <= Len(b.stash)
    BY <1>0, <2>2 DEF Analyses
  <2>5. QED
    BY <1>0, <2>1, <2>2, <2>3, <2>4, OneAnalysis
<1>2. CASE StreamEnds(n)
  <2>1. CallsTyped'
    BY <1>0, <1>2 DEF StreamEnds, CallsTyped
  <2> DEFINE b == Ended(Rest(n))
  <2>2. b \in Analyses /\ b.stash = <<>> /\ b.emitted = 0
    BY <1>2, EndIs, EndedIs
  <2>3. analysis' = [analysis EXCEPT ![n] = b]
    BY <1>2, EndIs
  <2> HIDE DEF b
  <2>4. b.emitted <= Len(b.stash)
    BY <2>2
  <2>5. QED
    BY <1>0, <2>1, <2>2, <2>3, <2>4, OneAnalysis
<1>3. CASE ProducerFails(n)
  <2>1. CallsTyped'
    BY <1>0, <1>3 DEF ProducerFails, CallsTyped, CallStages
  <2> DEFINE b == Broken(n)
  <2>2. b \in Analyses /\ b.stash = <<>> /\ b.emitted = 0
    BY <1>0, BrokenIs
  <2>3. analysis' = [analysis EXCEPT ![n] = b]
    BY <1>3 DEF ProducerFails, Broken
  <2> HIDE DEF b
  <2>4. b.emitted <= Len(b.stash)
    BY <2>2
  <2>5. QED
    BY <1>0, <2>1, <2>2, <2>3, <2>4, OneAnalysis
<1>4. CASE SaveAnswer(n) \/ Finish(n)
  <2>1. CallsTyped'
    BY <1>0, <1>4 DEF SaveAnswer, Finish, CallsTyped
  <2>2. PICK st \in Stages : analysis' = [analysis EXCEPT ![n] = [analysis[n] EXCEPT !.at = st]]
    BY <1>4 DEF SaveAnswer, Finish, Stages
  <2> DEFINE b == [analysis[n] EXCEPT !.at = st]
  <2>3. b \in Analyses /\ b.emitted <= Len(b.stash)
    BY <1>0 DEF Analyses
  <2>4. analysis' = [analysis EXCEPT ![n] = b]
    BY <2>2
  <2> HIDE DEF b
  <2>5. QED
    BY <1>0, <2>1, <2>3, <2>4, OneAnalysis
<1>5. QED
  BY <1>1, <1>2, <1>3, <1>4

\* Types, when a question is asked and gets its relay.
LEMMA RegisterTyped ==
  ASSUME ChatAssumption, ChatTyped, NEW n \in Questions, Register(n) \/ Ask(n)
  PROVE  AnalysesTyped'
<1>1. analysis \in [Questions -> Analyses] /\ \A m \in Questions : analysis[m].emitted <= Len(analysis[m].stash)
  BY DEF ChatTyped, AnalysesTyped
<1>2. \A m \in Questions : LET a == analysis[m] IN
        /\ [a EXCEPT !.at = "reading"] \in Analyses /\ [a EXCEPT !.displaced = TRUE] \in Analyses
        /\ [a EXCEPT !.at = "posting"] \in Analyses
        /\ \A b \in {[a EXCEPT !.at = "reading"], [a EXCEPT !.displaced = TRUE], [a EXCEPT !.at = "posting"]} :
             b.stash = a.stash /\ b.emitted = a.emitted
  BY <1>1 DEF Analyses, Stages
<1>3. \A m \in Questions : LET a == analysis[m] IN
        analysis'[m] \in {a, [a EXCEPT !.at = "reading"], [a EXCEPT !.displaced = TRUE],
                          [a EXCEPT !.at = "posting"]}
  BY <1>1 DEF Register, Ask
<1>4. analysis' = [m \in Questions |-> analysis'[m]]
  BY <1>1 DEF Register, Ask
<1>5. \A m \in Questions : analysis'[m] \in Analyses /\ analysis'[m].emitted <= Len(analysis'[m].stash)
  BY <1>1, <1>2, <1>3
<1>6. QED
  BY <1>4, <1>5 DEF AnalysesTyped

\* Types, when the pod goes.
LEMMA CrashTyped ==
  ASSUME ChatAssumption, ChatTyped, PodCrash
  PROVE  AnalysesTyped' /\ CallsTyped'
<1>1. analysis \in [Questions -> Analyses] /\ \A m \in Questions : analysis[m].emitted <= Len(analysis[m].stash)
  BY DEF ChatTyped, AnalysesTyped
<1> DEFINE b == [NoAnalysis EXCEPT !.at = "crashed", !.cut = TRUE]
<1>2. b \in Analyses /\ b.emitted <= Len(b.stash)
  BY EmptyIsTyped DEF Analyses, Stages
<1>3. analysis' = [m \in Questions |-> IF Live(m) THEN b ELSE analysis[m]]
  BY DEF PodCrash
<1> HIDE DEF b
<1>4. AnalysesTyped'
  BY <1>1, <1>2, <1>3 DEF AnalysesTyped
<1>5. CallsTyped'
  BY DEF PodCrash, ChatTyped, CallsTyped, CallStages
<1>6. QED
  BY <1>4, <1>5

\* Questions and answers are what a page may show.
LEMMA SaidIs ==
  ASSUME NEW n \in Questions
  PROVE  Asked(n) \in Said /\ Answered(n) \in Said
BY DEF Asked, Answered, Said

\* Types, through the steps of the page.
LEMMA PageStepTyped ==
  ASSUME ChatAssumption, ChatTyped,
         Receive \/ StreamCloses \/ Stop \/ Leave \/ LoadHistory \/ Reattach \/ PodCrash
           \/ \E n \in Questions : Ask(n) \/ Register(n) \/ SaveAnswer(n) \/ Finish(n)
  PROVE  PageTyped'
<1>0. /\ history \in Seq(Said) /\ active \in 0..MaxQuestions /\ page \in Pages
      /\ Questions = (0..MaxQuestions) \ {0} /\ 0 \in 0..MaxQuestions
      /\ page.at \in {"sending", "tailing"} => page.on \in Questions
  BY DEF ChatTyped, PageTyped, Questions, ChatAssumption
<1>00. PageTyped
  BY DEF ChatTyped
<1>1. CASE Receive
  <2>1. page.at = "tailing" /\ page.on \in Questions
    BY <1>0, <1>1 DEF Receive
  <2>2. analysis[page.on] \in Analyses /\ analysis[page.on].frames \in Seq(Shown)
    BY <2>1 DEF ChatTyped, AnalysesTyped, Analyses
  <2>3. Len(analysis[page.on].frames) \in Nat
    BY <2>2
  <2>4. Append(page.shows, Answered(page.on)) \in Seq(Said) /\ page.shows \in Seq(Said)
    BY <1>0, <2>1, SaidIs, AppendProperties DEF Pages
  <2>5. PICK s \in Seq(Said) : page' = [page EXCEPT !.read = Len(analysis[page.on].frames), !.shows = s]
    BY <1>1, <2>4 DEF Receive
  <2>6. QED
    BY <1>0, <1>1, <2>3, <2>5 DEF Receive, PageTyped, Pages
<1>2a. CASE StreamCloses
  BY <1>0, <1>2a DEF StreamCloses, PageTyped, Pages
<1>2. CASE Stop
  <2>1. page.stopped \cup {page.on} \in SUBSET Questions
    BY <1>0, <1>2 DEF Stop, Pages
  <2>2. page' \in Pages /\ page'.at = "ready"
    BY <1>0, <1>2, <2>1 DEF Stop, Pages
  <2>3. QED
    BY <1>0, <1>2, <2>2 DEF Stop, PageTyped
<1>3. NoPage \in Pages
  BY <1>0 DEF NoPage, Pages
<1>4. CASE Leave
  BY <1>0, <1>3, <1>4 DEF Leave, PageTyped, NoPage
<1>5. CASE LoadHistory
  BY <1>0, <1>5 DEF LoadHistory, PageTyped, NoPage, Pages
<1>6. CASE Reattach
  BY <1>0, <1>6 DEF Reattach, PageTyped, Pages
<1>7. CASE PodCrash
  BY <1>0, <1>7 DEF PodCrash, PageTyped, Pages
<1>8. ASSUME NEW n \in Questions, Ask(n) PROVE PageTyped'
  <2>1. Append(history, Asked(n)) \in Seq(Said) /\ Append(page.shows, Asked(n)) \in Seq(Said)
    BY <1>0, SaidIs, AppendProperties DEF Pages
  <2>2. QED
    BY <1>0, <1>8, <2>1 DEF Ask, PageTyped, Pages
<1>9. ASSUME NEW n \in Questions, Register(n) PROVE PageTyped'
  BY <1>0, <1>9 DEF Register, PageTyped, Pages
<1>10. ASSUME NEW n \in Questions, SaveAnswer(n) PROVE PageTyped'
  <2>1. Append(history, Answered(n)) \in Seq(Said)
    BY <1>0, SaidIs, AppendProperties
  <2>2. QED
    BY <1>0, <1>10, <2>1 DEF SaveAnswer, PageTyped
<1>11. ASSUME NEW n \in Questions, Finish(n) PROVE PageTyped'
  BY <1>0, <1>11 DEF Finish, PageTyped
<1>12. QED
  BY <1>1, <1>2, <1>2a, <1>4, <1>5, <1>6, <1>7, <1>8, <1>9, <1>10, <1>11

\* The session starts typed.
LEMMA ChatTypedInit ==
  ASSUME ChatAssumption, ChatInit
  PROVE  ChatTyped
<1>1. AnalysesTyped
  BY EmptyIsTyped DEF ChatInit, AnalysesTyped
<1>2. CallsTyped
  BY DEF ChatInit, CallsTyped, NoCall, CallStages, Tools, ChatAssumption
<1>3. PageTyped
  <2>1. 0 \in 0..MaxQuestions /\ <<>> \in Seq(Said)
    BY DEF ChatAssumption
  <2>2. page \in Pages /\ page.at = "ready"
    BY <2>1 DEF ChatInit, NoPage, Pages
  <2>3. QED
    BY <2>1, <2>2 DEF ChatInit, PageTyped
<1>3a. faults \in 0..MaxFaults
  BY DEF ChatInit, ChatAssumption
<1>4. QED
  BY <1>1, <1>2, <1>3, <1>3a DEF ChatTyped

\* Every step keeps the types.
LEMMA ChatTypedStep ==
  ASSUME ChatAssumption, ChatTyped, [ChatNext]_chatVars
  PROVE  ChatTyped'
<1>1. AnalysesTyped' /\ CallsTyped'
  <2>0. AnalysesTyped /\ CallsTyped
    BY DEF ChatTyped
  <2>1. ASSUME NEW n \in Questions, ModelSays(n) \/ ToolsReturn(n) \/ ModelEnds(n) \/ ModelFails(n)
        PROVE  AnalysesTyped' /\ CallsTyped'
    BY <2>0, <2>1, AgentTyped DEF ModelSays, ToolsReturn, ModelEnds, ModelFails, CallsTyped
  <2>2. ASSUME NEW n \in Questions, Ask(n) \/ Register(n) PROVE AnalysesTyped' /\ CallsTyped'
    BY <2>0, <2>2, RegisterTyped DEF Ask, Register, CallsTyped
  <2>3. CASE Receive \/ StreamCloses \/ Stop \/ Leave \/ LoadHistory \/ Reattach \/ UNCHANGED chatVars
    BY <2>0, <2>3 DEF Receive, StreamCloses, Stop, Leave, LoadHistory, Reattach, chatVars,
                      AnalysesTyped, CallsTyped
  <2>4. QED
    BY <2>1, <2>2, <2>3, StartTyped, AsksTyped, ToolsTyped, ProducerTyped, CrashTyped DEF ChatNext
<1>2. PageTyped'
  <2>0. PageTyped
    BY DEF ChatTyped
  <2>1. ASSUME NEW n \in Questions,
               ModelSays(n) \/ ToolsStart(n) \/ ToolsReturn(n) \/ ModelEnds(n) \/ ModelFails(n)
                 \/ StreamRead(n) \/ StreamEnds(n) \/ ProducerFails(n)
                 \/ \E c \in Calls, name \in Tools : ModelAsks(n, c, name)
        PROVE  PageTyped'
    BY <2>0, <2>1 DEF ModelSays, ToolsStart, ToolsReturn, ModelEnds, ModelFails, StreamRead,
                      StreamEnds, ProducerFails, ModelAsks, PageTyped
  <2>2. ASSUME NEW c \in Calls, ToolAnswers(c) \/ AutoValidates(c) \/ ToolFails(c) PROVE PageTyped'
    BY <2>0, <2>2 DEF ToolAnswers, AutoValidates, ToolFails, PageTyped
  <2>3. CASE UNCHANGED chatVars
    BY <2>0, <2>3 DEF chatVars, PageTyped
  <2>4. QED
    BY <2>1, <2>2, <2>3, PageStepTyped DEF ChatNext
<1>3. (faults \in 0..MaxFaults)'
  <2>1. faults' = faults \/ Fault
    <3>1. ASSUME NEW n \in Questions,
                 ModelSays(n) \/ ToolsStart(n) \/ ToolsReturn(n) \/ ModelEnds(n) \/ ModelFails(n)
                   \/ StreamRead(n) \/ StreamEnds(n) \/ ProducerFails(n)
                   \/ \E c \in Calls, name \in Tools : ModelAsks(n, c, name)
          PROVE  faults' = faults \/ Fault
      BY <3>1 DEF ModelSays, ToolsStart, ToolsReturn, ModelEnds, ModelFails, StreamRead,
                  StreamEnds, ProducerFails, ModelAsks
    <3>2. ASSUME NEW c \in Calls, ToolAnswers(c) \/ AutoValidates(c) \/ ToolFails(c)
          PROVE  faults' = faults \/ Fault
      BY <3>2 DEF ToolAnswers, AutoValidates, ToolFails
    <3>3. ASSUME NEW n \in Questions, Ask(n) \/ Register(n) \/ SaveAnswer(n) \/ Finish(n)
          PROVE  faults' = faults
      BY <3>3 DEF Ask, Register, SaveAnswer, Finish
    <3>4. CASE Receive \/ StreamCloses \/ Stop \/ Leave \/ LoadHistory \/ Reattach \/ PodCrash
               \/ UNCHANGED chatVars
      BY <3>4 DEF Receive, StreamCloses, Stop, Leave, LoadHistory, Reattach, PodCrash, chatVars
    <3>5. QED
      BY <3>1, <3>2, <3>3, <3>4 DEF ChatNext
  <2>2. QED
    BY <2>1 DEF ChatTyped, Fault, ChatAssumption
<1>4. QED
  BY <1>1, <1>2, <1>3 DEF ChatTyped

----------------------------------------------------------------------------
(* The answers of a session: one of each question, and causes for the others. *)

Includes(s, x) == \E i \in DOMAIN s : s[i] = x
AtMostOnce(s, x) == \A i, j \in DOMAIN s : s[i] = x /\ s[j] = x => i = j

\* The stream of an analysis says "done" once, when it has ended.
StreamSound(n) ==
  LET a == analysis[n] IN
  /\ AtMostOnce(a.frames, "done")
  /\ a.at \in {"none", "posting", "crashed"} => a.frames = <<>>
  /\ Includes(a.frames, "done") => a.at \in {"saving", "closing", "over"}
  /\ a.at \in {"saving", "closing", "over"} => Includes(a.frames, "done") \/ a.cut
  /\ a.at = "crashed" => a.cut

\* The history has what was asked, and the answers of those that saved one.
HistorySound(n) ==
  LET a == analysis[n] IN
  /\ AtMostOnce(history, Answered(n))
  /\ Includes(history, Answered(n)) => a.at \in {"closing", "over", "crashed"}
  /\ Includes(history, Asked(n)) => a.at # "none"
  /\ a.at \in {"closing", "over"} => a.cut \/ Includes(history, Answered(n))

\* Whoever runs and was not displaced has the relay.
RelaySound(n) ==
  LET a == analysis[n] IN
  /\ active = n => a.at \in {"reading", "saving", "closing"}
  /\ a.at \in {"reading", "saving", "closing"} => a.displaced \/ a.cut \/ active = n

DoneIsRead(n) ==
  \E i \in DOMAIN analysis[n].frames : i <= page.read /\ analysis[n].frames[i] = "done"

\* What the page shows, and the reasons an answer may be missing, so far.
ShowsSound(n) ==
  LET a == analysis[n] IN
  /\ n \in page.twice \/ AtMostOnce(page.shows, Answered(n))
  /\ Includes(page.shows, Asked(n)) => a.at # "none"
  /\ Includes(page.shows, Answered(n)) => a.at \notin {"none", "posting"}
  /\ Includes(page.shows, Asked(n)) /\ ~Includes(page.shows, Answered(n)) =>
       \/ a.cut \/ n \in page.stopped \cup page.missed
       \/ page.at \in {"sending", "tailing"} /\ page.on = n
       \/ page.at = "loaded" /\ n \in page.running \ page.saved

TailSound(n) ==
  LET a == analysis[n] IN
  /\ page.on = n /\ page.at = "sending" => a.at = "posting" /\ page.read = 0
  /\ page.on = n /\ page.at = "tailing" =>
       /\ a.at \in {"reading", "saving", "closing", "over"}
       /\ page.read <= Len(a.frames)
       /\ DoneIsRead(n) => Includes(page.shows, Answered(n))
       /\ Includes(page.shows, Answered(n)) => DoneIsRead(n) \/ n \in page.twice

LoadSound(n) ==
  page.at = "loaded" =>
    /\ page.read = 0 /\ page.missed = {} /\ page.twice = {}
    /\ n \in page.saved <=> Includes(page.shows, Answered(n))
    /\ n \in page.saved => analysis[n].at \in {"closing", "over", "crashed"}
    /\ n \in page.saved \ page.running => analysis[n].at \in {"over", "crashed"}

PageSound(n) == ShowsSound(n) /\ TailSound(n) /\ LoadSound(n)
AnswerSound(n) == StreamSound(n) /\ HistorySound(n) /\ RelaySound(n) /\ PageSound(n)
AnswersSound == \A n \in Questions : AnswerSound(n)


\* g is f, with or without another frame of the kind.
Grown(f, g, kind) ==
  /\ f \in Seq(Shown) /\ g \in Seq(Shown) /\ Len(f) <= Len(g)
  /\ \A i \in 1..Len(f) : g[i] = f[i]
  /\ \A i \in DOMAIN g : i <= Len(f) \/ (i = Len(f) + 1 /\ g[i] = kind)
  /\ kind = "event" \/ Len(g) = Len(f) + 1

\* A relay only grows.
LEMMA PublishGrows ==
  ASSUME NEW f \in Seq(Shown), NEW kind \in Shown
  PROVE  Grown(f, Publish(f, kind), kind)
<1>1. (Publish(f, kind) = f /\ kind = "event") \/ Publish(f, kind) = Append(f, kind)
  BY DEF Publish
<1>2. CASE Publish(f, kind) = f /\ kind = "event"
  BY <1>2 DEF Grown
<1>3. CASE Publish(f, kind) = Append(f, kind)
  BY <1>3, AppendProperties DEF Grown
<1>4. QED
  BY <1>1, <1>2, <1>3

\* What a relay has, it keeps.
LEMMA GrownDone ==
  ASSUME NEW f, NEW g, NEW kind, Grown(f, g, kind)
  PROVE  /\ Includes(f, "done") => Includes(g, "done")
         /\ Includes(g, "done") => kind = "done" \/ Includes(f, "done")
         /\ kind = "done" => Includes(g, "done")
         /\ AtMostOnce(f, "done") /\ (kind = "done" => ~Includes(f, "done")) => AtMostOnce(g, "done")
<1>1. Len(f) \in Nat /\ Len(g) \in Nat /\ DOMAIN f = 1..Len(f) /\ DOMAIN g = 1..Len(g)
  BY DEF Grown
<1>1a. /\ Len(f) <= Len(g) /\ \A i \in 1..Len(f) : g[i] = f[i]
       /\ \A i \in DOMAIN g : i <= Len(f) \/ (i = Len(f) + 1 /\ g[i] = kind)
  BY DEF Grown
<1>1b. \A i \in 1..Len(f) : i \in DOMAIN f /\ i \in DOMAIN g
  BY <1>1, <1>1a
<1>1c. \A i \in DOMAIN g : i <= Len(f) => i \in 1..Len(f)
  BY <1>1
<1>2. Includes(f, "done") => Includes(g, "done")
  BY <1>1, <1>1a, <1>1b DEF Includes
<1>3. \A i \in DOMAIN g : g[i] = "done" => (i \in DOMAIN f /\ f[i] = "done") \/ (kind = "done" /\ i = Len(f) + 1)
  BY <1>1a, <1>1b, <1>1c
<1>4. kind = "done" => Includes(g, "done")
  <2> SUFFICES ASSUME kind = "done" PROVE Includes(g, "done")
    OBVIOUS
  <2>1. Len(g) = Len(f) + 1
    BY DEF Grown
  <2>2. Len(g) \in DOMAIN g /\ ~(Len(g) <= Len(f))
    BY <1>1, <2>1
  <2>3. g[Len(g)] = "done"
    BY <2>2 DEF Grown
  <2>4. QED
    BY <2>2, <2>3 DEF Includes
<1>5. QED
  BY <1>2, <1>3, <1>4 DEF Includes, AtMostOnce

\* An analysis goes on.
Later(x, y) ==
  \/ x = y
  \/ x = "reading" /\ y \in {"saving", "closing"}
  \/ x = "saving" /\ y = "closing"
  \/ x = "closing" /\ y = "over"

\* The page is sound of a question while it does not move and the frames it read stay.
LEMMA PageKept ==
  ASSUME NEW n \in Questions, PageSound(n), page \in Pages, UNCHANGED page,
         Later(analysis[n].at, analysis'[n].at), analysis[n].cut => analysis'[n].cut,
         NEW kind, \/ analysis'[n].frames = analysis[n].frames
                   \/ Grown(analysis[n].frames, analysis'[n].frames, kind)
  PROVE  PageSound(n)'
<1>1. ShowsSound(n)'
  BY DEF PageSound, ShowsSound, Later
<1>2. LoadSound(n)'
  BY DEF PageSound, LoadSound, Later
<1>3. TailSound(n)'
  <2>1. CASE analysis'[n].frames = analysis[n].frames
    BY <2>1 DEF PageSound, TailSound, Later, DoneIsRead
  <2>2. CASE Grown(analysis[n].frames, analysis'[n].frames, kind)
    <3> DEFINE f == analysis[n].frames
               g == analysis'[n].frames
    <3>1. Len(f) \in Nat /\ Len(g) \in Nat /\ DOMAIN f = 1..Len(f) /\ DOMAIN g = 1..Len(g) /\ page.read \in Nat
      BY <2>2 DEF Grown, Pages
    <3>2. page.read <= Len(f) => page.read <= Len(g)
      BY <2>2, <3>1 DEF Grown
    <3>3. page.read <= Len(f) =>
            ((\E i \in DOMAIN g : i <= page.read /\ g[i] = "done")
               <=> (\E i \in DOMAIN f : i <= page.read /\ f[i] = "done"))
      <4>1. SUFFICES ASSUME page.read <= Len(f)
                     PROVE  (\E i \in DOMAIN g : i <= page.read /\ g[i] = "done")
                              <=> (\E i \in DOMAIN f : i <= page.read /\ f[i] = "done")
        OBVIOUS
      <4>2. Len(f) <= Len(g) /\ \A i \in 1..Len(f) : g[i] = f[i]
        BY <2>2 DEF Grown
      <4> HIDE DEF f, g
      <4>3. \A i \in Nat : i <= page.read /\ i >= 1 => i \in 1..Len(f) /\ i \in 1..Len(g)
        BY <3>1, <4>1, <4>2
      <4>4. QED
        BY <3>1, <4>2, <4>3
    <3>4. page.read <= Len(f) => (DoneIsRead(n)' <=> DoneIsRead(n))
      BY <3>3 DEF DoneIsRead
    <3>5. QED
      BY <3>2, <3>4 DEF PageSound, TailSound, Later
  <2>3. QED
    BY <2>1, <2>2
<1>4. QED
  BY <1>1, <1>2, <1>3 DEF PageSound

\* What a step does not change of an analysis.
Alike(m) == /\ analysis'[m].at = analysis[m].at /\ analysis'[m].frames = analysis[m].frames
            /\ analysis'[m].cut = analysis[m].cut /\ analysis'[m].displaced = analysis[m].displaced

\* A step that leaves what answers depend on leaves them sound.
LEMMA AlikeKeeps ==
  ASSUME NEW n \in Questions, AnswerSound(n), page \in Pages, Alike(n), UNCHANGED <<history, active, page>>
  PROVE  AnswerSound(n)'
<1>1. StreamSound(n)' /\ HistorySound(n)' /\ RelaySound(n)'
  BY DEF AnswerSound, Alike, StreamSound, HistorySound, RelaySound
<1>2. PageSound(n)'
  BY PageKept DEF AnswerSound, Alike, Later
<1>3. QED
  BY <1>1, <1>2 DEF AnswerSound

\* The steps of the model leave what answers depend on.
LEMMA ToolsLeaveAlike ==
  ASSUME ChatTyped, NEW n \in Questions,
         ModelSays(n) \/ ToolsStart(n) \/ ToolsReturn(n) \/ ModelEnds(n) \/ ModelFails(n)
           \/ \E c \in Calls, name \in Tools : ModelAsks(n, c, name)
  PROVE  (\A m \in Questions : Alike(m)) /\ UNCHANGED <<history, active, page>>
<1>1. \A m \in Questions : analysis[m] \in Analyses
  BY DEF ChatTyped, AnalysesTyped
<1>2. analysis \in [Questions -> Analyses]
  BY DEF ChatTyped, AnalysesTyped
<1>3. CASE ModelSays(n) \/ \E c \in Calls, name \in Tools : ModelAsks(n, c, name)
  <2>1. PICK q : analysis' = [analysis EXCEPT ![n] = [analysis[n] EXCEPT !.queue = q]]
    BY <1>3 DEF ModelSays, ModelAsks, Enqueue
  <2>2. \A m \in Questions : Alike(m)
    BY <1>2, <2>1 DEF Alike, Analyses
  <2>3. QED
    BY <1>3, <2>2 DEF ModelSays, ModelAsks
<1>4. CASE ToolsStart(n)
  <2>1. PICK e : analysis' = [analysis EXCEPT ![n].model = "acting", ![n].blurred = e]
    BY <1>4 DEF ToolsStart
  <2>2. \A m \in Questions : Alike(m)
    BY <1>2, <2>1 DEF Alike, Analyses
  <2>3. QED
    BY <1>4, <2>2 DEF ToolsStart
<1>5. CASE ToolsReturn(n) \/ ModelEnds(n) \/ ModelFails(n)
  <2>1. PICK q, md : analysis' = [analysis EXCEPT ![n] = [[analysis[n] EXCEPT !.queue = q] EXCEPT !.model = md]]
    BY <1>5 DEF ToolsReturn, ModelEnds, ModelFails, Enqueue
  <2>2. \A m \in Questions : Alike(m)
    BY <1>2, <2>1 DEF Alike, Analyses
  <2>3. QED
    BY <1>5, <2>2 DEF ToolsReturn, ModelEnds, ModelFails
<1>6. QED
  BY <1>3, <1>4, <1>5

\* So do the steps of the tools.
LEMMA ResultsLeaveAlike ==
  ASSUME ChatTyped, NEW c \in Calls, ToolAnswers(c) \/ AutoValidates(c) \/ ToolFails(c)
  PROVE  (\A m \in Questions : Alike(m)) /\ UNCHANGED <<history, active, page>>
<1>1. analysis \in [Questions -> Analyses]
  BY DEF ChatTyped, AnalysesTyped
<1>2. UNCHANGED <<history, active, page>>
  BY DEF ToolAnswers, AutoValidates, ToolFails
<1>3. CASE ToolAnswers(c) \/ AutoValidates(c)
  <2>1. PICK n, s : analysis' = [analysis EXCEPT ![n].stash = s]
    BY <1>3 DEF ToolAnswers, AutoValidates, Stash
  <2>2. \A m \in Questions : Alike(m)
    BY <1>1, <2>1 DEF Alike, Analyses
  <2>3. QED
    BY <1>2, <2>2
<1>4. CASE ToolFails(c)
  <2>1. CASE analysis' = analysis
    BY <1>2, <2>1 DEF Alike
  <2>2. CASE analysis' # analysis
    <3>1. PICK n, e : analysis' = [analysis EXCEPT ![n].blurred = e]
      BY <1>4, <2>2 DEF ToolFails
    <3>2. \A m \in Questions : Alike(m)
      BY <1>1, <3>1 DEF Alike, Analyses
    <3>3. QED
      BY <1>2, <3>2
  <2>3. QED
    BY <2>1, <2>2
<1>5. QED
  BY <1>3, <1>4

\* The others go on as they were.
OthersAlike(n) == \A m \in Questions \ {n} : Alike(m)

\* The stream is read: progress, and not the end.
LEMMA ReadKeeps ==
  ASSUME ChatAssumption, ChatTyped, AnswersSound, NEW n \in Questions, StreamRead(n)
  PROVE  AnswersSound'
<1>1. page \in Pages /\ analysis \in [Questions -> Analyses]
  BY DEF ChatTyped, PageTyped, AnalysesTyped
<1>2. UNCHANGED <<history, active, page>>
  BY DEF StreamRead
<1> DEFINE b == YieldResults(analysis[n], CardsThen(n))
<1>3. /\ b.at = analysis[n].at /\ b.cut = analysis[n].cut /\ b.displaced = analysis[n].displaced
      /\ b.frames = Publish(analysis[n].frames, "event") /\ analysis' = [analysis EXCEPT ![n] = b]
  BY ReadIs, YieldIs
<1> HIDE DEF b
<1>4. /\ \A m \in Questions \ {n} : Alike(m)
      /\ analysis'[n] = b
  BY <1>1, <1>3 DEF Alike
<1>5. \A m \in Questions \ {n} : AnswerSound(m)'
  BY <1>1, <1>2, <1>4, AlikeKeeps DEF AnswersSound
<1>6. Grown(analysis[n].frames, analysis'[n].frames, "event")
  BY <1>1, <1>3, <1>4, PublishGrows DEF Analyses, Shown
<1>7. /\ Includes(analysis[n].frames, "done") <=> Includes(analysis'[n].frames, "done")
      /\ AtMostOnce(analysis[n].frames, "done") => AtMostOnce(analysis'[n].frames, "done")
  BY <1>6, GrownDone
<1>8. AnswerSound(n)
  BY DEF AnswersSound
<1>9. analysis'[n].at = "reading" /\ analysis[n].at = "reading"
  BY <1>3, <1>4 DEF StreamRead
<1>10. StreamSound(n)' /\ HistorySound(n)' /\ RelaySound(n)'
  BY <1>2, <1>3, <1>4, <1>7, <1>8, <1>9 DEF AnswerSound, StreamSound, HistorySound, RelaySound
<1>11. PageSound(n)'
  BY <1>1, <1>2, <1>3, <1>4, <1>6, <1>8, PageKept DEF AnswerSound, Later
<1>12. QED
  BY <1>5, <1>10, <1>11 DEF AnswersSound, AnswerSound

\* The stream ends: the one "done" of the question.
LEMMA EndKeeps ==
  ASSUME ChatAssumption, ChatTyped, AnswersSound, NEW n \in Questions, StreamEnds(n)
  PROVE  AnswersSound'
<1>1. page \in Pages /\ analysis \in [Questions -> Analyses]
  BY DEF ChatTyped, PageTyped, AnalysesTyped
<1>2. UNCHANGED <<history, active, page>> /\ analysis[n].at = "reading"
  BY DEF StreamEnds
<1> DEFINE r == Rest(n)
           b == Ended(Rest(n))
<1>3. r \in Analyses /\ analysis' = [analysis EXCEPT ![n] = b]
  BY EndIs
<1>4. /\ b.at = "saving" /\ b.cut = r.cut /\ b.displaced = r.displaced
      /\ b.frames = Publish(r.frames, "done")
  BY <1>3, EndedIs
<1>5. /\ r.displaced = analysis[n].displaced
      /\ analysis[n].cut => r.cut
      /\ \E kind \in {"event", "error"} : r.frames = Publish(analysis[n].frames, kind)
  <2>1. CASE Head(analysis[n].queue)[1] = "end"
    <3>1. r = YieldResults(analysis[n], analysis[n].cards)
      BY <2>1 DEF Rest
    <3>2. QED
      BY <3>1, EndIs, YieldIs
  <2>2. CASE Head(analysis[n].queue)[1] # "end"
    <3>1. r = Cut(analysis[n])
      BY <2>2 DEF Rest
    <3>2. QED
      BY <3>1, EndIs, CutIs
  <2>3. QED
    BY <2>1, <2>2
<1> HIDE DEF b, r
<1>6. /\ \A m \in Questions \ {n} : Alike(m)
      /\ analysis'[n] = b
  BY <1>1, <1>3 DEF Alike
<1>7. \A m \in Questions \ {n} : AnswerSound(m)'
  BY <1>1, <1>2, <1>6, AlikeKeeps DEF AnswersSound
<1> DEFINE f == analysis[n].frames
           g == analysis'[n].frames
<1>8. PICK kind \in {"event", "error"} : Grown(f, r.frames, kind)
  BY <1>1, <1>5, PublishGrows DEF Analyses, Shown
<1>9. Grown(r.frames, g, "done")
  BY <1>3, <1>4, <1>6, PublishGrows DEF Analyses, Shown
<1>10. AnswerSound(n)
  BY DEF AnswersSound
<1>11. AtMostOnce(f, "done") /\ ~Includes(f, "done")
  BY <1>2, <1>10 DEF AnswerSound, StreamSound
<1> HIDE DEF f, g
<1>12. AtMostOnce(r.frames, "done") /\ ~Includes(r.frames, "done")
  BY <1>8, <1>11, GrownDone
<1>13. AtMostOnce(g, "done") /\ Includes(g, "done")
  BY <1>9, <1>12, GrownDone
<1>14. StreamSound(n)' /\ HistorySound(n)' /\ RelaySound(n)'
  BY <1>2, <1>4, <1>5, <1>6, <1>10, <1>13 DEF AnswerSound, StreamSound, HistorySound, RelaySound, g
<1>15. Seq(Shown) # {} /\ Len(f) <= Len(g) /\ f \in Seq(Shown) /\ g \in Seq(Shown)
  <2>1. Len(f) \in Nat /\ Len(r.frames) \in Nat /\ Len(g) \in Nat
    BY <1>8, <1>9 DEF Grown
  <2>2. QED
    BY <2>1, <1>8, <1>9 DEF Grown
<1>16. PageSound(n)'
  <2>1. ShowsSound(n)' /\ LoadSound(n)'
    BY <1>2, <1>4, <1>5, <1>6, <1>10 DEF AnswerSound, PageSound, ShowsSound, LoadSound
  <2>2. TailSound(n)'
    <3>1. ASSUME page.on = n, page.at = "tailing", page.read <= Len(f)
          PROVE  ~DoneIsRead(n)' /\ page.read <= Len(g)
      <4>1. Len(f) \in Nat /\ Len(r.frames) \in Nat /\ Len(g) \in Nat /\ page.read \in Nat
        BY <1>1, <1>8, <1>9 DEF Grown, Pages
      <4>2. ASSUME NEW i \in DOMAIN g, i <= page.read, g[i] = "done" PROVE FALSE
        <5>1. i \in 1..Len(g) /\ DOMAIN g = 1..Len(g) /\ i \in 1..Len(f)
          BY <1>9, <3>1, <4>1, <4>2 DEF Grown
        <5>2. i \in 1..Len(r.frames) /\ DOMAIN r.frames = 1..Len(r.frames)
          BY <1>8, <4>1, <5>1 DEF Grown
        <5>3. r.frames[i] = "done"
          BY <1>9, <4>2, <5>2 DEF Grown
        <5>4. QED
          BY <1>12, <5>2, <5>3 DEF Includes
      <4>3. page.read <= Len(g)
        BY <1>15, <3>1, <4>1
      <4>4. QED
        BY <1>2, <4>2, <4>3 DEF DoneIsRead, g
    <3>2. ~DoneIsRead(n)
      BY <1>11 DEF DoneIsRead, Includes, f
    <3>3. QED
      BY <1>2, <1>4, <1>6, <1>10, <3>1, <3>2 DEF AnswerSound, PageSound, TailSound, f, g
  <2>3. QED
    BY <2>1, <2>2 DEF PageSound
<1>17. QED
  BY <1>7, <1>14, <1>16 DEF AnswersSound, AnswerSound

\* A failed producer cuts the answer.
LEMMA FailKeeps ==
  ASSUME ChatAssumption, ChatTyped, AnswersSound, NEW n \in Questions, ProducerFails(n)
  PROVE  AnswersSound'
<1>1. page \in Pages /\ analysis \in [Questions -> Analyses] /\ AnalysesTyped
  BY DEF ChatTyped, PageTyped, AnalysesTyped
<1>2. UNCHANGED <<history, active, page>> /\ analysis[n].at \in {"reading", "saving"}
  BY DEF ProducerFails
<1> DEFINE b == Broken(n)
<1>3. /\ b.at = "closing" /\ b.cut = TRUE /\ b.frames = Publish(analysis[n].frames, "error")
      /\ analysis' = [analysis EXCEPT ![n] = b]
  BY <1>1, BrokenIs DEF ProducerFails, Broken
<1> HIDE DEF b
<1>4. /\ \A m \in Questions \ {n} : Alike(m)
      /\ analysis'[n] = b
  BY <1>1, <1>3 DEF Alike
<1>5. \A m \in Questions \ {n} : AnswerSound(m)'
  BY <1>1, <1>2, <1>4, AlikeKeeps DEF AnswersSound
<1>6. Grown(analysis[n].frames, analysis'[n].frames, "error")
  BY <1>1, <1>3, <1>4, PublishGrows DEF Analyses, Shown
<1>7. /\ Includes(analysis[n].frames, "done") <=> Includes(analysis'[n].frames, "done")
      /\ AtMostOnce(analysis[n].frames, "done") => AtMostOnce(analysis'[n].frames, "done")
  BY <1>6, GrownDone
<1>8. AnswerSound(n)
  BY DEF AnswersSound
<1>10. StreamSound(n)' /\ HistorySound(n)' /\ RelaySound(n)'
  BY <1>2, <1>3, <1>4, <1>7, <1>8 DEF AnswerSound, StreamSound, HistorySound, RelaySound
<1>11. PageSound(n)'
  BY <1>1, <1>2, <1>3, <1>4, <1>6, <1>8, PageKept DEF AnswerSound, Later
<1>12. QED
  BY <1>5, <1>10, <1>11 DEF AnswersSound, AnswerSound

\* What an appended sequence has.
LEMMA AppendIncludes ==
  ASSUME NEW S, NEW s \in Seq(S), NEW x \in S, NEW y
  PROVE  /\ Includes(Append(s, x), y) <=> Includes(s, y) \/ x = y
         /\ AtMostOnce(s, y) /\ (x = y => ~Includes(s, y)) => AtMostOnce(Append(s, x), y)
<1>1. /\ Len(s) \in Nat /\ DOMAIN s = 1..Len(s) /\ DOMAIN Append(s, x) = 1..(Len(s) + 1)
      /\ \A i \in 1..Len(s) : Append(s, x)[i] = s[i]
      /\ Append(s, x)[Len(s) + 1] = x
  BY AppendProperties
<1>2. Len(s) + 1 \in 1..(Len(s) + 1) /\ \A i \in 1..(Len(s) + 1) : i \in 1..Len(s) \/ i = Len(s) + 1
  BY <1>1
<1>3. \A i \in 1..Len(s) : i \in 1..(Len(s) + 1)
  BY <1>1
<1>4. QED
  BY <1>1, <1>2, <1>3 DEF Includes, AtMostOnce

\* Questions are not answers, and answers are of one question.
LEMMA SaidApart ==
  ASSUME NEW n \in Questions, NEW m \in Questions
  PROVE  /\ Asked(n) # Answered(m) /\ (Answered(n) = Answered(m) => n = m)
         /\ (Asked(n) = Asked(m) => n = m)
BY DEF Asked, Answered

\* The one answer of the question in the history.
LEMMA SaveKeeps ==
  ASSUME ChatAssumption, ChatTyped, AnswersSound, NEW n \in Questions, SaveAnswer(n)
  PROVE  AnswersSound'
<1>1. page \in Pages /\ analysis \in [Questions -> Analyses] /\ history \in Seq(Said)
  BY DEF ChatTyped, PageTyped, AnalysesTyped
<1>2. UNCHANGED <<active, page>> /\ analysis[n].at = "saving" /\ history' = Append(history, Answered(n))
  BY DEF SaveAnswer
<1>3. /\ \A m \in Questions \ {n} : Alike(m)
      /\ analysis'[n].at = "closing" /\ analysis'[n].cut = analysis[n].cut
      /\ analysis'[n].frames = analysis[n].frames /\ analysis'[n].displaced = analysis[n].displaced
  BY <1>1 DEF SaveAnswer, Alike, Analyses
<1>4. ASSUME NEW m \in Questions PROVE AnswerSound(m)'
  <2>1. AnswerSound(m)
    BY DEF AnswersSound
  <2>2. /\ Includes(history', Answered(m)) <=> Includes(history, Answered(m)) \/ n = m
        /\ Includes(history', Asked(m)) <=> Includes(history, Asked(m))
        /\ AtMostOnce(history, Answered(m)) /\ (n = m => ~Includes(history, Answered(m)))
             => AtMostOnce(history', Answered(m))
    BY <1>1, <1>2, SaidIs, SaidApart, AppendIncludes
  <2>3. Later(analysis[m].at, analysis'[m].at) /\ analysis'[m].frames = analysis[m].frames
        /\ analysis'[m].cut = analysis[m].cut /\ analysis'[m].displaced = analysis[m].displaced
        /\ (m # n => analysis'[m].at = analysis[m].at)
    BY <1>2, <1>3 DEF Later, Alike
  <2>4. StreamSound(m)' /\ RelaySound(m)'
    BY <1>2, <1>3, <2>1, <2>3 DEF AnswerSound, StreamSound, RelaySound
  <2>5. HistorySound(m)'
    BY <1>2, <1>3, <2>1, <2>2, <2>3 DEF AnswerSound, HistorySound
  <2>6. PageSound(m)'
    BY <1>1, <1>2, <2>1, <2>3, PageKept DEF AnswerSound
  <2>7. QED
    BY <2>4, <2>5, <2>6 DEF AnswerSound
<1>5. QED
  BY <1>4 DEF AnswersSound

\* The relay goes with the analysis that has it.
LEMMA FinishKeeps ==
  ASSUME ChatAssumption, ChatTyped, AnswersSound, NEW n \in Questions, Finish(n)
  PROVE  AnswersSound'
<1>1. page \in Pages /\ analysis \in [Questions -> Analyses]
  BY DEF ChatTyped, PageTyped, AnalysesTyped
<1>2. UNCHANGED <<history, page>> /\ analysis[n].at = "closing" /\ active' = IF active = n THEN 0 ELSE active
  BY DEF Finish
<1>3. /\ \A m \in Questions \ {n} : Alike(m)
      /\ analysis'[n].at = "over" /\ analysis'[n].cut = analysis[n].cut
      /\ analysis'[n].frames = analysis[n].frames /\ analysis'[n].displaced = analysis[n].displaced
  BY <1>1 DEF Finish, Alike, Analyses
<1>4. ASSUME NEW m \in Questions PROVE AnswerSound(m)'
  <2>1. AnswerSound(m) /\ m # 0
    BY DEF AnswersSound, Questions
  <2>3. Later(analysis[m].at, analysis'[m].at) /\ analysis'[m].frames = analysis[m].frames
        /\ analysis'[m].cut = analysis[m].cut /\ analysis'[m].displaced = analysis[m].displaced
        /\ (m # n => analysis'[m].at = analysis[m].at)
    BY <1>2, <1>3 DEF Later, Alike
  <2>4. StreamSound(m)' /\ HistorySound(m)'
    BY <1>2, <1>3, <2>1, <2>3 DEF AnswerSound, StreamSound, HistorySound
  <2>5. RelaySound(m)'
    BY <1>2, <1>3, <2>1, <2>3 DEF AnswerSound, RelaySound
  <2>6. PageSound(m)'
    BY <1>1, <1>2, <2>1, <2>3, PageKept DEF AnswerSound
  <2>7. QED
    BY <2>4, <2>5, <2>6 DEF AnswerSound
<1>5. QED
  BY <1>4 DEF AnswersSound

\* The page asks.
LEMMA AskKeeps ==
  ASSUME ChatAssumption, ChatTyped, AnswersSound, NEW n \in Questions, Ask(n)
  PROVE  AnswersSound'
<1>1. /\ page \in Pages /\ analysis \in [Questions -> Analyses] /\ history \in Seq(Said)
      /\ page.shows \in Seq(Said)
  BY DEF ChatTyped, PageTyped, AnalysesTyped, Pages
<1>2. /\ UNCHANGED active /\ analysis[n].at = "none" /\ history' = Append(history, Asked(n))
      /\ page.at = "ready"
      /\ page' = [page EXCEPT !.at = "sending", !.shows = Append(@, Asked(n)), !.on = n, !.read = 0]
  BY DEF Ask
<1>3. /\ \A m \in Questions \ {n} : Alike(m)
      /\ analysis'[n].at = "posting" /\ analysis'[n].cut = analysis[n].cut
      /\ analysis'[n].frames = analysis[n].frames /\ analysis'[n].displaced = analysis[n].displaced
  BY <1>1 DEF Ask, Alike, Analyses
<1>4. /\ page'.at = "sending" /\ page'.shows = Append(page.shows, Asked(n)) /\ page'.on = n
      /\ page'.stopped = page.stopped /\ page'.missed = page.missed /\ page'.twice = page.twice
  BY <1>1, <1>2 DEF Pages
<1>5. ASSUME NEW m \in Questions PROVE AnswerSound(m)'
  <2>1. AnswerSound(m)
    BY DEF AnswersSound
  <2>2. /\ Includes(history', Answered(m)) <=> Includes(history, Answered(m))
        /\ Includes(history', Asked(m)) <=> Includes(history, Asked(m)) \/ n = m
        /\ AtMostOnce(history, Answered(m)) => AtMostOnce(history', Answered(m))
    BY <1>1, <1>2, SaidIs, SaidApart, AppendIncludes
  <2>3. /\ Includes(page'.shows, Answered(m)) <=> Includes(page.shows, Answered(m))
        /\ Includes(page'.shows, Asked(m)) <=> Includes(page.shows, Asked(m)) \/ n = m
        /\ AtMostOnce(page.shows, Answered(m)) => AtMostOnce(page'.shows, Answered(m))
    BY <1>1, <1>4, SaidIs, SaidApart, AppendIncludes
  <2>4. /\ analysis'[m].frames = analysis[m].frames
        /\ analysis'[m].cut = analysis[m].cut /\ analysis'[m].displaced = analysis[m].displaced
        /\ (m # n => analysis'[m].at = analysis[m].at) /\ (m = n => analysis'[m].at = "posting")
    BY <1>3 DEF Alike
  <2>5. StreamSound(m)' /\ RelaySound(m)'
    BY <1>2, <2>1, <2>4 DEF AnswerSound, StreamSound, RelaySound
  <2>6. HistorySound(m)'
    BY <1>2, <2>1, <2>2, <2>4 DEF AnswerSound, HistorySound
  <2>7. ShowsSound(m)'
    BY <1>2, <1>4, <2>1, <2>3, <2>4 DEF AnswerSound, PageSound, ShowsSound
  <2>8. TailSound(m)' /\ LoadSound(m)'
    BY <1>2, <1>4, <2>4 DEF TailSound, LoadSound
  <2>9. QED
    BY <2>5, <2>6, <2>7, <2>8 DEF AnswerSound, PageSound
<1>6. QED
  BY <1>5 DEF AnswersSound

\* A new relay displaces the one of the session.
LEMMA RegisterKeeps ==
  ASSUME ChatAssumption, ChatTyped, AnswersSound, NEW n \in Questions, Register(n)
  PROVE  AnswersSound'
<1>1. page \in Pages /\ analysis \in [Questions -> Analyses]
  BY DEF ChatTyped, PageTyped, AnalysesTyped
<1>2. /\ UNCHANGED history /\ analysis[n].at = "posting" /\ active' = n
      /\ page' = IF page.at = "sending" /\ page.on = n THEN [page EXCEPT !.at = "tailing"] ELSE page
  BY DEF Register
<1>3. \A m \in Questions :
        /\ analysis'[m].at = IF m = n THEN "reading" ELSE analysis[m].at
        /\ analysis'[m].cut = analysis[m].cut /\ analysis'[m].frames = analysis[m].frames
        /\ m # n => analysis'[m].displaced = (analysis[m].displaced \/ m = active)
  BY <1>1 DEF Register, Analyses
<1>4. /\ page'.shows = page.shows /\ page'.on = page.on /\ page'.read = page.read
      /\ page'.stopped = page.stopped /\ page'.missed = page.missed /\ page'.twice = page.twice
      /\ page'.saved = page.saved /\ page'.running = page.running
      /\ page'.at = IF page.at = "sending" /\ page.on = n THEN "tailing" ELSE page.at
      /\ page.read \in Nat
  BY <1>1, <1>2 DEF Pages
<1>5. ASSUME NEW m \in Questions PROVE AnswerSound(m)'
  <2>1. AnswerSound(m)
    BY DEF AnswersSound
  <2>2. StreamSound(m)' /\ HistorySound(m)'
    BY <1>2, <1>3, <2>1 DEF AnswerSound, StreamSound, HistorySound
  <2>3. RelaySound(m)'
    BY <1>2, <1>3, <2>1 DEF AnswerSound, RelaySound
  <2>4. ShowsSound(m)'
    BY <1>2, <1>3, <1>4, <2>1 DEF AnswerSound, PageSound, ShowsSound
  <2>5. LoadSound(m)'
    BY <1>2, <1>3, <1>4, <2>1 DEF AnswerSound, PageSound, LoadSound
  <2>6. TailSound(m)'
    <3>1. DoneIsRead(m)' <=> DoneIsRead(m)
      BY <1>3, <1>4 DEF DoneIsRead
    <3>2. CASE m = n
      <4>1. analysis[m].frames = <<>> /\ ~Includes(page.shows, Answered(m))
        BY <1>2, <2>1, <3>2 DEF AnswerSound, StreamSound, PageSound, ShowsSound
      <4>2. ~DoneIsRead(m)
        BY <4>1 DEF DoneIsRead
      <4>3. page.at = "tailing" => page.on # n
        BY <1>2, <2>1, <3>2 DEF AnswerSound, PageSound, TailSound
      <4>5. page.at = "sending" /\ page.on = n => page.read = 0
        BY <1>2, <2>1, <3>2 DEF AnswerSound, PageSound, TailSound
      <4>6. Len(analysis'[m].frames) = 0 /\ analysis'[m].at = "reading"
        BY <1>3, <3>2, <4>1
      <4>4. QED
        BY <1>2, <1>3, <1>4, <3>1, <3>2, <4>1, <4>2, <4>3, <4>5, <4>6 DEF TailSound
    <3>3. CASE m # n
      BY <1>2, <1>3, <1>4, <2>1, <3>1, <3>3 DEF AnswerSound, PageSound, TailSound
    <3>4. QED
      BY <3>2, <3>3
  <2>9. QED
    BY <2>2, <2>3, <2>4, <2>5, <2>6 DEF AnswerSound, PageSound
<1>6. QED
  BY <1>5 DEF AnswersSound

\* The page reads on: with "done", the answer.
LEMMA ReceiveKeeps ==
  ASSUME ChatAssumption, ChatTyped, AnswersSound, Receive
  PROVE  AnswersSound'
<1> DEFINE n == page.on
           f == analysis[n].frames
           fresh == SubSeq(f, page.read + 1, Len(f))
<1>1. /\ page \in Pages /\ page.at = "tailing" /\ n \in Questions /\ page.shows \in Seq(Said)
      /\ page.read \in Nat
  BY DEF Receive, ChatTyped, PageTyped, Pages
<1>2. f \in Seq(Shown)
  BY <1>1 DEF ChatTyped, AnalysesTyped, Analyses
<1>3. Len(f) \in Nat /\ DOMAIN f = 1..Len(f)
  BY <1>2
<1>4. AnswerSound(n) /\ page.read <= Len(f)
  BY <1>1 DEF AnswersSound, AnswerSound, PageSound, TailSound
<1>5. UNCHANGED <<history, active, analysis>>
  BY DEF Receive
<1>6. "done" \in ToSet(fresh) <=> \E i \in DOMAIN f : page.read < i /\ f[i] = "done"
  <2> DEFINE k == page.read
  <2>1. k \in Nat /\ k <= Len(f)
    BY <1>1, <1>4
  <2>2. fresh = SubSeq(f, k + 1, Len(f))
    OBVIOUS
  <2> HIDE DEF fresh, f
  <2>3. DOMAIN fresh = 1..(Len(f) - k) /\ \A i \in 1..(Len(f) - k) : fresh[i] = f[k + i]
    <3> HIDE DEF k
    <3>1. QED
      BY <1>2, <2>1, <2>2, SuffixIs
  <2> HIDE DEF k
  <2>5. \A i \in DOMAIN fresh : k + i \in DOMAIN f /\ k < k + i
    BY <1>3, <2>1, <2>3
  <2>6. \A i \in DOMAIN f : k < i => i - k \in DOMAIN fresh /\ k + (i - k) = i
    BY <1>3, <2>1, <2>3
  <2>7. ASSUME "done" \in ToSet(fresh) PROVE \E i \in DOMAIN f : k < i /\ f[i] = "done"
    <3>1. PICK i \in DOMAIN fresh : fresh[i] = "done"
      BY <2>7 DEF ToSet
    <3>2. QED
      BY <2>3, <2>5, <3>1
  <2>8. ASSUME NEW i \in DOMAIN f, k < i, f[i] = "done" PROVE "done" \in ToSet(fresh)
    <3>1. fresh[i - k] = "done" /\ i - k \in DOMAIN fresh
      BY <2>3, <2>6, <2>8
    <3>2. QED
      BY <3>1 DEF ToSet
  <2>9. QED
    BY <2>7, <2>8 DEF k
<1> HIDE DEF fresh
<1> DEFINE got == "done" \in ToSet(fresh)
<1>7. page' = [page EXCEPT !.read = Len(f), !.shows = IF got THEN Append(page.shows, Answered(n)) ELSE page.shows]
  BY DEF Receive, fresh
<1>8. /\ page'.at = "tailing" /\ page'.on = n /\ page'.read = Len(f)
      /\ page'.shows = IF got THEN Append(page.shows, Answered(n)) ELSE page.shows
      /\ page'.stopped = page.stopped /\ page'.missed = page.missed /\ page'.twice = page.twice
  BY <1>1, <1>7 DEF Pages
<1>9. \A m \in Questions :
        /\ Includes(page'.shows, Answered(m)) <=> Includes(page.shows, Answered(m)) \/ (got /\ m = n)
        /\ Includes(page'.shows, Asked(m)) <=> Includes(page.shows, Asked(m))
        /\ AtMostOnce(page.shows, Answered(m)) /\ (got /\ m = n => ~Includes(page.shows, Answered(m)))
             => AtMostOnce(page'.shows, Answered(m))
  BY <1>1, <1>8, SaidIs, SaidApart, AppendIncludes
<1>10. got => ~DoneIsRead(n) /\ analysis[n].at \in {"saving", "closing", "over"}
  <2>1. AtMostOnce(f, "done") /\ (Includes(f, "done") => analysis[n].at \in {"saving", "closing", "over"})
    BY <1>4 DEF AnswerSound, StreamSound
  <2>2. QED
    BY <1>1, <1>3, <1>6, <2>1 DEF DoneIsRead, AtMostOnce, Includes
<1>11. DoneIsRead(n)' <=> got \/ DoneIsRead(n)
  <2>1. DoneIsRead(n)' <=> \E i \in DOMAIN f : i <= Len(f) /\ f[i] = "done"
    BY <1>5, <1>8 DEF DoneIsRead
  <2>2. DoneIsRead(n) <=> \E i \in DOMAIN f : i <= page.read /\ f[i] = "done"
    BY DEF DoneIsRead
  <2>3. \A i \in DOMAIN f : i <= Len(f) /\ (page.read < i \/ i <= page.read)
    BY <1>1, <1>3
  <2>4. QED
    BY <1>6, <2>1, <2>2, <2>3
<1> HIDE DEF got
<1>12. ASSUME NEW m \in Questions PROVE AnswerSound(m)'
  <2>1. AnswerSound(m)
    BY DEF AnswersSound
  <2>2. StreamSound(m)' /\ HistorySound(m)' /\ RelaySound(m)'
    BY <1>5, <2>1 DEF AnswerSound, StreamSound, HistorySound, RelaySound
  <2>3. ShowsSound(m)'
    <3>1. got /\ m = n => (Includes(page.shows, Answered(m)) => m \in page.twice)
      BY <1>1, <1>4, <1>10 DEF AnswerSound, PageSound, TailSound
    <3>2. QED
      BY <1>1, <1>5, <1>8, <1>9, <1>10, <2>1, <3>1 DEF AnswerSound, PageSound, ShowsSound
  <2>4. TailSound(m)'
    <3>1. CASE m = n
      <4>1. analysis[n].at \in {"reading", "saving", "closing", "over"} /\ Len(f) <= Len(f)
        BY <1>1, <1>3, <1>4 DEF AnswerSound, PageSound, TailSound
      <4>2. /\ DoneIsRead(n) => Includes(page.shows, Answered(n))
            /\ Includes(page.shows, Answered(n)) => DoneIsRead(n) \/ n \in page.twice
        BY <1>1, <1>4 DEF AnswerSound, PageSound, TailSound
      <4>3. /\ DoneIsRead(n)' => Includes(page'.shows, Answered(n))
            /\ Includes(page'.shows, Answered(n)) => DoneIsRead(n)' \/ n \in page'.twice
        BY <1>1, <1>8, <1>9, <1>11, <4>2
      <4>4. QED
        BY <1>5, <1>8, <3>1, <4>1, <4>3 DEF TailSound
    <3>2. CASE m # n
      BY <1>8, <3>2 DEF TailSound
    <3>3. QED
      BY <3>1, <3>2
  <2>5. LoadSound(m)'
    BY <1>8 DEF LoadSound
  <2>6. QED
    BY <2>2, <2>3, <2>4, <2>5 DEF AnswerSound, PageSound
<1>13. QED
  BY <1>12 DEF AnswersSound

\* The steps of the page that change nothing else.
LEMMA RestOfPage ==
  ASSUME AnswersSound, UNCHANGED <<history, active, analysis>>,
         \A m \in Questions : PageSound(m)'
  PROVE  AnswersSound'
BY DEF AnswersSound, AnswerSound, StreamSound, HistorySound, RelaySound

\* The page comes to rest: the answer is there, was cut, or was stopped.
LEMMA ClosesKeeps ==
  ASSUME ChatAssumption, ChatTyped, AnswersSound, StreamCloses \/ Stop
  PROVE  AnswersSound'
<1>1. page \in Pages /\ page.on \in Questions
  BY DEF ChatTyped, PageTyped, StreamCloses, Stop
<1>2. UNCHANGED <<history, active, analysis>>
  BY DEF StreamCloses, Stop
<1>3. /\ page'.at = "ready" /\ page'.shows = page.shows /\ page'.missed = page.missed
      /\ page'.twice = page.twice /\ page.stopped \subseteq page'.stopped
      /\ StreamCloses \/ page.on \in page'.stopped
  <2>1. CASE StreamCloses
    BY <1>1, <2>1 DEF StreamCloses, Pages
  <2>2. CASE Stop
    BY <1>1, <2>2 DEF Stop, Pages
  <2>3. QED
    BY <2>1, <2>2
<1>4. ASSUME NEW m \in Questions PROVE PageSound(m)'
  <2>1. AnswerSound(m)
    BY DEF AnswersSound
  <2>2. TailSound(m)' /\ LoadSound(m)'
    BY <1>3 DEF TailSound, LoadSound
  <2>3. ShowsSound(m)'
    <3>1. CASE page.on = m /\ StreamCloses
      <4>1. analysis[m].at = "over" /\ page.read = Len(analysis[m].frames) /\ page.at = "tailing"
        BY <3>1 DEF StreamCloses
      <4>2. Includes(analysis[m].frames, "done") \/ analysis[m].cut
        BY <2>1, <4>1 DEF AnswerSound, StreamSound
      <4>3. Includes(analysis[m].frames, "done") => DoneIsRead(m)
        <5>1. analysis[m].frames \in Seq(Shown)
          BY DEF ChatTyped, AnalysesTyped, Analyses
        <5>2. \A i \in DOMAIN analysis[m].frames : i <= Len(analysis[m].frames)
          BY <5>1
        <5>3. QED
          BY <4>1, <5>2 DEF Includes, DoneIsRead
      <4>4. Includes(page.shows, Answered(m)) \/ analysis[m].cut
        BY <2>1, <3>1, <4>1, <4>2, <4>3 DEF AnswerSound, PageSound, TailSound
      <4>5. QED
        BY <1>2, <1>3, <2>1, <4>4 DEF AnswerSound, PageSound, ShowsSound
    <3>2. CASE page.on = m /\ ~StreamCloses
      BY <1>2, <1>3, <2>1, <3>2 DEF AnswerSound, PageSound, ShowsSound
    <3>3. CASE page.on # m
      <4>1. page.at # "loaded"
        BY DEF StreamCloses, Stop
      <4>2. QED
        BY <1>2, <1>3, <2>1, <3>3, <4>1 DEF AnswerSound, PageSound, ShowsSound
    <3>4. QED
      BY <3>1, <3>2, <3>3
  <2>4. QED
    BY <2>2, <2>3 DEF PageSound
<1>5. QED
  BY <1>2, <1>4, RestOfPage

\* The page goes, and shows nothing.
LEMMA LeaveKeeps ==
  ASSUME ChatAssumption, ChatTyped, AnswersSound, Leave
  PROVE  AnswersSound'
<1>1. page'.at = "away" /\ page'.shows = <<>> /\ UNCHANGED <<history, active, analysis>>
  BY DEF Leave, NoPage
<1>2. ASSUME NEW m \in Questions PROVE PageSound(m)'
  BY <1>1 DEF PageSound, ShowsSound, TailSound, LoadSound, Includes, AtMostOnce
<1>3. QED
  BY <1>1, <1>2, RestOfPage

\* The page comes back with the history.
LEMMA LoadKeeps ==
  ASSUME ChatAssumption, ChatTyped, AnswersSound, LoadHistory
  PROVE  AnswersSound'
<1>1. UNCHANGED <<history, active, analysis>>
  BY DEF LoadHistory
<1>2. /\ page'.at = "loaded" /\ page'.shows = history /\ page'.read = 0 /\ page'.missed = {} /\ page'.twice = {}
      /\ page'.running = {n \in Questions : Live(n)}
      /\ page'.saved = {n \in Questions : Answered(n) \in ToSet(history)}
  BY DEF LoadHistory, NoPage
<1>3. ASSUME NEW m \in Questions PROVE PageSound(m)'
  <2>1. AnswerSound(m) /\ analysis[m] \in Analyses
    BY DEF AnswersSound, ChatTyped, AnalysesTyped
  <2>2. m \in page'.saved <=> Includes(history, Answered(m))
    BY <1>2 DEF ToSet, Includes
  <2>3. analysis[m].at \in Stages
    BY <2>1 DEF Analyses
  <2>4. ShowsSound(m)'
    BY <1>1, <1>2, <2>1, <2>2, <2>3 DEF AnswerSound, StreamSound, HistorySound, ShowsSound, Live, Stages
  <2>5. TailSound(m)' /\ LoadSound(m)'
    BY <1>1, <1>2, <2>1, <2>2, <2>3 DEF AnswerSound, HistorySound, TailSound, LoadSound, Live, Stages
  <2>6. QED
    BY <2>4, <2>5 DEF PageSound
<1>4. QED
  BY <1>1, <1>3, RestOfPage

\* The page follows the relay there is; what it cannot follow is missed.
LEMMA ReattachKeeps ==
  ASSUME ChatAssumption, ChatTyped, AnswersSound, Reattach
  PROVE  AnswersSound'
<1>1. page \in Pages /\ page.at = "loaded" /\ UNCHANGED <<history, active, analysis>>
  BY DEF Reattach, ChatTyped, PageTyped
<1>2. /\ page'.at = (IF active = 0 THEN "ready" ELSE "tailing") /\ page'.on = active
      /\ page'.shows = page.shows /\ page'.stopped = page.stopped /\ page'.read = page.read
      /\ page'.missed = {n \in page.running \ (page.saved \cup {active}) :
                            active # 0 \/ ~Live(n) \/ ~Started(n) \/ analysis[n].displaced}
      /\ page'.twice = page.saved \cap page.running \cap {active}
  BY <1>1 DEF Reattach, Pages
<1>3. ASSUME NEW m \in Questions PROVE PageSound(m)'
  <2>1. AnswerSound(m) /\ m # 0
    BY DEF AnswersSound, Questions
  <2>2. /\ page.read = 0 /\ page.missed = {} /\ page.twice = {}
        /\ m \in page.saved <=> Includes(page.shows, Answered(m))
        /\ m \in page.saved => analysis[m].at \in {"closing", "over", "crashed"}
        /\ m \in page.saved \ page.running => analysis[m].at \in {"over", "crashed"}
    BY <1>1, <2>1 DEF AnswerSound, PageSound, LoadSound
  <2>3. /\ active = m => analysis[m].at \in {"reading", "saving", "closing"}
        /\ analysis[m].at \in {"reading", "saving", "closing"} =>
             analysis[m].displaced \/ analysis[m].cut \/ active = m
    BY <2>1 DEF AnswerSound, RelaySound
  <2>4. LoadSound(m)'
    BY <1>2 DEF LoadSound
  <2>5. TailSound(m)'
    <3>1. ~DoneIsRead(m)'
      <4>1. analysis[m].frames \in Seq(Shown)
        BY DEF ChatTyped, AnalysesTyped, Analyses
      <4>2. \A i \in DOMAIN analysis[m].frames : ~(i <= 0)
        BY <4>1
      <4>3. QED
        BY <1>1, <1>2, <2>2, <4>2 DEF DoneIsRead
    <3>2. 0 <= Len(analysis[m].frames)
      BY DEF ChatTyped, AnalysesTyped, Analyses
    <3>3. active = m /\ m \in page.saved => m \in page'.twice
      BY <1>2, <2>2, <2>3
    <3>4. QED
      BY <1>1, <1>2, <2>2, <2>3, <3>1, <3>2, <3>3 DEF TailSound
  <2>6. ShowsSound(m)'
    <3>1. CASE Includes(page.shows, Asked(m)) /\ ~Includes(page.shows, Answered(m))
      <4>1. analysis[m].cut \/ m \in page.stopped \/ m \in page.running \ page.saved
        BY <1>1, <2>1, <2>2, <3>1 DEF AnswerSound, PageSound, ShowsSound
      <4>2. m \in page.running \ page.saved =>
              active = m \/ m \in page'.missed \/ analysis[m].cut
        BY <1>2, <2>1, <2>3 DEF Live, Started
      <4>3. QED
        BY <1>1, <1>2, <2>1, <2>2, <4>1, <4>2 DEF AnswerSound, PageSound, ShowsSound
    <3>2. CASE ~(Includes(page.shows, Asked(m)) /\ ~Includes(page.shows, Answered(m)))
      BY <1>1, <1>2, <2>1, <2>2, <3>2 DEF AnswerSound, PageSound, ShowsSound
    <3>3. QED
      BY <3>1, <3>2
  <2>7. QED
    BY <2>4, <2>5, <2>6 DEF PageSound
<1>4. QED
  BY <1>1, <1>3, RestOfPage

\* The pod goes: what ran is cut.
LEMMA PodCrashKeeps ==
  ASSUME ChatAssumption, ChatTyped, AnswersSound, PodCrash
  PROVE  AnswersSound'
<1>1. page \in Pages /\ analysis \in [Questions -> Analyses] /\ UNCHANGED history /\ active' = 0
  BY DEF PodCrash, ChatTyped, PageTyped, AnalysesTyped
<1>2. \A m \in Questions :
        /\ ~Live(m) => analysis'[m] = analysis[m]
        /\ Live(m) => /\ analysis'[m].at = "crashed" /\ analysis'[m].cut /\ analysis'[m].frames = <<>>
  BY <1>1 DEF PodCrash, NoAnalysis
<1>3. /\ page'.shows = page.shows /\ page'.missed = page.missed /\ page'.twice = page.twice
      /\ page'.saved = page.saved /\ page'.running = page.running
      /\ page'.at \notin {"sending", "tailing"} /\ (page'.at = "loaded" <=> page.at = "loaded")
      /\ page.at = "loaded" => page'.read = page.read
      /\ page.stopped \subseteq page'.stopped
      /\ page.at \in {"sending", "tailing"} => page.on \in page'.stopped
  BY <1>1 DEF PodCrash, Pages
<1>4. ASSUME NEW m \in Questions PROVE AnswerSound(m)'
  <2>1. AnswerSound(m) /\ m # 0 /\ analysis[m].at \in Stages
    BY DEF AnswersSound, Questions, ChatTyped, AnalysesTyped, Analyses
  <2>2. StreamSound(m)'
    BY <1>2, <2>1 DEF AnswerSound, StreamSound, Includes, AtMostOnce
  <2>3. HistorySound(m)' /\ RelaySound(m)'
    BY <1>1, <1>2, <2>1 DEF AnswerSound, HistorySound, RelaySound, Live
  <2>4. ShowsSound(m)'
    BY <1>2, <1>3, <2>1 DEF AnswerSound, PageSound, ShowsSound, Live
  <2>5. TailSound(m)' /\ LoadSound(m)'
    BY <1>2, <1>3, <2>1 DEF AnswerSound, PageSound, TailSound, LoadSound, Live
  <2>6. QED
    BY <2>2, <2>3, <2>4, <2>5 DEF AnswerSound, PageSound
<1>5. QED
  BY <1>4 DEF AnswersSound

\* The session starts sound.
LEMMA AnswersSoundInit ==
  ASSUME ChatAssumption, ChatInit
  PROVE  AnswersSound
<1>1. /\ history = <<>> /\ active = 0 /\ page.shows = <<>> /\ page.at = "ready"
      /\ \A n \in Questions : analysis[n] = NoAnalysis /\ n # 0
  BY DEF ChatInit, NoPage, Questions
<1>2. NoAnalysis.at = "none" /\ NoAnalysis.frames = <<>>
  BY DEF NoAnalysis
<1>3. QED
  BY <1>1, <1>2 DEF AnswersSound, AnswerSound, StreamSound, HistorySound, RelaySound, PageSound,
                    ShowsSound, TailSound, LoadSound, Includes, AtMostOnce

\* Every step keeps the answers sound.
LEMMA AnswersSoundStep ==
  ASSUME ChatAssumption, ChatTyped, AnswersSound, [ChatNext]_chatVars
  PROVE  AnswersSound'
<1>1. page \in Pages
  BY DEF ChatTyped, PageTyped
<1>2. ASSUME (\A m \in Questions : Alike(m)) /\ UNCHANGED <<history, active, page>>
      PROVE  AnswersSound'
  BY <1>1, <1>2, AlikeKeeps DEF AnswersSound
<1>3. CASE UNCHANGED chatVars
  BY <1>2, <1>3 DEF chatVars, Alike
<1>4. QED
  BY <1>2, <1>3, ToolsLeaveAlike, ResultsLeaveAlike, ReadKeeps, EndKeeps, FailKeeps, SaveKeeps,
     FinishKeeps, AskKeeps, RegisterKeeps, ReceiveKeeps, ClosesKeeps, LeaveKeeps, LoadKeeps,
     ReattachKeeps, PodCrashKeeps DEF ChatNext

\* Sound answers count once: at most one place of an answer is one or none.
LEMMA AnswersSoundGive ==
  ASSUME ChatTyped, AnswersSound
  PROVE  EachAnsweredOnce
<1> SUFFICES ASSUME page.at = "ready", NEW n \in Questions, Asked(n) \in ToSet(page.shows)
             PROVE  LET shown == Cardinality({i \in DOMAIN page.shows : page.shows[i] = Answered(n)}) IN
                    CASE shown = 0 -> analysis[n].cut \/ n \in page.stopped \cup page.missed
                      [] shown = 1 -> TRUE
                      [] OTHER -> n \in page.twice
  BY DEF EachAnsweredOnce
<1> DEFINE places == {i \in DOMAIN page.shows : page.shows[i] = Answered(n)}
<1>1. ShowsSound(n) /\ Includes(page.shows, Asked(n))
  BY DEF AnswersSound, AnswerSound, PageSound, Includes, ToSet
<1>2. IsFiniteSet(places)
  <2>1. page.shows \in Seq(Said)
    BY DEF ChatTyped, PageTyped, Pages
  <2>2. DOMAIN page.shows = 1..Len(page.shows) /\ Len(page.shows) \in Nat
    BY <2>1
  <2>3. IsFiniteSet(DOMAIN page.shows)
    BY <2>2, FS_Interval
  <2>4. QED
    BY <2>3, FS_Subset
<1>3. Cardinality(places) = 0 => ~Includes(page.shows, Answered(n))
  BY <1>2, FS_EmptySet DEF Includes
<1>4. n \in page.twice \/ Cardinality(places) \in {0, 1}
  <2>1. SUFFICES ASSUME n \notin page.twice PROVE Cardinality(places) \in {0, 1}
    OBVIOUS
  <2>2. \A i, j \in places : i = j
    BY <1>1, <2>1 DEF ShowsSound, AtMostOnce
  <2>3. CASE places = {}
    BY <2>3, FS_EmptySet
  <2>4. CASE places # {}
    <3>1. PICK i \in places : places = {i}
      BY <2>2, <2>4
    <3>2. Cardinality({i}) = 1
      BY FS_Singleton
    <3>3. QED
      BY <3>1, <3>2
  <2>5. QED
    BY <2>3, <2>4
<1> HIDE DEF places
<1>5. Cardinality(places) = 0 => analysis[n].cut \/ n \in page.stopped \cup page.missed
  BY <1>1, <1>3 DEF ShowsSound
<1> DEFINE shown == Cardinality(places)
<1>6. (CASE shown = 0 -> analysis[n].cut \/ n \in page.stopped \cup page.missed
         [] shown = 1 -> TRUE
         [] OTHER -> n \in page.twice)
  <2> HIDE DEF shown
  <2>1. (shown = 0 => analysis[n].cut \/ n \in page.stopped \cup page.missed)
        /\ (n \in page.twice \/ shown \in {0, 1})
    BY <1>4, <1>5 DEF shown
  <2>2. QED
    BY <2>1
<1>7. QED
  BY <1>6 DEF places

\* The session keeps its types: what its requests, its agent and its
\* producer leave in the analyses, in the calls, in the history and on the page,
\* whatever order they come in.
THEOREM ChatTypesHold == ChatSpec => []ChatTyped
<1>1. ChatInit => ChatTyped
  BY ChatAssumption, ChatTypedInit
<1>2. ChatTyped /\ [ChatNext]_chatVars => ChatTyped'
  BY ChatAssumption, ChatTypedStep
<1>3. QED
  BY <1>1, <1>2, PTL DEF ChatSpec

\* A page at rest shows one answer to each of its questions, and where it shows
\* none or two the cause is one of those named: the relay's "done" comes once,
\* the history saves one answer, and a page that comes back reads the history,
\* then follows the relay the session has (post_message, _tee_stream, tail).
THEOREM AnswersCountOnce == ChatSpec => []EachAnsweredOnce
<1>1. ChatInit => ChatTyped /\ AnswersSound
  BY ChatAssumption, ChatTypedInit, AnswersSoundInit
<1>2. ChatTyped /\ AnswersSound /\ [ChatNext]_chatVars => (ChatTyped /\ AnswersSound)'
  BY ChatAssumption, ChatTypedStep, AnswersSoundStep
<1>3. ChatTyped /\ AnswersSound => EachAnsweredOnce
  BY AnswersSoundGive
<1>4. QED
  BY <1>1, <1>2, <1>3, PTL DEF ChatSpec

----------------------------------------------------------------------------
(* The cards of a session.  Calls that answer under one clear name run one   *)
(* at a time, in the order the model asked, so their results come in the      *)
(* order of the calls, and the first open card is that of the call.           *)

Made(cs, n) == {c \in Calls : cs[c].of = n /\ cs[c].at # "unused"}
Runs(cs, c) == cs[c].at \in {"running", "validating"}
Use(c) == <<"use", c>>
Carded(cards, c) == \E i \in DOMAIN cards : cards[i].call = c
Replies(cs, c, T) == T \in ResultNames(cs[c].tool)
Yielded(stash, k, T, c) == \E p \in DOMAIN stash : p <= k /\ stash[p] = <<T, c>>

NoGaps(cs) ==
  /\ \A c \in Calls : cs[c].at = "unused" => cs[c].of = 0
  /\ \A c, d \in Calls : d < c /\ cs[d].at = "unused" => cs[c].at = "unused"
CallsSound(a, cs, n) ==
  \A c \in Made(cs, n) :
    /\ Runs(cs, c) => a.at = "reading" /\ a.model = "acting"
    /\ cs[c].at = "asked" => a.model # "acting"
    /\ \A d \in Made(cs, n) : cs[c].at = "asked" /\ cs[d].at # "asked" => d < c
QueueSound(a, cs, n) ==
  /\ \A c \in Calls : Includes(a.queue, Use(c)) =>
       c \in Made(cs, n) /\ ~Carded(a.cards, c) /\ AtMostOnce(a.queue, Use(c))
  /\ \A k \in DOMAIN a.queue : a.queue[k][1] \in {"end", "error"} => a.model = "ended" /\ k = Len(a.queue)
  /\ Includes(a.queue, <<"end", 0>>) => \A c \in Made(cs, n) : cs[c].at = "over"
  /\ a.model = "talking" /\ a.queue = <<>> => a.emitted = Len(a.stash)
CardsSound(cards, cs, n) ==
  /\ \A i \in DOMAIN cards : cards[i].call # 0 =>
       cards[i].call \in Made(cs, n) /\ cards[i].tool = cs[cards[i].call].tool
  /\ \A i \in DOMAIN cards : cards[i].call = 0 => cards[i].result # 0
  /\ \A i, j \in DOMAIN cards : cards[i].call = cards[j].call /\ cards[i].call # 0 => i = j
PairedUpTo(cards, stash, k, T) ==
  \A i \in DOMAIN cards : cards[i].tool = T /\ cards[i].call # 0 =>
    cards[i].result = IF Yielded(stash, k, T, cards[i].call) THEN cards[i].call ELSE 0
OrderSound(a, cs, n, T) ==
  /\ \A c, d \in Made(cs, n) :
       Replies(cs, c, T) /\ Replies(cs, d, T) /\ Runs(cs, c) /\ c # d => d < c /\ cs[d].at = "over"
  /\ \A p \in DOMAIN a.stash : a.stash[p][1] = T =>
       LET c == a.stash[p][2] IN
       /\ c \in Made(cs, n) /\ Replies(cs, c, T) /\ cs[c].at \in {"validating", "over"}
       /\ T = Validator => cs[c].at = "over"
  /\ \A p, r \in DOMAIN a.stash :
       r < p /\ a.stash[p][1] = T /\ a.stash[r][1] = T => a.stash[r][2] < a.stash[p][2]
  /\ \A c \in Made(cs, n) :
       cs[c].tool = T /\ cs[c].at \in {"validating", "over"} => Includes(a.stash, <<T, c>>)
Comes(a, c) == Carded(a.cards, c) \/ (a.queue # <<>> /\ Head(a.queue) = Use(c))
FreshSound(a, cs, n, T) ==
  /\ \A p \in DOMAIN a.stash, c \in Made(cs, n) :
       a.emitted < p /\ a.stash[p][1] = T /\ Replies(cs, c, T) /\ Comes(a, c) => c <= a.stash[p][2]
  /\ \A c \in Made(cs, n) :
       cs[c].tool = T /\ Yielded(a.stash, a.emitted, T, c) => ~Includes(a.queue, Use(c))
NamedSound(a, cs, n, T) ==
  OrderSound(a, cs, n, T) /\ FreshSound(a, cs, n, T) /\ PairedUpTo(a.cards, a.stash, a.emitted, T)
Clear(a) == {Sql, Validator} \ a.blurred
Reading(a, cs, n) ==
  /\ QueueSound(a, cs, n) /\ CardsSound(a.cards, cs, n)
  /\ \A T \in Clear(a) : NamedSound(a, cs, n, T)
SavedSound(a) ==
  \A i \in DOMAIN a.cards :
    a.cards[i].call # 0 /\ a.cards[i].tool \in Clear(a) =>
      a.cards[i].result = a.cards[i].call \/ (a.cut /\ a.cards[i].result = 0)
Blank(a) == a.model = "talking" /\ a.queue = <<>> /\ a.stash = <<>> /\ a.emitted = 0 /\ a.cards = <<>>
Paired(a, cs, n) ==
  /\ CallsSound(a, cs, n)
  /\ a.at \in {"none", "posting"} => Blank(a) /\ Made(cs, n) = {}
  /\ a.at = "reading" => Reading(a, cs, n)
  /\ a.at \in {"saving", "closing", "over"} => SavedSound(a)
PairsSound == NoGaps(calls) /\ \A n \in Questions : Paired(analysis[n], calls, n)


\* What one result does to the cards: it goes to the first open card of its
\* tool, or to a card of its own.
Takes(old, new, r) ==
  /\ DOMAIN old \subseteq DOMAIN new
  /\ \A i \in DOMAIN old : new[i].tool = old[i].tool /\ new[i].call = old[i].call
  /\ \A i \in DOMAIN new \ DOMAIN old : new[i].call = 0 /\ new[i].result # 0
  /\ \A i \in DOMAIN old : \/ new[i].result = old[i].result
                           \/ old[i].tool = r[1] /\ old[i].result = 0 /\ new[i].result = r[2]
  /\ OpenCards(old, r[1]) # {} =>
       \E i \in OpenCards(old, r[1]) : new[i].result = r[2]

\* A result goes to an open card, if its tool has one, and changes no other.
LEMMA ResultTakes ==
  ASSUME ChatAssumption, NEW old \in Seq(Cards), NEW r \in Answers
  PROVE  Takes(old, AddResult(old, r), r)
<1>1. r[2] \in Calls /\ r[2] # 0
  BY DEF Answers, Calls
<1>2. CASE OpenCards(old, r[1]) # {}
  <2> DEFINE m == Min(OpenCards(old, r[1]))
             new == [old EXCEPT ![m].result = r[2]]
  <2>1. m \in OpenCards(old, r[1])
    BY <1>2, OpenCardsAre
  <2>2. AddResult(old, r) = new
    BY <1>2 DEF AddResult
  <2> HIDE DEF m
  <2>3. m \in DOMAIN old /\ old[m].tool = r[1] /\ old[m].result = 0 /\ \A i \in DOMAIN old : old[i] \in Cards
    BY <2>1 DEF OpenCards
  <2>4. DOMAIN new = DOMAIN old /\ new[m] = [old[m] EXCEPT !.result = r[2]]
        /\ \A i \in DOMAIN old : i # m => new[i] = old[i]
    BY <2>3
  <2> HIDE DEF new
  <2>5. new[m].tool = old[m].tool /\ new[m].call = old[m].call /\ new[m].result = r[2]
    BY <2>3, <2>4 DEF Cards
  <2>6. Takes(old, new, r)
    BY <2>1, <2>3, <2>4, <2>5 DEF Takes
  <2>7. QED
    BY <2>2, <2>6
<1>3. CASE OpenCards(old, r[1]) = {}
  <2> DEFINE x == [tool |-> r[1], call |-> 0, result |-> r[2]]
             new == Append(old, x)
  <2>1. AddResult(old, r) = new
    BY <1>3 DEF AddResult
  <2>2. x.call = 0 /\ x.result # 0
    BY <1>1
  <2>2a. x \in Cards
    BY <1>1 DEF Cards, Answers, Calls, ChatAssumption
  <2> HIDE DEF x
  <2>3. /\ DOMAIN old = 1..Len(old) /\ DOMAIN new = 1..(Len(old) + 1) /\ Len(old) \in Nat
        /\ \A i \in 1..Len(old) : new[i] = old[i]
        /\ new[Len(old) + 1] = x
    BY <2>2a, AppendProperties
  <2>4. \A i \in 1..(Len(old) + 1) : i \in 1..Len(old) \/ i = Len(old) + 1
    BY <2>3
  <2>4a. \A i \in 1..Len(old) : i \in 1..(Len(old) + 1)
    BY <2>3
  <2> HIDE DEF new
  <2>5. Takes(old, new, r)
    BY <1>3, <2>2, <2>3, <2>4, <2>4a DEF Takes
  <2>6. QED
    BY <2>1, <2>5
<1>4. QED
  BY <1>2, <1>3

\* Cards stay sound when a result is added.
LEMMA TakesKeeps ==
  ASSUME NEW old, NEW new, NEW r, Takes(old, new, r), r[2] # 0, NEW cs, NEW n, CardsSound(old, cs, n)
  PROVE  /\ CardsSound(new, cs, n)
         /\ \A c \in Calls : c # 0 => (Carded(new, c) <=> Carded(old, c))
<1>1. \A i \in DOMAIN new : new[i].call # 0 => i \in DOMAIN old
  BY DEF Takes
<1>2. \A i \in DOMAIN new : new[i].call = 0 => new[i].result # 0
  BY DEF Takes, CardsSound
<1>3. CardsSound(new, cs, n)
  BY <1>1, <1>2 DEF Takes, CardsSound
<1>4. \A c \in Calls : c # 0 => (Carded(new, c) <=> Carded(old, c))
  BY <1>1 DEF Takes, Carded
<1>5. QED
  BY <1>3, <1>4

\* All cards shown when a result is yielded stand for the calls they stood for.
LEMMA CardsStay ==
  ASSUME ChatAssumption, NEW cards \in Seq(Cards), NEW seq \in Seq(Answers), NEW h, Stepwise(h, cards, seq),
         NEW cs, NEW n, CardsSound(cards, cs, n)
  PROVE  \A k \in 0..Len(seq) :
           /\ h[k] \in Seq(Cards) /\ CardsSound(h[k], cs, n)
           /\ \A c \in Calls : Carded(h[k], c) <=> Carded(cards, c)
<1> DEFINE Good == {k \in 0..Len(seq) : /\ CardsSound(h[k], cs, n)
                                        /\ \A c \in Calls : Carded(h[k], c) <=> Carded(cards, c)}
<1>0. Len(seq) \in Nat
  OBVIOUS
<1>1. Len(seq) \in Nat /\ h[0] = cards /\ \A k \in 0..Len(seq) : h[k] \in Seq(Cards)
  <2>1. h \in [0..Len(seq) -> Seq(Cards)] /\ h[0] = cards
    BY DEF Stepwise
  <2>2. QED
    BY <1>0, <2>1
<1>2. 0 \in Good
  BY <1>1
<1>3. ASSUME NEW k \in 1..Len(seq), k - 1 \in Good PROVE k \in Good
  <2>1. k - 1 \in 0..Len(seq) /\ k \in 0..Len(seq) /\ seq[k] \in Answers
    BY <1>1
  <2>2. h[k] = AddResult(h[k - 1], seq[k])
    BY DEF Stepwise
  <2>3. Takes(h[k - 1], h[k], seq[k])
    BY <1>1, <2>1, <2>2, ResultTakes
  <2>4. seq[k][2] # 0 /\ \A c \in Calls : c # 0
    BY <2>1 DEF Answers, Calls
  <2>5. CardsSound(h[k - 1], cs, n) /\ \A c \in Calls : Carded(h[k - 1], c) <=> Carded(cards, c)
    BY <1>3
  <2>6. /\ CardsSound(h[k], cs, n)
        /\ \A c \in Calls : c # 0 => (Carded(h[k], c) <=> Carded(h[k - 1], c))
    BY <2>3, <2>4, <2>5, TakesKeeps
  <2>7. QED
    BY <2>1, <2>4, <2>5, <2>6
<1> HIDE DEF Good
<1>4. \A k \in 0..Len(seq) : k \in Good
  BY <1>1, <1>2, <1>3, PlaceInduction
<1>5. QED
  BY <1>1, <1>4 DEF Good

\* Calls are served in their order: when the result at place p is out, so are
\* those of earlier calls of the tool.
LEMMA EarlierAreOut ==
  ASSUME NEW a \in Analyses, NEW cs \in [Calls -> [of : 0..MaxQuestions, tool : Tools, at : CallStages]], NEW n,
         NEW T \in {Sql, Validator}, OrderSound(a, cs, n, T), CallsSound(a, cs, n),
         NEW p \in DOMAIN a.stash, a.stash[p][1] = T,
         NEW d \in Made(cs, n), cs[d].tool = T, d < a.stash[p][2]
  PROVE  Yielded(a.stash, p - 1, T, d)
<1> DEFINE c == a.stash[p][2]
<1>1. c \in Made(cs, n) /\ Replies(cs, c, T) /\ cs[c].at \in {"validating", "over"}
  BY DEF OrderSound
<1>2. Replies(cs, d, T)
  BY DEF Replies, ResultNames, Sql, Validator, Verified
<1>3. c \in Nat /\ d \in Nat /\ cs[d].at \in CallStages /\ cs[d].at # "unused"
  BY <1>1 DEF Made, Calls
<1>4. ~Runs(cs, d)
  BY <1>1, <1>2, <1>3 DEF OrderSound
<1>5. cs[d].at # "asked"
  BY <1>1, <1>3 DEF CallsSound
<1>6. cs[d].at = "over"
  BY <1>3, <1>4, <1>5 DEF Runs, CallStages
<1>7. PICK r \in DOMAIN a.stash : a.stash[r] = <<T, d>>
  BY <1>6 DEF OrderSound, Includes
<1>8. DOMAIN a.stash \subseteq Nat
  BY DEF Analyses
<1>9. a.stash[r][1] = T /\ a.stash[r][2] = d
  BY <1>7
<1>10. ~(p < r)
  <2>1. p < r => c < d
    BY <1>7, <1>9 DEF OrderSound
  <2>2. QED
    BY <1>3, <2>1
<1>11. r # p
  BY <1>3, <1>9
<1>12. r <= p - 1
  BY <1>7, <1>8, <1>10, <1>11
<1>13. QED
  BY <1>7, <1>12 DEF Yielded

\* What was out stays out, and one result is more.
LEMMA FlushedNext ==
  ASSUME NEW a \in Analyses, NEW p \in DOMAIN a.stash, NEW T, NEW c
  PROVE  Yielded(a.stash, p, T, c) <=> Yielded(a.stash, p - 1, T, c) \/ a.stash[p] = <<T, c>>
<1>1. DOMAIN a.stash \subseteq Int
  BY DEF Analyses
<1>2. \A r \in DOMAIN a.stash : r <= p <=> (r <= p - 1 \/ r = p)
  BY <1>1
<1>3. QED
  BY <1>2 DEF Yielded

\* One result finds the open card of its call, or none of its tool.
LEMMA ResultPairs ==
  ASSUME ChatAssumption,
         NEW a \in Analyses, NEW cs \in [Calls -> [of : 0..MaxQuestions, tool : Tools, at : CallStages]], NEW n,
         NEW T \in {Sql, Validator}, OrderSound(a, cs, n, T), CallsSound(a, cs, n),
         NEW p \in DOMAIN a.stash, NEW old, CardsSound(old, cs, n), PairedUpTo(old, a.stash, p - 1, T),
         \A c \in Made(cs, n) : a.stash[p][1] = T /\ Replies(cs, c, T) /\ Carded(old, c) => c <= a.stash[p][2],
         NEW new, Takes(old, new, a.stash[p])
  PROVE  PairedUpTo(new, a.stash, p, T)
<1> DEFINE r == a.stash[p]
<1>1. r \in Answers /\ r = <<r[1], r[2]>> /\ r[2] \in Calls /\ p \in Nat
  BY DEF Analyses, Answers
<1>2. SUFFICES ASSUME NEW i \in DOMAIN new, new[i].tool = T, new[i].call # 0
               PROVE  new[i].result = IF Yielded(a.stash, p, T, new[i].call) THEN new[i].call ELSE 0
  BY DEF PairedUpTo
<1>3. i \in DOMAIN old /\ old[i].tool = T /\ old[i].call = new[i].call
  BY <1>2 DEF Takes
<1> DEFINE d == old[i].call
<1>4. old[i].result = IF Yielded(a.stash, p - 1, T, d) THEN d ELSE 0
  BY <1>2, <1>3 DEF PairedUpTo
<1>5. Yielded(a.stash, p, T, d) <=> Yielded(a.stash, p - 1, T, d) \/ r = <<T, d>>
  <2> HIDE DEF d
  <2>1. Yielded(a.stash, p, T, d) <=> Yielded(a.stash, p - 1, T, d) \/ a.stash[p] = <<T, d>>
    BY FlushedNext
  <2>2. QED
    BY <2>1
<1>6. CASE r[1] # T
  <2>1. new[i].result = old[i].result
    BY <1>3, <1>6 DEF Takes
  <2>2. r # <<T, d>>
    BY <1>6
  <2>3. QED
    BY <1>3, <1>4, <1>5, <2>1, <2>2
<1>7. CASE r[1] = T
  <2> DEFINE c == r[2]
  <2>1. \A j \in OpenCards(old, T) : old[j].call = c
    <3> SUFFICES ASSUME NEW j \in OpenCards(old, T) PROVE old[j].call = c
      OBVIOUS
    <3> DEFINE e == old[j].call
    <3>1. j \in DOMAIN old /\ old[j].tool = T /\ old[j].result = 0
      BY DEF OpenCards
    <3>2. e # 0 /\ e \in Made(cs, n) /\ cs[e].tool = T
      BY <3>1 DEF CardsSound
    <3>3. Replies(cs, e, T) /\ Carded(old, e)
      BY <3>1, <3>2 DEF Replies, ResultNames, Sql, Validator, Verified, Carded
    <3>4. e <= c
      BY <1>7, <3>2, <3>3
    <3>5. ~Yielded(a.stash, p - 1, T, e)
      BY <3>1, <3>2 DEF PairedUpTo
    <3>6. ~(e < c)
      BY <1>7, <3>2, <3>5, EarlierAreOut
    <3>7. e \in Nat /\ c \in Nat
      BY <1>1, <3>2 DEF Made, Calls
    <3>8. QED
      BY <3>4, <3>6, <3>7
  <2>2. CASE d = c
    <3>1. r = <<T, d>>
      BY <1>1, <1>7, <2>2
    <3>2. ~Yielded(a.stash, p - 1, T, d)
      <4>1. SUFFICES ASSUME NEW s \in DOMAIN a.stash, s <= p - 1, a.stash[s] = <<T, d>> PROVE FALSE
        BY DEF Yielded
      <4>2. s \in Nat /\ s < p
        BY <1>1, <4>1 DEF Analyses
      <4>3. a.stash[s][1] = T /\ a.stash[s][2] = d /\ a.stash[p][1] = T /\ a.stash[p][2] = d
        BY <3>1, <4>1
      <4>4. d < d
        BY <4>2, <4>3 DEF OrderSound
      <4>5. QED
        BY <1>1, <2>2, <4>4 DEF Calls
    <3>3. i \in OpenCards(old, T)
      BY <1>3, <1>4, <3>2 DEF OpenCards
    <3>4. PICK j \in OpenCards(old, T) : new[j].result = c
      BY <1>7, <3>3 DEF Takes
    <3>5. old[j].call = d /\ j \in DOMAIN old
      BY <2>1, <2>2, <3>4 DEF OpenCards
    <3>6. j = i
      BY <1>2, <1>3, <3>5 DEF CardsSound
    <3>7. QED
      BY <1>3, <1>5, <2>2, <3>1, <3>4, <3>6
  <2>3. CASE d # c
    <3>1. r # <<T, d>>
      BY <2>3
    <3>2. i \notin OpenCards(old, T)
      BY <2>1, <2>3
    <3>3. old[i].result # 0
      BY <1>3, <3>2 DEF OpenCards
    <3>4. new[i].result = old[i].result
      BY <1>3, <3>3 DEF Takes
    <3>5. QED
      BY <1>3, <1>4, <1>5, <3>1, <3>4
  <2>4. QED
    BY <2>2, <2>3
<1>8. QED
  BY <1>6, <1>7

\* After the whole flush: every card of the tool has its result, if there is one.
LEMMA ResultsPaired ==
  ASSUME ChatAssumption,
         NEW a \in Analyses, a.emitted <= Len(a.stash),
         NEW cs \in [Calls -> [of : 0..MaxQuestions, tool : Tools, at : CallStages]], NEW n,
         NEW T \in {Sql, Validator}, OrderSound(a, cs, n, T), CallsSound(a, cs, n),
         NEW cards \in Seq(Cards), CardsSound(cards, cs, n), PairedUpTo(cards, a.stash, a.emitted, T),
         \A p \in DOMAIN a.stash, c \in Made(cs, n) :
           a.emitted < p /\ a.stash[p][1] = T /\ Replies(cs, c, T) /\ Carded(cards, c) => c <= a.stash[p][2],
         NEW out, out = FoldLeft(AddResult, cards, Fresh(a))
  PROVE  PairedUpTo(out, a.stash, Len(a.stash), T)
<1> DEFINE seq == Fresh(a)
<1>1. /\ seq \in Seq(Answers) /\ Len(seq) = Len(a.stash) - a.emitted
      /\ \A k \in 1..Len(seq) : seq[k] = a.stash[a.emitted + k]
  BY FreshIs
<1> HIDE DEF seq
<1>2. PICK h : Stepwise(h, cards, seq) /\ FoldLeft(AddResult, cards, seq) = h[Len(seq)]
  BY <1>1, ResultsAdded
<1>3. \A k \in 0..Len(seq) :
        /\ h[k] \in Seq(Cards) /\ CardsSound(h[k], cs, n)
        /\ \A c \in Calls : Carded(h[k], c) <=> Carded(cards, c)
  BY <1>1, <1>2, CardsStay
<1>4. a.emitted \in Nat /\ Len(a.stash) \in Nat /\ DOMAIN a.stash = 1..Len(a.stash) /\ Len(seq) \in Nat
  BY <1>1 DEF Analyses
<1> DEFINE Good == {k \in 0..Len(seq) : PairedUpTo(h[k], a.stash, a.emitted + k, T)}
<1>5. 0 \in Good
  <2>1. h[0] = cards /\ a.emitted + 0 = a.emitted /\ 0 \in 0..Len(seq)
    BY <1>2, <1>4 DEF Stepwise
  <2>2. QED
    BY <2>1
<1>6. ASSUME NEW k \in 1..Len(seq), k - 1 \in Good PROVE k \in Good
  <2> DEFINE p == a.emitted + k
  <2>1. k - 1 \in 0..Len(seq) /\ k \in 0..Len(seq) /\ p \in DOMAIN a.stash /\ a.emitted < p
        /\ a.emitted + (k - 1) = p - 1
    BY <1>1, <1>4
  <2>2. h[k] = AddResult(h[k - 1], a.stash[p]) /\ a.stash[p] \in Answers
    BY <1>1, <1>2, <2>1 DEF Stepwise, Analyses
  <2>3. Takes(h[k - 1], h[k], a.stash[p])
    BY <1>3, <2>1, <2>2, ResultTakes
  <2>4. PairedUpTo(h[k - 1], a.stash, p - 1, T)
    BY <1>6, <2>1
  <2> HIDE DEF p
  <2>5. \A c \in Made(cs, n) : a.stash[p][1] = T /\ Replies(cs, c, T) /\ Carded(h[k - 1], c) => c <= a.stash[p][2]
    BY <1>3, <2>1 DEF Made
  <2>6. PairedUpTo(h[k], a.stash, p, T)
    BY <1>3, <2>1, <2>3, <2>4, <2>5, ResultPairs
  <2>7. QED
    BY <2>1, <2>6 DEF p
<1> HIDE DEF Good
<1>7. Len(seq) \in Good
  <2>1. \A k \in 0..Len(seq) : k \in Good
    BY <1>4, <1>5, <1>6, PlaceInduction
  <2>2. QED
    BY <1>4, <2>1
<1>8. a.emitted + Len(seq) = Len(a.stash)
  BY <1>1, <1>4
<1>9. QED
  BY <1>2, <1>7, <1>8 DEF Good, seq

CallLists == [Calls -> [of : 0..MaxQuestions, tool : Tools, at : CallStages]]

\* A step that leaves the stream of an analysis and its calls alone.
SameStream(a, b) ==
  /\ b.at = a.at /\ b.model = a.model /\ b.queue = a.queue /\ b.stash = a.stash
  /\ b.emitted = a.emitted /\ b.cards = a.cards /\ b.blurred = a.blurred /\ b.cut = a.cut
SameCalls(cs, ds, n) == Made(ds, n) = Made(cs, n) /\ \A c \in Made(cs, n) : ds[c] = cs[c]

\* What is sound under a name stays so when its stream and its calls stay.
LEMMA NamedSame ==
  ASSUME NEW a, NEW b, NEW cs, NEW ds, NEW n, NEW T, NamedSound(a, cs, n, T), SameStream(a, b), SameCalls(cs, ds, n)
  PROVE  NamedSound(b, ds, n, T)
<1>1. OrderSound(b, ds, n, T)
  BY DEF NamedSound, OrderSound, SameStream, SameCalls, Replies, Runs
<1>2. FreshSound(b, ds, n, T)
  BY DEF NamedSound, FreshSound, SameStream, SameCalls, Replies, Comes
<1>3. QED
  BY <1>1, <1>2 DEF NamedSound, SameStream

\* So does the question.
LEMMA PairedSame ==
  ASSUME NEW a, NEW b, NEW cs, NEW ds, NEW n, Paired(a, cs, n), SameStream(a, b), SameCalls(cs, ds, n)
  PROVE  Paired(b, ds, n)
<1>1. CallsSound(b, ds, n)
  BY DEF Paired, CallsSound, SameStream, SameCalls, Runs
<1>2. b.at = "reading" => Reading(b, ds, n)
  <2>1. SUFFICES ASSUME a.at = "reading" PROVE Reading(b, ds, n)
    BY DEF SameStream
  <2>2. QueueSound(a, cs, n) /\ CardsSound(a.cards, cs, n)
    BY <2>1 DEF Paired, Reading
  <2>3. QueueSound(b, ds, n)
    BY <2>2 DEF QueueSound, SameStream, SameCalls
  <2>4. CardsSound(b.cards, ds, n)
    BY <2>2 DEF CardsSound, SameStream, SameCalls
  <2>5. \A T \in Clear(b) : NamedSound(b, ds, n, T)
    BY <2>1, NamedSame DEF Paired, Reading, Clear, SameStream
  <2>6. QED
    BY <2>3, <2>4, <2>5 DEF Reading
<1>3. QED
  BY <1>1, <1>2 DEF Paired, SameStream, SameCalls, Blank, SavedSound, Clear

\* One more element at the end of the queue.
LEMMA QueueAppend ==
  ASSUME NEW S, NEW q \in Seq(S), NEW e \in S, NEW r, r = Append(q, e)
  PROVE  /\ Len(r) = Len(q) + 1 /\ Len(q) \in Nat /\ DOMAIN q = 1..Len(q) /\ DOMAIN r = 1..(Len(q) + 1)
         /\ \A k \in DOMAIN q : k \in DOMAIN r /\ r[k] = q[k]
         /\ \A k \in DOMAIN r : k \in DOMAIN q \/ (k = Len(r) /\ r[k] = e)
         /\ r # <<>> /\ Head(r) = IF q = <<>> THEN e ELSE Head(q)
<1>1. /\ Len(r) = Len(q) + 1 /\ Len(q) \in Nat /\ DOMAIN q = 1..Len(q) /\ DOMAIN r = 1..(Len(q) + 1)
      /\ \A k \in 1..Len(q) : r[k] = q[k]
      /\ r[Len(q) + 1] = e
  BY AppendProperties
<1>2. \A k \in 1..(Len(q) + 1) : k \in 1..Len(q) \/ k = Len(q) + 1
  BY <1>1
<1>3. \A k \in 1..Len(q) : k \in 1..(Len(q) + 1)
  BY <1>1
<1>4. r # <<>>
  BY <1>1
<1>5. Head(r) = IF q = <<>> THEN e ELSE Head(q)
  OBVIOUS
<1>6. QED
  BY <1>1, <1>2, <1>3, <1>4, <1>5

\* The model says something, or ends: nothing of the calls changes.
LEMMA EnqueuePairs ==
  ASSUME ChatAssumption, NEW a \in Analyses, NEW b \in Analyses, NEW cs \in CallLists, NEW n, Paired(a, cs, n),
         a.at = "reading", a.model # "ended", \A c \in Made(cs, n) : ~Runs(cs, c),
         NEW e \in {<<"event", 0>>, <<"end", 0>>, <<"error", 0>>},
         b.model = IF e[1] = "event" THEN "talking" ELSE "ended",
         e[1] = "end" => \A c \in Made(cs, n) : cs[c].at = "over",
         b.at = a.at, b.queue = Append(a.queue, e), b.stash = a.stash, b.emitted = a.emitted,
         b.cards = a.cards, b.blurred = a.blurred
  PROVE  Paired(b, cs, n)
<1>0. a.queue \in Seq(Happenings) /\ e \in Happenings
  BY DEF Analyses, Happenings
<1> DEFINE q == a.queue
           r == b.queue
<1>1. /\ Len(r) = Len(q) + 1 /\ Len(q) \in Nat /\ DOMAIN q = 1..Len(q) /\ DOMAIN r = 1..(Len(q) + 1)
      /\ \A k \in DOMAIN q : k \in DOMAIN r /\ r[k] = q[k]
      /\ \A k \in DOMAIN r : k \in DOMAIN q \/ (k = Len(r) /\ r[k] = e)
      /\ r # <<>> /\ Head(r) = IF q = <<>> THEN e ELSE Head(q)
  BY <1>0, QueueAppend
<1>2. \A c \in Calls : e # Use(c)
  BY DEF Use
<1>3. \A c \in Calls : /\ Includes(r, Use(c)) <=> Includes(q, Use(c))
                       /\ AtMostOnce(q, Use(c)) => AtMostOnce(r, Use(c))
  BY <1>0, <1>2, AppendIncludes
<1>4. CallsSound(b, cs, n)
  BY DEF Paired, CallsSound
<1>5. QueueSound(a, cs, n) /\ CardsSound(a.cards, cs, n)
  BY DEF Paired, Reading
<1>6. \A k \in DOMAIN q : q[k][1] \notin {"end", "error"}
  BY <1>5 DEF QueueSound
<1>6a. e[1] = "end" <=> e = <<"end", 0>>
  OBVIOUS
<1>7. QueueSound(b, cs, n)
  <2>1. \A c \in Calls : Includes(r, Use(c)) =>
          c \in Made(cs, n) /\ ~Carded(b.cards, c) /\ AtMostOnce(r, Use(c))
    BY <1>3, <1>5 DEF QueueSound
  <2>2. \A k \in DOMAIN r : r[k][1] \in {"end", "error"} => b.model = "ended" /\ k = Len(r)
    BY <1>1, <1>6
  <2>3. Includes(r, <<"end", 0>>) => \A c \in Made(cs, n) : cs[c].at = "over"
    <3>1. \A k \in DOMAIN q : q[k] # <<"end", 0>>
      BY <1>6
    <3>2. Includes(r, <<"end", 0>>) => e = <<"end", 0>>
      BY <1>1, <3>1 DEF Includes
    <3>3. QED
      BY <3>2
  <2>4. QED
    BY <1>1, <2>1, <2>2, <2>3 DEF QueueSound
<1>8. ASSUME NEW T \in Clear(b) PROVE NamedSound(b, cs, n, T)
  <2>1. NamedSound(a, cs, n, T)
    BY DEF Paired, Reading, Clear
  <2>2. OrderSound(b, cs, n, T)
    BY <2>1 DEF NamedSound, OrderSound
  <2>3. \A c \in Made(cs, n) : Comes(b, c) => Comes(a, c)
    BY <1>1, <1>2 DEF Comes, Made
  <2>4. \A c \in Made(cs, n) : Includes(r, Use(c)) <=> Includes(q, Use(c))
    BY <1>3 DEF Made
  <2>5. FreshSound(b, cs, n, T)
    BY <2>1, <2>3, <2>4 DEF NamedSound, FreshSound
  <2>6. QED
    BY <2>1, <2>2, <2>5 DEF NamedSound
<1>9. QED
  BY <1>4, <1>5, <1>7, <1>8 DEF Paired, Reading

\* The model asks for a tool: its call is later than all others.
LEMMA AskPairs ==
  ASSUME ChatAssumption, NEW a \in Analyses, NEW b \in Analyses, NEW cs \in CallLists, NEW n \in Questions,
         NoGaps(cs), Paired(a, cs, n), a.at = "reading", a.model = "talking", a.emitted <= Len(a.stash),
         NEW c \in Calls, cs[c].at = "unused", \A d \in Calls : d < c => cs[d].at # "unused",
         NEW name \in Tools, NEW ds, ds = [cs EXCEPT ![c] = [of |-> n, tool |-> name, at |-> "asked"]],
         b.model = a.model, b.at = a.at, b.queue = Append(a.queue, Use(c)), b.stash = a.stash,
         b.emitted = a.emitted, b.cards = a.cards, b.blurred = a.blurred
  PROVE  Paired(b, ds, n)
<1>0. a.queue \in Seq(Happenings) /\ Use(c) \in Happenings
  BY DEF Analyses, Happenings, Use
<1> DEFINE q == a.queue
           r == b.queue
<1>1. /\ Len(r) = Len(q) + 1 /\ Len(q) \in Nat /\ DOMAIN q = 1..Len(q) /\ DOMAIN r = 1..(Len(q) + 1)
      /\ \A k \in DOMAIN q : k \in DOMAIN r /\ r[k] = q[k]
      /\ \A k \in DOMAIN r : k \in DOMAIN q \/ (k = Len(r) /\ r[k] = Use(c))
      /\ r # <<>> /\ Head(r) = IF q = <<>> THEN Use(c) ELSE Head(q)
  <2> DEFINE e == Use(c)
  <2>1. e \in Happenings /\ r = Append(q, e) /\ q \in Seq(Happenings)
    BY <1>0
  <2> HIDE DEF e, q, r
  <2>2. /\ Len(r) = Len(q) + 1 /\ Len(q) \in Nat /\ DOMAIN q = 1..Len(q) /\ DOMAIN r = 1..(Len(q) + 1)
        /\ \A k \in DOMAIN q : k \in DOMAIN r /\ r[k] = q[k]
        /\ \A k \in DOMAIN r : k \in DOMAIN q \/ (k = Len(r) /\ r[k] = e)
        /\ r # <<>> /\ Head(r) = IF q = <<>> THEN e ELSE Head(q)
    BY <2>1, QueueAppend
  <2>3. QED
    BY <2>2 DEF e
<1>2. /\ ds[c] = [of |-> n, tool |-> name, at |-> "asked"]
      /\ \A d \in Calls : d # c => ds[d] = cs[d]
  BY DEF CallLists
<1>3. c \notin Made(cs, n) /\ Made(ds, n) = Made(cs, n) \cup {c}
  BY <1>2 DEF Made
<1>4. \A d \in Made(cs, n) : d # c /\ ds[d] = cs[d] /\ d < c /\ d \in Calls
  <2>1. SUFFICES ASSUME NEW d \in Made(cs, n) PROVE d # c /\ ds[d] = cs[d] /\ d < c /\ d \in Calls
    OBVIOUS
  <2>2. d \in Calls /\ cs[d].at # "unused" /\ d # c
    BY <1>3 DEF Made
  <2>3. ~(c < d)
    BY <2>2 DEF NoGaps
  <2>4. d < c
    BY <2>2, <2>3 DEF Calls
  <2>5. QED
    BY <1>2, <2>2, <2>4
<1>5. \A d \in Calls : Use(d) = Use(c) => d = c
  BY DEF Use
<1>6. QueueSound(a, cs, n) /\ CardsSound(a.cards, cs, n)
  BY DEF Paired, Reading
<1>7. ~Includes(q, Use(c))
  BY <1>3, <1>6 DEF QueueSound
<1>8. \A d \in Calls : /\ Includes(r, Use(d)) <=> Includes(q, Use(d)) \/ d = c
                       /\ AtMostOnce(q, Use(d)) /\ (d = c => ~Includes(q, Use(d))) => AtMostOnce(r, Use(d))
  <2> SUFFICES ASSUME NEW d \in Calls
               PROVE  /\ Includes(r, Use(d)) <=> Includes(q, Use(d)) \/ d = c
                      /\ AtMostOnce(q, Use(d)) /\ (d = c => ~Includes(q, Use(d))) => AtMostOnce(r, Use(d))
    OBVIOUS
  <2>1. /\ Includes(r, Use(d)) <=> Includes(q, Use(d)) \/ Use(c) = Use(d)
        /\ AtMostOnce(q, Use(d)) /\ (Use(c) = Use(d) => ~Includes(q, Use(d))) => AtMostOnce(r, Use(d))
    BY <1>0, AppendIncludes
  <2>2. QED
    BY <1>5, <2>1
<1>9. ~Carded(a.cards, c)
  <2>1. c # 0
    BY DEF Calls
  <2>2. QED
    BY <1>3, <1>6, <2>1 DEF CardsSound, Carded
<1>10. CallsSound(b, ds, n)
  <2>1. ds[c].at = "asked" /\ b.model # "acting"
    BY <1>2
  <2>1a. \A d \in Made(cs, n) : d < c /\ ~(c < d)
    BY <1>4 DEF Calls
  <2>2. CallsSound(a, cs, n)
    BY DEF Paired
  <2>3. QED
    BY <1>3, <1>4, <2>1, <2>1a, <2>2 DEF CallsSound, Runs
<1>11. QueueSound(b, ds, n)
  <2>1. ASSUME NEW d \in Calls, Includes(r, Use(d))
        PROVE  d \in Made(ds, n) /\ ~Carded(b.cards, d) /\ AtMostOnce(r, Use(d))
    <3>1. CASE d = c
      <4>1. AtMostOnce(q, Use(d))
        BY <1>7, <3>1 DEF AtMostOnce, Includes
      <4>2. QED
        BY <1>3, <1>7, <1>8, <1>9, <3>1, <4>1
    <3>2. CASE d # c
      <4>1. Includes(q, Use(d))
        BY <1>8, <2>1, <3>2
      <4>2. d \in Made(cs, n) /\ ~Carded(a.cards, d) /\ AtMostOnce(q, Use(d))
        BY <1>6, <4>1 DEF QueueSound
      <4>3. QED
        BY <1>3, <1>8, <3>2, <4>2
    <3>3. QED
      BY <3>1, <3>2
  <2>2. \A k \in DOMAIN r : r[k][1] \in {"end", "error"} => b.model = "ended" /\ k = Len(r)
    <3>1. Use(c)[1] = "use"
      BY DEF Use
    <3>2. QED
      BY <1>1, <1>6, <3>1 DEF QueueSound
  <2>3. ~Includes(r, <<"end", 0>>)
    <3>1. Use(c)[1] = "use"
      BY DEF Use
    <3>2. QED
      BY <2>2 DEF Includes
  <2>4. QED
    BY <1>1, <2>1, <2>2, <2>3 DEF QueueSound
<1>12. CardsSound(b.cards, ds, n)
  <2>1. \A i \in DOMAIN a.cards : a.cards[i].call # 0 =>
          a.cards[i].call \in Made(cs, n) /\ a.cards[i].tool = cs[a.cards[i].call].tool
    BY <1>6 DEF CardsSound
  <2>2. \A i \in DOMAIN a.cards : a.cards[i].call # 0 =>
          a.cards[i].call \in Made(ds, n) /\ a.cards[i].tool = ds[a.cards[i].call].tool
    BY <1>3, <1>4, <2>1
  <2>3. QED
    BY <1>6, <2>2 DEF CardsSound
<1>13. ASSUME NEW T \in Clear(b) PROVE NamedSound(b, ds, n, T)
  <2>1. NamedSound(a, cs, n, T)
    BY DEF Paired, Reading, Clear
  <2>1a. OrderSound(a, cs, n, T) /\ FreshSound(a, cs, n, T)
    BY <2>1 DEF NamedSound
  <2>1b. \A d \in Made(cs, n) : ~Runs(cs, d)
    BY DEF Paired, CallsSound
  <2>2. OrderSound(b, ds, n, T)
    <3>1. \A d \in Made(ds, n) : ~Runs(ds, d)
      BY <1>2, <1>3, <1>4, <2>1b DEF Runs
    <3>2. \A p \in DOMAIN b.stash : b.stash[p][1] = T =>
            LET d == b.stash[p][2] IN
            /\ d \in Made(ds, n) /\ Replies(ds, d, T) /\ ds[d].at \in {"validating", "over"}
            /\ T = Validator => ds[d].at = "over"
      <4>1. \A p \in DOMAIN a.stash : a.stash[p][1] = T =>
              LET d == a.stash[p][2] IN
              /\ d \in Made(cs, n) /\ Replies(cs, d, T) /\ cs[d].at \in {"validating", "over"}
              /\ T = Validator => cs[d].at = "over"
        BY <2>1a DEF OrderSound
      <4>2. \A d \in Made(cs, n) : d \in Made(ds, n) /\ ds[d].at = cs[d].at
                                   /\ (Replies(cs, d, T) => Replies(ds, d, T))
        BY <1>3, <1>4 DEF Replies
      <4>3. QED
        BY <4>1, <4>2
    <3>3. \A p, s \in DOMAIN b.stash :
            s < p /\ b.stash[p][1] = T /\ b.stash[s][1] = T => b.stash[s][2] < b.stash[p][2]
      BY <2>1a DEF OrderSound
    <3>4. \A d \in Made(ds, n) :
            ds[d].tool = T /\ ds[d].at \in {"validating", "over"} => Includes(b.stash, <<T, d>>)
      BY <1>2, <1>3, <1>4, <2>1a DEF OrderSound
    <3>5. QED
      BY <3>1, <3>2, <3>3, <3>4 DEF OrderSound
  <2>3. FreshSound(b, ds, n, T)
    <3>0. Len(a.stash) \in Nat /\ DOMAIN a.stash = 1..Len(a.stash) /\ a.emitted \in Nat
      BY DEF Analyses
    <3>1. q = <<>> => \A p \in DOMAIN b.stash : ~(b.emitted < p)
      BY <1>6, <3>0 DEF QueueSound
    <3>2. q # <<>> => \A d \in Made(ds, n) : Comes(b, d) => d \in Made(cs, n) /\ Comes(a, d)
      <4>1. SUFFICES ASSUME q # <<>>, NEW d \in Made(ds, n), Comes(b, d) PROVE d \in Made(cs, n) /\ Comes(a, d)
        OBVIOUS
      <4>2. Comes(a, d)
        BY <1>1, <4>1 DEF Comes
      <4>3. d # c
        <5>1. Head(q) = q[1] /\ 1 \in DOMAIN q
          BY <1>0, <1>1, <4>1
        <5>2. Head(q) # Use(c)
          BY <1>7, <5>1 DEF Includes
        <5>3. QED
          BY <1>9, <4>2, <5>2 DEF Comes
      <4>4. QED
        BY <1>3, <4>2, <4>3
    <3>3. \A p \in DOMAIN b.stash, d \in Made(ds, n) :
            b.emitted < p /\ b.stash[p][1] = T /\ Replies(ds, d, T) /\ Comes(b, d) => d <= b.stash[p][2]
      BY <1>4, <2>1a, <3>1, <3>2 DEF FreshSound, Replies
    <3>4. \A d \in Made(ds, n) :
            ds[d].tool = T /\ Yielded(b.stash, b.emitted, T, d) => ~Includes(b.queue, Use(d))
      <4>1. ~Yielded(b.stash, b.emitted, T, c)
        <5>1. \A p \in DOMAIN a.stash : a.stash[p] # <<T, c>>
          <6>1. SUFFICES ASSUME NEW p \in DOMAIN a.stash, a.stash[p] = <<T, c>> PROVE FALSE
            OBVIOUS
          <6>2. a.stash[p][1] = T /\ a.stash[p][2] = c
            BY <6>1
          <6>3. c \in Made(cs, n)
            BY <2>1a, <6>2 DEF OrderSound
          <6>4. QED
            BY <1>3, <6>3
        <5>2. QED
          BY <5>1 DEF Yielded
      <4>2. QED
        BY <1>3, <1>4, <1>8, <2>1a, <4>1 DEF FreshSound
    <3>5. QED
      BY <3>3, <3>4 DEF FreshSound
  <2>4. QED
    BY <2>1, <2>2, <2>3 DEF NamedSound
<1>14. QED
  BY <1>10, <1>11, <1>12, <1>13 DEF Paired, Reading

\* The tools of a message start.  Two that answer under one name blur it.
LEMMA StartPairs ==
  ASSUME ChatAssumption, NEW a \in Analyses, NEW b \in Analyses, NEW cs \in CallLists, NEW n \in Questions,
         Paired(a, cs, n), a.at = "reading", a.model = "talking",
         NEW some, some = {c \in Calls : cs[c].of = n /\ cs[c].at = "asked"},
         NEW ds, ds = [c \in Calls |-> IF c \in some THEN [cs[c] EXCEPT !.at = "running"] ELSE cs[c]],
         b.model = "acting", b.at = a.at, b.queue = a.queue, b.stash = a.stash, b.emitted = a.emitted,
         b.cards = a.cards,
         \A T \in Clear(b) : T \in Clear(a) /\
            \A c, d \in some : Replies(cs, c, T) /\ Replies(cs, d, T) => c = d
  PROVE  Paired(b, ds, n)
<1>1. \A c \in Calls : /\ cs[c].at \in CallStages
                       /\ ds[c].of = cs[c].of /\ ds[c].tool = cs[c].tool
                       /\ ds[c].at = IF c \in some THEN "running" ELSE cs[c].at
  BY DEF CallLists
<1>2. Made(ds, n) = Made(cs, n) /\ \A c \in Made(cs, n) : c \in Calls /\ (c \in some <=> cs[c].at = "asked")
  BY <1>1 DEF Made
<1>3. CallsSound(a, cs, n) /\ QueueSound(a, cs, n) /\ CardsSound(a.cards, cs, n)
  BY DEF Paired, Reading
<1>4. \A c \in Made(cs, n) : cs[c].at \in {"asked", "over"}
  <2>1. \A c \in Made(cs, n) : cs[c].at # "unused" /\ ~Runs(cs, c)
    BY <1>3 DEF CallsSound, Made
  <2>2. QED
    BY <1>1, <1>2, <2>1 DEF Runs, CallStages
<1>5. CallsSound(b, ds, n)
  BY <1>1, <1>2, <1>4 DEF CallsSound
<1>6. QueueSound(b, ds, n)
  <2>1. \A k \in DOMAIN a.queue : a.queue[k][1] # "end"
    BY <1>3 DEF QueueSound
  <2>2. ~Includes(a.queue, <<"end", 0>>)
    BY <2>1 DEF Includes
  <2>3. \A k \in DOMAIN b.queue : b.queue[k][1] \notin {"end", "error"}
    BY <1>3 DEF QueueSound
  <2>4. QED
    BY <1>2, <1>3, <2>2, <2>3 DEF QueueSound
<1>7. CardsSound(b.cards, ds, n)
  BY <1>1, <1>2, <1>3 DEF CardsSound
<1>8. ASSUME NEW T \in Clear(b) PROVE NamedSound(b, ds, n, T)
  <2>1. NamedSound(a, cs, n, T)
    BY DEF Paired, Reading
  <2>2. \A c \in Made(cs, n) : Replies(ds, c, T) <=> Replies(cs, c, T)
    BY <1>1, <1>2 DEF Replies
  <2>3. OrderSound(a, cs, n, T) /\ FreshSound(a, cs, n, T)
    BY <2>1 DEF NamedSound
  <2>4. ASSUME NEW c \in Made(cs, n), NEW d \in Made(cs, n), Replies(ds, c, T), Replies(ds, d, T), Runs(ds, c), c # d
        PROVE  d < c /\ ds[d].at = "over"
    <3>1. c \in some /\ cs[c].at = "asked"
      BY <1>1, <1>2, <1>4, <2>4 DEF Runs
    <3>2. d \notin some
      BY <2>2, <2>4, <3>1
    <3>3. cs[d].at = "over"
      BY <1>2, <1>4, <3>2
    <3>4. d < c
      BY <1>3, <3>1, <3>3 DEF CallsSound
    <3>5. QED
      BY <1>1, <1>2, <3>2, <3>3, <3>4
  <2>5. OrderSound(b, ds, n, T)
    <3>1. \A p \in DOMAIN b.stash : b.stash[p][1] = T =>
            LET d == b.stash[p][2] IN
            /\ d \in Made(ds, n) /\ Replies(ds, d, T) /\ ds[d].at \in {"validating", "over"}
            /\ T = Validator => ds[d].at = "over"
      BY <1>1, <1>2, <1>4, <2>2, <2>3 DEF OrderSound
    <3>2. \A d \in Made(ds, n) :
            ds[d].tool = T /\ ds[d].at \in {"validating", "over"} => Includes(b.stash, <<T, d>>)
      BY <1>1, <1>2, <1>4, <2>3 DEF OrderSound
    <3>3. QED
      BY <1>2, <2>3, <2>4, <3>1, <3>2 DEF OrderSound
  <2>6. FreshSound(b, ds, n, T)
    BY <1>1, <1>2, <2>2, <2>3 DEF FreshSound, Comes
  <2>7. QED
    BY <2>1, <2>5, <2>6 DEF NamedSound
<1>9. QED
  BY <1>5, <1>6, <1>7, <1>8 DEF Paired, Reading

\* A call goes on, and the model waits for it.
GoesOn(a, b, cs, ds, c, next) ==
  /\ ds = [cs EXCEPT ![c].at = next]
  /\ b.model = a.model /\ b.at = a.at /\ b.queue = a.queue /\ b.emitted = a.emitted /\ b.cards = a.cards
GoneOn(a, b, cs, ds, n, c, next) ==
  /\ Made(ds, n) = Made(cs, n) /\ c \in Calls
  /\ \A d \in Calls : ds[d].tool = cs[d].tool /\ ds[d].at = IF d = c THEN next ELSE cs[d].at
  /\ a.at = "reading" /\ a.model = "acting"
  /\ CallsSound(b, ds, n) /\ QueueSound(b, ds, n) /\ CardsSound(b.cards, ds, n)

\* A call goes on: what does not depend on the names of results.
LEMMA CallGoes ==
  ASSUME ChatAssumption, NEW a \in Analyses, NEW b \in Analyses, NEW cs \in CallLists, NEW n \in Questions,
         Paired(a, cs, n), NEW c \in Made(cs, n), Runs(cs, c), NEW next \in {"validating", "over"},
         NEW ds, GoesOn(a, b, cs, ds, c, next)
  PROVE  GoneOn(a, b, cs, ds, n, c, next)
<1>0. /\ ds = [cs EXCEPT ![c].at = next]
      /\ b.model = a.model /\ b.at = a.at /\ b.queue = a.queue /\ b.emitted = a.emitted /\ b.cards = a.cards
  BY DEF GoesOn
<1>1. c \in Calls
  BY DEF Made
<1>2. \A d \in Calls : ds[d].of = cs[d].of /\ ds[d].tool = cs[d].tool /\ ds[d].at = IF d = c THEN next ELSE cs[d].at
  BY <1>0, <1>1 DEF CallLists
<1>3. Made(ds, n) = Made(cs, n)
  BY <1>2 DEF Made
<1>4. a.at = "reading" /\ a.model = "acting" /\ CallsSound(a, cs, n)
  BY DEF Paired, CallsSound
<1>5. QueueSound(a, cs, n) /\ CardsSound(a.cards, cs, n)
  BY <1>4 DEF Paired, Reading
<1>6. \A d \in Made(cs, n) : cs[d].at # "asked" /\ ds[d].at # "asked"
  <2>1. \A d \in Made(cs, n) : d \in Calls /\ cs[d].at # "asked"
    BY <1>4 DEF CallsSound, Made
  <2>2. QED
    BY <1>2, <2>1
<1>7. CallsSound(b, ds, n)
  BY <1>0, <1>3, <1>4, <1>6 DEF CallsSound
<1>8. QueueSound(b, ds, n)
  <2>1. \A k \in DOMAIN a.queue : a.queue[k][1] # "end"
    BY <1>4, <1>5 DEF QueueSound
  <2>2. ~Includes(a.queue, <<"end", 0>>)
    BY <2>1 DEF Includes
  <2>3. QED
    BY <1>0, <1>3, <1>4, <1>5, <2>2 DEF QueueSound
<1>9. CardsSound(b.cards, ds, n)
  <2>1. \A d \in Made(cs, n) : d \in Calls
    BY DEF Made
  <2>2. \A i \in DOMAIN a.cards : a.cards[i].call # 0 =>
          a.cards[i].call \in Made(cs, n) /\ a.cards[i].tool = cs[a.cards[i].call].tool
    BY <1>5 DEF CardsSound
  <2>3. \A i \in DOMAIN a.cards : a.cards[i].call # 0 =>
          a.cards[i].call \in Made(ds, n) /\ a.cards[i].tool = ds[a.cards[i].call].tool
    BY <1>2, <1>3, <2>1, <2>2
  <2>4. QED
    BY <1>0, <1>5, <2>3 DEF CardsSound
<1>10. QED
  BY <1>1, <1>2, <1>3, <1>4, <1>7, <1>8, <1>9 DEF GoneOn

\* A result is left in the stash.
LEMMA AnswerPairs ==
  ASSUME ChatAssumption, NEW a \in Analyses, NEW b \in Analyses, NEW cs \in CallLists, NEW n \in Questions,
         Paired(a, cs, n), NEW c \in Made(cs, n), Runs(cs, c), a.emitted <= Len(a.stash),
         NEW next \in {"validating", "over"}, NEW ds, ds = [cs EXCEPT ![c].at = next],
         NEW name \in {Sql, Validator}, Replies(cs, c, name),
         cs[c].at = "running" => cs[c].tool \in {name, Verified},
         cs[c].at = "validating" \/ name = Validator => next = "over",
         cs[c].at = "validating" => name = Validator,
         b.stash = Append(a.stash, <<name, c>>),
         b.model = a.model, b.at = a.at, b.queue = a.queue, b.emitted = a.emitted, b.cards = a.cards,
         b.blurred = a.blurred
  PROVE  Paired(b, ds, n)
<1>1. /\ Made(ds, n) = Made(cs, n) /\ c \in Calls
      /\ \A d \in Calls : ds[d].tool = cs[d].tool /\ ds[d].at = IF d = c THEN next ELSE cs[d].at
      /\ a.at = "reading" /\ a.model = "acting"
      /\ CallsSound(b, ds, n) /\ QueueSound(b, ds, n) /\ CardsSound(b.cards, ds, n)
  <2>1. GoesOn(a, b, cs, ds, c, next)
    BY DEF GoesOn
  <2>2. GoneOn(a, b, cs, ds, n, c, next)
    BY <2>1, CallGoes
  <2>3. QED
    BY <2>2 DEF GoneOn
<1>2. \A d \in Made(cs, n) : d \in Calls
  BY DEF Made
<1> DEFINE s == a.stash
           t == b.stash
           e == <<name, c>>
<1>3. s \in Seq(Answers) /\ e \in Answers /\ t = Append(s, e)
  BY <1>1 DEF Analyses, Answers, Tools
<1>4. e[1] = name /\ e[2] = c
  OBVIOUS
<1> HIDE DEF e, s, t
<1>5. /\ Len(t) = Len(s) + 1 /\ Len(s) \in Nat /\ DOMAIN s = 1..Len(s) /\ DOMAIN t = 1..(Len(s) + 1)
      /\ \A k \in DOMAIN s : k \in DOMAIN t /\ t[k] = s[k]
      /\ \A k \in DOMAIN t : k \in DOMAIN s \/ (k = Len(t) /\ t[k] = e)
  BY <1>3, QueueAppend
<1>6. a.emitted \in Nat /\ a.emitted <= Len(s)
  BY DEF Analyses, s
<1>7. \A T, d : Yielded(t, a.emitted, T, d) <=> Yielded(s, a.emitted, T, d)
  <2> DEFINE m == a.emitted
  <2> HIDE DEF m
  <2>1. m \in Nat /\ m <= Len(s)
    BY <1>6 DEF m
  <2>2. \A k \in DOMAIN t : k <= m => k \in DOMAIN s
    BY <1>5, <2>1
  <2>3. \A T, d : Yielded(t, m, T, d) <=> Yielded(s, m, T, d)
    BY <1>5, <2>2 DEF Yielded
  <2>4. QED
    BY <2>3 DEF m
<1>8. ASSUME NEW T \in Clear(b) PROVE NamedSound(b, ds, n, T)
  <2>1. OrderSound(a, cs, n, T) /\ FreshSound(a, cs, n, T) /\ PairedUpTo(a.cards, s, a.emitted, T)
    BY <1>1 DEF Paired, Reading, NamedSound, Clear, s
  <2>2. \A d \in Calls : Replies(ds, d, T) <=> Replies(cs, d, T)
    BY <1>1 DEF Replies
  <2>3. \A d \in Made(cs, n) : Replies(cs, d, T) /\ Replies(cs, c, T) /\ d # c => d < c /\ cs[d].at = "over"
    BY <2>1 DEF OrderSound
  <2>4. \A d \in Calls : /\ cs[d].at = "over" => ds[d].at = "over"
                         /\ Runs(ds, d) => Runs(cs, d)
    BY <1>1 DEF Runs
  <2>5. \A k \in DOMAIN s : s[k][1] = T =>
          LET d == s[k][2] IN /\ d \in Made(cs, n) /\ Replies(cs, d, T) /\ cs[d].at \in {"validating", "over"}
                              /\ T = Validator => cs[d].at = "over"
    BY <2>1 DEF OrderSound, s
  <2>6. \A p \in DOMAIN t : t[p][1] = T =>
          LET d == t[p][2] IN /\ d \in Made(ds, n) /\ Replies(ds, d, T) /\ ds[d].at \in {"validating", "over"}
                              /\ T = Validator => ds[d].at = "over"
    <3> SUFFICES ASSUME NEW p \in DOMAIN t, t[p][1] = T
                 PROVE  LET d == t[p][2] IN
                        /\ d \in Made(ds, n) /\ Replies(ds, d, T) /\ ds[d].at \in {"validating", "over"}
                        /\ T = Validator => ds[d].at = "over"
      OBVIOUS
    <3>1. CASE p \in DOMAIN s
      <4> DEFINE d == s[p][2]
      <4>1. t[p][2] = d /\ d \in Made(cs, n) /\ Replies(cs, d, T) /\ cs[d].at \in {"validating", "over"}
        BY <1>5, <2>5, <3>1
      <4>2. T = Validator => cs[d].at = "over"
        BY <1>5, <2>5, <3>1
      <4>2a. d = c => cs[c].at = "validating"
        BY <4>1 DEF Runs
      <4> HIDE DEF d
      <4>3. ds[d].at \in {"validating", "over"} /\ (T = Validator => ds[d].at = "over")
        BY <1>1, <1>2, <4>1, <4>2, <4>2a
      <4>4. QED
        BY <1>1, <1>2, <2>2, <4>1, <4>3
    <3>2. CASE p \notin DOMAIN s
      <4>1. t[p] = e /\ name = T
        BY <1>4, <1>5, <3>2
      <4>2. QED
        BY <1>1, <1>2, <1>4, <2>2, <4>1
    <3>3. QED
      BY <3>1, <3>2
  <2>7. \A p, r \in DOMAIN t : r < p /\ t[p][1] = T /\ t[r][1] = T => t[r][2] < t[p][2]
    <3> SUFFICES ASSUME NEW p \in DOMAIN t, NEW r \in DOMAIN t, r < p, t[p][1] = T, t[r][1] = T
                 PROVE  t[r][2] < t[p][2]
      OBVIOUS
    <3>1. r \in DOMAIN s
      BY <1>5
    <3>2. CASE p \in DOMAIN s
      BY <1>5, <2>1, <3>1, <3>2 DEF OrderSound, s
    <3>3. CASE p \notin DOMAIN s
      <4> DEFINE d == s[r][2]
      <4>1. t[p] = e /\ name = T /\ t[r] = s[r] /\ s[r][1] = T
        BY <1>4, <1>5, <3>1, <3>3
      <4>2. d \in Made(cs, n) /\ Replies(cs, d, T) /\ cs[d].at \in {"validating", "over"}
            /\ (T = Validator => cs[d].at = "over")
        BY <2>5, <3>1, <4>1
      <4>3. d # c
        <5>1. d = c => cs[c].at = "validating"
          BY <4>2 DEF Runs
        <5>2. QED
          BY <4>1, <4>2, <5>1
      <4>4. d < c
        BY <2>3, <4>1, <4>2, <4>3
      <4>5. QED
        BY <1>4, <4>1, <4>4
    <3>4. QED
      BY <3>2, <3>3
  <2>8. \A d \in Made(ds, n) : ds[d].tool = T /\ ds[d].at \in {"validating", "over"} => Includes(t, <<T, d>>)
    <3> SUFFICES ASSUME NEW d \in Made(cs, n), cs[d].tool = T, ds[d].at \in {"validating", "over"}
                 PROVE  Includes(t, <<T, d>>)
      BY <1>1, <1>2
    <3>1. CASE cs[d].at \in {"validating", "over"}
      <4>1. Includes(s, <<T, d>>)
        BY <2>1, <3>1 DEF OrderSound, s
      <4>2. QED
        BY <1>5, <4>1 DEF Includes
    <3>2. CASE cs[d].at \notin {"validating", "over"}
      <4>1. d = c /\ cs[c].at = "running"
        BY <1>1, <1>2, <3>2 DEF Runs
      <4>2. name = T
        BY <4>1 DEF Clear, Sql, Validator, Verified
      <4>3. t[Len(t)] = <<T, d>> /\ Len(t) \in DOMAIN t
        <5>1. Len(t) \in DOMAIN t /\ Len(t) \notin DOMAIN s
          BY <1>5
        <5>2. QED
          BY <1>5, <4>1, <4>2, <5>1 DEF e
      <4>4. QED
        BY <4>3 DEF Includes
    <3>3. QED
      BY <3>1, <3>2
  <2>9. OrderSound(b, ds, n, T)
    <3>1. \A x, d \in Made(ds, n) :
            Replies(ds, x, T) /\ Replies(ds, d, T) /\ Runs(ds, x) /\ x # d => d < x /\ ds[d].at = "over"
      <4>1. \A x, d \in Made(cs, n) :
              Replies(cs, x, T) /\ Replies(cs, d, T) /\ Runs(cs, x) /\ x # d => d < x /\ cs[d].at = "over"
        BY <2>1 DEF OrderSound
      <4>2. ASSUME NEW x \in Made(ds, n), NEW d \in Made(ds, n),
                   Replies(ds, x, T), Replies(ds, d, T), Runs(ds, x), x # d
            PROVE  d < x /\ ds[d].at = "over"
        <5>1. x \in Made(cs, n) /\ d \in Made(cs, n) /\ x \in Calls /\ d \in Calls
          BY <1>1, <1>2
        <5>2. Replies(cs, x, T) /\ Replies(cs, d, T) /\ Runs(cs, x)
          BY <2>2, <2>4, <4>2, <5>1
        <5>3. d < x /\ cs[d].at = "over"
          BY <4>1, <4>2, <5>1, <5>2
        <5>4. QED
          BY <2>4, <5>1, <5>3
      <4>3. QED
        BY <4>2
    <3>2. QED
      BY <2>6, <2>7, <2>8, <3>1 DEF OrderSound, t
  <2>10. \A d : Comes(b, d) <=> Comes(a, d)
    BY DEF Comes
  <2>11. \A p \in DOMAIN t, d \in Made(ds, n) :
           a.emitted < p /\ t[p][1] = T /\ Replies(ds, d, T) /\ Comes(b, d) => d <= t[p][2]
    <3> SUFFICES ASSUME NEW p \in DOMAIN t, NEW d \in Made(cs, n), a.emitted < p, t[p][1] = T,
                        Replies(cs, d, T), Comes(a, d)
                 PROVE  d <= t[p][2]
      BY <1>1, <1>2, <2>2, <2>10
    <3>1. CASE p \in DOMAIN s
      BY <1>5, <2>1, <3>1 DEF FreshSound, s
    <3>2. CASE p \notin DOMAIN s
      <4>1. t[p] = e /\ name = T
        BY <1>4, <1>5, <3>2
      <4>2. d = c \/ d < c
        BY <2>3, <4>1
      <4>3. d \in Nat /\ c \in Nat
        BY <1>1, <1>2 DEF Calls
      <4>4. QED
        BY <1>4, <4>1, <4>2, <4>3
    <3>3. QED
      BY <3>1, <3>2
  <2>12. \A d \in Made(ds, n) : ds[d].tool = T /\ Yielded(t, a.emitted, T, d) => ~Includes(b.queue, Use(d))
    BY <1>1, <1>2, <1>7, <2>1 DEF FreshSound, s
  <2>13. FreshSound(b, ds, n, T)
    BY <2>11, <2>12 DEF FreshSound, t
  <2>14. PairedUpTo(b.cards, t, b.emitted, T)
    BY <1>7, <2>1 DEF PairedUpTo
  <2>15. QED
    BY <2>9, <2>13, <2>14 DEF NamedSound, t
<1>9. QED
  BY <1>1, <1>8 DEF Paired, Reading

\* A tool fails: the result that never comes blurs the name of the tool.
LEMMA FailurePairs ==
  ASSUME ChatAssumption, NEW a \in Analyses, NEW b \in Analyses, NEW cs \in CallLists, NEW n \in Questions,
         Paired(a, cs, n), NEW c \in Made(cs, n), Runs(cs, c),
         NEW next, next = "over", NEW ds, ds = [cs EXCEPT ![c].at = next],
         b.model = a.model, b.at = a.at, b.queue = a.queue, b.emitted = a.emitted, b.cards = a.cards,
         b.stash = a.stash, a.blurred \subseteq b.blurred, cs[c].at = "running" => cs[c].tool \in b.blurred
  PROVE  Paired(b, ds, n)
<1>0. next \in {"validating", "over"}
  OBVIOUS
<1>1. /\ Made(ds, n) = Made(cs, n) /\ c \in Calls
      /\ \A d \in Calls : ds[d].tool = cs[d].tool /\ ds[d].at = IF d = c THEN next ELSE cs[d].at
      /\ a.at = "reading" /\ a.model = "acting"
      /\ CallsSound(b, ds, n) /\ QueueSound(b, ds, n) /\ CardsSound(b.cards, ds, n)
  <2>1. GoesOn(a, b, cs, ds, c, next)
    BY DEF GoesOn
  <2>2. GoneOn(a, b, cs, ds, n, c, next)
    BY <1>0, <2>1, CallGoes
  <2>3. QED
    BY <2>2 DEF GoneOn
<1>2. \A d \in Made(cs, n) : d \in Calls
  BY DEF Made
<1>3. ASSUME NEW T \in Clear(b) PROVE NamedSound(b, ds, n, T)
  <2>1. OrderSound(a, cs, n, T) /\ FreshSound(a, cs, n, T) /\ PairedUpTo(a.cards, a.stash, a.emitted, T)
    BY <1>1 DEF Paired, Reading, NamedSound, Clear
  <2>2. \A d \in Calls : Replies(ds, d, T) <=> Replies(cs, d, T)
    BY <1>1 DEF Replies
  <2>4. \A d \in Calls : /\ cs[d].at = "over" => ds[d].at = "over"
                         /\ cs[d].at \in {"validating", "over"} => ds[d].at \in {"validating", "over"}
                         /\ Runs(ds, d) => Runs(cs, d)
    BY <1>1 DEF Runs
  <2>5. \A p \in DOMAIN a.stash : a.stash[p][1] = T =>
          LET d == a.stash[p][2] IN
          /\ d \in Made(ds, n) /\ Replies(ds, d, T) /\ ds[d].at \in {"validating", "over"}
          /\ T = Validator => ds[d].at = "over"
    <3>1. \A p \in DOMAIN a.stash : a.stash[p][1] = T =>
            LET d == a.stash[p][2] IN
            /\ d \in Made(cs, n) /\ Replies(cs, d, T) /\ cs[d].at \in {"validating", "over"}
            /\ T = Validator => cs[d].at = "over"
      BY <2>1 DEF OrderSound
    <3>2. QED
      BY <1>1, <1>2, <2>2, <2>4, <3>1
  <2>6. \A d \in Made(ds, n) : ds[d].tool = T /\ ds[d].at \in {"validating", "over"} => Includes(a.stash, <<T, d>>)
    <3> SUFFICES ASSUME NEW d \in Made(cs, n), cs[d].tool = T, ds[d].at \in {"validating", "over"}
                 PROVE  Includes(a.stash, <<T, d>>)
      BY <1>1, <1>2
    <3>1. cs[d].at \in {"validating", "over"}
      <4>1. d = c => cs[c].at = "validating"
        BY DEF Clear, Runs
      <4>2. QED
        BY <1>1, <1>2, <4>1
    <3>2. QED
      BY <2>1, <3>1 DEF OrderSound
  <2>7. \A x, d \in Made(ds, n) :
          Replies(ds, x, T) /\ Replies(ds, d, T) /\ Runs(ds, x) /\ x # d => d < x /\ ds[d].at = "over"
    <3>1. \A x, d \in Made(cs, n) :
            Replies(cs, x, T) /\ Replies(cs, d, T) /\ Runs(cs, x) /\ x # d => d < x /\ cs[d].at = "over"
      BY <2>1 DEF OrderSound
    <3>2. Made(ds, n) = Made(cs, n)
      BY <1>1
    <3>3. \A d \in Calls : (Runs(ds, d) => Runs(cs, d)) /\ (cs[d].at = "over" => ds[d].at = "over")
      BY <2>4
    <3>4. QED
      BY <1>2, <2>2, <3>1, <3>2, <3>3
  <2>8. OrderSound(b, ds, n, T)
    BY <2>1, <2>5, <2>6, <2>7 DEF OrderSound
  <2>9. FreshSound(b, ds, n, T)
    <3>1. \A d : Comes(b, d) <=> Comes(a, d)
      BY DEF Comes
    <3>2. QED
      BY <1>1, <1>2, <2>1, <2>2, <3>1 DEF FreshSound
  <2>10. QED
    BY <2>1, <2>8, <2>9 DEF NamedSound
<1>4. QED
  BY <1>1, <1>3 DEF Paired, Reading

\* What is left of a queue.
LEMMA TailIs ==
  ASSUME NEW S, NEW q \in Seq(S), q # <<>>, NEW r, r = Tail(q)
  PROVE  /\ r \in Seq(S) /\ Len(r) = Len(q) - 1 /\ Len(q) \in Nat /\ 1 \in DOMAIN q /\ Head(q) = q[1]
         /\ \A k \in DOMAIN r : k + 1 \in DOMAIN q /\ k + 1 # 1 /\ r[k] = q[k + 1] /\ k \in Nat
<1>1. Len(q) \in Nat /\ Len(q) # 0 /\ DOMAIN q = 1..Len(q)
  OBVIOUS
<1>2. r \in Seq(S) /\ Len(r) = Len(q) - 1
  BY HeadTailProperties
<1>3. DOMAIN r = 1..(Len(q) - 1)
  BY <1>2
<1>4. \A k \in 1..(Len(q) - 1) : r[k] = q[k + 1]
  BY HeadTailProperties
<1>5. \A k \in 1..(Len(q) - 1) : k + 1 \in 1..Len(q) /\ k + 1 # 1 /\ k \in Nat
  BY <1>1
<1>6. 1 \in DOMAIN q /\ Head(q) = q[1]
  BY <1>1
<1>7. QED
  BY <1>1, <1>2, <1>3, <1>4, <1>5, <1>6

\* A flush makes no card of a call, and takes none away.
LEMMA CardsAfter ==
  ASSUME ChatAssumption, NEW a \in Analyses, a.emitted <= Len(a.stash), NEW cs, NEW n,
         NEW cards \in Seq(Cards), CardsSound(cards, cs, n), NEW out, out = FoldLeft(AddResult, cards, Fresh(a))
  PROVE  /\ CardsSound(out, cs, n)
         /\ \A c \in Calls : Carded(out, c) <=> Carded(cards, c)
<1>1. Fresh(a) \in Seq(Answers)
  BY FreshIs
<1> DEFINE seq == Fresh(a)
<1> HIDE DEF seq
<1>2. PICK h : Stepwise(h, cards, seq) /\ FoldLeft(AddResult, cards, seq) = h[Len(seq)]
  BY <1>1, ResultsAdded DEF seq
<1>3. Len(seq) \in 0..Len(seq)
  BY <1>1 DEF seq
<1>4. \A k \in 0..Len(seq) :
        /\ h[k] \in Seq(Cards) /\ CardsSound(h[k], cs, n)
        /\ \A c \in Calls : Carded(h[k], c) <=> Carded(cards, c)
  BY <1>1, <1>2, CardsStay DEF seq
<1>5. QED
  BY <1>2, <1>3, <1>4 DEF seq

\* The calls, as a value.
LEMMA CallsAreTyped ==
  ASSUME CallsTyped
  PROVE  calls \in CallLists
BY DEF CallsTyped, CallLists

\* The producer reads an event: its card, if it is a tool use, and what the
\* stash has.
LEMMA ReadPairs ==
  ASSUME ChatAssumption, ChatTyped, NEW n \in Questions, Paired(analysis[n], calls, n), StreamRead(n)
  PROVE  Paired(YieldResults(analysis[n], CardsThen(n)), calls, n)
<1> DEFINE a == analysis[n]
           cards == CardsThen(n)
           b == YieldResults(a, cards)
           q == a.queue
           r == b.queue
<1>1. a \in Analyses /\ a.emitted <= Len(a.stash) /\ cards \in Seq(Cards) /\ q # <<>> /\ a.at = "reading"
  BY ReadIs DEF StreamRead
<1>2. /\ b \in Analyses /\ b.at = a.at /\ b.model = a.model /\ r = Tail(q)
      /\ b.stash = a.stash /\ b.emitted = Len(a.stash)
      /\ b.cards = FoldLeft(AddResult, cards, Fresh(a)) /\ b.blurred = a.blurred \cup Early(a)
  BY <1>1, YieldIs
<1>3. calls \in CallLists
  BY CallsAreTyped DEF ChatTyped
<1>4. Paired(a, calls, n)
  OBVIOUS
<1>5. CallsSound(a, calls, n) /\ QueueSound(a, calls, n) /\ CardsSound(a.cards, calls, n)
  BY <1>1 DEF Paired, Reading
<1>6. a.cards \in Seq(Cards) /\ q \in Seq(Happenings) /\ a.stash \in Seq(Answers) /\ a.emitted \in Nat
  BY <1>1 DEF Analyses
<1>7. \/ cards = a.cards /\ Head(q)[1] = "event"
      \/ \E c \in Calls :
           Head(q) = Use(c) /\ cards = Append(a.cards, [tool |-> calls[c].tool, call |-> c, result |-> 0])
  <2>1. Head(q) = q[1] /\ 1 \in DOMAIN q
    BY <1>1, <1>6
  <2>2. Head(q) \in Happenings /\ Head(q)[1] \in {"use", "event"}
    BY <1>6, <2>1 DEF StreamRead
  <2>3. CASE Head(q)[1] = "event"
    BY <2>3 DEF CardsThen
  <2>4. CASE Head(q)[1] = "use"
    <3>1. PICK c \in Calls : Head(q) = <<"use", c>>
      BY <2>2, <2>4 DEF Happenings
    <3>2. cards = AddCall(a.cards, c)
      BY <2>4, <3>1 DEF CardsThen
    <3>3. QED
      BY <3>1, <3>2 DEF AddCall, Use
  <2>5. QED
    BY <2>2, <2>3, <2>4
<1> HIDE DEF a, cards, b, q, r
<1>8. /\ r \in Seq(Happenings) /\ Len(r) = Len(q) - 1 /\ Len(q) \in Nat /\ 1 \in DOMAIN q /\ Head(q) = q[1]
      /\ \A k \in DOMAIN r : k + 1 \in DOMAIN q /\ k + 1 # 1 /\ r[k] = q[k + 1] /\ k \in Nat
  BY <1>1, <1>2, <1>6, TailIs
<1>9. \A c \in Calls : Includes(r, Use(c)) => Includes(q, Use(c)) /\ Head(q) # Use(c) /\ AtMostOnce(r, Use(c))
  <2> SUFFICES ASSUME NEW c \in Calls, Includes(r, Use(c))
               PROVE  Includes(q, Use(c)) /\ Head(q) # Use(c) /\ AtMostOnce(r, Use(c))
    OBVIOUS
  <2>1. PICK k \in DOMAIN r : r[k] = Use(c)
    BY DEF Includes
  <2>2. q[k + 1] = Use(c) /\ k + 1 \in DOMAIN q
    BY <1>8, <2>1
  <2>3. Includes(q, Use(c))
    BY <2>2 DEF Includes
  <2>4. AtMostOnce(q, Use(c))
    BY <1>5, <2>3 DEF QueueSound, q
  <2>5. Head(q) # Use(c)
    BY <1>8, <2>2, <2>4 DEF AtMostOnce
  <2>6. ASSUME NEW i \in DOMAIN r, NEW j \in DOMAIN r, r[i] = Use(c), r[j] = Use(c) PROVE i = j
    <3>1. i + 1 = j + 1
      BY <1>8, <2>4, <2>6 DEF AtMostOnce
    <3>2. i \in Nat /\ j \in Nat
      BY <1>8
    <3>3. QED
      BY <3>1, <3>2
  <2>7. QED
    BY <2>3, <2>5, <2>6 DEF AtMostOnce
<1>10. \A c \in Calls : Head(q) = Use(c) => c \in Made(calls, n) /\ ~Carded(a.cards, c) /\ Includes(q, Use(c))
  <2>1. \A c \in Calls : Head(q) = Use(c) => Includes(q, Use(c))
    BY <1>8 DEF Includes
  <2>2. QED
    BY <1>5, <2>1 DEF QueueSound, q
<1>11. /\ DOMAIN a.cards \subseteq DOMAIN cards
       /\ \A i \in DOMAIN a.cards : cards[i] = a.cards[i]
       /\ \A i, j \in DOMAIN cards \ DOMAIN a.cards : i = j
       /\ \A i \in DOMAIN cards \ DOMAIN a.cards : \E c \in Calls :
            Head(q) = Use(c) /\ cards[i].tool = calls[c].tool /\ cards[i].call = c /\ cards[i].result = 0
  <2>1. CASE cards = a.cards /\ Head(q)[1] = "event"
    BY <2>1
  <2>2. ASSUME NEW c \in Calls, Head(q) = Use(c),
               cards = Append(a.cards, [tool |-> calls[c].tool, call |-> c, result |-> 0])
        PROVE  <1>11
    <3> DEFINE x == [tool |-> calls[c].tool, call |-> c, result |-> 0]
               old == a.cards
    <3>1. x.tool = calls[c].tool /\ x.call = c /\ x.result = 0 /\ x \in Cards
      BY <1>3 DEF CallLists, Cards, Calls, ChatAssumption
    <3>2. cards = Append(old, x) /\ old \in Seq(Cards)
      BY <1>6, <2>2
    <3> HIDE DEF x, old
    <3>3. /\ DOMAIN old = 1..Len(old) /\ DOMAIN cards = 1..(Len(old) + 1) /\ Len(old) \in Nat
          /\ \A i \in 1..Len(old) : cards[i] = old[i]
          /\ cards[Len(old) + 1] = x
      BY <3>1, <3>2, AppendProperties
    <3>4. \A i \in DOMAIN cards \ DOMAIN old : i = Len(old) + 1
      BY <3>3
    <3>5. DOMAIN old \subseteq DOMAIN cards
      BY <3>3
    <3>6. QED
      BY <2>2, <3>1, <3>3, <3>4, <3>5 DEF old
  <2>3. QED
    BY <1>7, <2>1, <2>2
<1>12. CardsSound(cards, calls, n)
  <2>0. \A c \in Calls : c # 0
    BY DEF Calls
  <2>1. \A i \in DOMAIN cards : cards[i].call # 0 =>
          cards[i].call \in Made(calls, n) /\ cards[i].tool = calls[cards[i].call].tool
    BY <1>5, <1>10, <1>11 DEF CardsSound
  <2>2. \A i \in DOMAIN cards : cards[i].call = 0 => cards[i].result # 0
    BY <1>5, <1>11, <2>0 DEF CardsSound
  <2>3. \A i, j \in DOMAIN cards : cards[i].call = cards[j].call /\ cards[i].call # 0 => i = j
    <3> SUFFICES ASSUME NEW i \in DOMAIN cards, NEW j \in DOMAIN cards,
                        cards[i].call = cards[j].call, cards[i].call # 0
                 PROVE  i = j
      OBVIOUS
    <3>1. CASE i \in DOMAIN a.cards /\ j \in DOMAIN a.cards
      BY <1>5, <1>11, <3>1 DEF CardsSound
    <3>2. CASE i \notin DOMAIN a.cards /\ j \notin DOMAIN a.cards
      BY <1>11, <3>2
    <3>3. CASE i \in DOMAIN a.cards /\ j \notin DOMAIN a.cards
      <4>1. cards[j].call \in Calls /\ ~Carded(a.cards, cards[j].call)
        BY <1>10, <1>11, <3>3
      <4>2. QED
        BY <1>11, <3>3, <4>1 DEF Carded
    <3>4. CASE i \notin DOMAIN a.cards /\ j \in DOMAIN a.cards
      <4>1. cards[i].call \in Calls /\ ~Carded(a.cards, cards[i].call)
        BY <1>10, <1>11, <3>4
      <4>2. QED
        BY <1>11, <3>4, <4>1 DEF Carded
    <3>5. QED
      BY <3>1, <3>2, <3>3, <3>4
  <2>4. QED
    BY <2>1, <2>2, <2>3 DEF CardsSound
<1>13. \A c \in Calls : Carded(cards, c) <=> Carded(a.cards, c) \/ Head(q) = Use(c)
  <2> SUFFICES ASSUME NEW c \in Calls PROVE Carded(cards, c) <=> Carded(a.cards, c) \/ Head(q) = Use(c)
    OBVIOUS
  <2>1. ASSUME Carded(cards, c) PROVE Carded(a.cards, c) \/ Head(q) = Use(c)
    BY <1>11, <2>1 DEF Carded
  <2>2. ASSUME Carded(a.cards, c) PROVE Carded(cards, c)
    BY <1>11, <2>2 DEF Carded
  <2>3. ASSUME Head(q) = Use(c) PROVE Carded(cards, c)
    <3>1. Head(q)[1] # "event" /\ \A d \in Calls : Use(c) = Use(d) => c = d
      BY <2>3 DEF Use
    <3>2. cards = Append(a.cards, [tool |-> calls[c].tool, call |-> c, result |-> 0])
      BY <1>7, <2>3, <3>1
    <3>3. QED
      <4> DEFINE x == [tool |-> calls[c].tool, call |-> c, result |-> 0]
                 old == a.cards
      <4>1. x.call = c
        OBVIOUS
      <4>2. cards = Append(old, x) /\ old \in Seq(Cards)
        BY <1>6, <3>2
      <4>2a. x \in Cards
        BY <1>3 DEF CallLists, Cards, Calls, ChatAssumption
      <4> HIDE DEF x, old
      <4>3. DOMAIN cards = 1..(Len(old) + 1) /\ Len(old) \in Nat /\ cards[Len(old) + 1] = x
        BY <4>2, <4>2a, AppendProperties
      <4>4. Len(old) + 1 \in DOMAIN cards
        BY <4>3
      <4>5. QED
        BY <4>1, <4>3, <4>4 DEF Carded
  <2>4. QED
    BY <2>1, <2>2, <2>3
<1>14. /\ CardsSound(b.cards, calls, n)
       /\ \A c \in Calls : Carded(b.cards, c) <=> Carded(cards, c)
  <2> DEFINE out == b.cards
  <2>1. out = FoldLeft(AddResult, cards, Fresh(a))
    BY <1>2
  <2> HIDE DEF out
  <2>2. CardsSound(out, calls, n) /\ \A c \in Calls : Carded(out, c) <=> Carded(cards, c)
    BY <1>1, <1>12, <2>1, CardsAfter
  <2>3. QED
    BY <2>2 DEF out
<1>15. QueueSound(b, calls, n)
  <2>1. \A c \in Calls : Includes(r, Use(c)) =>
          c \in Made(calls, n) /\ ~Carded(b.cards, c) /\ AtMostOnce(r, Use(c))
    BY <1>5, <1>9, <1>13, <1>14 DEF QueueSound, q
  <2>2. ASSUME NEW k \in DOMAIN r, r[k][1] \in {"end", "error"} PROVE b.model = "ended" /\ k = Len(r)
    <3>1. q[k + 1][1] \in {"end", "error"} /\ k + 1 \in DOMAIN q
      BY <1>8, <2>2
    <3>2. a.model = "ended" /\ k + 1 = Len(q)
      BY <1>5, <3>1 DEF QueueSound, q
    <3>3. QED
      BY <1>2, <1>8, <3>2
  <2>3. Includes(r, <<"end", 0>>) => \A c \in Made(calls, n) : calls[c].at = "over"
    <3>1. Includes(r, <<"end", 0>>) => Includes(q, <<"end", 0>>)
      BY <1>8 DEF Includes
    <3>2. QED
      BY <1>5, <3>1 DEF QueueSound, q
  <2>4. QED
    BY <1>2, <2>1, <2>2, <2>3 DEF QueueSound, r
<1>16. ASSUME NEW T \in Clear(b) PROVE NamedSound(b, calls, n, T)
  <2>1. T \in Clear(a) /\ T \in {Sql, Validator} /\ T \notin Early(a)
    BY <1>2 DEF Clear
  <2>2. OrderSound(a, calls, n, T) /\ FreshSound(a, calls, n, T) /\ PairedUpTo(a.cards, a.stash, a.emitted, T)
    BY <1>1, <1>4, <2>1 DEF Paired, Reading, NamedSound
  <2>3. OrderSound(b, calls, n, T)
    BY <1>2, <2>2 DEF OrderSound
  <2>4. PairedUpTo(cards, a.stash, a.emitted, T)
    <3> SUFFICES ASSUME NEW i \in DOMAIN cards, cards[i].tool = T, cards[i].call # 0
                 PROVE  cards[i].result = IF Yielded(a.stash, a.emitted, T, cards[i].call) THEN cards[i].call ELSE 0
      BY DEF PairedUpTo
    <3>1. CASE i \in DOMAIN a.cards
      BY <1>11, <2>2, <3>1 DEF PairedUpTo
    <3>2. CASE i \notin DOMAIN a.cards
      <4>1. PICK c \in Calls : Head(q) = Use(c) /\ cards[i].tool = calls[c].tool /\ cards[i].call = c /\ cards[i].result = 0
        BY <1>11, <3>2
      <4>2. ~Yielded(a.stash, a.emitted, T, c)
        BY <1>10, <2>2, <4>1 DEF FreshSound, q
      <4>3. QED
        BY <4>1, <4>2
    <3>3. QED
      BY <3>1, <3>2
  <2>5. \A p \in DOMAIN a.stash, c \in Made(calls, n) :
          a.emitted < p /\ a.stash[p][1] = T /\ Replies(calls, c, T) /\ Carded(cards, c) => c <= a.stash[p][2]
    <3>1. \A c \in Made(calls, n) : c \in Calls
      BY DEF Made
    <3>2. \A c \in Made(calls, n) : Carded(cards, c) => Comes(a, c)
      BY <1>1, <1>13, <3>1 DEF Comes, q
    <3>3. QED
      BY <2>2, <3>2 DEF FreshSound
  <2>6. PairedUpTo(b.cards, a.stash, Len(a.stash), T)
    <3> DEFINE out == b.cards
    <3>1. out = FoldLeft(AddResult, cards, Fresh(a))
      BY <1>2
    <3> HIDE DEF out
    <3>2. PairedUpTo(out, a.stash, Len(a.stash), T)
      BY <1>1, <1>3, <1>5, <1>12, <2>1, <2>2, <2>4, <2>5, <3>1, ResultsPaired DEF CallLists
    <3>3. QED
      BY <3>2 DEF out
  <2>7. FreshSound(b, calls, n, T)
    <3>1. \A p \in DOMAIN b.stash : ~(b.emitted < p)
      BY <1>2, <1>6
    <3>2. ASSUME NEW c \in Made(calls, n), calls[c].tool = T, Yielded(b.stash, b.emitted, T, c), Includes(r, Use(c))
          PROVE  FALSE
      <4>1. c \in Calls /\ Includes(q, Use(c))
        BY <1>9, <3>2 DEF Made
      <4>2. ~Yielded(a.stash, a.emitted, T, c)
        BY <2>2, <3>2, <4>1 DEF FreshSound, q
      <4>3. PICK p \in DOMAIN a.stash : a.stash[p] = <<T, c>>
        BY <1>2, <3>2 DEF Yielded
      <4>4. ~(p <= a.emitted)
        BY <4>2, <4>3 DEF Yielded
      <4> DEFINE k == p - a.emitted
                 fresh == Fresh(a)
      <4>5. /\ Len(fresh) = Len(a.stash) - a.emitted /\ fresh \in Seq(Answers)
            /\ \A i \in 1..Len(fresh) : fresh[i] = a.stash[a.emitted + i]
        BY <1>1, FreshIs
      <4> HIDE DEF fresh
      <4>6a. /\ p \in 1..Len(a.stash) /\ a.emitted \in Nat /\ Len(a.stash) \in Nat
             /\ DOMAIN fresh = 1..Len(fresh) /\ Len(fresh) = Len(a.stash) - a.emitted
        BY <1>6, <4>5
      <4>6. k \in 1..Len(fresh) /\ a.emitted + k = p /\ DOMAIN fresh = 1..Len(fresh)
        <5> DEFINE x == a.emitted
                   y == Len(a.stash)
                   z == Len(fresh)
        <5>1. p \in 1..y /\ x \in Nat /\ y \in Nat /\ z = y - x /\ ~(p <= x)
          BY <4>4, <4>6a
        <5> HIDE DEF x, y, z
        <5>2. p - x \in 1..z /\ x + (p - x) = p
          BY <5>1
        <5>3. QED
          BY <4>6a, <5>2 DEF x, z
      <4>7. <<T, c>> \in ToSet(fresh)
        <5>1. fresh[k] = <<T, c>>
          BY <4>3, <4>5, <4>6
        <5>2. QED
          BY <4>6, <5>1 DEF ToSet
      <4>8. <<"use", c>> \in ToSet(Tail(a.queue))
        BY <1>2, <3>2 DEF Includes, ToSet, Use, q
      <4>9. T \in Early(a)
        <5> DEFINE s == <<T, c>>
        <5>1. s[1] = T /\ s[2] = c /\ s \in ToSet(Fresh(a))
          BY <4>7 DEF fresh
        <5>2. s \in {x \in ToSet(Fresh(a)) : calls[x[2]].tool = x[1] /\ <<"use", x[2]>> \in ToSet(Tail(a.queue))}
          BY <3>2, <4>8, <5>1
        <5> HIDE DEF s
        <5>3. QED
          BY <5>1, <5>2 DEF Early
      <4>10. QED
        BY <2>1, <4>9
    <3>3. QED
      BY <3>1, <3>2 DEF FreshSound, r
  <2>8. QED
    BY <1>2, <2>3, <2>6, <2>7 DEF NamedSound
<1>17. CallsSound(b, calls, n)
  BY <1>2, <1>5 DEF CallsSound
<1>18. Paired(b, calls, n)
  BY <1>1, <1>2, <1>14, <1>15, <1>16, <1>17 DEF Paired, Reading
<1>19. QED
  BY <1>18 DEF b, a, cards

\* The end of the stream: every call has answered, or the answer is cut.
LEMMA EndPairs ==
  ASSUME ChatAssumption, ChatTyped, NEW n \in Questions, Paired(analysis[n], calls, n), StreamEnds(n)
  PROVE  Paired(Ended(Rest(n)), calls, n)
<1> DEFINE a == analysis[n]
           b == Rest(n)
           d == Ended(b)
           q == a.queue
<1>1. /\ a \in Analyses /\ a.emitted <= Len(a.stash) /\ a.cards \in Seq(Cards) /\ q # <<>> /\ a.at = "reading"
      /\ b \in Analyses
  BY EndIs DEF StreamEnds
<1>2. d.at = "saving" /\ d.cards = b.cards /\ d.blurred = b.blurred /\ d.cut = b.cut /\ d.model = b.model
  BY <1>1, EndedIs
<1>3. calls \in CallLists
  BY CallsAreTyped DEF ChatTyped
<1>4. CallsSound(a, calls, n) /\ QueueSound(a, calls, n) /\ CardsSound(a.cards, calls, n)
      /\ \A T \in Clear(a) : NamedSound(a, calls, n, T)
  BY <1>1 DEF Paired, Reading
<1>5. q \in Seq(Happenings) /\ a.stash \in Seq(Answers)
  BY <1>1 DEF Analyses
<1>6. Head(q) = q[1] /\ 1 \in DOMAIN q
  BY <1>1, <1>5
<1>7. Head(q)[1] \in {"end", "error"}
  BY DEF StreamEnds
<1>8. a.model = "ended"
  BY <1>4, <1>6, <1>7 DEF QueueSound
<1>9. b.model = a.model /\ a.blurred \subseteq b.blurred
  <2>1. CASE Head(q)[1] = "end"
    <3>1. b = YieldResults(a, a.cards)
      BY <2>1 DEF Rest
    <3>2. QED
      BY <1>1, <3>1, YieldIs
  <2>2. CASE Head(q)[1] # "end"
    <3>1. b = Cut(a)
      BY <2>2 DEF Rest
    <3>2. QED
      BY <1>1, <3>1, CutIs
  <2>3. QED
    BY <2>1, <2>2
<1>10. CallsSound(d, calls, n)
  <2>1. d.model = "ended"
    BY <1>2, <1>8, <1>9
  <2>2. \A c \in Made(calls, n) : ~Runs(calls, c)
    BY <1>4, <1>8 DEF CallsSound
  <2>3. QED
    BY <1>4, <2>1, <2>2 DEF CallsSound
<1>11. ASSUME NEW i \in DOMAIN b.cards, b.cards[i].call # 0, b.cards[i].tool \in Clear(b)
       PROVE  b.cards[i].result = b.cards[i].call \/ (b.cut /\ b.cards[i].result = 0)
  <2> DEFINE T == b.cards[i].tool
             out == b.cards
  <2>1. T \in Clear(a) /\ T \in {Sql, Validator}
    BY <1>9, <1>11 DEF Clear
  <2>2. OrderSound(a, calls, n, T) /\ FreshSound(a, calls, n, T) /\ PairedUpTo(a.cards, a.stash, a.emitted, T)
    BY <1>4, <2>1 DEF NamedSound
  <2> HIDE DEF T
  <2>3. CASE Head(q)[1] = "end"
    <3>1. b = YieldResults(a, a.cards)
      BY <2>3 DEF Rest
    <3>2. out = FoldLeft(AddResult, a.cards, Fresh(a))
      BY <1>1, <3>1, YieldIs
    <3> HIDE DEF a, out, b
    <3>3. \A p \in DOMAIN a.stash, c \in Made(calls, n) :
            a.emitted < p /\ a.stash[p][1] = T /\ Replies(calls, c, T) /\ Carded(a.cards, c) => c <= a.stash[p][2]
      BY <2>2 DEF FreshSound, Comes
    <3>4. PairedUpTo(out, a.stash, Len(a.stash), T)
      BY <1>1, <1>3, <1>4, <2>1, <2>2, <3>2, <3>3, ResultsPaired DEF CallLists
    <3>5. CardsSound(out, calls, n)
      BY <1>1, <1>4, <3>2, CardsAfter
    <3>6. i \in DOMAIN out /\ out[i].call # 0 /\ out[i].tool = T
      BY <1>11 DEF out, T
    <3>7. out[i].call \in Made(calls, n) /\ calls[out[i].call].tool = T
      BY <3>5, <3>6 DEF CardsSound
    <3>8. Includes(a.queue, <<"end", 0>>)
      <4>1. Head(q) \in Happenings
        BY <1>5, <1>6
      <4>2. Head(q) = <<"end", 0>>
        BY <2>3, <4>1 DEF Happenings
      <4>3. QED
        BY <1>6, <4>2 DEF Includes
    <3>9. calls[out[i].call].at = "over"
      BY <1>4, <3>7, <3>8 DEF QueueSound
    <3>10. Includes(a.stash, <<T, out[i].call>>)
      BY <2>2, <3>7, <3>9 DEF OrderSound
    <3>11. Yielded(a.stash, Len(a.stash), T, out[i].call)
      <4>1. \A p \in DOMAIN a.stash : p <= Len(a.stash)
        BY <1>5
      <4>2. QED
        BY <3>10, <4>1 DEF Includes, Yielded
    <3>12. out[i].result = out[i].call
      BY <3>4, <3>6, <3>11 DEF PairedUpTo
    <3>13. QED
      BY <3>12 DEF out
  <2>4. CASE Head(q)[1] # "end"
    <3>1. b = Cut(a)
      BY <2>4 DEF Rest
    <3>2. b.cards = a.cards /\ b.cut = TRUE
      BY <1>1, <3>1, CutIs
    <3>3. QED
      BY <1>11, <2>2, <3>2 DEF PairedUpTo, T
  <2>5. QED
    BY <2>3, <2>4
<1>12. SavedSound(d)
  <2> HIDE DEF b, d
  <2>1. QED
    BY <1>2, <1>11 DEF SavedSound, Clear
<1>13. Paired(d, calls, n)
  <2> HIDE DEF b, d
  <2>1. QED
    BY <1>2, <1>10, <1>12 DEF Paired
<1>14. QED
  BY <1>13

\* What the pairs of every question need of a step at one of them.
LEMMA OnePairs ==
  ASSUME ChatTyped, NEW n \in Questions, \A m \in Questions : Paired(analysis[m], calls, m),
         Paired(analysis'[n], calls', n),
         \A m \in Questions \ {n} : SameStream(analysis[m], analysis'[m]) /\ SameCalls(calls, calls', m)
  PROVE  \A m \in Questions : Paired(analysis'[m], calls', m)
<1>1. ASSUME NEW m \in Questions, m # n PROVE Paired(analysis'[m], calls', m)
  <2>1. Paired(analysis[m], calls, m) /\ SameStream(analysis[m], analysis'[m]) /\ SameCalls(calls, calls', m)
    BY <1>1
  <2>2. QED
    BY <2>1, PairedSame
<1>2. QED
  BY <1>1

\* What does not change is the same.
LEMMA SameIsSame ==
  ASSUME NEW a, NEW cs, NEW n
  PROVE  SameStream(a, a) /\ SameCalls(cs, cs, n)
BY DEF SameStream, SameCalls

\* A step of one analysis leaves the others.
LEMMA OthersSame ==
  ASSUME ChatTyped, NEW n \in Questions, NEW b, analysis' = [analysis EXCEPT ![n] = b], UNCHANGED calls
  PROVE  /\ analysis'[n] = b
         /\ \A m \in Questions \ {n} : SameStream(analysis[m], analysis'[m]) /\ SameCalls(calls, calls', m)
<1>1. analysis \in [Questions -> Analyses]
  BY DEF ChatTyped, AnalysesTyped
<1>2. analysis'[n] = b /\ \A m \in Questions \ {n} : analysis'[m] = analysis[m]
  BY <1>1
<1>3. QED
  BY <1>2, SameIsSame

\* A call of n changes, of no other question.
LEMMA OthersCalls ==
  ASSUME NEW cs \in CallLists, NEW ds, NEW c \in Calls, NEW n \in Questions, NEW m \in Questions, m # n,
         NEW x, ds = [cs EXCEPT ![c] = x], x.of = n, cs[c].at = "unused" \/ cs[c].of = n
  PROVE  SameCalls(cs, ds, m)
<1>1. ds[c] = x /\ \A d \in Calls : d # c => ds[d] = cs[d]
  BY DEF CallLists
<1>2. c \notin Made(cs, m) /\ c \notin Made(ds, m)
  BY <1>1 DEF Made
<1>3. Made(ds, m) = Made(cs, m)
  BY <1>1, <1>2 DEF Made
<1>4. QED
  BY <1>1, <1>2, <1>3 DEF SameCalls, Made

\* While the model talks or has ended no tool runs.
LEMMA NoneRun ==
  ASSUME ChatTyped, NEW n \in Questions, PairsSound, analysis[n].model # "acting"
  PROVE  /\ \A c \in Made(calls, n) : ~Runs(calls, c)
         /\ CallsOf(n, "asked") = {} => \A c \in Made(calls, n) : calls[c].at = "over"
<1>1. CallsSound(analysis[n], calls, n)
  BY DEF PairsSound, Paired
<1>2. \A c \in Made(calls, n) : ~Runs(calls, c)
  BY <1>1 DEF CallsSound
<1>3. \A c \in Calls : calls[c].at \in CallStages
  BY DEF ChatTyped, CallsTyped
<1>4. QED
  BY <1>2, <1>3 DEF Made, Runs, CallsOf, CallStages

\* One more event in the queue.
LEMMA AgentPairs ==
  ASSUME ChatAssumption, ChatTyped, PairsSound, NEW n \in Questions,
         analysis[n].at = "reading", analysis[n].model # "ended",
         \A c \in Made(calls, n) : ~Runs(calls, c),
         NEW e \in {<<"event", 0>>, <<"end", 0>>, <<"error", 0>>},
         NEW m, m = IF e[1] = "event" THEN "talking" ELSE "ended",
         e[1] = "end" => \A c \in Made(calls, n) : calls[c].at = "over",
         analysis' = [analysis EXCEPT ![n] = [Enqueue(n, e) EXCEPT !.model = m]],
         UNCHANGED calls
  PROVE  PairsSound'
<1> DEFINE a == analysis[n]
           x == Enqueue(n, e)
           b == [x EXCEPT !.model = m]
<1>1. a \in Analyses /\ calls \in CallLists /\ AnalysesTyped
  BY CallsAreTyped DEF ChatTyped, AnalysesTyped
<1>2. e \in Happenings /\ m \in {"talking", "acting", "ended"}
  BY DEF Happenings
<1>3. x \in Analyses /\ x = [a EXCEPT !.queue = Append(a.queue, e)]
  BY <1>1, <1>2, EnqueueIs
<1>4. /\ x.at = a.at /\ x.queue = Append(a.queue, e) /\ x.stash = a.stash /\ x.emitted = a.emitted
      /\ x.cards = a.cards /\ x.blurred = a.blurred
  <2> HIDE DEF x, a
  <2>1. QED
    BY <1>1, <1>3 DEF Analyses
<1>5. /\ b \in Analyses /\ b.model = m /\ b.at = x.at /\ b.queue = x.queue /\ b.stash = x.stash
      /\ b.emitted = x.emitted /\ b.cards = x.cards /\ b.blurred = x.blurred
  <2> HIDE DEF x, a
  <2>1. QED
    BY <1>2, <1>3 DEF Analyses
<1>6. analysis' = [analysis EXCEPT ![n] = b]
  OBVIOUS
<1>7. Paired(a, calls, n) /\ a.at = "reading" /\ a.model # "ended"
  BY DEF PairsSound
<1> HIDE DEF x, a, b
<1>8. Paired(b, calls, n)
  BY <1>1, <1>4, <1>5, <1>7, EnqueuePairs
<1>9. /\ analysis'[n] = b
      /\ \A k \in Questions \ {n} : SameStream(analysis[k], analysis'[k]) /\ SameCalls(calls, calls', k)
  BY <1>6, OthersSame
<1>10. \A k \in Questions : Paired(analysis'[k], calls', k)
  BY <1>8, <1>9, OnePairs DEF PairsSound
<1>11. QED
  BY <1>10 DEF PairsSound

\* The model says something, gets its results, ends or fails.
LEMMA SaysPairs ==
  ASSUME ChatAssumption, ChatTyped, PairsSound, NEW n \in Questions,
         ModelSays(n) \/ ToolsReturn(n) \/ ModelEnds(n) \/ ModelFails(n)
  PROVE  PairsSound'
<1>1. AnalysesTyped /\ \A k \in {"event", "end", "error"} : <<k, 0>> \in Happenings
  BY DEF Happenings, ChatTyped
<1>2. UNCHANGED calls
  BY DEF ModelSays, ToolsReturn, ModelEnds, ModelFails
<1>3. CASE ModelSays(n)
  <2> DEFINE x == Enqueue(n, <<"event", 0>>)
  <2>1. x \in Analyses /\ x.model = "talking"
    BY <1>1, <1>3, EnqueueIs DEF ModelSays, Talking
  <2>2. analysis' = [analysis EXCEPT ![n] = x]
    BY <1>3 DEF ModelSays
  <2>3. x = [x EXCEPT !.model = "talking"]
    <3> HIDE DEF x
    <3>1. QED
      BY <2>1 DEF Analyses
  <2>4. analysis[n].at = "reading" /\ analysis[n].model = "talking"
    BY <1>3 DEF ModelSays, Talking
  <2>5. \A c \in Made(calls, n) : ~Runs(calls, c)
    BY <2>4, NoneRun
  <2>6. analysis' = [analysis EXCEPT ![n] = [x EXCEPT !.model = "talking"]]
    BY <2>2, <2>3
  <2>7. QED
    BY <1>2, <2>4, <2>5, <2>6, AgentPairs
<1>4. CASE ToolsReturn(n)
  <2>1. \A c \in Made(calls, n) : ~Runs(calls, c)
    BY <1>4 DEF ToolsReturn, CallsOf, Made, Runs
  <2>2. analysis' = [analysis EXCEPT ![n] = [Enqueue(n, <<"event", 0>>) EXCEPT !.model = "talking"]]
    BY <1>4 DEF ToolsReturn
  <2>3. analysis[n].at = "reading" /\ analysis[n].model = "acting"
    BY <1>4 DEF ToolsReturn
  <2>4. QED
    BY <1>2, <2>1, <2>2, <2>3, AgentPairs
<1>5. CASE ModelEnds(n)
  <2>1. analysis[n].at = "reading" /\ analysis[n].model = "talking"
    BY <1>5 DEF ModelEnds, Talking
  <2>2. analysis' = [analysis EXCEPT ![n] = [Enqueue(n, <<"end", 0>>) EXCEPT !.model = "ended"]]
    BY <1>5 DEF ModelEnds
  <2>3. (\A c \in Made(calls, n) : ~Runs(calls, c)) /\ (\A c \in Made(calls, n) : calls[c].at = "over")
    BY <1>5, <2>1, NoneRun DEF ModelEnds
  <2>4. QED
    BY <1>2, <2>1, <2>2, <2>3, AgentPairs
<1>6. CASE ModelFails(n)
  <2>1. analysis[n].at = "reading" /\ analysis[n].model = "talking"
    BY <1>6 DEF ModelFails, Talking
  <2>2. analysis' = [analysis EXCEPT ![n] = [Enqueue(n, <<"error", 0>>) EXCEPT !.model = "ended"]]
    BY <1>6 DEF ModelFails
  <2>3. \A c \in Made(calls, n) : ~Runs(calls, c)
    BY <2>1, NoneRun
  <2>4. QED
    BY <1>2, <2>1, <2>2, <2>3, AgentPairs
<1>7. QED
  BY <1>3, <1>4, <1>5, <1>6

\* The model asks for a tool.
LEMMA ModelAsksPairs ==
  ASSUME ChatAssumption, ChatTyped, PairsSound, NEW n \in Questions, NEW c \in Calls, NEW name \in Tools,
         ModelAsks(n, c, name)
  PROVE  PairsSound'
<1> DEFINE a == analysis[n]
           b == Enqueue(n, <<"use", c>>)
           x == [of |-> n, tool |-> name, at |-> "asked"]
<1>1. a \in Analyses /\ calls \in CallLists /\ AnalysesTyped /\ a.emitted <= Len(a.stash)
  BY CallsAreTyped DEF ChatTyped, AnalysesTyped
<1>2. <<"use", c>> \in Happenings /\ Use(c) = <<"use", c>>
  BY DEF Happenings, Use
<1>3. b \in Analyses /\ b = [a EXCEPT !.queue = Append(a.queue, Use(c))]
  BY <1>1, <1>2, EnqueueIs
<1>4. /\ b.at = a.at /\ b.model = a.model /\ b.queue = Append(a.queue, Use(c)) /\ b.stash = a.stash
      /\ b.emitted = a.emitted /\ b.cards = a.cards /\ b.blurred = a.blurred
  <2> HIDE DEF a, b
  <2>1. QED
    BY <1>1, <1>3 DEF Analyses
<1>5. /\ a.at = "reading" /\ a.model = "talking" /\ analysis' = [analysis EXCEPT ![n] = b]
      /\ calls[c].at = "unused" /\ \A d \in Calls : d < c => calls[d].at # "unused"
      /\ calls' = [calls EXCEPT ![c] = x]
  BY DEF ModelAsks, Talking
<1>6. Paired(a, calls, n) /\ NoGaps(calls)
  BY DEF PairsSound
<1>7. Paired(b, calls', n)
  <2> HIDE DEF a, b
  <2>1. QED
    BY <1>1, <1>3, <1>4, <1>5, <1>6, AskPairs
<1>8. analysis'[n] = b /\ \A m \in Questions \ {n} : analysis'[m] = analysis[m]
  BY <1>1, <1>5 DEF AnalysesTyped
<1>9. ASSUME NEW m \in Questions \ {n}
      PROVE  SameStream(analysis[m], analysis'[m]) /\ SameCalls(calls, calls', m)
  <2>1. x.of = n
    OBVIOUS
  <2> HIDE DEF x
  <2>2. SameCalls(calls, calls', m)
    BY <1>1, <1>5, <2>1, OthersCalls
  <2>3. QED
    BY <1>8, <2>2, SameIsSame
<1>10. \A k \in Questions : Paired(analysis'[k], calls', k)
  BY <1>7, <1>8, <1>9, OnePairs DEF PairsSound
<1>11. NoGaps(calls')
  <2>1. calls'[c].at = "asked" /\ \A d \in Calls : d # c => calls'[d] = calls[d]
    BY <1>1, <1>5 DEF CallLists
  <2>2. Calls \subseteq Nat
    BY DEF Calls
  <2>3. ASSUME NEW d \in Calls, NEW k \in Calls, k < d, calls'[k].at = "unused"
        PROVE  calls'[d].at = "unused"
    <3>1. k # c /\ calls[k].at = "unused"
      BY <2>1, <2>3
    <3>2. calls[d].at = "unused"
      BY <1>6, <2>3, <3>1 DEF NoGaps
    <3>3. d # c
      BY <1>5, <2>3, <3>1
    <3>4. QED
      BY <2>1, <3>2, <3>3
  <2>4. \A d \in Calls : calls'[d].at = "unused" => calls'[d].of = 0
    BY <1>6, <2>1 DEF NoGaps
  <2>5. QED
    BY <2>3, <2>4 DEF NoGaps
<1>12. QED
  BY <1>10, <1>11 DEF PairsSound

\* No gaps among the calls, while none comes or goes.
LEMMA NoGapsKept ==
  ASSUME NEW cs, NEW ds, NoGaps(cs),
         \A c \in Calls : ds[c].of = cs[c].of /\ (ds[c].at = "unused" <=> cs[c].at = "unused")
  PROVE  NoGaps(ds)
BY DEF NoGaps

\* The tools of a message start.
LEMMA ToolsStartPairs ==
  ASSUME ChatAssumption, ChatTyped, PairsSound, NEW n \in Questions, ToolsStart(n)
  PROVE  PairsSound'
<1> DEFINE a == analysis[n]
           some == {c \in Calls : calls[c].of = n /\ calls[c].at = "asked"}
           b == [a EXCEPT !.model = "acting", !.blurred = @ \cup Shared(some)]
<1>1. a \in Analyses /\ calls \in CallLists /\ AnalysesTyped
  BY CallsAreTyped DEF ChatTyped, AnalysesTyped
<1>2. /\ a.at = "reading" /\ a.model = "talking" /\ analysis' = [analysis EXCEPT ![n] = b]
      /\ calls' = [c \in Calls |-> IF c \in some THEN [calls[c] EXCEPT !.at = "running"] ELSE calls[c]]
  BY DEF ToolsStart, Talking, CallsOf
<1>3. Shared(some) \subseteq Tools
  BY DEF Shared
<1>4. \A T \in Tools : T \notin Shared(some) =>
        \A c, d \in some : Replies(calls, c, T) /\ Replies(calls, d, T) => c = d
  BY DEF Shared, Replies
<1> DEFINE e == Shared(some)
<1>5. /\ b \in Analyses /\ b.at = a.at /\ b.model = "acting" /\ b.queue = a.queue /\ b.stash = a.stash
      /\ b.emitted = a.emitted /\ b.cards = a.cards /\ b.blurred = a.blurred \cup e
  <2>1. b = [a EXCEPT !.model = "acting", !.blurred = @ \cup e] /\ e \subseteq Tools
    BY <1>3
  <2> HIDE DEF a, e, b
  <2>2. QED
    BY <1>1, <2>1 DEF Analyses
<1>6. Paired(a, calls, n)
  BY DEF PairsSound
<1>7. \A c \in Calls : /\ calls'[c].of = calls[c].of
                       /\ calls'[c].at = "unused" <=> calls[c].at = "unused"
                       /\ c \notin some => calls'[c] = calls[c]
  BY <1>1, <1>2 DEF CallLists
<1>8. \A T \in Clear(b) : T \in Clear(a) /\
            \A c, d \in some : Replies(calls, c, T) /\ Replies(calls, d, T) => c = d
  <2>1. \A T \in Clear(b) : T \in Clear(a) /\ T \notin e /\ T \in Tools
    BY <1>5 DEF Clear, Tools
  <2>2. QED
    BY <1>4, <2>1
<1>9. Paired(b, calls', n)
  <2>0. some = {c \in Calls : calls[c].of = n /\ calls[c].at = "asked"}
    OBVIOUS
  <2> HIDE DEF a, b, some, e
  <2>1. QED
    BY <1>1, <1>2, <1>5, <1>6, <1>8, <2>0, StartPairs
<1>10. analysis'[n] = b /\ \A m \in Questions \ {n} : analysis'[m] = analysis[m]
  BY <1>1, <1>2 DEF AnalysesTyped
<1>11. ASSUME NEW m \in Questions \ {n}
       PROVE  SameStream(analysis[m], analysis'[m]) /\ SameCalls(calls, calls', m)
  <2>1. \A c \in Made(calls, m) : c \notin some
    BY DEF Made
  <2> HIDE DEF some
  <2>2. SameCalls(calls, calls', m)
    BY <1>7, <2>1 DEF SameCalls, Made
  <2>3. QED
    BY <1>10, <2>2, SameIsSame
<1>12. \A k \in Questions : Paired(analysis'[k], calls', k)
  BY <1>9, <1>10, <1>11, OnePairs DEF PairsSound
<1>13. NoGaps(calls')
  BY <1>7, NoGapsKept DEF PairsSound
<1>14. QED
  BY <1>12, <1>13 DEF PairsSound

\* A call that goes on is of one question.
LEMMA CallMoves ==
  ASSUME ChatAssumption, ChatTyped, PairsSound, NEW c \in Calls, NEW n, n = calls[c].of, NEW next \in {"validating", "over"},
         Runs(calls, c), calls' = [calls EXCEPT ![c].at = next],
         NEW b, analysis' = [analysis EXCEPT ![n] = b], Paired(b, calls', n)
  PROVE  PairsSound'
<1> DEFINE x == [calls[c] EXCEPT !.at = next]
<1>1. calls \in CallLists /\ AnalysesTyped /\ n \in Questions
  BY CallsAreTyped DEF ChatTyped, CallsTyped, Runs
<1>2. calls' = [calls EXCEPT ![c] = x] /\ x.of = n /\ calls[c] \in [of : 0..MaxQuestions, tool : Tools, at : CallStages]
  BY <1>1 DEF CallLists
<1>3. analysis'[n] = b /\ \A m \in Questions \ {n} : analysis'[m] = analysis[m]
  BY <1>1 DEF AnalysesTyped
<1>4. ASSUME NEW m \in Questions \ {n}
      PROVE  SameStream(analysis[m], analysis'[m]) /\ SameCalls(calls, calls', m)
  <2> HIDE DEF x
  <2>1. SameCalls(calls, calls', m)
    BY <1>1, <1>2, OthersCalls
  <2>2. QED
    BY <1>3, <2>1, SameIsSame
<1>5. \A k \in Questions : Paired(analysis'[k], calls', k)
  BY <1>1, <1>3, <1>4, OnePairs DEF PairsSound
<1>6. \A d \in Calls : calls'[d].of = calls[d].of /\ (calls'[d].at = "unused" <=> calls[d].at = "unused")
  BY <1>1 DEF CallLists, Runs
<1>7. NoGaps(calls')
  <2>1. NoGaps(calls)
    BY DEF PairsSound
  <2>2. QED
    BY <1>6, <2>1 DEF NoGaps
<1>8. QED
  BY <1>5, <1>7 DEF PairsSound

\* A result, in the stash.
LEMMA StashPairs ==
  ASSUME ChatAssumption, ChatTyped, PairsSound, NEW c \in Calls, NEW n, n = calls[c].of, NEW next \in {"validating", "over"},
         Runs(calls, c), calls' = [calls EXCEPT ![c].at = next], NEW name \in {Sql, Validator},
         Stash(n, name, c), Replies(calls, c, name),
         calls[c].at = "running" => calls[c].tool \in {name, Verified},
         calls[c].at = "validating" \/ name = Validator => next = "over",
         calls[c].at = "validating" => name = Validator
  PROVE  PairsSound'
<1> DEFINE a == analysis[n]
           b == [a EXCEPT !.stash = Append(a.stash, <<name, c>>)]
<1>1. calls \in CallLists /\ AnalysesTyped /\ n \in Questions /\ c \in Made(calls, n)
  BY CallsAreTyped DEF ChatTyped, CallsTyped, Runs, Made
<1>2. a \in Analyses /\ a.emitted <= Len(a.stash) /\ Paired(a, calls, n)
  BY <1>1 DEF AnalysesTyped, PairsSound
<1>3. <<name, c>> \in Answers /\ a.stash \in Seq(Answers)
  BY <1>2 DEF Answers, Tools, Analyses
<1>4. analysis' = [analysis EXCEPT ![n] = b]
  BY DEF Stash
<1> DEFINE t == Append(a.stash, <<name, c>>)
<1>5. /\ b \in Analyses /\ b.at = a.at /\ b.model = a.model /\ b.queue = a.queue /\ b.stash = t
      /\ b.emitted = a.emitted /\ b.cards = a.cards /\ b.blurred = a.blurred
  <2>1. t \in Seq(Answers) /\ b = [a EXCEPT !.stash = t]
    BY <1>3
  <2> HIDE DEF a, b, t
  <2>2. QED
    BY <1>2, <2>1 DEF Analyses
<1>6. Paired(b, calls', n)
  <2>1. b.stash = Append(a.stash, <<name, c>>)
    BY <1>5
  <2> HIDE DEF a, b, t
  <2>2. QED
    BY <1>1, <1>2, <1>5, <2>1, AnswerPairs
<1> HIDE DEF b
<1>7. QED
  BY <1>4, <1>6, CallMoves

\* A tool answers, and has its SQL validated.
LEMMA ResultPairsKept ==
  ASSUME ChatAssumption, ChatTyped, PairsSound, NEW c \in Calls, ToolAnswers(c) \/ AutoValidates(c)
  PROVE  PairsSound'
<1>1. calls[c].tool \in Tools /\ Sql # Validator /\ Verified # Validator /\ Verified # Sql
  BY DEF ChatTyped, CallsTyped, Sql, Validator, Verified
<1>2. CASE ToolAnswers(c)
  <2> DEFINE name == IF calls[c].tool = Validator THEN Validator ELSE Sql
  <2>1. PICK next \in {"validating", "over"} :
          (name = Validator => next = "over") /\ calls' = [calls EXCEPT ![c].at = next]
    BY <1>1, <1>2 DEF ToolAnswers
  <2>2. calls[c].at = "running" /\ Runs(calls, c) /\ Stash(calls[c].of, name, c)
    BY <1>2 DEF ToolAnswers, Runs
  <2>3. name \in {Sql, Validator} /\ Replies(calls, c, name) /\ calls[c].tool \in {name, Verified}
    BY <1>1 DEF Replies, ResultNames, Tools
  <2> HIDE DEF name
  <2>4. QED
    BY <2>1, <2>2, <2>3, StashPairs
<1>3. CASE AutoValidates(c)
  <2>1. /\ calls[c].at = "validating" /\ Runs(calls, c) /\ Stash(calls[c].of, Validator, c)
        /\ calls' = [calls EXCEPT ![c].at = "over"]
    BY <1>3 DEF AutoValidates, Runs
  <2>2. Replies(calls, c, Validator)
    BY DEF Replies, ResultNames
  <2>3. QED
    BY <2>1, <2>2, StashPairs
<1>4. QED
  BY <1>2, <1>3

\* A tool fails: its name is not clear any more.
LEMMA ToolFailsPairs ==
  ASSUME ChatAssumption, ChatTyped, PairsSound, NEW c \in Calls, ToolFails(c)
  PROVE  PairsSound'
<1> DEFINE n == calls[c].of
           a == analysis[n]
           e == IF calls[c].at = "validating" THEN {} ELSE {calls[c].tool}
           b == [a EXCEPT !.blurred = a.blurred \cup e]
<1>1. calls \in CallLists /\ AnalysesTyped /\ n \in Questions /\ c \in Made(calls, n) /\ Runs(calls, c)
  BY CallsAreTyped DEF ChatTyped, CallsTyped, Runs, Made, ToolFails
<1>2. a \in Analyses /\ a.emitted <= Len(a.stash) /\ Paired(a, calls, n) /\ e \subseteq Tools
  BY <1>1 DEF AnalysesTyped, PairsSound, CallLists
<1>3. calls' = [calls EXCEPT ![c].at = "over"]
  BY DEF ToolFails
<1>4. /\ b \in Analyses /\ b.at = a.at /\ b.model = a.model /\ b.queue = a.queue /\ b.stash = a.stash
      /\ b.emitted = a.emitted /\ b.cards = a.cards /\ b.blurred = a.blurred \cup e
  <2>1. b = [a EXCEPT !.blurred = a.blurred \cup e]
    OBVIOUS
  <2> HIDE DEF a, b, e
  <2>2. QED
    BY <1>2, <2>1 DEF Analyses
<1>5. analysis' = [analysis EXCEPT ![n] = b]
  <2>1. CASE calls[c].at = "validating"
    <3>1. e = {} /\ a.blurred \cup e = a.blurred /\ analysis' = analysis
      BY <2>1 DEF ToolFails
    <3>2. b = a
      <4>1. b = [a EXCEPT !.blurred = a.blurred]
        BY <3>1
      <4> HIDE DEF a, b
      <4>2. QED
        BY <1>2, <4>1 DEF Analyses
    <3>3. QED
      BY <1>1, <3>1, <3>2 DEF AnalysesTyped
  <2>2. CASE calls[c].at # "validating"
    BY <2>2 DEF ToolFails
  <2>3. QED
    BY <2>1, <2>2
<1>6. calls[c].at = "running" => calls[c].tool \in b.blurred
  BY <1>4
<1>7. Paired(b, calls', n)
  <2> HIDE DEF a, b, n, e
  <2>1. QED
    BY <1>1, <1>2, <1>3, <1>4, <1>6, FailurePairs
<1> HIDE DEF b
<1>8. QED
  BY <1>1, <1>3, <1>5, <1>7, CallMoves

\* A step of one analysis.
LEMMA PairStep ==
  ASSUME ChatTyped, PairsSound, NEW n \in Questions, NEW b, analysis' = [analysis EXCEPT ![n] = b],
         UNCHANGED calls, Paired(b, calls, n)
  PROVE  PairsSound'
<1>1. /\ analysis'[n] = b
      /\ \A k \in Questions \ {n} : SameStream(analysis[k], analysis'[k]) /\ SameCalls(calls, calls', k)
  BY OthersSame
<1>2. Paired(analysis'[n], calls', n)
  BY <1>1
<1>3. \A k \in Questions : Paired(analysis'[k], calls', k)
  BY <1>1, <1>2, OnePairs DEF PairsSound
<1>4. QED
  BY <1>3 DEF PairsSound

\* The producer reads on, or to the end.
LEMMA StreamPairs ==
  ASSUME ChatAssumption, ChatTyped, PairsSound, NEW n \in Questions, StreamRead(n) \/ StreamEnds(n)
  PROVE  PairsSound'
<1>1. Paired(analysis[n], calls, n)
  BY DEF PairsSound
<1>2. CASE StreamRead(n)
  <2>1. analysis' = [analysis EXCEPT ![n] = YieldResults(analysis[n], CardsThen(n))] /\ UNCHANGED calls
    BY <1>2, ReadIs DEF StreamRead
  <2>2. Paired(YieldResults(analysis[n], CardsThen(n)), calls, n)
    BY <1>1, <1>2, ReadPairs
  <2>3. QED
    BY <2>1, <2>2, PairStep
<1>3. CASE StreamEnds(n)
  <2>1. analysis' = [analysis EXCEPT ![n] = Ended(Rest(n))] /\ UNCHANGED calls
    BY <1>3, EndIs DEF StreamEnds
  <2>2. Paired(Ended(Rest(n)), calls, n)
    BY <1>1, <1>3, EndPairs
  <2>3. QED
    BY <2>1, <2>2, PairStep
<1>4. QED
  BY <1>2, <1>3

\* The saving of the answer and the end of the producer.
LEMMA SavingPairs ==
  ASSUME ChatAssumption, ChatTyped, PairsSound, NEW n \in Questions, SaveAnswer(n) \/ Finish(n)
  PROVE  PairsSound'
<1> DEFINE a == analysis[n]
           at == IF a.at = "saving" THEN "closing" ELSE "over"
           b == [a EXCEPT !.at = at]
<1>1. a \in Analyses /\ Paired(a, calls, n)
  BY DEF ChatTyped, AnalysesTyped, PairsSound
<1>2. a.at \in {"saving", "closing"} /\ UNCHANGED calls /\ analysis' = [analysis EXCEPT ![n] = b]
  BY DEF SaveAnswer, Finish
<1>3. /\ b.at \in {"closing", "over"} /\ b.model = a.model /\ b.cards = a.cards
      /\ b.blurred = a.blurred /\ b.cut = a.cut
  <2>1. b = [a EXCEPT !.at = at] /\ at \in {"closing", "over"}
    OBVIOUS
  <2> HIDE DEF a, b, at
  <2>2. QED
    BY <1>1, <2>1 DEF Analyses
<1>4. SavedSound(b)
  <2> HIDE DEF a, b, at
  <2>1. QED
    BY <1>1, <1>2, <1>3 DEF Paired, SavedSound, Clear
<1>5. CallsSound(b, calls, n)
  <2> HIDE DEF a, b, at
  <2>1. CallsSound(a, calls, n) /\ a.at # "reading"
    BY <1>1, <1>2 DEF Paired
  <2>2. QED
    BY <1>3, <2>1 DEF CallsSound
<1>6. Paired(b, calls, n)
  <2> HIDE DEF a, b, at
  <2>1. QED
    BY <1>3, <1>4, <1>5 DEF Paired
<1> HIDE DEF b
<1>7. QED
  BY <1>2, <1>6, PairStep

\* A question is asked.
LEMMA AskPairsToo ==
  ASSUME ChatAssumption, ChatTyped, PairsSound, NEW n \in Questions, Ask(n)
  PROVE  PairsSound'
<1> DEFINE a == analysis[n]
           b == [a EXCEPT !.at = "posting"]
<1>1. a \in Analyses /\ Paired(a, calls, n)
  BY DEF ChatTyped, AnalysesTyped, PairsSound
<1>2. a.at = "none" /\ UNCHANGED calls /\ analysis' = [analysis EXCEPT ![n] = b]
  BY DEF Ask
<1>3. /\ b.at = "posting" /\ b.model = a.model /\ b.cards = a.cards
      /\ b.queue = a.queue /\ b.stash = a.stash /\ b.emitted = a.emitted
  <2> HIDE DEF a
  <2>2. QED
    BY <1>1 DEF Analyses
<1>4. Blank(a) /\ Made(calls, n) = {}
  <2> HIDE DEF a, b
  <2>1. QED
    BY <1>1, <1>2 DEF Paired
<1>5. Paired(b, calls, n)
  <2> HIDE DEF a, b
  <2>1. CallsSound(b, calls, n)
    BY <1>4 DEF CallsSound
  <2>2. QED
    BY <1>3, <1>4, <2>1 DEF Paired, Blank
<1> HIDE DEF b
<1>6. QED
  BY <1>2, <1>5, PairStep

\* Before the stream there is nothing to pair.
LEMMA NothingRead ==
  ASSUME NEW a, NEW cs, NEW n, Blank(a), Made(cs, n) = {}
  PROVE  Reading(a, cs, n) /\ CallsSound(a, cs, n)
<1>1. a.queue = <<>> /\ a.stash = <<>> /\ a.emitted = 0 /\ a.cards = <<>>
  BY DEF Blank
<1>2. DOMAIN a.queue = {} /\ DOMAIN a.stash = {} /\ DOMAIN a.cards = {} /\ Len(a.stash) = 0
  BY <1>1
<1>3. \A x : ~Includes(a.queue, x)
  BY <1>2 DEF Includes
<1>4. QueueSound(a, cs, n)
  BY <1>1, <1>2, <1>3 DEF QueueSound
<1>5. CardsSound(a.cards, cs, n)
  BY <1>2 DEF CardsSound
<1>6. \A T : NamedSound(a, cs, n, T)
  BY <1>2 DEF NamedSound, OrderSound, FreshSound, PairedUpTo
<1>7. QED
  BY <1>4, <1>5, <1>6 DEF Reading, CallsSound

\* The producer starts.
LEMMA RegisterPairs ==
  ASSUME ChatAssumption, ChatTyped, PairsSound, NEW n \in Questions, Register(n)
  PROVE  PairsSound'
<1>1. UNCHANGED calls /\ analysis[n].at = "posting"
  BY DEF Register
<1>2. analysis' = [m \in Questions |->
        IF m = n THEN [analysis[m] EXCEPT !.at = "reading"]
        ELSE IF m = active THEN [analysis[m] EXCEPT !.displaced = TRUE] ELSE analysis[m]]
  BY DEF Register
<1>3. \A m \in Questions : analysis[m] \in Analyses /\ Paired(analysis[m], calls, m)
  BY DEF ChatTyped, AnalysesTyped, PairsSound
<1>4. Paired(analysis'[n], calls', n)
  <2> DEFINE a == analysis[n]
             b == [a EXCEPT !.at = "reading"]
  <2>1. analysis'[n] = b
    BY <1>2
  <2>2. a \in Analyses
    BY <1>3
  <2>3. /\ b.at = "reading" /\ b.model = a.model /\ b.cards = a.cards
        /\ b.queue = a.queue /\ b.stash = a.stash /\ b.emitted = a.emitted
    <3> HIDE DEF a
    <3>1. QED
      BY <2>2 DEF Analyses
  <2>4. Blank(a) /\ Made(calls, n) = {}
    BY <1>1, <1>3 DEF Paired
  <2>5. Blank(b)
    <3> HIDE DEF a, b
    <3>1. QED
      BY <2>3, <2>4 DEF Blank
  <2>6. Reading(b, calls, n) /\ CallsSound(b, calls, n)
    <3> HIDE DEF b
    <3>1. QED
      BY <2>4, <2>5, NothingRead
  <2>7. Paired(b, calls, n)
    <3> HIDE DEF a, b
    <3>1. QED
      BY <2>3, <2>6 DEF Paired
  <2>8. QED
    BY <1>1, <2>1, <2>7
<1>5. ASSUME NEW m \in Questions \ {n}
      PROVE  SameStream(analysis[m], analysis'[m]) /\ SameCalls(calls, calls', m)
  <2> DEFINE a == analysis[m]
             b == [a EXCEPT !.displaced = TRUE]
  <2>1. analysis'[m] \in {a, b}
    BY <1>2
  <2>2. a \in Analyses
    BY <1>3
  <2>3. SameStream(a, b)
    <3> HIDE DEF a
    <3>1. QED
      BY <2>2 DEF Analyses, SameStream
  <2>4. SameStream(a, a) /\ SameCalls(calls, calls', m)
    BY <1>1, SameIsSame
  <2> HIDE DEF b
  <2>5. QED
    BY <2>1, <2>3, <2>4
<1>6. \A k \in Questions : Paired(analysis'[k], calls', k)
  BY <1>4, <1>5, OnePairs DEF PairsSound
<1>7. QED
  BY <1>1, <1>6 DEF PairsSound

\* Without an answer: nothing runs, and there is no card.
LEMMA StoppedPairs ==
  ASSUME NEW a, NEW ds, NEW n, a.at \in {"closing", "crashed"}, a.cards = <<>>,
         \A c \in Made(ds, n) : ds[c].at = "over"
  PROVE  Paired(a, ds, n)
<1>1. CallsSound(a, ds, n)
  BY DEF CallsSound, Runs
<1>2. SavedSound(a)
  <2>1. DOMAIN a.cards = {}
    OBVIOUS
  <2>2. QED
    BY <2>1 DEF SavedSound
<1>3. QED
  BY <1>1, <1>2 DEF Paired

\* The producer fails: no card is saved.
LEMMA FailsPairs ==
  ASSUME ChatAssumption, ChatTyped, PairsSound, NEW n \in Questions, ProducerFails(n)
  PROVE  PairsSound'
<1> DEFINE b == Broken(n)
<1>1. analysis \in [Questions -> Analyses] /\ calls \in CallLists /\ AnalysesTyped
  BY CallsAreTyped DEF ChatTyped, AnalysesTyped
<1>2. /\ analysis' = [analysis EXCEPT ![n] = b]
      /\ calls' = [c \in Calls |-> IF calls[c].of = n THEN [calls[c] EXCEPT !.at = "over"] ELSE calls[c]]
  BY DEF ProducerFails, Broken
<1>3. b.at = "closing" /\ b.cards = <<>>
  BY <1>1, BrokenIs
<1>4. \A c \in Calls : /\ calls'[c].of = calls[c].of
                       /\ calls[c].of = n => calls'[c].at = "over"
                       /\ calls[c].of # n => calls'[c] = calls[c]
  BY <1>1, <1>2 DEF CallLists
<1>5. \A c \in Calls : calls[c].at = "unused" => calls[c].of # n
  BY DEF PairsSound, NoGaps, Questions
<1>6. \A c \in Calls : calls'[c].of = calls[c].of /\ (calls'[c].at = "unused" <=> calls[c].at = "unused")
  BY <1>4, <1>5
<1>7. NoGaps(calls')
  <2>1. NoGaps(calls)
    BY DEF PairsSound
  <2>2. QED
    BY <1>6, <2>1 DEF NoGaps
<1> HIDE DEF b
<1>8. analysis'[n] = b /\ \A m \in Questions \ {n} : analysis'[m] = analysis[m]
  BY <1>1, <1>2
<1>9. Paired(b, calls', n)
  <2>1. \A c \in Made(calls', n) : calls'[c].at = "over"
    BY <1>4 DEF Made
  <2>2. QED
    BY <1>3, <2>1, StoppedPairs
<1>10. ASSUME NEW m \in Questions \ {n}
       PROVE  SameStream(analysis[m], analysis'[m]) /\ SameCalls(calls, calls', m)
  <2>1. SameCalls(calls, calls', m)
    BY <1>4 DEF SameCalls, Made
  <2>2. QED
    BY <1>8, <2>1, SameIsSame
<1>11. \A k \in Questions : Paired(analysis'[k], calls', k)
  BY <1>8, <1>9, <1>10, OnePairs DEF PairsSound
<1>12. QED
  BY <1>7, <1>11 DEF PairsSound

\* The pod goes: no call runs, and what ran has no card any more.
LEMMA CrashPairs ==
  ASSUME ChatAssumption, ChatTyped, PairsSound, PodCrash
  PROVE  PairsSound'
<1>1. analysis \in [Questions -> Analyses] /\ calls \in CallLists /\ AnalysesTyped
  BY CallsAreTyped DEF ChatTyped, AnalysesTyped
<1>2. /\ analysis' = [n \in Questions |->
           IF Live(n) THEN [NoAnalysis EXCEPT !.at = "crashed", !.cut = TRUE] ELSE analysis[n]]
      /\ calls' = [c \in Calls |-> IF calls[c].at = "unused" THEN calls[c] ELSE [calls[c] EXCEPT !.at = "over"]]
  BY DEF PodCrash
<1>3. \A c \in Calls : /\ calls'[c].of = calls[c].of
                       /\ calls[c].at = "unused" => calls'[c].at = "unused"
                       /\ calls[c].at # "unused" => calls'[c].at = "over"
  BY <1>1, <1>2 DEF CallLists
<1>4. NoGaps(calls')
  <2>1. NoGaps(calls) /\ \A c \in Calls : calls'[c].of = calls[c].of /\ (calls'[c].at = "unused" <=> calls[c].at = "unused")
    BY <1>3 DEF PairsSound
  <2>2. QED
    BY <2>1 DEF NoGaps
<1>5. ASSUME NEW n \in Questions PROVE Paired(analysis'[n], calls', n)
  <2>1. \A c \in Made(calls', n) : calls'[c].at = "over"
    BY <1>3 DEF Made
  <2>2. Made(calls', n) = Made(calls, n)
    BY <1>3 DEF Made
  <2>3. CASE Live(n)
    <3>1. analysis'[n].at = "crashed" /\ analysis'[n].cards = <<>>
      BY <1>2, <2>3 DEF NoAnalysis
    <3>2. QED
      BY <2>1, <3>1, StoppedPairs
  <2>4. CASE ~Live(n)
    <3>1. analysis'[n] = analysis[n] /\ Paired(analysis[n], calls, n) /\ analysis[n].at \notin {"posting", "reading"}
      BY <1>2, <2>4 DEF PairsSound, Live
    <3>2. CallsSound(analysis[n], calls', n)
      BY <2>1 DEF CallsSound, Runs
    <3>3. Paired(analysis[n], calls', n)
      BY <2>2, <3>1, <3>2 DEF Paired
    <3>4. QED
      BY <3>1, <3>3
  <2>5. QED
    BY <2>3, <2>4
<1>6. QED
  BY <1>4, <1>5 DEF PairsSound

\* The session starts with nothing to pair.
LEMMA PairsSoundInit ==
  ASSUME ChatAssumption, ChatInit
  PROVE  PairsSound
<1>1. \A c \in Calls : calls[c].at = "unused" /\ calls[c].of = 0
  BY DEF ChatInit, NoCall
<1>2. NoGaps(calls) /\ \A n \in Questions : Made(calls, n) = {}
  BY <1>1 DEF NoGaps, Made
<1>3. ASSUME NEW n \in Questions PROVE Paired(analysis[n], calls, n)
  <2>1. analysis[n].at = "none" /\ Blank(analysis[n])
    BY DEF ChatInit, NoAnalysis, Blank
  <2>2. CallsSound(analysis[n], calls, n)
    BY <1>2 DEF CallsSound
  <2>3. QED
    BY <1>2, <2>1, <2>2 DEF Paired
<1>4. QED
  BY <1>2, <1>3 DEF PairsSound

\* Every step keeps the pairs sound.
LEMMA PairsSoundStep ==
  ASSUME ChatAssumption, ChatTyped, PairsSound, [ChatNext]_chatVars
  PROVE  PairsSound'
<1>1. ASSUME NEW n \in Questions, ModelSays(n) \/ ToolsReturn(n) \/ ModelEnds(n) \/ ModelFails(n)
      PROVE  PairsSound'
  BY <1>1, SaysPairs
<1>2. ASSUME NEW n \in Questions, ToolsStart(n) PROVE PairsSound'
  BY <1>2, ToolsStartPairs
<1>3. ASSUME NEW n \in Questions, StreamRead(n) \/ StreamEnds(n) PROVE PairsSound'
  BY <1>3, StreamPairs
<1>4. ASSUME NEW n \in Questions, ProducerFails(n) PROVE PairsSound'
  BY <1>4, FailsPairs
<1>5. ASSUME NEW n \in Questions, SaveAnswer(n) \/ Finish(n) PROVE PairsSound'
  BY <1>5, SavingPairs
<1>6. ASSUME NEW n \in Questions, Ask(n) PROVE PairsSound'
  BY <1>6, AskPairsToo
<1>7. ASSUME NEW n \in Questions, Register(n) PROVE PairsSound'
  BY <1>7, RegisterPairs
<1>8. ASSUME NEW n \in Questions, NEW c \in Calls, NEW name \in Tools, ModelAsks(n, c, name) PROVE PairsSound'
  BY <1>8, ModelAsksPairs
<1>9. ASSUME NEW c \in Calls, ToolAnswers(c) \/ AutoValidates(c) PROVE PairsSound'
  BY <1>9, ResultPairsKept
<1>10. ASSUME NEW c \in Calls, ToolFails(c) PROVE PairsSound'
  BY <1>10, ToolFailsPairs
<1>11. CASE PodCrash
  BY <1>11, CrashPairs
<1>12. CASE UNCHANGED <<analysis, calls>>
  BY <1>12 DEF PairsSound
<1>13. CASE Receive \/ StreamCloses \/ Stop \/ Leave \/ LoadHistory \/ Reattach
  BY <1>12, <1>13 DEF Receive, StreamCloses, Stop, Leave, LoadHistory, Reattach
<1>14. CASE UNCHANGED chatVars
  BY <1>12, <1>14 DEF chatVars
<1>15. QED
  BY <1>1, <1>2, <1>3, <1>4, <1>5, <1>6, <1>7, <1>8, <1>9, <1>10, <1>11, <1>13, <1>14 DEF ChatNext

\* Sound pairs are right in a saved answer.
LEMMA PairsSoundGive ==
  ASSUME ChatTyped, PairsSound
  PROVE  CardsPaired
<1> SUFFICES ASSUME NEW n \in Questions, analysis[n].at \in {"closing", "over"},
                    NEW card \in ToSet(analysis[n].cards),
                    card.call # 0, card.tool # Verified, card.tool \notin analysis[n].blurred
             PROVE  card.result \in {card.call} \cup (IF analysis[n].cut THEN {0} ELSE {})
  BY DEF CardsPaired
<1>1. SavedSound(analysis[n]) /\ analysis[n].cards \in Seq(Cards)
  BY DEF PairsSound, Paired, ChatTyped, AnalysesTyped, Analyses
<1>2. PICK i \in DOMAIN analysis[n].cards : analysis[n].cards[i] = card
  BY DEF ToSet
<1>3. card.tool \in Clear(analysis[n])
  <2>1. card \in Cards
    BY <1>1, <1>2
  <2>2. QED
    BY <2>1 DEF Cards, Tools, Clear
<1>4. QED
  BY <1>1, <1>2, <1>3 DEF SavedSound

\* In a saved answer a call that the page shows has the result of that call,
\* although results carry only the name of a tool and are yielded with whatever
\* event comes next, unless the name was blurred: two calls of a message that
\* answer under it, a tool that failed, a result that overtook its call
\* (_tool_results, _flush_tool_results, the producer's card matching).
THEOREM CardsTakeTheirResults == ChatSpec => []CardsPaired
<1>1. ChatInit => ChatTyped /\ PairsSound
  BY ChatAssumption, ChatTypedInit, PairsSoundInit
<1>2. ChatTyped /\ PairsSound /\ [ChatNext]_chatVars => (ChatTyped /\ PairsSound)'
  BY ChatAssumption, ChatTypedStep, PairsSoundStep
<1>3. ChatTyped /\ PairsSound => CardsPaired
  BY PairsSoundGive
<1>4. QED
  BY <1>1, <1>2, <1>3, PTL DEF ChatSpec
=============================================================================
