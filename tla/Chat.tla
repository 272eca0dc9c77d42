-------------------------------- MODULE Chat --------------------------------
(***************************************************************************)
(* One session of the admin chat.  A question is analysed by an agent,     *)
(* whose model asks for tools in parallel and reads their results; a       *)
(* background task of admin-api (the producer) reads the agent's stream,   *)
(* publishes it on a relay and saves the answer when the stream ends.  The *)
(* page shows the stream of the relay, or, when the user comes back to it, *)
(* the saved history and then the relay of an analysis still running.      *)
(*                                                                         *)
(* A tool does not stream: it leaves its result in a stash, and the agent  *)
(* yields what is there when it handles its next stream event.  Results    *)
(* carry the tool's name only, and that is what pairs them with calls.     *)
(***************************************************************************)
EXTENDS Naturals, Sequences, FiniteSets, FiniteSetsExt, SequencesExt

CONSTANTS
  MaxQuestions,  \* bound: questions asked in the session
  MaxCalls,      \* bound: tool calls, over the whole session
  MaxSteps,      \* bound: questions and tool calls together
  MaxFaults      \* bound: tools, models, streams, inserts and pods that fail

ASSUME ChatAssumption == {MaxQuestions, MaxCalls, MaxSteps, MaxFaults} \subseteq Nat

VARIABLES
  history,    \* chat_agent.messages of the session, by created_at
  active,     \* _active_relays[session]: the question whose relay it is, or 0
  analysis,   \* per question, its agent and its producer
  calls,      \* the tool calls
  page,       \* the page of the user
  faults

chatVars == <<history, active, analysis, calls, page, faults>>

Questions == 1..MaxQuestions
Calls == 1..MaxCalls

Sql == "ask_sql_specialist"
Verified == "ask_sql_verified"
Validator == "ask_validator"
Tools == {Sql, Verified, Validator}

\* The names under which a tool leaves results: ask_sql_verified answers under
\* the name of the specialist, and both have their SQL validated.
ResultNames(tool) == IF tool = Validator THEN {Validator} ELSE {Sql, Validator}

Asked(n) == <<"question", n>>
Answered(n) == <<"answer", n>>

NoAnalysis ==
  [at |-> "none",        \* none, posting, reading, saving, closing, over, crashed
   model |-> "talking",  \* talking, acting, ended
   queue |-> <<>>,       \* what the pump read of the model and invoke did not
   stash |-> <<>>,       \* _tool_results
   emitted |-> 0, cards |-> <<>>, frames |-> <<>>,
   blurred |-> {}, cut |-> FALSE, displaced |-> FALSE]   \* history variables

NoCall == [of |-> 0, tool |-> Sql, at |-> "unused"]
NoPage == [at |-> "away", shows |-> <<>>, on |-> 0, read |-> 0,
           running |-> {}, saved |-> {}, missed |-> {}, twice |-> {}, stopped |-> {}]

ChatInit ==
  /\ history = <<>> /\ active = 0 /\ faults = 0
  /\ analysis = [n \in Questions |-> NoAnalysis]
  /\ calls = [c \in Calls |-> NoCall]
  /\ page = [NoPage EXCEPT !.at = "ready"]

Fault == faults < MaxFaults /\ faults' = faults + 1

Steps == Cardinality({n \in Questions : analysis[n].at # "none"})
         + Cardinality({c \in Calls : calls[c].at # "unused"})

----------------------------------------------------------------------------
(* The agent: the orchestrator model and its tools, concurrently.           *)

Talking(n) == analysis[n].at = "reading" /\ analysis[n].model = "talking"
CallsOf(n, at) == {c \in Calls : calls[c].of = n /\ calls[c].at = at}
Enqueue(n, event) == [analysis[n] EXCEPT !.queue = Append(@, event)]

\* Text, or any other event of the stream without a tool use.
ModelSays(n) ==
  /\ Talking(n) /\ analysis[n].queue = <<>>
  /\ analysis' = [analysis EXCEPT ![n] = Enqueue(n, <<"event", 0>>)]
  /\ UNCHANGED <<history, active, calls, page, faults>>

ModelAsks(n, c, tool) ==
  /\ Talking(n) /\ Steps < MaxSteps
  /\ calls[c].at = "unused" /\ \A d \in Calls : d < c => calls[d].at # "unused"
  /\ calls' = [calls EXCEPT ![c] = [of |-> n, tool |-> tool, at |-> "asked"]]
  /\ analysis' = [analysis EXCEPT ![n] = Enqueue(n, <<"use", c>>)]
  /\ UNCHANGED <<history, active, page, faults>>

\* Names under which two of these calls may answer.
Shared(some) ==
  {name \in Tools : \E c, d \in some :
     c # d /\ name \in ResultNames(calls[c].tool) \cap ResultNames(calls[d].tool)}

\* The message is complete: its tools all start, each in a thread.
ToolsStart(n) ==
  LET some == CallsOf(n, "asked") IN
  /\ Talking(n) /\ some # {}
  /\ calls' = [c \in Calls |-> IF c \in some THEN [calls[c] EXCEPT !.at = "running"] ELSE calls[c]]
  /\ analysis' = [analysis EXCEPT ![n].model = "acting", ![n].blurred = @ \cup Shared(some)]
  /\ UNCHANGED <<history, active, page, faults>>

Stash(n, tool, c) == analysis' = [analysis EXCEPT ![n].stash = Append(@, <<tool, c>>)]

\* The tool leaves its result; a SQL text that came without an error is then
\* validated before the tool returns.
ToolAnswers(c) ==
  LET n == calls[c].of  tool == calls[c].tool IN
  /\ calls[c].at = "running"
  /\ \E next \in IF tool = Validator THEN {"over"} ELSE {"validating", "over"} :
       calls' = [calls EXCEPT ![c].at = next]
  /\ Stash(n, IF tool = Validator THEN Validator ELSE Sql, c)
  /\ UNCHANGED <<history, active, page, faults>>

AutoValidates(c) ==
  /\ calls[c].at = "validating"
  /\ calls' = [calls EXCEPT ![c].at = "over"]
  /\ Stash(calls[c].of, Validator, c)
  /\ UNCHANGED <<history, active, page, faults>>

\* An exception leaves no result: the model is told of a tool's, and that of
\* the validation becomes a warning inside the result.
ToolFails(c) ==
  /\ calls[c].at \in {"running", "validating"} /\ Fault
  /\ calls' = [calls EXCEPT ![c].at = "over"]
  /\ analysis' = IF calls[c].at = "validating" THEN analysis
                 ELSE [analysis EXCEPT ![calls[c].of].blurred = @ \cup {calls[c].tool}]
  /\ UNCHANGED <<history, active, page>>

\* All have returned: the stream carries their results to the model.
ToolsReturn(n) ==
  /\ analysis[n].at = "reading" /\ analysis[n].model = "acting"
  /\ CallsOf(n, "running") \cup CallsOf(n, "validating") = {}
  /\ analysis' = [analysis EXCEPT ![n] = [Enqueue(n, <<"event", 0>>) EXCEPT !.model = "talking"]]
  /\ UNCHANGED <<history, active, calls, page, faults>>

ModelEnds(n) ==
  /\ Talking(n) /\ CallsOf(n, "asked") = {}
  /\ analysis' = [analysis EXCEPT ![n] = [Enqueue(n, <<"end", 0>>) EXCEPT !.model = "ended"]]
  /\ UNCHANGED <<history, active, calls, page, faults>>

ModelFails(n) ==
  /\ Talking(n) /\ Fault
  /\ analysis' = [analysis EXCEPT ![n] = [Enqueue(n, <<"error", 0>>) EXCEPT !.model = "ended"]]
  /\ UNCHANGED <<history, active, calls, page>>

----------------------------------------------------------------------------
(* The producer: what invoke yields for an event of the queue, and what the *)
(* producer makes of it.  A card is a call the page shows, 0 if not known,  *)
(* and the call whose result is on it, 0 while it has none.                 *)

\* A run of frames that show progress is one frame.
Publish(frames, kind) ==
  IF kind = "event" /\ frames # <<>> /\ Last(frames) = "event" THEN frames
  ELSE Append(frames, kind)

\* mutant: any card of the tool takes the result, also one that has its own
FirstOfTheName(cards, tool) == {i \in DOMAIN cards : cards[i].tool = tool}

\* The cards that a result of the tool may go to.
OpenCards(cards, tool) == {i \in DOMAIN cards : cards[i].tool = tool /\ cards[i].result = 0}

AddCall(cards, c) == Append(cards, [tool |-> calls[c].tool, call |-> c, result |-> 0])

AddResult(cards, r) ==
  LET open == OpenCards(cards, r[1]) IN
  IF open # {} THEN [cards EXCEPT ![Min(open)].result = r[2]]
  ELSE Append(cards, [tool |-> r[1], call |-> 0, result |-> r[2]])

\* The results in the stash that were not yielded yet.
Fresh(a) == SubSeq(a.stash, a.emitted + 1, Len(a.stash))

\* Names of results that come before the call they belong to, which is still
\* in the queue.
Early(a) == {r[1] : r \in {s \in ToSet(Fresh(a)) :
                            calls[s[2]].tool = s[1] /\ <<"use", s[2]>> \in ToSet(Tail(a.queue))}}

YieldResults(a, cards) ==
  [a EXCEPT !.cards = FoldLeft(AddResult, cards, Fresh(a)), !.emitted = Len(a.stash),
            !.blurred = @ \cup Early(a), !.queue = Tail(@),
            !.frames = Publish(@, "event")]

StreamRead(n) ==
  LET a == analysis[n]  event == Head(a.queue) IN
  /\ a.at = "reading" /\ a.queue # <<>> /\ event[1] \in {"use", "event"}
  /\ analysis' = [analysis EXCEPT ![n] =
       YieldResults(a, IF event[1] = "use" THEN AddCall(a.cards, event[2]) ELSE a.cards)]
  /\ UNCHANGED <<history, active, calls, page, faults>>

\* The rest of the stash, then the end; the producer publishes "done".  An
\* error frame inside the stream ends the reading, not the answer.
StreamEnds(n) ==
  LET a == analysis[n]  event == Head(a.queue) IN
  /\ a.at = "reading" /\ a.queue # <<>> /\ event[1] \in {"end", "error"}
  /\ LET b == IF event[1] = "end" THEN YieldResults(a, a.cards)
              ELSE [a EXCEPT !.cut = TRUE, !.frames = Publish(@, "error"), !.queue = Tail(@)]
     IN analysis' = [analysis EXCEPT ![n] =
          [b EXCEPT !.at = "saving", !.stash = <<>>, !.emitted = 0,
                    !.frames = Publish(@, "done")]]
  /\ UNCHANGED <<history, active, calls, page, faults>>

\* The call of the agent fails, the connection does, or it is silent for too
\* long; or the insert fails.  The answer is not saved.
ProducerFails(n) ==
  /\ analysis[n].at \in {"reading", "saving"} /\ Fault
  /\ analysis' = [analysis EXCEPT ![n] =
       [NoAnalysis EXCEPT !.at = "closing", !.cut = TRUE,
                          !.frames = Publish(analysis[n].frames, "error")]]
  /\ calls' = [c \in Calls |-> IF calls[c].of = n THEN [calls[c] EXCEPT !.at = "over"] ELSE calls[c]]
  /\ UNCHANGED <<history, active, page>>

SaveAnswer(n) ==
  /\ analysis[n].at = "saving"
  /\ analysis' = [analysis EXCEPT ![n].at = "closing"]
  /\ history' = Append(history, Answered(n))
  /\ UNCHANGED <<active, calls, page, faults>>

\* mutant: the relay of the session goes, whosever it is
PopAnyRelay(n) ==
  /\ analysis[n].at = "closing"
  /\ analysis' = [analysis EXCEPT ![n].at = "over"]
  /\ active' = 0
  /\ UNCHANGED <<history, calls, page, faults>>

Finish(n) ==
  /\ analysis[n].at = "closing"
  /\ analysis' = [analysis EXCEPT ![n].at = "over"]
  /\ active' = IF active = n THEN 0 ELSE active
  /\ UNCHANGED <<history, calls, page, faults>>

----------------------------------------------------------------------------
(* The page, and the requests it makes.                                     *)

Live(n) == analysis[n].at \in {"posting", "reading", "saving", "closing"}
Started(n) == analysis[n].at \notin {"none", "posting"}

\* The page sends the next question; post_message saves it.
Ask(n) ==
  /\ page.at = "ready" /\ Steps < MaxSteps
  /\ analysis[n].at = "none" /\ \A m \in Questions : m < n => analysis[m].at # "none"
  /\ history' = Append(history, Asked(n))
  /\ analysis' = [analysis EXCEPT ![n].at = "posting"]
  /\ page' = [page EXCEPT !.at = "sending", !.shows = Append(@, Asked(n)), !.on = n, !.read = 0]
  /\ UNCHANGED <<active, calls, faults>>

\* A new relay replaces that of the session, and its producer starts.
Register(n) ==
  /\ analysis[n].at = "posting"
  /\ analysis' = [m \in Questions |->
       IF m = n THEN [analysis[m] EXCEPT !.at = "reading"]
       ELSE IF m = active THEN [analysis[m] EXCEPT !.displaced = TRUE] ELSE analysis[m]]
  /\ active' = n
  /\ page' = IF page.at = "sending" /\ page.on = n THEN [page EXCEPT !.at = "tailing"] ELSE page
  /\ UNCHANGED <<history, calls, faults>>

\* tail: all there is; then the end, when the relay is finished.
Receive ==
  LET n == page.on  frames == analysis[n].frames
      fresh == SubSeq(frames, page.read + 1, Len(frames)) IN
  /\ page.at = "tailing" /\ fresh # <<>>
  /\ page' = [page EXCEPT !.read = Len(frames),
                          !.shows = IF "done" \in ToSet(fresh) THEN Append(@, Answered(n)) ELSE @]
  /\ UNCHANGED <<history, active, analysis, calls, faults>>

StreamCloses ==
  /\ page.at = "tailing" /\ analysis[page.on].at = "over"
  /\ page.read = Len(analysis[page.on].frames)
  /\ page' = [page EXCEPT !.at = "ready", !.on = 0, !.read = 0]
  /\ UNCHANGED <<history, active, analysis, calls, faults>>

\* The user stops the stream, which stops nothing else; the page takes the
\* next question.
Stop ==
  /\ page.at \in {"sending", "tailing"}
  /\ page' = [page EXCEPT !.at = "ready", !.on = 0, !.read = 0, !.stopped = @ \cup {page.on}]
  /\ UNCHANGED <<history, active, analysis, calls, faults>>

Leave ==
  /\ page.at \in {"ready", "sending", "tailing"}
  /\ page' = NoPage
  /\ UNCHANGED <<history, active, analysis, calls, faults>>

\* The page comes back: getHistory, then reattach.
LoadHistory ==
  /\ page.at = "away"
  /\ page' = [NoPage EXCEPT !.at = "loaded", !.shows = history,
                            !.running = {n \in Questions : Live(n)},
                            !.saved = {n \in Questions : Answered(n) \in ToSet(history)}]
  /\ UNCHANGED <<history, active, analysis, calls, faults>>

\* 404 without an active relay.  What ran when the history was read and is not
\* followed now is missed, unless its answer was there: then, followed, it is
\* seen twice.
Reattach ==
  /\ page.at = "loaded"
  /\ page' = [page EXCEPT
       !.at = IF active = 0 THEN "ready" ELSE "tailing", !.on = active,
       !.missed = {n \in page.running \ (page.saved \cup {active}) :
                     active # 0 \/ ~Live(n) \/ ~Started(n) \/ analysis[n].displaced},
       !.twice = page.saved \cap page.running \cap {active},
       !.running = {}, !.saved = {}]
  /\ UNCHANGED <<history, active, analysis, calls, faults>>

\* The pod of admin-api goes, with its relays and producers.  The requests of
\* the page fail.
PodCrash ==
  /\ \E n \in Questions : Live(n)
  /\ Fault
  /\ analysis' = [n \in Questions |->
       IF Live(n) THEN [NoAnalysis EXCEPT !.at = "crashed", !.cut = TRUE] ELSE analysis[n]]
  /\ calls' = [c \in Calls |-> IF calls[c].at = "unused" THEN calls[c] ELSE [calls[c] EXCEPT !.at = "over"]]
  /\ active' = 0
  /\ page' = IF page.at \in {"sending", "tailing"}
             THEN [page EXCEPT !.at = "ready", !.on = 0, !.read = 0, !.stopped = @ \cup {page.on}]
             ELSE page
  /\ UNCHANGED history

----------------------------------------------------------------------------
ChatNext ==
  \/ \E n \in Questions :
       \/ ModelSays(n) \/ ToolsStart(n) \/ ToolsReturn(n) \/ ModelEnds(n) \/ ModelFails(n)
       \/ StreamRead(n) \/ StreamEnds(n) \/ ProducerFails(n) \/ SaveAnswer(n) \/ Finish(n)
       \/ Ask(n) \/ Register(n)
       \/ \E c \in Calls, tool \in Tools : ModelAsks(n, c, tool)
  \/ \E c \in Calls : ToolAnswers(c) \/ AutoValidates(c) \/ ToolFails(c)
  \/ Receive \/ StreamCloses \/ Stop \/ Leave \/ LoadHistory \/ Reattach \/ PodCrash

ChatSpec == ChatInit /\ [][ChatNext]_chatVars

----------------------------------------------------------------------------
\* Types of the state.
Cards == [tool : Tools, call : 0..MaxCalls, result : 0..MaxCalls]
ChatTypeOK ==
  /\ active \in 0..MaxQuestions /\ faults \in 0..MaxFaults
  /\ ToSet(history) \subseteq {"question", "answer"} \X Questions
  /\ \A n \in Questions : ToSet(analysis[n].cards) \subseteq Cards /\ analysis[n].blurred \subseteq Tools
  /\ \A c \in Calls : calls[c].of \in 0..MaxQuestions /\ calls[c].tool \in Tools
  /\ page.on \in 0..MaxQuestions /\ ToSet(page.shows) \subseteq {"question", "answer"} \X Questions

\* A page at rest shows one answer to each of its questions.  None only if the
\* analysis failed, its stream was stopped or broke or, on coming back, the analysis
\* ran when the history was read and then was over, not registered yet, or
\* displaced by another question; two only if the answer was in that history
\* while its relay was still there.
EachAnsweredOnce ==
  page.at = "ready" =>
    \A n \in Questions : Asked(n) \in ToSet(page.shows) =>
      LET shown == Cardinality({i \in DOMAIN page.shows : page.shows[i] = Answered(n)}) IN
      CASE shown = 0 -> analysis[n].cut \/ n \in page.stopped \cup page.missed
        [] shown = 1 -> TRUE
        [] OTHER -> n \in page.twice

\* In a saved answer, a call that the page shows has the result of that call,
\* although results only carry the name of the tool.  The causes of a wrong
\* pair: calls of one message that answer under the same name, a call of the
\* tool that failed, a result that overtook the event of its call.  A result
\* is missing only if the model failed on the way.
CardsPaired ==
  \A n \in Questions : analysis[n].at \in {"closing", "over"} =>
    \A card \in ToSet(analysis[n].cards) :
      (card.call # 0 /\ card.tool # Verified /\ card.tool \notin analysis[n].blurred) =>
        card.result \in {card.call} \cup (IF analysis[n].cut THEN {0} ELSE {})
=============================================================================
