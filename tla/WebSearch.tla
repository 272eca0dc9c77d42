----------------------------- MODULE WebSearch -----------------------------
(***************************************************************************)
(* The server-side web search loop for one request: several turns of the   *)
(* model, with searches between them, stitched into one answer. The client *)
(* sees the blocks of all turns in one envelope and none of the calls of   *)
(* the tool the gateway itself put in. Upstream events come in the order   *)
(* the providers send them; a stream may break off after any of them.      *)
(***************************************************************************)
EXTENDS Integers, Sequences

CONSTANTS
  MaxIterations,   \* web_search_max_iterations
  MaxBlocks        \* bound: content blocks in all turns of a stream, calls in a body

ASSUME WebSearchAssumption ==
  MaxIterations \in Nat /\ MaxBlocks \in Nat

VARIABLES
  dialect,         \* "anthropic" or "responses"
  is_stream,
  pc,
  late,            \* the total deadline is past
  search_attempts,
  searches_done,
  force_final,     \* of the current turn
  turn,            \* parse state of the current turn
  envelope_open,
  global_index,    \* of the next block in the envelope
  terminal,        \* stop_reason_final, final_terminal_type
  sent,            \* what the client got
  conversation,    \* per search turn: calls made, and results given
  merged,          \* usage summed up so far
  billed,          \* usage the provider reported
  reports,         \* what on_usage was called with
  gone,            \* the client went away
  tool             \* the MCP client's tool name: "none" or "known"

reading == <<turn, envelope_open, global_index, terminal, sent>>
searching == <<search_attempts, searches_done, conversation>>
vars == <<dialect, is_stream, pc, late, force_final, reading, searching,
          merged, billed, reports, gone, tool>>

-----------------------------------------------------------------------------
Kinds == {"text", "ours", "client"}

\* block is the kind of the block being read and at its place in the envelope;
\* calls is pending_searches by the block that made it, results their answers.
\* blocks counts on from turn to turn.
NewTurn == [started |-> FALSE, ended |-> FALSE, blocks |-> 0, block |-> "none", at |-> 0,
            calls |-> <<>>, results |-> <<>>, client |-> FALSE, error |-> FALSE]

Completed == IF dialect = "anthropic" THEN "end_turn" ELSE "response.completed"
Failed == IF dialect = "anthropic" THEN "failed" ELSE "response.failed"

Init ==
  /\ dialect \in {"anthropic", "responses"} /\ is_stream \in BOOLEAN
  /\ pc = "idle" /\ late = FALSE
  /\ search_attempts = 0 /\ searches_done = 0 /\ conversation = <<>>
  /\ force_final = FALSE /\ turn = NewTurn
  /\ envelope_open = FALSE /\ global_index = 0 /\ sent = <<>>
  /\ terminal = Completed
  /\ merged = 0 /\ billed = 0 /\ reports = <<>>
  /\ gone = FALSE
  /\ tool \in {"none", "known"}

DeadlinePasses ==
  /\ ~late /\ late' = TRUE
  /\ UNCHANGED <<dialect, is_stream, pc, force_final, reading, searching,
                 merged, billed, reports, gone, tool>>

-----------------------------------------------------------------------------
(* The MCP client, shared by the requests of the process.                  *)

\* initialize, notifications/initialized, tools/list under the lock, unless
\* the tool is known. Any of the calls may fail, or list no such tool.
ensure_initialized(found) ==
  \/ found /\ tool' = "known"
  \/ ~found /\ tool = "none" /\ tool' = "none"

\* Only a protocol error of tools/call forgets the tool; an empty query, a
\* timeout, a lost connection and result.isError do not.
search(ok) ==
  \/ ok /\ ensure_initialized(TRUE)
  \/ ~ok /\ (ensure_initialized(FALSE) \/ ensure_initialized(TRUE) \/ tool' = "none")

\* A search of another request meets a protocol error.
ToolForgotten ==
  /\ tool = "known" /\ tool' = "none" /\ pc \notin {"done", "passed"}
  /\ UNCHANGED <<dialect, is_stream, pc, late, force_final, reading, searching,
                 merged, billed, reports, gone>>

-----------------------------------------------------------------------------
\* The loop starts if the tool is there. A client with a web_search tool of its
\* own, and every client while the tool cannot be discovered, is passed through.
Begin ==
  /\ pc = "idle"
  /\ \/ pc' = "turn" /\ ensure_initialized(TRUE)
     \/ pc' = "plain" /\ (ensure_initialized(FALSE) \/ UNCHANGED tool)
  /\ UNCHANGED <<dialect, is_stream, late, force_final, reading, searching,
                 merged, billed, reports, gone>>

\* One call without the tool. Its stream goes through the proxies of Serving: it
\* reports when it ends, and not at all when it fails; a body is reported if the
\* provider counted tokens in it.
PassThrough ==
  /\ pc = "plain" /\ pc' = "passed"
  /\ \E usage \in {0, 2} :
       /\ billed' = usage
       /\ \/ reports' = IF is_stream \/ usage > 0 THEN <<usage>> ELSE <<>>
          \/ is_stream /\ UNCHANGED reports
  /\ UNCHANGED <<dialect, is_stream, late, force_final, reading, searching, merged, gone, tool>>

\* Past the last search, or past the deadline, the turn has no web_search tool.
ForceFinal == force_final' = (search_attempts >= MaxIterations \/ late)

\* The next turn of a stream.
OpenTurn ==
  /\ pc = "turn" /\ is_stream
  /\ ForceFinal /\ turn' = [NewTurn EXCEPT !.blocks = turn.blocks] /\ pc' = "read"
  /\ UNCHANGED <<dialect, is_stream, late, envelope_open, global_index, terminal, sent,
                 searching, merged, billed, reports, gone, tool>>

\* A turn that is refused: its error goes to the client, and an open envelope
\* is closed.
TurnRefused ==
  /\ pc = "turn" /\ is_stream
  /\ ForceFinal /\ pc' = "report"
  /\ sent' = sent \o <<<<"error">>>> \o IF envelope_open THEN <<<<"stop", Failed>>>> ELSE <<>>
  /\ UNCHANGED <<dialect, is_stream, late, turn, envelope_open, global_index, terminal,
                 searching, merged, billed, reports, gone, tool>>

\* An exception anywhere in the loop of a stream.
Crash ==
  /\ pc \in {"turn", "read", "search"} /\ is_stream
  /\ pc' = "report"
  /\ sent' = IF envelope_open THEN sent \o <<<<"error">>, <<"stop", Failed>>>> ELSE sent
  /\ UNCHANGED <<dialect, is_stream, late, force_final, turn, envelope_open, global_index,
                 terminal, searching, merged, billed, reports, gone, tool>>

\* The client leaves: the generator is cancelled wherever it waits, and its
\* finally block with it, so that the report may or may not get through.
Disconnect ==
  /\ pc \in {"turn", "read", "search"} /\ is_stream
  /\ gone' = TRUE /\ pc' \in {"report", "done"}
  /\ UNCHANGED <<dialect, is_stream, late, force_final, reading, searching,
                 merged, billed, reports, tool>>

-----------------------------------------------------------------------------
Usage(n) == merged' = merged + n /\ billed' = billed + n

\* mutant: only the first turn counts what the provider read.
FirstTurnStarts ==
  /\ pc = "read" /\ ~turn.started
  /\ turn' = [turn EXCEPT !.started = TRUE]
  /\ IF envelope_open THEN UNCHANGED <<envelope_open, sent, merged>>
     ELSE envelope_open' = TRUE /\ sent' = Append(sent, <<"start">>)
          /\ merged' = merged + (IF dialect = "anthropic" THEN 1 ELSE 0)
  /\ billed' = billed + IF dialect = "anthropic" THEN 1 ELSE 0
  /\ UNCHANGED <<dialect, is_stream, pc, late, force_final, global_index, terminal,
                 searching, reports, gone, tool>>

\* message_start, response.created: forwarded once. message_start carries the
\* input tokens.
TurnStarts ==
  /\ pc = "read" /\ ~turn.started
  /\ turn' = [turn EXCEPT !.started = TRUE]
  /\ IF envelope_open THEN UNCHANGED <<envelope_open, sent>>
     ELSE envelope_open' = TRUE /\ sent' = Append(sent, <<"start">>)
  /\ Usage(IF dialect = "anthropic" THEN 1 ELSE 0)
  /\ UNCHANGED <<dialect, is_stream, pc, late, force_final, global_index, terminal,
                 searching, reports, gone, tool>>

Receiving == pc = "read" /\ turn.started /\ ~turn.ended

\* mutant: blocks keep the index the provider gave them.
BlockKeepsIndex(kind) ==
  /\ Receiving /\ turn.block = "none" /\ turn.blocks < MaxBlocks
  /\ turn' = [turn EXCEPT !.blocks = @ + 1, !.block = kind, !.at = turn.blocks,
                          !.client = @ \/ kind = "client"]
  /\ IF kind = "ours" THEN UNCHANGED <<sent, global_index>>
     ELSE sent' = Append(sent, <<"open", turn.blocks>>) /\ global_index' = global_index + 1
  /\ UNCHANGED <<dialect, is_stream, pc, late, force_final, envelope_open, terminal,
                 searching, merged, billed, reports, gone, tool>>

\* content_block_start, output_item.added: a block of ours is suppressed, any
\* other gets the next place in the envelope.
BlockStarts(kind) ==
  /\ Receiving /\ turn.block = "none" /\ turn.blocks < MaxBlocks
  /\ turn' = [turn EXCEPT !.blocks = @ + 1, !.block = kind, !.at = global_index,
                          !.client = @ \/ kind = "client"]
  /\ IF kind = "ours" THEN UNCHANGED <<sent, global_index>>
     ELSE sent' = Append(sent, <<"open", global_index>>) /\ global_index' = global_index + 1
  /\ UNCHANGED <<dialect, is_stream, pc, late, force_final, envelope_open, terminal,
                 searching, merged, billed, reports, gone, tool>>

\* content_block_stop, output_item.done. The deltas in between follow their
\* block.
BlockStops ==
  /\ Receiving /\ turn.block # "none"
  /\ turn' = [turn EXCEPT !.block = "none",
                          !.calls = IF turn.block = "ours" THEN Append(@, turn.blocks) ELSE @]
  /\ sent' = IF turn.block = "ours" THEN sent ELSE Append(sent, <<"close", turn.at>>)
  /\ UNCHANGED <<dialect, is_stream, pc, late, force_final, envelope_open, global_index,
                 terminal, searching, merged, billed, reports, gone, tool>>

\* message_delta; response.completed, .incomplete, .failed: kept for the end,
\* with the usage it carries.
TurnEnds ==
  /\ Receiving /\ turn.block = "none"
  /\ turn' = [turn EXCEPT !.ended = TRUE]
  /\ terminal' \in IF dialect = "responses"
                     THEN {"response.completed", "response.incomplete", "response.failed"}
                   ELSE IF turn.client \/ turn.calls # <<>> THEN {"tool_use"}
                   ELSE {"end_turn"}
  /\ Usage(IF dialect = "anthropic" THEN 1 ELSE 2)
  /\ UNCHANGED <<dialect, is_stream, pc, late, force_final, envelope_open, global_index, sent,
                 searching, reports, gone, tool>>

\* An error event within the stream goes to the client.
ErrorEvent ==
  /\ pc = "read" /\ ~turn.error
  /\ turn' = [turn EXCEPT !.error = TRUE]
  /\ sent' = Append(sent, <<"error">>)
  /\ UNCHANGED <<dialect, is_stream, pc, late, force_final, envelope_open, global_index,
                 terminal, searching, merged, billed, reports, gone, tool>>

IsSearchTurn ==
  /\ turn.calls # <<>> /\ ~turn.client
  /\ dialect = "responses" => ~turn.error /\ terminal = "response.completed"

\* The stream of the turn is over, at its end or before: the envelope is closed
\* or the searches begin.
TurnOver ==
  /\ pc = "read"
  /\ IF IsSearchTurn /\ ~force_final
       THEN pc' = "search" /\ search_attempts' = search_attempts + 1 /\ UNCHANGED sent
       ELSE /\ pc' = "report" /\ UNCHANGED search_attempts
            /\ sent' = Append(sent,
                 <<"stop", IF dialect = "responses" /\ turn.error /\ terminal = Completed
                             THEN Failed ELSE terminal>>)
  /\ UNCHANGED <<dialect, is_stream, late, force_final, turn, envelope_open, global_index,
                 terminal, searches_done, conversation, merged, billed, reports, gone, tool>>

\* A turn of a request that does not stream. A body is taken as it is: its
\* calls, and whether it calls a tool of the client.
WholeTurn ==
  /\ pc = "turn" /\ ~is_stream
  /\ ForceFinal
  /\ \E calls \in 0..MaxBlocks, client \in BOOLEAN :
       /\ turn' = [NewTurn EXCEPT !.ended = TRUE, !.calls = [i \in 1..calls |-> i],
                                  !.client = client]
       /\ IF calls > 0 /\ ~client /\ ~force_final'
            THEN pc' = "search" /\ search_attempts' = search_attempts + 1
            ELSE pc' = "report" /\ UNCHANGED search_attempts
  /\ Usage(2)
  /\ UNCHANGED <<dialect, is_stream, late, envelope_open, global_index, terminal, sent,
                 searches_done, conversation, reports, gone, tool>>

\* The provider refuses, or the call raises: the loop ends.
WholeTurnFails ==
  /\ pc = "turn" /\ ~is_stream
  /\ ForceFinal /\ pc' = "report"
  /\ UNCHANGED <<dialect, is_stream, late, reading, searching, merged, billed, reports,
                 gone, tool>>

-----------------------------------------------------------------------------
Unanswered == Len(turn.results) < Len(turn.calls)

\* mutant: past the deadline the calls that are left get no result.
DropWhenLate ==
  /\ pc = "search" /\ Unanswered
  /\ late
  /\ turn' = [turn EXCEPT !.calls = SubSeq(@, 1, Len(turn.results))]
  /\ conversation' = Append(conversation, [calls |-> turn.calls, results |-> turn.results])
  /\ pc' = "turn"
  /\ UNCHANGED <<dialect, is_stream, late, force_final, envelope_open, global_index, terminal,
                 sent, search_attempts, searches_done, merged, billed, reports, gone, tool>>

\* Past the deadline, a call that is left gets an error for a result.
SearchTooLate ==
  /\ pc = "search" /\ Unanswered
  /\ late
  /\ turn' = [turn EXCEPT !.results = Append(@, turn.calls[Len(@) + 1])]
  /\ UNCHANGED <<dialect, is_stream, pc, late, force_final, envelope_open, global_index,
                 terminal, sent, searching, merged, billed, reports, gone, tool>>

\* _do_search: a result or, for any failure, an error. Only a result counts.
DoSearch ==
  /\ pc = "search" /\ Unanswered /\ ~late
  /\ turn' = [turn EXCEPT !.results = Append(@, turn.calls[Len(@) + 1])]
  /\ \E ok \in BOOLEAN : search(ok) /\ searches_done' = searches_done + IF ok THEN 1 ELSE 0
  /\ UNCHANGED <<dialect, is_stream, pc, late, force_final, envelope_open, global_index,
                 terminal, sent, search_attempts, conversation, merged, billed, reports, gone>>

\* Calls and results are appended for the next turn.
Continue ==
  /\ pc = "search" /\ ~Unanswered
  /\ conversation' = Append(conversation, [calls |-> turn.calls, results |-> turn.results])
  /\ pc' = "turn"
  /\ UNCHANGED <<dialect, is_stream, late, force_final, reading, search_attempts, searches_done,
                 merged, billed, reports, gone, tool>>

\* The finally block: a stream always reports, a whole body if it cost tokens.
Report ==
  /\ pc = "report" /\ pc' = "done"
  /\ reports' = IF is_stream \/ merged > 0 THEN Append(reports, merged) ELSE reports
  /\ UNCHANGED <<dialect, is_stream, late, force_final, reading, searching, merged, billed,
                 gone, tool>>

Step ==
  \/ Begin \/ PassThrough
  \/ OpenTurn \/ TurnRefused \/ Crash
  \/ TurnStarts \/ (\E kind \in Kinds : BlockStarts(kind)) \/ BlockStops
  \/ TurnEnds \/ ErrorEvent \/ TurnOver
  \/ WholeTurn \/ WholeTurnFails
  \/ SearchTooLate \/ DoSearch \/ Continue \/ Report

Next == Step \/ Disconnect \/ DeadlinePasses \/ ToolForgotten

Spec == Init /\ [][Next]_vars

-----------------------------------------------------------------------------
WebSearchTypeOK ==
  /\ pc \in {"idle", "plain", "turn", "read", "search", "report", "done", "passed"}
  /\ search_attempts \in 0..MaxIterations /\ searches_done \in Nat
  /\ global_index \in Nat /\ merged \in Nat /\ billed \in Nat
  /\ tool \in {"none", "known"} /\ Len(reports) <= 1

Places(kind, n) == {i \in 1..n : sent[i][1] = kind}
Opened(n) == {sent[i][2] : i \in Places("open", n)}

\* However many turns and searches there were, the client sees one envelope:
\* one start before any block, blocks numbered 0, 1, ... without a gap, none
\* closed that was not opened, nothing after the stop; and unless the client
\* left, an envelope that was opened is stopped.
Stitched ==
  LET all(kind) == Places(kind, Len(sent))
  IN /\ \A i \in all("open") : Opened(i - 1) = 0..(sent[i][2] - 1)
     /\ \A i \in all("open") \cup all("close") : \E j \in all("start") : j < i
     /\ \A i \in all("close") : \E j \in 1..(i - 1) : sent[j] = <<"open", sent[i][2]>>
     /\ \A i, j \in all("start") : i = j
     /\ \A i \in all("stop") : i = Len(sent)
     /\ (pc = "done" /\ envelope_open /\ ~gone) => all("stop") # {}

\* What is sent back to the model has one result for every call the gateway
\* answered, in the order of the calls, whether the search worked, failed or
\* came after the deadline; a turn that also calls a tool of the client is
\* never continued.
EveryCallAnswered ==
  /\ \A i \in 1..Len(conversation) :
       conversation[i].calls # <<>> /\ conversation[i].results = conversation[i].calls
  /\ pc = "search" => ~turn.client

\* Unless the client left, what every turn cost is reported, once, however the
\* loop ended.
UsageReported ==
  pc = "done" /\ ~gone => reports = IF is_stream \/ billed > 0 THEN <<billed>> ELSE <<>>
=============================================================================
