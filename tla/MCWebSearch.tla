---------------------------- MODULE MCWebSearch ----------------------------
(* Two loops around a model that share no state: the gateway's web search loop,
   and the checks in one turn of the chat agent (a vote and a plain SQL call).
   A behaviour moves one of them. *)
EXTENDS WebSearch, AnswerCheck

VARIABLE part
mcVars == <<vars, answerVars, part>>

(* One initial state of the part that does not move is enough; and where the
   critic is enabled it may still not be asked. *)
OneSearch == dialect = "anthropic" /\ is_stream /\ tool = "known"
OneTurn   == ~extras /\ ~deep
MCInit ==
  /\ Init /\ AnswerInit
  /\ \/ part = "search" /\ OneTurn
     \/ part = "answer" /\ OneSearch /\ extras = deep

MCNext ==
  /\ UNCHANGED part
  /\ \/ part = "search" /\ Next /\ UNCHANGED answerVars
     \/ part = "answer" /\ AnswerNext /\ UNCHANGED vars

MCSpec == MCInit /\ [][MCNext]_mcVars
============================================================================
