------------------------------ MODULE Serving ------------------------------
(***************************************************************************)
(* One request in the gateway once the middleware has let it through: its  *)
(* router, the walk over the fallback candidates behind the circuit        *)
(* breaker, the call to the provider, the answer or the stream, and the    *)
(* report of its usage. Requests interleave at every await. Tokens are     *)
(* abstracted to "the provider reported some"; what the reservations and   *)
(* the report do to the counters is in RateLimit and CostRecorder.         *)
(***************************************************************************)
EXTENDS CircuitBreaker, Sequences, SequencesExt

CONSTANTS
  Requests,
  Routers,       \* per request: the routes it may come by
  Original,      \* per request: the model it names
  AllowedSets,   \* what allowed_models of a key may be, {} for no limit
  ChainTo,       \* per model: where the downgrade chain leads
  NoModel,       \* it leads nowhere
  ProviderOf,    \* alias_provider_map
  MaxDepth,      \* max_depth of the fallback chain
  MaxFaults      \* bound: failed calls to Redis by the breaker

ASSUME ServingAssumption ==
  /\ Routers \in [Requests -> SUBSET {"messages", "chat", "responses", "raw", "count"}]
  /\ Original \in [Requests -> Models]
  /\ NoModel \notin Models
  /\ ChainTo \in [Models -> Models \cup {NoModel}]
  /\ ProviderOf \in [Models -> {"BEDROCK", "BEDROCK_MANTLE", "BEDROCK_MANTLE_OPENAI", "OPENMODEL"}]
  /\ MaxDepth \in Nat /\ MaxFaults \in Nat

VARIABLES
  pc,            \* per request: where it is
  route,         \* per request: the router that serves it
  allowed,       \* per request: allowed_models of its key
  order,         \* per request: try_order, from the current candidate on
  called,        \* per request: models invoked so far, in order
  status,        \* per request: status of the last answer or failure
  held,          \* <<request, model>> with a reservation
  reported,      \* <<request, model>> that finalize has recorded
  faults

serving == <<pc, route, allowed, order, called, status, held, reported>>
vars == <<serving, breaker, faults>>

-----------------------------------------------------------------------------
(* Models and providers.                                                   *)

\* The chain from m, at most MaxDepth steps and never twice the same model;
\* of what it visits, the models of m's provider that the key allows.
TryOrder(m, scope) ==
  LET walked == FoldLeft(LAMBDA path, i :
                           IF ChainTo[Last(path)] \in Models \ Range(path)
                             THEN Append(path, ChainTo[Last(path)]) ELSE path,
                         <<m>>, [i \in 1..MaxDepth |-> i])
  IN <<m>> \o SelectSeq(Tail(walked), LAMBDA n :
                ProviderOf[n] = ProviderOf[m] /\ (scope = {} \/ n \in scope))

InScope(m, scope) == scope = {} \/ m \in scope

\* What the adapters make of the provider's answer: AWS error codes become
\* statuses (502 for those not listed), a failed connection 502, a timeout of
\* an open model 504; what HTTP providers answer passes unchanged. 400 stands
\* for every status that is neither a success nor a reason for a fallback.
BedrockStatuses == {200, 400, 502, 504}
HttpStatuses == {200, 400, 502, 503}
StatusesOf(by, m) ==
  CASE by = "raw" \/ (by = "messages" /\ ProviderOf[m] = "BEDROCK") -> BedrockStatuses
    [] by = "chat" -> HttpStatuses \cup {504}
    [] OTHER -> HttpStatuses

FallbackStatuses == {502, 503, 504}
FailureStatuses == {502, 503}

-----------------------------------------------------------------------------
Candidate(r) == Head(order[r])
IsOriginal(r) == Candidate(r) = Original[r]

Go(r, where) == pc' = [pc EXCEPT ![r] = where]
Answer(r, code) == Go(r, "done") /\ status' = [status EXCEPT ![r] = code]
NextCandidate(r) == Go(r, "gate") /\ order' = [order EXCEPT ![r] = Tail(@)]

Init ==
  /\ pc = [r \in Requests |-> "idle"]
  /\ route = [r \in Requests |-> "messages"]
  /\ allowed = [r \in Requests |-> {}]
  /\ order = [r \in Requests |-> <<>>]
  /\ called = [r \in Requests |-> <<>>]
  /\ status = [r \in Requests |-> 0]
  /\ held = {} /\ reported = {} /\ faults = 0
  /\ BreakerInit

Admit(r) ==
  /\ pc[r] = "idle"
  /\ \E by \in Routers[r], key \in AllowedSets :
       /\ route' = [route EXCEPT ![r] = by]
       /\ allowed' = [allowed EXCEPT ![r] = key]

\* A body that does not parse or names no model, or a model that does not
\* resolve. The raw route does not catch what resolving raises: a 500.
Refuse(r) ==
  /\ Admit(r)
  /\ Answer(r, IF route'[r] = "raw" THEN 500 ELSE 400)
  /\ UNCHANGED <<order, called, held, reported, breaker, faults>>

\* POST /v1/messages: the candidates are fixed before the first is tried.
Messages(r) ==
  /\ Admit(r) /\ route'[r] = "messages"
  /\ order' = [order EXCEPT ![r] = TryOrder(Original[r], allowed'[r])]
  /\ Go(r, "gate")
  /\ UNCHANGED <<called, status, held, reported, breaker, faults>>

\* The other routes check the scope at once and know no second candidate.
Single(r) ==
  /\ Admit(r) /\ route'[r] # "messages"
  /\ order' = [order EXCEPT ![r] = <<Original[r]>>]
  /\ IF ~InScope(Original[r], allowed'[r]) THEN Answer(r, 400)
     ELSE /\ Go(r, IF route'[r] = "count" THEN "counting" ELSE "limit")
          /\ UNCHANGED status
  /\ UNCHANGED <<called, held, reported, breaker, faults>>

\* CountTokens: neither limits nor usage.
CountTokens(r) ==
  /\ pc[r] = "counting"
  /\ \E code \in BedrockStatuses : Answer(r, code)
  /\ UNCHANGED <<route, allowed, order, called, held, reported, breaker, faults>>

\* A candidate that does not resolve any more is skipped (the original was
\* resolved before).
Unresolved(r) ==
  /\ pc[r] = "gate" /\ order[r] # <<>> /\ ~IsOriginal(r)
  /\ NextCandidate(r)
  /\ UNCHANGED <<route, allowed, called, status, held, reported, breaker, faults>>

\* Past the breaker, the scope is checked without an await.
PastBreaker(r) ==
  IF InScope(Candidate(r), allowed[r])
    THEN Go(r, "limit") /\ UNCHANGED <<order, status>>
  ELSE IF IsOriginal(r) THEN Answer(r, 400) /\ UNCHANGED order
  ELSE NextCandidate(r) /\ UNCHANGED status

\* is_open; a failing Redis reads as closed.
Gate(r) ==
  /\ pc[r] = "gate" /\ order[r] # <<>>
  /\ \/ /\ Candidate(r) \in open
        /\ Go(r, "probe") /\ UNCHANGED <<order, status, faults>>
     \/ /\ Candidate(r) \notin open
        /\ PastBreaker(r) /\ UNCHANGED faults
     \/ /\ faults < MaxFaults /\ faults' = faults + 1
        /\ PastBreaker(r)
  /\ UNCHANGED <<route, allowed, called, held, reported, breaker>>

\* mutant: who finds the slot taken asks again.
ProbeAgain(r) ==
  /\ pc[r] = "probe"
  /\ IF Candidate(r) \in slot
       THEN Go(r, "gate") /\ UNCHANGED <<order, status, breaker>>
       ELSE PastBreaker(r) /\ TakeSlot(Candidate(r))
  /\ UNCHANGED <<route, allowed, called, held, reported, faults>>

\* SET NX PX of the slot: the winner goes on, the others skip the candidate.
Probe(r) ==
  /\ pc[r] = "probe"
  /\ IF Candidate(r) \in slot
       THEN NextCandidate(r) /\ UNCHANGED <<status, breaker>>
       ELSE PastBreaker(r) /\ TakeSlot(Candidate(r))
  /\ UNCHANGED <<route, allowed, called, held, reported, faults>>

ProbeFailsOpen(r) ==
  /\ pc[r] = "probe"
  /\ faults < MaxFaults /\ faults' = faults + 1
  /\ PastBreaker(r)
  /\ UNCHANGED <<route, allowed, called, held, reported, breaker>>

\* enforce_rate_limits lets the request pass, with a reservation unless no
\* limit applies, and the provider is called.
Pass(r) ==
  /\ pc[r] = "limit"
  /\ held' \in {held, held \cup {<<r, Candidate(r)>>}}
  /\ called' = [called EXCEPT ![r] = Append(@, Candidate(r))]
  /\ Go(r, "flight")
  /\ UNCHANGED <<route, allowed, order, status, reported, breaker, faults>>

\* It rejects: 429 for the original, the next candidate otherwise.
Reject(r) ==
  /\ pc[r] = "limit"
  /\ IF IsOriginal(r) THEN Answer(r, 429) /\ UNCHANGED order
     ELSE NextCandidate(r) /\ UNCHANGED status
  /\ UNCHANGED <<route, allowed, called, held, reported, breaker, faults>>

\* The provider answers. Only /v1/messages has a fallback and a breaker.
Return(r) ==
  /\ pc[r] = "flight"
  /\ \E code \in StatusesOf(route[r], Candidate(r)) :
       /\ status' = [status EXCEPT ![r] = code]
       /\ Go(r, IF route[r] # "messages" THEN "reply"
                ELSE IF code \in FailureStatuses THEN "failure"
                ELSE IF code \in FallbackStatuses THEN "unwind"
                ELSE IF code = 200 THEN "success" ELSE "reply")
  /\ UNCHANGED <<route, allowed, order, called, held, reported, breaker, faults>>

\* The outcome is recorded, unless Redis fails.
RecordOutcome(r, failed) ==
  \/ Record(Candidate(r), failed) /\ UNCHANGED faults
  \/ faults < MaxFaults /\ faults' = faults + 1 /\ UNCHANGED breaker

RecordFailure(r) ==
  /\ pc[r] = "failure" /\ RecordOutcome(r, TRUE)
  /\ Go(r, "unwind")
  /\ UNCHANGED <<route, allowed, order, called, status, held, reported>>

\* mutant: a failed candidate keeps its reservation.
KeepAndGoOn(r) ==
  /\ pc[r] = "unwind"
  /\ NextCandidate(r)
  /\ UNCHANGED <<route, allowed, called, status, held, reported, breaker, faults>>

\* mutant: only what the breaker counts as a failure is given back.
UnwindFailures(r) ==
  /\ pc[r] = "unwind"
  /\ held' = IF status[r] \in FailureStatuses THEN held \ {<<r, Candidate(r)>>} ELSE held
  /\ NextCandidate(r)
  /\ UNCHANGED <<route, allowed, called, status, reported, breaker, faults>>

\* The reservation of the failed candidate goes back before the next.
Unwind(r) ==
  /\ pc[r] = "unwind"
  /\ held' = held \ {<<r, Candidate(r)>>}
  /\ NextCandidate(r)
  /\ UNCHANGED <<route, allowed, called, status, reported, breaker, faults>>

RecordSuccess(r) ==
  /\ pc[r] = "success" /\ RecordOutcome(r, FALSE)
  /\ Go(r, "close")
  /\ UNCHANGED <<route, allowed, order, called, status, held, reported>>

Close(r) ==
  /\ pc[r] = "close"
  /\ \/ CloseCircuit(Candidate(r)) /\ UNCHANGED faults
     \/ faults < MaxFaults /\ faults' = faults + 1 /\ UNCHANGED breaker
  /\ Go(r, "reply")
  /\ UNCHANGED <<route, allowed, order, called, status, held, reported>>

\* No candidate is left: 503 when none was called, the last failure if not.
Exhausted(r) ==
  /\ pc[r] = "gate" /\ order[r] = <<>>
  /\ Answer(r, IF called[r] = <<>> THEN 503 ELSE status[r])
  /\ UNCHANGED <<route, allowed, order, called, held, reported, breaker, faults>>

\* What was asked for decides between an answer in one piece and a stream; it
\* is not read before. An answer in one piece is recorded if the provider reported tokens in it.
Reply(r) ==
  /\ pc[r] = "reply"
  /\ \/ status[r] = 200 /\ Go(r, "finalize")
     \/ Go(r, "done")
  /\ UNCHANGED <<route, allowed, order, called, status, held, reported, breaker, faults>>

StartStream(r) ==
  /\ pc[r] = "reply"
  /\ Go(r, "stream")
  /\ UNCHANGED <<route, allowed, order, called, status, held, reported, breaker, faults>>

\* The upstream iterator ends: usage is reported, be it empty. The raw route
\* reports in its finally block, if there is anything to report or settle.
StreamEnds(r) ==
  /\ pc[r] = "stream"
  /\ \/ Go(r, "finalize")
     \/ route[r] = "raw" /\ (\A m \in Models : <<r, m>> \notin held) /\ Go(r, "done")
  /\ UNCHANGED <<route, allowed, order, called, status, held, reported, breaker, faults>>

\* No chunk for idle_timeout, or an exception out of the adapter (those of the
\* HTTP providers end their iterator instead): an error event and no report.
StreamFails(r) ==
  /\ pc[r] = "stream" /\ route[r] # "raw"
  /\ Go(r, "done")
  /\ UNCHANGED <<route, allowed, order, called, status, held, reported, breaker, faults>>

\* The client goes away: a task of its own drains the rest of the stream.
Disconnect(r) ==
  /\ pc[r] = "stream" /\ route[r] # "raw"
  /\ Go(r, "drain")
  /\ UNCHANGED <<route, allowed, order, called, status, held, reported, breaker, faults>>

\* The drain ends by the end of the stream, an exception, or the first chunk
\* past its deadline, and reports in each case.
Drain(r) ==
  /\ pc[r] = "drain"
  /\ Go(r, "finalize")
  /\ UNCHANGED <<route, allowed, order, called, status, held, reported, breaker, faults>>

\* mutant: the usage is recorded under the model the request named.
FinalizeOriginal(r) ==
  /\ pc[r] = "finalize"
  /\ reported' = reported \cup {<<r, Original[r]>>}
  /\ held' = held \ {<<r, Candidate(r)>>}
  /\ Go(r, "done")
  /\ UNCHANGED <<route, allowed, order, called, status, breaker, faults>>

\* finalize records the usage under the model that answered and settles the
\* reservation.
Finalize(r) ==
  /\ pc[r] = "finalize"
  /\ reported' = reported \cup {<<r, Candidate(r)>>}
  /\ held' = held \ {<<r, Candidate(r)>>}
  /\ Go(r, "done")
  /\ UNCHANGED <<route, allowed, order, called, status, breaker, faults>>

Handle(r) ==
  \/ Refuse(r) \/ Messages(r) \/ Single(r) \/ CountTokens(r)
  \/ Unresolved(r) \/ Gate(r) \/ Probe(r) \/ ProbeFailsOpen(r)
  \/ Pass(r) \/ Reject(r) \/ Return(r)
  \/ RecordFailure(r) \/ Unwind(r) \/ RecordSuccess(r) \/ Close(r)
  \/ Exhausted(r) \/ Reply(r) \/ StartStream(r)
  \/ StreamEnds(r) \/ StreamFails(r) \/ Drain(r) \/ Finalize(r)

Next ==
  \/ \E r \in Requests : Handle(r) \/ Disconnect(r)
  \/ Lapse /\ UNCHANGED <<serving, faults>>

Spec == Init /\ [][Next]_vars

\* Handlers run on; providers answer within their timeouts, and a stream
\* ends, fails or hits the idle timeout. Nobody has to send a request.
Fairness == \A r \in Requests : WF_vars(pc[r] # "idle" /\ Handle(r))
FairSpec == Spec /\ Fairness

-----------------------------------------------------------------------------
ServingTypeOK ==
  /\ pc \in [Requests -> {"idle", "counting", "gate", "probe", "limit", "flight", "failure",
                          "unwind", "success", "close", "reply", "stream", "drain",
                          "finalize", "done"}]
  /\ order \in [Requests -> Seq(Models)] /\ called \in [Requests -> Seq(Models)]
  /\ held \subseteq Requests \X Models /\ reported \subseteq Requests \X Models
  /\ faults \in 0..MaxFaults
  /\ BreakerTypeOK

\* What a request may do with its reservations, whichever candidates it tries.
Contract == INSTANCE Reservation WITH
  held <- {p[1] : p \in held}, reported <- {p[1] : p \in reported}

\* The walk never reserves for a candidate while it holds a reservation for
\* another, settles at most once, and reserves nothing after the report.
ImplementsContract == Contract!Spec

\* A reservation that outlives its request is that of the last model called,
\* whose answer was no reason for a fallback and was never reported: a cut
\* stream, an error passed on, or an answer without usage. No candidate that
\* was given up keeps one.
LeakHasCause ==
  \A p \in held : pc[p[1]] = "done" =>
    /\ p[2] = Last(called[p[1]])
    /\ route[p[1]] = "messages" => status[p[1]] \notin FallbackStatuses
    /\ p \notin reported

\* Only a model that was called and did answer is charged to a request, and
\* only one: never a candidate that failed over to the next.
ChargedModelAnswered ==
  \A p \in reported :
    /\ p[2] = Last(called[p[1]])
    /\ route[p[1]] = "messages" => status[p[1]] \notin FallbackStatuses

\* Every request that arrived is done with, its drain and its report included.
Answered == \A r \in Requests : pc[r] # "idle" ~> pc[r] = "done"
=============================================================================
