--------------------------- MODULE ServingProofs ---------------------------
(***************************************************************************)
(* Reservations and reports of the requests in a gateway, for any requests,*)
(* models, chains and breaker. Requests share the breaker only: a step of  *)
(* one leaves the others as they are, so the invariant is one of each      *)
(* request. Its heart is that whatever a request holds is held for the     *)
(* candidate it has called last.                                           *)
(***************************************************************************)
EXTENDS Serving, TLAPS

Points == {"idle", "counting", "gate", "probe", "limit", "flight", "failure", "unwind",
           "success", "close", "reply", "stream", "drain", "finalize", "done"}

\* Between the call of a candidate and the decision what comes of it.
Engaged == {"flight", "failure", "unwind", "success", "close", "reply", "stream", "drain",
            "finalize"}
Answering == {"success", "close", "reply", "stream", "drain", "finalize"}

RouteNames == {"messages", "chat", "responses", "raw", "count"}

Shape ==
  /\ pc \in [Requests -> Points] /\ route \in [Requests -> RouteNames]
  /\ order = [r \in Requests |-> order[r]]
  /\ called = [r \in Requests |-> called[r]]
  /\ status \in [Requests -> Nat]
  /\ \A p \in held \cup reported : p[1] \in Requests /\ p = <<p[1], p[2]>>

Sound(r) == route[r] = "messages" => status[r] \notin FallbackStatuses

CallsCandidate(r) ==
  /\ called[r] \in Seq(ToSet(called[r]))
  /\ pc[r] \in Engaged => called[r] # <<>> /\ Last(called[r]) = Candidate(r)
  /\ pc[r] \in Answering => Sound(r)

HoldsLast(r) ==
  \A p \in held : p[1] = r =>
    /\ pc[r] \in Engaged \cup {"done"} /\ p[2] = Last(called[r]) /\ p \notin reported
    /\ pc[r] = "done" => Sound(r)

ReportsLast(r) ==
  \A p \in reported : p[1] = r => pc[r] = "done" /\ p[2] = Last(called[r]) /\ Sound(r)

Orderly(r) == CallsCandidate(r) /\ HoldsLast(r) /\ ReportsLast(r)

ServingInv == Shape /\ \A r \in Requests : Orderly(r)

-----------------------------------------------------------------------------
\* A step of r leaves to the other requests what is theirs.
StepOf(r) ==
  /\ \A s \in Requests \ {r} :
       /\ pc'[s] = pc[s] /\ route'[s] = route[s] /\ order'[s] = order[s]
       /\ called'[s] = called[s] /\ status'[s] = status[s]
  /\ \A p : p[1] # r => (p \in held' <=> p \in held) /\ (p \in reported' <=> p \in reported)

LEMMA OthersOrderly ==
  ASSUME ServingInv, NEW r \in Requests, StepOf(r), Orderly(r)', Shape'
  PROVE  ServingInv'
<1>1. ASSUME NEW s \in Requests \ {r}
      PROVE  Orderly(s)'
  <2>1. Orderly(s)
    BY DEF ServingInv
  <2>2. /\ pc'[s] = pc[s] /\ route'[s] = route[s] /\ order'[s] = order[s]
        /\ called'[s] = called[s] /\ status'[s] = status[s]
    BY DEF StepOf
  <2>3. CallsCandidate(s)'
    BY <2>1, <2>2 DEF Orderly, CallsCandidate, Sound, Candidate
  <2>4. Sound(s)' <=> Sound(s)
    BY <2>2 DEF Sound
  <2>5. ASSUME NEW p \in held', p[1] = s
        PROVE  /\ pc'[s] \in Engaged \cup {"done"} /\ p[2] = Last(called'[s]) /\ p \notin reported'
               /\ pc'[s] = "done" => Sound(s)'
    <3>1. p \in held /\ p[1] # r /\ (p \in reported' <=> p \in reported)
      BY <2>5 DEF StepOf
    <3> QED
      BY <2>1, <2>2, <2>4, <2>5, <3>1 DEF Orderly, HoldsLast
  <2>6. ASSUME NEW p \in reported', p[1] = s
        PROVE  pc'[s] = "done" /\ p[2] = Last(called'[s]) /\ Sound(s)'
    <3>1. p \in reported
      BY <2>6 DEF StepOf
    <3> QED
      BY <2>1, <2>2, <2>4, <2>6, <3>1 DEF Orderly, ReportsLast
  <2> QED
    BY <2>3, <2>5, <2>6 DEF Orderly, HoldsLast, ReportsLast
<1> QED
  BY <1>1 DEF ServingInv

\* A step that reserves and reports nothing: what r holds or has reported
\* decides which steps of r are left.
LEMMA QuietStep ==
  ASSUME ServingInv, NEW r \in Requests, StepOf(r), Shape',
         UNCHANGED <<called, held, reported>>,
         CallsCandidate(r)',
         pc[r] \in Engaged => pc'[r] \in Engaged \cup {"done"},
         pc[r] \in Engaged /\ pc'[r] = "done" => Sound(r)',
         pc[r] # "done"
  PROVE  ServingInv'
<1>1. Orderly(r)
  BY DEF ServingInv
<1>2. HoldsLast(r)'
  BY <1>1 DEF Orderly, HoldsLast
<1>3. ReportsLast(r)'
  BY <1>1 DEF Orderly, ReportsLast
<1> QED
  BY <1>2, <1>3, OthersOrderly DEF Orderly

\* A function of which nothing but the value at r may change.
Touched(f, g, r) == g = f \/ \E x : g = [f EXCEPT ![r] = x]

LEMMA Frame ==
  ASSUME Shape, NEW r \in Requests, NEW w \in Points, pc' = [pc EXCEPT ![r] = w],
         Touched(route, route', r), Touched(order, order', r),
         Touched(called, called', r), Touched(status, status', r),
         route'[r] \in RouteNames, status'[r] \in Nat,
         \A p : p[1] # r => (p \in held' <=> p \in held) /\ (p \in reported' <=> p \in reported),
         \A p \in held' \cup reported' : p[1] = r => p = <<p[1], p[2]>>
  PROVE  StepOf(r) /\ Shape' /\ pc'[r] = w
<1>1. pc' \in [Requests -> Points] /\ pc'[r] = w /\ \A s \in Requests \ {r} : pc'[s] = pc[s]
  BY DEF Shape
<1>2. route' \in [Requests -> RouteNames] /\ \A s \in Requests \ {r} : route'[s] = route[s]
  BY DEF Shape, Touched
<1>3. status' \in [Requests -> Nat] /\ \A s \in Requests \ {r} : status'[s] = status[s]
  BY DEF Shape, Touched
<1>4. order' = [s \in Requests |-> order'[s]] /\ \A s \in Requests \ {r} : order'[s] = order[s]
  BY DEF Shape, Touched
<1>5. called' = [s \in Requests |-> called'[s]] /\ \A s \in Requests \ {r} : called'[s] = called[s]
  BY DEF Shape, Touched
<1>6. \A p \in held' \cup reported' : p[1] \in Requests /\ p = <<p[1], p[2]>>
  <2> SUFFICES ASSUME NEW p \in held' \cup reported'
               PROVE  p[1] \in Requests /\ p = <<p[1], p[2]>>
    OBVIOUS
  <2>1. CASE p[1] = r
    BY <2>1
  <2>2. CASE p[1] # r
    BY <2>2 DEF Shape
  <2> QED
    BY <2>1, <2>2
<1> QED
  BY <1>1, <1>2, <1>3, <1>4, <1>5, <1>6 DEF StepOf, Shape

\* A step before any candidate is called, or between two.
LEMMA EarlyStep ==
  ASSUME ServingInv, NEW r \in Requests, pc[r] \notin Engaged \cup {"done"},
         NEW w \in Points \ Engaged, pc' = [pc EXCEPT ![r] = w],
         Touched(route, route', r), Touched(order, order', r), Touched(status, status', r),
         route'[r] \in RouteNames, status'[r] \in Nat,
         UNCHANGED <<called, held, reported>>
  PROVE  ServingInv'
<1>1. StepOf(r) /\ Shape' /\ pc'[r] = w
  <2>1. Shape /\ Touched(called, called', r) /\ w \in Points
    BY DEF ServingInv, Touched
  <2>2. \A p \in held' \cup reported' : p[1] = r => p = <<p[1], p[2]>>
    BY <2>1 DEF Shape
  <2> QED
    BY <2>1, <2>2, Frame
<1>2. CallsCandidate(r)'
  BY <1>1 DEF ServingInv, Orderly, CallsCandidate, Engaged, Answering
<1> QED
  BY <1>1, <1>2, QuietStep DEF Engaged

\* A step while the last candidate's answer is dealt with.
LEMMA EngagedStep ==
  ASSUME ServingInv, NEW r \in Requests, pc[r] \in Engaged,
         NEW w \in Engaged \cup {"done"}, pc' = [pc EXCEPT ![r] = w],
         Touched(status, status', r), status'[r] \in Nat,
         w \in Answering \cup {"done"} => Sound(r)',
         UNCHANGED <<route, order, called, held, reported>>
  PROVE  ServingInv'
<1>1. StepOf(r) /\ Shape' /\ pc'[r] = w
  <2>1. /\ Shape /\ w \in Points /\ route'[r] \in RouteNames
        /\ Touched(called, called', r) /\ Touched(order, order', r) /\ Touched(route, route', r)
    BY DEF ServingInv, Shape, Touched, Points, Engaged
  <2>2. \A p \in held' \cup reported' : p[1] = r => p = <<p[1], p[2]>>
    BY <2>1 DEF Shape
  <2> QED
    BY <2>1, <2>2, Frame
<1>2. CallsCandidate(r)'
  BY <1>1 DEF ServingInv, Orderly, CallsCandidate, Candidate
<1> QED
  BY <1>1, <1>2, QuietStep DEF Engaged

LEMMA StatusSet ==
  ASSUME Shape, NEW r \in Requests, NEW code \in Nat, status' = [status EXCEPT ![r] = code]
  PROVE  Touched(status, status', r) /\ status'[r] = code /\ status'[r] \in Nat
<1>1. Touched(status, status', r)
  BY DEF Touched
<1>2. status'[r] = code
  BY DEF Shape
<1> QED
  BY <1>1, <1>2

-----------------------------------------------------------------------------
LEMMA ServingInitInv == Init => ServingInv
<1> SUFFICES ASSUME Init PROVE ServingInv
  OBVIOUS
<1>1. Shape
  BY DEF Init, Shape, Points, RouteNames
<1>2. ASSUME NEW r \in Requests PROVE Orderly(r)
  <2>1. called[r] = <<>> /\ pc[r] = "idle"
    BY DEF Init
  <2>2. <<>> \in Seq(ToSet(<<>>))
    OBVIOUS
  <2> QED
    BY <2>1, <2>2 DEF Init, Orderly, CallsCandidate, HoldsLast, ReportsLast, Engaged, Answering
<1> QED
  BY <1>1, <1>2 DEF ServingInv

\* Admission, and everything up to the call of a candidate.
LEMMA AdmissionKeeps ==
  ASSUME ServingInv, NEW r \in Requests,
         Refuse(r) \/ Messages(r) \/ Single(r) \/ CountTokens(r)
  PROVE  ServingInv'
<1>1. route[r] \in RouteNames /\ status[r] \in Nat
  BY DEF ServingInv, Shape
<1>2. ASSUME Admit(r)
      PROVE  /\ pc[r] = "idle" /\ route'[r] \in RouteNames /\ Touched(route, route', r)
  <2>1. PICK by \in Routers[r] : route' = [route EXCEPT ![r] = by]
    BY <1>2 DEF Admit
  <2>2. by \in RouteNames
    BY <2>1, ServingAssumption DEF RouteNames
  <2>3. route'[r] = by
    BY <2>1 DEF ServingInv, Shape
  <2>4. Touched(route, route', r)
    BY <2>1 DEF Touched
  <2> QED
    BY <1>2, <2>2, <2>3, <2>4 DEF Admit
<1>3. CASE Refuse(r)
  <2>1. PICK code \in {400, 500} : status' = [status EXCEPT ![r] = code]
    BY ZenonT(60), <1>3 DEF Refuse, Answer
  <2>2. status'[r] \in Nat /\ Touched(status, status', r)
    <3>1. code \in Nat /\ Shape
      BY DEF ServingInv
    <3> QED
      BY <2>1, <3>1, StatusSet
  <2>3. pc' = [pc EXCEPT ![r] = "done"] /\ Touched(order, order', r)
        /\ UNCHANGED <<called, held, reported>> /\ Admit(r)
    BY <1>3 DEF Refuse, Answer, Go, Touched
  <2> QED
    BY <1>2, <2>2, <2>3, EarlyStep DEF Points, Engaged
<1>4. CASE Messages(r)
  <2>1. pc' = [pc EXCEPT ![r] = "gate"] /\ Touched(order, order', r) /\ Touched(status, status', r)
        /\ UNCHANGED <<called, status, held, reported>> /\ Admit(r)
    BY <1>4 DEF Messages, Go, Touched
  <2> QED
    BY <1>1, <1>2, <2>1, EarlyStep DEF Points, Engaged
<1>5. CASE Single(r)
  <2>1. Touched(order, order', r) /\ UNCHANGED <<called, held, reported>> /\ Admit(r)
    BY <1>5 DEF Single, Touched
  <2>2. \E w \in {"done", "counting", "limit"} : pc' = [pc EXCEPT ![r] = w]
    BY <1>5 DEF Single, Answer, Go
  <2>3. status' = [status EXCEPT ![r] = 400] \/ status' = status
    BY <1>5 DEF Single, Answer
  <2>4. status'[r] \in Nat /\ Touched(status, status', r)
    BY <1>1, <2>3 DEF ServingInv, Shape, Touched
  <2> QED
    BY <1>2, <2>1, <2>2, <2>4, EarlyStep DEF Points, Engaged
<1>6. CASE CountTokens(r)
  <2>1. PICK code \in BedrockStatuses : status' = [status EXCEPT ![r] = code]
    BY <1>6 DEF CountTokens, Answer
  <2>2. status'[r] \in Nat /\ Touched(status, status', r)
    <3>1. code \in Nat /\ Shape
      BY DEF ServingInv, BedrockStatuses
    <3> QED
      BY <2>1, <3>1, StatusSet
  <2>3. pc' = [pc EXCEPT ![r] = "done"] /\ Touched(order, order', r) /\ Touched(route, route', r)
        /\ UNCHANGED <<route, called, held, reported>> /\ pc[r] = "counting"
    BY <1>6 DEF CountTokens, Answer, Go, Touched
  <2> QED
    BY <1>1, <2>2, <2>3, EarlyStep DEF Points, Engaged
<1> QED
  BY <1>3, <1>4, <1>5, <1>6

LEMMA PastBreakerMoves ==
  ASSUME Shape, NEW r \in Requests, PastBreaker(r)
  PROVE  /\ \E w \in {"limit", "done", "gate"} : pc' = [pc EXCEPT ![r] = w]
         /\ Touched(order, order', r) /\ Touched(status, status', r) /\ status'[r] \in Nat
<1>1. CASE InScope(Candidate(r), allowed[r])
  BY <1>1 DEF PastBreaker, Go, Touched, Shape
<1>2. CASE ~InScope(Candidate(r), allowed[r]) /\ IsOriginal(r)
  <2>1. /\ pc' = [pc EXCEPT ![r] = "done"] /\ status' = [status EXCEPT ![r] = 400]
        /\ UNCHANGED order
    BY <1>2 DEF PastBreaker, Answer, Go
  <2>2. Touched(order, order', r)
    BY <2>1 DEF Touched
  <2>3. Touched(status, status', r) /\ status'[r] \in Nat
    <3>1. 400 \in Nat
      OBVIOUS
    <3>2. PICK code \in Nat : status' = [status EXCEPT ![r] = code]
      BY <2>1, <3>1, Zenon
    <3> QED
      BY <3>2, StatusSet
  <2> QED
    BY <2>1, <2>2, <2>3
<1>3. CASE ~InScope(Candidate(r), allowed[r]) /\ ~IsOriginal(r)
  BY <1>3 DEF PastBreaker, NextCandidate, Go, Touched, Shape
<1> QED
  BY <1>1, <1>2, <1>3

LEMMA WalkKeeps ==
  ASSUME ServingInv, NEW r \in Requests,
         \/ Unresolved(r) \/ Gate(r) \/ Probe(r) \/ ProbeFailsOpen(r) \/ Reject(r)
         \/ Exhausted(r)
  PROVE  ServingInv'
<1>1. /\ route[r] \in RouteNames /\ status[r] \in Nat /\ Shape
  BY DEF ServingInv, Shape
<1>2. /\ pc[r] \in {"gate", "probe", "limit"}
      /\ UNCHANGED <<route, called, held, reported>>
  BY DEF Unresolved, Gate, Probe, ProbeFailsOpen, Reject, Exhausted
<1>3. /\ \E w \in {"limit", "done", "gate", "probe"} : pc' = [pc EXCEPT ![r] = w]
      /\ Touched(order, order', r) /\ Touched(status, status', r) /\ status'[r] \in Nat
  <2>1. CASE PastBreaker(r)
    BY <1>1, <2>1, PastBreakerMoves
  <2>2. CASE NextCandidate(r) /\ UNCHANGED status
    BY <1>1, <2>2 DEF NextCandidate, Go, Touched
  <2>3. CASE Go(r, "probe") /\ UNCHANGED <<order, status>>
    BY <1>1, <2>3 DEF Go, Touched
  <2>4. ASSUME NEW code \in Nat, Answer(r, code), UNCHANGED order
        PROVE  /\ \E w \in {"limit", "done", "gate", "probe"} : pc' = [pc EXCEPT ![r] = w]
               /\ Touched(order, order', r) /\ Touched(status, status', r) /\ status'[r] \in Nat
    <3>1. pc' = [pc EXCEPT ![r] = "done"] /\ status' = [status EXCEPT ![r] = code]
      BY <2>4 DEF Answer, Go
    <3> QED
      BY <1>1, <2>4, <3>1 DEF Touched, Shape
  <2>5. CASE Unresolved(r)
    BY <2>2, <2>5 DEF Unresolved
  <2>6. CASE Gate(r)
    BY <2>1, <2>3, <2>6 DEF Gate
  <2>7. CASE Probe(r)
    BY <2>1, <2>2, <2>7 DEF Probe
  <2>8. CASE ProbeFailsOpen(r)
    BY <2>1, <2>8 DEF ProbeFailsOpen
  <2>9. CASE Reject(r)
    BY <2>2, <2>4, <2>9 DEF Reject
  <2>10. CASE Exhausted(r)
    BY <1>1, <2>4, <2>10 DEF Exhausted
  <2> QED
    BY <2>5, <2>6, <2>7, <2>8, <2>9, <2>10
<1>4. Touched(route, route', r) /\ route'[r] \in RouteNames
  BY <1>1, <1>2 DEF Touched
<1>5. pc[r] \notin Engaged \cup {"done"}
  BY <1>2 DEF Engaged
<1>6. PICK w \in {"limit", "done", "gate", "probe"} : pc' = [pc EXCEPT ![r] = w]
  BY <1>3
<1>7. w \in Points \ Engaged
  BY <1>6 DEF Points, Engaged
<1> QED
  BY <1>2, <1>3, <1>4, <1>5, <1>6, <1>7, EarlyStep

LEMMA AnswerKeeps ==
  ASSUME ServingInv, NEW r \in Requests,
         \/ Return(r) \/ RecordFailure(r) \/ RecordSuccess(r) \/ Close(r) \/ Reply(r)
         \/ StartStream(r) \/ StreamEnds(r) \/ StreamFails(r) \/ Disconnect(r) \/ Drain(r)
  PROVE  ServingInv'
<1>1. /\ status[r] \in Nat /\ Touched(status, status, r)
      /\ pc[r] \in Answering => Sound(r)
  BY DEF ServingInv, Shape, Touched, Orderly, CallsCandidate
<1>2. UNCHANGED <<route, order, called, held, reported>>
  BY DEF Return, RecordFailure, RecordSuccess, Close, Reply, StartStream, StreamEnds, StreamFails,
     Disconnect, Drain
<1>3. ASSUME pc[r] \in Answering, UNCHANGED status,
             NEW w \in Answering \cup {"done"}, pc' = [pc EXCEPT ![r] = w]
      PROVE  ServingInv'
  <2>1. Sound(r)'
    BY <1>1, <1>2, <1>3 DEF Sound
  <2>2. pc[r] \in Engaged /\ w \in Engaged \cup {"done"}
    BY <1>3 DEF Answering, Engaged
  <2>3. Touched(status, status', r) /\ status'[r] \in Nat
    BY <1>1, <1>3 DEF Touched
  <2> QED
    BY <1>2, <1>3, <2>1, <2>2, <2>3, EngagedStep
<1>4. CASE Return(r)
  <2>1. PICK code \in StatusesOf(route[r], Candidate(r)) :
          /\ status' = [status EXCEPT ![r] = code]
          /\ Go(r, IF route[r] # "messages" THEN "reply"
                   ELSE IF code \in FailureStatuses THEN "failure"
                   ELSE IF code \in FallbackStatuses THEN "unwind"
                   ELSE IF code = 200 THEN "success" ELSE "reply")
    BY <1>4 DEF Return
  <2> DEFINE w == IF route[r] # "messages" THEN "reply"
                  ELSE IF code \in FailureStatuses THEN "failure"
                  ELSE IF code \in FallbackStatuses THEN "unwind"
                  ELSE IF code = 200 THEN "success" ELSE "reply"
  <2>2. code \in Nat
    BY DEF StatusesOf, BedrockStatuses, HttpStatuses
  <2>3. status'[r] = code /\ Touched(status, status', r)
    BY <2>1 DEF ServingInv, Shape, Touched
  <2>4. w \in Engaged /\ pc[r] \in Engaged
    BY <1>4 DEF Engaged, Return
  <2>5. w \in Answering \cup {"done"} => Sound(r)'
    BY <1>2, <2>3 DEF Sound, Answering, FailureStatuses, FallbackStatuses
  <2>6. pc' = [pc EXCEPT ![r] = w]
    BY <2>1 DEF Go
  <2> HIDE DEF w
  <2> QED
    BY <1>2, <2>2, <2>3, <2>4, <2>5, <2>6, EngagedStep
<1>5. CASE RecordFailure(r)
  <2>1. /\ pc[r] \in Engaged /\ pc' = [pc EXCEPT ![r] = "unwind"] /\ UNCHANGED status
        /\ "unwind" \in Engaged \cup {"done"} /\ "unwind" \notin Answering \cup {"done"}
    BY <1>5 DEF RecordFailure, Go, Engaged, Answering
  <2>2. Touched(status, status', r) /\ status'[r] \in Nat
    BY <1>1, <2>1 DEF Touched
  <2> QED
    BY <1>2, <2>1, <2>2, EngagedStep
<1>6. CASE \/ RecordSuccess(r) \/ Close(r) \/ Reply(r) \/ StartStream(r) \/ StreamEnds(r)
           \/ StreamFails(r) \/ Disconnect(r) \/ Drain(r)
  <2>1. pc[r] \in Answering /\ UNCHANGED status
    BY <1>6 DEF RecordSuccess, Close, Reply, StartStream, StreamEnds, StreamFails, Disconnect,
       Drain, Answering
  <2>2. \E w \in Answering \cup {"done"} : pc' = [pc EXCEPT ![r] = w]
    BY <1>6 DEF RecordSuccess, Close, Reply, StartStream, StreamEnds, StreamFails, Disconnect,
       Drain, Answering, Go
  <2> QED
    BY <1>3, <2>1, <2>2
<1> QED
  BY <1>4, <1>5, <1>6

-----------------------------------------------------------------------------
\* Appending keeps a list a list, and puts its last element in.
LEMMA Appended ==
  ASSUME NEW s, s \in Seq(ToSet(s)), NEW m
  PROVE  LET t == Append(s, m) IN t \in Seq(ToSet(t)) /\ t # <<>> /\ Last(t) = m
<1> DEFINE S == ToSet(s) \cup {m}
           t == Append(s, m)
<1>1. s \in Seq(S) /\ m \in S
  <2>1. \A i \in 1..Len(s) : s[i] \in S
    BY DEF ToSet
  <2> QED
    BY <2>1
<1>2. t \in Seq(S) /\ Len(t) = Len(s) + 1 /\ t[Len(t)] = m /\ t # <<>>
  BY <1>1
<1>3. t \in Seq(ToSet(t))
  <2>1. \A i \in 1..Len(t) : t[i] \in ToSet(t)
    BY <1>2 DEF ToSet
  <2> QED
    BY <1>2, <2>1
<1> QED
  BY <1>2, <1>3 DEF Last

LEMMA PassKeeps ==
  ASSUME ServingInv, NEW r \in Requests, Pass(r)
  PROVE  ServingInv'
<1> DEFINE m == Candidate(r)
<1>1. /\ pc[r] = "limit" /\ pc' = [pc EXCEPT ![r] = "flight"]
      /\ called' = [called EXCEPT ![r] = Append(called[r], m)]
      /\ held' = held \/ held' = held \cup {<<r, m>>}
      /\ UNCHANGED <<route, order, status, reported>>
  BY DEF Pass, Go
<1>2. Shape /\ Orderly(r)
  BY DEF ServingInv
<1>3. StepOf(r) /\ Shape' /\ pc'[r] = "flight"
  <2>1. /\ Touched(called, called', r) /\ Touched(route, route', r) /\ Touched(order, order', r)
        /\ Touched(status, status', r) /\ route'[r] \in RouteNames /\ status'[r] \in Nat
    BY <1>1, <1>2 DEF Touched, Shape
  <2>2. /\ \A p \in held' \cup reported' : p[1] = r => p = <<p[1], p[2]>>
        /\ \A p : p[1] # r => (p \in held' <=> p \in held) /\ (p \in reported' <=> p \in reported)
    BY <1>1, <1>2 DEF Shape
  <2> QED
    BY <1>1, <1>2, <2>1, <2>2, Frame DEF Points
<1>4. called'[r] = Append(called[r], m) /\ Candidate(r)' = m
  BY <1>1, <1>2 DEF Shape, Candidate
<1>5. CallsCandidate(r)'
  <2>1. called'[r] \in Seq(ToSet(called'[r])) /\ called'[r] # <<>> /\ Last(called'[r]) = m
    BY <1>2, <1>4, Appended DEF Orderly, CallsCandidate
  <2> QED
    BY <1>3, <1>4, <2>1 DEF CallsCandidate, Answering
<1>6. \A p \in held \cup reported : p[1] # r
  BY <1>1, <1>2 DEF Orderly, HoldsLast, ReportsLast, Engaged
<1>7. HoldsLast(r)' /\ ReportsLast(r)'
  <2>1. \A p \in held' : p[1] = r => p = <<r, m>>
    BY <1>1, <1>6
  <2>2. <<r, m>>[1] = r /\ <<r, m>>[2] = m
    OBVIOUS
  <2>3. Last(called'[r]) = m
    BY <1>2, <1>4, Appended DEF Orderly, CallsCandidate
  <2> HIDE DEF m
  <2> QED
    BY <1>1, <1>3, <1>6, <2>1, <2>2, <2>3 DEF HoldsLast, ReportsLast, Engaged
<1> QED
  BY <1>3, <1>5, <1>7, OthersOrderly DEF Orderly

\* What the last candidate holds is all the request holds.
LEMMA HoldsCandidate ==
  ASSUME ServingInv, NEW r \in Requests, pc[r] \in Engaged
  PROVE  \A p \in held : p[1] = r => p = <<r, Candidate(r)>>
BY DEF ServingInv, Shape, Orderly, CallsCandidate, HoldsLast

LEMMA UnwindKeeps ==
  ASSUME ServingInv, NEW r \in Requests, Unwind(r)
  PROVE  ServingInv' /\ \A p \in held' : p[1] # r
<1> DEFINE m == Candidate(r)
<1>1. /\ pc[r] = "unwind" /\ pc' = [pc EXCEPT ![r] = "gate"] /\ Touched(order, order', r)
      /\ held' = held \ {<<r, m>>} /\ UNCHANGED <<route, called, status, reported>>
  BY DEF Unwind, NextCandidate, Go, Touched
<1>2. Shape /\ Orderly(r)
  BY DEF ServingInv
<1>3. \A p \in held' : p[1] # r
  BY <1>1, HoldsCandidate DEF Engaged
<1>4. \A p \in reported' : p[1] # r
  BY <1>1, <1>2 DEF Orderly, ReportsLast
<1>5. StepOf(r) /\ Shape' /\ pc'[r] = "gate"
  <2>1. /\ Touched(called, called', r) /\ Touched(route, route', r) /\ Touched(status, status', r)
        /\ route'[r] \in RouteNames /\ status'[r] \in Nat
    BY <1>1, <1>2 DEF Touched, Shape
  <2>2. \A p : p[1] # r => (p \in held' <=> p \in held) /\ (p \in reported' <=> p \in reported)
    <3>1. <<r, m>>[1] = r
      OBVIOUS
    <3> QED
      BY <1>1, <3>1
  <2> QED
    BY <1>1, <1>2, <1>3, <1>4, <2>1, <2>2, Frame DEF Points
<1>6. Orderly(r)'
  BY <1>1, <1>2, <1>3, <1>4, <1>5
     DEF Orderly, CallsCandidate, HoldsLast, ReportsLast, Engaged, Answering
<1> QED
  BY <1>3, <1>5, <1>6, OthersOrderly

LEMMA FinalizeKeeps ==
  ASSUME ServingInv, NEW r \in Requests, Finalize(r)
  PROVE  ServingInv' /\ \A p \in held' : p[1] # r
<1> DEFINE m == Candidate(r)
<1>1. /\ pc[r] = "finalize" /\ pc' = [pc EXCEPT ![r] = "done"]
      /\ held' = held \ {<<r, m>>} /\ reported' = reported \cup {<<r, m>>}
      /\ UNCHANGED <<route, order, called, status>>
  BY DEF Finalize, Go
<1>2. Shape /\ Orderly(r)
  BY DEF ServingInv
<1>3. \A p \in held' : p[1] # r
  BY <1>1, HoldsCandidate DEF Engaged
<1>4. <<r, m>>[1] = r /\ <<r, m>>[2] = m
  OBVIOUS
<1>5. \A p \in reported' : p[1] = r => p = <<r, m>>
  BY <1>1, <1>2 DEF Orderly, ReportsLast
<1>6. StepOf(r) /\ Shape' /\ pc'[r] = "done"
  <2>1. /\ Touched(called, called', r) /\ Touched(route, route', r) /\ Touched(status, status', r)
        /\ Touched(order, order', r) /\ route'[r] \in RouteNames /\ status'[r] \in Nat
    BY <1>1, <1>2 DEF Touched, Shape
  <2>2. \A p : p[1] # r => (p \in held' <=> p \in held) /\ (p \in reported' <=> p \in reported)
    BY <1>1, <1>4
  <2>3. \A p \in held' \cup reported' : p[1] = r => p = <<p[1], p[2]>>
    BY <1>3, <1>4, <1>5
  <2> QED
    BY <1>1, <1>2, <2>1, <2>2, <2>3, Frame DEF Points
<1>7. Last(called'[r]) = m /\ Sound(r)'
  BY <1>1, <1>2 DEF Orderly, CallsCandidate, Sound, Engaged, Answering
<1>8. Orderly(r)'
  <2>1. CallsCandidate(r)'
    BY <1>1, <1>2, <1>6 DEF Orderly, CallsCandidate, Engaged, Answering
  <2>2. HoldsLast(r)'
    BY <1>3 DEF HoldsLast
  <2>3. ReportsLast(r)'
    <3> HIDE DEF m
    <3> QED
      BY <1>4, <1>5, <1>6, <1>7 DEF ReportsLast
  <2> QED
    BY <2>1, <2>2, <2>3 DEF Orderly
<1> QED
  BY <1>3, <1>6, <1>8, OthersOrderly

LEMMA ServingStepInv == ServingInv /\ [Next]_vars => ServingInv'
<1> SUFFICES ASSUME ServingInv, [Next]_vars PROVE ServingInv'
  OBVIOUS
<1>1. CASE UNCHANGED serving
  BY <1>1 DEF serving, ServingInv, Shape, Orderly, CallsCandidate, HoldsLast, ReportsLast, Sound,
     Candidate
<1>2. ASSUME NEW r \in Requests, Handle(r) \/ Disconnect(r)
      PROVE  ServingInv'
  <2>1. CASE Refuse(r) \/ Messages(r) \/ Single(r) \/ CountTokens(r)
    BY <2>1, AdmissionKeeps
  <2>2. CASE \/ Unresolved(r) \/ Gate(r) \/ Probe(r) \/ ProbeFailsOpen(r) \/ Reject(r)
             \/ Exhausted(r)
    BY <2>2, WalkKeeps
  <2>3. CASE \/ Return(r) \/ RecordFailure(r) \/ RecordSuccess(r) \/ Close(r) \/ Reply(r)
             \/ StartStream(r) \/ StreamEnds(r) \/ StreamFails(r) \/ Disconnect(r) \/ Drain(r)
    BY <2>3, AnswerKeeps
  <2>4. CASE Pass(r)
    BY <2>4, PassKeeps
  <2>5. CASE Unwind(r)
    BY <2>5, UnwindKeeps
  <2>6. CASE Finalize(r)
    BY <2>6, FinalizeKeeps
  <2> QED
    BY <1>2, <2>1, <2>2, <2>3, <2>4, <2>5, <2>6 DEF Handle
<1> QED
  BY <1>1, <1>2 DEF Next, vars

LEMMA ServingAlways == Spec => []ServingInv
BY ServingInitInv, ServingStepInv, PTL DEF Spec

-----------------------------------------------------------------------------
\* Whatever becomes of a request's calls, streams and drains: a reservation
\* it leaves behind is that of the last model it called, no candidate that it
\* has given up keeps one, and none outlives its report.
THEOREM LeaksHaveCause == Spec => []LeakHasCause
<1>1. ServingInv => LeakHasCause
  BY DEF ServingInv, Shape, Orderly, HoldsLast, Sound, LeakHasCause
<1> QED
  BY <1>1, ServingAlways, PTL

\* Usage is only ever reported under the model that was called last and
\* answered, whatever the chain of fallbacks was.
THEOREM ChargesAnsweringModel == Spec => []ChargedModelAnswered
<1>1. ServingInv => ChargedModelAnswered
  BY DEF ServingInv, Shape, Orderly, ReportsLast, Sound, ChargedModelAnswered
<1> QED
  BY <1>1, ServingAlways, PTL

-----------------------------------------------------------------------------
\* The refinement: what is held and reported, by request.
Holding == {p[1] : p \in held}
Reporting == {p[1] : p \in reported}

LEMMA ContractStep ==
  ASSUME ServingInv, [Next]_vars
  PROVE  [Contract!Next]_(Contract!vars)
<1> SUFFICES \/ UNCHANGED <<Holding, Reporting>>
             \/ \E r \in Requests : \/ Contract!Reserve(r) \/ Contract!GiveBack(r) \/ Contract!Report(r)
  BY DEF Contract!Next, Contract!vars, Holding, Reporting
<1>1. CASE UNCHANGED <<held, reported>>
  BY <1>1 DEF Holding, Reporting
<1>2. ASSUME NEW r \in Requests, Pass(r)
      PROVE  Contract!Reserve(r) \/ UNCHANGED <<held, reported>>
  <2>1. \A p \in held \cup reported : p[1] # r
    BY <1>2 DEF Pass, ServingInv, Orderly, HoldsLast, ReportsLast, Engaged
  <2>2. UNCHANGED reported /\ (held' = held \/ held' = held \cup {<<r, Candidate(r)>>})
    BY <1>2 DEF Pass
  <2>3. r \notin Holding \cup Reporting
    BY <2>1 DEF Holding, Reporting
  <2>4. CASE held' = held \cup {<<r, Candidate(r)>>}
    <3>1. Holding' = Holding \cup {r} /\ Reporting' = Reporting
      <4>1. <<r, Candidate(r)>>[1] = r
        OBVIOUS
      <4> QED
        BY <2>2, <2>4, <4>1 DEF Holding, Reporting
    <3> QED
      BY <2>3, <3>1 DEF Contract!Reserve, Holding, Reporting
  <2> QED
    BY <2>2, <2>4
<1>3. ASSUME NEW r \in Requests, Unwind(r)
      PROVE  Contract!GiveBack(r) \/ UNCHANGED <<held, reported>>
  <2>1. /\ held' = held \ {<<r, Candidate(r)>>} /\ UNCHANGED reported
        /\ \A p \in held' : p[1] # r
    BY <1>3, UnwindKeeps DEF Unwind
  <2>2. CASE <<r, Candidate(r)>> \in held
    <3>1. r \in Holding /\ Holding' = Holding \ {r} /\ Reporting' = Reporting
      <4>1. <<r, Candidate(r)>>[1] = r
        OBVIOUS
      <4> QED
        BY <2>1, <2>2, <4>1 DEF Holding, Reporting
    <3> QED
      BY <3>1 DEF Contract!GiveBack, Holding, Reporting
  <2>3. CASE <<r, Candidate(r)>> \notin held
    BY <2>1, <2>3
  <2> QED
    BY <2>2, <2>3
<1>4. ASSUME NEW r \in Requests, Finalize(r)
      PROVE  Contract!Report(r)
  <2>1. /\ held' = held \ {<<r, Candidate(r)>>}
        /\ reported' = reported \cup {<<r, Candidate(r)>>}
        /\ \A p \in held' : p[1] # r
    BY <1>4, FinalizeKeeps DEF Finalize
  <2>2. \A p \in reported : p[1] # r
    BY <1>4 DEF Finalize, ServingInv, Orderly, ReportsLast
  <2>3. <<r, Candidate(r)>>[1] = r
    OBVIOUS
  <2>4. Holding' = Holding \ {r} /\ Reporting' = Reporting \cup {r} /\ r \notin Reporting
    BY <2>1, <2>2, <2>3 DEF Holding, Reporting
  <2> QED
    BY <2>4 DEF Contract!Report, Holding, Reporting
<1>5. \/ UNCHANGED <<held, reported>>
      \/ \E r \in Requests : Pass(r) \/ Unwind(r) \/ Finalize(r)
  BY ZenonT(60) DEF Next, vars, serving, Handle, Refuse, Messages, Single, CountTokens, Unresolved, Gate,
     Probe, ProbeFailsOpen, Reject, Return, RecordFailure, RecordSuccess, Close, Exhausted, Reply,
     StartStream, StreamEnds, StreamFails, Disconnect, Drain
<1> QED
  BY <1>1, <1>2, <1>3, <1>4, <1>5

\* The walk over the candidates keeps to the contract of reservations: at
\* most one at a time, given back or settled with the one report, and nothing
\* reserved after it.
THEOREM WalkImplementsContract == Spec => ImplementsContract
<1>1. Init => Contract!Init
  BY DEF Init, Contract!Init
<1> QED
  BY <1>1, ServingAlways, ContractStep, PTL DEF Spec, ImplementsContract, Contract!Spec
=============================================================================
