---------------------------- MODULE EvalBreaker ----------------------------
(* What happens to rate limits in one gateway worker while Redis is sick: the
   circuit breaker around the limit scripts, which fails fast and lets the
   request through, and the fixed windows in memory that stand in for Redis
   while the degradation level says it is down (see Degradation). *)
EXTENDS Integers, FiniteSets, FiniteSetsExt, Functions

CONSTANTS
  Evals,          \* requests in flight, each with one guarded script call
  CallerOf,         \* the user of each
  WindowLimit,    \* per window key (a user, "team", "global"), its share
  FailsToOpen, SuccessesToClose,
  OpenTime,       \* ticks a breaker stays open
  MaxCancels      \* calls whose client goes away

WindowUsers == {CallerOf[c] : c \in Evals}
WindowKeys == WindowUsers \cup {"team", "global"}

ASSUME BreakerAssumption ==
  /\ CallerOf \in [Evals -> WindowUsers] /\ IsFiniteSet(WindowUsers)
  /\ {"team", "global"} \cap WindowUsers = {}
  /\ WindowLimit \in [WindowKeys -> Nat \ {0}]
  /\ {FailsToOpen, SuccessesToClose, OpenTime} \subseteq Nat \ {0}
  /\ MaxCancels \in Nat

VARIABLES
  redisUp, redisDegraded,   \* Redis, and what the level says of it
  breaker,                  \* [state, fails, oks, age]: age since it opened
  eval,                     \* per request, where it is; doubt: Redis changed since it called
  slots,                     \* the stand-in's counters in this window
  passed, refused,          \* history: per key, let through and refused there
  cancels

evalVars == <<redisUp, redisDegraded, breaker, eval, slots, passed, refused, cancels>>
windows == <<slots, passed, refused>>

(* Failures keep counting while calls from before the breaker opened come in;
   the count saturates two past what opens it. *)
FailsMax == FailsToOpen + 2

NoCall == [at |-> "idle", doubt |-> FALSE]
FreshBreaker == [state |-> "closed", fails |-> 0, oks |-> 0, age |-> 0]
NoCounts == [k \in WindowKeys |-> 0]

EvalInit ==
  /\ redisUp = TRUE /\ redisDegraded = FALSE
  /\ breaker = FreshBreaker
  /\ eval = [c \in Evals |-> NoCall]
  /\ slots = NoCounts /\ passed = NoCounts /\ refused = NoCounts
  /\ cancels = 0

(* The environment: Redis fails or comes back; the level follows it. *)
RedisFlips ==
  /\ redisUp' = ~redisUp
  /\ eval' = [c \in Evals |-> IF eval[c].at = "calling"
                              THEN [eval[c] EXCEPT !.doubt = TRUE] ELSE eval[c]]
  /\ UNCHANGED <<redisDegraded, breaker, windows, cancels>>

LevelFlips ==
  /\ redisDegraded' = ~redisDegraded
  /\ UNCHANGED <<redisUp, breaker, eval, windows, cancels>>

----------------------------------------------------------------------------
(* The stand-in asks USER, TEAM, GLOBAL in turn and stops at the first full
   window; what the narrower ones have counted stays counted. *)
WidestFirst(c) == <<"global", "team", CallerOf[c]>>
Keys(c) == <<CallerOf[c], "team", "global">>

FullAt(c) == {i \in 1..3 : slots[Keys(c)[i]] >= WindowLimit[Keys(c)[i]]}

StandIn(c) ==
  LET last == IF FullAt(c) = {} THEN 4 ELSE Min(FullAt(c))
      counted == {Keys(c)[i] : i \in 1..(last - 1)}
  IN /\ slots' = [k \in WindowKeys |-> slots[k] + (IF k \in counted THEN 1 ELSE 0)]
     /\ IF last = 4
        THEN /\ passed' = [k \in WindowKeys |-> passed[k] + (IF k \in counted THEN 1 ELSE 0)]
             /\ eval' = [eval EXCEPT ![c].at = "guard"]
             /\ UNCHANGED refused
        ELSE /\ refused' = [refused EXCEPT ![Keys(c)[last]] =
                               IF last = 1 THEN @ ELSE @ + 1]
             /\ UNCHANGED <<passed, eval>>

(* A request reaches the middleware: past it at once while Redis counts. *)
ReachLimiter(c) ==
  /\ eval[c].at = "idle"
  /\ IF redisDegraded THEN StandIn(c)
     ELSE eval' = [eval EXCEPT ![c].at = "guard"] /\ UNCHANGED windows
  /\ UNCHANGED <<redisUp, redisDegraded, breaker, cancels>>

(* The minute is over: every window starts anew. *)
NewWindow ==
  /\ slots # NoCounts
  /\ slots' = NoCounts /\ passed' = NoCounts /\ refused' = NoCounts
  /\ UNCHANGED <<redisUp, redisDegraded, breaker, eval, cancels>>

----------------------------------------------------------------------------
(* allow(): an open breaker whose time is up lets this call try. *)
Allows == breaker.state # "open" \/ breaker.age >= OpenTime

AdmittedAnew == [breaker EXCEPT !.state = IF @ = "open" THEN "half" ELSE @, !.oks = 0]

Admitted ==
  IF breaker.state = "open" THEN [breaker EXCEPT !.state = "half", !.oks = 0, !.age = 0]
  ELSE breaker

GuardEval(c) ==
  /\ eval[c].at = "guard"
  /\ IF Allows
     THEN /\ eval' = [eval EXCEPT ![c] = [at |-> "calling", doubt |-> FALSE]]
          /\ breaker' = Admitted
     ELSE eval' = [eval EXCEPT ![c] = NoCall] /\ UNCHANGED breaker
  /\ UNCHANGED <<redisUp, redisDegraded, windows, cancels>>

Tripped(b) == [b EXCEPT !.state = "open", !.oks = 0, !.age = 0]

(* A failure while half open, or enough of them, also late ones while open. *)
AfterFailure ==
  LET counted == [breaker EXCEPT !.fails = Min({@ + 1, FailsMax})]
  IN IF breaker.state = "half" THEN Tripped(breaker)
     ELSE IF counted.fails >= FailsToOpen THEN Tripped(counted) ELSE counted

(* Enough successes while half open close it; elsewhere one takes a failure
   back. *)
AfterSuccess ==
  IF breaker.state # "half" THEN [breaker EXCEPT !.fails = IF @ = 0 THEN 0 ELSE @ - 1]
  ELSE IF breaker.oks + 1 >= SuccessesToClose THEN FreshBreaker
  ELSE [breaker EXCEPT !.oks = @ + 1]

(* The script answers, or fails by an error or the socket timeout; the caller
   lets the request through either way. *)
EvalEnds(c) ==
  /\ eval[c].at = "calling"
  /\ \/ (redisUp \/ eval[c].doubt) /\ breaker' = AfterSuccess
     \/ (~redisUp \/ eval[c].doubt) /\ breaker' = AfterFailure
  /\ eval' = [eval EXCEPT ![c] = NoCall]
  /\ UNCHANGED <<redisUp, redisDegraded, windows, cancels>>

(* The client goes away: CancelledError is no Exception, nothing is recorded. *)
CancelEval(c) ==
  /\ eval[c].at = "calling" /\ cancels < MaxCancels
  /\ cancels' = cancels + 1
  /\ eval' = [eval EXCEPT ![c] = NoCall]
  /\ UNCHANGED <<redisUp, redisDegraded, breaker, windows>>

BreakerTick ==
  /\ breaker.state = "open" /\ breaker.age < OpenTime
  /\ breaker' = [breaker EXCEPT !.age = @ + 1]
  /\ UNCHANGED <<redisUp, redisDegraded, eval, windows, cancels>>

EvalNext ==
  \/ \E c \in Evals : ReachLimiter(c) \/ GuardEval(c) \/ EvalEnds(c) \/ CancelEval(c)
  \/ RedisFlips \/ LevelFlips \/ NewWindow \/ BreakerTick

(* Time passes, and a script call ends by its socket timeout. *)
EvalFairness ==
  /\ \A c \in Evals : WF_evalVars(GuardEval(c)) /\ WF_evalVars(EvalEnds(c))
  /\ WF_evalVars(BreakerTick)

EvalSpec == EvalInit /\ [][EvalNext]_evalVars /\ EvalFairness

----------------------------------------------------------------------------
(* Once Redis is back for good and requests keep coming to the guard, the
   breaker closes and stays closed, whatever late failures, late successes and
   abandoned calls the outage has left behind. *)
BreakerRecovers ==
  (<>[]redisUp /\ []<>(\E c \in Evals : eval[c].at = "guard"))
    => <>[](breaker.state = "closed")

(* The stand-in spends a slot of a window only on a request it lets through or
   that a wider scope refuses: a user over the limit costs the team nothing. *)
NoisyUserIsContained ==
  /\ slots["global"] = passed["global"]
  /\ slots["team"] = passed["team"] + refused["global"]
  /\ SumFunctionOnSet(slots, WindowUsers)
       = passed["global"] + refused["team"] + refused["global"]
============================================================================
