----------------------------- MODULE RateLimit -----------------------------
(***************************************************************************)
(* Rate limiting of the gateway: what enforce_rate_limits reserves before  *)
(* a candidate model is invoked, what the fallback loop takes back when    *)
(* the provider fails, and what finalize settles afterwards.               *)
(*                                                                         *)
(* Requests run concurrently, in one or several gateways: every evaluation *)
(* of a script is one atomic step, and between two of them the clock and   *)
(* the other requests go on. Each check reads the clock once, before its   *)
(* first evaluation. An evaluation that fails at the client may have been  *)
(* applied by the server; the client tries again, then the check goes on   *)
(* without that scope (fail open) or rejects (fail closed).                *)
(***************************************************************************)
EXTENDS RateWindow, SequencesExt, FiniteSetsExt

CONSTANTS
  Requests,
  Keys,          \* a scope (user, team, global) of one model alias
  UserKeys,      \* those whose scope is USER
  CostScopes,    \* users and teams
  Chain,         \* per request: the keys of each candidate model, in order
  Payers,        \* per request: its user and its team
  RpmLimit, TpmLimit,    \* per key, 0 for none
  CpmLimit, CphLimit,    \* per cost scope, 0 for none
  Throttled,     \* requests whose user's budget policy throttles them
  ThrottlePct,   \* throttle_rpm_pct
  Reserve,       \* estimate_reserved_tokens
  EstCost,       \* _estimate_cost
  Usages,        \* what a response may report: [tokens, cost]
  FailClosed,    \* rl_fail_mode = "closed"
  Retries,       \* redis_retries
  Window, Hour,  \* a minute and an hour, in ticks
  MaxTime,       \* bound: the clock
  MaxFaults      \* bound: failed attempts at Redis

ASSUME RateAssumption ==
  /\ IsFiniteSet(Requests)
  /\ UserKeys \subseteq Keys
  /\ Chain \in [Requests -> Seq(Seq(Keys) \ {<<>>}) \ {<<>>}]
  /\ Payers \in [Requests -> Seq(CostScopes)]
  /\ Throttled \subseteq Requests
  /\ RpmLimit \in [Keys -> Nat] /\ TpmLimit \in [Keys -> Nat]
  /\ CpmLimit \in [CostScopes -> Nat] /\ CphLimit \in [CostScopes -> Nat]
  /\ ThrottlePct \in 1..100
  /\ Reserve \in Nat \ {0} /\ EstCost \in Nat \ {0}
  /\ Usages \subseteq [tokens : Nat, cost : Nat]
  /\ FailClosed \in BOOLEAN
  /\ Retries \in Nat /\ MaxFaults \in Nat /\ MaxTime \in Nat
  /\ Window \in Nat \ {0} /\ Hour \in Nat \ {0}

VARIABLES
  now,
  rpm,       \* per key: the ZSET of admitted requests
  tpm,       \* per key: [win, cur, prev]
  cost,      \* per cost scope: the counters of all windows
  stage,     \* per request: where it is
  turn,      \* per request: the candidate it is at
  todo,      \* per request: the scopes this check has not evaluated yet
  at,        \* per request: the clock as this check read it
  tries,     \* per request: failed attempts of the current call
  plan,      \* per request: settlements to make, <<kind, amount>>
  faults,
  evals,     \* history, per key: evaluations of the RPM script
  dropped,   \* history, per key: tokens that rotation discarded
  leftTokens,\* history, per request and key: what past candidates left there
  leftCost   \* history, per request and cost scope: likewise

reqVars == <<stage, turn, todo, at, tries, plan>>
counterVars == <<rpm, tpm, cost, evals, dropped>>
leftVars == <<leftTokens, leftCost>>
vars == <<now, counterVars, reqVars, faults, leftVars>>

Stages ==
  {"ready", "rpm", "tpm", "cost", "serving", "unwinding", "finalizing", "over"}

\* The counters of a cost scope: one per minute and one per hour.
Windows(t) == [cpm |-> <<"cpm", t \div Window>>, cph |-> <<"cph", t \div Hour>>]
CostWindows == UNION {{Windows(t).cpm, Windows(t).cph} : t \in 0..MaxTime}

RateTypeOK ==
  /\ now \in 0..MaxTime
  /\ \A k \in Keys : \A e \in rpm[k] : e.req \in Requests /\ e.at \in 0..now
  /\ tpm \in [Keys -> [win : 0..MaxTime, cur : Int, prev : Int]]
  /\ cost \in [CostScopes -> [CostWindows -> Int]]
  /\ stage \in [Requests -> Stages]
  /\ turn \in [Requests -> Nat \ {0}]
  /\ \A r \in Requests : turn[r] \in 1..Len(Chain[r]) /\ at[r] \in 0..now
  /\ tries \in [Requests -> 0..Retries]
  /\ faults \in 0..MaxFaults
---------------------------------------------------------------------------
\* The keys of the candidate a request is at, and the limits it is under.
Candidate(r) == Chain[r][turn[r]]
TpmKeys(r) == {k \in ToSet(Candidate(r)) : TpmLimit[k] > 0}
RpmKeys(r) == {k \in ToSet(Candidate(r)) : RpmLimit[k] > 0}
PayerLimited(s) == CpmLimit[s] > 0 \/ CphLimit[s] > 0
CostKeys(r) == {s \in ToSet(Payers[r]) : PayerLimited(s)}

\* _apply_budget_throttle: a share of the user's own limit, at least 1.
RpmLimitOf(r, k) ==
  IF r \in Throttled /\ k \in UserKeys
  THEN LET cut == (RpmLimit[k] * ThrottlePct) \div 100
       IN IF cut > 1 THEN cut ELSE 1
  ELSE RpmLimit[k]

RateInit ==
  /\ now = 0
  /\ rpm = [k \in Keys |-> {}]
  /\ tpm = [k \in Keys |-> [win |-> 0, cur |-> 0, prev |-> 0]]
  /\ cost = [s \in CostScopes |-> [c \in CostWindows |-> 0]]
  /\ stage = [r \in Requests |-> "ready"]
  /\ turn = [r \in Requests |-> 1]
  /\ todo = [r \in Requests |-> {}]
  /\ at = [r \in Requests |-> 0]
  /\ tries = [r \in Requests |-> 0]
  /\ plan = [r \in Requests |-> <<>>]
  /\ faults = 0
  /\ evals = [k \in Keys |-> <<>>]
  /\ dropped = [k \in Keys |-> 0]
  /\ leftTokens = [r \in Requests |-> [k \in Keys |-> 0]]
  /\ leftCost = [r \in Requests |-> [s \in CostScopes |-> 0]]

Tick ==
  /\ now < MaxTime
  /\ now' = now + 1
  /\ UNCHANGED <<counterVars, reqVars, faults, leftVars>>
---------------------------------------------------------------------------
\* The candidate is done with. What it leaves in the counters for good: tokens
\* in the TPM keys of a set, cost in the cost scopes of a set.
Leaves(r, tokens, keys, amount, scopes) ==
  /\ leftTokens' = [leftTokens EXCEPT ![r] =
                      [k \in Keys |-> @[k] + IF k \in keys THEN tokens ELSE 0]]
  /\ leftCost' = [leftCost EXCEPT ![r] =
                    [s \in CostScopes |-> @[s] + IF s \in scopes THEN amount ELSE 0]]

\* The loop goes on to the next candidate, or the request is over.
GoOn(r) ==
  IF turn[r] < Len(Chain[r])
  THEN /\ stage' = [stage EXCEPT ![r] = "ready"]
       /\ turn' = [turn EXCEPT ![r] = @ + 1]
  ELSE /\ stage' = [stage EXCEPT ![r] = "over"]
       /\ UNCHANGED turn

\* A rejected original is answered with 429; a rejected fallback is passed by.
Dismiss(r) ==
  /\ IF turn[r] = 1
     THEN stage' = [stage EXCEPT ![r] = "over"] /\ UNCHANGED turn
     ELSE GoOn(r)
  /\ todo' = [todo EXCEPT ![r] = {}]
  /\ at' = [at EXCEPT ![r] = 0]

\* The candidate's circuit is open, it is unknown, or it is out of scope.
Pass(r) ==
  /\ stage[r] = "ready"
  /\ GoOn(r)
  /\ UNCHANGED <<now, counterVars, todo, at, tries, plan, faults, leftVars>>

\* enforce_rate_limits, up to the clock that check_multi_scope_rpm reads.
BeginRpm(r) ==
  /\ stage[r] = "ready"
  /\ stage' = [stage EXCEPT ![r] = "rpm"]
  /\ todo' = [todo EXCEPT ![r] = RpmKeys(r)]
  /\ at' = [at EXCEPT ![r] = now]
  /\ UNCHANGED <<now, counterVars, turn, tries, plan, faults, leftVars>>

\* Every scope of a check is done: the next check starts, or the invocation.
EndCheck(r) ==
  /\ todo[r] = {}
  /\ \/ /\ stage[r] = "rpm"
        /\ stage' = [stage EXCEPT ![r] = "tpm"]
        /\ todo' = [todo EXCEPT ![r] = TpmKeys(r)]
        /\ at' = [at EXCEPT ![r] = now]
     \/ /\ stage[r] = "tpm"
        /\ stage' = [stage EXCEPT ![r] = "cost"]
        /\ todo' = [todo EXCEPT ![r] = CostKeys(r)]
        /\ at' = [at EXCEPT ![r] = now]
     \/ /\ stage[r] = "cost"
        /\ stage' = [stage EXCEPT ![r] = "serving"]
        /\ at' = [at EXCEPT ![r] = 0]
        /\ UNCHANGED todo
  /\ UNCHANGED <<now, counterVars, turn, tries, plan, faults, leftVars>>
---------------------------------------------------------------------------
\* The scopes of a check are evaluated in the order of the candidate's keys,
\* or of the payers.
Order(r) == IF stage[r] = "cost" THEN Payers[r] ELSE Candidate(r)
Scope(r) == Order(r)[Min({i \in DOMAIN Order(r) : Order(r)[i] \in todo[r]})]

\* Redis evaluates the script of the current check for a scope.
RpmRun(r, k) == RpmCheck(rpm[k], RpmLimitOf(r, k), r, at[r], Window)
TpmRun(r, k) == TpmCheck(tpm[k], TpmLimit[k], Reserve, at[r], Window)
CostRun(r, s) ==
  CostCheck(cost[s], Windows(at[r]), EstCost, CpmLimit[s], CphLimit[s])

Allowed(r) ==
  LET k == Scope(r)
  IN CASE stage[r] = "rpm" -> RpmRun(r, k).ok
       [] stage[r] = "tpm" -> TpmRun(r, k).ok
       [] stage[r] = "cost" -> CostRun(r, k).ok

Held(b) == b.cur + b.prev

Apply(r) ==
  LET k == Scope(r)
  IN \/ /\ stage[r] = "rpm"
        /\ rpm' = [rpm EXCEPT ![k] = RpmRun(r, k).log]
        /\ evals' = [evals EXCEPT ![k] =
                       Append(@, [req |-> r, at |-> at[r],
                                  ok |-> RpmRun(r, k).ok])]
        /\ UNCHANGED <<tpm, cost, dropped>>
     \/ /\ stage[r] = "tpm"
        /\ tpm' = [tpm EXCEPT ![k] = TpmRun(r, k).bucket]
        /\ dropped' = [dropped EXCEPT ![k] =
                         @ + Held(tpm[k]) - Held(Rotate(tpm[k], at[r], Window))]
        /\ UNCHANGED <<rpm, cost, evals>>
     \/ /\ stage[r] = "cost"
        /\ cost' = [cost EXCEPT ![k] = CostRun(r, k).used]
        /\ UNCHANGED <<rpm, tpm, evals, dropped>>

\* The scopes of the current check that are behind the request.
Behind(r, scopes) == scopes \ todo[r]

Evaluating(r) == stage[r] \in {"rpm", "tpm", "cost"} /\ todo[r] # {}

\* The script lets the request pass: on to the next scope.
EvalAllow(r) ==
  /\ Evaluating(r)
  /\ Allowed(r) /\ Apply(r)
  /\ todo' = [todo EXCEPT ![r] = @ \ {Scope(r)}]
  /\ tries' = [tries EXCEPT ![r] = 0]
  /\ UNCHANGED <<now, stage, turn, at, plan, faults, leftVars>>

\* What a rejection leaves behind: nothing of this request is taken back.
Stranded(r) ==
  CASE stage[r] = "rpm" -> UNCHANGED leftVars
    [] stage[r] = "tpm" -> Leaves(r, Reserve, Behind(r, TpmKeys(r)), 0, {})
    [] stage[r] = "cost" ->
         Leaves(r, Reserve, TpmKeys(r), EstCost, Behind(r, CostKeys(r)))

EvalReject(r) ==
  /\ Evaluating(r)
  /\ ~Allowed(r) /\ Apply(r)
  /\ Dismiss(r)
  /\ Stranded(r)
  /\ tries' = [tries EXCEPT ![r] = 0]
  /\ UNCHANGED <<now, plan, faults>>

\* An attempt fails. The client tries again after a timeout or a lost
\* connection, as long as it has retries; after any other error, and when the
\* circuit in front of Redis is open (_guarded_eval), it gives up: the scope is
\* skipped, or the request is turned away.
Fault(r) ==
  /\ faults < MaxFaults
  /\ faults' = faults + 1

Retry(r) ==
  /\ tries[r] < Retries
  /\ tries' = [tries EXCEPT ![r] = @ + 1]

GiveUpOpen(r) ==
  /\ todo' = [todo EXCEPT ![r] = @ \ {Scope(r)}]
  /\ UNCHANGED <<stage, turn, at, leftVars>>

GiveUp(r) ==
  /\ tries' = [tries EXCEPT ![r] = 0]
  /\ IF FailClosed THEN Dismiss(r) /\ Stranded(r) ELSE GiveUpOpen(r)

EvalFail(r) ==
  /\ Evaluating(r)
  /\ Fault(r)
  /\ Apply(r) \/ UNCHANGED counterVars
  /\ \/ Retry(r) /\ UNCHANGED <<stage, turn, todo, at, leftVars>>
     \/ GiveUp(r)
  /\ UNCHANGED <<now, plan>>
---------------------------------------------------------------------------
\* The settlements that are worth a call: a difference, and someone to book
\* it on (settle_tpm, settle_cost, and the guards of their callers).
Settlement(r, kind, actual) ==
  IF kind = "tpm"
  THEN IF TpmKeys(r) = {} \/ actual = Reserve THEN <<>>
       ELSE << <<"tpm", actual - Reserve>> >>
  ELSE IF CostKeys(r) = {} \/ actual = EstCost THEN <<>>
       ELSE << <<"cost", actual - EstCost>> >>

Settle(r, to, steps) ==
  /\ stage[r] = "serving"
  /\ stage' = [stage EXCEPT ![r] = to]
  /\ plan' = [plan EXCEPT ![r] = steps]
  /\ UNCHANGED <<now, counterVars, turn, todo, at, tries, faults>>

\* A 5xx or a lost connection: _unwind_reservation, tokens first, then cost.
ProviderFailsTokensOnly(r) ==  \* mutant: the cost reservation is forgotten
  /\ Settle(r, "unwinding", Settlement(r, "tpm", 0))
  /\ UNCHANGED leftVars

ProviderFails(r) ==
  /\ Settle(r, "unwinding", Settlement(r, "tpm", 0) \o Settlement(r, "cost", 0))
  /\ UNCHANGED leftVars

\* The response reports its usage: finalize settles cost first, then tokens.
Finalize(r, usage) ==
  /\ Settle(r, "finalizing", Settlement(r, "cost", usage.cost)
                               \o Settlement(r, "tpm", usage.tokens))
  /\ Leaves(r, usage.tokens, TpmKeys(r), usage.cost, CostKeys(r))

\* A stream ends without usage: finalize releases the tokens and returns.
FinalizeNoUsage(r) ==
  /\ Settle(r, "finalizing", Settlement(r, "tpm", 0))
  /\ Leaves(r, 0, {}, EstCost, CostKeys(r))

\* A response that is not streamed and reports no usage, a 4xx for instance:
\* the router does not call finalize and the reservation stays.
NoFinalize(r) ==
  /\ Settle(r, "finalizing", <<>>)
  /\ Leaves(r, Reserve, TpmKeys(r), EstCost, CostKeys(r))

\* INCRBY on the bucket that is current, whatever its marker says; and on the
\* cost windows of the clock's time, not of the reservation's.
AdjustTokens(S, amount) ==
  /\ tpm' = [k \in Keys |->
               IF k \in S THEN [tpm[k] EXCEPT !.cur = @ + amount] ELSE tpm[k]]
  /\ UNCHANGED cost

AdjustCost(S, amount) ==
  /\ cost' = [s \in CostScopes |-> [c \in CostWindows |->
                cost[s][c] + IF s \in S /\ c \in {Windows(now).cpm, Windows(now).cph}
                             THEN amount ELSE 0]]
  /\ UNCHANGED tpm

Adjust(r, S) ==
  LET kind == plan[r][1][1]
      amount == plan[r][1][2]
  IN IF kind = "tpm" THEN AdjustTokens(S, amount) ELSE AdjustCost(S, amount)

\* Everyone a settlement is booked on. Cost goes to user and team, also to the
\* one that has no limit and reserved nothing.
Booked(r) == IF plan[r][1][1] = "tpm" THEN TpmKeys(r) ELSE ToSet(Payers[r])

Settling(r) == stage[r] \in {"unwinding", "finalizing"} /\ plan[r] # <<>>

SettleOk(r) ==
  /\ Settling(r)
  /\ Adjust(r, Booked(r))
  /\ plan' = [plan EXCEPT ![r] = Tail(@)]
  /\ tries' = [tries EXCEPT ![r] = 0]
  /\ UNCHANGED <<now, rpm, stage, turn, todo, at, faults, leftVars, evals, dropped>>

\* The pipeline is not a transaction: a part of it may have been applied when
\* it fails. It is sent again, and then given up with a warning.
SettleFail(r) ==
  /\ Settling(r)
  /\ Fault(r)
  /\ \E S \in SUBSET Booked(r) : Adjust(r, S)
  /\ \/ Retry(r) /\ UNCHANGED plan
     \/ /\ tries' = [tries EXCEPT ![r] = 0]
        /\ plan' = [plan EXCEPT ![r] = Tail(@)]
  /\ UNCHANGED <<now, rpm, stage, turn, todo, at, leftVars, evals, dropped>>

EndSettle(r) ==
  /\ plan[r] = <<>>
  /\ \/ stage[r] = "unwinding" /\ GoOn(r)
     \/ /\ stage[r] = "finalizing"
        /\ stage' = [stage EXCEPT ![r] = "over"]
        /\ UNCHANGED turn
  /\ UNCHANGED <<now, counterVars, todo, at, tries, plan, faults, leftVars>>
---------------------------------------------------------------------------
Handle(r) ==
  \/ ProviderFails(r) \/ FinalizeNoUsage(r) \/ NoFinalize(r)
  \/ \E usage \in Usages : Finalize(r, usage)

Step(r) ==
  \/ Pass(r) \/ BeginRpm(r) \/ EndCheck(r)
  \/ EvalAllow(r) \/ EvalReject(r) \/ EvalFail(r)
  \/ Handle(r)
  \/ SettleOk(r) \/ SettleFail(r) \/ EndSettle(r)

RateNext == Tick \/ \E r \in Requests : Step(r)

RateSpec == RateInit /\ [][RateNext]_vars
---------------------------------------------------------------------------
\* An evaluation of the RPM script is late if the clock it brings is older
\* than the one an earlier evaluation for the same key brought.
Late(log, i) == \E j \in 1..(i - 1) : log[j].at > log[i].at

\* No window admits more than the limit: whoever passes a key in time finds
\* fewer than its own limit of admissions in the window that ends with it,
\* also with several gateways, retries and limits that throttling changes.
RpmWindowBound ==
  \A k \in Keys : \A i \in DOMAIN evals[k] :
    evals[k][i].ok /\ ~Late(evals[k], i) =>
      Cardinality({evals[k][j].req :
        j \in {n \in 1..i : evals[k][n].ok
                         /\ evals[k][n].at > evals[k][i].at - Window}})
        <= RpmLimitOf(evals[k][i].req, k)

\* What the settlements of a plan will change.
Unsettled(steps, kind) ==
  SumFunctionOnSet(
    [i \in DOMAIN steps |-> IF steps[i][1] = kind THEN steps[i][2] ELSE 0],
    DOMAIN steps)

\* The tokens a request has in a TPM key, by what happened to it so far.
TokensOwed(r, k) ==
  leftTokens[r][k]
  + CASE stage[r] = "tpm" -> IF k \in Behind(r, TpmKeys(r)) THEN Reserve ELSE 0
      [] stage[r] \in {"cost", "serving"} ->
           IF k \in TpmKeys(r) THEN Reserve ELSE 0
      [] stage[r] \in {"unwinding", "finalizing"} ->
           IF k \in TpmKeys(r) THEN -Unsettled(plan[r], "tpm") ELSE 0
      [] OTHER -> 0

CostOwed(r, s) ==
  leftCost[r][s]
  + CASE stage[r] = "cost" -> IF s \in Behind(r, CostKeys(r)) THEN EstCost ELSE 0
      [] stage[r] = "serving" -> IF s \in CostKeys(r) THEN EstCost ELSE 0
      [] stage[r] \in {"unwinding", "finalizing"} ->
           IF s \in CostKeys(r) THEN -Unsettled(plan[r], "cost") ELSE 0
      [] OTHER -> 0

Spent(s, kind) ==
  SumFunctionOnSet(cost[s], {c \in CostWindows : c[1] = kind})

TokensBalance ==
  \A k \in Keys :
    Held(tpm[k]) + dropped[k] =
      SumFunctionOnSet([r \in Requests |-> TokensOwed(r, k)], Requests)

CostsBalance ==
  \A s \in CostScopes : PayerLimited(s) =>
    \A kind \in {"cpm", "cph"} :
      Spent(s, kind) = SumFunctionOnSet([r \in Requests |-> CostOwed(r, s)], Requests)

\* As long as Redis answers, the tokens in the buckets, and those rotation
\* discarded, are what the requests owe, and so are the cost counters of every
\* limited user and team, per minute and per hour: a reservation is made once
\* per key and settled or unwound at most once, across candidates and buckets
\* (settle_tpm, settle_cost).
BooksBalance == faults = 0 => TokensBalance /\ CostsBalance

\* Whatever was stranded, retried or rotated, the scripts do not throttle for
\* ever: a window after its last evaluation an RPM key admits again, and two
\* buckets after its marker a TPM key (rate_limit_service.py: what a rejection
\* leaves behind is corrected by the next window).
RecoversWhenQuiet ==
  \A k \in Keys :
    /\ RpmLimit[k] > 0 /\ evals[k] # <<>> =>
         LET last == Max({evals[k][i].at : i \in DOMAIN evals[k]})
         IN \A r \in Requests :
              RpmCheck(rpm[k], RpmLimitOf(r, k), r, last + Window, Window).ok
    /\ TpmLimit[k] >= Reserve =>
         LET quiet == (tpm[k].win + 2) * Window
         IN TpmCheck(tpm[k], TpmLimit[k], Reserve, quiet, Window).ok
===========================================================================
