--------------------------- MODULE BudgetConfigs ---------------------------
(***************************************************************************)
(* The budgets of one team, its users and one app of each user: rows in    *)
(* the database, written by admin-api, and copies in Redis, written by     *)
(* admin-api and filled by the gateway.  What a request is held to (module *)
(* Budget) is what the copies say.                                         *)
(*                                                                         *)
(* An admin call is a transaction: it deactivates the active rows of a     *)
(* target and inserts another, deletes the copies, warms them again as     *)
(* best it can, and commits last.  A second call that wants the same rows  *)
(* waits for that commit.  The copy of a user's budget also says which     *)
(* apps have one of their own (app_clients): only there does the gateway   *)
(* learn that it must look at the budget of the app.                       *)
(***************************************************************************)
EXTENDS Naturals, Sequences, FiniteSets, FiniteSetsExt, Functions

CONSTANTS
  Users, Team,
  AppUsers,      \* the users of the app, who make the requests
  Budgeted,      \* the users who have a budget at first
  Limits,        \* sums of money, positive
  Calls,         \* the admin calls in progress at once
  NoCopy,
  MaxCalls,      \* bound: admin calls begun
  MaxRequests,   \* bound: gateway requests begun
  MaxConfigFaults      \* bound: calls and commits that fail, copies that lapse

ASSUME ConfigsAssumption ==
  /\ Team \notin Users /\ IsFiniteSet(Users) /\ AppUsers \cup Budgeted \subseteq Users
  /\ Cardinality(Budgeted) * Min(Limits) <= Max(Limits)
  /\ Limits \subseteq Nat \ {0} /\ Limits # {} /\ IsFiniteSet(Limits)
  /\ {MaxCalls, MaxRequests, MaxConfigFaults} \subseteq Nat

VARIABLES
  rows,        \* budget_configs: the active rows, committed
  member,      \* the users of the team
  cache,       \* budget:config:*, per target: a copy, or NoCopy
  failures,    \* cache_invalidation_failures, unresolved
  call,        \* the admin calls in progress
  req,         \* the gateway request in progress
  begun, requests, configFaults

configVars == <<rows, member, cache, failures, call, req, begun, requests, configFaults>>
bounds == <<begun, requests, configFaults>>

TeamT == <<"team", Team>>
UserT(u) == <<"user", u>>
AppT(u) == <<"app", u>>
Targets == {TeamT} \cup {UserT(u) : u \in Users} \cup {AppT(u) : u \in AppUsers}
ConfigRows == [of : Targets, n : 0..MaxCalls, limit : Limits]

(* A copy: its limit, its app_clients (absent, or whether the app is in     *)
(* it), whether it expires.  The rest is history: the call that wrote it    *)
(* and has not committed (0: none), and why limit or gate may be wrong.     *)
Gates == {"absent", "no", "yes"}
Why == {"right", "overtaken", "undeleted", "clobbered"}
Copies == [limit : Limits, gate : Gates, expires : BOOLEAN,
           by : 0..MaxCalls, whyLimit : Why, whyGate : Why]
Read == [limit : Limits, gate : Gates]   \* what a copy is to say, in a process
ASSUME NoCopyAssumption == NoCopy \notin Copies \cup Read

ActiveOf(t) == {r \in rows : r.of = t}
LimitsOf(t) == {r.limit : r \in ActiveOf(t)}
Newest(t) == {r \in ActiveOf(t) : \A s \in ActiveOf(t) : s.n <= r.n}
\* scalar_one_or_none: a second active row is an exception, and the call ends.
JustOne(t) == Cardinality(ActiveOf(t)) = 1
AtMostOne(t) == Cardinality(ActiveOf(t)) <= 1
TheLimit(t) == (CHOOSE r \in ActiveOf(t) : TRUE).limit
Plain(limit) == [limit |-> limit, gate |-> "absent"]   \* read, to be written
GateOf(some) == IF some # {} THEN "yes" ELSE "no"

IdleCall == [n |-> 0, op |-> "none", user |-> Team, at |-> "idle", todo |-> <<>>,
             seen |-> {}, held |-> {}, new |-> {}, dels |-> <<>>, lost |-> {},
             buffer |-> NoCopy, raced |-> FALSE]

IdleReq == [at |-> "idle", user |-> Team, buffer |-> NoCopy,
            app |-> "unchecked", owed |-> FALSE, saw |-> {}, excused |-> FALSE]

\* Earlier calls have left budgets, warm_team_budget_cache a copy of the team's,
\* earlier requests of the budgeted users copies of theirs.
FirstRow(t, limit) == [of |-> t, n |-> 0, limit |-> limit]
ConfigsInit ==
  /\ \E apps \in SUBSET (AppUsers \cap Budgeted) :
       rows = {FirstRow(TeamT, Max(Limits))}
                \cup {FirstRow(UserT(u), Min(Limits)) : u \in Budgeted}
                \cup {FirstRow(AppT(u), Min(Limits)) : u \in apps}
  /\ member = Users
  /\ cache = [t \in Targets |->
       IF t # TeamT /\ t \notin {UserT(u) : u \in Budgeted} THEN NoCopy ELSE
       [limit |-> TheLimit(t), expires |-> TRUE, by |-> 0,
        gate |-> IF t = TeamT THEN "absent" ELSE GateOf(ActiveOf(AppT(t[2]))),
        whyLimit |-> "right", whyGate |-> "right"]]
  /\ failures = {}
  /\ call = [c \in Calls |-> IdleCall]
  /\ req = IdleReq
  /\ begun = 0 /\ requests = 0 /\ configFaults = 0
---------------------------------------------------------------------------
ConfigFault == configFaults < MaxConfigFaults /\ configFaults' = configFaults + 1

Write(t, limit) == [of |-> t, limit |-> limit]
Drop(t) == [of |-> t, limit |-> 0]

BeginCall(c, x) ==
  /\ begun' = begun + 1
  /\ call' = [call EXCEPT ![c] = [x EXCEPT !.n = begun + 1]]
  /\ UNCHANGED <<rows, member, cache, failures, req, requests, configFaults>>

ToWriteRows(u, op, todo, dels) ==
  [IdleCall EXCEPT !.op = op, !.user = u, !.at = "update", !.todo = todo, !.dels = dels]
ToDropRow(u, op, t, dels) ==
  [IdleCall EXCEPT !.op = op, !.user = u, !.at = "insert", !.todo = <<Drop(t)>>,
                   !.seen = ActiveOf(t), !.dels = dels]
ToFill(u, op, limit) ==
  [IdleCall EXCEPT !.op = op, !.user = u, !.at = "set", !.buffer = Plain(limit)]

SetTeamBudget(c, limit) ==
  BeginCall(c, ToWriteRows(Team, "set team", <<Write(TeamT, limit)>>, <<TeamT>>))

\* BR-BUD-01: what the members will have, this user with the new budget.
LimitSum(some) == SumFunctionOnSet([r \in some |-> r.limit], some)
RowsOfMembers(some) == {r \in some : \E u \in member : r.of = UserT(u)}
MemberSum == LimitSum(RowsOfMembers(rows))

FitsAlone(u, limit) ==  \* mutant: compared with the team's, without the others'
  ActiveOf(TeamT) # {} => limit <= TheLimit(TeamT)

Fits(u, limit) ==
  u \in member /\ ActiveOf(TeamT) # {} =>
    /\ JustOne(TeamT) /\ AtMostOne(UserT(u))
    /\ MemberSum + limit
         <= TheLimit(TeamT) + (IF JustOne(UserT(u)) THEN TheLimit(UserT(u)) ELSE 0)

SetUserBudget(c, u, limit) ==
  /\ Fits(u, limit)
  /\ BeginCall(c, ToWriteRows(u, "set user", <<Write(UserT(u), limit)>>, <<UserT(u)>>))

\* The row read is deactivated by its key, waiting for whoever holds it.
DeleteUserBudget(c, u) ==
  /\ JustOne(UserT(u))
  /\ BeginCall(c, ToDropRow(u, "delete user", UserT(u), <<UserT(u)>>))

AppKeys(u) == <<AppT(u), UserT(u)>>

\* The parent must exist when the app's budget is set.
SetUserClientBudget(c, u, limit) ==
  /\ JustOne(UserT(u))
  /\ BeginCall(c, ToWriteRows(u, "set app", <<Write(AppT(u), limit)>>, AppKeys(u)))

ClearUserClientBudget(c, u) ==
  /\ JustOne(AppT(u))
  /\ BeginCall(c, ToDropRow(u, "clear app", AppT(u), AppKeys(u)))

NoKeys(order) ==  \* mutant: allocation forgets the copies
  <<>>

AllocatedKeys(order) == [i \in DOMAIN order |-> UserT(order[i])]

\* Only the sum of what is allocated is compared with the team's budget.
AllocateTeamBudget(c, order, limit) ==
  /\ JustOne(TeamT)
  /\ SumFunction([i \in DOMAIN order |-> limit[order[i]]]) <= TheLimit(TeamT)
  /\ BeginCall(c, ToWriteRows(Team, "allocate",
           [i \in DOMAIN order |-> Write(UserT(order[i]), limit[order[i]])],
           AllocatedKeys(order)))

\* BR-BUD-04: the user's total budget ends, the budget of the app does not.
TransferUser(c, u) ==
  /\ u \in member
  /\ BeginCall(c, ToWriteRows(u, "transfer", <<Drop(UserT(u))>>, <<UserT(u)>>))

\* A user signs in: the budget is read here, and cached before the commit.
ExchangeToken(c, u) ==
  \E r \in Newest(UserT(u)) : BeginCall(c, ToFill(u, "exchange", r.limit))

\* admin-api starts: the team's budget is copied to Redis.
WarmTeam(c) ==
  \E r \in ActiveOf(TeamT) : BeginCall(c, ToFill(Team, "warm", r.limit))
---------------------------------------------------------------------------
(* The transaction.  UPDATE sees the rows committed when it starts; it then *)
(* waits until no other transaction holds one of them, and looks again at   *)
(* those only: a row committed meanwhile stays active beside the new one.   *)

Update(c) ==
  /\ call[c].at = "update"
  /\ call' = [call EXCEPT ![c].at = "insert", ![c].seen = ActiveOf(Head(call[c].todo).of)]
  /\ UNCHANGED <<rows, member, cache, failures, req, bounds>>

Free(c) == \A d \in Calls \ {c} : call[d].held \cap call[c].seen = {}

Added(c) ==
  LET w == Head(call[c].todo)
  IN IF w.limit = 0 THEN {} ELSE {[of |-> w.of, n |-> call[c].n, limit |-> w.limit]}

AfterRows(rest, dels) == CASE rest # <<>> -> "update"
                           [] rest = <<>> /\ dels # <<>> -> "del"
                           [] OTHER -> "commit"

Insert(c) ==
  /\ call[c].at = "insert" /\ Free(c)
  /\ call' = [call EXCEPT
       ![c].held = @ \cup (call[c].seen \cap rows),
       ![c].new = @ \cup Added(c), ![c].seen = {},
       ![c].todo = Tail(@),
       ![c].at = AfterRows(Tail(call[c].todo), call[c].dels)]
  /\ UNCHANGED <<rows, member, cache, failures, req, bounds>>

Rollback(c) ==
  /\ call' = [call EXCEPT ![c] = IdleCall]
  /\ UNCHANGED <<rows, member, cache, failures, req, begun, requests>>

\* Two allocations that wait for each other: Postgres ends one.
Waits(c, d) == call[c].at = "insert" /\ call[d].held \cap call[c].seen # {}
DeadlockVictim(c) ==
  /\ \E d \in Calls \ {c} : Waits(c, d) /\ Waits(d, c)
  /\ Rollback(c)
  /\ UNCHANGED configFaults

InSession(c, t) == {r \in (rows \ call[c].held) \cup call[c].new : r.of = t}

AfterDeletes(op) == CASE op \in {"set team", "set app"} -> "set"
                      [] op = "set user" -> "get"
                      [] op = "clear app" -> "del again"
                      [] OTHER -> "commit"

Deleted(c) ==
  call' = [call EXCEPT ![c].dels = Tail(@),
             ![c].at = IF Len(call[c].dels) = 1 THEN AfterDeletes(call[c].op) ELSE "del"]

\* invalidate: DEL, key by key.
Del(c) ==
  /\ call[c].at = "del"
  /\ cache' = [cache EXCEPT ![Head(call[c].dels)] = NoCopy]
  /\ Deleted(c)
  /\ UNCHANGED <<rows, member, failures, req, bounds>>

\* A DEL that fails is noted in the same transaction, to be retried one day.
DelFails(c) ==
  /\ call[c].at = "del" /\ ConfigFault
  /\ LET k == Head(call[c].dels)
     IN /\ cache' = [cache EXCEPT ![k] = IF @ = NoCopy THEN @
                       ELSE [@ EXCEPT !.whyLimit = "undeleted", !.whyGate = "undeleted"]]
        /\ call' = [call EXCEPT ![c].dels = Tail(@), ![c].lost = @ \cup {k},
             ![c].at = IF Len(call[c].dels) = 1 THEN AfterDeletes(call[c].op) ELSE "del"]
  /\ UNCHANGED <<rows, member, failures, req, begun, requests>>
---------------------------------------------------------------------------
(* Warming.  Whoever writes a copy does so with what it read before: the    *)
(* history says whether another call has committed since, or has deleted    *)
(* the copy already and is about to commit.                                 *)

Changes(d, t) == \E r \in call[d].held \cup call[d].new : r.of = t
PastDelete(d, k) ==
  call[d].at \notin {"idle", "update", "insert"} /\ k \notin Range(call[d].dels)
Pending(t, k, others) == \E d \in others : Changes(d, t) /\ PastDelete(d, k)

WhyLimit(t, limit, own, others) ==
  IF limit \in own /\ ~Pending(t, t, others) THEN "right" ELSE "overtaken"

WhyGate(u, gate, some, others) ==
  IF gate = GateOf(some) /\ ~Pending(AppT(u), UserT(u), others) THEN "right"
  ELSE IF gate = "absent" THEN "clobbered" ELSE "overtaken"

LimitsIn(some) == {r.limit : r \in some}

\* The user's copy when budget_service writes it, of whose gate the call is sure
\* or not; when the call has written nothing it vouches for what is committed.
UserCopy(c, u, limit, gate, expires) ==
  [limit |-> limit, gate |-> gate, expires |-> expires, by |-> call[c].n,
   whyLimit |-> WhyLimit(UserT(u), limit, LimitsIn(InSession(c, UserT(u))), Calls \ {c}),
   whyGate |-> WhyGate(u, gate, InSession(c, AppT(u)), Calls \ {c})]

PlainCopy(c, t, limit) ==
  [limit |-> limit, gate |-> "absent", expires |-> TRUE, by |-> call[c].n,
   whyLimit |-> WhyLimit(t, limit, LimitsIn(InSession(c, t)), Calls \ {c}),
   whyGate |-> "right"]

Go(c, at) == call' = [call EXCEPT ![c].at = at]
SetCopy(t, copy) == cache' = [cache EXCEPT ![t] = copy]
NewLimit(c) == (CHOOSE r \in call[c].new : TRUE).limit
Unwritten == <<rows, member, failures, req, begun, requests>>

\* _sync_redis_thresholds: the app_clients of the copy there is, if there is one.
Get(c) ==
  /\ call[c].at = "get"
  /\ LET prev == cache[UserT(call[c].user)]
     IN call' = [call EXCEPT ![c].at = "set",
          ![c].buffer = [limit |-> NewLimit(c),
                         gate |-> IF prev = NoCopy THEN "absent" ELSE prev.gate]]
  /\ UNCHANGED <<rows, member, cache, failures, req, bounds>>

\* A GET that fails is passed over: the new copy has no app_clients.
GetFails(c) ==
  /\ call[c].at = "get" /\ ConfigFault
  /\ call' = [call EXCEPT ![c].at = "set", ![c].buffer = Plain(NewLimit(c))]
  /\ UNCHANGED <<rows, member, cache, failures, req, begun, requests>>

\* _refresh_user_app_clients: nothing to do without a copy.
Refresh(c) ==
  /\ call[c].at = "refresh"
  /\ LET u == call[c].user
         prev == cache[UserT(u)]
     IN IF prev = NoCopy THEN Go(c, "commit")
        ELSE call' = [call EXCEPT ![c].at = "set again",
               ![c].buffer = [limit |-> prev.limit, gate |-> GateOf(InSession(c, AppT(u)))]]
  /\ UNCHANGED <<rows, member, cache, failures, req, bounds>>

Set(c) ==
  /\ call[c].at = "set"
  /\ LET u == call[c].user
         op == call[c].op
         b == call[c].buffer
     IN /\ CASE op = "set team" -> SetCopy(TeamT, PlainCopy(c, TeamT, NewLimit(c)))
             [] op = "warm" -> SetCopy(TeamT, PlainCopy(c, TeamT, b.limit))
             [] op = "set app" -> SetCopy(AppT(u), PlainCopy(c, AppT(u), NewLimit(c)))
             [] op = "set user" -> SetCopy(UserT(u), UserCopy(c, u, b.limit, b.gate, TRUE))
             [] op = "exchange" -> SetCopy(UserT(u), UserCopy(c, u, b.limit, b.gate, FALSE))
        /\ Go(c, IF op = "set app" THEN "refresh" ELSE "commit")
  /\ UNCHANGED Unwritten /\ UNCHANGED configFaults

DelAgain(c) ==
  /\ call[c].at = "del again"
  /\ SetCopy(AppT(call[c].user), NoCopy)
  /\ Go(c, "refresh")
  /\ UNCHANGED Unwritten /\ UNCHANGED configFaults

SetAgain(c) ==
  /\ call[c].at = "set again"
  /\ LET u == call[c].user
     IN SetCopy(UserT(u), UserCopy(c, u, call[c].buffer.limit, call[c].buffer.gate, TRUE))
  /\ Go(c, "commit")
  /\ UNCHANGED Unwritten /\ UNCHANGED configFaults

\* Warming is best effort: a failure is logged, and the call goes on.
WarmingFails(c) ==
  /\ call[c].at \in {"set", "del again", "refresh", "set again"}
  /\ ConfigFault
  /\ IF call[c].op = "exchange" THEN call' = [call EXCEPT ![c] = IdleCall]
     ELSE Go(c, IF call[c].op \in {"set app", "clear app"} /\ call[c].at \in {"set", "del again"}
                THEN "refresh" ELSE "commit")
  /\ UNCHANGED <<rows, member, cache, failures, req, begun, requests>>
---------------------------------------------------------------------------
\* A total budget, and under it a budget of the app.
HasApp(u, some) == {UserT(u), AppT(u)} \subseteq {r.of : r \in some}

SettleCopy(copy, n) == IF copy # NoCopy /\ copy.by = n THEN [copy EXCEPT !.by = 0] ELSE copy

Commit(c) ==
  /\ call[c].at = "commit"
  /\ rows' = (rows \ call[c].held) \cup call[c].new
  /\ member' = IF call[c].op = "transfer" THEN member \ {call[c].user} ELSE member
  /\ failures' = failures \cup call[c].lost
  /\ cache' = [t \in Targets |-> SettleCopy(cache[t], call[c].n)]
  /\ call' = [d \in Calls |-> IF d = c THEN IdleCall
                              ELSE IF call[d].at = "idle" THEN call[d]
                              ELSE [call[d] EXCEPT !.raced = TRUE]]
  /\ req' = IF req.owed /\ ~HasApp(req.user, rows')
            THEN [req EXCEPT !.owed = FALSE] ELSE req
  /\ UNCHANGED bounds

\* The commit fails, or the request is cancelled: Redis keeps what it was told.
CommitFails(c) ==
  /\ call[c].at = "commit" /\ ConfigFault
  /\ Rollback(c)

RetryFailed ==
  /\ failures # {}
  /\ cache' = [t \in Targets |-> IF t \in failures THEN NoCopy ELSE cache[t]]
  /\ failures' = {}
  /\ UNCHANGED <<rows, member, call, req, bounds>>

\* The TTL of a copy: 300 s, none for the copy made when a user signs in.
Expire(t) ==
  /\ cache[t] # NoCopy /\ cache[t].expires /\ ConfigFault
  /\ SetCopy(t, NoCopy)
  /\ UNCHANGED <<rows, member, failures, call, req, begun, requests>>
---------------------------------------------------------------------------
(* The gateway: check_budget of one request of a member, made by the app.   *)

Untouched == UNCHANGED <<rows, member, failures, call, begun, configFaults>>
Request(r) == req' = r
Refused == Request(IdleReq)
AdmittedWith(app, excused) ==
  Request([IdleReq EXCEPT !.at = "admitted", !.app = app, !.owed = req.owed, !.excused = excused])

StartRequest(u) ==
  /\ req.at \in {"idle", "admitted"} /\ requests < MaxRequests
  /\ requests' = requests + 1
  /\ u \in member
  /\ Request([IdleReq EXCEPT !.at = "team", !.user = u, !.owed = HasApp(u, rows)])
  /\ UNCHANGED cache /\ Untouched

\* Any of the active rows (LIMIT 1); none leaves the key missing.
ReadTeam ==
  /\ req.at = "team"
  /\ IF cache[TeamT] # NoCopy \/ ActiveOf(TeamT) = {}
     THEN Request([req EXCEPT !.at = "user"])
     ELSE \E r \in ActiveOf(TeamT) : Request([req EXCEPT !.at = "fill team", !.buffer = Plain(r.limit)])
  /\ UNCHANGED <<cache, requests>> /\ Untouched

\* Filled by the gateway: nobody's until it commits, there being no commit.
Filled(t, limit, gate, whyGate) ==
  [limit |-> limit, gate |-> gate, expires |-> TRUE, by |-> 0,
   whyLimit |-> WhyLimit(t, limit, LimitsOf(t), Calls), whyGate |-> whyGate]

FillTeam ==
  /\ req.at = "fill team"
  /\ SetCopy(TeamT, Filled(TeamT, req.buffer.limit, "absent", "right"))
  /\ Request([req EXCEPT !.at = "user", !.buffer = NoCopy])
  /\ UNCHANGED requests /\ Untouched

\* ensure_config_cached: two active rows are an exception, outside every try.
ReadUser ==
  /\ req.at = "user"
  /\ LET u == req.user
     IN CASE cache[UserT(u)] # NoCopy -> Request([req EXCEPT !.at = "check", !.saw = {"user"}])
          [] cache[UserT(u)] = NoCopy /\ ActiveOf(UserT(u)) = {} -> Request([req EXCEPT !.at = "check"])
          [] cache[UserT(u)] = NoCopy /\ JustOne(UserT(u)) ->
               Request([req EXCEPT !.at = "fill user",
                        !.buffer = [limit |-> TheLimit(UserT(u)), gate |-> GateOf(ActiveOf(AppT(u)))]])
          [] OTHER -> Refused
  /\ UNCHANGED <<cache, requests>> /\ Untouched

FillUser ==
  /\ req.at = "fill user"
  /\ LET u == req.user
     IN SetCopy(UserT(u), Filled(UserT(u), req.buffer.limit, req.buffer.gate,
                            WhyGate(u, req.buffer.gate, ActiveOf(AppT(u)), Calls)))
  /\ Request([req EXCEPT !.at = "check", !.buffer = NoCopy, !.saw = {"user"}])
  /\ UNCHANGED requests /\ Untouched

\* budget_check.lua for the user: without a copy the user has no limit; the
\* copy's app_clients decide about the third check.  A copy the request has
\* seen or filled may be gone by now (history: saw, excused).
Excuse(u) ==
  IF cache[UserT(u)] = NoCopy THEN "user" \in req.saw
  ELSE cache[UserT(u)].by # 0 \/ cache[UserT(u)].whyGate # "right"

\* Then the team: without a budget of its own it is not served (C-1).
CheckUserAndTeam ==
  /\ req.at = "check"
  /\ LET copy == cache[UserT(req.user)]
         excused == Excuse(req.user)
     IN CASE cache[TeamT] = NoCopy -> Refused
          [] cache[TeamT] # NoCopy /\ copy # NoCopy /\ copy.gate = "yes" ->
               Request([req EXCEPT !.at = "app", !.saw = {}])
          [] OTHER -> AdmittedWith("unchecked", excused)
  /\ UNCHANGED <<cache, requests>> /\ Untouched

ReadApp ==
  /\ req.at = "app"
  /\ LET t == AppT(req.user)
     IN IF cache[t] # NoCopy \/ ActiveOf(t) = {}
        THEN Request([req EXCEPT !.at = "check app",
                      !.saw = IF cache[t] = NoCopy THEN @ ELSE @ \cup {"app"}])
        ELSE \E r \in ActiveOf(t) : Request([req EXCEPT !.at = "fill app", !.buffer = Plain(r.limit)])
  /\ UNCHANGED <<cache, requests>> /\ Untouched

FillApp ==
  /\ req.at = "fill app"
  /\ SetCopy(AppT(req.user), Filled(AppT(req.user), req.buffer.limit, "absent", "right"))
  /\ Request([req EXCEPT !.at = "check app", !.buffer = NoCopy, !.saw = @ \cup {"app"}])
  /\ UNCHANGED requests /\ Untouched

CheckApp ==
  /\ req.at = "check app"
  /\ LET there == cache[AppT(req.user)] # NoCopy
     IN AdmittedWith(IF there THEN "checked" ELSE "unchecked", "app" \in req.saw)
  /\ UNCHANGED <<cache, requests>> /\ Untouched

\* _check_budget_db, when Redis fails: two active rows of any target refuse.
CheckLimitsInDb ==
  /\ req.at \in {"check", "app", "fill app", "check app"}
  /\ ConfigFault
  /\ LET u == req.user
     IN IF AtMostOne(UserT(u)) /\ JustOne(TeamT) /\ AtMostOne(AppT(u))
        THEN AdmittedWith(IF JustOne(AppT(u)) THEN "checked" ELSE "unchecked", FALSE)
        ELSE Refused
  /\ UNCHANGED <<rows, member, cache, failures, call, begun, requests>>

\* EXISTS and the fill of the user's copy are outside the try.
RequestFails ==
  /\ req.at \in {"team", "user", "fill user"}
  /\ ConfigFault
  /\ Refused
  /\ UNCHANGED <<rows, member, cache, failures, call, begun, requests>>
---------------------------------------------------------------------------
Orders == {order \in UNION {[1..n -> Users] : n \in 1..Cardinality(Users)} :
             \A i, j \in DOMAIN order : order[i] = order[j] => i = j}

Operation(c) ==
  /\ call[c].at = "idle" /\ begun < MaxCalls
  /\ \/ \E limit \in Limits : SetTeamBudget(c, limit)
     \/ \E u \in Users, limit \in Limits : SetUserBudget(c, u, limit)
     \/ \E u \in Users : DeleteUserBudget(c, u)
     \/ \E u \in AppUsers, limit \in Limits : SetUserClientBudget(c, u, limit)
     \/ \E u \in AppUsers : ClearUserClientBudget(c, u)
     \/ \E order \in Orders, limit \in [Users -> Limits] : AllocateTeamBudget(c, order, limit)
     \/ \E u \in Users : TransferUser(c, u)
     \/ \E u \in Users : ExchangeToken(c, u)
     \/ WarmTeam(c)

Transaction(c) ==
  \/ Update(c) \/ Insert(c) \/ DeadlockVictim(c)
  \/ Del(c) \/ DelFails(c) \/ Get(c) \/ GetFails(c) \/ Set(c) \/ DelAgain(c)
  \/ Refresh(c) \/ SetAgain(c) \/ WarmingFails(c)
  \/ Commit(c) \/ CommitFails(c)

Gateway ==
  \/ \E u \in AppUsers : StartRequest(u)
  \/ ReadTeam \/ FillTeam \/ ReadUser \/ FillUser
  \/ CheckUserAndTeam \/ ReadApp \/ FillApp \/ CheckApp
  \/ CheckLimitsInDb \/ RequestFails

ConfigsNext ==
  \/ \E c \in Calls : Operation(c) \/ Transaction(c)
  \/ RetryFailed
  \/ \E t \in Targets : Expire(t)
  \/ Gateway

ConfigsSpec == ConfigsInit /\ [][ConfigsNext]_configVars
---------------------------------------------------------------------------
WriteRecords == [of : Targets, limit : Limits \cup {0}]
Buffers == Read \cup {NoCopy}
CallRecords ==
  [n : 0..MaxCalls, user : Users \cup {Team}, todo : Seq(WriteRecords), dels : Seq(Targets),
   op : {"none", "set team", "set user", "delete user", "set app", "clear app",
         "allocate", "transfer", "exchange", "warm"},
   at : {"idle", "update", "insert", "del", "del again", "get", "set", "refresh",
         "set again", "commit"},
   seen : SUBSET ConfigRows, held : SUBSET ConfigRows, new : SUBSET ConfigRows,
   lost : SUBSET Targets, buffer : Buffers, raced : BOOLEAN]
RequestRecords ==
  [user : AppUsers \cup {Team}, buffer : Buffers, saw : SUBSET {"user", "app"},
   at : {"idle", "team", "fill team", "user", "fill user", "check", "app", "fill app",
         "check app", "admitted"},
   app : {"unchecked", "checked"}, owed : BOOLEAN, excused : BOOLEAN]

ConfigsTypeOK ==
  /\ rows \subseteq ConfigRows /\ member \subseteq Users
  /\ cache \in [Targets -> Copies \cup {NoCopy}]
  /\ failures \subseteq Targets
  /\ call \in [Calls -> CallRecords]
  /\ req \in RequestRecords
  /\ begun \in 0..MaxCalls /\ requests \in 0..MaxRequests /\ configFaults \in 0..MaxConfigFaults

(* A limit in Redis that no active row has was either written by a call     *)
(* that has not committed (or never will), read before a commit it missed,  *)
(* or left behind by a DEL that failed (budget_service, both sides).        *)
LimitHasCause ==
  \A t \in Targets : cache[t] # NoCopy /\ cache[t].limit \notin LimitsOf(t) =>
    cache[t].by # 0 \/ cache[t].whyLimit # "right"

(* P0-3: while app and user both have a budget, a request is admitted       *)
(* unchecked against the app's only if the copy vanished during the check,  *)
(* or its app_clients were written by a call yet to commit, overtaken, not  *)
(* deleted, or left out by set_user_budget or a sign-in (check_budget,      *)
(* set_user_client_budget).                                                 *)
AppBudgetApplies ==
  req.at = "admitted" /\ req.owed /\ req.app = "unchecked" => req.excused

(* Both: the limits the gateway goes by are the administrator's.            *)
LimitsApply == LimitHasCause /\ AppBudgetApplies

(* BR-BUD-01: a user's budget that is set while nothing else commits never  *)
(* takes the members over the budget of their team (set_user_budget).       *)
MembersWithinTeam ==
  [][\A c \in Calls :
       /\ call[c].op = "set user" /\ call[c].at = "commit" /\ call[c].user \in member
       /\ ~call[c].raced /\ ActiveOf(TeamT) # {} /\ rows' # rows
       /\ call'[c].at = "idle"
       => LimitSum(RowsOfMembers(rows')) <= TheLimit(TeamT)]_configVars
===========================================================================
