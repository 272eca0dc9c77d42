------------------------------ MODULE Budget ------------------------------
(***************************************************************************)
(* The gateway's budget gate: check_budget before a request is served, the *)
(* deductions of finalize after it, the counters in Redis they read and    *)
(* write, and the recorder's account in the database, which lags behind.   *)
(*                                                                         *)
(* Check and deduction are separate, and a request is served in between,   *)
(* so concurrent requests overshoot. A counter comes into being with the   *)
(* first deduction of a month; Redis may lose one (failover, flush,        *)
(* eviction). Only the user's own counter is ever restored, from the       *)
(* database, in three steps: EXISTS, SELECT, SET. Limits and policies are  *)
(* fixed here; how they reach the gateway is a matter of their caches.     *)
(***************************************************************************)
EXTENDS Integers, Sequences, FiniteSets, FiniteSetsExt, Functions

CONSTANTS
  Requests,
  Scopes,        \* users, teams, apps of a user
  Apps,          \* those the recorder keeps no account of
  ScopesOf,      \* per request: its user, its team, perhaps its app
  Limit, Policy, \* per scope
  Cost,          \* per request: what it will cost
  SoftPct,       \* soft_limit_pct
  Width,         \* bound: requests between check and deduction at once
  Retries,       \* redis_retries
  MaxLosses,     \* bound: counters Redis loses
  MaxFaults      \* bound: Redis calls that fail

Policies == {"hard_block", "soft_warning", "throttle"}

ASSUME BudgetAssumption ==
  /\ Requests # {} /\ IsFiniteSet(Requests)
  /\ Apps \subseteq Scopes
  /\ ScopesOf \in [Requests -> Seq(Scopes)]
  /\ \A r \in Requests :
       /\ ScopesOf[r] # <<>> /\ ScopesOf[r][1] \notin Apps
       /\ \A i, j \in DOMAIN ScopesOf[r] :
            /\ i # j => ScopesOf[r][i] # ScopesOf[r][j]
            /\ i < j => ScopesOf[r][i] \notin Apps
  /\ Limit \in [Scopes -> Nat] /\ Policy \in [Scopes -> Policies]
  /\ Cost \in [Requests -> Nat \ {0}]
  /\ SoftPct \in Nat /\ Width \in Nat \ {0}
  /\ Retries \in Nat /\ MaxLosses \in Nat /\ MaxFaults \in Nat

VARIABLES
  pc,        \* per request: where it is
  todo,      \* per request: scopes still to check, or to deduct from
  read,      \* per request: what SELECT found, on its way to SET
  counter,   \* per scope: the counter in Redis, or Absent
  account,   \* per scope: budget_usages in the database
  unrecorded,\* requests whose record is in the stream
  losses, faults,
  spent,     \* history, per scope: what requests have truly cost
  races      \* history: restores that overwrote a counter in use

vars == <<pc, todo, read, counter, account, unrecorded, losses, faults,
          spent, races>>

Absent == -1
Steps == {"new", "select", "set", "check", "serving", "deduct", "publish", "over"}

BudgetTypeOK ==
  /\ pc \in [Requests -> Steps]
  /\ todo \in [Requests -> Seq(Scopes)]
  /\ \A r \in Requests : pc[r] \in {"check", "deduct"} => todo[r] # <<>>
  /\ read \in [Requests -> Nat]
  /\ counter \in [Scopes -> Nat \cup {Absent}]
  /\ account \in [Scopes -> Nat]
  /\ unrecorded \subseteq Requests
  /\ losses \in 0..MaxLosses /\ faults \in 0..MaxFaults
  /\ spent \in [Scopes -> Nat]
  /\ races \in Nat

BudgetInit ==
  /\ pc = [r \in Requests |-> "new"]
  /\ todo = [r \in Requests |-> <<>>]
  /\ read = [r \in Requests |-> 0]
  /\ counter = [s \in Scopes |-> Absent]
  /\ account = [s \in Scopes |-> 0]
  /\ unrecorded = {}
  /\ losses = 0 /\ faults = 0
  /\ spent = [s \in Scopes |-> 0]
  /\ races = 0
---------------------------------------------------------------------------
\* Redis: GET of a missing key counts as 0, INCRBYFLOAT creates the key.
Value(s) == IF counter[s] = Absent THEN 0 ELSE counter[s]

\* budget_check.lua: from which use on a policy blocks, if ever.
Blocks(s, used) ==
  \/ Policy[s] = "hard_block" /\ used >= Limit[s]
  \/ Policy[s] = "soft_warning" /\ used * 100 >= Limit[s] * SoftPct

\* _check_budget_db: use has reached the limit, whatever the policy.
BlocksInDb(s) == account[s] >= Limit[s]

Active == {r \in Requests : pc[r] \notin {"new", "over"}}
Goto(r, step) == pc' = [pc EXCEPT ![r] = step]
Arrives(r) == pc[r] = "new" /\ Cardinality(Active) < Width
FaultsLeft == faults < MaxFaults /\ faults' = faults + 1
UserOf(r) == ScopesOf[r][1]

\* EXISTS on the user's counter.
Begin(r) ==
  /\ Arrives(r)
  /\ Goto(r, IF counter[UserOf(r)] = Absent THEN "select" ELSE "check")
  /\ todo' = [todo EXCEPT ![r] = ScopesOf[r]]
  /\ UNCHANGED <<read, counter, account, unrecorded, losses, faults, spent, races>>

\* EXISTS stands outside every try: the request ends in an error.
BeginFails(r) ==
  /\ Arrives(r)
  /\ FaultsLeft
  /\ Goto(r, "over")
  /\ UNCHANGED <<todo, read, counter, account, unrecorded, losses, spent, races>>

Select(r) ==
  /\ pc[r] = "select"
  /\ read' = [read EXCEPT ![r] = account[UserOf(r)]]
  /\ Goto(r, IF account[UserOf(r)] > 0 THEN "set" ELSE "check")
  /\ UNCHANGED <<todo, counter, account, unrecorded, losses, faults, spent, races>>

SetCounter(r, value) ==
  /\ counter' = [counter EXCEPT ![UserOf(r)] = value]
  /\ races' = races + IF counter[UserOf(r)] = Absent THEN 0 ELSE 1

\* SET, whatever has become of the key since EXISTS.
RestoreAdding(r) ==  \* mutant: INCRBYFLOAT in place of SET
  /\ pc[r] = "set"
  /\ SetCounter(r, Value(UserOf(r)) + read[r])
  /\ read' = [read EXCEPT ![r] = 0]
  /\ Goto(r, "check")
  /\ UNCHANGED <<todo, account, unrecorded, losses, faults, spent>>

Restore(r) ==
  /\ pc[r] = "set"
  /\ SetCounter(r, read[r])
  /\ read' = [read EXCEPT ![r] = 0]
  /\ Goto(r, "check")
  /\ UNCHANGED <<todo, account, unrecorded, losses, faults, spent>>

\* SELECT fails, or SET does (perhaps after it took effect): check anyway.
RestoreFails(r) ==
  /\ pc[r] \in {"select", "set"}
  /\ FaultsLeft
  /\ \/ UNCHANGED <<counter, races>>
     \/ pc[r] = "set" /\ SetCounter(r, read[r])
  /\ read' = [read EXCEPT ![r] = 0]
  /\ Goto(r, "check")
  /\ UNCHANGED <<todo, account, unrecorded, losses, spent>>
---------------------------------------------------------------------------
Admit(r) ==
  /\ Goto(r, "serving")
  /\ todo' = [todo EXCEPT ![r] = ScopesOf[r]]

Refuse(r) ==
  /\ Goto(r, "over")
  /\ todo' = [todo EXCEPT ![r] = <<>>]

\* budget_check.lua for the next scope: the first that blocks decides.
CheckUserOnly(r) ==  \* mutant: the request is served after its first check
  /\ pc[r] = "check"
  /\ LET s == Head(todo[r])
     IN IF Blocks(s, Value(s)) THEN Refuse(r) ELSE Admit(r)
  /\ UNCHANGED <<read, counter, account, unrecorded, losses, faults, spent, races>>

Check(r) ==
  /\ pc[r] = "check"
  /\ LET s == Head(todo[r])
     IN IF Blocks(s, Value(s)) THEN Refuse(r)
        ELSE IF Len(todo[r]) = 1 THEN Admit(r)
        ELSE todo' = [todo EXCEPT ![r] = Tail(@)] /\ UNCHANGED pc
  /\ UNCHANGED <<read, counter, account, unrecorded, losses, faults, spent, races>>

\* A check that fails at Redis, or finds it degraded, is made on the database
\* instead, all scopes at once.
CheckInDb(r) ==
  /\ pc[r] = "check" \/ Arrives(r)
  /\ FaultsLeft
  /\ \/ \E i \in DOMAIN ScopesOf[r] :
          /\ BlocksInDb(ScopesOf[r][i])
          /\ \A j \in 1..(i - 1) : ~BlocksInDb(ScopesOf[r][j])
          /\ Refuse(r)
     \/ (\A i \in DOMAIN ScopesOf[r] : ~BlocksInDb(ScopesOf[r][i])) /\ Admit(r)
  /\ UNCHANGED <<read, counter, account, unrecorded, losses, spent, races>>
---------------------------------------------------------------------------
InScope(r) == {ScopesOf[r][i] : i \in DOMAIN ScopesOf[r]}

\* The provider has answered; a request without usage is not finalized.
Finish(r) ==
  /\ pc[r] = "serving"
  /\ \/ /\ Goto(r, "deduct")
        /\ spent' = [s \in Scopes |->
                       spent[s] + IF s \in InScope(r) THEN Cost[r] ELSE 0]
        /\ UNCHANGED todo
     \/ /\ Goto(r, "over")
        /\ todo' = [todo EXCEPT ![r] = <<>>]
        /\ UNCHANGED spent
  /\ UNCHANGED <<read, counter, account, unrecorded, losses, faults, races>>

Charge(s, amount) == counter' = [counter EXCEPT ![s] = Value(s) + amount]

GoOnWith(r, rest) ==
  /\ todo' = [todo EXCEPT ![r] = rest]
  /\ Goto(r, IF rest = <<>> THEN "publish" ELSE "deduct")

\* budget_deduct.lua for the next scope: user, team, app.
DeductUserOnly(r) ==  \* mutant: the other scopes are left to the recorder
  /\ pc[r] = "deduct"
  /\ Charge(Head(todo[r]), Cost[r])
  /\ GoOnWith(r, <<>>)
  /\ UNCHANGED <<read, account, unrecorded, losses, faults, spent, races>>

Deduct(r) ==
  /\ pc[r] = "deduct"
  /\ Charge(Head(todo[r]), Cost[r])
  /\ GoOnWith(r, Tail(todo[r]))
  /\ UNCHANGED <<read, account, unrecorded, losses, faults, spent, races>>

\* The app, if any, comes last.
WithoutApp(scopes) ==
  IF scopes # <<>> /\ scopes[Len(scopes)] \in Apps
  THEN SubSeq(scopes, 1, Len(scopes) - 1) ELSE scopes

\* The script is not idempotent and the client repeats it: a call that fails
\* has charged between none and 1 + Retries times. Finalize goes on, but the
\* app is charged only on the word of the user's call.
DeductFails(r) ==
  /\ pc[r] = "deduct"
  /\ FaultsLeft
  /\ LET s == Head(todo[r])
     IN /\ \/ UNCHANGED counter
           \/ \E times \in 1..(1 + Retries) : Charge(s, times * Cost[r])
        /\ GoOnWith(r, IF s = UserOf(r) THEN WithoutApp(Tail(todo[r]))
                       ELSE Tail(todo[r]))
  /\ UNCHANGED <<read, account, unrecorded, losses, spent, races>>

Publish(r) ==
  /\ pc[r] = "publish"
  /\ unrecorded' = unrecorded \cup {r}
  /\ Goto(r, "over")
  /\ UNCHANGED <<todo, read, counter, account, losses, faults, spent, races>>

\* The recorder charges user and team accounts; it knows nothing of apps.
Charged(r) == InScope(r) \ Apps

Record(r) ==
  /\ r \in unrecorded
  /\ unrecorded' = unrecorded \ {r}
  /\ account' = [s \in Scopes |->
                   account[s] + IF s \in Charged(r) THEN Cost[r] ELSE 0]
  /\ UNCHANGED <<pc, todo, read, counter, losses, faults, spent, races>>

\* Redis loses a counter: a failover, a flush, an eviction.
Lose(s) ==
  /\ losses < MaxLosses
  /\ counter[s] # Absent
  /\ losses' = losses + 1
  /\ counter' = [counter EXCEPT ![s] = Absent]
  /\ UNCHANGED <<pc, todo, read, account, unrecorded, faults, spent, races>>

Step(r) ==
  \/ Begin(r) \/ BeginFails(r) \/ Select(r) \/ Restore(r) \/ RestoreFails(r)
  \/ Check(r) \/ CheckInDb(r)
  \/ Finish(r) \/ Deduct(r) \/ DeductFails(r) \/ Publish(r)

BudgetNext ==
  \/ \E r \in Requests : Step(r) \/ Record(r)
  \/ \E s \in Scopes : Lose(s)

BudgetSpec == BudgetInit /\ [][BudgetNext]_vars
---------------------------------------------------------------------------
MaxCost == Max({Cost[r] : r \in Requests})

\* What requests that finish owe a scope still.
Owing(s) ==
  {r \in Requests : pc[r] = "deduct" /\ \E i \in DOMAIN todo[r] : todo[r][i] = s}
Owed(s) == SumFunctionOnSet(Cost, Owing(s))

(* While Redis keeps its keys and answers, and no restore has overwritten a *)
(* counter in use, every counter holds exactly what its finalized requests  *)
(* have cost (CostRecorder.finalize, budget_deduct.lua).                    *)
CounterExact ==
  losses + faults + races = 0 =>
    \A s \in Scopes : Value(s) + Owed(s) = spent[s]

(* Whatever Redis loses or repeats, a counter is never ahead of true cost   *)
(* by more than the retries of failed deductions: a restore never charges   *)
(* twice what is on its way to the database (check_budget's restore).       *)
NeverAhead ==
  \A s \in Scopes : Value(s) <= spent[s] + faults * Retries * MaxCost

(* Check and deduction are apart, so a hard limit is overshot, but only by  *)
(* the requests in flight; a lost or overwritten counter grants one budget  *)
(* more, a failed call one request (check_budget to finalize).              *)
OvershootBounded ==
  \A s \in Scopes : Policy[s] = "hard_block" =>
    spent[s] <= (1 + losses + races) * (Limit[s] - 1 + Width * MaxCost)
                + faults * MaxCost
===========================================================================
