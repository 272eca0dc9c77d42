----------------------------- MODULE SeedSpent -----------------------------
(* A user's spend of the month in two stores: the counter in Redis that the
   gateway enforces on, and the rows of budget_usages, one for the total and
   one per app.  Requests deduct from the counter first and are recorded later,
   in the row of the total; an administrator overwrites rows and counter with
   the spend of before the migration; the gateway restores a counter that is
   gone from the rows, and an operator's script does so at will.
   Deduction, its failures and its retries are Budget's. *)
EXTENDS Integers, Sequences, FiniteSets, Functions

CONSTANTS
  SeededApps,                        \* apps whose spend may be seeded
  Amounts,                           \* what a seed may say, in units of a request
  MaxItems, MaxSpends, MaxMishaps    \* bounds: items seeded, requests, losses and failures

ASSUME SeedAssumption ==
  /\ "total" \notin SeededApps /\ Amounts \subseteq Nat
  /\ MaxItems \in Nat /\ MaxSpends \in Nat /\ MaxMishaps \in Nat

VARIABLES
  usageRows,  \* used_usd by row, of the rows there are
  userKey,    \* the counter in Redis, or Gone
  unflushed,  \* requests that were deducted and are not recorded yet
  seed,       \* the administrator's transaction: [at, mine (rows), value, doubts]
  fix,        \* a restore: [at, value, doubts]
  items, spends, mishaps,
  doubts      \* history: why the counter may differ from the rows

seedVars == <<usageRows, userKey, unflushed, seed, fix, items, spends, mishaps, doubts>>

UsageRows == SeededApps \cup {"total"}
Gone == [at |-> "gone"]
Held == [at |-> "held", used |-> 0]
NoRows == [k \in {} |-> 0]
NoSeed == [at |-> "idle", mine |-> NoRows, value |-> 0, doubts |-> {}]
NoFix == [at |-> "idle", value |-> 0, doubts |-> {}]

SeedInit ==
  /\ usageRows = NoRows /\ userKey = Gone /\ unflushed = 0
  /\ seed = NoSeed /\ fix = NoFix
  /\ items = 0 /\ spends = 0 /\ mishaps = 0 /\ doubts = {}

Used == IF userKey = Gone THEN 0 ELSE userKey.used
SetKey(value) == userKey' = [Held EXCEPT !.used = value]
Mishap == mishaps < MaxMishaps /\ mishaps' = mishaps + 1
RowSum(rows) == SumFunction(rows)
Upsert(rows, k, value) == [j \in DOMAIN rows \cup {k} |-> IF j = k THEN value ELSE rows[j]]

(* A SET under way no longer fits what its SELECT saw. *)
FixOvertaken == [fix EXCEPT !.doubts = IF fix.at = "set" THEN @ \cup {"overtaken"} ELSE @]
Overtake ==
  /\ seed' = [seed EXCEPT !.doubts = IF seed.at = "refresh" THEN @ \cup {"overtaken"} ELSE @]
  /\ fix' = FixOvertaken

----------------------------------------------------------------------------
(* A request, and later its record.  The row of the total is locked once the
   transaction has written it. *)
Spend ==
  /\ spends < MaxSpends /\ spends' = spends + 1
  /\ SetKey(Used + 1) /\ unflushed' = unflushed + 1
  /\ Overtake
  /\ UNCHANGED <<usageRows, items, mishaps, doubts>>

RecordUsage ==
  /\ unflushed > 0 /\ "total" \notin DOMAIN seed.mine
  /\ unflushed' = unflushed - 1
  /\ usageRows' = Upsert(usageRows, "total",
                         1 + IF "total" \in DOMAIN usageRows THEN usageRows["total"] ELSE 0)
  /\ Overtake
  /\ UNCHANGED <<userKey, items, spends, mishaps, doubts>>

LoseKey ==
  /\ Mishap /\ userKey # Gone
  /\ userKey' = Gone /\ doubts' = doubts \cup {"lost"}
  /\ Overtake
  /\ UNCHANGED <<usageRows, unflushed, items, spends>>

----------------------------------------------------------------------------
(* Seeding.  What the transaction sees: the committed rows and its own. *)
Seen(rows, mine) == [k \in DOMAIN rows \cup DOMAIN mine |->
                       IF k \in DOMAIN mine THEN mine[k] ELSE rows[k]]
SeenRows == Seen(usageRows, seed.mine)

AppOnly(k, amount) ==  \* mutant: an app's item leaves the total as it is
  /\ seed.at \in {"idle", "open"} /\ items < MaxItems
  /\ items' = items + 1
  /\ seed' = [at |-> IF k = "total" THEN "refresh" ELSE "open", mine |-> Upsert(seed.mine, k, amount),
              value |-> amount, doubts |-> {}]
  /\ UNCHANGED <<usageRows, userKey, unflushed, fix, spends, mishaps, doubts>>

(* An item overwrites its row.  The total is then SET to the item's amount, and
   by an app's item to the sum of the user's rows, the row of the total and
   those of the apps. *)
Asked == IF unflushed > 0 THEN {"overtaken"} ELSE {}
Others(rows, k) == IF \E j \in DOMAIN rows \ {k} : rows[j] > 0 THEN {"others"} ELSE {}

SeedItem(k, amount) ==
  /\ seed.at \in {"idle", "open"} /\ items < MaxItems
  /\ items' = items + 1
  /\ LET mine == Upsert(seed.mine, k, amount)
         seen == Seen(usageRows, mine)
     IN seed' = [at |-> "refresh", mine |-> mine,
                 value  |-> IF k = "total" THEN amount ELSE RowSum(seen),
                 doubts |-> Asked \cup (IF k = "total" THEN Others(seen, k) ELSE {})]
  /\ UNCHANGED <<usageRows, userKey, unflushed, fix, spends, mishaps, doubts>>

(* The SET settles every doubt but its own. *)
RefreshTotal ==
  /\ seed.at = "refresh"
  /\ SetKey(seed.value)
  /\ doubts' = seed.doubts
  /\ seed' = [NoSeed EXCEPT !.at = "open", !.mine = seed.mine]
  /\ fix' = FixOvertaken
  /\ UNCHANGED <<usageRows, unflushed, items, spends, mishaps>>

(* A SET that fails is logged, whether it took effect or not. *)
RefreshFails ==
  /\ seed.at = "refresh" /\ Mishap
  /\ SetKey(seed.value) \/ UNCHANGED userKey
  /\ doubts' = doubts \cup {"failed"}
  /\ seed' = [NoSeed EXCEPT !.at = "open", !.mine = seed.mine]
  /\ fix' = FixOvertaken
  /\ UNCHANGED <<usageRows, unflushed, items, spends>>

CommitSeed ==
  /\ seed.at = "open"
  /\ usageRows' = SeenRows
  /\ seed' = NoSeed /\ fix' = FixOvertaken
  /\ UNCHANGED <<userKey, unflushed, items, spends, mishaps, doubts>>

(* A statement fails: with it goes the whole transaction, also what was
   reported as done.  What Redis was told stays. *)
AbortSeed ==
  /\ seed.at # "idle" /\ Mishap
  /\ seed' = NoSeed
  /\ doubts' = doubts \cup {"aborted"}
  /\ UNCHANGED <<usageRows, userKey, unflushed, fix, items, spends>>

----------------------------------------------------------------------------
(* check_budget finds no counter and asks for the user's row, of whichever app
   it is.  Several rows are an error, which is logged; a row of zero is left. *)
FindRow ==
  /\ fix.at = "idle" /\ userKey = Gone
  /\ Cardinality(DOMAIN usageRows) = 1 /\ RowSum(usageRows) > 0
  /\ fix' = [at |-> "set", value |-> RowSum(usageRows), doubts |-> Asked]
  /\ UNCHANGED <<usageRows, userKey, unflushed, seed, items, spends, mishaps, doubts>>

(* The operator's script takes the first of the rows it is given, and replaces
   a counter that differs from it. *)
ScriptFindsRow ==
  /\ fix.at = "idle" /\ mishaps < MaxMishaps /\ mishaps' = mishaps + 1
  /\ \E k \in DOMAIN usageRows :
       /\ usageRows[k] > 0 /\ usageRows[k] # Used
       /\ fix' = [at |-> "set", value |-> usageRows[k], doubts |-> Asked \cup Others(usageRows, k)]
  /\ UNCHANGED <<usageRows, userKey, unflushed, seed, items, spends, doubts>>

SetFromRow ==
  /\ fix.at = "set"
  /\ SetKey(fix.value)
  /\ doubts' = fix.doubts \cup (IF seed.at = "idle" THEN {} ELSE {"overtaken"})
  /\ fix' = NoFix
  /\ UNCHANGED <<usageRows, unflushed, seed, items, spends, mishaps>>

SeedNext ==
  \/ Spend \/ RecordUsage \/ LoseKey
  \/ \E k \in UsageRows, amount \in Amounts : SeedItem(k, amount)
  \/ RefreshTotal \/ RefreshFails \/ CommitSeed \/ AbortSeed
  \/ FindRow \/ ScriptFindsRow \/ SetFromRow

SeedSpec == SeedInit /\ [][SeedNext]_seedVars

----------------------------------------------------------------------------
SeedTypeOK ==
  /\ DOMAIN usageRows \subseteq UsageRows /\ DOMAIN seed.mine \subseteq UsageRows
  /\ \A k \in DOMAIN usageRows : usageRows[k] \in Nat
  /\ Used \in Nat /\ unflushed \in 0..MaxSpends
  /\ seed.at \in {"idle", "refresh", "open"} /\ fix.at \in {"idle", "set"}
  /\ items \in 0..MaxItems /\ spends \in 0..MaxSpends /\ mishaps \in 0..MaxMishaps

(* What the gateway enforces on is what the rows add up to and what is still to
   be recorded: unless the counter was lost, a SET failed or its transaction
   did, a request was on its way past a SET, or the total was set to one row
   while there were others (BudgetService.seed_spent, check_budget). *)
CounterMatchesRows ==
  seed.at = "idle" /\ doubts = {} => Used = RowSum(usageRows) + unflushed
============================================================================
