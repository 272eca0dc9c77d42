---------------------------- MODULE BudgetProofs ----------------------------
(***************************************************************************)
(* The three bounds on the budget counters, for any requests, scopes,      *)
(* limits, costs and number of failures; and, at the end, what seeding and *)
(* restoring leave of a counter, whose slots the limits' stand-in spends,  *)
(* and what the copies of the limits in Redis may still say when the rows  *)
(* have changed.                                                           *)
(*                                                                         *)
(* Each bound relates a counter to a sum over the requests that are        *)
(* somewhere between their check and their last deduction.  An action      *)
(* moves one request, so that each sum changes by its cost or stays        *)
(* (OneMoves).                                                             *)
(***************************************************************************)
EXTENDS Budget, SeedSpent, EvalBreaker, BudgetConfigs, FiniteSums

CostOf(A) == SumFunctionOnSet(Cost, A)
Listed(scopes) == {scopes[i] : i \in DOMAIN scopes}
Apart(scopes) == \A i, j \in DOMAIN scopes : i # j => scopes[i] # scopes[j]

\* Those whose cost the recorder has yet to book for a scope.
Unbooked(s) ==
  {r \in Requests : s \in Charged(r) /\ (pc[r] \in {"deduct", "publish"} \/ r \in unrecorded)}

\* Those that passed the check of a scope and have not been served.
Exposing(s) ==
  {r \in Requests : /\ s \in InScope(r)
                    /\ pc[r] = "serving" \/ (pc[r] = "check" /\ s \notin Listed(todo[r]))}

TodoInv ==
  \A r \in Requests :
    /\ Apart(todo[r]) /\ Listed(todo[r]) \subseteq InScope(r)
    /\ pc[r] \in {"select", "set", "serving"} => todo[r] = ScopesOf[r]

RecordInv == \A r \in unrecorded : pc[r] = "over"

\* What a restore is about to write was booked.
ReadInv == \A r \in Requests : pc[r] = "set" => 0 < read[r] /\ read[r] <= account[UserOf(r)]

\* The database lags by what is on its way to it.
BooksInv == \A s \in Scopes \ Apps : account[s] + CostOf(Unbooked(s)) = spent[s]

OwedInv == \A s \in Scopes : CostOf(Owing(s)) <= spent[s]

FundsInv ==
  BudgetTypeOK /\ TodoInv /\ RecordInv /\ ReadInv /\ BooksInv /\ OwedInv
    /\ Cardinality(Active) <= Width

-----------------------------------------------------------------------------
(* Lists of scopes.                                                          *)

LEMMA TailListed ==
  ASSUME NEW q \in Seq(Scopes), q # <<>>, Apart(q)
  PROVE  /\ Head(q) \in Scopes /\ Head(q) \in Listed(q)
         /\ Tail(q) \in Seq(Scopes) /\ Apart(Tail(q))
         /\ Listed(Tail(q)) = Listed(q) \ {Head(q)}
<1>1. Len(q) \in Nat \ {0} /\ DOMAIN q = 1 .. Len(q) /\ Head(q) = q[1] /\ Head(q) \in Scopes
  OBVIOUS
<1>2. /\ Tail(q) \in Seq(Scopes) /\ DOMAIN Tail(q) = 1 .. Len(q) - 1
      /\ \A i \in 1 .. Len(q) - 1 : Tail(q)[i] = q[i + 1]
  OBVIOUS
<1>3. Apart(Tail(q))
  BY <1>1, <1>2 DEF Apart
<1>4. ASSUME NEW s \in Listed(Tail(q)) PROVE s \in Listed(q) \ {Head(q)}
  <2>1. PICK i \in 1 .. Len(q) - 1 : s = q[i + 1]
    BY <1>2 DEF Listed
  <2>2. i + 1 \in DOMAIN q /\ 1 \in DOMAIN q /\ i + 1 # 1
    BY <1>1
  <2>3. QED
    BY <1>1, <2>1, <2>2 DEF Listed, Apart
<1>5. ASSUME NEW s \in Listed(q) \ {Head(q)} PROVE s \in Listed(Tail(q))
  <2>1. PICK i \in DOMAIN q : s = q[i]
    BY DEF Listed
  <2>2. i # 1
    BY <1>1, <2>1
  <2>3. i - 1 \in DOMAIN Tail(q) /\ Tail(q)[i - 1] = s
    BY <1>1, <1>2, <2>1, <2>2
  <2>4. QED
    BY <2>3 DEF Listed
<1>6. Head(q) \in Listed(q)
  BY <1>1 DEF Listed
<1>7. QED
  BY <1>1, <1>2, <1>3, <1>4, <1>5, <1>6

LEMMA WithoutAppListed ==
  ASSUME NEW q \in Seq(Scopes), Apart(q)
  PROVE  /\ WithoutApp(q) \in Seq(Scopes) /\ Apart(WithoutApp(q))
         /\ Listed(WithoutApp(q)) \subseteq Listed(q)
<1>1. CASE q # <<>> /\ q[Len(q)] \in Apps
  <2> DEFINE w == SubSeq(q, 1, Len(q) - 1)
  <2>1. Len(q) \in Nat \ {0} /\ DOMAIN q = 1 .. Len(q)
    BY <1>1
  <2>2. /\ w \in Seq(Scopes) /\ DOMAIN w = 1 .. Len(q) - 1
        /\ \A i \in 1 .. Len(q) - 1 : w[i] = q[i]
    BY <2>1
  <2>3. WithoutApp(q) = w
    BY <1>1 DEF WithoutApp
  <2> HIDE DEF w
  <2>4. QED
    BY <2>1, <2>2, <2>3 DEF Apart, Listed
<1>2. CASE ~(q # <<>> /\ q[Len(q)] \in Apps)
  BY <1>2 DEF WithoutApp
<1>3. QED
  BY <1>1, <1>2

LEMMA ScopesFacts ==
  ASSUME NEW r \in Requests
  PROVE  /\ ScopesOf[r] \in Seq(Scopes) /\ ScopesOf[r] # <<>> /\ Apart(ScopesOf[r])
         /\ Listed(ScopesOf[r]) = InScope(r) /\ InScope(r) \subseteq Scopes
         /\ UserOf(r) \in Scopes \ Apps /\ Cost[r] \in Nat \ {0}
<1>1. /\ ScopesOf[r] \in Seq(Scopes) /\ ScopesOf[r] # <<>> /\ ScopesOf[r][1] \notin Apps
      /\ Cost[r] \in Nat \ {0} /\ Apart(ScopesOf[r])
  BY BudgetAssumption DEF Apart
<1>2. 1 \in DOMAIN ScopesOf[r] /\ \A i \in DOMAIN ScopesOf[r] : ScopesOf[r][i] \in Scopes
  BY <1>1
<1>3. QED
  BY <1>1, <1>2 DEF Listed, InScope, UserOf

-----------------------------------------------------------------------------
(* Sums of costs.                                                            *)

LEMMA CostFacts ==
  ASSUME NEW A \in SUBSET Requests
  PROVE  IsFiniteSet(A) /\ CostOf(A) \in Nat
<1>1. IsFiniteSet(A) /\ \A r \in A : Cost[r] \in Nat
  BY FS_Subset, BudgetAssumption
<1>2. QED
  BY <1>1, SumIsNat DEF CostOf

LEMMA OneMoves ==
  ASSUME NEW A \in SUBSET Requests, NEW B \in SUBSET Requests, NEW r \in Requests,
         A \ {r} = B \ {r}
  PROVE  CostOf(B) = CostOf(A) + (IF r \in B THEN Cost[r] ELSE 0) - (IF r \in A THEN Cost[r] ELSE 0)
<1>1. \A C \in SUBSET Requests :
        CostOf(C) = (IF r \in C THEN Cost[r] ELSE 0) + CostOf(C \ {r})
  <2> SUFFICES ASSUME NEW C \in SUBSET Requests
               PROVE  CostOf(C) = (IF r \in C THEN Cost[r] ELSE 0) + CostOf(C \ {r})
    OBVIOUS
  <2>1. IsFiniteSet(C) /\ CostOf(C) \in Nat /\ \A y \in C : Cost[y] \in Int
    BY CostFacts, BudgetAssumption
  <2>2. CASE r \in C
    <3>1. SumFunctionOnSet(Cost, C) = Cost[r] + SumFunctionOnSet(Cost, C \ {r})
      BY <2>1, <2>2, SumWithout
    <3>2. QED
      BY <2>2, <3>1 DEF CostOf
  <2>3. CASE r \notin C
    <3>1. C \ {r} = C
      BY <2>3
    <3>2. QED
      BY <2>1, <2>3, <3>1
  <2>4. QED
    BY <2>2, <2>3
<1>2. CostOf(A \ {r}) = CostOf(B \ {r}) /\ CostOf(A \ {r}) \in Nat /\ Cost[r] \in Nat
  BY CostFacts, BudgetAssumption
<1>3. /\ CostOf(A) = (IF r \in A THEN Cost[r] ELSE 0) + CostOf(A \ {r})
      /\ CostOf(B) = (IF r \in B THEN Cost[r] ELSE 0) + CostOf(B \ {r})
  BY <1>1
<1>4. QED
  BY <1>2, <1>3

LEMMA MaxCostFacts ==
  MaxCost \in Nat \ {0} /\ \A r \in Requests : Cost[r] <= MaxCost
<1>1. \A r \in Requests : Cost[r] \in Int
  BY BudgetAssumption
<1>2. PICK m \in Requests : \A r \in Requests : Cost[m] >= Cost[r]
  BY <1>1, LargestExists, BudgetAssumption
<1>3. Cost[m] \in {Cost[r] : r \in Requests} /\ \A c \in {Cost[r] : r \in Requests} : Cost[m] >= c
  BY <1>2
<1>4. /\ MaxCost \in {Cost[r] : r \in Requests}
      /\ \A c \in {Cost[r] : r \in Requests} : MaxCost >= c
  BY <1>3 DEF MaxCost, Max
<1>5. PICK n \in Requests : MaxCost = Cost[n]
  BY <1>4
<1>6. QED
  BY <1>4, <1>5, BudgetAssumption

\* Requests that are under way are no more than Width, and owe no more than
\* that many times the highest cost.
LEMMA FewUnderWay ==
  ASSUME NEW P \in SUBSET Requests, Cardinality(P) <= Width, NEW A \in SUBSET P
  PROVE  CostOf(A) <= Width * MaxCost
<1>1. IsFiniteSet(P)
  BY FS_Subset, BudgetAssumption
<1>2. IsFiniteSet(A) /\ Cardinality(A) <= Cardinality(P) /\ Cardinality(A) \in Nat
      /\ Cardinality(P) \in Nat /\ Width \in Nat
  BY <1>1, FS_Subset, FS_CardinalityType, BudgetAssumption
<1>3. MaxCost \in Nat /\ \A r \in A : Cost[r] \in Nat /\ Cost[r] <= MaxCost
  BY <1>1, MaxCostFacts, BudgetAssumption
<1>4. CostOf(A) <= Cardinality(A) * MaxCost
  BY <1>2, <1>3, SumBounded DEF CostOf
<1>5. CostOf(A) \in Nat
  BY <1>1, CostFacts
<1>6. Cardinality(A) * MaxCost <= Width * MaxCost
  BY <1>2, <1>3
<1>7. Cardinality(A) * MaxCost \in Nat /\ Width * MaxCost \in Nat
  BY <1>2, <1>3
<1>8. QED
  BY <1>4, <1>5, <1>6, <1>7

-----------------------------------------------------------------------------
(* What a step of one request leaves alone.                                  *)

OthersStay(r) ==
  \A q \in Requests \ {r} :
    pc'[q] = pc[q] /\ todo'[q] = todo[q] /\ (q \in unrecorded' <=> q \in unrecorded)

LEMMA SumsMove ==
  ASSUME NEW r \in Requests, OthersStay(r), NEW s
  PROVE  /\ CostOf(Owing(s)') = CostOf(Owing(s))
              + (IF r \in Owing(s)' THEN Cost[r] ELSE 0) - (IF r \in Owing(s) THEN Cost[r] ELSE 0)
         /\ CostOf(Unbooked(s)') = CostOf(Unbooked(s))
              + (IF r \in Unbooked(s)' THEN Cost[r] ELSE 0) - (IF r \in Unbooked(s) THEN Cost[r] ELSE 0)
         /\ CostOf(Exposing(s)') = CostOf(Exposing(s))
              + (IF r \in Exposing(s)' THEN Cost[r] ELSE 0) - (IF r \in Exposing(s) THEN Cost[r] ELSE 0)
<1>1. /\ Owing(s) \in SUBSET Requests /\ Owing(s)' \in SUBSET Requests
      /\ Unbooked(s) \in SUBSET Requests /\ Unbooked(s)' \in SUBSET Requests
      /\ Exposing(s) \in SUBSET Requests /\ Exposing(s)' \in SUBSET Requests
  BY DEF Owing, Unbooked, Exposing
<1>2. Owing(s) \ {r} = Owing(s)' \ {r}
  BY DEF Owing, OthersStay
<1>3. Unbooked(s) \ {r} = Unbooked(s)' \ {r}
  BY DEF Unbooked, OthersStay
<1>4. Exposing(s) \ {r} = Exposing(s)' \ {r}
  BY DEF Exposing, OthersStay
<1>5. QED
  BY <1>1, <1>2, <1>3, <1>4, OneMoves

LEMMA ActiveStaysFew ==
  ASSUME NEW r \in Requests, OthersStay(r), Cardinality(Active) <= Width,
         Arrives(r) \/ pc[r] \notin {"new", "over"}
  PROVE  Cardinality(Active') <= Width
<1>1. IsFiniteSet(Active) /\ Cardinality(Active) \in Nat /\ Width \in Nat
  BY FS_Subset, FS_CardinalityType, BudgetAssumption DEF Active
<1>2. Active' \subseteq Active \cup {r}
  BY DEF Active, OthersStay
<1>3. IsFiniteSet(Active \cup {r}) /\ Cardinality(Active \cup {r}) <= Width
  <2>1. CASE Arrives(r)
    <3>1. Cardinality(Active) < Width
      BY <2>1 DEF Arrives
    <3>2. IsFiniteSet(Active \cup {r})
          /\ Cardinality(Active \cup {r}) = IF r \in Active THEN Cardinality(Active) ELSE Cardinality(Active) + 1
      BY <1>1, FS_AddElement
    <3>3. QED
      BY <1>1, <3>1, <3>2
  <2>2. CASE pc[r] \notin {"new", "over"}
    <3>1. Active \cup {r} = Active
      BY <2>2 DEF Active
    <3>2. QED
      BY <1>1, <3>1
  <2>3. QED
    BY <2>1, <2>2
<1>4. Cardinality(Active') <= Cardinality(Active \cup {r}) /\ Cardinality(Active') \in Nat
      /\ Cardinality(Active \cup {r}) \in Nat
  BY <1>2, <1>3, FS_Subset, FS_CardinalityType
<1>5. QED
  BY <1>1, <1>3, <1>4

Early == {"new", "select", "set", "check", "serving"}

\* A step before the first deduction is due, or one that ends a request there,
\* moves no money.
Quiet(r) ==
  /\ OthersStay(r) /\ pc[r] \in Early /\ pc'[r] \in Early \cup {"over"}
  /\ Arrives(r) \/ pc[r] # "new"
  /\ unrecorded' = unrecorded /\ account' = account /\ spent' = spent

LEMMA QuietSums ==
  ASSUME NEW r \in Requests, Quiet(r), NEW s
  PROVE  Owing(s)' = Owing(s) /\ Unbooked(s)' = Unbooked(s)
BY DEF Quiet, OthersStay, Owing, Unbooked, Early

LEMMA QuietKeeps ==
  ASSUME FundsInv, NEW r \in Requests, Quiet(r), BudgetTypeOK', TodoInv', ReadInv'
  PROVE  FundsInv'
<1>1. RecordInv'
  BY DEF FundsInv, RecordInv, Quiet, OthersStay, Early, BudgetTypeOK
<1>2. BooksInv'
  BY QuietSums DEF FundsInv, BooksInv, Quiet
<1>3. OwedInv'
  BY QuietSums DEF FundsInv, OwedInv, Quiet
<1>4. Cardinality(Active') <= Width
  BY ActiveStaysFew DEF FundsInv, Quiet, Early
<1>5. QED
  BY <1>1, <1>2, <1>3, <1>4 DEF FundsInv

LEMMA FundsInit == BudgetInit => FundsInv
<1> SUFFICES ASSUME BudgetInit PROVE FundsInv
  OBVIOUS
<1>1. BudgetTypeOK
  BY BudgetAssumption DEF BudgetInit, BudgetTypeOK, Steps
<1>2. TodoInv /\ RecordInv /\ ReadInv
  BY DEF BudgetInit, TodoInv, RecordInv, ReadInv, Apart, Listed
<1>3. \A s : Unbooked(s) = {} /\ Owing(s) = {}
  BY DEF BudgetInit, Unbooked, Owing
<1>4. CostOf({}) = 0
  BY SumOfNone DEF CostOf
<1>5. \A s : CostOf(Unbooked(s)) = 0 /\ CostOf(Owing(s)) = 0
  BY <1>3, <1>4, Zenon
<1>6. \A s \in Scopes : account[s] = 0 /\ spent[s] = 0
  BY DEF BudgetInit
<1>7. BooksInv /\ OwedInv
  BY <1>5, <1>6 DEF BooksInv, OwedInv
<1>8. Active = {}
  BY DEF BudgetInit, Active
<1>9. Cardinality(Active) <= Width
  BY <1>8, FS_EmptySet, BudgetAssumption
<1>10. QED
  BY <1>1, <1>2, <1>7, <1>9 DEF FundsInv

-----------------------------------------------------------------------------
(* The restore and the checks.                                               *)

LEMMA BeginIsQuiet ==
  ASSUME FundsInv, NEW r \in Requests, Begin(r) \/ BeginFails(r)
  PROVE  Quiet(r) /\ FundsInv'
<1>1. Quiet(r)
  BY DEF FundsInv, BudgetTypeOK, Begin, BeginFails, Arrives, Goto, FaultsLeft, Quiet, OthersStay, Early
<1>2. BudgetTypeOK'
  <2>1. CASE Begin(r)
    <3>1. \E next \in {"select", "check"} : pc' = [pc EXCEPT ![r] = next]
      BY <2>1 DEF Begin, Goto
    <3>2. todo' = [todo EXCEPT ![r] = ScopesOf[r]] /\ ScopesOf[r] \in Seq(Scopes) /\ ScopesOf[r] # <<>>
      BY <2>1, ScopesFacts DEF Begin
    <3>3. UNCHANGED <<read, counter, account, unrecorded, losses, faults, spent, races>>
      BY <2>1 DEF Begin
    <3>4. QED
      BY <3>1, <3>2, <3>3 DEF FundsInv, BudgetTypeOK, Steps
  <2>2. CASE BeginFails(r)
    <3>1. faults' \in 0..MaxFaults
      BY <2>2, BudgetAssumption DEF BeginFails, FaultsLeft, FundsInv, BudgetTypeOK
    <3>2. QED
      BY <2>2, <3>1 DEF BeginFails, Goto, FundsInv, BudgetTypeOK, Steps
  <2>3. QED
    BY <2>1, <2>2
<1>3. TodoInv'
  <2>1. Apart(ScopesOf[r]) /\ Listed(ScopesOf[r]) = InScope(r)
    BY ScopesFacts
  <2>2. CASE Begin(r)
    <3>1. /\ todo' = [todo EXCEPT ![r] = ScopesOf[r]]
          /\ \A q \in Requests \ {r} : pc'[q] = pc[q]
      BY <2>2 DEF Begin, Goto, FundsInv, BudgetTypeOK
    <3>2. QED
      BY <2>1, <3>1 DEF FundsInv, BudgetTypeOK, TodoInv
  <2>3. CASE BeginFails(r)
    <3>1. todo' = todo /\ pc' = [pc EXCEPT ![r] = "over"]
      BY <2>3 DEF BeginFails, Goto
    <3>2. QED
      BY <3>1 DEF FundsInv, BudgetTypeOK, TodoInv
  <2>4. QED
    BY <2>2, <2>3
<1>4. ReadInv'
  BY DEF FundsInv, BudgetTypeOK, ReadInv, Begin, BeginFails, Arrives, Goto
<1>5. QED
  BY <1>1, <1>2, <1>3, <1>4, QuietKeeps

LEMMA SelectIsQuiet ==
  ASSUME FundsInv, NEW r \in Requests, Select(r)
  PROVE  Quiet(r) /\ FundsInv'
<1>1. Quiet(r)
  BY DEF FundsInv, BudgetTypeOK, Select, Goto, Quiet, OthersStay, Early
<1>2. UserOf(r) \in Scopes /\ ScopesOf[r] # <<>>
  BY ScopesFacts
<1>3. account[UserOf(r)] \in Nat
  BY <1>2 DEF FundsInv, BudgetTypeOK
<1>4. todo[r] # <<>>
  BY <1>2 DEF FundsInv, TodoInv, Select
<1>5. BudgetTypeOK'
  BY <1>3, <1>4 DEF FundsInv, BudgetTypeOK, Select, Goto, Steps
<1>6. TodoInv'
  BY DEF FundsInv, BudgetTypeOK, TodoInv, Select, Goto
<1>7. ReadInv'
  BY <1>3 DEF FundsInv, BudgetTypeOK, ReadInv, Select, Goto
<1>8. QED
  BY <1>1, <1>5, <1>6, <1>7, QuietKeeps

LEMMA RestoreIsQuiet ==
  ASSUME FundsInv, NEW r \in Requests, Restore(r) \/ RestoreFails(r)
  PROVE  Quiet(r) /\ FundsInv'
<1>1. Quiet(r)
  BY DEF FundsInv, BudgetTypeOK, Restore, RestoreFails, SetCounter, FaultsLeft, Goto, Quiet, OthersStay, Early
<1>2. UserOf(r) \in Scopes /\ ScopesOf[r] # <<>>
  BY ScopesFacts
<1>3. pc[r] \in {"select", "set"}
  BY DEF Restore, RestoreFails
<1>4. todo[r] # <<>>
  BY <1>2, <1>3 DEF FundsInv, TodoInv
<1>5. /\ counter' \in [Scopes -> Nat \cup {Absent}] /\ races' \in Nat
      /\ faults' \in 0..MaxFaults /\ read' \in [Requests -> Nat]
      /\ pc' = [pc EXCEPT ![r] = "check"]
      /\ UNCHANGED <<todo, account, unrecorded, losses, spent>>
  <2>1. /\ pc' = [pc EXCEPT ![r] = "check"] /\ read' = [read EXCEPT ![r] = 0]
        /\ UNCHANGED <<todo, account, unrecorded, losses, spent>>
        /\ UNCHANGED <<counter, races>> \/ SetCounter(r, read[r])
        /\ UNCHANGED faults \/ FaultsLeft
    BY DEF Restore, RestoreFails, Goto
  <2>2. counter' \in [Scopes -> Nat \cup {Absent}] /\ races' \in Nat
    <3>1. /\ counter \in [Scopes -> Nat \cup {Absent}] /\ races \in Nat
          /\ read[r] \in Nat /\ UserOf(r) \in Scopes
      BY <1>2 DEF FundsInv, BudgetTypeOK
    <3>2. CASE UNCHANGED <<counter, races>>
      BY <3>1, <3>2
    <3>3. CASE SetCounter(r, read[r])
      <4>1. /\ counter' = [counter EXCEPT ![UserOf(r)] = read[r]]
            /\ races' = races \/ races' = races + 1
        BY <3>1, <3>3 DEF SetCounter
      <4>2. QED
        BY <3>1, <4>1
    <3>4. QED
      BY <2>1, <3>2, <3>3
  <2>3. faults' \in 0..MaxFaults /\ read' \in [Requests -> Nat]
    BY <2>1, BudgetAssumption DEF FundsInv, BudgetTypeOK, FaultsLeft
  <2>4. QED
    BY <2>1, <2>2, <2>3
<1>6. BudgetTypeOK'
  BY <1>4, <1>5 DEF FundsInv, BudgetTypeOK, Steps
<1>7. TodoInv'
  BY <1>5 DEF FundsInv, BudgetTypeOK, TodoInv
<1>8. ReadInv'
  BY <1>5 DEF FundsInv, BudgetTypeOK, ReadInv, Restore, RestoreFails
<1>9. QED
  BY <1>1, <1>6, <1>7, <1>8, QuietKeeps

LEMMA CheckIsQuiet ==
  ASSUME FundsInv, NEW r \in Requests, Check(r)
  PROVE  Quiet(r) /\ FundsInv'
<1>1. todo[r] \in Seq(Scopes) /\ todo[r] # <<>> /\ Apart(todo[r]) /\ Listed(todo[r]) \subseteq InScope(r)
      /\ pc[r] = "check"
  BY DEF FundsInv, BudgetTypeOK, TodoInv, Check
<1>2. /\ Tail(todo[r]) \in Seq(Scopes) /\ Apart(Tail(todo[r]))
      /\ Listed(Tail(todo[r])) \subseteq InScope(r)
  BY <1>1, TailListed
<1>3. Len(todo[r]) # 1 => Tail(todo[r]) # <<>>
  <2> DEFINE q == todo[r]
  <2>1. q \in Seq(Scopes) /\ q # <<>>
    BY <1>1
  <2> HIDE DEF q
  <2>2. Len(q) \in Nat \ {0} /\ DOMAIN Tail(q) = 1 .. Len(q) - 1
    BY <2>1
  <2>3. ASSUME Len(q) # 1 PROVE Tail(q) # <<>>
    <3>1. 1 \in DOMAIN Tail(q) /\ 1 \notin DOMAIN <<>>
      BY <2>2, <2>3
    <3>2. QED
      BY <3>1, Zenon
  <2>4. QED
    BY <2>3 DEF q
<1>4. \E next \in {"check", "serving", "over"}, rest \in Seq(Scopes) :
        /\ pc' = [pc EXCEPT ![r] = next] /\ todo' = [todo EXCEPT ![r] = rest]
        /\ Apart(rest) /\ Listed(rest) \subseteq InScope(r)
        /\ next = "check" => rest # <<>>
        /\ next = "serving" => rest = ScopesOf[r]
  <2>1. CASE Blocks(Head(todo[r]), Value(Head(todo[r])))
    <3>1. pc' = [pc EXCEPT ![r] = "over"] /\ todo' = [todo EXCEPT ![r] = <<>>]
      BY <2>1 DEF Check, Refuse, Goto
    <3>2. <<>> \in Seq(Scopes) /\ Apart(<<>>) /\ Listed(<<>>) = {}
      BY DEF Apart, Listed
    <3>3. QED
      BY <3>1, <3>2
  <2>2. CASE ~Blocks(Head(todo[r]), Value(Head(todo[r]))) /\ Len(todo[r]) = 1
    <3>1. pc' = [pc EXCEPT ![r] = "serving"] /\ todo' = [todo EXCEPT ![r] = ScopesOf[r]]
      BY <2>2 DEF Check, Admit, Goto
    <3>2. QED
      BY <3>1, ScopesFacts
  <2>3. CASE ~Blocks(Head(todo[r]), Value(Head(todo[r]))) /\ Len(todo[r]) # 1
    <3>1. UNCHANGED pc /\ todo' = [todo EXCEPT ![r] = Tail(todo[r])]
      BY <2>3 DEF Check
    <3>2. pc' = [pc EXCEPT ![r] = "check"]
      BY <1>1, <3>1 DEF FundsInv, BudgetTypeOK
    <3>3. QED
      BY <1>2, <1>3, <2>3, <3>1, <3>2
  <2>4. QED
    BY <2>1, <2>2, <2>3
<1>5. UNCHANGED <<read, counter, account, unrecorded, losses, faults, spent, races>>
  BY DEF Check
<1>6. Quiet(r)
  BY <1>1, <1>4, <1>5 DEF FundsInv, BudgetTypeOK, Quiet, OthersStay, Early
<1>7. BudgetTypeOK'
  BY <1>4, <1>5 DEF FundsInv, BudgetTypeOK, Steps
<1>8. TodoInv'
  BY <1>4, <1>5 DEF FundsInv, BudgetTypeOK, TodoInv
<1>9. ReadInv'
  BY <1>4, <1>5 DEF FundsInv, BudgetTypeOK, ReadInv
<1>10. QED
  BY <1>6, <1>7, <1>8, <1>9, QuietKeeps

LEMMA CheckInDbIsQuiet ==
  ASSUME FundsInv, NEW r \in Requests, CheckInDb(r)
  PROVE  Quiet(r) /\ FundsInv'
<1>1. pc[r] = "check" \/ Arrives(r)
  BY DEF CheckInDb
<1>2. \E next \in {"serving", "over"}, rest \in Seq(Scopes) :
        /\ pc' = [pc EXCEPT ![r] = next] /\ todo' = [todo EXCEPT ![r] = rest]
        /\ Apart(rest) /\ Listed(rest) \subseteq InScope(r)
        /\ next = "serving" => rest = ScopesOf[r]
  <2>1. CASE Refuse(r)
    <3>1. pc' = [pc EXCEPT ![r] = "over"] /\ todo' = [todo EXCEPT ![r] = <<>>]
      BY <2>1 DEF Refuse, Goto
    <3>2. <<>> \in Seq(Scopes) /\ Apart(<<>>) /\ Listed(<<>>) = {}
      BY DEF Apart, Listed
    <3>3. QED
      BY <3>1, <3>2
  <2>2. CASE Admit(r)
    <3>1. pc' = [pc EXCEPT ![r] = "serving"] /\ todo' = [todo EXCEPT ![r] = ScopesOf[r]]
      BY <2>2 DEF Admit, Goto
    <3>2. QED
      BY <3>1, ScopesFacts
  <2>3. QED
    BY <2>1, <2>2 DEF CheckInDb
<1>3. /\ UNCHANGED <<read, counter, account, unrecorded, losses, spent, races>>
      /\ faults' \in 0..MaxFaults
  BY BudgetAssumption DEF CheckInDb, FaultsLeft, FundsInv, BudgetTypeOK
<1>4. Quiet(r)
  BY <1>1, <1>2, <1>3 DEF FundsInv, BudgetTypeOK, Quiet, OthersStay, Early, Arrives
<1>5. BudgetTypeOK'
  BY <1>2, <1>3 DEF FundsInv, BudgetTypeOK, Steps
<1>6. TodoInv'
  BY <1>2, <1>3 DEF FundsInv, BudgetTypeOK, TodoInv
<1>7. ReadInv'
  BY <1>2, <1>3 DEF FundsInv, BudgetTypeOK, ReadInv
<1>8. QED
  BY <1>4, <1>5, <1>6, <1>7, QuietKeeps

-----------------------------------------------------------------------------
(* Service, deduction and booking.                                           *)

\* What a request costs a scope.
Share(r, s) == IF s \in InScope(r) THEN Cost[r] ELSE 0

\* The cost of a request becomes due.
Settles(r) ==
  /\ OthersStay(r) /\ pc[r] = "serving" /\ pc'[r] = "deduct" /\ todo' = todo
  /\ spent' = [s \in Scopes |-> spent[s] + Share(r, s)]
  /\ UNCHANGED <<counter, account, unrecorded, losses, faults, races>>

LEMMA SettlesMoves ==
  ASSUME FundsInv, NEW r \in Requests, Settles(r), NEW s \in Scopes
  PROVE  /\ CostOf(Owing(s)') = CostOf(Owing(s)) + Share(r, s)
         /\ CostOf(Exposing(s)') = CostOf(Exposing(s)) - Share(r, s)
         /\ s \notin Apps => CostOf(Unbooked(s)') = CostOf(Unbooked(s)) + Share(r, s)
         /\ spent'[s] = spent[s] + Share(r, s)
<1>1. Listed(todo[r]) = InScope(r) /\ r \notin unrecorded
  BY ScopesFacts DEF FundsInv, TodoInv, RecordInv, Settles
<1>2. r \notin Owing(s) /\ (r \in Owing(s)' <=> s \in InScope(r))
  BY <1>1 DEF Settles, Owing, Listed
<1>3. r \notin Exposing(s)' /\ (r \in Exposing(s) <=> s \in InScope(r))
  BY DEF Settles, Exposing
<1>4. s \notin Apps => r \notin Unbooked(s) /\ (r \in Unbooked(s)' <=> s \in InScope(r))
  BY <1>1 DEF Settles, Unbooked, Charged
<1>5. OthersStay(r) /\ spent'[s] = spent[s] + Share(r, s)
  BY DEF Settles
<1>6. /\ Owing(s) \in SUBSET Requests /\ Unbooked(s) \in SUBSET Requests
      /\ Exposing(s) \in SUBSET Requests /\ Cost[r] \in Nat
  BY ScopesFacts DEF Owing, Unbooked, Exposing
<1>7. CostOf(Owing(s)) \in Nat /\ CostOf(Unbooked(s)) \in Nat /\ CostOf(Exposing(s)) \in Nat
  BY <1>6, CostFacts
<1>8. QED
  BY <1>2, <1>3, <1>4, <1>5, <1>6, <1>7, SumsMove DEF Share

LEMMA FinishKeeps ==
  ASSUME FundsInv, NEW r \in Requests, Finish(r)
  PROVE  /\ FundsInv'
         /\ Settles(r) \/ (Quiet(r) /\ pc'[r] = "over" /\ UNCHANGED <<counter, losses, faults, races>>)
<1>1. CASE pc' = [pc EXCEPT ![r] = "deduct"] /\ UNCHANGED todo
           /\ spent' = [s \in Scopes |-> spent[s] + Share(r, s)]
  <2>1. Settles(r)
    BY <1>1 DEF Finish, Settles, OthersStay, FundsInv, BudgetTypeOK
  <2>2. todo[r] # <<>> /\ todo[r] = ScopesOf[r]
    BY ScopesFacts DEF FundsInv, TodoInv, Finish
  <2>3. \A s \in Scopes : Share(r, s) \in Nat
    BY ScopesFacts DEF Share
  <2>4. BudgetTypeOK'
    <3>1. spent' \in [Scopes -> Nat]
      BY <1>1, <2>3 DEF FundsInv, BudgetTypeOK
    <3>2. QED
      BY <1>1, <2>2, <3>1 DEF Finish, FundsInv, BudgetTypeOK, Steps
  <2>5. TodoInv' /\ ReadInv'
    BY <1>1 DEF FundsInv, BudgetTypeOK, TodoInv, ReadInv, Finish
  <2>6. RecordInv'
    BY <2>1 DEF FundsInv, RecordInv, Settles, OthersStay, BudgetTypeOK
  <2>7. BooksInv'
    <3> SUFFICES ASSUME NEW s \in Scopes \ Apps
                 PROVE  account'[s] + CostOf(Unbooked(s)') = spent'[s]
      BY DEF BooksInv
    <3>1. account[s] + CostOf(Unbooked(s)) = spent[s] /\ account'[s] = account[s]
      BY <2>1 DEF FundsInv, BooksInv, Settles
    <3>2. CostOf(Unbooked(s)) \in Nat /\ account[s] \in Nat /\ Share(r, s) \in Nat
      BY CostFacts, <2>3 DEF Unbooked, FundsInv, BudgetTypeOK
    <3>3. QED
      BY <2>1, <3>1, <3>2, SettlesMoves
  <2>8. OwedInv'
    <3> SUFFICES ASSUME NEW s \in Scopes PROVE CostOf(Owing(s)') <= spent'[s]
      BY DEF OwedInv
    <3>1. CostOf(Owing(s)) <= spent[s]
      BY DEF FundsInv, OwedInv
    <3>2. CostOf(Owing(s)) \in Nat /\ spent[s] \in Nat /\ Share(r, s) \in Nat
      BY CostFacts, <2>3 DEF Owing, FundsInv, BudgetTypeOK
    <3>3. QED
      BY <2>1, <3>1, <3>2, SettlesMoves
  <2>9. Cardinality(Active') <= Width
    BY <2>1, ActiveStaysFew DEF Settles, FundsInv
  <2>10. QED
    BY <2>1, <2>4, <2>5, <2>6, <2>7, <2>8, <2>9 DEF FundsInv
<1>2. CASE pc' = [pc EXCEPT ![r] = "over"] /\ todo' = [todo EXCEPT ![r] = <<>>] /\ UNCHANGED spent
  <2>1. Quiet(r)
    BY <1>2 DEF Finish, Quiet, OthersStay, Early, FundsInv, BudgetTypeOK
  <2>2. BudgetTypeOK'
    BY <1>2 DEF Finish, FundsInv, BudgetTypeOK, Steps
  <2>3. <<>> \in Seq(Scopes) /\ Apart(<<>>) /\ Listed(<<>>) = {}
    BY DEF Apart, Listed
  <2>4. TodoInv' /\ ReadInv'
    BY <1>2, <2>3 DEF FundsInv, BudgetTypeOK, TodoInv, ReadInv, Finish
  <2>5. pc'[r] = "over" /\ UNCHANGED <<counter, losses, faults, races>>
    BY <1>2 DEF Finish, FundsInv, BudgetTypeOK
  <2>6. QED
    BY <2>1, <2>2, <2>4, <2>5, QuietKeeps
<1>3. QED
  BY <1>1, <1>2 DEF Finish, Goto, Share

\* One deduction of a request, done or failed.
Pays(r) ==
  /\ OthersStay(r) /\ pc[r] = "deduct" /\ pc'[r] \in {"deduct", "publish"}
  /\ todo[r] \in Seq(Scopes) /\ todo[r] # <<>> /\ Apart(todo[r])
  /\ pc'[r] = "publish" => Listed(todo'[r]) = {}
  /\ Listed(todo'[r]) \subseteq Listed(todo[r]) \ {Head(todo[r])}
  /\ UNCHANGED <<account, unrecorded, losses, spent, races>>

LEMMA PaysMoves ==
  ASSUME FundsInv, NEW r \in Requests, Pays(r), NEW s \in Scopes
  PROVE  /\ Unbooked(s)' = Unbooked(s) /\ Exposing(s)' = Exposing(s)
         /\ CostOf(Owing(s)') <= CostOf(Owing(s)) /\ CostOf(Owing(s)) <= CostOf(Owing(s)') + Cost[r]
         /\ s = Head(todo[r]) => CostOf(Owing(s)) = CostOf(Owing(s)') + Cost[r]
         /\ (s \in Listed(todo'[r]) <=> s \in Listed(todo[r])) => Owing(s)' = Owing(s)
<1>1. Unbooked(s)' = Unbooked(s) /\ Exposing(s)' = Exposing(s)
  BY DEF Pays, OthersStay, Unbooked, Exposing
<1>2. /\ r \in Owing(s)' => s \in Listed(todo'[r])
      /\ r \in Owing(s) <=> s \in Listed(todo[r])
      /\ s \in Listed(todo'[r]) => r \in Owing(s)'
  BY DEF Pays, Owing, Listed
<1>3. Head(todo[r]) \in Listed(todo[r])
  BY TailListed DEF Pays
<1>4. Owing(s) \in SUBSET Requests /\ Owing(s)' \in SUBSET Requests
      /\ Owing(s) \ {r} = Owing(s)' \ {r}
  BY DEF Pays, OthersStay, Owing
<1>5. CostOf(Owing(s)) \in Nat /\ CostOf(Owing(s)') \in Nat /\ Cost[r] \in Nat
  BY <1>4, CostFacts, ScopesFacts
<1>6. CostOf(Owing(s)') = CostOf(Owing(s))
        + (IF r \in Owing(s)' THEN Cost[r] ELSE 0) - (IF r \in Owing(s) THEN Cost[r] ELSE 0)
  BY <1>4, OneMoves
<1>7. r \in Owing(s)' => r \in Owing(s) /\ s # Head(todo[r])
  BY <1>2 DEF Pays
<1>8. QED
  BY <1>1, <1>2, <1>3, <1>4, <1>5, <1>6, <1>7

LEMMA PaysKeeps ==
  ASSUME FundsInv, NEW r \in Requests, Pays(r), BudgetTypeOK', TodoInv', ReadInv'
  PROVE  FundsInv'
<1>1. RecordInv'
  BY DEF FundsInv, RecordInv, Pays, OthersStay, BudgetTypeOK
<1>2. BooksInv'
  BY PaysMoves DEF FundsInv, BooksInv, Pays
<1>3. OwedInv'
  <2> SUFFICES ASSUME NEW s \in Scopes PROVE CostOf(Owing(s)') <= spent[s]
    BY DEF OwedInv, Pays
  <2>1. Owing(s) \in SUBSET Requests /\ Owing(s)' \in SUBSET Requests
    BY DEF Owing
  <2>2. CostOf(Owing(s)) \in Nat /\ CostOf(Owing(s)') \in Nat /\ spent[s] \in Nat
    BY <2>1, CostFacts DEF FundsInv, BudgetTypeOK
  <2>3. CostOf(Owing(s)) <= spent[s] /\ CostOf(Owing(s)') <= CostOf(Owing(s))
    BY PaysMoves DEF FundsInv, OwedInv
  <2>4. QED
    BY <2>2, <2>3
<1>4. Cardinality(Active') <= Width
  BY ActiveStaysFew DEF FundsInv, Pays
<1>5. QED
  BY <1>1, <1>2, <1>3, <1>4 DEF FundsInv

\* What it does to the counter: a charge, or up to as many as there are tries.
Deducts(r) ==
  /\ Pays(r) /\ Head(todo[r]) \in Scopes
  /\ \/ /\ Charge(Head(todo[r]), Cost[r]) /\ faults' = faults
        /\ Listed(todo'[r]) = Listed(todo[r]) \ {Head(todo[r])}
     \/ /\ faults' = faults + 1
        /\ \/ counter' = counter
           \/ \E times \in 1 .. 1 + Retries : Charge(Head(todo[r]), times * Cost[r])

LEMMA DeductKeeps ==
  ASSUME FundsInv, NEW r \in Requests, Deduct(r) \/ DeductFails(r)
  PROVE  FundsInv' /\ Deducts(r)
<1> DEFINE q == todo[r]
<1>1. q \in Seq(Scopes) /\ q # <<>> /\ Apart(q) /\ Listed(q) \subseteq InScope(r) /\ pc[r] = "deduct"
  BY DEF FundsInv, BudgetTypeOK, TodoInv, Deduct, DeductFails
<1> HIDE DEF q
<1>2. /\ Tail(q) \in Seq(Scopes) /\ Apart(Tail(q)) /\ Listed(Tail(q)) = Listed(q) \ {Head(q)}
      /\ Head(q) \in Scopes
  BY <1>1, TailListed
<1>3. /\ WithoutApp(Tail(q)) \in Seq(Scopes) /\ Apart(WithoutApp(Tail(q)))
      /\ Listed(WithoutApp(Tail(q))) \subseteq Listed(Tail(q))
  BY <1>2, WithoutAppListed
<1>4. \E rest \in {Tail(q), WithoutApp(Tail(q))} :
        GoOnWith(r, rest) /\ (rest = Tail(q) \/ DeductFails(r))
  BY DEF Deduct, DeductFails, q
<1>5. PICK rest \in {Tail(q), WithoutApp(Tail(q))} :
        GoOnWith(r, rest) /\ (rest = Tail(q) \/ DeductFails(r))
  BY <1>4
<1>6. /\ rest \in Seq(Scopes) /\ Apart(rest) /\ Listed(rest) \subseteq Listed(q) \ {Head(q)}
      /\ rest = <<>> => Listed(rest) = {}
  <2>1. Listed(<<>>) = {}
    BY DEF Listed
  <2>2. rest = <<>> => Listed(rest) = {}
    BY <2>1, Zenon
  <2>3. QED
    BY <1>2, <1>3, <2>2
<1>7. /\ todo' = [todo EXCEPT ![r] = rest] /\ todo'[r] = rest
      /\ pc' = [pc EXCEPT ![r] = IF rest = <<>> THEN "publish" ELSE "deduct"]
  BY <1>5 DEF GoOnWith, Goto, FundsInv, BudgetTypeOK
<1>8. UNCHANGED <<read, account, unrecorded, losses, spent, races>>
  BY DEF Deduct, DeductFails
<1>9. Pays(r)
  BY <1>1, <1>6, <1>7, <1>8 DEF Pays, OthersStay, FundsInv, BudgetTypeOK, q
<1>10. Cost[r] \in Nat /\ Retries \in Nat /\ MaxFaults \in Nat
  BY ScopesFacts, BudgetAssumption
<1>11. faults \in Nat /\ faults' \in 0 .. MaxFaults /\ faults' \in {faults, faults + 1}
  <2>1. faults \in 0 .. MaxFaults
    BY DEF FundsInv, BudgetTypeOK
  <2>2. faults' = faults \/ (faults < MaxFaults /\ faults' = faults + 1)
    BY DEF Deduct, DeductFails, FaultsLeft
  <2>3. QED
    BY <1>10, <2>1, <2>2
<1>12. counter' = counter \/ \E times \in 1 .. 1 + Retries : Charge(Head(q), times * Cost[r])
  <2>1. CASE Deduct(r)
    <3>0. 1 * Cost[r] = Cost[r] /\ Charge(Head(q), Cost[r])
      BY <1>10, <2>1 DEF Deduct, q
    <3>1. Charge(Head(q), 1 * Cost[r])
      BY <3>0, Zenon
    <3>2. 1 \in 1 .. 1 + Retries
      BY <1>10
    <3>3. QED
      BY <3>1, <3>2
  <2>2. CASE DeductFails(r)
    BY <2>2 DEF DeductFails, q
  <2>3. QED
    BY <2>1, <2>2
<1>13. counter' \in [Scopes -> Nat \cup {Absent}]
  <2>1. counter \in [Scopes -> Nat \cup {Absent}]
    BY DEF FundsInv, BudgetTypeOK
  <2>2. Value(Head(q)) \in Nat
    BY <1>2, <2>1 DEF Value
  <2>3. ASSUME NEW times \in 1 .. 1 + Retries, Charge(Head(q), times * Cost[r])
        PROVE  counter' \in [Scopes -> Nat \cup {Absent}]
    <3> DEFINE now == Value(Head(q)) + times * Cost[r]
    <3>1. times * Cost[r] \in Nat
      BY <1>10
    <3>2. now \in Nat /\ counter' = [counter EXCEPT ![Head(q)] = now]
      BY <2>2, <2>3, <3>1 DEF Charge
    <3> HIDE DEF now
    <3>3. QED
      BY <2>1, <3>2
  <2>4. QED
    BY <1>12, <2>1, <2>3
<1>14. BudgetTypeOK'
  BY <1>6, <1>7, <1>8, <1>11, <1>13 DEF FundsInv, BudgetTypeOK, Steps
<1>15. TodoInv' /\ ReadInv'
  BY <1>1, <1>6, <1>7, <1>8 DEF FundsInv, BudgetTypeOK, TodoInv, ReadInv
<1>16. FundsInv'
  BY <1>9, <1>14, <1>15, PaysKeeps
<1>17. \/ Charge(Head(q), Cost[r]) /\ faults' = faults /\ Listed(todo'[r]) = Listed(q) \ {Head(q)}
       \/ faults' = faults + 1
  <2>1. CASE Deduct(r)
    BY <1>2, <1>5, <1>7, <2>1 DEF Deduct, GoOnWith, q, FundsInv, BudgetTypeOK
  <2>2. CASE DeductFails(r)
    BY <2>2 DEF DeductFails, FaultsLeft
  <2>3. QED
    BY <2>1, <2>2
<1>18. QED
  BY <1>2, <1>9, <1>12, <1>16, <1>17 DEF Deducts, q

LEMMA PublishKeeps ==
  ASSUME FundsInv, NEW r \in Requests, Publish(r)
  PROVE  FundsInv' /\ \A s : Owing(s)' = Owing(s) /\ Exposing(s)' = Exposing(s)
<1>1. /\ OthersStay(r) /\ pc[r] = "publish" /\ pc' = [pc EXCEPT ![r] = "over"] /\ pc'[r] = "over"
      /\ unrecorded' = unrecorded \cup {r}
      /\ UNCHANGED <<todo, read, counter, account, losses, faults, spent, races>>
  BY DEF Publish, Goto, OthersStay, FundsInv, BudgetTypeOK
<1>2. \A s : Owing(s)' = Owing(s) /\ Exposing(s)' = Exposing(s) /\ Unbooked(s)' = Unbooked(s)
  BY <1>1 DEF OthersStay, Owing, Exposing, Unbooked
<1>3. BudgetTypeOK' /\ TodoInv' /\ RecordInv' /\ ReadInv'
  BY <1>1 DEF FundsInv, BudgetTypeOK, TodoInv, RecordInv, ReadInv, Steps
<1>4. BooksInv' /\ OwedInv'
  BY <1>1, <1>2 DEF FundsInv, BooksInv, OwedInv
<1>5. Cardinality(Active') <= Width
  BY <1>1, ActiveStaysFew DEF FundsInv
<1>6. QED
  BY <1>2, <1>3, <1>4, <1>5 DEF FundsInv

LEMMA RecordKeeps ==
  ASSUME FundsInv, NEW r \in Requests, Record(r)
  PROVE  FundsInv' /\ \A s : Owing(s)' = Owing(s) /\ Exposing(s)' = Exposing(s)
<1> DEFINE booked(s) == IF s \in Charged(r) THEN Cost[r] ELSE 0
<1>1. /\ r \in unrecorded /\ pc[r] = "over" /\ unrecorded' = unrecorded \ {r}
      /\ account' = [s \in Scopes |-> account[s] + booked(s)]
      /\ UNCHANGED <<pc, todo, read, counter, losses, faults, spent, races>>
  BY DEF Record, FundsInv, RecordInv
<1>2. \A s : booked(s) \in Nat
  BY ScopesFacts
<1>3. \A s : r \in Unbooked(s) <=> s \in Charged(r)
  BY <1>1 DEF Unbooked
<1>4. \A s : booked(s) = IF r \in Unbooked(s) THEN Cost[r] ELSE 0
  BY <1>3
<1> HIDE DEF booked
<1>5. OthersStay(r)
  BY <1>1 DEF OthersStay
<1>6. \A s : Owing(s)' = Owing(s) /\ Exposing(s)' = Exposing(s)
  BY <1>1 DEF Owing, Exposing
<1>7. BudgetTypeOK'
  <2>1. account' \in [Scopes -> Nat]
    BY <1>1, <1>2 DEF FundsInv, BudgetTypeOK
  <2>2. QED
    BY <1>1, <2>1 DEF FundsInv, BudgetTypeOK
<1>8. TodoInv' /\ RecordInv'
  BY <1>1 DEF FundsInv, TodoInv, RecordInv
<1>9. ReadInv'
  <2> SUFFICES ASSUME NEW q \in Requests, pc[q] = "set"
               PROVE  0 < read[q] /\ read[q] <= account'[UserOf(q)]
    BY <1>1 DEF ReadInv
  <2>1. UserOf(q) \in Scopes /\ account[UserOf(q)] \in Nat /\ read[q] \in Nat
    BY ScopesFacts DEF FundsInv, BudgetTypeOK
  <2>2. account'[UserOf(q)] = account[UserOf(q)] + booked(UserOf(q))
    BY <1>1, <2>1
  <2>3. 0 < read[q] /\ read[q] <= account[UserOf(q)]
    BY DEF FundsInv, ReadInv
  <2>4. booked(UserOf(q)) \in Nat
    BY <1>2
  <2>5. QED
    BY <2>1, <2>2, <2>3, <2>4
<1>10. BooksInv'
  <2> SUFFICES ASSUME NEW s \in Scopes \ Apps
               PROVE  account'[s] + CostOf(Unbooked(s)') = spent[s]
    BY <1>1 DEF BooksInv
  <2>1. r \notin Unbooked(s)'
    BY <1>1 DEF Unbooked
  <2>2. CostOf(Unbooked(s)') = CostOf(Unbooked(s)) - (IF r \in Unbooked(s) THEN Cost[r] ELSE 0)
    <3>1. CostOf(Unbooked(s)) \in Nat /\ Cost[r] \in Nat
      BY CostFacts, ScopesFacts DEF Unbooked
    <3>2. CostOf(Unbooked(s)') = CostOf(Unbooked(s)) + 0 - (IF r \in Unbooked(s) THEN Cost[r] ELSE 0)
      BY <1>5, <2>1, SumsMove
    <3>3. QED
      BY <3>1, <3>2
  <2>3. account'[s] = account[s] + booked(s) /\ account[s] \in Nat /\ booked(s) \in Nat
    BY <1>1, <1>2 DEF FundsInv, BudgetTypeOK
  <2>4. account[s] + CostOf(Unbooked(s)) = spent[s] /\ CostOf(Unbooked(s)) \in Nat
    BY CostFacts DEF FundsInv, BooksInv, Unbooked
  <2>5. CostOf(Unbooked(s)') = CostOf(Unbooked(s)) - booked(s)
    BY <1>4, <2>2
  <2>6. QED
    BY <2>3, <2>4, <2>5
<1>11. OwedInv'
  BY <1>1, <1>6 DEF FundsInv, OwedInv
<1>12. Cardinality(Active') <= Width
  BY <1>1 DEF FundsInv, Active
<1>13. QED
  BY <1>6, <1>7, <1>8, <1>9, <1>10, <1>11, <1>12 DEF FundsInv

LEMMA LoseKeeps ==
  ASSUME FundsInv, NEW s \in Scopes, Lose(s)
  PROVE  FundsInv' /\ \A t : Owing(t)' = Owing(t) /\ Exposing(t)' = Exposing(t)
<1>1. /\ losses' = losses + 1 /\ losses < MaxLosses /\ counter' = [counter EXCEPT ![s] = Absent]
      /\ UNCHANGED <<pc, todo, read, account, unrecorded, faults, spent, races>>
  BY DEF Lose
<1>2. \A t : Owing(t)' = Owing(t) /\ Exposing(t)' = Exposing(t) /\ Unbooked(t)' = Unbooked(t)
  BY <1>1 DEF Owing, Exposing, Unbooked
<1>3. BudgetTypeOK'
  <2>1. losses' \in 0..MaxLosses
    BY <1>1, BudgetAssumption DEF FundsInv, BudgetTypeOK
  <2>2. counter' \in [Scopes -> Nat \cup {Absent}]
    BY <1>1 DEF FundsInv, BudgetTypeOK
  <2>3. QED
    BY <1>1, <2>1, <2>2 DEF FundsInv, BudgetTypeOK
<1>4. TodoInv' /\ RecordInv' /\ ReadInv' /\ Active' = Active
  BY <1>1 DEF FundsInv, TodoInv, RecordInv, ReadInv, Active
<1>5. BooksInv' /\ OwedInv'
  BY <1>1, <1>2 DEF FundsInv, BooksInv, OwedInv
<1>6. QED
  BY <1>2, <1>3, <1>4, <1>5 DEF FundsInv

-----------------------------------------------------------------------------
(* The kinds of step: one that touches neither counter nor dues, a restore   *)
(* that writes, a request finished, a deduction, a loss.                     *)

Rests ==
  /\ UNCHANGED <<counter, spent, losses, races>> /\ faults' \in {faults, faults + 1}
  /\ \A s : Owing(s)' = Owing(s)

Writes(r) ==
  /\ pc[r] = "set" /\ SetCounter(r, read[r])
  /\ UNCHANGED <<spent, losses>> /\ faults' \in {faults, faults + 1}
  /\ \A s : Owing(s)' = Owing(s)

LEMMA StepKinds ==
  ASSUME FundsInv, BudgetNext \/ UNCHANGED vars
  PROVE  /\ FundsInv'
         /\ \/ Rests
            \/ \E r \in Requests : Writes(r) \/ Settles(r) \/ Deducts(r)
            \/ \E s \in Scopes : Lose(s)
<1>1. CASE UNCHANGED vars
  <2>1. FundsInv'
    BY <1>1 DEF vars, FundsInv, BudgetTypeOK, TodoInv, RecordInv, ReadInv, BooksInv, OwedInv,
                Unbooked, Owing, Active
  <2>2. Rests
    BY <1>1 DEF vars, Rests, Owing
  <2>3. QED
    BY <2>1, <2>2
<1>2. ASSUME NEW r \in Requests, Begin(r) \/ BeginFails(r) \/ Select(r) \/ Check(r) \/ CheckInDb(r)
      PROVE  FundsInv' /\ Rests
  <2>1. FundsInv' /\ Quiet(r)
    BY <1>2, BeginIsQuiet, SelectIsQuiet, CheckIsQuiet, CheckInDbIsQuiet
  <2>2. \A s : Owing(s)' = Owing(s)
    BY <2>1, QuietSums
  <2>3. UNCHANGED <<counter, spent, losses, races>> /\ faults' \in {faults, faults + 1}
    BY <1>2 DEF Begin, BeginFails, Select, Check, CheckInDb, FaultsLeft
  <2>4. QED
    BY <2>1, <2>2, <2>3 DEF Rests
<1>3. ASSUME NEW r \in Requests, Restore(r) \/ RestoreFails(r)
      PROVE  FundsInv' /\ (Rests \/ Writes(r))
  <2>1. FundsInv' /\ Quiet(r)
    BY <1>3, RestoreIsQuiet
  <2>2. \A s : Owing(s)' = Owing(s)
    BY <2>1, QuietSums
  <2>3. /\ UNCHANGED <<spent, losses>> /\ faults' \in {faults, faults + 1}
        /\ UNCHANGED <<counter, races>> \/ (pc[r] = "set" /\ SetCounter(r, read[r]))
    BY <1>3 DEF Restore, RestoreFails, FaultsLeft
  <2>4. QED
    BY <2>1, <2>2, <2>3 DEF Rests, Writes
<1>4. ASSUME NEW r \in Requests, Finish(r)
      PROVE  FundsInv' /\ (Rests \/ Settles(r))
  <2>1. CASE Quiet(r) /\ UNCHANGED <<counter, losses, faults, races>>
    <3>1. \A s : Owing(s)' = Owing(s)
      BY <2>1, QuietSums
    <3>2. QED
      BY <1>4, <2>1, <3>1, FinishKeeps DEF Rests, Quiet
  <2>2. QED
    BY <1>4, <2>1, FinishKeeps
<1>5. ASSUME NEW r \in Requests, Publish(r) \/ Record(r)
      PROVE  FundsInv' /\ Rests
  <2>1. UNCHANGED <<counter, spent, losses, races, faults>>
    BY <1>5 DEF Publish, Record
  <2>2. QED
    BY <1>5, <2>1, PublishKeeps, RecordKeeps DEF Rests
<1>6. QED
  BY <1>1, <1>2, <1>3, <1>4, <1>5, DeductKeeps, LoseKeeps DEF BudgetNext, Step

LEMMA FundsAlways == BudgetSpec => []FundsInv
<1>1. FundsInv /\ [BudgetNext]_vars => FundsInv'
  BY StepKinds
<1>2. QED
  BY <1>1, FundsInit, PTL DEF BudgetSpec

\* The counters, accounts and limits of the gate keep their types; a request
\* with scopes still to check or to charge has at least one.
THEOREM BudgetWellTyped == BudgetSpec => []BudgetTypeOK
<1>1. FundsInv => BudgetTypeOK
  BY DEF FundsInv
<1>2. QED
  BY <1>1, FundsAlways, PTL

-----------------------------------------------------------------------------
(* A counter is never ahead of true cost by more than failed deductions      *)
(* have repeated.                                                            *)

Excess == Retries * MaxCost
Ahead == \A s \in Scopes : Value(s) + CostOf(Owing(s)) <= spent[s] + faults * Excess

LEMMA OwingIsUnbooked ==
  ASSUME FundsInv, NEW s \in Scopes \ Apps
  PROVE  CostOf(Owing(s)) <= CostOf(Unbooked(s))
<1>1. Owing(s) \subseteq Unbooked(s)
  BY DEF FundsInv, TodoInv, Owing, Unbooked, Charged, Listed
<1>2. IsFiniteSet(Unbooked(s)) /\ Unbooked(s) \subseteq Requests
  BY CostFacts DEF Unbooked
<1>3. QED
  BY <1>1, <1>2, SumOfFewer, BudgetAssumption DEF CostOf

\* What a restore writes does not exceed what is spent and no longer owed.
LEMMA RestoredIsSettled ==
  ASSUME FundsInv, NEW r \in Requests, pc[r] = "set"
  PROVE  /\ UserOf(r) \in Scopes /\ read[r] \in Nat \ {0}
         /\ read[r] + CostOf(Owing(UserOf(r))) <= spent[UserOf(r)]
<1>1. UserOf(r) \in Scopes \ Apps
  BY ScopesFacts
<1>2. 0 < read[r] /\ read[r] <= account[UserOf(r)] /\ read[r] \in Nat
  BY DEF FundsInv, ReadInv, BudgetTypeOK
<1>3. account[UserOf(r)] + CostOf(Unbooked(UserOf(r))) = spent[UserOf(r)]
  BY <1>1 DEF FundsInv, BooksInv
<1>4. CostOf(Owing(UserOf(r))) <= CostOf(Unbooked(UserOf(r)))
  BY <1>1, OwingIsUnbooked
<1>5. CostOf(Owing(UserOf(r))) \in Nat /\ CostOf(Unbooked(UserOf(r))) \in Nat
      /\ account[UserOf(r)] \in Nat /\ spent[UserOf(r)] \in Nat
  BY <1>1, CostFacts DEF Owing, Unbooked, FundsInv, BudgetTypeOK
<1>6. QED
  BY <1>1, <1>2, <1>3, <1>4, <1>5

LEMMA ScopeFacts ==
  ASSUME FundsInv, NEW s \in Scopes
  PROVE  /\ Value(s) \in Nat /\ spent[s] \in Nat /\ CostOf(Owing(s)) \in Nat
         /\ CostOf(Exposing(s)) \in Nat /\ losses \in Nat /\ faults \in Nat /\ races \in Nat
         /\ CostOf(Owing(s)) <= spent[s]
<1>1. Owing(s) \in SUBSET Requests /\ Exposing(s) \in SUBSET Requests
  BY DEF Owing, Exposing
<1>2. QED
  BY <1>1, CostFacts, BudgetAssumption DEF FundsInv, BudgetTypeOK, OwedInv, Value

\* The value of a counter after a charge, and of the others.
LEMMA ChargeMoves ==
  ASSUME FundsInv, NEW s \in Scopes, NEW t \in Scopes, NEW c \in Nat, Charge(t, c)
  PROVE  Value(s)' = IF s = t THEN Value(s) + c ELSE Value(s)
<1>1. Value(t) \in Nat /\ counter \in [Scopes -> Nat \cup {Absent}]
  BY ScopeFacts DEF FundsInv, BudgetTypeOK
<1> DEFINE now == Value(t) + c
<1>2. now \in Nat /\ counter' = [counter EXCEPT ![t] = now]
  BY <1>1 DEF Charge
<1>3. CASE s = t
  <2>1. counter'[s] = now /\ now # Absent
    BY <1>1, <1>2, <1>3 DEF Absent
  <2>2. QED
    BY <1>3, <2>1 DEF Value
<1>4. CASE s # t
  <2>1. counter'[s] = counter[s]
    BY <1>1, <1>2, <1>4
  <2>2. QED
    BY <1>4, <2>1 DEF Value
<1>5. QED
  BY <1>3, <1>4

\* What a deduction does to a scope: exactly its cost moves, or, when a call
\* failed, the counter has taken at most Excess too much.
LEMMA DeductMoves ==
  ASSUME FundsInv, NEW r \in Requests, Deducts(r), NEW s \in Scopes
  PROVE  /\ spent' = spent /\ losses' = losses /\ races' = races
         /\ \/ /\ faults' = faults
               /\ Value(s)' + CostOf(Owing(s)') = Value(s) + CostOf(Owing(s))
            \/ /\ faults' = faults + 1
               /\ Value(s)' + CostOf(Owing(s)') <= Value(s) + CostOf(Owing(s)) + Excess
               /\ Value(s)' + CostOf(Owing(s)') + MaxCost >= Value(s) + CostOf(Owing(s))
<1> DEFINE C == Cost[r]
           t == Head(todo[r])
           o == CostOf(Owing(s))
           n == CostOf(Owing(s)')
<1>1. C \in Nat /\ t \in Scopes /\ Retries \in Nat /\ MaxCost \in Nat /\ C <= MaxCost
  BY ScopesFacts, MaxCostFacts, BudgetAssumption DEF Deducts
<1>2. Owing(s)' \in SUBSET Requests
  BY DEF Owing
<1>3. o \in Nat /\ n \in Nat /\ Value(s) \in Nat
  BY <1>2, ScopeFacts, CostFacts
<1>4. n <= o /\ o <= n + C /\ (s = t => o = n + C)
  BY PaysMoves DEF Deducts
<1>5. spent' = spent /\ losses' = losses /\ races' = races
  BY DEF Deducts, Pays
<1>6. CASE /\ Charge(t, C) /\ faults' = faults
           /\ Listed(todo'[r]) = Listed(todo[r]) \ {t}
  <2>1. Value(s)' = IF s = t THEN Value(s) + C ELSE Value(s)
    BY <1>1, <1>6, ChargeMoves
  <2>2. s # t => n = o
    <3>1. s # t => Owing(s)' = Owing(s)
      BY <1>6, PaysMoves DEF Deducts
    <3>2. QED
      BY <3>1
  <2>3. QED
    BY <1>1, <1>3, <1>4, <1>5, <1>6, <2>1, <2>2
<1>7. CASE faults' = faults + 1 /\ counter' = counter
  <2>1. Value(s)' = Value(s)
    BY <1>7 DEF Value
  <2>2. Excess \in Nat
    BY <1>1 DEF Excess
  <2>3. QED
    BY <1>1, <1>3, <1>4, <1>5, <1>7, <2>1, <2>2
<1>8. ASSUME faults' = faults + 1, NEW times \in 1 .. 1 + Retries, Charge(t, times * C)
      PROVE  /\ Value(s)' + n <= Value(s) + o + Excess
             /\ Value(s)' + n + MaxCost >= Value(s) + o
  <2>1. times \in Nat /\ times * C \in Nat
    BY <1>1
  <2>2. Value(s)' = IF s = t THEN Value(s) + times * C ELSE Value(s)
    BY <1>1, <1>8, <2>1, ChargeMoves
  <2>3. times * C <= C + Excess /\ Excess \in Nat
    <3>1. times - 1 \in 0 .. Retries /\ times * C = (times - 1) * C + C
      BY <1>1
    <3>2. (times - 1) * C <= Retries * C
      BY <1>1, <3>1
    <3>3. Retries * C <= Retries * MaxCost
      BY <1>1
    <3>4. (times - 1) * C \in Nat /\ Retries * C \in Nat /\ Retries * MaxCost \in Nat
      BY <1>1, <3>1
    <3>5. QED
      BY <1>1, <3>1, <3>2, <3>3, <3>4 DEF Excess
  <2> DEFINE charged == times * C
  <2>4. charged \in Nat /\ charged <= C + Excess
        /\ Value(s)' = IF s = t THEN Value(s) + charged ELSE Value(s)
    BY <2>1, <2>2, <2>3
  <2> HIDE DEF charged
  <2>5. QED
    BY <1>1, <1>3, <1>4, <2>3, <2>4
<1>9. QED
  BY <1>5, <1>6, <1>7, <1>8 DEF Deducts

LEMMA WriteMoves ==
  ASSUME FundsInv, NEW r \in Requests, Writes(r), NEW s \in Scopes
  PROVE  /\ spent' = spent /\ Owing(s)' = Owing(s)
         /\ \/ Value(s)' = Value(s) /\ s # UserOf(r)
            \/ Value(s)' = read[r] /\ s = UserOf(r)
<1>1. UserOf(r) \in Scopes /\ read[r] \in Nat /\ counter \in [Scopes -> Nat \cup {Absent}]
  BY ScopesFacts DEF FundsInv, BudgetTypeOK
<1>2. counter' = [counter EXCEPT ![UserOf(r)] = read[r]]
  BY DEF Writes, SetCounter
<1>3. CASE s = UserOf(r)
  <2>1. counter'[s] = read[r] /\ read[r] # Absent
    BY <1>1, <1>2, <1>3 DEF Absent
  <2>2. QED
    BY <1>3, <2>1 DEF Value, Writes
<1>4. CASE s # UserOf(r)
  <2>1. counter'[s] = counter[s]
    BY <1>1, <1>2, <1>4
  <2>2. QED
    BY <1>4, <2>1 DEF Value, Writes
<1>5. QED
  BY <1>3, <1>4

LEMMA LossMoves ==
  ASSUME FundsInv, NEW t \in Scopes, Lose(t), NEW s \in Scopes
  PROVE  /\ spent' = spent /\ faults' = faults /\ races' = races /\ losses' = losses + 1
         /\ Owing(s)' = Owing(s) /\ Value(s)' \in {0, Value(s)}
<1>1. UNCHANGED <<pc, todo, spent, faults, races>> /\ losses' = losses + 1
  BY DEF Lose
<1>2. counter \in [Scopes -> Nat \cup {Absent}] /\ counter' = [counter EXCEPT ![t] = Absent]
  BY DEF Lose, FundsInv, BudgetTypeOK
<1>3. counter'[s] \in {Absent, counter[s]}
  BY <1>2
<1>4. Owing(s)' = Owing(s)
  BY <1>1 DEF Owing
<1>5. QED
  BY <1>1, <1>3, <1>4 DEF Value

LEMMA AheadStep ==
  ASSUME FundsInv, Ahead, BudgetNext \/ UNCHANGED vars
  PROVE  Ahead'
<1> SUFFICES ASSUME NEW s \in Scopes
             PROVE  Value(s)' + CostOf(Owing(s)') <= spent'[s] + faults' * Excess
  BY DEF Ahead
<1> DEFINE o == CostOf(Owing(s))
<1>1. Excess \in Nat
  BY MaxCostFacts, BudgetAssumption DEF Excess
<1>2. Value(s) \in Nat /\ spent[s] \in Nat /\ o \in Nat /\ faults \in Nat /\ o <= spent[s]
  BY ScopeFacts
<1>3. /\ faults * Excess \in Nat /\ (faults + 1) * Excess = faults * Excess + Excess
      /\ Value(s) + o <= spent[s] + faults * Excess
  BY <1>1, <1>2 DEF Ahead
<1>4. \A f : f \in {faults, faults + 1} => f * Excess \in Nat /\ faults * Excess <= f * Excess
  BY <1>1, <1>3
<1>5. CASE Rests
  <2>1. Value(s)' = Value(s) /\ spent'[s] = spent[s] /\ CostOf(Owing(s)') = o
        /\ faults' \in {faults, faults + 1}
    BY <1>5 DEF Rests, Value
  <2>2. faults' * Excess \in Nat /\ faults * Excess <= faults' * Excess
    BY <1>4, <2>1
  <2>3. QED
    BY <1>2, <1>3, <2>1, <2>2
<1>6. ASSUME NEW r \in Requests, Writes(r)
      PROVE  Value(s)' + CostOf(Owing(s)') <= spent'[s] + faults' * Excess
  <2>1. faults' * Excess \in Nat /\ faults * Excess <= faults' * Excess
    BY <1>4, <1>6 DEF Writes
  <2>2. spent'[s] = spent[s] /\ CostOf(Owing(s)') = o
    BY <1>6, WriteMoves
  <2>3. CASE Value(s)' = Value(s)
    BY <1>2, <1>3, <2>1, <2>2, <2>3
  <2>4. CASE Value(s)' = read[r] /\ s = UserOf(r)
    <3>1. read[r] \in Nat /\ read[r] + o <= spent[s]
      BY <1>6, <2>4, RestoredIsSettled DEF Writes
    <3>2. QED
      BY <1>2, <2>1, <2>2, <2>4, <3>1
  <2>5. QED
    BY <1>6, <2>3, <2>4, WriteMoves
<1>7. ASSUME NEW r \in Requests, Settles(r)
      PROVE  Value(s)' + CostOf(Owing(s)') <= spent'[s] + faults' * Excess
  <2>1. CostOf(Owing(s)') = o + Share(r, s) /\ spent'[s] = spent[s] + Share(r, s)
    BY <1>7, SettlesMoves
  <2>2. Share(r, s) \in Nat
    BY ScopesFacts DEF Share
  <2>3. Value(s)' = Value(s) /\ faults' = faults
    BY <1>7 DEF Settles, Value
  <2>4. QED
    BY <1>2, <1>3, <2>1, <2>2, <2>3
<1>8. ASSUME NEW r \in Requests, Deducts(r)
      PROVE  Value(s)' + CostOf(Owing(s)') <= spent'[s] + faults' * Excess
  <2>1. spent'[s] = spent[s]
        /\ \/ faults' = faults /\ Value(s)' + CostOf(Owing(s)') = Value(s) + o
           \/ faults' = faults + 1 /\ Value(s)' + CostOf(Owing(s)') <= Value(s) + o + Excess
    BY <1>8, DeductMoves
  <2>2. Value(s)' + CostOf(Owing(s)') \in Int
    <3>1. Owing(s)' \in SUBSET Requests /\ FundsInv'
      BY StepKinds DEF Owing
    <3>2. Value(s)' \in Nat
      BY <3>1, BudgetAssumption DEF FundsInv, BudgetTypeOK, Value
    <3>3. QED
      BY <3>1, <3>2, CostFacts
  <2>3. QED
    BY <1>1, <1>2, <1>3, <2>1, <2>2
<1>9. ASSUME NEW t \in Scopes, Lose(t)
      PROVE  Value(s)' + CostOf(Owing(s)') <= spent'[s] + faults' * Excess
  <2>1. spent' = spent /\ faults' = faults /\ CostOf(Owing(s)') = o /\ Value(s)' \in {0, Value(s)}
    BY <1>9, LossMoves
  <2>2. QED
    BY <1>2, <1>3, <2>1
<1>10. QED
  BY <1>5, <1>6, <1>7, <1>8, <1>9, StepKinds

\* Whatever Redis loses or repeats, no counter of a user, team or app is ahead
\* of true cost by more than failed deductions have repeated (CostRecorder
\* .finalize, check_budget's restore), for any number of losses and failures.
THEOREM CountersNeverAhead == BudgetSpec => []NeverAhead
<1>1. BudgetInit => Ahead
  <2> SUFFICES ASSUME BudgetInit, NEW s \in Scopes
               PROVE  Value(s) + CostOf(Owing(s)) <= spent[s] + faults * Excess
    BY DEF Ahead
  <2>1. Value(s) = 0 /\ spent[s] = 0 /\ faults = 0 /\ Owing(s) = {}
    BY DEF BudgetInit, Value, Owing
  <2>2. CostOf(Owing(s)) = 0
    BY <2>1, SumOfNone, Zenon DEF CostOf
  <2>3. Excess \in Nat
    BY MaxCostFacts, BudgetAssumption DEF Excess
  <2>4. QED
    BY <2>1, <2>2, <2>3
<1>2. FundsInv /\ Ahead /\ [BudgetNext]_vars => Ahead'
  BY AheadStep
<1>3. FundsInv /\ Ahead => NeverAhead
  <2> SUFFICES ASSUME FundsInv, Ahead, NEW s \in Scopes
               PROVE  Value(s) <= spent[s] + faults * Retries * MaxCost
    BY DEF NeverAhead
  <2>1. Value(s) \in Nat /\ spent[s] \in Nat /\ CostOf(Owing(s)) \in Nat /\ faults \in Nat
    BY ScopeFacts
  <2>2. Retries \in Nat /\ MaxCost \in Nat
    BY MaxCostFacts, BudgetAssumption
  <2>3. faults * Excess = faults * Retries * MaxCost /\ faults * Excess \in Nat
    BY <2>1, <2>2 DEF Excess
  <2>4. Value(s) + CostOf(Owing(s)) <= spent[s] + faults * Excess
    BY DEF Ahead
  <2>5. QED
    BY <2>1, <2>3, <2>4
<1>4. QED
  BY <1>1, <1>2, <1>3, FundsAlways, PTL DEF BudgetSpec

-----------------------------------------------------------------------------
(* Without a loss, a failure or a race the counters are exact.               *)

LEMMA NoneOfThree ==
  ASSUME NEW a \in Nat, NEW b \in Nat, NEW c \in Nat, a + b + c = 0
  PROVE  a = 0 /\ b = 0 /\ c = 0
OBVIOUS

LEMMA ExactStep ==
  ASSUME FundsInv, CounterExact, BudgetNext \/ UNCHANGED vars
  PROVE  CounterExact'
<1> SUFFICES ASSUME losses' + faults' + races' = 0, NEW s \in Scopes
             PROVE  Value(s)' + CostOf(Owing(s)') = spent'[s]
  BY DEF CounterExact, Owed, CostOf
<1>1. losses' \in Nat /\ faults' \in Nat /\ races' \in Nat
  <2>1. FundsInv'
    BY StepKinds
  <2>2. QED
    BY <2>1, BudgetAssumption DEF FundsInv, BudgetTypeOK
<1>2. losses' = 0 /\ faults' = 0 /\ races' = 0
  BY <1>1, NoneOfThree
<1>3. /\ Value(s) \in Nat /\ spent[s] \in Nat /\ CostOf(Owing(s)) \in Nat
      /\ losses \in Nat /\ faults \in Nat /\ races \in Nat
  BY ScopeFacts
<1>4. ASSUME losses = 0, faults = 0, races = 0
      PROVE  Value(s) + CostOf(Owing(s)) = spent[s]
  BY <1>4 DEF CounterExact, Owed, CostOf
<1>5. CASE Rests
  <2>1. losses = 0 /\ faults = 0 /\ races = 0
    BY <1>2, <1>3, <1>5 DEF Rests
  <2>2. Value(s)' = Value(s) /\ spent'[s] = spent[s] /\ CostOf(Owing(s)') = CostOf(Owing(s))
    BY <1>5 DEF Rests, Value
  <2>3. QED
    BY <1>4, <2>1, <2>2
<1>6. ASSUME NEW r \in Requests, Writes(r)
      PROVE  Value(s)' + CostOf(Owing(s)') = spent'[s]
  <2>1. UserOf(r) \in Scopes /\ read[r] \in Nat \ {0}
        /\ read[r] + CostOf(Owing(UserOf(r))) <= spent[UserOf(r)]
    BY <1>6, RestoredIsSettled DEF Writes
  <2>2. losses = 0 /\ faults = 0 /\ races = 0 /\ counter[UserOf(r)] = Absent
    BY <1>2, <1>3, <1>6 DEF Writes, SetCounter
  <2>3. Value(UserOf(r)) = 0 /\ Value(UserOf(r)) + CostOf(Owing(UserOf(r))) = spent[UserOf(r)]
    BY <2>1, <2>2 DEF Value, CounterExact, Owed, CostOf
  <2>4. CostOf(Owing(UserOf(r))) \in Nat /\ spent[UserOf(r)] \in Nat
    BY <2>1, ScopeFacts
  <2>5. FALSE
    BY <2>1, <2>3, <2>4
  <2>6. QED
    BY <2>5
<1>7. ASSUME NEW r \in Requests, Settles(r)
      PROVE  Value(s)' + CostOf(Owing(s)') = spent'[s]
  <2>1. CostOf(Owing(s)') = CostOf(Owing(s)) + Share(r, s) /\ spent'[s] = spent[s] + Share(r, s)
    BY <1>7, SettlesMoves
  <2>2. Share(r, s) \in Nat
    BY ScopesFacts DEF Share
  <2>3. Value(s)' = Value(s) /\ losses = 0 /\ faults = 0 /\ races = 0
    BY <1>2, <1>7 DEF Settles, Value
  <2>4. QED
    BY <1>3, <1>4, <2>1, <2>2, <2>3
<1>8. ASSUME NEW r \in Requests, Deducts(r)
      PROVE  Value(s)' + CostOf(Owing(s)') = spent'[s]
  <2>1. faults' # faults + 1
    BY <1>2, <1>3
  <2>2. /\ spent' = spent /\ losses' = losses /\ races' = races /\ faults' = faults
        /\ Value(s)' + CostOf(Owing(s)') = Value(s) + CostOf(Owing(s))
    BY <1>8, <2>1, DeductMoves
  <2>3. QED
    BY <1>2, <1>4, <2>2
<1>9. \A t \in Scopes : ~Lose(t)
  <2>1. losses' # losses + 1
    BY <1>2, <1>3
  <2>2. QED
    BY <2>1 DEF Lose
<1>10. QED
  BY <1>5, <1>6, <1>7, <1>8, <1>9, StepKinds

\* While Redis keeps its keys and answers, and no restore has overwritten a
\* counter in use, each counter and what its requests owe make up what they
\* have cost, between any two deductions of any number of requests.
THEOREM CountersExact == BudgetSpec => []CounterExact
<1>1. BudgetInit => CounterExact
  <2> SUFFICES ASSUME BudgetInit, NEW s \in Scopes PROVE Value(s) + CostOf(Owing(s)) = spent[s]
    BY DEF CounterExact, Owed, CostOf
  <2>1. Value(s) = 0 /\ spent[s] = 0 /\ Owing(s) = {}
    BY DEF BudgetInit, Value, Owing
  <2>2. CostOf(Owing(s)) = 0
    BY <2>1, SumOfNone, Zenon DEF CostOf
  <2>3. QED
    BY <2>1, <2>2
<1>2. FundsInv /\ CounterExact /\ [BudgetNext]_vars => CounterExact'
  BY ExactStep
<1>3. QED
  BY <1>1, <1>2, FundsAlways, PTL DEF BudgetSpec

-----------------------------------------------------------------------------
(* A hard limit is overshot by the requests in flight only.  Both halves of  *)
(* the invariant are needed: a check passes at most Grant (Under makes the   *)
(* counter tell the truth), and what a loss forgets was within it (Over).    *)

Grant(s) == Limit[s] - 1 + Width * MaxCost
Slack(s) == (losses + races) * Grant(s) + faults * MaxCost

Under == \A s \in Scopes : Policy[s] = "hard_block" =>
           spent[s] <= Value(s) + CostOf(Owing(s)) + Slack(s)
Over == \A s \in Scopes : Policy[s] = "hard_block" =>
          spent[s] + CostOf(Exposing(s)) <= Grant(s) + Slack(s)

LEMMA GrantFacts ==
  ASSUME NEW s \in Scopes
  PROVE  Grant(s) \in Nat /\ Width * MaxCost \in Nat \ {0} /\ Limit[s] \in Nat
<1>1. Width \in Nat \ {0} /\ MaxCost \in Nat \ {0} /\ Limit[s] \in Nat
  BY MaxCostFacts, BudgetAssumption
<1>2. Width * MaxCost \in Nat \ {0}
  BY <1>1
<1>3. QED
  BY <1>1, <1>2 DEF Grant

LEMMA BothGrow ==
  ASSUME NEW a \in Nat, NEW b \in Nat, NEW c \in Nat, NEW d \in Nat, b >= a, d >= c
  PROVE  /\ a + c \in Nat /\ b + d \in Nat /\ b + d >= a + c
         /\ \A n \in Nat : (b >= a + n => b + d >= a + c + n) /\ (d >= c + n => b + d >= a + c + n)
OBVIOUS

LEMMA Products ==
  ASSUME NEW a \in Nat, NEW b \in Nat, NEW g \in Nat, b >= a
  PROVE  a * g \in Nat /\ b * g \in Nat /\ b * g >= a * g /\ (b > a => b * g >= a * g + g)
<1>1. a * g \in Nat /\ b * g \in Nat /\ b * g >= a * g
  OBVIOUS
<1>2. a * g + g = (a + 1) * g
  OBVIOUS
<1>3. b > a => b * g >= (a + 1) * g
  OBVIOUS
<1>4. QED
  BY <1>1, <1>2, <1>3

\* Slack never shrinks; a failure adds a request, a loss or a race a Grant.
LEMMA SlackGrows ==
  ASSUME FundsInv, NEW s \in Scopes,
         losses' \in Nat, races' \in Nat, faults' \in Nat,
         losses' >= losses, races' >= races, faults' >= faults
  PROVE  /\ Slack(s) \in Nat /\ Slack(s)' \in Nat /\ Slack(s)' >= Slack(s)
         /\ faults' = faults + 1 => Slack(s)' >= Slack(s) + MaxCost
         /\ losses' + races' > losses + races => Slack(s)' >= Slack(s) + Grant(s)
<1>0. /\ Grant(s) \in Nat /\ MaxCost \in Nat /\ losses \in Nat /\ races \in Nat /\ faults \in Nat
  BY GrantFacts, MaxCostFacts, ScopeFacts
<1>1. losses + races \in Nat /\ losses' + races' \in Nat /\ losses' + races' >= losses + races
  BY <1>0, BothGrow
<1>2. /\ Slack(s) = (losses + races) * Grant(s) + faults * MaxCost
      /\ Slack(s)' = (losses' + races') * Grant(s) + faults' * MaxCost
  BY DEF Slack, Grant, MaxCost
<1>3. /\ (losses + races) * Grant(s) \in Nat /\ (losses' + races') * Grant(s) \in Nat
      /\ (losses' + races') * Grant(s) >= (losses + races) * Grant(s)
      /\ losses' + races' > losses + races =>
           (losses' + races') * Grant(s) >= (losses + races) * Grant(s) + Grant(s)
  BY <1>0, <1>1, Products
<1>4. /\ faults * MaxCost \in Nat /\ faults' * MaxCost \in Nat
      /\ faults' * MaxCost >= faults * MaxCost
      /\ faults' > faults => faults' * MaxCost >= faults * MaxCost + MaxCost
  BY <1>0, Products
<1>5. /\ Slack(s) \in Nat /\ Slack(s)' \in Nat /\ Slack(s)' >= Slack(s)
      /\ losses' + races' > losses + races => Slack(s)' >= Slack(s) + Grant(s)
      /\ faults' > faults => Slack(s)' >= Slack(s) + MaxCost
  <2> DEFINE x == (losses + races) * Grant(s)
             y == (losses' + races') * Grant(s)
             u == faults * MaxCost
             v == faults' * MaxCost
  <2>1. x \in Nat /\ y \in Nat /\ y >= x /\ u \in Nat /\ v \in Nat /\ v >= u
    BY <1>3, <1>4
  <2>2. /\ losses' + races' > losses + races => y >= x + Grant(s)
        /\ faults' > faults => v >= u + MaxCost
        /\ Slack(s) = x + u /\ Slack(s)' = y + v
    BY <1>2, <1>3, <1>4
  <2> HIDE DEF x, y, u, v
  <2>3. /\ x + u \in Nat /\ y + v \in Nat /\ y + v >= x + u
        /\ y >= x + Grant(s) => y + v >= x + u + Grant(s)
        /\ v >= u + MaxCost => y + v >= x + u + MaxCost
    BY <1>0, <2>1, BothGrow
  <2>4. QED
    BY <2>2, <2>3, Zenon
<1>6. faults' = faults + 1 => faults' > faults
  BY <1>0
<1>7. QED
  BY <1>5, <1>6

LEMMA FewerCostLess ==
  ASSUME NEW B \in SUBSET Requests, NEW A \in SUBSET B
  PROVE  CostOf(A) <= CostOf(B)
<1>1. IsFiniteSet(B) /\ \A r \in B : Cost[r] \in Nat
  BY CostFacts, BudgetAssumption
<1>2. QED
  BY <1>1, SumOfFewer DEF CostOf

\* Only a check exposes a scope: it found its counter under the limit, or the
\* call failed and the database was asked.
LEMMA ExposureKinds ==
  ASSUME FundsInv, BudgetNext \/ UNCHANGED vars, NEW s \in Scopes, Policy[s] = "hard_block"
  PROVE  \/ spent' = spent /\ CostOf(Exposing(s)') <= CostOf(Exposing(s))
         \/ \E r \in Requests : Settles(r)
         \/ UNCHANGED <<counter, spent, losses, faults, races>> /\ Value(s) < Limit[s]
         \/ /\ spent' = spent /\ faults' = faults + 1
            /\ CostOf(Exposing(s)') <= CostOf(Exposing(s)) + MaxCost
<1> DEFINE Less == spent' = spent /\ Exposing(s)' \subseteq Exposing(s)
<1>0. ASSUME Less PROVE spent' = spent /\ CostOf(Exposing(s)') <= CostOf(Exposing(s))
  <2>1. Exposing(s) \in SUBSET Requests
    BY DEF Exposing
  <2>2. QED
    BY <1>0, <2>1, FewerCostLess
<1>1. CASE UNCHANGED vars
  BY <1>0, <1>1 DEF vars, Exposing
<1>2. ASSUME NEW r \in Requests, Begin(r) \/ BeginFails(r) PROVE Less
  <2>1. Listed(ScopesOf[r]) = InScope(r)
    BY ScopesFacts
  <2>2. OthersStay(r) /\ UNCHANGED spent
    BY <1>2 DEF Begin, BeginFails, Goto, OthersStay, FundsInv, BudgetTypeOK
  <2>3. \/ pc'[r] \notin {"check", "serving"}
        \/ pc'[r] = "check" /\ Listed(todo'[r]) = InScope(r)
    BY <1>2, <2>1 DEF Begin, BeginFails, Goto, FundsInv, BudgetTypeOK
  <2>4. r \notin Exposing(s)'
    BY <2>3 DEF Exposing
  <2>5. QED
    BY <2>2, <2>4 DEF OthersStay, Exposing
<1>3. ASSUME NEW r \in Requests, Select(r) \/ Restore(r) \/ RestoreFails(r) PROVE Less
  <2>1. pc[r] \in {"select", "set"} /\ UNCHANGED <<todo, spent>> /\ OthersStay(r)
    BY <1>3 DEF Select, Restore, RestoreFails, Goto, OthersStay, FundsInv, BudgetTypeOK
  <2>2. Listed(todo[r]) = InScope(r)
    BY <2>1, ScopesFacts DEF FundsInv, TodoInv
  <2>3. pc'[r] # "serving" /\ Listed(todo'[r]) = InScope(r)
    BY <1>3, <2>1, <2>2 DEF Select, Restore, RestoreFails, Goto, FundsInv, BudgetTypeOK
  <2>4. r \notin Exposing(s)'
    BY <2>3 DEF Exposing
  <2>5. QED
    BY <2>1, <2>4 DEF OthersStay, Exposing
<1>4. ASSUME NEW r \in Requests, Check(r)
      PROVE  Less \/ (UNCHANGED <<counter, spent, losses, faults, races>> /\ Value(s) < Limit[s])
  <2> DEFINE q == todo[r]
  <2>1. q \in Seq(Scopes) /\ q # <<>> /\ Apart(q) /\ pc[r] = "check"
    BY <1>4 DEF FundsInv, BudgetTypeOK, TodoInv, Check
  <2>2. Listed(Tail(q)) = Listed(q) \ {Head(q)} /\ Head(q) \in Listed(q)
    BY <2>1, TailListed
  <2>3. UNCHANGED <<counter, spent, losses, faults, races>> /\ OthersStay(r)
    BY <1>4, CheckIsQuiet DEF Check, Quiet
  <2>4. CASE Blocks(Head(q), Value(Head(q)))
    <3>1. pc'[r] = "over"
      BY <1>4, <2>4 DEF Check, Refuse, Goto, FundsInv, BudgetTypeOK
    <3>2. QED
      BY <2>3, <3>1 DEF OthersStay, Exposing
  <2>5. CASE ~Blocks(Head(q), Value(Head(q))) /\ s = Head(q)
    <3>1. Limit[s] \in Nat /\ Value(s) \in Nat
      BY BudgetAssumption, ScopeFacts
    <3>2. QED
      BY <2>3, <2>5, <3>1 DEF Blocks
  <2>6. CASE ~Blocks(Head(q), Value(Head(q))) /\ s # Head(q)
    <3>1. CASE Len(q) = 1
      <4>1. Listed(q) = {Head(q)}
        <5> HIDE DEF q
        <5>1. DOMAIN q = {1} /\ Head(q) = q[1]
          BY <2>1, <3>1
        <5>2. QED
          BY <5>1 DEF Listed
      <4>2. s \in InScope(r) => r \in Exposing(s)
        BY <2>1, <2>6, <4>1 DEF Exposing
      <4>3. QED
        BY <2>3, <4>2 DEF OthersStay, Exposing
    <3>2. CASE Len(q) # 1
      <4>1. pc'[r] = "check" /\ todo'[r] = Tail(q)
        BY <1>4, <2>1, <2>6, <3>2 DEF Check, FundsInv, BudgetTypeOK
      <4>2. s \in Listed(todo'[r]) <=> s \in Listed(todo[r])
        BY <2>2, <2>6, <4>1
      <4>3. r \in Exposing(s)' => r \in Exposing(s)
        BY <2>1, <4>1, <4>2 DEF Exposing
      <4>4. QED
        BY <2>3, <4>3 DEF OthersStay, Exposing
    <3>3. QED
      BY <3>1, <3>2
  <2>7. QED
    BY <2>4, <2>5, <2>6
<1>5. ASSUME NEW r \in Requests, CheckInDb(r)
      PROVE  /\ spent' = spent /\ faults' = faults + 1
             /\ CostOf(Exposing(s)') <= CostOf(Exposing(s)) + MaxCost
  <2>1. Quiet(r) /\ spent' = spent /\ faults' = faults + 1
    BY <1>5, CheckInDbIsQuiet DEF CheckInDb, FaultsLeft
  <2>2. OthersStay(r)
    BY <2>1 DEF Quiet
  <2>3. CostOf(Exposing(s)') = CostOf(Exposing(s))
          + (IF r \in Exposing(s)' THEN Cost[r] ELSE 0) - (IF r \in Exposing(s) THEN Cost[r] ELSE 0)
    BY <2>2, SumsMove
  <2>4. CostOf(Exposing(s)) \in Nat /\ Cost[r] \in Nat /\ MaxCost \in Nat /\ Cost[r] <= MaxCost
    BY ScopeFacts, ScopesFacts, MaxCostFacts
  <2>5. QED
    BY <2>1, <2>3, <2>4
<1>6. ASSUME NEW r \in Requests, Finish(r) PROVE Less \/ Settles(r)
  <2>1. CASE Quiet(r) /\ pc'[r] = "over"
    BY <2>1 DEF Quiet, OthersStay, Exposing
  <2>2. QED
    BY <1>6, <2>1, FinishKeeps
<1>7. ASSUME NEW r \in Requests, Deduct(r) \/ DeductFails(r) PROVE Less
  BY <1>7, DeductKeeps, PaysMoves DEF Deducts, Pays
<1>8. ASSUME NEW r \in Requests, Publish(r) \/ Record(r) PROVE Less
  BY <1>8, PublishKeeps, RecordKeeps DEF Publish, Record
<1>9. ASSUME NEW t \in Scopes, Lose(t) PROVE Less
  BY <1>9, LoseKeeps DEF Lose
<1> HIDE DEF Less
<1>10. QED
  BY <1>0, <1>1, <1>2, <1>3, <1>4, <1>5, <1>6, <1>7, <1>8, <1>9 DEF BudgetNext, Step

\* Those exposed and those owing are apart, and both under way.
LEMMA ExposedAndOwed ==
  ASSUME NEW P \in SUBSET Requests, Cardinality(P) <= Width,
         NEW E \in SUBSET P, NEW O \in SUBSET P, E \cap O = {}
  PROVE  CostOf(E) + CostOf(O) <= Width * MaxCost
<1>1. E \cup O \in SUBSET P /\ E \in SUBSET Requests /\ O \in SUBSET Requests
  OBVIOUS
<1>2. CostOf(E \cup O) <= Width * MaxCost
  BY <1>1, FewUnderWay
<1>3. IsFiniteSet(E) /\ IsFiniteSet(O) /\ \A r \in E \cup O : Cost[r] \in Int
  BY <1>1, CostFacts, BudgetAssumption
<1>4. CostOf(E \cup O) = CostOf(E) + CostOf(O)
  BY <1>3, SumOfBoth DEF CostOf
<1>5. QED
  BY <1>2, <1>4

LEMMA CountsGrow ==
  ASSUME FundsInv, BudgetNext \/ UNCHANGED vars
  PROVE  /\ FundsInv' /\ losses' \in Nat /\ races' \in Nat /\ faults' \in Nat
         /\ losses' >= losses /\ races' >= races /\ faults' >= faults
<1>1. FundsInv'
  BY StepKinds
<1>2. losses \in Nat /\ faults \in Nat /\ races \in Nat
  BY BudgetAssumption DEF FundsInv, BudgetTypeOK
<1>3. losses' \in Nat /\ faults' \in Nat /\ races' \in Nat
  BY <1>1, BudgetAssumption DEF FundsInv, BudgetTypeOK
<1>4. /\ losses' = losses \/ losses' = losses + 1
      /\ races' = races \/ races' = races + 1 \/ races' = races + 0
      /\ faults' = faults \/ faults' = faults + 1
  BY StepKinds DEF Rests, Writes, SetCounter, Settles, Deducts, Pays, Lose
<1>5. losses' >= losses /\ races' >= races /\ faults' >= faults
  BY <1>2, <1>4
<1>6. QED
  BY <1>1, <1>3, <1>5

LEMMA UnderStep ==
  ASSUME FundsInv, Under, Over, BudgetNext \/ UNCHANGED vars
  PROVE  Under'
<1> SUFFICES ASSUME NEW s \in Scopes, Policy[s] = "hard_block"
             PROVE  spent'[s] <= Value(s)' + CostOf(Owing(s)') + Slack(s)'
  BY DEF Under
<1>1. /\ FundsInv' /\ losses' \in Nat /\ races' \in Nat /\ faults' \in Nat
      /\ losses' >= losses /\ races' >= races /\ faults' >= faults
  BY CountsGrow
<1>2. /\ Slack(s) \in Nat /\ Slack(s)' \in Nat /\ Slack(s)' >= Slack(s)
      /\ faults' = faults + 1 => Slack(s)' >= Slack(s) + MaxCost
      /\ losses' + races' > losses + races => Slack(s)' >= Slack(s) + Grant(s)
  BY <1>1, SlackGrows
<1>3. /\ Value(s) \in Nat /\ spent[s] \in Nat /\ CostOf(Owing(s)) \in Nat
      /\ CostOf(Exposing(s)) \in Nat /\ Grant(s) \in Nat /\ MaxCost \in Nat
      /\ losses \in Nat /\ races \in Nat /\ faults \in Nat
  BY ScopeFacts, GrantFacts, MaxCostFacts
<1>4. Value(s)' \in Nat /\ CostOf(Owing(s)') \in Nat
  <2>1. Owing(s)' \in SUBSET Requests
    BY DEF Owing
  <2>2. Value(s)' \in Nat
    BY <1>1 DEF FundsInv, BudgetTypeOK, Value
  <2>3. QED
    BY <2>1, <2>2, CostFacts
<1>5. /\ spent[s] <= Value(s) + CostOf(Owing(s)) + Slack(s)
      /\ spent[s] + CostOf(Exposing(s)) <= Grant(s) + Slack(s)
  BY DEF Under, Over
\* A loss or a race: what was spent before lies within the grant it adds.
<1>6. ASSUME spent'[s] = spent[s], losses' + races' > losses + races
      PROVE  spent'[s] <= Value(s)' + CostOf(Owing(s)') + Slack(s)'
  <2>1. Slack(s)' >= Slack(s) + Grant(s)
    BY <1>2, <1>6
  <2>2. QED
    BY <1>2, <1>3, <1>4, <1>5, <1>6, <2>1
<1>7. CASE Rests
  <2>1. Value(s)' = Value(s) /\ spent'[s] = spent[s] /\ CostOf(Owing(s)') = CostOf(Owing(s))
    BY <1>7 DEF Rests, Value
  <2>2. QED
    BY <1>2, <1>3, <1>5, <2>1
<1>8. ASSUME NEW r \in Requests, Writes(r)
      PROVE  spent'[s] <= Value(s)' + CostOf(Owing(s)') + Slack(s)'
  <2>1. spent'[s] = spent[s] /\ CostOf(Owing(s)') = CostOf(Owing(s))
    BY <1>8, WriteMoves
  <2>2. CASE Value(s)' = Value(s)
    BY <1>2, <1>3, <1>5, <2>1, <2>2
  <2>3. CASE s = UserOf(r) /\ counter[s] = Absent
    <3>1. Value(s) = 0
      BY <2>3 DEF Value
    <3>2. QED
      BY <1>2, <1>3, <1>4, <1>5, <2>1, <3>1
  <2>4. CASE s = UserOf(r) /\ counter[s] # Absent
    <3>1. races' = races + 1 /\ losses' = losses
      BY <1>8, <2>4 DEF Writes, SetCounter
    <3>2. losses' + races' > losses + races
      BY <1>3, <3>1
    <3>3. QED
      BY <1>6, <2>1, <3>2
  <2>5. QED
    BY <1>8, <2>2, <2>3, <2>4, WriteMoves
<1>9. ASSUME NEW r \in Requests, Settles(r)
      PROVE  spent'[s] <= Value(s)' + CostOf(Owing(s)') + Slack(s)'
  <2>1. CostOf(Owing(s)') = CostOf(Owing(s)) + Share(r, s) /\ spent'[s] = spent[s] + Share(r, s)
    BY <1>9, SettlesMoves
  <2>2. Share(r, s) \in Nat
    BY ScopesFacts DEF Share
  <2>3. Value(s)' = Value(s)
    BY <1>9 DEF Settles, Value
  <2>4. QED
    BY <1>2, <1>3, <1>5, <2>1, <2>2, <2>3
<1>10. ASSUME NEW r \in Requests, Deducts(r)
       PROVE  spent'[s] <= Value(s)' + CostOf(Owing(s)') + Slack(s)'
  <2>1. spent'[s] = spent[s]
        /\ \/ Value(s)' + CostOf(Owing(s)') = Value(s) + CostOf(Owing(s))
           \/ /\ faults' = faults + 1
              /\ Value(s)' + CostOf(Owing(s)') + MaxCost >= Value(s) + CostOf(Owing(s))
    BY <1>10, DeductMoves
  <2>2. CASE Value(s)' + CostOf(Owing(s)') = Value(s) + CostOf(Owing(s))
    BY <1>2, <1>3, <1>4, <1>5, <2>1, <2>2
  <2>3. CASE /\ faults' = faults + 1
             /\ Value(s)' + CostOf(Owing(s)') + MaxCost >= Value(s) + CostOf(Owing(s))
    <3>1. Slack(s)' >= Slack(s) + MaxCost
      BY <1>2, <2>3
    <3>2. QED
      BY <1>2, <1>3, <1>4, <1>5, <2>1, <2>3, <3>1
  <2>4. QED
    BY <2>1, <2>2, <2>3
<1>11. ASSUME NEW t \in Scopes, Lose(t)
       PROVE  spent'[s] <= Value(s)' + CostOf(Owing(s)') + Slack(s)'
  <2>1. spent' = spent /\ races' = races /\ losses' = losses + 1
    BY <1>11, LossMoves
  <2>2. losses' + races' > losses + races
    BY <1>3, <2>1
  <2>3. QED
    BY <1>6, <2>1, <2>2
<1>12. QED
  BY <1>7, <1>8, <1>9, <1>10, <1>11, StepKinds

LEMMA OverStep ==
  ASSUME FundsInv, Under, Over, BudgetNext \/ UNCHANGED vars
  PROVE  Over'
<1> SUFFICES ASSUME NEW s \in Scopes, Policy[s] = "hard_block"
             PROVE  spent'[s] + CostOf(Exposing(s)') <= Grant(s) + Slack(s)'
  BY DEF Over, Grant, MaxCost
<1>1. /\ FundsInv' /\ losses' \in Nat /\ races' \in Nat /\ faults' \in Nat
      /\ losses' >= losses /\ races' >= races /\ faults' >= faults
  BY CountsGrow
<1>2. /\ Slack(s) \in Nat /\ Slack(s)' \in Nat /\ Slack(s)' >= Slack(s)
      /\ faults' = faults + 1 => Slack(s)' >= Slack(s) + MaxCost
  BY <1>1, SlackGrows
<1>3. /\ Value(s) \in Nat /\ spent[s] \in Nat /\ CostOf(Owing(s)) \in Nat
      /\ CostOf(Exposing(s)) \in Nat /\ Grant(s) \in Nat /\ MaxCost \in Nat
      /\ Limit[s] \in Nat /\ Width * MaxCost \in Nat
  BY ScopeFacts, GrantFacts, MaxCostFacts
<1>4. CostOf(Exposing(s)') \in Nat
  <2>1. Exposing(s)' \in SUBSET Requests
    BY DEF Exposing
  <2>2. QED
    BY <2>1, CostFacts
<1>5. /\ spent[s] <= Value(s) + CostOf(Owing(s)) + Slack(s)
      /\ spent[s] + CostOf(Exposing(s)) <= Grant(s) + Slack(s)
  BY DEF Under, Over
<1>6. CASE spent' = spent /\ CostOf(Exposing(s)') <= CostOf(Exposing(s))
  BY <1>2, <1>3, <1>4, <1>5, <1>6
<1>7. ASSUME NEW r \in Requests, Settles(r)
      PROVE  spent'[s] + CostOf(Exposing(s)') <= Grant(s) + Slack(s)'
  <2>1. CostOf(Exposing(s)') = CostOf(Exposing(s)) - Share(r, s) /\ spent'[s] = spent[s] + Share(r, s)
    BY <1>7, SettlesMoves
  <2>2. Share(r, s) \in Nat
    BY ScopesFacts DEF Share
  <2>3. QED
    BY <1>2, <1>3, <1>5, <2>1, <2>2
\* A check that passed: the counter is under the limit and, but for Slack,
\* tells what is spent; the rest is in flight.
<1>8. CASE UNCHANGED <<counter, spent, losses, faults, races>> /\ Value(s) < Limit[s]
  <2>1. CostOf(Exposing(s)') + CostOf(Owing(s)') <= Width * MaxCost
    <3>1. Active' \in SUBSET Requests /\ Cardinality(Active') <= Width
      BY <1>1 DEF FundsInv, Active
    <3>2. /\ Exposing(s)' \in SUBSET Active' /\ Owing(s)' \in SUBSET Active'
          /\ Exposing(s)' \cap Owing(s)' = {}
      BY DEF Exposing, Owing, Active
    <3>3. QED
      BY <3>1, <3>2, ExposedAndOwed
  <2>2. CostOf(Owing(s)') \in Nat
    <3>1. Owing(s)' \in SUBSET Requests
      BY DEF Owing
    <3>2. QED
      BY <3>1, CostFacts
  <2>3. spent'[s] = spent[s] /\ Value(s)' = Value(s)
    BY <1>8 DEF Value
  <2>4. spent'[s] <= Value(s)' + CostOf(Owing(s)') + Slack(s)'
    <3>1. Under'
      BY UnderStep
    <3>2. QED
      BY <3>1 DEF Under
  <2>5. Grant(s) = Limit[s] - 1 + Width * MaxCost
    BY DEF Grant
  <2>6. QED
    BY <1>2, <1>3, <1>4, <1>8, <2>1, <2>2, <2>3, <2>4, <2>5
<1>9. CASE /\ spent' = spent /\ faults' = faults + 1
           /\ CostOf(Exposing(s)') <= CostOf(Exposing(s)) + MaxCost
  <2>1. Slack(s)' >= Slack(s) + MaxCost
    BY <1>2, <1>9
  <2>2. QED
    BY <1>2, <1>3, <1>4, <1>5, <1>9, <2>1
<1>10. QED
  BY <1>6, <1>7, <1>8, <1>9, ExposureKinds

\* Check and deduction are apart, so a hard limit is overshot, but only by the
\* Width requests in flight; a lost or overwritten counter grants one budget
\* more, a failed call one request (check_budget to finalize).
THEOREM HardLimitsHold == BudgetSpec => []OvershootBounded
<1>1. BudgetInit => Under /\ Over
  <2> SUFFICES ASSUME BudgetInit, NEW s \in Scopes
               PROVE  /\ spent[s] <= Value(s) + CostOf(Owing(s)) + Slack(s)
                      /\ spent[s] + CostOf(Exposing(s)) <= Grant(s) + Slack(s)
    BY DEF Under, Over
  <2>1. /\ Value(s) = 0 /\ spent[s] = 0 /\ Owing(s) = {} /\ Exposing(s) = {}
        /\ losses = 0 /\ races = 0 /\ faults = 0
    BY DEF BudgetInit, Value, Owing, Exposing
  <2>2. CostOf(Owing(s)) = 0 /\ CostOf(Exposing(s)) = 0
    BY <2>1, SumOfNone, Zenon DEF CostOf
  <2>3. Grant(s) \in Nat /\ MaxCost \in Nat
    BY GrantFacts, MaxCostFacts
  <2>4. Slack(s) = 0
    BY <2>1, <2>3 DEF Slack
  <2>5. QED
    BY <2>1, <2>2, <2>3, <2>4
<1>2. FundsInv /\ Under /\ Over /\ [BudgetNext]_vars => Under' /\ Over'
  BY UnderStep, OverStep
<1>3. FundsInv /\ Over => OvershootBounded
  <2> SUFFICES ASSUME FundsInv, Over, NEW s \in Scopes, Policy[s] = "hard_block"
               PROVE  spent[s] <= (1 + losses + races) * Grant(s) + faults * MaxCost
    BY DEF OvershootBounded, Grant
  <2>1. spent[s] + CostOf(Exposing(s)) <= Grant(s) + Slack(s)
    BY DEF Over
  <2>2. /\ spent[s] \in Nat /\ CostOf(Exposing(s)) \in Nat /\ Grant(s) \in Nat
        /\ losses \in Nat /\ races \in Nat /\ faults \in Nat /\ MaxCost \in Nat
    BY ScopeFacts, GrantFacts, MaxCostFacts
  <2>3. (1 + losses + races) * Grant(s) = Grant(s) + (losses + races) * Grant(s)
    BY <2>2
  <2>4. (losses + races) * Grant(s) \in Nat /\ faults * MaxCost \in Nat
    BY <2>2
  <2>5. QED
    BY <2>1, <2>2, <2>3, <2>4 DEF Slack
<1>4. QED
  BY <1>1, <1>2, <1>3, FundsAlways, PTL DEF BudgetSpec
---------------------------------------------------------------------------
(***************************************************************************)
(* Seeds: an administrator's, the gateway's restores and the script's.      *)
(***************************************************************************)
Rows(book) == /\ IsFiniteSet(DOMAIN book) /\ book = [k \in DOMAIN book |-> book[k]]
              /\ \A k \in DOMAIN book : book[k] \in Nat
RowOf(book, k) == IF k \in DOMAIN book THEN book[k] ELSE 0

SeedShape ==
  /\ Rows(usageRows) /\ Rows(seed.mine)
  /\ unflushed \in Nat /\ (userKey # Gone => userKey.used \in Nat)
  /\ seed = [at |-> seed.at, mine |-> seed.mine, value |-> seed.value, doubts |-> seed.doubts]
  /\ seed.value \in Nat /\ seed.at \in {"idle", "refresh", "open"}
  /\ seed.at = "idle" => seed.mine = NoRows
  /\ fix = [at |-> fix.at, value |-> fix.value, doubts |-> fix.doubts]
  /\ fix.value \in Nat

(* While the administrator's transaction is open, it is the rows that it   *)
(* sees that the counter matches; and a SET that nothing casts doubt on is *)
(* about to write what they, or the committed rows, add up to.             *)
SeedInv ==
  /\ SeedShape
  /\ seed.at # "refresh" /\ doubts = {} => Used = RowSum(SeenRows) + unflushed
  /\ seed.at = "refresh" /\ seed.doubts = {} => seed.value = RowSum(SeenRows) /\ unflushed = 0
  /\ fix.at = "set" /\ fix.doubts = {} => fix.value = RowSum(usageRows) /\ unflushed = 0

LEMMA SumOfRows ==
  ASSUME NEW book, Rows(book)
  PROVE  RowSum(book) \in Nat
BY SumIsNat DEF Rows, RowSum, SumFunction

LEMMA NoRowsAtAll == Rows(NoRows) /\ DOMAIN NoRows = {} /\ RowSum(NoRows) = 0
<1>1. DOMAIN NoRows = {}
  BY DEF NoRows
<1>2. IsFiniteSet({})
  BY FS_EmptySet
<1>3. NoRows = [k \in DOMAIN NoRows |-> NoRows[k]]
  BY DEF NoRows
<1>4. RowSum(NoRows) = 0
  BY <1>1, SumOfNone DEF RowSum, SumFunction
<1>5. QED
  BY <1>1, <1>2, <1>3, <1>4 DEF Rows

LEMMA UpsertedRows ==
  ASSUME NEW book, Rows(book), NEW k, NEW v \in Nat
  PROVE  /\ Rows(Upsert(book, k, v))
         /\ DOMAIN Upsert(book, k, v) = DOMAIN book \cup {k}
         /\ Upsert(book, k, v)[k] = v
         /\ \A j \in DOMAIN book \ {k} : Upsert(book, k, v)[j] = book[j]
<1>1. IsFiniteSet(DOMAIN book \cup {k})
  BY FS_AddElement DEF Rows
<1>2. QED
  BY <1>1 DEF Rows, Upsert

LEMMA UpsertedSum ==
  ASSUME NEW book, Rows(book), NEW k, NEW v \in Nat
  PROVE  RowSum(Upsert(book, k, v)) = RowSum(book) - RowOf(book, k) + v
<1> DEFINE new == Upsert(book, k, v)
           old == DOMAIN book \ {k}
<1>1. /\ Rows(new) /\ DOMAIN new = DOMAIN book \cup {k} /\ new[k] = v
      /\ \A j \in old : new[j] = book[j]
  <2>1. Rows(new) /\ DOMAIN new = DOMAIN book \cup {k}
    BY UpsertedRows
  <2>2. new[k] = v /\ \A j \in DOMAIN book \ {k} : new[j] = book[j]
    BY DEF Upsert
  <2>3. QED
    BY <2>1, <2>2
<1> HIDE DEF new
<1>2. IsFiniteSet(old) /\ k \notin old
  BY FS_Subset DEF Rows
<1>3. \A j \in old : book[j] \in Int
  BY DEF Rows
<1>4. SumFunctionOnSet(new, old) = SumFunctionOnSet(book, old)
  BY <1>1, <1>2, <1>3, SumSame
<1>5. SumFunctionOnSet(book, old) \in Int
  BY <1>2, <1>3, SumIsInt
<1>6. DOMAIN new = old \cup {k}
  BY <1>1
<1>7. SumFunctionOnSet(new, old \cup {k}) = v + SumFunctionOnSet(new, old)
  <2>1. \A j \in old \cup {k} : new[j] \in Int
    BY <1>1, <1>6 DEF Rows
  <2>2. QED
    BY <1>1, <1>2, <2>1, SumWith
<1>8. RowSum(new) = v + SumFunctionOnSet(book, old)
  BY <1>4, <1>6, <1>7 DEF RowSum, SumFunction
<1>9. ASSUME k \in DOMAIN book PROVE RowSum(new) = RowSum(book) - RowOf(book, k) + v
  <2>1. IsFiniteSet(DOMAIN book) /\ \A j \in DOMAIN book : book[j] \in Int
    BY DEF Rows
  <2>2. SumFunctionOnSet(book, DOMAIN book) = book[k] + SumFunctionOnSet(book, old)
    BY <1>9, <2>1, SumWithout
  <2>3. book[k] \in Int /\ RowOf(book, k) = book[k]
    BY <1>9, <2>1 DEF RowOf
  <2>4. RowSum(book) = book[k] + SumFunctionOnSet(book, old)
    BY <2>2 DEF RowSum, SumFunction
  <2>5. QED
    BY <1>5, <1>8, <2>3, <2>4
<1>10. ASSUME k \notin DOMAIN book PROVE RowSum(new) = RowSum(book) - RowOf(book, k) + v
  <2>1. old = DOMAIN book /\ RowOf(book, k) = 0
    BY <1>10 DEF RowOf
  <2>2. RowSum(book) = SumFunctionOnSet(book, old)
    BY <2>1 DEF RowSum, SumFunction
  <2>3. QED
    BY <1>5, <1>8, <2>1, <2>2
<1>11. QED
  BY <1>9, <1>10 DEF new

LEMMA SumOfOneRow ==
  ASSUME NEW book, Rows(book), NEW k \in DOMAIN book, Others(book, k) = {}
  PROVE  RowSum(book) = book[k]
<1> DEFINE old == DOMAIN book \ {k}
           none == [j \in old |-> 0]
<1>1. \A j \in old : book[j] = 0
  BY DEF Rows, Others
<1>2. IsFiniteSet(old)
  BY FS_Subset DEF Rows
<1>3. SumFunctionOnSet(book, old) = 0
  <2>1. SumFunctionOnSet(book, old) <= Cardinality(old) * 0
    <3>1. \A j \in old : book[j] \in Nat /\ book[j] <= 0
      BY <1>1
    <3>2. QED
      BY <1>2, <3>1, SumBounded
  <2>2. SumFunctionOnSet(book, old) \in Nat
    BY <1>1, <1>2, SumIsNat
  <2>3. Cardinality(old) \in Nat
    BY <1>2, FS_CardinalityType
  <2>4. QED
    BY <2>1, <2>2, <2>3
<1>4. IsFiniteSet(DOMAIN book) /\ \A j \in DOMAIN book : book[j] \in Int
  BY DEF Rows
<1>5. SumFunctionOnSet(book, DOMAIN book) = book[k] + SumFunctionOnSet(book, old)
  BY <1>4, SumWithout
<1>6. QED
  BY <1>3, <1>4, <1>5 DEF RowSum, SumFunction

\* What a transaction sees is the committed rows under its own.
LEMMA SeenAreRows ==
  ASSUME NEW book, Rows(book), NEW mine, Rows(mine)
  PROVE  Rows(Seen(book, mine)) /\ DOMAIN Seen(book, mine) = DOMAIN book \cup DOMAIN mine
<1>1. IsFiniteSet(DOMAIN book \cup DOMAIN mine)
  BY FS_Union DEF Rows
<1>2. QED
  BY <1>1 DEF Rows, Seen

LEMMA SeenByNobody ==
  ASSUME NEW book, Rows(book)
  PROVE  Seen(book, NoRows) = book
<1>1. DOMAIN book \cup DOMAIN NoRows = DOMAIN book
  BY NoRowsAtAll
<1>2. Seen(book, NoRows) = [k \in DOMAIN book |-> book[k]]
  BY <1>1, NoRowsAtAll DEF Seen
<1>3. QED
  BY <1>2 DEF Rows

LEMMA SeenUpserted ==
  ASSUME NEW book, Rows(book), NEW mine, Rows(mine), NEW k, k \notin DOMAIN mine, NEW v \in Nat
  PROVE  /\ Seen(Upsert(book, k, v), mine) = Upsert(Seen(book, mine), k, v)
         /\ RowOf(Seen(book, mine), k) = RowOf(book, k)
<1>1. DOMAIN Upsert(book, k, v) \cup DOMAIN mine = DOMAIN Seen(book, mine) \cup {k}
  BY DEF Upsert, Seen
<1>2. \A j \in DOMAIN Seen(book, mine) \cup {k} :
        Seen(Upsert(book, k, v), mine)[j] = Upsert(Seen(book, mine), k, v)[j]
  BY <1>1, UpsertedRows, SeenAreRows DEF Seen, Upsert
<1>3. DOMAIN Seen(Upsert(book, k, v), mine) = DOMAIN Upsert(Seen(book, mine), k, v)
  BY <1>1 DEF Seen, Upsert
<1>4. Seen(Upsert(book, k, v), mine) = Upsert(Seen(book, mine), k, v)
  BY <1>2, <1>3 DEF Seen, Upsert
<1>5. QED
  BY <1>4, SeenAreRows DEF RowOf, Seen
---------------------------------------------------------------------------
LEMMA SeedStarts == SeedInit => SeedInv
<1> SUFFICES ASSUME SeedInit PROVE SeedInv
  OBVIOUS
<1>1. /\ usageRows = NoRows /\ userKey = Gone /\ unflushed = 0 /\ seed = NoSeed /\ fix = NoFix
  BY DEF SeedInit
<1>2. SeedShape
  BY <1>1, NoRowsAtAll DEF SeedShape, NoSeed, NoFix
<1>3. SeenRows = NoRows
  BY <1>1, NoRowsAtAll, SeenByNobody DEF SeenRows, NoSeed
<1>4. Used = RowSum(SeenRows) + unflushed
  BY <1>1, <1>3, NoRowsAtAll DEF Used
<1>5. QED
  BY <1>1, <1>2, <1>4 DEF SeedInv, NoSeed, NoFix

\* A step that overtakes the SETs under way.
LEMMA Overtaking ==
  ASSUME SeedShape, Overtake
  PROVE  /\ seed'.at = seed.at /\ seed'.mine = seed.mine /\ seed'.value = seed.value
         /\ seed.at = "refresh" => seed'.doubts # {}
         /\ fix'.at = fix.at /\ fix'.value = fix.value
         /\ fix.at = "set" => fix'.doubts # {}
         /\ seed' = [at |-> seed'.at, mine |-> seed'.mine, value |-> seed'.value, doubts |-> seed'.doubts]
         /\ fix' = [at |-> fix'.at, value |-> fix'.value, doubts |-> fix'.doubts]
<1>1. seed' = [at |-> seed.at, mine |-> seed.mine, value |-> seed.value,
               doubts |-> IF seed.at = "refresh" THEN seed.doubts \cup {"overtaken"} ELSE seed.doubts]
  BY DEF Overtake, SeedShape
<1>2. fix' = [at |-> fix.at, value |-> fix.value,
              doubts |-> IF fix.at = "set" THEN fix.doubts \cup {"overtaken"} ELSE fix.doubts]
  BY DEF Overtake, FixOvertaken, SeedShape
<1>3. QED
  BY <1>1, <1>2

LEMMA FixOvertaking ==
  ASSUME SeedShape, fix' = FixOvertaken
  PROVE  /\ fix'.at = fix.at /\ fix'.value = fix.value
         /\ fix.at = "set" => fix'.doubts # {}
         /\ fix' = [at |-> fix'.at, value |-> fix'.value, doubts |-> fix'.doubts]
<1>1. fix' = [at |-> fix.at, value |-> fix.value,
              doubts |-> IF fix.at = "set" THEN fix.doubts \cup {"overtaken"} ELSE fix.doubts]
  BY DEF FixOvertaken, SeedShape
<1>2. QED
  BY <1>1

LEMMA KeySet ==
  ASSUME NEW v \in Nat, SetKey(v)
  PROVE  userKey' # Gone /\ userKey'.used = v /\ Used' = v
<1>1. userKey' = [at |-> "held", used |-> v]
  BY DEF SetKey, Held
<1>2. userKey'.at = "held" /\ Gone.at = "gone"
  BY <1>1 DEF Gone
<1>3. QED
  BY <1>1, <1>2 DEF Used

LEMMA UsedIsNat == SeedShape => Used \in Nat
BY DEF SeedShape, Used

LEMMA SpendKeepsSeed == SeedInv /\ Spend => SeedInv'
<1> SUFFICES ASSUME SeedInv, Spend PROVE SeedInv'
  OBVIOUS
<1>1. SeedShape /\ Overtake /\ usageRows' = usageRows /\ doubts' = doubts /\ unflushed' = unflushed + 1
  BY DEF SeedInv, Spend
<1>2. Used \in Nat /\ Used + 1 \in Nat /\ SetKey(Used + 1)
  BY <1>1, UsedIsNat DEF Spend
<1>3. userKey' # Gone /\ userKey'.used = Used + 1 /\ Used' = Used + 1
  BY <1>2, KeySet
<1>4. /\ seed'.at = seed.at /\ seed'.mine = seed.mine /\ seed'.value = seed.value
      /\ seed.at = "refresh" => seed'.doubts # {}
      /\ fix'.at = fix.at /\ fix'.value = fix.value
      /\ fix.at = "set" => fix'.doubts # {}
      /\ seed' = [at |-> seed'.at, mine |-> seed'.mine, value |-> seed'.value, doubts |-> seed'.doubts]
      /\ fix' = [at |-> fix'.at, value |-> fix'.value, doubts |-> fix'.doubts]
  BY <1>1, Overtaking
<1>5. SeedShape'
  BY <1>1, <1>2, <1>3, <1>4 DEF SeedShape
<1>6. SeenRows' = SeenRows
  BY <1>1, <1>4 DEF SeenRows
<1>7. RowSum(SeenRows) \in Nat /\ unflushed \in Nat
  BY <1>1, SeenAreRows, SumOfRows DEF SeedShape, SeenRows
<1>8. ASSUME seed.at # "refresh", doubts = {} PROVE Used' = RowSum(SeenRows') + unflushed'
  <2>1. Used = RowSum(SeenRows) + unflushed
    BY <1>8 DEF SeedInv
  <2>2. RowSum(SeenRows') = RowSum(SeenRows)
    BY <1>6
  <2>3. QED
    BY <1>1, <1>3, <1>7, <2>1, <2>2
<1>9. QED
  BY <1>1, <1>4, <1>5, <1>8 DEF SeedInv

LEMMA RecordKeepsSeed == SeedInv /\ RecordUsage => SeedInv'
<1> SUFFICES ASSUME SeedInv, RecordUsage PROVE SeedInv'
  OBVIOUS
<1> DEFINE v == 1 + RowOf(usageRows, "total")
<1>1. /\ SeedShape /\ Overtake /\ userKey' = userKey /\ doubts' = doubts
      /\ unflushed \in Nat /\ unflushed > 0 /\ unflushed' = unflushed - 1
      /\ "total" \notin DOMAIN seed.mine
  BY DEF SeedInv, SeedShape, RecordUsage
<1>2. usageRows' = Upsert(usageRows, "total", v)
  BY DEF RecordUsage, RowOf
<1>3. Rows(usageRows) /\ Rows(seed.mine)
  BY <1>1 DEF SeedShape
<1>4. RowOf(usageRows, "total") \in Nat /\ v \in Nat
  BY <1>3 DEF Rows, RowOf
<1> HIDE DEF v
<1>5. /\ seed'.at = seed.at /\ seed'.mine = seed.mine /\ seed'.value = seed.value
      /\ seed.at = "refresh" => seed'.doubts # {}
      /\ fix'.at = fix.at /\ fix'.value = fix.value
      /\ fix.at = "set" => fix'.doubts # {}
      /\ seed' = [at |-> seed'.at, mine |-> seed'.mine, value |-> seed'.value, doubts |-> seed'.doubts]
      /\ fix' = [at |-> fix'.at, value |-> fix'.value, doubts |-> fix'.doubts]
  BY <1>1, Overtaking
<1>6. Rows(usageRows')
  BY <1>2, <1>3, <1>4, UpsertedRows
<1>7. SeedShape'
  BY <1>1, <1>3, <1>5, <1>6 DEF SeedShape
<1>8. RowSum(SeenRows') = RowSum(SeenRows) + 1
  <2>1. SeenRows' = Upsert(SeenRows, "total", v)
    <3>1. SeenRows' = Seen(Upsert(usageRows, "total", v), seed.mine)
      BY <1>2, <1>5 DEF SeenRows
    <3>2. QED
      BY <1>1, <1>3, <1>4, <3>1, SeenUpserted DEF SeenRows
  <2>2. RowOf(SeenRows, "total") = RowOf(usageRows, "total")
    BY <1>1, <1>3, <1>4, SeenUpserted DEF SeenRows
  <2>3. Rows(SeenRows)
    BY <1>3, SeenAreRows DEF SeenRows
  <2>4. RowSum(SeenRows) \in Nat
    BY <2>3, SumOfRows
  <2>5. RowSum(Upsert(SeenRows, "total", v)) = RowSum(SeenRows) - RowOf(SeenRows, "total") + v
    BY <1>4, <2>3, UpsertedSum
  <2>6. v = 1 + RowOf(SeenRows, "total") /\ RowOf(SeenRows, "total") \in Nat
    BY <1>4, <2>2 DEF v
  <2>7. RowSum(SeenRows') = RowSum(SeenRows) - RowOf(SeenRows, "total") + v
    BY <2>1, <2>5
  <2>8. QED
    BY <2>4, <2>6, <2>7
<1>9. RowSum(SeenRows) \in Nat
  BY <1>3, SeenAreRows, SumOfRows DEF SeenRows
<1>10. ASSUME seed.at # "refresh", doubts = {} PROVE Used' = RowSum(SeenRows') + unflushed'
  <2>1. Used = RowSum(SeenRows) + unflushed
    BY <1>10 DEF SeedInv
  <2>2. Used' = Used
    BY <1>1 DEF Used
  <2>3. QED
    BY <1>1, <1>8, <1>9, <2>1, <2>2
<1>11. QED
  BY <1>1, <1>5, <1>7, <1>10 DEF SeedInv

LEMMA LossKeepsSeed == SeedInv /\ LoseKey => SeedInv'
<1> SUFFICES ASSUME SeedInv, LoseKey PROVE SeedInv'
  OBVIOUS
<1>1. /\ SeedShape /\ Overtake /\ userKey' = Gone /\ doubts' # {}
      /\ UNCHANGED <<usageRows, unflushed>>
  BY DEF SeedInv, LoseKey
<1>2. /\ seed'.at = seed.at /\ seed'.mine = seed.mine /\ seed'.value = seed.value
      /\ seed.at = "refresh" => seed'.doubts # {}
      /\ fix'.at = fix.at /\ fix'.value = fix.value
      /\ fix.at = "set" => fix'.doubts # {}
      /\ seed' = [at |-> seed'.at, mine |-> seed'.mine, value |-> seed'.value, doubts |-> seed'.doubts]
      /\ fix' = [at |-> fix'.at, value |-> fix'.value, doubts |-> fix'.doubts]
  BY <1>1, Overtaking
<1>3. SeedShape'
  BY <1>1, <1>2 DEF SeedShape
<1>4. QED
  BY <1>1, <1>2, <1>3 DEF SeedInv

\* The administrator's transaction.
LEMMA ItemKeepsSeed ==
  ASSUME SeedInv, NEW k, NEW amount \in Amounts, SeedItem(k, amount)
  PROVE  SeedInv'
<1> DEFINE mine == Upsert(seed.mine, k, amount)
           seen == Seen(usageRows, mine)
           value == IF k = "total" THEN amount ELSE RowSum(seen)
           new == Asked \cup (IF k = "total" THEN Others(seen, k) ELSE {})
<1>1. SeedShape /\ UNCHANGED <<usageRows, userKey, unflushed, fix>> /\ amount \in Nat
  BY SeedAssumption DEF SeedInv, SeedItem
<1>2. seed' = [at |-> "refresh", mine |-> mine, value |-> value, doubts |-> new]
  BY DEF SeedItem
<1>3. Rows(usageRows) /\ Rows(seed.mine)
  BY <1>1 DEF SeedShape
<1>4. Rows(mine) /\ k \in DOMAIN mine /\ mine[k] = amount
  <2>1. Rows(mine)
    BY <1>1, <1>3, UpsertedRows
  <2>2. k \in DOMAIN mine /\ mine[k] = amount
    BY DEF Upsert
  <2>3. QED
    BY <2>1, <2>2
<1> HIDE DEF mine
<1>5. Rows(seen) /\ RowSum(seen) \in Nat
  BY <1>3, <1>4, SeenAreRows, SumOfRows
<1>6. k \in DOMAIN seen /\ seen[k] = amount
  BY <1>4 DEF Seen
<1>7. SeenRows' = seen
  BY <1>1, <1>2 DEF SeenRows
<1> HIDE DEF seen
<1>8. ASSUME new = {} PROVE value = RowSum(seen) /\ unflushed = 0
  <2>1. unflushed = 0
    BY <1>1, <1>8 DEF Asked, SeedShape
  <2>2. CASE k = "total"
    <3>1. RowSum(seen) = seen[k]
      BY <1>5, <1>6, <1>8, <2>2, SumOfOneRow
    <3>2. QED
      BY <1>6, <2>1, <2>2, <3>1
  <2>3. QED
    BY <2>1, <2>2
<1>9. value \in Nat
  BY <1>1, <1>5
<1> HIDE DEF new, value
<1>10. SeedShape'
  BY <1>1, <1>2, <1>4, <1>9 DEF SeedShape
<1>11. seed'.at = "refresh" /\ seed'.value = value /\ seed'.doubts = new
  BY <1>2
<1>12. seed'.doubts = {} => seed'.value = RowSum(SeenRows') /\ unflushed' = 0
  BY <1>1, <1>7, <1>8, <1>11
<1>13. QED
  BY <1>1, <1>10, <1>11, <1>12 DEF SeedInv

\* What a SET leaves of the transaction, whether it was applied or not.
LEMMA AfterRefresh ==
  ASSUME SeedShape, seed.at = "refresh", fix' = FixOvertaken,
         seed' = [at |-> "open", mine |-> seed.mine, value |-> 0, doubts |-> {}],
         UNCHANGED <<usageRows, unflushed>>,
         userKey' = userKey \/ SetKey(seed.value)
  PROVE  /\ SeedShape' /\ seed'.at = "open" /\ SeenRows' = SeenRows
         /\ fix'.at = "set" => fix'.doubts # {}
<1>1. seed' = [at |-> "open", mine |-> seed.mine, value |-> 0, doubts |-> {}]
  OBVIOUS
<1>2. /\ fix'.at = fix.at /\ fix'.value = fix.value
      /\ fix.at = "set" => fix'.doubts # {}
      /\ fix' = [at |-> fix'.at, value |-> fix'.value, doubts |-> fix'.doubts]
  BY FixOvertaking
<1>3. userKey' # Gone => userKey'.used \in Nat
  BY KeySet DEF SeedShape
<1>4. SeedShape'
  <2>1. Rows(usageRows') /\ Rows(seed'.mine) /\ unflushed' \in Nat
    BY <1>1 DEF SeedShape
  <2>2. /\ seed' = [at |-> seed'.at, mine |-> seed'.mine, value |-> seed'.value, doubts |-> seed'.doubts]
        /\ seed'.value \in Nat /\ seed'.at = "open"
    <3>1. seed'.at = "open" /\ seed'.mine = seed.mine /\ seed'.value = 0 /\ seed'.doubts = {}
      BY <1>1
    <3>2. seed' = [at |-> seed'.at, mine |-> seed'.mine, value |-> seed'.value,
                   doubts |-> seed'.doubts]
      BY <1>1, <3>1
    <3>3. QED
      BY <3>1, <3>2
  <2>3. fix'.value \in Nat
    BY <1>2 DEF SeedShape
  <2>4. QED
    BY <1>2, <1>3, <2>1, <2>2, <2>3 DEF SeedShape
<1>5. QED
  BY <1>1, <1>2, <1>4 DEF SeenRows

LEMMA RefreshKeepsSeed == SeedInv /\ RefreshTotal => SeedInv'
<1> SUFFICES ASSUME SeedInv, RefreshTotal PROVE SeedInv'
  OBVIOUS
<1>1. /\ SeedShape /\ seed.at = "refresh" /\ fix' = FixOvertaken /\ doubts' = seed.doubts
      /\ seed' = [at |-> "open", mine |-> seed.mine, value |-> 0, doubts |-> {}]
      /\ UNCHANGED <<usageRows, unflushed>> /\ SetKey(seed.value) /\ seed.value \in Nat
  BY DEF SeedInv, SeedShape, RefreshTotal, NoSeed
<1>2. /\ SeedShape' /\ seed'.at = "open" /\ SeenRows' = SeenRows
      /\ fix'.at = "set" => fix'.doubts # {}
  BY <1>1, AfterRefresh
<1>3. Used' = seed.value
  BY <1>1, KeySet
<1>4. ASSUME doubts' = {} PROVE Used' = RowSum(SeenRows') + unflushed'
  <2>1. seed.value = RowSum(SeenRows) /\ unflushed = 0
    BY <1>1, <1>4 DEF SeedInv
  <2>2. RowSum(SeenRows') = seed.value /\ unflushed' = 0
    BY <1>1, <1>2, <2>1
  <2>3. QED
    BY <1>1, <1>3, <2>2
<1>5. QED
  BY <1>2, <1>4 DEF SeedInv

LEMMA FailedRefreshKeepsSeed == SeedInv /\ RefreshFails => SeedInv'
<1> SUFFICES ASSUME SeedInv, RefreshFails PROVE SeedInv'
  OBVIOUS
<1>1. /\ SeedShape /\ seed.at = "refresh" /\ fix' = FixOvertaken /\ doubts' # {}
      /\ seed' = [at |-> "open", mine |-> seed.mine, value |-> 0, doubts |-> {}]
      /\ UNCHANGED <<usageRows, unflushed>> /\ (userKey' = userKey \/ SetKey(seed.value))
  BY DEF SeedInv, RefreshFails, NoSeed
<1>2. /\ SeedShape' /\ seed'.at = "open" /\ SeenRows' = SeenRows
      /\ fix'.at = "set" => fix'.doubts # {}
  BY <1>1, AfterRefresh
<1>3. QED
  BY <1>1, <1>2 DEF SeedInv

LEMMA CommitKeepsSeed == SeedInv /\ CommitSeed => SeedInv'
<1> SUFFICES ASSUME SeedInv, CommitSeed PROVE SeedInv'
  OBVIOUS
<1>1. /\ SeedShape /\ seed.at = "open" /\ usageRows' = SeenRows /\ fix' = FixOvertaken
      /\ seed' = [at |-> "idle", mine |-> NoRows, value |-> 0, doubts |-> {}]
      /\ UNCHANGED <<userKey, unflushed, doubts>>
  BY DEF SeedInv, CommitSeed, NoSeed
<1>2. /\ fix'.at = fix.at /\ fix'.value = fix.value
      /\ fix.at = "set" => fix'.doubts # {}
      /\ fix' = [at |-> fix'.at, value |-> fix'.value, doubts |-> fix'.doubts]
  BY <1>1, FixOvertaking
<1>3. Rows(SeenRows)
  BY <1>1, SeenAreRows DEF SeedShape, SeenRows
<1>4. SeedShape'
  BY <1>1, <1>2, <1>3, NoRowsAtAll DEF SeedShape
<1>5. SeenRows' = SeenRows
  <2>1. SeenRows' = Seen(SeenRows, NoRows)
    BY <1>1 DEF SeenRows
  <2>2. QED
    BY <1>3, <2>1, SeenByNobody
<1>6. Used' = Used
  BY <1>1 DEF Used
<1>7. ASSUME doubts' = {} PROVE Used' = RowSum(SeenRows') + unflushed'
  <2>1. Used = RowSum(SeenRows) + unflushed
    BY <1>1, <1>7 DEF SeedInv
  <2>2. RowSum(SeenRows') = RowSum(SeenRows)
    BY <1>5
  <2>3. QED
    BY <1>1, <1>6, <2>1, <2>2
<1>8. QED
  BY <1>1, <1>2, <1>4, <1>7 DEF SeedInv

LEMMA AbortKeepsSeed == SeedInv /\ AbortSeed => SeedInv'
<1> SUFFICES ASSUME SeedInv, AbortSeed PROVE SeedInv'
  OBVIOUS
<1>1. /\ SeedShape /\ doubts' # {}
      /\ seed' = [at |-> "idle", mine |-> NoRows, value |-> 0, doubts |-> {}]
      /\ UNCHANGED <<usageRows, userKey, unflushed, fix>>
  BY DEF SeedInv, AbortSeed, NoSeed
<1>2. SeedShape'
  BY <1>1, NoRowsAtAll DEF SeedShape
<1>3. QED
  BY <1>1, <1>2 DEF SeedInv
---------------------------------------------------------------------------
\* A restore, by the gateway or by the operator's script.
LEMMA FindingKeepsSeed ==
  ASSUME SeedInv, UNCHANGED <<usageRows, userKey, unflushed, seed, doubts>>,
         NEW k \in DOMAIN usageRows,
         NEW value, value = usageRows[k] \/ value = RowSum(usageRows),
         NEW why, why = {} => unflushed = 0 /\ value = RowSum(usageRows),
         fix' = [at |-> "set", value |-> value, doubts |-> why]
  PROVE  SeedInv'
<1>1. SeedShape
  BY DEF SeedInv
<1>2. value \in Nat
  BY <1>1, SumOfRows DEF SeedShape, Rows
<1>3. SeedShape'
  BY <1>1, <1>2 DEF SeedShape
<1>4. SeenRows' = SeenRows /\ Used' = Used
  BY DEF SeenRows, Used
<1>5. QED
  BY <1>3, <1>4 DEF SeedInv

LEMMA NothingAsked == SeedShape => (Asked = {} => unflushed = 0)
BY DEF SeedShape, Asked

LEMMA RestoresKeepSeed == SeedInv /\ (FindRow \/ ScriptFindsRow) => SeedInv'
<1> SUFFICES ASSUME SeedInv, FindRow \/ ScriptFindsRow PROVE SeedInv'
  OBVIOUS
<1>1. SeedShape /\ UNCHANGED <<usageRows, userKey, unflushed, seed, doubts>>
  BY DEF SeedInv, FindRow, ScriptFindsRow
<1>2. CASE FindRow
  <2>1. fix' = [at |-> "set", value |-> RowSum(usageRows), doubts |-> Asked]
    BY <1>2 DEF FindRow
  <2>2. PICK k \in DOMAIN usageRows : TRUE
    <3>1. Cardinality(DOMAIN usageRows) = 1
      BY <1>2 DEF FindRow
    <3>2. QED
      BY <3>1, FS_EmptySet
  <2>3. Asked = {} => unflushed = 0 /\ RowSum(usageRows) = RowSum(usageRows)
    BY <1>1, NothingAsked
  <2>4. QED
    BY <1>1, <2>1, <2>3, FindingKeepsSeed
<1>3. CASE ScriptFindsRow
  <2>1. PICK k \in DOMAIN usageRows :
          fix' = [at |-> "set", value |-> usageRows[k], doubts |-> Asked \cup Others(usageRows, k)]
    BY <1>3 DEF ScriptFindsRow
  <2>2. Asked \cup Others(usageRows, k) = {} => unflushed = 0 /\ usageRows[k] = RowSum(usageRows)
    BY <1>1, NothingAsked, SumOfOneRow DEF SeedShape
  <2>3. QED
    BY <1>1, <2>1, <2>2, FindingKeepsSeed
<1>4. QED
  BY <1>2, <1>3

LEMMA RestoredKeepsSeed == SeedInv /\ SetFromRow => SeedInv'
<1> SUFFICES ASSUME SeedInv, SetFromRow PROVE SeedInv'
  OBVIOUS
<1>1. /\ SeedShape /\ fix.at = "set" /\ SetKey(fix.value) /\ fix.value \in Nat
      /\ doubts' = fix.doubts \cup (IF seed.at = "idle" THEN {} ELSE {"overtaken"})
      /\ fix' = [at |-> "idle", value |-> 0, doubts |-> {}]
      /\ UNCHANGED <<usageRows, unflushed, seed>>
  BY DEF SeedInv, SeedShape, SetFromRow, NoFix
<1>2. userKey' # Gone /\ userKey'.used = fix.value /\ Used' = fix.value
  BY <1>1, KeySet
<1>3. SeedShape'
  BY <1>1, <1>2 DEF SeedShape
<1>4. SeenRows' = SeenRows
  BY <1>1 DEF SeenRows
<1>5. ASSUME doubts' = {} PROVE Used' = RowSum(SeenRows') + unflushed'
  <2>1. seed.at = "idle" /\ fix.doubts = {}
    BY <1>1, <1>5
  <2>2. seed.mine = NoRows /\ Rows(usageRows)
    BY <1>1, <2>1 DEF SeedShape
  <2>3. SeenRows = usageRows
    BY <2>2, SeenByNobody DEF SeenRows
  <2>4. fix.value = RowSum(usageRows) /\ unflushed = 0
    BY <1>1, <2>1 DEF SeedInv
  <2>5. Used' = RowSum(SeenRows') /\ unflushed' = 0
    BY <1>1, <1>2, <1>4, <2>3, <2>4
  <2>6. QED
    BY <1>1, <1>2, <2>5
<1>6. QED
  BY <1>1, <1>3, <1>4, <1>5 DEF SeedInv

LEMMA SeedAlways == SeedSpec => []SeedInv
<1>1. SeedInv /\ UNCHANGED seedVars => SeedInv'
  <2> SUFFICES ASSUME SeedInv, UNCHANGED seedVars PROVE SeedInv'
    OBVIOUS
  <2>1. UNCHANGED <<usageRows, userKey, unflushed, seed, fix, doubts>>
    BY DEF seedVars
  <2>2. SeenRows' = SeenRows /\ Used' = Used
    BY <2>1 DEF SeenRows, Used
  <2>3. QED
    BY <2>1, <2>2 DEF SeedInv, SeedShape
<1>2. SeedInv /\ SeedNext => SeedInv'
  BY SpendKeepsSeed, RecordKeepsSeed, LossKeepsSeed, ItemKeepsSeed, RefreshKeepsSeed,
     FailedRefreshKeepsSeed, CommitKeepsSeed, AbortKeepsSeed, RestoresKeepSeed,
     RestoredKeepsSeed DEF SeedNext
<1>3. QED
  BY SeedStarts, <1>1, <1>2, PTL DEF SeedSpec

\* However requests, records, seeds, restores and losses interleave, a counter
\* that differs from the rows has one of the named causes
\* (BudgetService.seed_spent, check_budget, the operator's script).
THEOREM DifferencesHaveCause == SeedSpec => []CounterMatchesRows
<1>1. SeedInv => CounterMatchesRows
  <2> SUFFICES ASSUME SeedInv, seed.at = "idle", doubts = {}
               PROVE  Used = RowSum(usageRows) + unflushed
    BY DEF CounterMatchesRows
  <2>1. Rows(usageRows) /\ seed.mine = NoRows
    BY DEF SeedInv, SeedShape
  <2>2. SeenRows = usageRows
    BY <2>1, SeenByNobody DEF SeenRows
  <2>3. QED
    BY <2>2 DEF SeedInv
<1>2. QED
  BY <1>1, SeedAlways, PTL
---------------------------------------------------------------------------
(***************************************************************************)
(* The stand-in of the rate limits while Redis is down.                     *)
(***************************************************************************)
Tallies == [WindowKeys -> Nat]

SlotsInv ==
  /\ slots \in Tallies /\ passed \in Tallies /\ refused \in Tallies
  /\ NoisyUserIsContained

LEMMA WindowsApart ==
  /\ "team" \notin WindowUsers /\ "global" \notin WindowUsers /\ IsFiniteSet(WindowUsers)
  /\ \A c \in Evals : CallerOf[c] \in WindowUsers
  /\ {"team", "global"} \subseteq WindowKeys /\ WindowUsers \subseteq WindowKeys
BY BreakerAssumption DEF WindowKeys

LEMMA NoTallies ==
  NoCounts \in Tallies /\ SumFunctionOnSet(NoCounts, WindowUsers) = 0
<1>1. \A u \in WindowUsers : NoCounts[u] \in Nat /\ NoCounts[u] <= 0
  BY WindowsApart DEF NoCounts
<1>2. SumFunctionOnSet(NoCounts, WindowUsers) <= Cardinality(WindowUsers) * 0
  BY <1>1, WindowsApart, SumBounded
<1>3. SumFunctionOnSet(NoCounts, WindowUsers) \in Nat
  BY <1>1, WindowsApart, SumIsNat
<1>4. Cardinality(WindowUsers) \in Nat
  BY WindowsApart, FS_CardinalityType
<1>5. NoCounts \in Tallies
  BY DEF NoCounts, Tallies
<1>6. QED
  BY <1>2, <1>3, <1>4, <1>5

\* The first window that is full, if any.
LEMMA FirstFull ==
  ASSUME NEW c \in Evals
  PROVE  IF FullAt(c) = {} THEN TRUE ELSE Min(FullAt(c)) \in 1..3
<1>1. FullAt(c) \subseteq 1..3
  BY DEF FullAt
<1>2. ASSUME FullAt(c) # {} PROVE \E m \in FullAt(c) : \A x \in FullAt(c) : m <= x
  BY <1>1, <1>2
<1>3. QED
  BY <1>1, <1>2 DEF Min

\* The stand-in counts the request at the n narrowest windows.
Counts(c, n) ==
  LET u == CallerOf[c]
      counted == {Keys(c)[i] : i \in 1..n}
  IN /\ slots' = [k \in WindowKeys |-> slots[k] + (IF k \in counted THEN 1 ELSE 0)]
     /\ IF n = 3
        THEN /\ passed' = [k \in WindowKeys |-> passed[k] + (IF k \in counted THEN 1 ELSE 0)]
             /\ refused' = refused
        ELSE /\ passed' = passed
             /\ refused' = [refused EXCEPT ![Keys(c)[n + 1]] =
                              IF n = 0 THEN refused[Keys(c)[n + 1]] ELSE refused[Keys(c)[n + 1]] + 1]

LEMMA StandInCounts ==
  ASSUME NEW c \in Evals, StandIn(c)
  PROVE  \E n \in 0..3 : Counts(c, n)
<1> DEFINE last == IF FullAt(c) = {} THEN 4 ELSE Min(FullAt(c))
<1>1. last \in 1..4
  BY FirstFull
<1>2. /\ slots' = [k \in WindowKeys |-> slots[k] + (IF k \in {Keys(c)[i] : i \in 1..(last - 1)}
                                                 THEN 1 ELSE 0)]
      /\ IF last = 4
         THEN /\ passed' = [k \in WindowKeys |-> passed[k] + (IF k \in {Keys(c)[i] : i \in 1..(last - 1)}
                                                              THEN 1 ELSE 0)]
              /\ refused' = refused
         ELSE /\ passed' = passed
              /\ refused' = [refused EXCEPT ![Keys(c)[last]] =
                              IF last = 1 THEN refused[Keys(c)[last]] ELSE refused[Keys(c)[last]] + 1]
  BY DEF StandIn
<1> HIDE DEF last
<1>3. last - 1 \in 0..3 /\ (last = 4 <=> last - 1 = 3) /\ (last = 1 <=> last - 1 = 0)
      /\ (last - 1) + 1 = last
  BY <1>1
<1>4. Counts(c, last - 1)
  BY <1>2, <1>3 DEF Counts
<1>5. QED
  BY <1>3, <1>4

One(b) == IF b THEN 1 ELSE 0

LEMMA CountedAt ==
  ASSUME NEW c \in Evals, NEW n \in 0..3
  PROVE  LET counted == {Keys(c)[i] : i \in 1..n}
         IN /\ CallerOf[c] \in counted <=> n >= 1
            /\ "team" \in counted <=> n >= 2
            /\ "global" \in counted <=> n = 3
            /\ \A u \in WindowUsers \ {CallerOf[c]} : u \notin counted
<1>1. Keys(c)[1] = CallerOf[c] /\ Keys(c)[2] = "team" /\ Keys(c)[3] = "global"
  BY DEF Keys
<1>2. \A i \in 1..n : i = 1 \/ (i = 2 /\ n >= 2) \/ (i = 3 /\ n = 3)
  OBVIOUS
<1>3. CallerOf[c] # "team" /\ CallerOf[c] # "global"
  BY WindowsApart
<1>4. (n >= 1 => 1 \in 1..n) /\ (n >= 2 => 2 \in 1..n) /\ (n = 3 => 3 \in 1..n)
  OBVIOUS
<1>5. QED
  BY <1>1, <1>2, <1>3, <1>4, WindowsApart

LEMMA ThreeAtOnce ==
  ASSUME NEW p \in Nat, NEW t \in Nat, NEW g \in Nat, NEW a \in Nat, NEW b \in Nat, NEW d \in Nat
  PROVE  (p + t + g) + (a + b + d) = (p + d) + (t + a) + (g + b)
OBVIOUS

LEMMA CountsKeep ==
  ASSUME SlotsInv, NEW c \in Evals, NEW n \in 0..3, Counts(c, n)
  PROVE  SlotsInv'
<1> DEFINE u == CallerOf[c]
           counted == {Keys(c)[i] : i \in 1..n}
<1>1. /\ slots \in Tallies /\ passed \in Tallies /\ refused \in Tallies
      /\ u \in WindowKeys /\ {"team", "global"} \subseteq WindowKeys
  BY WindowsApart DEF SlotsInv
<1>2. /\ u \in counted <=> n >= 1
      /\ "team" \in counted <=> n >= 2
      /\ "global" \in counted <=> n = 3
      /\ \A v \in WindowUsers \ {u} : v \notin counted
  BY CountedAt
<1>3. /\ slots' = [k \in WindowKeys |-> slots[k] + (IF k \in counted THEN 1 ELSE 0)]
      /\ IF n = 3 THEN /\ passed' = [k \in WindowKeys |-> passed[k] + (IF k \in counted THEN 1 ELSE 0)]
                       /\ refused' = refused
         ELSE passed' = passed
      /\ n # 3 => refused' = [refused EXCEPT ![Keys(c)[n + 1]] =
                                IF n = 0 THEN refused[Keys(c)[n + 1]] ELSE refused[Keys(c)[n + 1]] + 1]
  BY DEF Counts
<1>4. /\ n = 0 => refused' = refused
      /\ n = 1 => refused' = [refused EXCEPT !["team"] = refused["team"] + 1]
      /\ n = 2 => refused' = [refused EXCEPT !["global"] = refused["global"] + 1]
  <2>1. Keys(c)[1] = u /\ Keys(c)[2] = "team" /\ Keys(c)[3] = "global"
    BY DEF Keys
  <2>2. CASE n = 0
    <3>1. refused' = [refused EXCEPT ![u] = refused[u]]
      BY <1>3, <2>1, <2>2
    <3>2. QED
      BY <1>1, <2>2, <3>1 DEF Tallies
  <2>3. CASE n = 1
    BY <1>3, <2>1, <2>3
  <2>4. CASE n = 2
    BY <1>3, <2>1, <2>4
  <2>5. QED
    BY <2>2, <2>3, <2>4
<1> HIDE DEF counted
<1>5. slots' \in Tallies /\ passed' \in Tallies
  BY <1>1, <1>3 DEF Tallies
<1>6. refused' \in Tallies
  BY <1>1, <1>3, <1>4 DEF Tallies
<1>7. /\ slots'["global"] = slots["global"] + One(n = 3) /\ passed'["global"] = passed["global"] + One(n = 3)
      /\ slots'["team"] = slots["team"] + One(n >= 2) /\ slots'[u] = slots[u] + One(n >= 1)
      /\ passed'["team"] = passed["team"] + One(n = 3)
  BY <1>1, <1>2, <1>3 DEF One, Tallies
<1>8. /\ refused'["team"] = refused["team"] + One(n = 1)
      /\ refused'["global"] = refused["global"] + One(n = 2)
  BY <1>1, <1>3, <1>4 DEF One, Tallies
<1>9. SumFunctionOnSet(slots', WindowUsers) = SumFunctionOnSet(slots, WindowUsers) + One(n >= 1)
  <2>1. \A v \in WindowUsers : slots[v] \in Int /\ slots'[v] \in Int
    BY <1>1, <1>5, WindowsApart DEF Tallies
  <2>2. \A v \in WindowUsers \ {u} : slots'[v] = slots[v]
    BY <1>1, <1>2, <1>3, WindowsApart DEF Tallies
  <2>3. u \in WindowUsers /\ IsFiniteSet(WindowUsers)
    BY WindowsApart
  <2>4. SumFunctionOnSet(slots', WindowUsers) = SumFunctionOnSet(slots, WindowUsers) - slots[u] + slots'[u]
    BY <2>1, <2>2, <2>3, SumChanges
  <2>5. SumFunctionOnSet(slots, WindowUsers) \in Int
    BY <2>1, <2>3, SumIsInt
  <2>6. slots[u] \in Int /\ One(n >= 1) \in Int
    BY <2>1, <2>3 DEF One
  <2>7. QED
    BY <1>7, <2>4, <2>5, <2>6
<1>10. /\ slots["global"] = passed["global"]
       /\ slots["team"] = passed["team"] + refused["global"]
       /\ SumFunctionOnSet(slots, WindowUsers) = passed["global"] + refused["team"] + refused["global"]
  <2>1. NoisyUserIsContained
    BY DEF SlotsInv
  <2>2. QED
    BY ONLY <2>1, Zenon DEF NoisyUserIsContained
<1>11. \A k \in {"team", "global"} : slots[k] \in Nat /\ passed[k] \in Nat /\ refused[k] \in Nat
  BY <1>1 DEF Tallies
<1>12. NoisyUserIsContained'
  <2>1. One(n >= 2) = One(n = 2) + One(n = 3) /\ One(n >= 1) = One(n = 1) + One(n = 2) + One(n = 3)
    BY DEF One
  <2>2. One(n = 1) \in Nat /\ One(n = 2) \in Nat /\ One(n = 3) \in Nat
    BY DEF One
  <2>3. slots'["global"] = passed'["global"]
    BY <1>7, <1>10
  <2>4. slots'["team"] = passed'["team"] + refused'["global"]
    BY <1>7, <1>8, <1>10, <1>11, <2>1, <2>2
  <2>5. SumFunctionOnSet(slots', WindowUsers) = passed'["global"] + refused'["team"] + refused'["global"]
    <3>1. SumFunctionOnSet(slots', WindowUsers)
            = (passed["global"] + refused["team"] + refused["global"])
                + (One(n = 1) + One(n = 2) + One(n = 3))
      BY <1>9, <1>10, <2>1, Zenon
    <3>2. (passed["global"] + refused["team"] + refused["global"])
                + (One(n = 1) + One(n = 2) + One(n = 3))
            = (passed["global"] + One(n = 3)) + (refused["team"] + One(n = 1))
                + (refused["global"] + One(n = 2))
      BY <1>11, <2>2, ThreeAtOnce
    <3>3. QED
      BY <1>7, <1>8, <3>1, <3>2, Zenon
  <2>6. QED
    BY <2>3, <2>4, <2>5, Zenon DEF NoisyUserIsContained
<1>13. QED
  BY <1>5, <1>6, <1>12 DEF SlotsInv

LEMMA SlotsAlways == EvalSpec => []SlotsInv
<1>1. EvalInit => SlotsInv
  <2> SUFFICES ASSUME EvalInit PROVE SlotsInv
    OBVIOUS
  <2>1. slots = NoCounts /\ passed = NoCounts /\ refused = NoCounts
    BY DEF EvalInit
  <2>2. NoCounts["team"] = 0 /\ NoCounts["global"] = 0
    BY WindowsApart DEF NoCounts
  <2>3. QED
    BY <2>1, <2>2, NoTallies DEF SlotsInv, NoisyUserIsContained
<1>2. SlotsInv /\ UNCHANGED windows => SlotsInv'
  BY DEF SlotsInv, NoisyUserIsContained, windows
<1>3. ASSUME SlotsInv, NewWindow PROVE SlotsInv'
  <2>1. slots' = NoCounts /\ passed' = NoCounts /\ refused' = NoCounts
    BY <1>3 DEF NewWindow
  <2>2. NoCounts["team"] = 0 /\ NoCounts["global"] = 0
    BY WindowsApart DEF NoCounts
  <2>3. QED
    BY <2>1, <2>2, NoTallies DEF SlotsInv, NoisyUserIsContained
<1>4. ASSUME SlotsInv, NEW c \in Evals, ReachLimiter(c) PROVE SlotsInv'
  <2>1. CASE StandIn(c)
    BY <1>4, <2>1, StandInCounts, CountsKeep
  <2>2. QED
    BY <1>2, <1>4, <2>1 DEF ReachLimiter
<1>5. ASSUME SlotsInv, EvalNext PROVE SlotsInv'
  <2>1. ASSUME NEW c \in Evals, GuardEval(c) \/ EvalEnds(c) \/ CancelEval(c) PROVE UNCHANGED windows
    BY <2>1 DEF GuardEval, EvalEnds, CancelEval
  <2>2. RedisFlips \/ LevelFlips \/ BreakerTick => UNCHANGED windows
    BY DEF RedisFlips, LevelFlips, BreakerTick
  <2>3. QED
    BY <1>2, <1>3, <1>4, <1>5, <2>1, <2>2 DEF EvalNext
<1>6. SlotsInv /\ UNCHANGED evalVars => SlotsInv'
  BY <1>2 DEF evalVars, windows
<1>7. QED
  BY <1>1, <1>5, <1>6, PTL DEF EvalSpec

\* While the stand-in counts for Redis, a user over the limit spends nobody
\* else's slots, for any users, shares and requests (InMemoryRateLimiter.check).
THEOREM NoisyUserStaysContained == EvalSpec => []NoisyUserIsContained
<1>1. SlotsInv => NoisyUserIsContained
  BY DEF SlotsInv
<1>2. QED
  BY <1>1, SlotsAlways, PTL

-----------------------------------------------------------------------------
(* The copies of budgets: what a call of admin-api is like at each stage.   *)

ToWrite(x) == {w.of : w \in Range(x.todo)}
ToDelete(x) == Range(x.dels)
RowsOf(x) == x.seen \cup x.held \cup x.new
WholeRows(some) == {r.of : r \in some}
EarlyStages == {"update", "insert"}

\* What a copy may be right about: its limit, and whether the app has one.
Facts == {<<t, t, "limit">> : t \in Targets} \cup {<<AppT(u), UserT(u), "gate">> : u \in AppUsers}

StageOK(x) ==
  /\ x.op = "none" <=> x.at = "idle"
  /\ x.op \in {"warm", "exchange"} => x.at \in {"set", "commit"}
  /\ x.op = "set team" => x.at \in EarlyStages \cup {"del", "set", "commit"}
  /\ x.op = "set user" => x.at \in EarlyStages \cup {"del", "get", "set", "commit"}
  /\ x.op = "set app" => x.at \in EarlyStages \cup {"del", "set", "refresh", "set again", "commit"}
  /\ x.op = "clear app" => x.at \in {"insert", "del", "del again", "refresh", "set again", "commit"}
  /\ x.op = "delete user" => x.at \in {"insert", "del", "commit"}
  /\ x.op \in {"allocate", "transfer"} => x.at \in EarlyStages \cup {"del", "commit"}
  /\ x.at = "idle" => x = IdleCall

PartiesOK(x) ==
  /\ x.op \in {"set app", "clear app"} => x.user \in AppUsers
  /\ x.op \in {"set user", "exchange"} => x.user \in Users
  /\ x.at = "set again" => x.buffer # NoCopy
  /\ x.at = "set" /\ x.op \in {"warm", "set user", "exchange"} => x.buffer # NoCopy

QueuesOK(x) ==
  /\ x.at \in EarlyStages => x.todo # <<>>
  /\ x.at \notin EarlyStages => x.todo = <<>>
  /\ x.at = "del" => x.dels # <<>>
  /\ x.at \notin EarlyStages \cup {"del"} => x.dels = <<>>

TargetOf(x) == IF x.op = "set team" THEN TeamT
               ELSE IF x.op = "set user" THEN UserT(x.user) ELSE AppT(x.user)

WritesOne(x) ==
  /\ x.op \in {"set team", "set user", "set app"} =>
       \E limit \in Limits :
         IF x.at \in EarlyStages
         THEN x.todo = <<Write(TargetOf(x), limit)>> /\ x.held = {} /\ x.new = {}
         ELSE x.new = {[of |-> TargetOf(x), n |-> x.n, limit |-> limit]}
  /\ x.op \in {"delete user", "clear app"} /\ x.at = "insert" => Len(x.todo) = 1

\* Until the rows are written, all copies they bear on are still to be deleted.
Covered(x) ==
  x.at \in EarlyStages =>
    \A f \in Facts : f[1] \in ToWrite(x) \cup WholeRows(RowsOf(x)) => f[2] \in ToDelete(x)

CallOK(x) ==
  /\ x \in CallRecords
  /\ StageOK(x) /\ PartiesOK(x) /\ QueuesOK(x) /\ WritesOne(x) /\ Covered(x)

Numbered ==
  /\ \A c \in Calls : call[c].at # "idle" => call[c].n \in 1..begun
  /\ \A c, d \in Calls : c # d /\ call[c].at # "idle" /\ call[d].at # "idle" => call[c].n # call[d].n
  /\ \A t \in Targets : cache[t] # NoCopy => cache[t].by <= begun

ConfigsShape == ConfigsTypeOK /\ \A c \in Calls : CallOK(call[c])

ChangesIn(x, t) == \E r \in x.held \cup x.new : r.of = t
PastIn(x, k) == x.at \notin {"idle", "update", "insert"} /\ k \notin Range(x.dels)
Bears(x, f) == ChangesIn(x, f[1]) /\ PastIn(x, f[2])

\* The same call, a step later.
LateStages == {"refresh", "set again", "commit"}
Carries(x, y) ==
  /\ CallOK(y) /\ y.at # "idle"
  /\ y.n = x.n /\ y.op = x.op /\ y.user = x.user /\ y.raced = x.raced
  /\ x.at \notin EarlyStages => y.at \notin EarlyStages /\ y.held = x.held /\ y.new = x.new
  /\ x.at \in LateStages => y.at \in LateStages
  /\ \A f \in Facts : Bears(y, f) => Bears(x, f) \/ (x.at = "del" /\ f[2] = Head(x.dels))

LEMMA TargetsDiffer ==
  /\ TeamT \in Targets
  /\ \A u \in Users : UserT(u) \in Targets /\ UserT(u) # TeamT
  /\ \A u \in AppUsers : AppT(u) \in Targets /\ UserT(u) \in Targets /\ AppT(u) # TeamT
  /\ \A u, v : AppT(u) # UserT(v) /\ TeamT # AppT(u) /\ TeamT # UserT(u)
  /\ \A u, v : (AppT(u) = AppT(v) => u = v) /\ (UserT(u) = UserT(v) => u = v)
BY ConfigsAssumption DEF Targets, TeamT, UserT, AppT

LEMMA IdleIsOK == CallOK(IdleCall)
<1>1. IdleCall \in CallRecords
  BY ConfigsAssumption DEF IdleCall, CallRecords, Buffers
<1>2. QED
  BY <1>1 DEF CallOK, StageOK, PartiesOK, QueuesOK, WritesOne, Covered, IdleCall, EarlyStages

\* A call that has begun: it writes something, and will delete all copies
\* that what it writes bears on.
LEMMA StartIsOK ==
  ASSUME NEW x, x \in CallRecords,
         x.op \in {"set team", "set user", "delete user", "set app", "clear app",
                   "allocate", "transfer"},
         x.at \in EarlyStages, x.op \in {"delete user", "clear app"} => x.at = "insert",
         x.todo # <<>>, x.held = {}, x.new = {},
         x.op \in {"set app", "clear app"} => x.user \in AppUsers,
         x.op = "set user" => x.user \in Users,
         x.op \in {"set team", "set user", "set app"} =>
           \E limit \in Limits : x.todo = <<Write(TargetOf(x), limit)>>,
         x.op \in {"delete user", "clear app"} => Len(x.todo) = 1,
         \A f \in Facts : f[1] \in ToWrite(x) \cup WholeRows(x.seen) => f[2] \in ToDelete(x)
  PROVE  CallOK(x)
<1>1. StageOK(x)
  BY DEF StageOK, EarlyStages
<1>2. PartiesOK(x) /\ QueuesOK(x)
  BY DEF PartiesOK, QueuesOK, EarlyStages
<1>3. WritesOne(x)
  BY DEF WritesOne
<1>4. Covered(x)
  BY DEF Covered, RowsOf
<1>5. QED
  BY <1>1, <1>2, <1>3, <1>4 DEF CallOK

-----------------------------------------------------------------------------
(* What a step makes of a call: it carries on, and covers what it bears on. *)

LEMMA Halves ==
  ASSUME NEW S, NEW s \in Seq(S), s # <<>>
  PROVE  /\ Head(s) \in S /\ Tail(s) \in Seq(S) /\ Head(s) = s[1]
         /\ Range(s) = {Head(s)} \cup Range(Tail(s))
         /\ (Len(s) = 1 <=> Tail(s) = <<>>)
         /\ \A x \in S : Head(<<x>>) = x /\ Tail(<<x>>) = <<>> /\ Len(<<x>>) = 1
<1>1. /\ Head(s) \in S /\ Tail(s) \in Seq(S) /\ Head(s) = s[1] /\ Len(s) \in Nat \ {0}
      /\ Len(Tail(s)) = Len(s) - 1 /\ \A i \in 1..Len(Tail(s)) : Tail(s)[i] = s[i + 1]
  OBVIOUS
<1>2. DOMAIN s = 1..Len(s) /\ DOMAIN Tail(s) = 1..Len(Tail(s))
  BY <1>1
<1>3. ASSUME NEW i \in DOMAIN s PROVE s[i] \in {Head(s)} \cup Range(Tail(s))
  <2>1. CASE i = 1
    BY <2>1, <1>1
  <2>2. CASE i # 1
    <3>1. i - 1 \in DOMAIN Tail(s) /\ Tail(s)[i - 1] = s[i]
      BY <2>2, <1>1, <1>2
    <3>2. QED
      BY <3>1 DEF Range
  <2>3. QED
    BY <2>1, <2>2
<1>4. \A j \in DOMAIN Tail(s) : j + 1 \in DOMAIN s /\ Tail(s)[j] = s[j + 1]
  BY <1>1, <1>2
<1>5. 1 \in DOMAIN s
  BY <1>1, <1>2
<1>6. Range(s) = {Head(s)} \cup Range(Tail(s))
  BY <1>1, <1>3, <1>4, <1>5 DEF Range
<1>7. Len(s) = 1 <=> Tail(s) = <<>>
  BY <1>1
<1>8. \A x \in S : Head(<<x>>) = x /\ Tail(<<x>>) = <<>> /\ Len(<<x>>) = 1
  OBVIOUS
<1>9. QED
  BY <1>1, <1>6, <1>7, <1>8

Updated(x, some) == [x EXCEPT !.at = "insert", !.seen = some]
Looks(x, y, some) ==
  y.at = "insert" /\ y.seen = some /\ y.todo = x.todo /\ y.held = x.held /\ y.new = x.new

LEMMA UpdateIsOK ==
  ASSUME NEW x, CallOK(x), x.at = "update", NEW some \in SUBSET ConfigRows,
         \A r \in some : r.of = Head(x.todo).of
  PROVE  Carries(x, Updated(x, some)) /\ Looks(x, Updated(x, some), some)
<1> DEFINE y == Updated(x, some)
<1>1. x \in CallRecords
  BY DEF CallOK
<1>2. /\ y \in CallRecords /\ y.at = "insert" /\ y.seen = some /\ y.n = x.n /\ y.op = x.op
      /\ y.user = x.user /\ y.todo = x.todo /\ y.held = x.held /\ y.new = x.new
      /\ y.dels = x.dels /\ y.buffer = x.buffer /\ y.raced = x.raced
  BY <1>1 DEF CallRecords, Updated
<1> HIDE DEF y
<1>3. StageOK(y) /\ PartiesOK(y) /\ QueuesOK(y)
  BY <1>2 DEF CallOK, StageOK, PartiesOK, QueuesOK, EarlyStages
<1>4. WritesOne(y)
  <2>1. x.op \notin {"delete user", "clear app"}
    BY DEF CallOK, StageOK
  <2>2. QED
    BY <1>2, <2>1 DEF CallOK, WritesOne, TargetOf, EarlyStages
<1>5. Head(x.todo).of \in ToWrite(x)
  <2>1. x.todo \in Seq(WriteRecords) /\ x.todo # <<>>
    BY <1>1 DEF CallOK, CallRecords, QueuesOK, EarlyStages
  <2>2. Head(x.todo) \in Range(x.todo)
    BY <2>1, Halves
  <2>3. QED
    BY <2>2 DEF ToWrite
<1>6. Covered(y)
  <2>1. ToWrite(y) = ToWrite(x) /\ ToDelete(y) = ToDelete(x)
    BY <1>2 DEF ToWrite, ToDelete
  <2>2. WholeRows(RowsOf(y)) \subseteq WholeRows(RowsOf(x)) \cup {Head(x.todo).of}
    BY <1>2 DEF RowsOf, WholeRows
  <2>3. QED
    BY <1>5, <2>1, <2>2 DEF CallOK, Covered, EarlyStages
<1>7. \A f \in Facts : ~Bears(y, f)
  BY <1>2 DEF Bears, PastIn
<1>8. Carries(x, y)
  BY <1>2, <1>3, <1>4, <1>6, <1>7 DEF CallOK, Carries, EarlyStages, LateStages
<1>9. QED
  BY <1>2, <1>8 DEF y, Looks

AddedBy(x) ==
  LET w == Head(x.todo)
  IN IF w.limit = 0 THEN {} ELSE {[of |-> w.of, n |-> x.n, limit |-> w.limit]}
Inserted(x, some) ==
  [x EXCEPT !.held = @ \cup some, !.new = @ \cup AddedBy(x), !.seen = {}, !.todo = Tail(@),
            !.at = AfterRows(Tail(x.todo), x.dels)]
Gains(x, y, some) ==
  /\ y.held = x.held \cup some /\ y.new = x.new \cup AddedBy(x)
  /\ AddedBy(x) \in SUBSET ConfigRows /\ \A r \in AddedBy(x) : r.of \in ToWrite(x)

LEMMA InsertIsOK ==
  ASSUME NEW x, CallOK(x), x.at = "insert", NEW some \in SUBSET x.seen
  PROVE  Carries(x, Inserted(x, some)) /\ Gains(x, Inserted(x, some), some)
<1> DEFINE y == Inserted(x, some)
           added == AddedBy(x)
<1>1. x \in CallRecords
  BY DEF CallOK
<1>2. x.todo \in Seq(WriteRecords) /\ x.todo # <<>> /\ x.dels \in Seq(Targets)
  BY <1>1 DEF CallOK, CallRecords, QueuesOK, EarlyStages
<1>3. /\ Head(x.todo) \in WriteRecords /\ Tail(x.todo) \in Seq(WriteRecords)
      /\ Range(x.todo) = {Head(x.todo)} \cup Range(Tail(x.todo))
      /\ (Len(x.todo) = 1 <=> Tail(x.todo) = <<>>)
  BY <1>2, Halves
<1>4. added \in SUBSET ConfigRows /\ \A r \in added : r.of = Head(x.todo).of
  <2> DEFINE w == Head(x.todo)
             r == [of |-> w.of, n |-> x.n, limit |-> w.limit]
  <2>1. w.of \in Targets /\ w.limit \in Limits \cup {0} /\ x.n \in 0..MaxCalls
    BY <1>1, <1>3 DEF CallRecords, WriteRecords
  <2>2. w.limit # 0 => r \in ConfigRows /\ r.of = w.of
    BY <2>1 DEF ConfigRows
  <2>3. added = IF w.limit = 0 THEN {} ELSE {r}
    BY DEF AddedBy
  <2> HIDE DEF r, w, added
  <2>4. added \in SUBSET ConfigRows /\ \A q \in added : q.of = w.of
    BY <2>2, <2>3
  <2>5. QED
    BY <2>4 DEF w
<1>5. ToWrite(x) = {Head(x.todo).of} \cup {w.of : w \in Range(Tail(x.todo))}
  BY <1>3 DEF ToWrite
<1>6. /\ AfterRows(Tail(x.todo), x.dels) \in {"update", "del", "commit"}
      /\ AfterRows(Tail(x.todo), x.dels) = "update" <=> Tail(x.todo) # <<>>
      /\ AfterRows(Tail(x.todo), x.dels) = "del" => x.dels # <<>>
      /\ AfterRows(Tail(x.todo), x.dels) = "commit" => x.dels = <<>>
  BY DEF AfterRows
<1>7. /\ y \in CallRecords /\ y.at = AfterRows(Tail(x.todo), x.dels) /\ y.seen = {} /\ y.n = x.n
      /\ y.op = x.op /\ y.user = x.user /\ y.todo = Tail(x.todo) /\ y.held = x.held \cup some
      /\ y.new = x.new \cup added /\ y.dels = x.dels /\ y.buffer = x.buffer /\ y.raced = x.raced
  <2> HIDE DEF added
  <2>0. y = [x EXCEPT !.held = @ \cup some, !.new = @ \cup added, !.seen = {},
                      !.todo = Tail(@), !.at = AfterRows(Tail(x.todo), x.dels)]
    BY DEF Inserted, added
  <2> HIDE DEF y
  <2>1. y \in CallRecords
    BY <1>1, <1>3, <1>4, <1>6, <2>0 DEF CallRecords
  <2>2. /\ y.at = AfterRows(Tail(x.todo), x.dels) /\ y.seen = {} /\ y.todo = Tail(x.todo)
        /\ y.held = x.held \cup some /\ y.new = x.new \cup added
    BY <1>1, <2>0 DEF CallRecords
  <2>3. /\ y.n = x.n /\ y.op = x.op /\ y.user = x.user /\ y.dels = x.dels
        /\ y.buffer = x.buffer /\ y.raced = x.raced
    BY <1>1, <2>0 DEF CallRecords
  <2>4. QED
    BY <2>1, <2>2, <2>3
<1> HIDE DEF y
<1>8. x.op \in {"set team", "set user", "set app", "delete user", "clear app"} => y.todo = <<>>
  <2>1. x.op \in {"delete user", "clear app"} => Len(x.todo) = 1
    BY DEF CallOK, WritesOne
  <2>2. x.op \in {"set team", "set user", "set app"} => Len(x.todo) = 1
    <3> SUFFICES ASSUME x.op \in {"set team", "set user", "set app"} PROVE Len(x.todo) = 1
      OBVIOUS
    <3>1. PICK limit \in Limits : x.todo = <<Write(TargetOf(x), limit)>>
      BY DEF CallOK, WritesOne, EarlyStages
    <3>2. Len(<<Write(TargetOf(x), limit)>>) = 1
      OBVIOUS
    <3>3. QED
      BY <3>1, <3>2
  <2>3. QED
    BY <1>3, <1>7, <2>1, <2>2
<1>9. StageOK(y)
  BY <1>6, <1>7, <1>8 DEF CallOK, StageOK, EarlyStages
<1>10. PartiesOK(y) /\ QueuesOK(y)
  BY <1>6, <1>7 DEF CallOK, PartiesOK, QueuesOK, EarlyStages
<1>11. WritesOne(y)
  <2>1. CASE x.op \in {"set team", "set user", "set app"}
    <3>1. PICK limit \in Limits : x.todo = <<Write(TargetOf(x), limit)>> /\ x.held = {} /\ x.new = {}
      BY <2>1 DEF CallOK, WritesOne, EarlyStages
    <3>2. Head(x.todo) = Write(TargetOf(x), limit)
      BY <3>1
    <3>3. limit # 0
      BY ConfigsAssumption
    <3>4. added = {[of |-> TargetOf(x), n |-> x.n, limit |-> limit]}
      BY <3>2, <3>3 DEF Write, AddedBy
    <3>5. TargetOf(y) = TargetOf(x) /\ y.at \notin EarlyStages
      <4>1. y.at \notin EarlyStages
        BY <1>6, <1>7, <1>8, <2>1 DEF EarlyStages
      <4>2. QED
        BY <1>7, <4>1 DEF TargetOf
    <3>6. QED
      BY <1>7, <2>1, <3>1, <3>4, <3>5 DEF WritesOne
  <2>2. CASE x.op \notin {"set team", "set user", "set app"}
    BY <1>6, <1>7, <2>2 DEF WritesOne
  <2>3. QED
    BY <2>1, <2>2
<1>12. Covered(y)
  <2>1. ToWrite(y) \subseteq ToWrite(x) /\ ToDelete(y) = ToDelete(x)
    BY <1>5, <1>7 DEF ToWrite, ToDelete
  <2>2. WholeRows(RowsOf(y)) \subseteq WholeRows(RowsOf(x)) \cup ToWrite(x)
    BY <1>4, <1>5, <1>7 DEF RowsOf, WholeRows
  <2>3. QED
    BY <2>1, <2>2 DEF CallOK, Covered, EarlyStages
<1>13. y.at \notin {"idle", "insert"} /\ \A f \in Facts : ~Bears(y, f)
  <2>1. ToDelete(y) = ToDelete(x) /\ \A r \in y.held \cup y.new : r.of \in ToWrite(x) \cup WholeRows(RowsOf(x))
    BY <1>4, <1>5, <1>7 DEF ToDelete, RowsOf, WholeRows
  <2>2. \A f \in Facts : f[1] \in ToWrite(x) \cup WholeRows(RowsOf(x)) => f[2] \in ToDelete(x)
    BY DEF CallOK, Covered, EarlyStages
  <2>3. QED
    BY <1>6, <1>7, <2>1, <2>2 DEF Bears, PastIn, ChangesIn, ToDelete
<1>14. Carries(x, y)
  BY <1>7, <1>9, <1>10, <1>11, <1>12, <1>13 DEF CallOK, Carries, EarlyStages, LateStages
<1>15. \A r \in added : r.of \in ToWrite(x)
  BY <1>4, <1>5
<1>16. QED
  BY <1>4, <1>7, <1>14, <1>15 DEF y, Gains

Deleting(x, gone) ==
  [x EXCEPT !.dels = Tail(@), !.lost = gone,
            !.at = IF Len(x.dels) = 1 THEN AfterDeletes(x.op) ELSE "del"]

LEMMA DeleteIsOK ==
  ASSUME NEW x, CallOK(x), x.at = "del", NEW gone \in SUBSET Targets
  PROVE  Carries(x, Deleting(x, gone)) /\ Head(x.dels) \in Targets
<1> DEFINE y == Deleting(x, gone)
<1>1. x \in CallRecords
  BY DEF CallOK
<1>2. x.dels \in Seq(Targets) /\ x.dels # <<>>
  BY <1>1 DEF CallOK, CallRecords, QueuesOK
<1>3. /\ Head(x.dels) \in Targets /\ Tail(x.dels) \in Seq(Targets)
      /\ ToDelete(x) = {Head(x.dels)} \cup Range(Tail(x.dels))
      /\ (Len(x.dels) = 1 <=> Tail(x.dels) = <<>>)
  BY <1>2, Halves DEF ToDelete
<1> DEFINE at == IF Len(x.dels) = 1 THEN AfterDeletes(x.op) ELSE "del"
<1>4. /\ at \in {"del", "set", "get", "del again", "commit"}
      /\ at = "del" <=> Tail(x.dels) # <<>>
      /\ at = "set" => x.op \in {"set team", "set app"}
      /\ at = "get" => x.op = "set user"
      /\ at = "del again" => x.op = "clear app"
  BY <1>3 DEF AfterDeletes
<1> HIDE DEF at
<1>5. /\ y \in CallRecords /\ y.at = at /\ y.seen = x.seen /\ y.n = x.n
      /\ y.op = x.op /\ y.user = x.user /\ y.todo = x.todo /\ y.held = x.held
      /\ y.new = x.new /\ y.dels = Tail(x.dels) /\ y.buffer = x.buffer /\ y.raced = x.raced
  BY <1>1, <1>3, <1>4 DEF CallRecords, at, Deleting
<1> HIDE DEF y
<1>6. StageOK(y)
  BY <1>4, <1>5 DEF CallOK, StageOK, EarlyStages
<1>7. PartiesOK(y) /\ QueuesOK(y)
  BY <1>4, <1>5 DEF CallOK, PartiesOK, QueuesOK, EarlyStages
<1>8. WritesOne(y) /\ Covered(y)
  BY <1>4, <1>5 DEF CallOK, WritesOne, Covered, TargetOf, EarlyStages
<1>9. ASSUME NEW f \in Facts, Bears(y, f) PROVE Bears(x, f) \/ f[2] = Head(x.dels)
  BY <1>3, <1>5, <1>9 DEF Bears, ChangesIn, PastIn, ToDelete
<1>10. Carries(x, y)
  BY <1>4, <1>5, <1>6, <1>7, <1>8, <1>9 DEF CallOK, Carries, EarlyStages, LateStages
<1>11. QED
  BY <1>3, <1>10 DEF y

Warming(x, at, buffer) == [x EXCEPT !.at = at, !.buffer = buffer]
Going(x, at) == [x EXCEPT !.at = at]

LEMMA WarmIsOK ==
  ASSUME NEW x, CallOK(x), x.at \notin EarlyStages \cup {"idle", "del"},
         NEW buffer \in Read, NEW at,
         (at = "set" /\ x.at = "get") \/ (at = "set again" /\ x.at = "refresh")
  PROVE  Carries(x, Warming(x, at, buffer))
<1> DEFINE y == Warming(x, at, buffer)
<1>0. buffer \in Buffers /\ buffer # NoCopy
  BY NoCopyAssumption DEF Buffers
<1>1. x \in CallRecords
  BY DEF CallOK
<1>2. /\ y \in CallRecords /\ y.at = at /\ y.seen = x.seen /\ y.n = x.n
      /\ y.op = x.op /\ y.user = x.user /\ y.todo = x.todo /\ y.held = x.held
      /\ y.new = x.new /\ y.dels = x.dels /\ y.buffer = buffer /\ y.raced = x.raced
  BY <1>0, <1>1 DEF CallRecords, LateStages, Warming
<1> HIDE DEF y
<1>3. StageOK(y)
  BY <1>2 DEF CallOK, StageOK, EarlyStages, LateStages
<1>4. PartiesOK(y) /\ QueuesOK(y)
  BY <1>0, <1>2 DEF CallOK, PartiesOK, QueuesOK, EarlyStages, LateStages, StageOK
<1>5. WritesOne(y) /\ Covered(y)
  BY <1>2 DEF CallOK, WritesOne, Covered, TargetOf, EarlyStages, LateStages
<1>6. \A f \in Facts : Bears(y, f) => Bears(x, f)
  BY <1>2 DEF Bears, ChangesIn, PastIn, EarlyStages
<1>7. Carries(x, y)
  BY <1>2, <1>3, <1>4, <1>5, <1>6 DEF CallOK, Carries, EarlyStages, LateStages
<1>8. QED
  BY <1>7 DEF y

LEMMA GoIsOK ==
  ASSUME NEW x, CallOK(x), x.at \notin EarlyStages \cup {"idle", "del"},
         NEW at,
         \/ at = "commit"
         \/ at = "refresh" /\ x.op \in {"set app", "clear app"} /\ x.at \notin LateStages
  PROVE  Carries(x, Going(x, at))
<1> DEFINE y == Going(x, at)
<1>1. x \in CallRecords
  BY DEF CallOK
<1>2. /\ y \in CallRecords /\ y.at = at /\ y.seen = x.seen /\ y.n = x.n
      /\ y.op = x.op /\ y.user = x.user /\ y.todo = x.todo /\ y.held = x.held
      /\ y.new = x.new /\ y.dels = x.dels /\ y.buffer = x.buffer /\ y.raced = x.raced
  BY <1>1 DEF CallRecords, LateStages, Going
<1> HIDE DEF y
<1>3. StageOK(y)
  BY <1>2 DEF CallOK, StageOK, EarlyStages, LateStages
<1>4. PartiesOK(y) /\ QueuesOK(y)
  BY <1>2 DEF CallOK, PartiesOK, QueuesOK, EarlyStages, LateStages, StageOK
<1>5. WritesOne(y) /\ Covered(y)
  BY <1>2 DEF CallOK, WritesOne, Covered, TargetOf, EarlyStages, LateStages
<1>6. \A f \in Facts : Bears(y, f) => Bears(x, f)
  BY <1>2 DEF Bears, ChangesIn, PastIn, EarlyStages
<1>7. Carries(x, y)
  BY <1>2, <1>3, <1>4, <1>5, <1>6 DEF CallOK, Carries, EarlyStages, LateStages
<1>8. QED
  BY <1>7 DEF y

\* Another call commits.
Raced(x) == [x EXCEPT !.raced = TRUE]
Races(x, y) ==
  /\ CallOK(y) /\ y.at = x.at /\ y.n = x.n /\ y.op = x.op /\ y.user = x.user
  /\ y.held = x.held /\ y.new = x.new /\ y.dels = x.dels /\ y.raced = TRUE

LEMMA RacedIsOK ==
  ASSUME NEW x, CallOK(x), x.at # "idle"
  PROVE  Races(x, Raced(x))
<1> DEFINE y == Raced(x)
<1>1. x \in CallRecords
  BY DEF CallOK
<1>2. /\ y \in CallRecords /\ y.at = x.at /\ y.seen = x.seen /\ y.n = x.n
      /\ y.op = x.op /\ y.user = x.user /\ y.todo = x.todo /\ y.held = x.held
      /\ y.new = x.new /\ y.dels = x.dels /\ y.buffer = x.buffer /\ y.raced = TRUE
  BY <1>1 DEF CallRecords, Raced
<1> HIDE DEF y
<1>3. StageOK(y) /\ PartiesOK(y) /\ QueuesOK(y)
  BY <1>2 DEF CallOK, StageOK, PartiesOK, QueuesOK, EarlyStages
<1>4. WritesOne(y)
  BY <1>2 DEF CallOK, WritesOne, TargetOf, EarlyStages
<1>5. Covered(y)
  BY <1>2 DEF CallOK, Covered, ToWrite, ToDelete, WholeRows, RowsOf
<1>6. Races(x, y)
  BY <1>2, <1>3, <1>4, <1>5 DEF CallOK, Races
<1>7. QED
  BY <1>6 DEF y

-----------------------------------------------------------------------------
(* How the operations open their calls.                                     *)

LEMMA FactsAre ==
  ASSUME NEW f \in Facts
  PROVE  /\ f[1] \in Targets /\ f[2] \in Targets
         /\ \/ f[1] = f[2] /\ f[3] = "limit"
            \/ \E u \in AppUsers : f[1] = AppT(u) /\ f[2] = UserT(u) /\ f[3] = "gate"
         /\ f[3] = "limit" => f[1] = f[2]
         /\ f[3] = "gate" => \E u \in AppUsers : f[1] = AppT(u) /\ f[2] = UserT(u)
BY TargetsDiffer DEF Facts

LEMMA LimitFact ==
  ASSUME NEW f \in Facts, NEW t, f[1] = t, \A u \in AppUsers : t # AppT(u)
  PROVE  f[2] = t /\ f[3] = "limit"
BY FactsAre

LEMMA TupleIsSeq ==
  ASSUME NEW S, NEW a \in S, NEW b \in S
  PROVE  <<a>> \in Seq(S) /\ <<a, b>> \in Seq(S)
OBVIOUS

LEMMA OneRange ==
  ASSUME NEW a, NEW b
  PROVE  /\ <<a>> # <<>> /\ Range(<<a>>) = {a} /\ Len(<<a>>) = 1
         /\ Range(<<a, b>>) = {a, b}
<1>1. DOMAIN <<a>> = {1} /\ <<a>>[1] = a /\ DOMAIN <<a, b>> = {1, 2} /\ <<a, b>>[1] = a /\ <<a, b>>[2] = b
  OBVIOUS
<1>2. Range(<<a>>) = {a}
  BY <1>1 DEF Range
<1>3. Range(<<a, b>>) = {a, b}
  BY <1>1 DEF Range
<1>4. QED
  BY <1>2, <1>3

\* The keys of a write: that of its target, and of an app's also the user's.
KeysFor(u, t, dels) ==
  \/ dels = <<t>> /\ \A v \in AppUsers : t # AppT(v)
  \/ u \in AppUsers /\ t = AppT(u) /\ dels = AppKeys(u)

LEMMA KeysCover ==
  ASSUME NEW u, NEW t \in Targets, NEW dels, KeysFor(u, t, dels)
  PROVE  dels \in Seq(Targets) /\ \A f \in Facts : f[1] = t => f[2] \in Range(dels)
<1>1. CASE dels = <<t>> /\ \A v \in AppUsers : t # AppT(v)
  <2>1. dels \in Seq(Targets) /\ Range(dels) = {t}
    BY <1>1, TupleIsSeq, OneRange
  <2>2. \A f \in Facts : f[1] = t => f[2] = t
    BY <1>1, LimitFact
  <2>3. QED
    BY <2>1, <2>2
<1>2. CASE u \in AppUsers /\ t = AppT(u) /\ dels = AppKeys(u)
  <2>1. AppT(u) \in Targets /\ UserT(u) \in Targets
    BY <1>2, TargetsDiffer
  <2>2. <<AppT(u), UserT(u)>> \in Seq(Targets) /\ Range(<<AppT(u), UserT(u)>>) = {AppT(u), UserT(u)}
    BY <2>1, TupleIsSeq, OneRange
  <2>3. ASSUME NEW f \in Facts, f[1] = t PROVE f[2] \in {AppT(u), UserT(u)}
    <3>1. CASE f[1] = f[2]
      BY <1>2, <2>3, <3>1
    <3>2. CASE f[1] # f[2]
      <4>1. PICK v \in AppUsers : f[1] = AppT(v) /\ f[2] = UserT(v)
        BY <3>2, FactsAre
      <4>2. v = u
        BY <1>2, <2>3, <4>1, TargetsDiffer
      <4>3. QED
        BY <4>1, <4>2
    <3>3. QED
      BY <3>1, <3>2
  <2>4. QED
    BY <1>2, <2>2, <2>3 DEF AppKeys
<1>3. QED
  BY <1>1, <1>2 DEF KeysFor

NumberedAs(x, n) == [x EXCEPT !.n = n]

LEMMA NumberIsOK ==
  ASSUME NEW x, CallOK(x), x.at # "idle", x.new = {}, NEW n \in 0..MaxCalls
  PROVE  LET y == NumberedAs(x, n)
         IN /\ CallOK(y) /\ y.n = n /\ y.at = x.at /\ y.op = x.op /\ y.user = x.user
            /\ y.held = x.held /\ y.new = x.new /\ y.raced = x.raced /\ y.todo = x.todo
<1> DEFINE y == NumberedAs(x, n)
<1>1. x \in CallRecords
  BY DEF CallOK
<1>2. /\ y \in CallRecords /\ y.at = x.at /\ y.seen = x.seen /\ y.n = n /\ y.op = x.op
      /\ y.user = x.user /\ y.todo = x.todo /\ y.held = x.held /\ y.new = x.new
      /\ y.dels = x.dels /\ y.buffer = x.buffer /\ y.raced = x.raced
  BY <1>1 DEF CallRecords, NumberedAs
<1> HIDE DEF y
<1>3. StageOK(y) /\ PartiesOK(y) /\ QueuesOK(y)
  BY <1>2 DEF CallOK, StageOK, PartiesOK, QueuesOK, EarlyStages
<1>4. WritesOne(y)
  BY <1>2 DEF CallOK, WritesOne, TargetOf, EarlyStages
<1>5. Covered(y)
  BY <1>2 DEF CallOK, Covered, ToWrite, ToDelete, WholeRows, RowsOf
<1>6. QED
  BY <1>2, <1>3, <1>4, <1>5 DEF CallOK, y

\* A call that has begun, and what the first of a list of writes is to be.
Opens(x, op, u) ==
  /\ CallOK(x) /\ x.op = op /\ x.user = u /\ x.at # "idle"
  /\ x.held = {} /\ x.new = {} /\ x.raced = FALSE
Asks(x, t, limit) == x.at = "update" /\ x.todo = <<Write(t, limit)>>

LEMMA WritingIsOK ==
  ASSUME NEW u \in Users \cup {Team},
         NEW op \in {"set team", "set user", "set app", "transfer"},
         NEW t \in Targets, NEW limit \in Limits \cup {0},
         op = "set app" => u \in AppUsers, op = "set user" => u \in Users,
         op # "transfer" =>
           limit # 0 /\ t = (IF op = "set team" THEN TeamT ELSE IF op = "set user" THEN UserT(u) ELSE AppT(u)),
         NEW dels, KeysFor(u, t, dels)
  PROVE  LET x == ToWriteRows(u, op, <<Write(t, limit)>>, dels)
         IN Opens(x, op, u) /\ Asks(x, t, limit)
<1> DEFINE x == ToWriteRows(u, op, <<Write(t, limit)>>, dels)
<1>1. Write(t, limit) \in WriteRecords /\ Write(t, limit).of = t
  BY DEF Write, WriteRecords
<1>2. /\ <<Write(t, limit)>> \in Seq(WriteRecords) /\ Range(<<Write(t, limit)>>) = {Write(t, limit)}
      /\ <<Write(t, limit)>> # <<>> /\ Len(<<Write(t, limit)>>) = 1
  BY <1>1, TupleIsSeq, OneRange
<1>3. dels \in Seq(Targets) /\ \A f \in Facts : f[1] = t => f[2] \in Range(dels)
  BY KeysCover
<1>4. /\ x.n = 0 /\ x.op = op /\ x.user = u /\ x.at = "update" /\ x.todo = <<Write(t, limit)>>
      /\ x.seen = {} /\ x.held = {} /\ x.new = {} /\ x.dels = dels /\ x.raced = FALSE
  BY DEF IdleCall, ToWriteRows
<1>5. x \in CallRecords
  <2>1. IdleCall \in CallRecords
    BY IdleIsOK DEF CallOK
  <2>2. QED
    BY <1>2, <1>3, <2>1 DEF CallRecords, ToWriteRows
<1> HIDE DEF x
<1>6. \A f \in Facts : f[1] \in ToWrite(x) \cup WholeRows(x.seen) => f[2] \in ToDelete(x)
  <2>1. Range(x.todo) = {Write(t, limit)}
    BY <1>2, <1>4
  <2>2. PICK w : w = Write(t, limit)
    OBVIOUS
  <2>5. Range(x.todo) = {w} /\ w.of = t
    BY <2>1, <2>2, <1>1
  <2>6. ToWrite(x) = {t}
    BY <2>5 DEF ToWrite
  <2>3. WholeRows(x.seen) = {}
    BY <1>4 DEF WholeRows
  <2>4. QED
    BY <2>6, <2>3, <1>3, <1>4 DEF ToDelete
<1>7. op # "transfer" => \E l \in Limits : x.todo = <<Write(TargetOf(x), l)>>
  BY <1>4 DEF TargetOf
<1>8. CallOK(x)
  <2>1. x.todo # <<>> /\ x.at \in EarlyStages
    BY <1>2, <1>4 DEF EarlyStages
  <2>2. QED
    BY <2>1, <1>4, <1>5, <1>6, <1>7, StartIsOK
<1>9. QED
  BY <1>4, <1>8 DEF x, Opens, Asks

LEMMA DroppingIsOK ==
  ASSUME NEW u \in Users, NEW op \in {"delete user", "clear app"}, NEW t \in Targets,
         op = "clear app" => u \in AppUsers, NEW dels, KeysFor(u, t, dels),
         ActiveOf(t) \in SUBSET ConfigRows, \A r \in ActiveOf(t) : r.of = t
  PROVE  LET x == ToDropRow(u, op, t, dels)
         IN Opens(x, op, u)
<1> DEFINE x == ToDropRow(u, op, t, dels)
<1>1. Drop(t) \in WriteRecords /\ Drop(t).of = t
  BY DEF Drop, WriteRecords
<1>2. /\ <<Drop(t)>> \in Seq(WriteRecords) /\ Range(<<Drop(t)>>) = {Drop(t)}
      /\ <<Drop(t)>> # <<>> /\ Len(<<Drop(t)>>) = 1
  BY <1>1, TupleIsSeq, OneRange
<1>3. dels \in Seq(Targets) /\ \A f \in Facts : f[1] = t => f[2] \in Range(dels)
  BY KeysCover
<1>4. /\ x.n = 0 /\ x.op = op /\ x.user = u /\ x.at = "insert" /\ x.todo = <<Drop(t)>>
      /\ x.seen = ActiveOf(t) /\ x.held = {} /\ x.new = {} /\ x.dels = dels /\ x.raced = FALSE
  BY DEF IdleCall, ToDropRow
<1>5. x \in CallRecords
  <2>1. IdleCall \in CallRecords
    BY IdleIsOK DEF CallOK
  <2>2. QED
    BY <1>2, <1>3, <2>1 DEF CallRecords, ToDropRow
<1> HIDE DEF x
<1>6. \A f \in Facts : f[1] \in ToWrite(x) \cup WholeRows(x.seen) => f[2] \in ToDelete(x)
  <2>1. Range(x.todo) = {Drop(t)}
    BY <1>2, <1>4
  <2>2. ToWrite(x) = {t}
    BY <2>1, <1>1 DEF ToWrite
  <2>3. WholeRows(x.seen) \subseteq {t}
    BY <1>4 DEF WholeRows
  <2>4. QED
    BY <2>2, <2>3, <1>3, <1>4 DEF ToDelete
<1>7. CallOK(x)
  <2>1. x.todo # <<>> /\ Len(x.todo) = 1 /\ x.at \in EarlyStages
    BY <1>2, <1>4 DEF EarlyStages
  <2>2. QED
    BY <2>1, <1>4, <1>5, <1>6, StartIsOK
<1>8. QED
  BY <1>4, <1>7 DEF x, Opens

AllocatedRows(order, limit) ==
  [i \in DOMAIN order |-> Write(UserT(order[i]), limit[order[i]])]

LEMMA AllocatingIsOK ==
  ASSUME NEW order \in Orders, NEW limit \in [Users -> Limits]
  PROVE  LET x == ToWriteRows(Team, "allocate", AllocatedRows(order, limit), AllocatedKeys(order))
         IN Opens(x, "allocate", Team)
<1> DEFINE writes == AllocatedRows(order, limit)
           dels == AllocatedKeys(order)
           x == ToWriteRows(Team, "allocate", writes, dels)
<1>1. PICK m \in 1..Cardinality(Users) : order \in [1..m -> Users]
  BY DEF Orders
<1>2. m \in Nat \ {0}
  <2>1. Cardinality(Users) \in Nat
    BY ConfigsAssumption, FS_CardinalityType
  <2>2. QED
    BY <2>1
<1>3. \A i \in DOMAIN order : UserT(order[i]) \in Targets /\ limit[order[i]] \in Limits
  BY <1>1, TargetsDiffer
<1>4. \A i \in DOMAIN order : Write(UserT(order[i]), limit[order[i]]) \in WriteRecords
                              /\ Write(UserT(order[i]), limit[order[i]]).of = UserT(order[i])
  BY <1>3 DEF Write, WriteRecords
<1>5. DOMAIN writes = 1..m /\ DOMAIN dels = 1..m
  BY <1>1 DEF AllocatedKeys, AllocatedRows
<1>6. writes \in Seq(WriteRecords) /\ Len(writes) = m /\ writes # <<>>
  BY <1>1, <1>2, <1>4 DEF AllocatedRows
<1>7. dels \in Seq(Targets)
  BY <1>1, <1>2, <1>3 DEF AllocatedKeys
<1>8. ASSUME NEW w \in Range(writes) PROVE w.of \in Range(dels) /\ \E u \in Users : w.of = UserT(u)
  <2>1. PICK i \in DOMAIN writes : w = writes[i]
    BY DEF Range
  <2>2. i \in DOMAIN order
    BY DEF AllocatedRows
  <2>3. w.of = UserT(order[i])
    BY <2>1, <2>2, <1>4 DEF AllocatedRows
  <2>4. dels[i] = UserT(order[i]) /\ i \in DOMAIN dels
    BY <2>2 DEF AllocatedKeys
  <2>5. order[i] \in Users
    BY <1>1, <2>2
  <2>6. QED
    BY <2>3, <2>4, <2>5 DEF Range
<1>9. ASSUME NEW f \in Facts, f[1] \in {w.of : w \in Range(writes)} PROVE f[2] \in Range(dels)
  <2>1. PICK w \in Range(writes) : f[1] = w.of
    BY <1>9
  <2>2. PICK u \in Users : w.of = UserT(u)
    BY <1>8
  <2>3. f[2] = w.of
    BY <2>1, <2>2, LimitFact, TargetsDiffer
  <2>4. QED
    BY <2>3, <1>8
<1> HIDE DEF writes, dels
<1>10. /\ x.n = 0 /\ x.op = "allocate" /\ x.user = Team /\ x.at = "update" /\ x.todo = writes
       /\ x.seen = {} /\ x.held = {} /\ x.new = {} /\ x.dels = dels /\ x.raced = FALSE
  BY DEF IdleCall, ToWriteRows
<1>11. x \in CallRecords
  <2>1. IdleCall \in CallRecords
    BY IdleIsOK DEF CallOK
  <2>2. QED
    BY <1>6, <1>7, <2>1 DEF CallRecords, ToWriteRows
<1> HIDE DEF x
<1>12. \A f \in Facts : f[1] \in ToWrite(x) \cup WholeRows(x.seen) => f[2] \in ToDelete(x)
  <2>1. WholeRows(x.seen) = {} /\ ToWrite(x) = {w.of : w \in Range(writes)} /\ ToDelete(x) = Range(dels)
    BY <1>10 DEF WholeRows, ToWrite, ToDelete
  <2>2. QED
    BY <2>1, <1>9
<1>13. CallOK(x)
  BY <1>6, <1>10, <1>11, <1>12, StartIsOK DEF EarlyStages
<1>14. QED
  BY <1>10, <1>13 DEF x, writes, dels, Opens

LEMMA FillingIsOK ==
  ASSUME NEW limit \in Limits,
         NEW op, NEW u, (op = "exchange" /\ u \in Users) \/ (op = "warm" /\ u = Team)
  PROVE  LET x == ToFill(u, op, limit)
         IN Opens(x, op, u)
<1> DEFINE x == ToFill(u, op, limit)
<1>1. Plain(limit) \in Read
  BY DEF Plain, Gates, Read
<1>2. Plain(limit) \in Buffers /\ Plain(limit) # NoCopy
  BY <1>1, NoCopyAssumption DEF Buffers
<1>3. /\ x.n = 0 /\ x.op = op /\ x.user = u /\ x.at = "set" /\ x.todo = <<>> /\ x.seen = {}
      /\ x.held = {} /\ x.new = {} /\ x.dels = <<>> /\ x.lost = {} /\ x.buffer = Plain(limit)
      /\ x.raced = FALSE
  BY DEF IdleCall, ToFill
<1>4. x \in CallRecords
  <2>1. IdleCall \in CallRecords
    BY IdleIsOK DEF CallOK
  <2>2. QED
    BY <1>2, <2>1 DEF CallRecords, ToFill
<1> HIDE DEF x
<1>5. StageOK(x) /\ PartiesOK(x) /\ QueuesOK(x)
  BY <1>2, <1>3 DEF StageOK, PartiesOK, QueuesOK, EarlyStages
<1>6. WritesOne(x) /\ Covered(x)
  BY <1>3 DEF WritesOne, Covered, EarlyStages
<1>7. QED
  BY <1>3, <1>4, <1>5, <1>6 DEF CallOK, x, Opens

\* What the start of any call amounts to.
Begins(c, y) ==
  /\ call[c].at = "idle" /\ begun < MaxCalls /\ begun' = begun + 1
  /\ call' = [call EXCEPT ![c] = y] /\ CallOK(y)
  /\ y.n = begun + 1 /\ y.at # "idle" /\ y.held = {} /\ y.new = {} /\ y.raced = FALSE
  /\ y.op = "set user" =>
       /\ y.at = "update"
       /\ \E limit \in Limits : y.todo = <<Write(UserT(y.user), limit)>> /\ Fits(y.user, limit)
  /\ UNCHANGED <<rows, member, cache, failures, req, requests, configFaults>>

LEMMA ActiveRows ==
  ASSUME ConfigsTypeOK, NEW t
  PROVE  /\ ActiveOf(t) \in SUBSET ConfigRows /\ \A r \in ActiveOf(t) : r.of = t
         /\ \A r \in ActiveOf(t) : r.limit \in Limits /\ r.n \in 0..MaxCalls /\ r.of \in Targets
BY DEF ConfigsTypeOK, ActiveOf, ConfigRows

LEMMA NextNumber ==
  ASSUME ConfigsTypeOK, begun < MaxCalls
  PROVE  begun + 1 \in 0..MaxCalls
<1>1. MaxCalls \in Nat /\ begun \in 0..MaxCalls
  BY ConfigsAssumption DEF ConfigsTypeOK
<1>2. QED
  BY <1>1

LEMMA BeginsIt ==
  ASSUME ConfigsTypeOK, NEW c \in Calls, call[c].at = "idle", begun < MaxCalls,
         NEW x, NEW op, NEW u, Opens(x, op, u), BeginCall(c, x),
         op = "set user" => \E limit \in Limits : Asks(x, UserT(u), limit) /\ Fits(u, limit)
  PROVE  \E y : Begins(c, y)
<1>1. PICK n \in 0..MaxCalls : n = begun + 1
  BY NextNumber
<1>2. PICK y : y = NumberedAs(x, n)
  OBVIOUS
<1>3. /\ CallOK(y) /\ y.n = n /\ y.at = x.at /\ y.op = x.op /\ y.user = x.user
      /\ y.held = x.held /\ y.new = x.new /\ y.raced = x.raced /\ y.todo = x.todo
  BY <1>2, NumberIsOK DEF Opens
<1>4. call' = [call EXCEPT ![c] = y] /\ begun' = begun + 1
      /\ UNCHANGED <<rows, member, cache, failures, req, requests, configFaults>>
  BY <1>1, <1>2 DEF BeginCall, NumberedAs
<1>5. y.op = "set user" =>
       /\ y.at = "update"
       /\ \E limit \in Limits : y.todo = <<Write(UserT(y.user), limit)>> /\ Fits(y.user, limit)
  BY <1>3 DEF Opens, Asks
<1>6. QED
  BY <1>1, <1>3, <1>4, <1>5 DEF Begins, Opens

LEMMA Operations ==
  ASSUME ConfigsTypeOK, NEW c \in Calls, Operation(c)
  PROVE  \E y : Begins(c, y)
<1>1. call[c].at = "idle" /\ begun < MaxCalls
  BY DEF Operation
<1>2. Team \in Users \cup {Team} /\ AppUsers \subseteq Users /\ \A limit \in Limits : limit # 0
  BY ConfigsAssumption
<1>3. ASSUME NEW limit \in Limits, SetTeamBudget(c, limit) PROVE \E y : Begins(c, y)
  <2>1. KeysFor(Team, TeamT, <<TeamT>>) /\ TeamT \in Targets
    BY TargetsDiffer DEF KeysFor
  <2>2. PICK x : x = ToWriteRows(Team, "set team", <<Write(TeamT, limit)>>, <<TeamT>>)
    OBVIOUS
  <2>3. Opens(x, "set team", Team)
    BY <1>2, <2>1, <2>2, WritingIsOK
  <2>4. BeginCall(c, x)
    BY <1>3, <2>2 DEF SetTeamBudget
  <2>5. QED
    BY <1>1, <2>3, <2>4, BeginsIt
<1>4. ASSUME NEW u \in Users, NEW limit \in Limits, SetUserBudget(c, u, limit) PROVE \E y : Begins(c, y)
  <2>1. KeysFor(u, UserT(u), <<UserT(u)>>) /\ UserT(u) \in Targets
    BY TargetsDiffer DEF KeysFor
  <2>2. PICK x : x = ToWriteRows(u, "set user", <<Write(UserT(u), limit)>>, <<UserT(u)>>)
    OBVIOUS
  <2>3. Opens(x, "set user", u) /\ Asks(x, UserT(u), limit)
    BY <1>2, <2>1, <2>2, WritingIsOK
  <2>4. BeginCall(c, x) /\ Fits(u, limit)
    BY <1>4, <2>2 DEF SetUserBudget
  <2>5. QED
    BY <1>1, <2>3, <2>4, BeginsIt
<1>5. ASSUME NEW u \in Users, DeleteUserBudget(c, u) PROVE \E y : Begins(c, y)
  <2>1. KeysFor(u, UserT(u), <<UserT(u)>>) /\ UserT(u) \in Targets
    BY TargetsDiffer DEF KeysFor
  <2>2. PICK x : x = ToDropRow(u, "delete user", UserT(u), <<UserT(u)>>)
    OBVIOUS
  <2>3. Opens(x, "delete user", u)
    BY <2>1, <2>2, ActiveRows, DroppingIsOK
  <2>4. BeginCall(c, x)
    BY <1>5, <2>2 DEF DeleteUserBudget
  <2>5. QED
    BY <1>1, <2>3, <2>4, BeginsIt
<1>6. ASSUME NEW u \in AppUsers, NEW limit \in Limits, SetUserClientBudget(c, u, limit) PROVE \E y : Begins(c, y)
  <2>1. KeysFor(u, AppT(u), AppKeys(u)) /\ AppT(u) \in Targets /\ u \in Users \cup {Team}
    BY <1>2, TargetsDiffer DEF KeysFor
  <2>2. PICK x : x = ToWriteRows(u, "set app", <<Write(AppT(u), limit)>>, AppKeys(u))
    OBVIOUS
  <2>3. Opens(x, "set app", u)
    BY <1>2, <2>1, <2>2, WritingIsOK
  <2>4. BeginCall(c, x)
    BY <1>6, <2>2 DEF SetUserClientBudget
  <2>5. QED
    BY <1>1, <2>3, <2>4, BeginsIt
<1>7. ASSUME NEW u \in AppUsers, ClearUserClientBudget(c, u) PROVE \E y : Begins(c, y)
  <2>1. KeysFor(u, AppT(u), AppKeys(u)) /\ AppT(u) \in Targets /\ u \in Users
    BY <1>2, TargetsDiffer DEF KeysFor
  <2>2. PICK x : x = ToDropRow(u, "clear app", AppT(u), AppKeys(u))
    OBVIOUS
  <2>3. Opens(x, "clear app", u)
    BY <2>1, <2>2, ActiveRows, DroppingIsOK
  <2>4. BeginCall(c, x)
    BY <1>7, <2>2 DEF ClearUserClientBudget
  <2>5. QED
    BY <1>1, <2>3, <2>4, BeginsIt
<1>8. ASSUME NEW u \in Users, TransferUser(c, u) PROVE \E y : Begins(c, y)
  <2>1. KeysFor(u, UserT(u), <<UserT(u)>>) /\ UserT(u) \in Targets
    BY TargetsDiffer DEF KeysFor
  <2>2. PICK x : x = ToWriteRows(u, "transfer", <<Write(UserT(u), 0)>>, <<UserT(u)>>)
    OBVIOUS
  <2>3. Opens(x, "transfer", u)
    BY <1>2, <2>1, <2>2, WritingIsOK
  <2>4. BeginCall(c, x)
    BY <1>8, <2>2 DEF TransferUser, Drop, Write
  <2>5. QED
    BY <1>1, <2>3, <2>4, BeginsIt
<1>9. ASSUME NEW order \in Orders, NEW limit \in [Users -> Limits], AllocateTeamBudget(c, order, limit)
      PROVE  \E y : Begins(c, y)
  <2>1. PICK x : x = ToWriteRows(Team, "allocate", AllocatedRows(order, limit), AllocatedKeys(order))
    OBVIOUS
  <2>2. Opens(x, "allocate", Team)
    BY <2>1, AllocatingIsOK
  <2>3. BeginCall(c, x)
    BY <1>9, <2>1 DEF AllocateTeamBudget, AllocatedRows
  <2>4. QED
    BY <1>1, <2>2, <2>3, BeginsIt
<1>10. ASSUME NEW u \in Users, ExchangeToken(c, u) PROVE \E y : Begins(c, y)
  <2>1. PICK r \in ActiveOf(UserT(u)) : BeginCall(c, ToFill(u, "exchange", r.limit))
    BY <1>10 DEF ExchangeToken, Newest
  <2>2. r.limit \in Limits
    BY ActiveRows
  <2>3. PICK x : x = ToFill(u, "exchange", r.limit)
    OBVIOUS
  <2>4. Opens(x, "exchange", u)
    BY <2>2, <2>3, FillingIsOK
  <2>5. BeginCall(c, x)
    BY <2>1, <2>3
  <2>6. QED
    BY <1>1, <2>4, <2>5, BeginsIt
<1>11. ASSUME WarmTeam(c) PROVE \E y : Begins(c, y)
  <2>1. PICK r \in ActiveOf(TeamT) : BeginCall(c, ToFill(Team, "warm", r.limit))
    BY <1>11 DEF WarmTeam
  <2>2. r.limit \in Limits
    BY ActiveRows
  <2>3. PICK x : x = ToFill(Team, "warm", r.limit)
    OBVIOUS
  <2>4. Opens(x, "warm", Team)
    BY <2>2, <2>3, FillingIsOK
  <2>5. BeginCall(c, x)
    BY <2>1, <2>3
  <2>6. QED
    BY <1>1, <2>4, <2>5, BeginsIt
<1>12. QED
  BY <1>3, <1>4, <1>5, <1>6, <1>7, <1>8, <1>9, <1>10, <1>11 DEF Operation

-----------------------------------------------------------------------------
(* The steps of a transaction.                                              *)

CallSteps(c, y) ==
  /\ call[c].at # "idle" /\ call' = [call EXCEPT ![c] = y]
  /\ Carries(call[c], y) \/ y = IdleCall

LEMMA CallIs ==
  ASSUME ConfigsShape, NEW c \in Calls
  PROVE  CallOK(call[c]) /\ call[c] \in CallRecords /\ call \in [Calls -> CallRecords]
BY DEF ConfigsShape, ConfigsTypeOK, CallOK

LEMMA NewLimitIs ==
  ASSUME ConfigsShape, NEW c \in Calls, call[c].at \notin EarlyStages,
         call[c].op \in {"set team", "set user", "set app"}
  PROVE  /\ NewLimit(c) \in Limits
         /\ call[c].new = {[of |-> TargetOf(call[c]), n |-> call[c].n, limit |-> NewLimit(c)]}
<1>1. PICK limit \in Limits : call[c].new = {[of |-> TargetOf(call[c]), n |-> call[c].n, limit |-> limit]}
  BY CallIs DEF CallOK, WritesOne
<1>2. PICK r : r = [of |-> TargetOf(call[c]), n |-> call[c].n, limit |-> limit]
  OBVIOUS
<1>3. r.limit = limit /\ call[c].new = {r}
  BY <1>1, <1>2
<1>4. NewLimit(c) = limit
  BY <1>3 DEF NewLimit
<1>5. QED
  BY <1>1, <1>4

LEMMA UpdateSteps ==
  ASSUME ConfigsShape, NEW c \in Calls, Update(c)
  PROVE  \E y : CallSteps(c, y) /\ Looks(call[c], y, ActiveOf(Head(call[c].todo).of))
<1>1. PICK x : x = call[c]
  OBVIOUS
<1>2. PICK some : some = ActiveOf(Head(call[c].todo).of)
  OBVIOUS
<1>3. some \in SUBSET ConfigRows /\ \A r \in some : r.of = Head(x.todo).of
  BY <1>1, <1>2 DEF ActiveOf, ConfigsShape, ConfigsTypeOK
<1>4. CallOK(x) /\ x.at = "update" /\ call \in [Calls -> CallRecords]
  BY <1>1, CallIs DEF Update
<1>5. PICK y : y = Updated(x, some)
  OBVIOUS
<1>6. Carries(x, y) /\ Looks(x, y, some)
  BY <1>3, <1>4, <1>5, UpdateIsOK
<1>7. call' = [call EXCEPT ![c] = y]
  BY <1>1, <1>2, <1>4, <1>5 DEF Update, Updated
<1>8. QED
  BY <1>1, <1>2, <1>4, <1>6, <1>7 DEF CallSteps

LEMMA InsertSteps ==
  ASSUME ConfigsShape, NEW c \in Calls, Insert(c)
  PROVE  \E y : CallSteps(c, y) /\ Gains(call[c], y, call[c].seen \cap rows)
<1>1. PICK x : x = call[c]
  OBVIOUS
<1>2. PICK some : some = call[c].seen \cap rows
  OBVIOUS
<1>3. some \in SUBSET x.seen
  BY <1>1, <1>2
<1>4. CallOK(x) /\ x.at = "insert" /\ call \in [Calls -> CallRecords]
  BY <1>1, CallIs DEF Insert
<1>5. PICK y : y = Inserted(x, some)
  OBVIOUS
<1>6. Carries(x, y) /\ Gains(x, y, some)
  BY <1>3, <1>4, <1>5, InsertIsOK
<1>7. Added(c) = AddedBy(x)
  BY <1>1 DEF Added, AddedBy
<1>8. call' = [call EXCEPT ![c] = y]
  BY <1>1, <1>2, <1>4, <1>5, <1>7 DEF Insert, Inserted
<1>9. QED
  BY <1>1, <1>2, <1>4, <1>6, <1>8 DEF CallSteps

LEMMA DelSteps ==
  ASSUME ConfigsShape, NEW c \in Calls, Del(c) \/ DelFails(c)
  PROVE  /\ \E y : CallSteps(c, y)
         /\ call[c].at = "del" /\ Head(call[c].dels) \in Targets
<1>1. PICK x : x = call[c]
  OBVIOUS
<1>2. CallOK(x) /\ x.at = "del" /\ call \in [Calls -> CallRecords] /\ x.lost \in SUBSET Targets
  BY <1>1, CallIs DEF Del, DelFails, CallRecords
<1>3. Head(x.dels) \in Targets
  BY <1>2, DeleteIsOK
<1>4. CASE Del(c)
  <2>1. PICK y : y = Deleting(x, x.lost)
    OBVIOUS
  <2>2. Carries(x, y)
    BY <1>2, <2>1, DeleteIsOK
  <2>3. call' = [call EXCEPT ![c] = y]
    BY <1>1, <1>2, <1>4, <2>1 DEF Del, Deleted, Deleting, CallRecords
  <2>4. QED
    BY <1>1, <1>2, <1>3, <2>2, <2>3 DEF CallSteps
<1>5. CASE DelFails(c)
  <2>1. PICK y : y = Deleting(x, x.lost \cup {Head(x.dels)})
    OBVIOUS
  <2>2. Carries(x, y)
    BY <1>2, <1>3, <2>1, DeleteIsOK
  <2>3. call' = [call EXCEPT ![c] = y]
    BY <1>1, <1>2, <1>5, <2>1 DEF DelFails, Deleting, CallRecords
  <2>4. QED
    BY <1>1, <1>2, <1>3, <2>2, <2>3 DEF CallSteps
<1>6. QED
  BY <1>4, <1>5

\* A step that goes on, with what it read or as it was.
LEMMA GoesOn ==
  ASSUME ConfigsShape, NEW c \in Calls,
         call[c].at \notin EarlyStages \cup {"idle", "del"}, NEW at, Go(c, at),
         \/ at = "commit"
         \/ at = "refresh" /\ call[c].op \in {"set app", "clear app"} /\ call[c].at \notin LateStages
  PROVE  \E y : CallSteps(c, y) /\ y = Going(call[c], at)
<1>1. PICK x : x = call[c]
  OBVIOUS
<1>2. PICK y : y = Going(x, at)
  OBVIOUS
<1>3. Carries(x, y)
  BY <1>1, <1>2, CallIs, GoIsOK
<1>4. call' = [call EXCEPT ![c] = y]
  BY <1>1, <1>2, CallIs DEF Go, Going
<1>5. QED
  BY <1>1, <1>2, <1>3, <1>4 DEF CallSteps

LEMMA GetSteps ==
  ASSUME ConfigsShape, NEW c \in Calls, Get(c) \/ GetFails(c)
  PROVE  \E y : CallSteps(c, y)
<1>1. PICK x : x = call[c]
  OBVIOUS
<1>2. CallOK(x) /\ x.at = "get" /\ call \in [Calls -> CallRecords] /\ x \in CallRecords
  BY <1>1, CallIs DEF Get, GetFails
<1>3. x.op = "set user" /\ x.user \in Users /\ NewLimit(c) \in Limits
  <2>1. x.op = "set user" /\ x.user \in Users
    BY <1>2 DEF CallOK, StageOK, PartiesOK, EarlyStages, CallRecords
  <2>2. QED
    BY <1>1, <1>2, <2>1, NewLimitIs DEF EarlyStages
<1>4. PICK b \in Read : call' = [call EXCEPT ![c].at = "set", ![c].buffer = b]
  <2>1. CASE Get(c)
    <3>1. PICK prev : prev = cache[UserT(call[c].user)]
      OBVIOUS
    <3>2. prev \in Copies \cup {NoCopy}
      BY <1>1, <1>3, <3>1, TargetsDiffer DEF ConfigsShape, ConfigsTypeOK
    <3>3. PICK g : g = IF prev = NoCopy THEN "absent" ELSE prev.gate
      OBVIOUS
    <3>4. g \in Gates
      BY <3>2, <3>3 DEF Copies, Gates
    <3>5. [limit |-> NewLimit(c), gate |-> g] \in Read
      BY <1>3, <3>4 DEF Read
    <3>6. QED
      BY <2>1, <3>1, <3>3, <3>5 DEF Get
  <2>2. CASE GetFails(c)
    <3>1. Plain(NewLimit(c)) \in Read
      BY <1>3 DEF Plain, Read, Gates
    <3>2. QED
      BY <2>2, <3>1 DEF GetFails
  <2>3. QED
    BY <2>1, <2>2
<1>5. PICK y : y = Warming(x, "set", b)
  OBVIOUS
<1>6. Carries(x, y)
  BY <1>2, <1>5, WarmIsOK DEF EarlyStages
<1>7. call' = [call EXCEPT ![c] = y]
  BY <1>1, <1>2, <1>4, <1>5 DEF Warming
<1>8. QED
  BY <1>1, <1>2, <1>6, <1>7 DEF CallSteps

LEMMA RefreshSteps ==
  ASSUME ConfigsShape, NEW c \in Calls, Refresh(c)
  PROVE  \E y : CallSteps(c, y)
<1>1. PICK x : x = call[c]
  OBVIOUS
<1>2. CallOK(x) /\ x.at = "refresh" /\ call \in [Calls -> CallRecords] /\ x \in CallRecords
  BY <1>1, CallIs DEF Refresh
<1>3. x.user \in AppUsers
  BY <1>2 DEF CallOK, StageOK, PartiesOK, EarlyStages, CallRecords
<1>4. PICK prev : prev = cache[UserT(x.user)]
  OBVIOUS
<1>5. prev \in Copies \cup {NoCopy}
  BY <1>3, <1>4, TargetsDiffer DEF ConfigsShape, ConfigsTypeOK
<1>6. CASE prev = NoCopy
  <2>1. Go(c, "commit")
    BY <1>1, <1>4, <1>6 DEF Refresh
  <2>2. QED
    BY <1>1, <1>2, <2>1, GoesOn DEF EarlyStages
<1>7. CASE prev # NoCopy
  <2>1. PICK b : b = [limit |-> prev.limit, gate |-> GateOf(InSession(c, AppT(x.user)))]
    OBVIOUS
  <2>2. b \in Read
    BY <1>5, <1>7, <2>1 DEF Read, Copies, Gates, GateOf
  <2>3. PICK y : y = Warming(x, "set again", b)
    OBVIOUS
  <2>4. Carries(x, y)
    BY <1>2, <2>2, <2>3, WarmIsOK DEF EarlyStages
  <2>5. call' = [call EXCEPT ![c].at = "set again", ![c].buffer = b]
    BY <1>1, <1>4, <1>7, <2>1 DEF Refresh
  <2>6. call' = [call EXCEPT ![c] = y]
    BY <1>1, <1>2, <2>3, <2>5 DEF Warming
  <2>7. QED
    BY <1>1, <1>2, <2>4, <2>6 DEF CallSteps
<1>8. QED
  BY <1>6, <1>7

LEMMA WarmingFailsSteps ==
  ASSUME ConfigsShape, NEW c \in Calls, WarmingFails(c)
  PROVE  \E y : CallSteps(c, y)
<1>1. call[c].at \in {"set", "del again", "refresh", "set again"} /\ call[c].at \notin EarlyStages \cup {"idle", "del"}
  BY DEF WarmingFails, EarlyStages
<1>2. CASE call[c].op = "exchange"
  BY <1>1, <1>2 DEF WarmingFails, CallSteps
<1>3. CASE call[c].op # "exchange" /\ call[c].op \in {"set app", "clear app"} /\ call[c].at \in {"set", "del again"}
  <2>1. Go(c, "refresh") /\ call[c].at \notin LateStages
    BY <1>3 DEF WarmingFails, LateStages
  <2>2. QED
    BY <1>1, <1>3, <2>1, GoesOn
<1>4. CASE call[c].op # "exchange" /\ ~(call[c].op \in {"set app", "clear app"} /\ call[c].at \in {"set", "del again"})
  <2>1. Go(c, "commit")
    BY <1>4 DEF WarmingFails
  <2>2. QED
    BY <1>1, <2>1, GoesOn
<1>5. QED
  BY <1>2, <1>3, <1>4

LEMMA RollbackSteps ==
  ASSUME ConfigsShape, NEW c \in Calls, DeadlockVictim(c) \/ CommitFails(c)
  PROVE  \E y : CallSteps(c, y)
BY DEF DeadlockVictim, Waits, CommitFails, Rollback, CallSteps

-----------------------------------------------------------------------------
(* What the copies say that a call or the gateway writes.                   *)

Holds(copy, what, some) ==
  IF what = "limit" THEN copy.limit \in LimitsIn(some) ELSE copy.gate = GateOf(some)
Reason(copy, what) == IF what = "limit" THEN copy.whyLimit ELSE copy.whyGate

\* A copy that a call writes is right about what the call sees, or says why not.
WritesCopy(c, k, copy) ==
  /\ k \in Targets /\ copy \in Copies /\ copy.by = call[c].n
  /\ \A f \in Facts : f[2] = k /\ Reason(copy, f[3]) = "right" =>
       Holds(copy, f[3], InSession(c, f[1])) /\ ~Pending(f[1], k, Calls \ {c})

FillsCopy(k, copy) ==
  /\ k \in Targets /\ copy \in Copies /\ copy.by = 0
  /\ \A f \in Facts : f[2] = k /\ Reason(copy, f[3]) = "right" =>
       Holds(copy, f[3], ActiveOf(f[1])) /\ ~Pending(f[1], k, Calls)

LEMMA FactsOf ==
  ASSUME NEW f \in Facts
  PROVE  /\ (\A u \in AppUsers : f[2] # UserT(u)) => f[1] = f[2] /\ f[3] = "limit"
         /\ \A u \in Users : f[2] = UserT(u) =>
              \/ f[1] = UserT(u) /\ f[3] = "limit"
              \/ f[1] = AppT(u) /\ f[3] = "gate"
BY FactsAre, TargetsDiffer

LEMMA WhyIs ==
  /\ \A t, limit, own, others :
       /\ WhyLimit(t, limit, own, others) \in Why
       /\ WhyLimit(t, limit, own, others) = "right" => limit \in own /\ ~Pending(t, t, others)
  /\ \A u, gate, some, others :
       /\ WhyGate(u, gate, some, others) \in Why
       /\ WhyGate(u, gate, some, others) = "right" =>
            gate = GateOf(some) /\ ~Pending(AppT(u), UserT(u), others)
BY DEF WhyLimit, WhyGate, Why

LEMMA PlainCopies ==
  ASSUME ConfigsShape, NEW c \in Calls, NEW t \in Targets, \A u \in AppUsers : t # UserT(u),
         NEW limit \in Limits
  PROVE  WritesCopy(c, t, PlainCopy(c, t, limit))
<1> DEFINE copy == PlainCopy(c, t, limit)
<1>1. /\ copy.limit = limit /\ copy.gate = "absent" /\ copy.expires = TRUE /\ copy.by = call[c].n
      /\ copy.whyLimit = WhyLimit(t, limit, LimitsIn(InSession(c, t)), Calls \ {c})
      /\ copy.whyGate = "right"
  BY DEF PlainCopy
<1>2. call[c].n \in 0..MaxCalls
  BY CallIs DEF CallRecords
<1>3. copy \in Copies
  BY <1>2, WhyIs DEF PlainCopy, Copies, Gates, Why
<1> HIDE DEF copy
<1>4. ASSUME NEW f \in Facts, f[2] = t, Reason(copy, f[3]) = "right"
      PROVE  Holds(copy, f[3], InSession(c, f[1])) /\ ~Pending(f[1], t, Calls \ {c})
  <2>1. f[1] = t /\ f[3] = "limit"
    BY <1>4, FactsOf
  <2>2. copy.whyLimit = "right"
    BY <1>4, <2>1 DEF Reason
  <2>3. limit \in LimitsIn(InSession(c, t)) /\ ~Pending(t, t, Calls \ {c})
    BY <1>1, <2>2, WhyIs
  <2>4. QED
    BY <1>1, <2>1, <2>3 DEF Holds
<1>5. QED
  BY <1>1, <1>3, <1>4 DEF WritesCopy, copy

LEMMA UserCopies ==
  ASSUME ConfigsShape, NEW c \in Calls, NEW u \in Users, NEW limit \in Limits, NEW gate \in Gates,
         NEW expires \in BOOLEAN
  PROVE  WritesCopy(c, UserT(u), UserCopy(c, u, limit, gate, expires))
<1> DEFINE copy == UserCopy(c, u, limit, gate, expires)
<1>1. /\ copy.limit = limit /\ copy.gate = gate /\ copy.by = call[c].n
      /\ copy.whyLimit = WhyLimit(UserT(u), limit, LimitsIn(InSession(c, UserT(u))), Calls \ {c})
      /\ copy.whyGate = WhyGate(u, gate, InSession(c, AppT(u)), Calls \ {c})
  BY DEF UserCopy
<1>2. call[c].n \in 0..MaxCalls
  BY CallIs DEF CallRecords
<1>3. copy \in Copies
  BY <1>2, WhyIs DEF UserCopy, Copies
<1> HIDE DEF copy
<1>4. ASSUME NEW f \in Facts, f[2] = UserT(u), Reason(copy, f[3]) = "right"
      PROVE  Holds(copy, f[3], InSession(c, f[1])) /\ ~Pending(f[1], UserT(u), Calls \ {c})
  <2>1. CASE f[1] = UserT(u) /\ f[3] = "limit"
    <3>1. copy.whyLimit = "right"
      BY <1>4, <2>1 DEF Reason
    <3>2. limit \in LimitsIn(InSession(c, UserT(u))) /\ ~Pending(UserT(u), UserT(u), Calls \ {c})
      BY <1>1, <3>1, WhyIs
    <3>3. QED
      BY <1>1, <2>1, <3>2 DEF Holds
  <2>2. CASE f[1] = AppT(u) /\ f[3] = "gate"
    <3>1. copy.whyGate = "right"
      BY <1>4, <2>2 DEF Reason
    <3>2. gate = GateOf(InSession(c, AppT(u))) /\ ~Pending(AppT(u), UserT(u), Calls \ {c})
      BY <1>1, <3>1, WhyIs
    <3>3. QED
      BY <1>1, <2>2, <3>2 DEF Holds
  <2>3. QED
    BY <1>4, <2>1, <2>2, FactsOf
<1>5. UserT(u) \in Targets
  BY TargetsDiffer
<1>6. QED
  BY <1>1, <1>3, <1>4, <1>5 DEF WritesCopy, copy

LEMMA FilledCopies ==
  ASSUME ConfigsShape, NEW t \in Targets, NEW limit \in Limits, NEW gate \in Gates, NEW whyGate \in Why,
         \A u \in AppUsers : t = UserT(u) => whyGate = WhyGate(u, gate, ActiveOf(AppT(u)), Calls)
  PROVE  FillsCopy(t, Filled(t, limit, gate, whyGate))
<1> DEFINE copy == Filled(t, limit, gate, whyGate)
<1>1. /\ copy.limit = limit /\ copy.gate = gate /\ copy.by = 0 /\ copy.whyGate = whyGate
      /\ copy.whyLimit = WhyLimit(t, limit, LimitsOf(t), Calls)
  BY DEF Filled
<1>2. 0 \in 0..MaxCalls
  <2>1. MaxCalls \in Nat
    BY ConfigsAssumption
  <2>2. QED
    BY <2>1
<1>3. copy \in Copies
  BY <1>2, WhyIs DEF Filled, Copies
<1> HIDE DEF copy
<1>4. LimitsOf(t) = LimitsIn(ActiveOf(t))
  BY DEF LimitsOf, LimitsIn
<1>5. ASSUME NEW f \in Facts, f[2] = t, Reason(copy, f[3]) = "right"
      PROVE  Holds(copy, f[3], ActiveOf(f[1])) /\ ~Pending(f[1], t, Calls)
  <2>1. CASE f[3] = "limit"
    <3>1. copy.whyLimit = "right" /\ f[1] = t
      BY <1>5, <2>1, FactsAre DEF Reason
    <3>2. limit \in LimitsIn(ActiveOf(t)) /\ ~Pending(t, t, Calls)
      BY <1>1, <1>4, <3>1, WhyIs
    <3>3. QED
      BY <1>1, <2>1, <3>1, <3>2 DEF Holds
  <2>2. CASE f[3] = "gate"
    <3>1. PICK u \in AppUsers : f[1] = AppT(u) /\ f[2] = UserT(u)
      BY <2>2, FactsAre
    <3>2. WhyGate(u, gate, ActiveOf(AppT(u)), Calls) = "right"
      BY <1>1, <1>5, <2>2, <3>1 DEF Reason
    <3>3. gate = GateOf(ActiveOf(AppT(u))) /\ ~Pending(AppT(u), UserT(u), Calls)
      BY <3>2, WhyIs
    <3>4. QED
      BY <1>1, <1>5, <2>2, <3>1, <3>3 DEF Holds
  <2>3. QED
    BY <2>1, <2>2, FactsAre
<1>6. QED
  BY <1>1, <1>3, <1>5 DEF FillsCopy, copy

LEMMA SetSteps ==
  ASSUME ConfigsShape, NEW c \in Calls, Set(c) \/ SetAgain(c)
  PROVE  \E y, k, copy :
           /\ CallSteps(c, y) /\ y \in CallRecords /\ y.at \in LateStages /\ call[c].at \in {"set", "set again"}
           /\ y.n = call[c].n /\ y.held = call[c].held /\ y.new = call[c].new
           /\ WritesCopy(c, k, copy) /\ cache' = [cache EXCEPT ![k] = copy]
<1>1. PICK x : x = call[c]
  OBVIOUS
<1>2. CallOK(x) /\ x \in CallRecords /\ x.at \in {"set", "set again"}
  BY <1>1, CallIs DEF Set, SetAgain
<1>3. x.at \notin EarlyStages \cup {"idle", "del"}
  BY <1>2 DEF EarlyStages
<1>4. \E y : /\ CallSteps(c, y) /\ y \in CallRecords /\ y.at \in LateStages
             /\ y.n = call[c].n /\ y.held = call[c].held /\ y.new = call[c].new
  <2>1. PICK at : /\ Go(c, at)
                  /\ at = "commit" \/ (at = "refresh" /\ x.op \in {"set app", "clear app"} /\ x.at \notin LateStages)
    BY <1>1, <1>2 DEF Set, SetAgain, LateStages
  <2>2. PICK y : CallSteps(c, y) /\ y = Going(call[c], at)
    BY <1>1, <1>3, <2>1, GoesOn
  <2>3. y.at = at /\ at \in LateStages
    BY <1>1, <1>2, <2>1, <2>2 DEF Going, CallRecords, LateStages
  <2>4. Carries(call[c], y)
    <3>1. IdleCall.at \notin LateStages
      BY DEF IdleCall, LateStages
    <3>2. QED
      BY <2>2, <2>3, <3>1 DEF CallSteps
  <2>5. QED
    BY <1>1, <1>3, <2>2, <2>3, <2>4 DEF Carries, CallOK
<1>5. \E k, copy : WritesCopy(c, k, copy) /\ cache' = [cache EXCEPT ![k] = copy]
  <2>1. CASE SetAgain(c)
    <3>1. x.user \in AppUsers /\ x.user \in Users /\ x.buffer \in Read
      BY <1>1, <1>2, <2>1, ConfigsAssumption DEF SetAgain, CallOK, StageOK, PartiesOK, CallRecords, Buffers, EarlyStages
    <3>2. x.buffer.limit \in Limits /\ x.buffer.gate \in Gates
      BY <3>1 DEF Read
    <3>3. WritesCopy(c, UserT(x.user), UserCopy(c, x.user, x.buffer.limit, x.buffer.gate, TRUE))
      BY <1>1, <3>1, <3>2, UserCopies
    <3>4. QED
      BY <1>1, <2>1, <3>3 DEF SetAgain, SetCopy
  <2>2. CASE Set(c)
    <3>1. x.at = "set" /\ x.op \in {"set team", "warm", "set app", "set user", "exchange"}
      BY <1>1, <1>2, <2>2 DEF Set, CallOK, StageOK, EarlyStages, CallRecords
    <3>2. CASE x.op \in {"set team", "set app"}
      <4>1. NewLimit(c) \in Limits
        BY <1>1, <1>2, <3>1, <3>2, NewLimitIs DEF EarlyStages
      <4>2. x.op = "set team" => WritesCopy(c, TeamT, PlainCopy(c, TeamT, NewLimit(c)))
        BY <4>1, TargetsDiffer, PlainCopies
      <4>3. x.op = "set app" => WritesCopy(c, AppT(x.user), PlainCopy(c, AppT(x.user), NewLimit(c)))
        <5>1. x.op = "set app" => x.user \in AppUsers
          BY <1>2 DEF CallOK, PartiesOK
        <5>2. QED
          BY <4>1, <5>1, TargetsDiffer, PlainCopies
      <4>4. QED
        BY <1>1, <2>2, <3>2, <4>2, <4>3 DEF Set, SetCopy
    <3>3. CASE x.op \in {"warm", "set user", "exchange"}
      <4>1. x.buffer \in Read
        BY <1>2, <3>1, <3>3 DEF CallOK, PartiesOK, CallRecords, Buffers
      <4>2. x.buffer.limit \in Limits /\ x.buffer.gate \in Gates
        BY <4>1 DEF Read
      <4>3. x.op = "warm" => WritesCopy(c, TeamT, PlainCopy(c, TeamT, x.buffer.limit))
        BY <4>2, TargetsDiffer, PlainCopies
      <4>4. x.op \in {"set user", "exchange"} => x.user \in Users
        BY <1>2 DEF CallOK, PartiesOK
      <4>5. x.op = "set user" => WritesCopy(c, UserT(x.user), UserCopy(c, x.user, x.buffer.limit, x.buffer.gate, TRUE))
        BY <4>2, <4>4, UserCopies
      <4>6. x.op = "exchange" => WritesCopy(c, UserT(x.user), UserCopy(c, x.user, x.buffer.limit, x.buffer.gate, FALSE))
        BY <4>2, <4>4, UserCopies
      <4>7. QED
        BY <1>1, <2>2, <3>3, <4>3, <4>5, <4>6 DEF Set, SetCopy
    <3>4. QED
      BY <3>1, <3>2, <3>3
  <2>3. QED
    BY <2>1, <2>2
<1>6. PICK y : /\ CallSteps(c, y) /\ y \in CallRecords /\ y.at \in LateStages
               /\ y.n = call[c].n /\ y.held = call[c].held /\ y.new = call[c].new
  BY <1>4
<1>7. PICK k, copy : WritesCopy(c, k, copy) /\ cache' = [cache EXCEPT ![k] = copy]
  BY <1>5
<1>8. QED
  BY <1>1, <1>2, <1>6, <1>7

-----------------------------------------------------------------------------
(* Steps after which no copy says anything new.                             *)

FillStages == {"fill team", "fill user", "fill app"}
RequestShape ==
  /\ req.at \notin {"idle", "admitted"} => req.user \in AppUsers
  /\ req.at \in FillStages => req.buffer # NoCopy

Spoilt(copy, old) ==
  /\ copy # NoCopy /\ old # NoCopy /\ copy.by = old.by
  /\ copy.whyLimit = "undeleted" /\ copy.whyGate = "undeleted"
Fades(k) == cache'[k] = NoCopy \/ Spoilt(cache'[k], cache[k])

\* A step after which no copy says anything new.
QuietStep ==
  /\ UNCHANGED <<rows, member, req, begun, requests>>
  /\ failures' \in SUBSET Targets /\ configFaults' \in 0..MaxConfigFaults
  /\ cache' \in [Targets -> Copies \cup {NoCopy}]
  /\ \A k \in Targets : cache'[k] = cache[k] \/ Fades(k)
  /\ \/ call' = call
     \/ \E c \in Calls : \E y : CallSteps(c, y) /\ (call[c].at = "del" => Fades(Head(call[c].dels)))

LEMMA FaultCounted ==
  ASSUME ConfigsShape
  PROVE  /\ configFaults \in 0..MaxConfigFaults
         /\ ConfigFault => configFaults' \in 0..MaxConfigFaults
<1>1. configFaults \in 0..MaxConfigFaults /\ MaxConfigFaults \in Nat
  BY ConfigsAssumption DEF ConfigsShape, ConfigsTypeOK
<1>2. ConfigFault => configFaults' \in 0..MaxConfigFaults
  BY <1>1 DEF ConfigFault
<1>3. QED
  BY <1>1, <1>2

LEMMA OneStepIsQuiet ==
  ASSUME ConfigsShape, NEW c \in Calls, \E y : CallSteps(c, y), call[c].at # "del",
         UNCHANGED <<rows, member, failures, cache, req, begun, requests>>,
         UNCHANGED configFaults \/ ConfigFault
  PROVE  QuietStep
<1>1. PICK y : CallSteps(c, y)
  OBVIOUS
<1>2. failures' \in SUBSET Targets /\ cache' \in [Targets -> Copies \cup {NoCopy}]
  BY DEF ConfigsShape, ConfigsTypeOK
<1>3. configFaults' \in 0..MaxConfigFaults
  BY FaultCounted
<1>4. QED
  BY <1>1, <1>2, <1>3 DEF QuietStep

LEMMA Undeleted ==
  ASSUME NEW old \in Copies, NEW copy,
         copy = [old EXCEPT !.whyLimit = "undeleted", !.whyGate = "undeleted"]
  PROVE  copy \in Copies /\ Spoilt(copy, old)
<1>1. /\ copy \in Copies /\ copy.by = old.by
      /\ copy.whyLimit = "undeleted" /\ copy.whyGate = "undeleted"
  BY DEF Copies, Why
<1>2. QED
  BY <1>1, NoCopyAssumption DEF Spoilt

LEMMA DelIsQuiet ==
  ASSUME ConfigsShape, NEW c \in Calls, Del(c) \/ DelFails(c)
  PROVE  QuietStep
<1>1. PICK y : CallSteps(c, y)
  BY DelSteps
<1>2. PICK k \in Targets : k = Head(call[c].dels)
  BY DelSteps
<1>3. cache \in [Targets -> Copies \cup {NoCopy}] /\ failures \in SUBSET Targets
  BY DEF ConfigsShape, ConfigsTypeOK
<1>4. UNCHANGED <<rows, member, req, begun, requests, failures>> /\ configFaults' \in 0..MaxConfigFaults
  BY FaultCounted DEF Del, DelFails, bounds
<1>5. /\ cache' \in [Targets -> Copies \cup {NoCopy}] /\ Fades(k)
      /\ \A t \in Targets : cache'[t] = cache[t] \/ Fades(t)
  <2>1. CASE Del(c)
    <3>1. cache' = [cache EXCEPT ![k] = NoCopy]
      BY <1>2, <2>1 DEF Del
    <3>2. QED
      BY <1>3, <3>1 DEF Fades
  <2>2. CASE DelFails(c)
    <3>1. PICK copy : copy = IF cache[k] = NoCopy THEN NoCopy
             ELSE [cache[k] EXCEPT !.whyLimit = "undeleted", !.whyGate = "undeleted"]
      OBVIOUS
    <3>2. cache' = [cache EXCEPT ![k] = copy]
      BY <1>2, <1>3, <2>2, <3>1 DEF DelFails
    <3>3. PICK old : old = cache[k]
      OBVIOUS
    <3>4. copy = NoCopy \/ (copy \in Copies /\ Spoilt(copy, old))
      <4>1. CASE old = NoCopy
        BY <3>1, <3>3, <4>1
      <4>2. CASE old # NoCopy
        <5>1. old \in Copies
          BY <1>3, <3>3, <4>2
        <5>2. copy = [old EXCEPT !.whyLimit = "undeleted", !.whyGate = "undeleted"]
          BY <3>1, <3>3, <4>2
        <5>3. copy \in Copies /\ Spoilt(copy, old)
          BY <5>1, <5>2, Undeleted
        <5>4. QED
          BY <5>3
      <4>3. QED
        BY <4>1, <4>2
    <3>5. QED
      BY <1>3, <3>2, <3>3, <3>4 DEF Fades
  <2>3. QED
    BY <2>1, <2>2
<1>6. failures' \in SUBSET Targets
  BY <1>3, <1>4
<1>7. QED
  BY <1>1, <1>2, <1>4, <1>5, <1>6 DEF QuietStep

LEMMA DelAgainIsQuiet ==
  ASSUME ConfigsShape, NEW c \in Calls, DelAgain(c)
  PROVE  QuietStep
<1>1. CallOK(call[c]) /\ call[c].at = "del again" /\ call[c].op = "clear app" /\ call[c].user \in AppUsers
  <2>1. CallOK(call[c]) /\ call[c] \in CallRecords /\ call[c].at = "del again"
    BY CallIs DEF DelAgain
  <2>2. QED
    BY <2>1 DEF CallOK, StageOK, PartiesOK, EarlyStages, CallRecords
<1>2. PICK y : CallSteps(c, y)
  <2>1. Go(c, "refresh") /\ call[c].at \notin EarlyStages \cup {"idle", "del"} \cup LateStages
    BY <1>1 DEF DelAgain, EarlyStages, LateStages
  <2>2. QED
    BY <1>1, <2>1, GoesOn
<1>3. cache \in [Targets -> Copies \cup {NoCopy}] /\ failures \in SUBSET Targets
  BY DEF ConfigsShape, ConfigsTypeOK
<1>4. UNCHANGED <<rows, member, req, begun, requests, failures>> /\ configFaults' \in 0..MaxConfigFaults
  BY FaultCounted DEF DelAgain, Unwritten
<1>5. cache' = [cache EXCEPT ![AppT(call[c].user)] = NoCopy] /\ AppT(call[c].user) \in Targets
  BY <1>1, TargetsDiffer DEF DelAgain, SetCopy
<1>6. cache' \in [Targets -> Copies \cup {NoCopy}] /\ \A t \in Targets : cache'[t] = cache[t] \/ Fades(t)
  BY <1>3, <1>5 DEF Fades
<1>7. QED
  BY <1>1, <1>2, <1>3, <1>4, <1>6 DEF QuietStep

LEMMA LapsesAreQuiet ==
  ASSUME ConfigsShape, RetryFailed \/ \E t \in Targets : Expire(t)
  PROVE  QuietStep
<1>1. cache \in [Targets -> Copies \cup {NoCopy}] /\ failures \in SUBSET Targets
  BY DEF ConfigsShape, ConfigsTypeOK
<1>2. CASE RetryFailed
  <2>1. UNCHANGED <<rows, member, req, begun, requests, call>> /\ configFaults' \in 0..MaxConfigFaults
    BY <1>2, FaultCounted DEF RetryFailed, bounds
  <2>2. failures' \in SUBSET Targets /\ cache' = [t \in Targets |-> IF t \in failures THEN NoCopy ELSE cache[t]]
    BY <1>2 DEF RetryFailed
  <2>3. cache' \in [Targets -> Copies \cup {NoCopy}] /\ \A t \in Targets : cache'[t] = cache[t] \/ Fades(t)
    BY <1>1, <2>2 DEF Fades
  <2>4. QED
    BY <2>1, <2>2, <2>3 DEF QuietStep
<1>3. CASE \E t \in Targets : Expire(t)
  <2>1. PICK k \in Targets : Expire(k)
    BY <1>3
  <2>2. UNCHANGED <<rows, member, req, begun, requests, call, failures>> /\ configFaults' \in 0..MaxConfigFaults
    BY <2>1, FaultCounted DEF Expire
  <2>3. cache' = [cache EXCEPT ![k] = NoCopy]
    BY <2>1 DEF Expire, SetCopy
  <2>4. cache' \in [Targets -> Copies \cup {NoCopy}] /\ \A t \in Targets : cache'[t] = cache[t] \/ Fades(t)
    BY <1>1, <2>3 DEF Fades
  <2>5. QED
    BY <1>1, <2>2, <2>4 DEF QuietStep
<1>4. QED
  BY <1>2, <1>3

LEMMA TransactionsOut ==
  ASSUME ConfigsShape, NEW c \in Calls, Transaction(c)
  PROVE  QuietStep \/ Set(c) \/ SetAgain(c) \/ Commit(c)
<1>1. CASE Update(c)
  <2>1. \E y : CallSteps(c, y)
    BY <1>1, UpdateSteps
  <2>2. QED
    BY <1>1, <2>1, OneStepIsQuiet DEF Update, bounds
<1>2. CASE Insert(c)
  <2>1. \E y : CallSteps(c, y)
    BY <1>2, InsertSteps
  <2>2. QED
    BY <1>2, <2>1, OneStepIsQuiet DEF Insert, bounds
<1>3. CASE DeadlockVictim(c)
  <2>1. \E y : CallSteps(c, y)
    BY <1>3, RollbackSteps
  <2>2. QED
    BY <1>3, <2>1, OneStepIsQuiet DEF DeadlockVictim, Waits, Rollback
<1>4. CASE Get(c) \/ GetFails(c)
  <2>1. \E y : CallSteps(c, y)
    BY <1>4, GetSteps
  <2>2. QED
    BY <1>4, <2>1, OneStepIsQuiet DEF Get, GetFails, bounds
<1>5. CASE Refresh(c)
  <2>1. \E y : CallSteps(c, y)
    BY <1>5, RefreshSteps
  <2>2. QED
    BY <1>5, <2>1, OneStepIsQuiet DEF Refresh, bounds
<1>6. CASE WarmingFails(c)
  <2>1. \E y : CallSteps(c, y)
    BY <1>6, WarmingFailsSteps
  <2>2. QED
    BY <1>6, <2>1, OneStepIsQuiet DEF WarmingFails
<1>7. CASE CommitFails(c)
  <2>1. \E y : CallSteps(c, y)
    BY <1>7, RollbackSteps
  <2>2. QED
    BY <1>7, <2>1, OneStepIsQuiet DEF CommitFails, Rollback
<1>8. QED
  BY <1>1, <1>2, <1>3, <1>4, <1>5, <1>6, <1>7, DelIsQuiet, DelAgainIsQuiet DEF Transaction

-----------------------------------------------------------------------------
(* The gateway's steps.                                                     *)

\* What a step of the gateway does to the copies, and that its request stays whole.
RequestIs(r) ==
  /\ r \in RequestRecords
  /\ r.at \notin {"idle", "admitted"} => r.user \in AppUsers
  /\ r.at \in FillStages => r.buffer # NoCopy
Serves ==
  /\ UNCHANGED <<rows, member, failures, call, begun>>
  /\ requests' \in 0..MaxRequests /\ configFaults' \in 0..MaxConfigFaults
  /\ RequestIs(req')
  /\ \/ cache' = cache
     \/ \E k, copy : FillsCopy(k, copy) /\ cache' = [cache EXCEPT ![k] = copy]

LEMMA JustOneLimit ==
  ASSUME ConfigsTypeOK, NEW t
  PROVE  ActiveOf(t) # {} => TheLimit(t) \in Limits
<1> SUFFICES ASSUME ActiveOf(t) # {} PROVE TheLimit(t) \in Limits
  OBVIOUS
<1>1. PICK r : r = CHOOSE q \in ActiveOf(t) : TRUE
  OBVIOUS
<1>2. r \in ActiveOf(t)
  BY <1>1
<1>3. QED
  BY <1>1, <1>2, ActiveRows DEF TheLimit

LEMMA SomeRow ==
  ASSUME NEW t, JustOne(t)
  PROVE  ActiveOf(t) # {}
BY FS_EmptySet DEF JustOne

LEMMA PlainIsRead ==
  ASSUME NEW limit \in Limits
  PROVE  Plain(limit) \in Read /\ Plain(limit).limit = limit /\ Plain(limit).gate = "absent"
BY DEF Plain, Read, Gates

LEMMA AdmittedIs ==
  ASSUME NEW app \in {"unchecked", "checked"}, NEW owed \in BOOLEAN, NEW excused \in BOOLEAN
  PROVE  /\ RequestIs([IdleReq EXCEPT !.at = "admitted", !.app = app, !.owed = owed, !.excused = excused])
         /\ RequestIs(IdleReq)
<1>1. IdleReq \in RequestRecords /\ IdleReq.at = "idle"
  BY DEF IdleReq, RequestRecords, Buffers
<1>2. PICK r : r = [IdleReq EXCEPT !.at = "admitted", !.app = app, !.owed = owed, !.excused = excused]
  OBVIOUS
<1>3. r \in RequestRecords /\ r.at = "admitted"
  BY <1>1, <1>2 DEF RequestRecords
<1>4. RequestIs(r) /\ RequestIs(IdleReq)
  BY <1>1, <1>3 DEF RequestIs, FillStages
<1>5. QED
  BY <1>2, <1>4

\* The request goes on to another stage, with what it has read and seen.
AskedFor(r, at, buffer, saw) == [r EXCEPT !.at = at, !.buffer = buffer, !.saw = saw]

LEMMA AskedIs ==
  ASSUME NEW r \in RequestRecords, r.user \in AppUsers, NEW saw \in SUBSET {"user", "app"},
         NEW at \in {"team", "user", "check", "app", "check app"} \cup FillStages,
         NEW buffer \in Buffers, at \in FillStages => buffer # NoCopy
  PROVE  RequestIs(AskedFor(r, at, buffer, saw))
<1>1. PICK q : q = AskedFor(r, at, buffer, saw)
  OBVIOUS
<1>2. q \in RequestRecords /\ q.at = at /\ q.buffer = buffer /\ q.user = r.user
  BY <1>1 DEF AskedFor, RequestRecords, FillStages
<1>3. RequestIs(q)
  BY <1>2 DEF RequestIs
<1>4. QED
  BY <1>1, <1>3

LEMMA RequestNow ==
  ASSUME ConfigsTypeOK, RequestShape
  PROVE  /\ req \in RequestRecords /\ RequestIs(req)
         /\ req.saw \in SUBSET {"user", "app"} /\ req.buffer \in Buffers /\ req.owed \in BOOLEAN
         /\ req.at \notin {"idle", "admitted"} => req.user \in AppUsers
BY DEF ConfigsTypeOK, RequestShape, RequestIs, RequestRecords

\* One step of the request, all else as it was.
LEMMA Served ==
  ASSUME ConfigsTypeOK, RequestIs(req'),
         UNCHANGED <<rows, member, failures, call, begun, cache, requests>>,
         UNCHANGED configFaults \/ ConfigFault
  PROVE  Serves
<1>1. requests' \in 0..MaxRequests
  BY DEF ConfigsTypeOK
<1>2. configFaults' \in 0..MaxConfigFaults
  <2>1. configFaults \in 0..MaxConfigFaults /\ MaxConfigFaults \in Nat
    BY ConfigsAssumption DEF ConfigsTypeOK
  <2>2. QED
    BY <2>1 DEF ConfigFault
<1>3. QED
  BY <1>1, <1>2 DEF Serves

LEMMA Fills ==
  ASSUME ConfigsTypeOK, RequestIs(req'), NEW k, NEW copy, FillsCopy(k, copy), SetCopy(k, copy),
         UNCHANGED <<rows, member, failures, call, begun, configFaults, requests>>
  PROVE  Serves
<1>1. requests' \in 0..MaxRequests /\ configFaults' \in 0..MaxConfigFaults
  BY DEF ConfigsTypeOK
<1>2. QED
  BY <1>1 DEF Serves, SetCopy

LEMMA StartServes ==
  ASSUME ConfigsShape, RequestShape, NEW u \in AppUsers, StartRequest(u)
  PROVE  Serves
<1>1. PICK r : r = [IdleReq EXCEPT !.at = "team", !.user = u, !.owed = HasApp(u, rows)]
  OBVIOUS
<1>2. IdleReq \in RequestRecords
  BY DEF IdleReq, RequestRecords, Buffers
<1>3. r \in RequestRecords /\ r.at = "team" /\ r.user = u
  <2>1. HasApp(u, rows) \in BOOLEAN
    BY DEF HasApp
  <2>2. QED
    BY <1>1, <1>2, <2>1 DEF RequestRecords
<1>4. RequestIs(req')
  BY <1>1, <1>3 DEF RequestIs, FillStages, StartRequest, Request
<1>5. requests' \in 0..MaxRequests /\ configFaults' \in 0..MaxConfigFaults
  <2>1. MaxRequests \in Nat /\ requests \in 0..MaxRequests /\ configFaults \in 0..MaxConfigFaults
    BY ConfigsAssumption DEF ConfigsShape, ConfigsTypeOK
  <2>2. QED
    BY <2>1 DEF StartRequest, Untouched
<1>6. QED
  BY <1>4, <1>5 DEF Serves, StartRequest, Untouched

LEMMA ReadsServe ==
  ASSUME ConfigsShape, RequestShape, ReadTeam \/ ReadApp
  PROVE  Serves
<1>1. ConfigsTypeOK
  BY DEF ConfigsShape
<1>2. PICK r : r = req
  OBVIOUS
<1>3. r \in RequestRecords /\ r.user \in AppUsers /\ r.saw \in SUBSET {"user", "app"} /\ r.buffer \in Buffers
  BY <1>1, <1>2, RequestNow DEF ReadTeam, ReadApp
<1>4. RequestIs(req')
  <2>1. CASE ReadTeam
    <3>1. CASE req' = [r EXCEPT !.at = "user"]
      <4>1. req' = AskedFor(r, "user", r.buffer, r.saw)
        BY <1>3, <3>1 DEF AskedFor, RequestRecords
      <4>2. QED
        BY <1>3, <4>1, AskedIs DEF FillStages
    <3>2. CASE \E q \in ActiveOf(TeamT) : req' = [r EXCEPT !.at = "fill team", !.buffer = Plain(q.limit)]
      <4>1. PICK q \in ActiveOf(TeamT) : req' = [r EXCEPT !.at = "fill team", !.buffer = Plain(q.limit)]
        BY <3>2
      <4>2. Plain(q.limit) \in Buffers /\ Plain(q.limit) # NoCopy
        BY <1>1, ActiveRows, PlainIsRead, NoCopyAssumption DEF Buffers
      <4>3. PICK b : b = Plain(q.limit)
        OBVIOUS
      <4>4. req' = AskedFor(r, "fill team", b, r.saw)
        BY <1>3, <4>1, <4>3 DEF AskedFor, RequestRecords
      <4>5. "fill team" \in FillStages /\ b \in Buffers /\ b # NoCopy
        BY <4>2, <4>3 DEF FillStages
      <4>6. QED
        BY <1>3, <4>4, <4>5, AskedIs
    <3>3. QED
      BY <1>2, <2>1, <3>1, <3>2 DEF ReadTeam, Request
  <2>2. CASE ReadApp
    <3>1. PICK saw : saw = IF cache[AppT(r.user)] = NoCopy THEN r.saw ELSE r.saw \cup {"app"}
      OBVIOUS
    <3>2. saw \in SUBSET {"user", "app"}
      BY <1>3, <3>1
    <3>3. CASE req' = [r EXCEPT !.at = "check app", !.saw = saw]
      <4>1. req' = AskedFor(r, "check app", r.buffer, saw)
        BY <1>3, <3>2, <3>3 DEF AskedFor, RequestRecords
      <4>2. QED
        BY <1>3, <3>2, <4>1, AskedIs DEF FillStages
    <3>4. CASE \E q \in ActiveOf(AppT(r.user)) : req' = [r EXCEPT !.at = "fill app", !.buffer = Plain(q.limit)]
      <4>1. PICK q \in ActiveOf(AppT(r.user)) : req' = [r EXCEPT !.at = "fill app", !.buffer = Plain(q.limit)]
        BY <3>4
      <4>2. Plain(q.limit) \in Buffers /\ Plain(q.limit) # NoCopy
        BY <1>1, ActiveRows, PlainIsRead, NoCopyAssumption DEF Buffers
      <4>3. PICK b : b = Plain(q.limit)
        OBVIOUS
      <4>4. req' = AskedFor(r, "fill app", b, r.saw)
        BY <1>3, <4>1, <4>3 DEF AskedFor, RequestRecords
      <4>5. "fill app" \in FillStages /\ b \in Buffers /\ b # NoCopy
        BY <4>2, <4>3 DEF FillStages
      <4>6. QED
        BY <1>3, <4>4, <4>5, AskedIs
    <3>5. QED
      BY <1>2, <2>2, <3>1, <3>3, <3>4 DEF ReadApp, Request
  <2>3. QED
    BY <2>1, <2>2
<1>5. QED
  BY <1>1, <1>4, Served DEF ReadTeam, ReadApp, Untouched

LEMMA ReadUserServes ==
  ASSUME ConfigsShape, RequestShape, ReadUser
  PROVE  Serves
<1>1. ConfigsTypeOK
  BY DEF ConfigsShape
<1>2. PICK r : r = req
  OBVIOUS
<1>3. r \in RequestRecords /\ r.user \in AppUsers /\ r.saw \in SUBSET {"user", "app"} /\ r.buffer \in Buffers
  BY <1>1, <1>2, RequestNow DEF ReadUser
<1>4. CASE req' = [r EXCEPT !.at = "check", !.saw = {"user"}]
  <2>1. req' = AskedFor(r, "check", r.buffer, {"user"})
    BY <1>3, <1>4 DEF AskedFor, RequestRecords
  <2>2. RequestIs(req')
    BY <1>3, <2>1, AskedIs DEF FillStages
  <2>3. QED
    BY <1>1, <2>2, Served DEF ReadUser, Untouched
<1>5. CASE req' = [r EXCEPT !.at = "check"]
  <2>1. req' = AskedFor(r, "check", r.buffer, r.saw)
    BY <1>3, <1>5 DEF AskedFor, RequestRecords
  <2>2. RequestIs(req')
    BY <1>3, <2>1, AskedIs DEF FillStages
  <2>3. QED
    BY <1>1, <2>2, Served DEF ReadUser, Untouched
<1>6. CASE /\ JustOne(UserT(r.user))
           /\ req' = [r EXCEPT !.at = "fill user",
                !.buffer = [limit |-> TheLimit(UserT(r.user)), gate |-> GateOf(ActiveOf(AppT(r.user)))]]
  <2>1. PICK b : b = [limit |-> TheLimit(UserT(r.user)), gate |-> GateOf(ActiveOf(AppT(r.user)))]
    OBVIOUS
  <2>2. TheLimit(UserT(r.user)) \in Limits
    BY <1>1, <1>6, SomeRow, JustOneLimit
  <2>3. b \in Read
    BY <2>1, <2>2 DEF Read, GateOf, Gates
  <2>4. b \in Buffers /\ b # NoCopy
    BY <2>3, NoCopyAssumption DEF Buffers
  <2>5. req' = AskedFor(r, "fill user", b, r.saw)
    BY <1>3, <1>6, <2>1 DEF AskedFor, RequestRecords
  <2>6. RequestIs(req')
    BY <1>3, <2>4, <2>5, AskedIs DEF FillStages
  <2>7. QED
    BY <1>1, <2>6, Served DEF ReadUser, Untouched
<1>7. CASE req' = IdleReq
  <2>1. RequestIs(req')
    BY <1>7, AdmittedIs
  <2>2. QED
    BY <1>1, <2>1, Served DEF ReadUser, Untouched
<1>8. QED
  BY <1>2, <1>4, <1>5, <1>6, <1>7 DEF ReadUser, Request, Refused

LEMMA FillsServe ==
  ASSUME ConfigsShape, RequestShape, FillTeam \/ FillUser \/ FillApp
  PROVE  Serves
<1>1. ConfigsTypeOK
  BY DEF ConfigsShape
<1>2. PICK r : r = req
  OBVIOUS
<1>3. /\ r \in RequestRecords /\ r.user \in AppUsers /\ r.user \in Users
      /\ r.saw \in SUBSET {"user", "app"} /\ r.buffer \in Read
  BY <1>1, <1>2, RequestNow, ConfigsAssumption DEF FillTeam, FillUser, FillApp, RequestIs, FillStages, Buffers
<1>4. PICK b : b = r.buffer
  OBVIOUS
<1>5. b.limit \in Limits /\ b.gate \in Gates /\ NoCopy \in Buffers /\ "absent" \in Gates /\ "right" \in Why
  BY <1>3, <1>4 DEF Read, Buffers, Gates, Why
<1>6. CASE FillTeam
  <2>1. FillsCopy(TeamT, Filled(TeamT, b.limit, "absent", "right"))
    BY <1>5, TargetsDiffer, FilledCopies
  <2>2. req' = AskedFor(r, "user", NoCopy, r.saw)
    BY <1>2, <1>3, <1>6 DEF FillTeam, Request, AskedFor, RequestRecords
  <2>3. RequestIs(req')
    BY <1>3, <1>5, <2>2, AskedIs DEF FillStages
  <2>4. SetCopy(TeamT, Filled(TeamT, b.limit, "absent", "right"))
    BY <1>2, <1>4, <1>6 DEF FillTeam
  <2>5. QED
    BY <1>1, <1>6, <2>1, <2>3, <2>4, Fills DEF FillTeam, Untouched
<1>7. CASE FillUser
  <2>1. PICK why : why = WhyGate(r.user, b.gate, ActiveOf(AppT(r.user)), Calls)
    OBVIOUS
  <2>2. why \in Why
    BY <2>1, WhyIs
  <2>3. \A u \in AppUsers : UserT(r.user) = UserT(u) => why = WhyGate(u, b.gate, ActiveOf(AppT(u)), Calls)
    BY <2>1, TargetsDiffer
  <2>4. FillsCopy(UserT(r.user), Filled(UserT(r.user), b.limit, b.gate, why))
    <3>1. UserT(r.user) \in Targets
      BY <1>3, TargetsDiffer
    <3>2. QED
      BY <1>5, <2>2, <2>3, <3>1, FilledCopies
  <2>5. req' = AskedFor(r, "check", NoCopy, {"user"})
    BY <1>2, <1>3, <1>7 DEF FillUser, Request, AskedFor, RequestRecords
  <2>6. RequestIs(req')
    BY <1>3, <1>5, <2>5, AskedIs DEF FillStages
  <2>7. SetCopy(UserT(r.user), Filled(UserT(r.user), b.limit, b.gate, why))
    BY <1>2, <1>4, <1>7, <2>1 DEF FillUser
  <2>8. QED
    BY <1>1, <1>7, <2>4, <2>6, <2>7, Fills DEF FillUser, Untouched
<1>8. CASE FillApp
  <2>1. FillsCopy(AppT(r.user), Filled(AppT(r.user), b.limit, "absent", "right"))
    <3>1. AppT(r.user) \in Targets /\ \A u \in AppUsers : AppT(r.user) # UserT(u)
      BY <1>3, TargetsDiffer
    <3>2. QED
      BY <1>5, <3>1, FilledCopies
  <2>2. req' = AskedFor(r, "check app", NoCopy, r.saw \cup {"app"})
    BY <1>2, <1>3, <1>8 DEF FillApp, Request, AskedFor, RequestRecords
  <2>3. RequestIs(req')
    BY <1>3, <1>5, <2>2, AskedIs DEF FillStages
  <2>4. SetCopy(AppT(r.user), Filled(AppT(r.user), b.limit, "absent", "right"))
    BY <1>2, <1>4, <1>8 DEF FillApp
  <2>5. QED
    BY <1>1, <1>8, <2>1, <2>3, <2>4, Fills DEF FillApp, Untouched
<1>9. QED
  BY <1>6, <1>7, <1>8

LEMMA ChecksServe ==
  ASSUME ConfigsShape, RequestShape, CheckUserAndTeam \/ CheckApp \/ CheckLimitsInDb \/ RequestFails
  PROVE  Serves
<1>1. ConfigsTypeOK
  BY DEF ConfigsShape
<1>2. PICK r : r = req
  OBVIOUS
<1>3. /\ r \in RequestRecords /\ r.user \in AppUsers /\ r.saw \in SUBSET {"user", "app"}
      /\ r.buffer \in Buffers /\ r.owed \in BOOLEAN
  BY <1>1, <1>2, RequestNow DEF CheckUserAndTeam, CheckApp, CheckLimitsInDb, RequestFails
<1>4. CASE \/ req' = IdleReq
           \/ \E app \in {"unchecked", "checked"}, excused \in BOOLEAN :
                req' = [IdleReq EXCEPT !.at = "admitted", !.app = app, !.owed = r.owed, !.excused = excused]
  <2>1. RequestIs(req')
    BY <1>3, <1>4, AdmittedIs
  <2>2. QED
    BY <1>1, <2>1, Served DEF CheckUserAndTeam, CheckApp, CheckLimitsInDb, RequestFails, Untouched
<1>5. CASE CheckUserAndTeam /\ req' = [r EXCEPT !.at = "app", !.saw = {}]
  <2>1. req' = AskedFor(r, "app", r.buffer, {})
    BY <1>3, <1>5 DEF AskedFor, RequestRecords
  <2>2. RequestIs(req')
    BY <1>3, <2>1, AskedIs DEF FillStages
  <2>3. QED
    BY <1>1, <1>5, <2>2, Served DEF CheckUserAndTeam, Untouched
<1>6. CASE CheckUserAndTeam
  <2>1. Excuse(r.user) \in BOOLEAN
    <3>1. CASE cache[UserT(r.user)] = NoCopy
      <4>1. Excuse(r.user) <=> "user" \in req.saw
        BY <3>1 DEF Excuse
      <4>2. QED
        BY <3>1 DEF Excuse
    <3>2. CASE cache[UserT(r.user)] # NoCopy
      BY <3>2 DEF Excuse
    <3>3. QED
      BY <3>1, <3>2
  <2>2. QED
    BY <1>2, <1>4, <1>5, <1>6, <2>1 DEF CheckUserAndTeam, Request, Refused, AdmittedWith
<1>7. CASE CheckApp
  <2>1. ("app" \in r.saw) \in BOOLEAN
    OBVIOUS
  <2>2. PICK app \in {"unchecked", "checked"} :
          app = IF cache[AppT(r.user)] # NoCopy THEN "checked" ELSE "unchecked"
    OBVIOUS
  <2>3. PICK e \in BOOLEAN : e = ("app" \in r.saw)
    BY <2>1
  <2>4. req' = [IdleReq EXCEPT !.at = "admitted", !.app = app, !.owed = r.owed, !.excused = e]
    BY <1>2, <1>7, <2>2, <2>3 DEF CheckApp, Request, AdmittedWith
  <2>5. QED
    BY <1>4, <2>4
<1>8. CASE CheckLimitsInDb
  BY <1>2, <1>4, <1>8 DEF CheckLimitsInDb, Request, Refused, AdmittedWith
<1>9. CASE RequestFails
  BY <1>2, <1>4, <1>9 DEF RequestFails, Request, Refused
<1>10. QED
  BY <1>6, <1>7, <1>8, <1>9

LEMMA GatewayServes ==
  ASSUME ConfigsShape, RequestShape, Gateway
  PROVE  Serves
BY StartServes, ReadsServe, ReadUserServes, FillsServe, ChecksServe DEF Gateway

-----------------------------------------------------------------------------
(* All of them.                                                             *)

\* What becomes of each call: it ends, or goes on, or another commit is noted.
OneCall(c, y) ==
  /\ call' = [call EXCEPT ![c] = y] /\ CallOK(y)
  /\ y.at # "idle" => call[c].at # "idle" /\ y.n = call[c].n

LEMMA StepIsOneCall ==
  ASSUME NEW c \in Calls, NEW y, CallSteps(c, y)
  PROVE  OneCall(c, y)
<1>1. IdleCall.at = "idle"
  BY DEF IdleCall
<1>2. QED
  BY <1>1, IdleIsOK DEF CallSteps, Carries, OneCall

LEMMA CallsAfter ==
  ASSUME ConfigsShape, NEW c \in Calls, NEW y, CallOK(y), call' = [call EXCEPT ![c] = y]
  PROVE  /\ call' \in [Calls -> CallRecords] /\ call'[c] = y
         /\ \A d \in Calls : CallOK(call'[d]) /\ (d # c => call'[d] = call[d])
<1>1. call \in [Calls -> CallRecords] /\ \A d \in Calls : CallOK(call[d])
  BY CallIs DEF ConfigsShape, ConfigsTypeOK
<1>2. y \in CallRecords
  BY DEF CallOK
<1>3. QED
  BY <1>1, <1>2

LEMMA CommitIs ==
  ASSUME ConfigsShape, NEW c \in Calls, Commit(c)
  PROVE  /\ call[c].at = "commit" /\ CallOK(call[c]) /\ call[c].dels = <<>>
         /\ rows' = (rows \ call[c].held) \cup call[c].new
         /\ rows' \in SUBSET ConfigRows
         /\ call' \in [Calls -> CallRecords] /\ call'[c] = IdleCall
         /\ \A d \in Calls \ {c} :
              \/ call[d].at = "idle" /\ call'[d] = call[d] /\ CallOK(call'[d])
              \/ call[d].at # "idle" /\ Races(call[d], call'[d])
         /\ cache' \in [Targets -> Copies \cup {NoCopy}]
         /\ \A t \in Targets : cache'[t] = SettleCopy(cache[t], call[c].n)
<1>1. call[c].at = "commit" /\ CallOK(call[c]) /\ call[c] \in CallRecords
  BY CallIs DEF Commit
<1>2. call[c].dels = <<>>
  BY <1>1 DEF CallOK, QueuesOK, EarlyStages
<1>3. rows' = (rows \ call[c].held) \cup call[c].new /\ rows' \in SUBSET ConfigRows
  BY <1>1 DEF Commit, ConfigsShape, ConfigsTypeOK, CallRecords
<1>4. call' = [d \in Calls |-> IF d = c THEN IdleCall ELSE IF call[d].at = "idle" THEN call[d] ELSE Raced(call[d])]
  BY DEF Commit, Raced
<1>5. ASSUME NEW d \in Calls \ {c}
      PROVE  \/ call[d].at = "idle" /\ call'[d] = call[d] /\ CallOK(call'[d])
             \/ call[d].at # "idle" /\ Races(call[d], call'[d])
  <2>1. CallOK(call[d])
    BY CallIs
  <2>2. CASE call[d].at = "idle"
    BY <1>4, <2>1, <2>2
  <2>3. CASE call[d].at # "idle"
    <3>1. call'[d] = Raced(call[d])
      BY <1>4, <2>3
    <3>2. QED
      BY <2>1, <2>3, <3>1, RacedIsOK
  <2>4. QED
    BY <2>2, <2>3
<1>6. call'[c] = IdleCall
  BY <1>4
<1>7. call' \in [Calls -> CallRecords]
  <2>1. \A d \in Calls : call'[d] \in CallRecords
    BY <1>5, <1>6, IdleIsOK DEF Races, CallOK
  <2>2. QED
    BY <1>4, <2>1
<1>8. /\ cache' \in [Targets -> Copies \cup {NoCopy}]
      /\ \A t \in Targets : cache'[t] = SettleCopy(cache[t], call[c].n)
  <2>1. cache' = [t \in Targets |-> SettleCopy(cache[t], call[c].n)]
    BY DEF Commit
  <2>2. 0 \in 0..MaxCalls
    <3>1. MaxCalls \in Nat
      BY ConfigsAssumption
    <3>2. QED
      BY <3>1
  <2>3. ASSUME NEW copy \in Copies \cup {NoCopy}, NEW n PROVE SettleCopy(copy, n) \in Copies \cup {NoCopy}
    BY <2>2 DEF SettleCopy, Copies
  <2>4. \A t \in Targets : SettleCopy(cache[t], call[c].n) \in Copies \cup {NoCopy}
    BY <2>3 DEF ConfigsShape, ConfigsTypeOK
  <2>5. QED
    BY <2>1, <2>4
<1>9. QED
  BY <1>1, <1>2, <1>3, <1>5, <1>6, <1>7, <1>8

LEMMA ShapeQuiet ==
  ASSUME ConfigsShape, RequestShape, QuietStep
  PROVE  ConfigsShape' /\ RequestShape'
<1>1. call' \in [Calls -> CallRecords] /\ \A d \in Calls : CallOK(call'[d])
  <2>1. CASE call' = call
    BY <2>1, CallIs DEF ConfigsShape, ConfigsTypeOK
  <2>2. CASE \E c \in Calls : \E y : CallSteps(c, y)
    <3>1. PICK c \in Calls : \E y : CallSteps(c, y)
      BY <2>2
    <3>2. PICK y : CallSteps(c, y)
      BY <3>1
    <3>3. CallOK(y) /\ call' = [call EXCEPT ![c] = y]
      BY <3>2, StepIsOneCall DEF OneCall
    <3>4. QED
      BY <3>3, CallsAfter
  <2>3. QED
    BY <2>1, <2>2 DEF QuietStep
<1>2. ConfigsTypeOK'
  BY <1>1 DEF ConfigsShape, ConfigsTypeOK, QuietStep
<1>3. QED
  BY <1>1, <1>2 DEF ConfigsShape, RequestShape, QuietStep

LEMMA ShapeBegins ==
  ASSUME ConfigsShape, RequestShape, NEW c \in Calls, NEW y, Begins(c, y)
  PROVE  ConfigsShape' /\ RequestShape'
<1>1. call' \in [Calls -> CallRecords] /\ \A d \in Calls : CallOK(call'[d])
  BY CallsAfter DEF Begins
<1>2. begun' \in 0..MaxCalls
  BY NextNumber DEF ConfigsShape, Begins
<1>3. ConfigsTypeOK'
  BY <1>1, <1>2 DEF ConfigsShape, ConfigsTypeOK, Begins
<1>4. QED
  BY <1>1, <1>3 DEF ConfigsShape, RequestShape, Begins

LEMMA ShapeSets ==
  ASSUME ConfigsShape, RequestShape, NEW c \in Calls, Set(c) \/ SetAgain(c)
  PROVE  ConfigsShape' /\ RequestShape'
<1>1. PICK y, k, copy : CallSteps(c, y) /\ WritesCopy(c, k, copy) /\ cache' = [cache EXCEPT ![k] = copy]
  BY SetSteps
<1>2. call' \in [Calls -> CallRecords] /\ \A d \in Calls : CallOK(call'[d])
  <2>1. CallOK(y) /\ call' = [call EXCEPT ![c] = y]
    BY <1>1, StepIsOneCall DEF OneCall
  <2>2. QED
    BY <2>1, CallsAfter
<1>3. cache' \in [Targets -> Copies \cup {NoCopy}]
  BY <1>1 DEF WritesCopy, ConfigsShape, ConfigsTypeOK
<1>4. UNCHANGED <<rows, member, failures, req, begun, requests, configFaults>>
  BY DEF Set, SetAgain, Unwritten
<1>5. ConfigsTypeOK'
  BY <1>2, <1>3, <1>4 DEF ConfigsShape, ConfigsTypeOK
<1>6. QED
  BY <1>2, <1>4, <1>5 DEF ConfigsShape, RequestShape

LEMMA ShapeCommits ==
  ASSUME ConfigsShape, RequestShape, NEW c \in Calls, Commit(c)
  PROVE  ConfigsShape' /\ RequestShape'
<1>1. call' \in [Calls -> CallRecords] /\ \A d \in Calls : CallOK(call'[d])
  <2>1. \A d \in Calls \ {c} : CallOK(call'[d])
    BY CommitIs DEF Races
  <2>2. CallOK(call'[c])
    BY CommitIs, IdleIsOK
  <2>3. QED
    BY <2>1, <2>2, CommitIs
<1>2. PICK r : r = req
  OBVIOUS
<1>3. req' = r \/ req' = [r EXCEPT !.owed = FALSE]
  BY <1>2 DEF Commit
<1>4. r \in RequestRecords
  BY <1>2 DEF ConfigsShape, ConfigsTypeOK
<1>5. req' \in RequestRecords /\ req'.at = r.at /\ req'.user = r.user /\ req'.buffer = r.buffer
  BY <1>3, <1>4 DEF RequestRecords
<1>6. RequestShape'
  BY <1>2, <1>5 DEF RequestShape
<1>7. member' \subseteq Users /\ failures' \subseteq Targets
  <2>1. member \subseteq Users /\ failures \subseteq Targets
    BY DEF ConfigsShape, ConfigsTypeOK
  <2>2. call[c].lost \subseteq Targets
    BY CallIs DEF CallRecords
  <2>3. QED
    BY <2>1, <2>2 DEF Commit
<1>8. ConfigsTypeOK'
  <2>1. rows' \subseteq ConfigRows /\ cache' \in [Targets -> Copies \cup {NoCopy}]
    BY CommitIs
  <2>2. UNCHANGED bounds
    BY DEF Commit
  <2>3. QED
    BY <1>1, <1>5, <1>7, <2>1, <2>2 DEF ConfigsShape, ConfigsTypeOK, bounds
<1>9. QED
  BY <1>1, <1>6, <1>8 DEF ConfigsShape

LEMMA ShapeServes ==
  ASSUME ConfigsShape, RequestShape, Serves
  PROVE  ConfigsShape' /\ RequestShape'
<1>1. cache' \in [Targets -> Copies \cup {NoCopy}]
  BY DEF Serves, FillsCopy, ConfigsShape, ConfigsTypeOK
<1>2. ConfigsTypeOK'
  BY <1>1 DEF ConfigsShape, ConfigsTypeOK, Serves, RequestIs
<1>3. RequestShape'
  BY DEF Serves, RequestIs, RequestShape
<1>4. QED
  BY <1>2, <1>3 DEF ConfigsShape, Serves

\* All a step can be.
LEMMA StepsOut ==
  ASSUME ConfigsShape, RequestShape, ConfigsNext
  PROVE  \/ QuietStep \/ Serves
         \/ \E c \in Calls : Set(c) \/ SetAgain(c) \/ Commit(c)
         \/ \E c \in Calls : \E y : Begins(c, y)
<1>1. ASSUME NEW c \in Calls, Operation(c) PROVE \E y : Begins(c, y)
  BY <1>1, Operations DEF ConfigsShape
<1>2. ASSUME NEW c \in Calls, Transaction(c) PROVE QuietStep \/ Set(c) \/ SetAgain(c) \/ Commit(c)
  BY <1>2, TransactionsOut
<1>3. QED
  BY <1>1, <1>2, LapsesAreQuiet, GatewayServes DEF ConfigsNext

LEMMA ShapeNext ==
  ASSUME ConfigsShape, RequestShape, [ConfigsNext]_configVars
  PROVE  ConfigsShape' /\ RequestShape'
<1>1. CASE ConfigsNext
  <2>1. CASE \E c \in Calls : Set(c) \/ SetAgain(c) \/ Commit(c)
    BY <2>1, ShapeSets, ShapeCommits
  <2>2. CASE \E c \in Calls : \E y : Begins(c, y)
    <3>1. PICK c \in Calls : \E y : Begins(c, y)
      BY <2>2
    <3>2. PICK y : Begins(c, y)
      BY <3>1
    <3>3. QED
      BY <3>2, ShapeBegins
  <2>3. QED
    BY <1>1, <2>1, <2>2, StepsOut, ShapeQuiet, ShapeServes
<1>2. CASE UNCHANGED configVars
  BY <1>2 DEF configVars, ConfigsShape, ConfigsTypeOK, RequestShape
<1>3. QED
  BY <1>1, <1>2

-----------------------------------------------------------------------------
(* Copies that are right, and stay so.                                      *)

\* A copy that is right is right about the rows committed, or about those that
\* the call sees that wrote it; nobody else is about to make it wrong.
RowsFor(some, t) == {r \in some : r.of = t}
SessionRows(x, some, t) == {r \in (some \ x.held) \cup x.new : r.of = t}
SoundIn(copy, some, calls, f) ==
  copy # NoCopy /\ Reason(copy, f[3]) = "right" =>
    /\ copy.by = 0 =>
         Holds(copy, f[3], RowsFor(some, f[1])) /\ \A d \in Calls : ~Bears(calls[d], f)
    /\ \A c \in Calls : calls[c].at # "idle" /\ calls[c].n = copy.by =>
         /\ calls[c].at \in LateStages
         /\ Holds(copy, f[3], SessionRows(calls[c], some, f[1]))
         /\ \A d \in Calls \ {c} : ~Bears(calls[d], f)
Sound(f) == SoundIn(cache[f[2]], rows, call, f)

CopiesSound == \A f \in Facts : Sound(f)

\* What is true of a call in what it may be a step later, as far as a copy goes.
GoesOnAs(x, y, f, copy) ==
  /\ Bears(y, f) => Bears(x, f)
  /\ y.at # "idle" /\ y.n = copy.by =>
       /\ x.at # "idle" /\ x.n = y.n
       /\ x.at \in LateStages => y.at \in LateStages /\ y.held = x.held /\ y.new = x.new

LEMMA SoundKept ==
  ASSUME NEW f, NEW copy, NEW some, NEW calls, NEW after, SoundIn(copy, some, calls, f),
         \A d \in Calls : GoesOnAs(calls[d], after[d], f, copy)
  PROVE  SoundIn(copy, some, after, f)
<1> SUFFICES ASSUME copy # NoCopy, Reason(copy, f[3]) = "right"
    PROVE  /\ copy.by = 0 =>
                Holds(copy, f[3], RowsFor(some, f[1])) /\ \A d \in Calls : ~Bears(after[d], f)
           /\ \A c \in Calls : after[c].at # "idle" /\ after[c].n = copy.by =>
                /\ after[c].at \in LateStages
                /\ Holds(copy, f[3], SessionRows(after[c], some, f[1]))
                /\ \A d \in Calls \ {c} : ~Bears(after[d], f)
  BY DEF SoundIn
<1>1. \A d \in Calls : Bears(after[d], f) => Bears(calls[d], f)
  BY DEF GoesOnAs
<1>2. copy.by = 0 => Holds(copy, f[3], RowsFor(some, f[1])) /\ \A d \in Calls : ~Bears(after[d], f)
  BY <1>1 DEF SoundIn
<1>3. ASSUME NEW c \in Calls, after[c].at # "idle", after[c].n = copy.by
      PROVE  /\ after[c].at \in LateStages
             /\ Holds(copy, f[3], SessionRows(after[c], some, f[1]))
             /\ \A d \in Calls \ {c} : ~Bears(after[d], f)
  <2>1. calls[c].at # "idle" /\ calls[c].n = copy.by
    BY <1>3 DEF GoesOnAs
  <2>2. /\ calls[c].at \in LateStages
        /\ Holds(copy, f[3], SessionRows(calls[c], some, f[1]))
        /\ \A d \in Calls \ {c} : ~Bears(calls[d], f)
    BY <2>1 DEF SoundIn
  <2>3. after[c].at \in LateStages /\ after[c].held = calls[c].held /\ after[c].new = calls[c].new
    BY <1>3, <2>2 DEF GoesOnAs
  <2>4. SessionRows(after[c], some, f[1]) = SessionRows(calls[c], some, f[1])
    BY <2>3 DEF SessionRows
  <2>5. QED
    BY <1>1, <2>2, <2>3, <2>4
<1>4. QED
  BY <1>2, <1>3

LEMMA PendingIs ==
  ASSUME NEW f, NEW others
  PROVE  Pending(f[1], f[2], others) <=> \E d \in others : Bears(call[d], f)
BY DEF Pending, Changes, PastDelete, Bears, ChangesIn, PastIn

LEMMA IdleBearsNothing ==
  ASSUME NEW f
  PROVE  ~Bears(IdleCall, f)
BY DEF Bears, PastIn, IdleCall

LEMMA NoCopyIsSound ==
  ASSUME NEW f, NEW some, NEW calls
  PROVE  SoundIn(NoCopy, some, calls, f)
BY DEF SoundIn

LEMMA SpoiltIsSound ==
  ASSUME NEW f, NEW some, NEW calls, NEW copy, NEW old, Spoilt(copy, old)
  PROVE  SoundIn(copy, some, calls, f)
BY DEF SoundIn, Spoilt, Reason

LEMMA SoundQuiet ==
  ASSUME ConfigsShape, CopiesSound, QuietStep
  PROVE  CopiesSound'
<1> SUFFICES ASSUME NEW f \in Facts PROVE SoundIn(cache'[f[2]], rows', call', f)
  BY DEF CopiesSound, Sound
<1>1. rows' = rows /\ f[2] \in Targets
  BY FactsAre DEF QuietStep
<1>2. CASE Fades(f[2])
  BY <1>2, NoCopyIsSound, SpoiltIsSound DEF Fades
<1>3. CASE cache'[f[2]] = cache[f[2]] /\ ~Fades(f[2])
  <2>1. PICK copy : copy = cache[f[2]]
    OBVIOUS
  <2>2. SoundIn(copy, rows, call, f)
    BY <2>1 DEF CopiesSound, Sound
  <2>3. CASE call' = call
    BY <1>1, <1>3, <2>1, <2>2, <2>3
  <2>4. CASE call' # call
    <3>1. PICK c \in Calls : \E y : CallSteps(c, y) /\ (call[c].at = "del" => Fades(Head(call[c].dels)))
      BY <2>4 DEF QuietStep
    <3>2. PICK y : CallSteps(c, y) /\ (call[c].at = "del" => Fades(Head(call[c].dels)))
      BY <3>1
    <3>3. \A d \in Calls : d # c => call'[d] = call[d]
      BY <3>2, StepIsOneCall, CallsAfter DEF OneCall
    <3>4. call'[c] = y
      BY <3>2, StepIsOneCall, CallsAfter DEF OneCall
    <3>5. GoesOnAs(call[c], y, f, copy)
      <4>1. CASE y = IdleCall
        <5>1. IdleCall.at = "idle"
          BY DEF IdleCall
        <5>2. QED
          BY <4>1, <5>1, IdleBearsNothing DEF GoesOnAs
      <4>2. CASE Carries(call[c], y)
        <5>1. call[c].at = "del" => f[2] # Head(call[c].dels)
          BY <1>3, <3>2
        <5>2. Bears(y, f) => Bears(call[c], f)
          BY <4>2, <5>1 DEF Carries
        <5>3. call[c].at \in LateStages => call[c].at \notin EarlyStages
          BY DEF LateStages, EarlyStages
        <5>4. QED
          BY <3>2, <4>2, <5>2, <5>3 DEF Carries, GoesOnAs, CallSteps
      <4>3. QED
        BY <3>2, <4>1, <4>2 DEF CallSteps
    <3>6. \A d \in Calls : GoesOnAs(call[d], call'[d], f, copy)
      <4>1. \A d \in Calls : d # c => GoesOnAs(call[d], call'[d], f, copy)
        BY <3>3 DEF GoesOnAs
      <4>2. QED
        BY <3>4, <3>5, <4>1
    <3>7. SoundIn(copy, rows, call', f)
      BY <2>2, <3>6, SoundKept
    <3>8. QED
      BY <1>1, <1>3, <2>1, <3>7
  <2>5. QED
    BY <2>3, <2>4
<1>4. QED
  BY <1>1, <1>2, <1>3 DEF QuietStep

LEMMA SoundBegins ==
  ASSUME ConfigsShape, Numbered, CopiesSound, NEW c \in Calls, NEW y, Begins(c, y)
  PROVE  CopiesSound'
<1> SUFFICES ASSUME NEW f \in Facts PROVE SoundIn(cache'[f[2]], rows', call', f)
  BY DEF CopiesSound, Sound
<1>1. PICK copy : copy = cache[f[2]]
  OBVIOUS
<1>2. SoundIn(copy, rows, call, f) /\ cache' = cache /\ rows' = rows
  BY <1>1 DEF CopiesSound, Sound, Begins
<1>3. CASE copy = NoCopy
  BY <1>1, <1>2, <1>3, NoCopyIsSound
<1>4. CASE copy # NoCopy
  <2>1. y.n # copy.by
    <3>1. begun \in Nat
      BY DEF ConfigsShape, ConfigsTypeOK
    <3>2. f[2] \in Targets /\ copy \in Copies
      BY <1>1, <1>4, FactsAre DEF ConfigsShape, ConfigsTypeOK
    <3>3. copy.by \in Nat /\ copy.by <= begun
      BY <1>1, <1>4, <3>2 DEF Copies, Numbered
    <3>4. y.n = begun + 1
      BY DEF Begins
    <3>5. QED
      BY <3>1, <3>3, <3>4
  <2>2. ~Bears(y, f)
    BY DEF Begins, Bears, ChangesIn
  <2>3. GoesOnAs(call[c], y, f, copy)
    BY <2>1, <2>2 DEF GoesOnAs
  <2>4. call'[c] = y /\ \A d \in Calls : d # c => call'[d] = call[d]
    BY CallsAfter DEF Begins
  <2>5. \A d \in Calls : GoesOnAs(call[d], call'[d], f, copy)
    <3>1. \A d \in Calls : d # c => GoesOnAs(call[d], call'[d], f, copy)
      BY <2>4 DEF GoesOnAs
    <3>2. QED
      BY <2>3, <2>4, <3>1
  <2>6. QED
    BY <1>1, <1>2, <2>5, SoundKept
<1>5. QED
  BY <1>3, <1>4

LEMMA SoundSets ==
  ASSUME ConfigsShape, Numbered, CopiesSound, NEW c \in Calls, Set(c) \/ SetAgain(c)
  PROVE  CopiesSound'
<1> SUFFICES ASSUME NEW f \in Facts PROVE SoundIn(cache'[f[2]], rows', call', f)
  BY DEF CopiesSound, Sound
<1>1. PICK y, k, copy :
        /\ CallSteps(c, y) /\ y \in CallRecords /\ y.at \in LateStages /\ call[c].at \in {"set", "set again"}
        /\ y.n = call[c].n /\ y.held = call[c].held /\ y.new = call[c].new
        /\ WritesCopy(c, k, copy) /\ cache' = [cache EXCEPT ![k] = copy]
  BY SetSteps
<1>2. rows' = rows /\ f[2] \in Targets /\ cache \in [Targets -> Copies \cup {NoCopy}]
  BY FactsAre DEF Set, SetAgain, Unwritten, ConfigsShape, ConfigsTypeOK
<1>3. y.at # "idle" /\ y # IdleCall
  <2>1. IdleCall.at \notin LateStages /\ "idle" \notin LateStages
    BY DEF IdleCall, LateStages
  <2>2. QED
    BY <1>1, <2>1
<1>4. Carries(call[c], y)
  BY <1>1, <1>3 DEF CallSteps
<1>5. Bears(y, f) => Bears(call[c], f)
  BY <1>1, <1>4 DEF Carries
<1>6. call'[c] = y /\ \A d \in Calls : d # c => call'[d] = call[d]
  BY <1>1, StepIsOneCall, CallsAfter DEF OneCall
<1>7. CASE f[2] # k
  <2>1. PICK old : old = cache[f[2]]
    OBVIOUS
  <2>2. SoundIn(old, rows, call, f) /\ cache'[f[2]] = old
    BY <1>1, <1>2, <1>7, <2>1 DEF CopiesSound, Sound
  <2>3. \A d \in Calls : GoesOnAs(call[d], call'[d], f, old)
    <3>1. \A d \in Calls : d # c => GoesOnAs(call[d], call'[d], f, old)
      BY <1>6 DEF GoesOnAs
    <3>2. GoesOnAs(call[c], y, f, old)
      BY <1>1, <1>5 DEF GoesOnAs
    <3>3. QED
      BY <1>6, <3>1, <3>2
  <2>4. QED
    BY <1>2, <2>2, <2>3, SoundKept
<1>8. CASE f[2] = k
  <2>1. cache'[f[2]] = copy
    BY <1>1, <1>2, <1>8
  <2>2. SUFFICES ASSUME copy # NoCopy, Reason(copy, f[3]) = "right"
        PROVE  /\ copy.by # 0
               /\ \A d \in Calls : call'[d].at # "idle" /\ call'[d].n = copy.by =>
                    /\ call'[d].at \in LateStages
                    /\ Holds(copy, f[3], SessionRows(call'[d], rows', f[1]))
                    /\ \A e \in Calls \ {d} : ~Bears(call'[e], f)
    BY <2>1 DEF SoundIn
  <2>3. copy.by = call[c].n /\ call[c].at # "idle"
    BY <1>1 DEF WritesCopy
  <2>4. call[c].n \in 1..begun /\ begun \in Nat
    BY <2>3 DEF Numbered, ConfigsShape, ConfigsTypeOK
  <2>5. Holds(copy, f[3], InSession(c, f[1])) /\ ~Pending(f[1], f[2], Calls \ {c})
    BY <1>1, <1>8, <2>2 DEF WritesCopy
  <2>6. ASSUME NEW d \in Calls, call'[d].at # "idle", call'[d].n = copy.by PROVE d = c
    BY <1>6, <2>3, <2>6 DEF Numbered
  <2>7. SessionRows(call'[c], rows', f[1]) = InSession(c, f[1])
    BY <1>1, <1>2, <1>6 DEF SessionRows, InSession
  <2>8. \A e \in Calls \ {c} : ~Bears(call'[e], f)
    BY <1>6, <2>5, PendingIs
  <2>9. copy.by # 0
    BY <2>3, <2>4
  <2>10. ASSUME NEW d \in Calls, call'[d].at # "idle", call'[d].n = copy.by
         PROVE  /\ call'[d].at \in LateStages
                /\ Holds(copy, f[3], SessionRows(call'[d], rows', f[1]))
                /\ \A e \in Calls \ {d} : ~Bears(call'[e], f)
    <3>1. d = c
      BY <2>6, <2>10
    <3>2. QED
      BY <3>1, <1>1, <1>6, <2>5, <2>7, <2>8
  <2>11. QED
    BY <2>9, <2>10
<1>9. QED
  BY <1>7, <1>8

LEMMA SoundServes ==
  ASSUME ConfigsShape, Numbered, CopiesSound, Serves
  PROVE  CopiesSound'
<1> SUFFICES ASSUME NEW f \in Facts PROVE SoundIn(cache'[f[2]], rows', call', f)
  BY DEF CopiesSound, Sound
<1>1. /\ rows' = rows /\ call' = call /\ f[2] \in Targets /\ cache \in [Targets -> Copies \cup {NoCopy}]
      /\ SoundIn(cache[f[2]], rows, call, f)
  BY FactsAre DEF Serves, CopiesSound, Sound, ConfigsShape, ConfigsTypeOK
<1>2. CASE cache' = cache
  BY <1>1, <1>2
<1>3. CASE cache' # cache
  <2>1. PICK k, copy : FillsCopy(k, copy) /\ cache' = [cache EXCEPT ![k] = copy]
    BY <1>3 DEF Serves
  <2>2. CASE f[2] # k
    BY <1>1, <2>1, <2>2
  <2>3. CASE f[2] = k
    <3>1. cache'[f[2]] = copy /\ copy.by = 0
      BY <1>1, <2>1, <2>3 DEF FillsCopy
    <3>2. \A c \in Calls : call[c].at # "idle" => call[c].n # 0
      <4>1. \A c \in Calls : call[c].at # "idle" => call[c].n \in 1..begun
        BY DEF Numbered
      <4>2. begun \in Nat
        BY DEF ConfigsShape, ConfigsTypeOK
      <4>3. QED
        BY <4>1, <4>2
    <3>3. Reason(copy, f[3]) = "right" =>
            Holds(copy, f[3], RowsFor(rows, f[1])) /\ \A d \in Calls : ~Bears(call[d], f)
      <4>1. RowsFor(rows, f[1]) = ActiveOf(f[1])
        BY DEF RowsFor, ActiveOf
      <4>2. QED
        BY <2>1, <2>3, <4>1, PendingIs DEF FillsCopy
    <3>4. SoundIn(copy, rows, call, f)
      BY <3>1, <3>2, <3>3 DEF SoundIn
    <3>5. QED
      BY <1>1, <3>1, <3>4
  <2>4. QED
    BY <2>2, <2>3
<1>4. QED
  BY <1>2, <1>3

LEMMA SettledIs ==
  ASSUME NEW old \in Copies, NEW m
  PROVE  LET copy == SettleCopy(old, m)
         IN /\ copy # NoCopy => old # NoCopy
            /\ copy.limit = old.limit /\ copy.gate = old.gate
            /\ copy.whyLimit = old.whyLimit /\ copy.whyGate = old.whyGate
            /\ (old.by = m => copy.by = 0) /\ (old.by # m => copy.by = old.by)
<1>1. old # NoCopy
  BY NoCopyAssumption
<1>2. QED
  BY <1>1 DEF SettleCopy, Copies

LEMMA SoundCommits ==
  ASSUME ConfigsShape, Numbered, CopiesSound, NEW c \in Calls, Commit(c)
  PROVE  CopiesSound'
<1> SUFFICES ASSUME NEW f \in Facts PROVE SoundIn(cache'[f[2]], rows', call', f)
  BY DEF CopiesSound, Sound
<1>1. PICK x : x = call[c]
  OBVIOUS
<1>2. PICK old : old = cache[f[2]]
  OBVIOUS
<1>3. PICK copy : copy = cache'[f[2]]
  OBVIOUS
<1>4. f[2] \in Targets /\ old \in Copies \cup {NoCopy} /\ copy = SettleCopy(old, x.n)
  BY <1>1, <1>2, <1>3, FactsAre, CommitIs DEF ConfigsShape, ConfigsTypeOK
<1>5. x.at = "commit" /\ x.dels = <<>> /\ rows' = (rows \ x.held) \cup x.new /\ SoundIn(old, rows, call, f)
  BY <1>1, <1>2, CommitIs DEF CopiesSound, Sound
<1>6. CASE old = NoCopy
  BY <1>3, <1>4, <1>6, NoCopyIsSound DEF SettleCopy
<1>7. CASE old # NoCopy
  <2>1. old \in Copies
    BY <1>4, <1>7
  <2>2. /\ copy.limit = old.limit /\ copy.gate = old.gate
        /\ copy.whyLimit = old.whyLimit /\ copy.whyGate = old.whyGate
        /\ (old.by = x.n => copy.by = 0) /\ (old.by # x.n => copy.by = old.by)
    BY <1>4, <2>1, SettledIs
  <2>3. /\ \A some : Holds(copy, f[3], some) <=> Holds(old, f[3], some)
        /\ Reason(copy, f[3]) = Reason(old, f[3])
    BY <2>2 DEF Holds, Reason
  <2>4. ~Bears(call'[c], f) /\ call'[c].at = "idle"
    <3>1. IdleCall.at = "idle" /\ call'[c] = IdleCall
      BY CommitIs DEF IdleCall
    <3>2. QED
      BY <3>1, IdleBearsNothing
  <2>5. ASSUME NEW d \in Calls \ {c}
        PROVE  /\ Bears(call'[d], f) => Bears(call[d], f)
               /\ call'[d].at = call[d].at /\ call'[d].held = call[d].held /\ call'[d].new = call[d].new
               /\ call[d].at # "idle" => call'[d].n = call[d].n
    BY CommitIs DEF Races, Bears, ChangesIn, PastIn
  <2>6. Bears(x, f) <=> ChangesIn(x, f[1])
    <3>1. Range(<<>>) = {}
      BY DEF Range
    <3>2. PastIn(x, f[2])
      BY <1>5, <3>1 DEF PastIn
    <3>3. QED
      BY <3>2 DEF Bears
  <2>7. SUFFICES ASSUME Reason(old, f[3]) = "right"
        PROVE  /\ copy.by = 0 =>
                    Holds(copy, f[3], RowsFor(rows', f[1])) /\ \A d \in Calls : ~Bears(call'[d], f)
               /\ \A d \in Calls : call'[d].at # "idle" /\ call'[d].n = copy.by =>
                    /\ call'[d].at \in LateStages
                    /\ Holds(copy, f[3], SessionRows(call'[d], rows', f[1]))
                    /\ \A e \in Calls \ {d} : ~Bears(call'[e], f)
    BY <1>3, <2>3 DEF SoundIn
  <2>8. ~ChangesIn(x, f[1]) =>
          /\ RowsFor(rows', f[1]) = RowsFor(rows, f[1])
          /\ \A y : SessionRows(y, rows', f[1]) = SessionRows(y, rows, f[1])
    BY <1>5 DEF ChangesIn, RowsFor, SessionRows
  <2>9. CASE old.by = x.n
    <3>1. copy.by = 0
      BY <2>2, <2>9
    <3>2. Holds(old, f[3], SessionRows(x, rows, f[1])) /\ \A d \in Calls \ {c} : ~Bears(call[d], f)
      BY <1>1, <1>5, <1>7, <2>7, <2>9 DEF SoundIn
    <3>3. SessionRows(x, rows, f[1]) = RowsFor(rows', f[1])
      BY <1>5 DEF SessionRows, RowsFor
    <3>4. Holds(copy, f[3], RowsFor(rows', f[1]))
      BY <2>3, <3>2, <3>3
    <3>5. \A d \in Calls : ~Bears(call'[d], f)
      BY <2>4, <2>5, <3>2
    <3>6. \A d \in Calls : call'[d].at # "idle" => call'[d].n # 0
      <4>1. \A d \in Calls : call[d].at # "idle" => call[d].n \in 1..begun
        BY DEF Numbered
      <4>2. begun \in Nat
        BY DEF ConfigsShape, ConfigsTypeOK
      <4>3. ASSUME NEW d \in Calls, call'[d].at # "idle" PROVE call'[d].n # 0
        <5>1. d # c
          BY <2>4, <4>3
        <5>2. call[d].at # "idle" /\ call'[d].n = call[d].n
          BY <2>5, <4>3, <5>1
        <5>3. QED
          BY <4>1, <4>2, <5>2
      <4>4. QED
        BY <4>3
    <3>7. QED
      BY <3>1, <3>4, <3>5, <3>6
  <2>10. CASE old.by # x.n
    <3>1. copy.by = old.by
      BY <2>2, <2>10
    <3>2. ASSUME copy.by = 0
          PROVE  Holds(copy, f[3], RowsFor(rows', f[1])) /\ \A d \in Calls : ~Bears(call'[d], f)
      <4>1. Holds(old, f[3], RowsFor(rows, f[1])) /\ \A d \in Calls : ~Bears(call[d], f)
        BY <1>5, <1>7, <2>7, <3>1, <3>2 DEF SoundIn
      <4>2. ~ChangesIn(x, f[1])
        BY <1>1, <2>6, <4>1
      <4>3. QED
        BY <2>3, <2>4, <2>5, <2>8, <4>1, <4>2
    <3>3. ASSUME NEW d \in Calls, call'[d].at # "idle", call'[d].n = copy.by
          PROVE  /\ call'[d].at \in LateStages
                 /\ Holds(copy, f[3], SessionRows(call'[d], rows', f[1]))
                 /\ \A e \in Calls \ {d} : ~Bears(call'[e], f)
      <4>1. d # c
        BY <2>4, <3>3
      <4>2. /\ call[d].at # "idle" /\ call[d].n = old.by /\ call'[d].at = call[d].at
            /\ call'[d].held = call[d].held /\ call'[d].new = call[d].new
        BY <2>5, <3>1, <3>3, <4>1
      <4>3. /\ call[d].at \in LateStages /\ Holds(old, f[3], SessionRows(call[d], rows, f[1]))
            /\ \A e \in Calls \ {d} : ~Bears(call[e], f)
        BY <1>5, <1>7, <2>7, <4>2 DEF SoundIn
      <4>4. ~ChangesIn(x, f[1])
        BY <1>1, <2>6, <4>1, <4>3
      <4>5. SessionRows(call'[d], rows', f[1]) = SessionRows(call[d], rows, f[1])
        <5>1. SessionRows(call'[d], rows', f[1]) = SessionRows(call'[d], rows, f[1])
          BY <2>8, <4>4
        <5>2. SessionRows(call'[d], rows, f[1]) = SessionRows(call[d], rows, f[1])
          BY <4>2 DEF SessionRows
        <5>3. QED
          BY <5>1, <5>2
      <4>6. QED
        BY <2>3, <2>4, <2>5, <4>2, <4>3, <4>5
    <3>4. QED
      BY <3>2, <3>3
  <2>11. QED
    BY <2>9, <2>10
<1>8. QED
  BY <1>6, <1>7

LEMMA SoundNext ==
  ASSUME ConfigsShape, RequestShape, Numbered, CopiesSound, [ConfigsNext]_configVars
  PROVE  CopiesSound'
<1>1. CASE ConfigsNext
  <2>1. CASE \E c \in Calls : Set(c) \/ SetAgain(c) \/ Commit(c)
    BY <2>1, SoundSets, SoundCommits
  <2>2. CASE \E c \in Calls : \E y : Begins(c, y)
    <3>1. PICK c \in Calls : \E y : Begins(c, y)
      BY <2>2
    <3>2. PICK y : Begins(c, y)
      BY <3>1
    <3>3. QED
      BY <3>2, SoundBegins
  <2>3. QED
    BY <1>1, <2>1, <2>2, StepsOut, SoundQuiet, SoundServes
<1>2. CASE UNCHANGED configVars
  BY <1>2 DEF configVars, CopiesSound, Sound
<1>3. QED
  BY <1>1, <1>2

\* The numbers of calls: theirs alone, and no copy has one that is yet to come.
LEMMA NumbersKept ==
  ASSUME Numbered, begun' = begun,
         \A d \in Calls : call'[d].at # "idle" => call[d].at # "idle" /\ call'[d].n = call[d].n,
         \A t \in Targets : cache'[t] # NoCopy => cache'[t].by <= begun
  PROVE  Numbered'
BY DEF Numbered

LEMMA NumberedQuiet ==
  ASSUME ConfigsShape, Numbered, QuietStep
  PROVE  Numbered'
<1>1. begun' = begun
  BY DEF QuietStep
<1>2. \A t \in Targets : cache'[t] # NoCopy => cache'[t].by <= begun
  BY DEF QuietStep, Fades, Spoilt, Numbered
<1>3. \A d \in Calls : call'[d].at # "idle" => call[d].at # "idle" /\ call'[d].n = call[d].n
  <2>1. CASE call' = call
    BY <2>1
  <2>2. CASE call' # call
    <3>1. PICK c \in Calls : \E y : CallSteps(c, y)
      BY <2>2 DEF QuietStep
    <3>2. PICK y : CallSteps(c, y)
      BY <3>1
    <3>3. call'[c] = y /\ \A d \in Calls : d # c => call'[d] = call[d]
      BY <3>2, StepIsOneCall, CallsAfter DEF OneCall
    <3>4. QED
      BY <3>2, <3>3, StepIsOneCall DEF OneCall
  <2>3. QED
    BY <2>1, <2>2
<1>4. QED
  BY <1>1, <1>2, <1>3, NumbersKept

LEMMA NumberedBegins ==
  ASSUME ConfigsShape, Numbered, NEW c \in Calls, NEW y, Begins(c, y)
  PROVE  Numbered'
<1>1. call'[c] = y /\ \A d \in Calls : d # c => call'[d] = call[d]
  BY CallsAfter DEF Begins
<1>2. PICK b \in Nat : b = begun
  BY DEF ConfigsShape, ConfigsTypeOK
<1>3. begun' = b + 1 /\ y.n = b + 1 /\ cache' = cache
  BY <1>2 DEF Begins
<1>4. ASSUME NEW d \in Calls, call'[d].at # "idle", d # c PROVE call'[d].n \in 1..b /\ call[d].at # "idle"
  BY <1>1, <1>2, <1>4 DEF Numbered
<1>5. \A d \in Calls : call'[d].at # "idle" => call'[d].n \in 1..begun'
  BY <1>1, <1>3, <1>4
<1>6. ASSUME NEW d \in Calls, NEW e \in Calls, d # e, call'[d].at # "idle", call'[e].at # "idle"
      PROVE  call'[d].n # call'[e].n
  <2>1. CASE d = c
    BY <1>1, <1>3, <1>4, <1>6, <2>1
  <2>2. CASE e = c
    BY <1>1, <1>3, <1>4, <1>6, <2>2
  <2>3. CASE d # c /\ e # c
    BY <1>1, <1>6, <2>3 DEF Numbered
  <2>4. QED
    BY <2>1, <2>2, <2>3
<1>7. ASSUME NEW t \in Targets, cache'[t] # NoCopy PROVE cache'[t].by <= begun'
  <2>1. cache[t] \in Copies /\ cache[t].by <= b
    BY <1>2, <1>3, <1>7 DEF Numbered, ConfigsShape, ConfigsTypeOK
  <2>2. cache[t].by \in Int
    BY <2>1 DEF Copies
  <2>3. QED
    BY <1>3, <2>1, <2>2
<1>8. QED
  BY <1>5, <1>6, <1>7 DEF Numbered

LEMMA NumberedSets ==
  ASSUME ConfigsShape, Numbered, NEW c \in Calls, Set(c) \/ SetAgain(c)
  PROVE  Numbered'
<1>1. PICK y, k, copy :
        CallSteps(c, y) /\ y.n = call[c].n /\ WritesCopy(c, k, copy) /\ cache' = [cache EXCEPT ![k] = copy]
  BY SetSteps
<1>2. call'[c] = y /\ \A d \in Calls : d # c => call'[d] = call[d]
  BY <1>1, StepIsOneCall, CallsAfter DEF OneCall
<1>3. call[c].n \in 1..begun /\ begun \in Nat /\ begun' = begun
  <2>1. begun' = begun
    BY DEF Set, SetAgain, Unwritten
  <2>2. call[c].at # "idle" /\ begun \in Nat
    BY <1>1 DEF CallSteps, ConfigsShape, ConfigsTypeOK
  <2>3. QED
    BY <2>1, <2>2 DEF Numbered
<1>4. \A d \in Calls : call'[d].at # "idle" => call[d].at # "idle" /\ call'[d].n = call[d].n
  BY <1>1, <1>2 DEF CallSteps
<1>5. ASSUME NEW t \in Targets, cache'[t] # NoCopy PROVE cache'[t].by <= begun
  <2>1. cache \in [Targets -> Copies \cup {NoCopy}]
    BY DEF ConfigsShape, ConfigsTypeOK
  <2>2. CASE t = k
    BY <1>1, <1>3, <2>1, <2>2 DEF WritesCopy
  <2>3. CASE t # k
    BY <1>1, <1>5, <2>1, <2>3 DEF Numbered
  <2>4. QED
    BY <2>2, <2>3
<1>6. QED
  BY <1>3, <1>4, <1>5, NumbersKept

LEMMA NumberedCommits ==
  ASSUME ConfigsShape, Numbered, NEW c \in Calls, Commit(c)
  PROVE  Numbered'
<1>1. begun' = begun /\ begun \in Nat
  BY DEF Commit, bounds, ConfigsShape, ConfigsTypeOK
<1>2. \A d \in Calls : call'[d].at # "idle" => call[d].at # "idle" /\ call'[d].n = call[d].n
  <2>1. call'[c].at = "idle"
    BY CommitIs DEF IdleCall
  <2>2. \A d \in Calls \ {c} : call'[d].at # "idle" => call[d].at # "idle" /\ call'[d].n = call[d].n
    BY CommitIs DEF Races
  <2>3. QED
    BY <2>1, <2>2
<1>3. ASSUME NEW t \in Targets, cache'[t] # NoCopy PROVE cache'[t].by <= begun
  <2>1. PICK old : old = cache[t]
    OBVIOUS
  <2>2. cache'[t] = SettleCopy(old, call[c].n)
    BY <2>1, CommitIs
  <2>3. old # NoCopy
    BY <1>3, <2>2 DEF SettleCopy
  <2>4. old \in Copies /\ old.by <= begun
    BY <2>1, <2>3 DEF ConfigsShape, ConfigsTypeOK, Numbered
  <2>5. cache'[t].by \in {0, old.by}
    BY <2>2, <2>4, SettledIs
  <2>6. QED
    BY <1>1, <2>4, <2>5
<1>4. QED
  BY <1>1, <1>2, <1>3, NumbersKept

LEMMA NumberedServes ==
  ASSUME ConfigsShape, Numbered, Serves
  PROVE  Numbered'
<1>1. begun' = begun /\ begun \in Nat /\ call' = call
  BY DEF Serves, ConfigsShape, ConfigsTypeOK
<1>2. \A t \in Targets : cache'[t] # NoCopy => cache'[t].by <= begun
  BY <1>1 DEF Serves, FillsCopy, Numbered, ConfigsShape, ConfigsTypeOK
<1>3. QED
  BY <1>1, <1>2, NumbersKept

LEMMA NumberedNext ==
  ASSUME ConfigsShape, RequestShape, Numbered, [ConfigsNext]_configVars
  PROVE  Numbered'
<1>1. CASE ConfigsNext
  <2>1. CASE \E c \in Calls : Set(c) \/ SetAgain(c) \/ Commit(c)
    BY <2>1, NumberedSets, NumberedCommits
  <2>2. CASE \E c \in Calls : \E y : Begins(c, y)
    <3>1. PICK c \in Calls : \E y : Begins(c, y)
      BY <2>2
    <3>2. PICK y : Begins(c, y)
      BY <3>1
    <3>3. QED
      BY <3>2, NumberedBegins
  <2>3. QED
    BY <1>1, <2>1, <2>2, StepsOut, NumberedQuiet, NumberedServes
<1>2. CASE UNCHANGED configVars
  BY <1>2 DEF configVars, Numbered
<1>3. QED
  BY <1>1, <1>2

LEMMA SoundHasCause ==
  ASSUME CopiesSound
  PROVE  LimitHasCause
<1> SUFFICES ASSUME NEW t \in Targets, cache[t] # NoCopy, cache[t].by = 0, cache[t].whyLimit = "right"
             PROVE  cache[t].limit \in LimitsOf(t)
  BY DEF LimitHasCause
<1>1. PICK f \in Facts : f = <<t, t, "limit">>
  BY DEF Facts
<1>2. f[1] = t /\ f[2] = t /\ f[3] = "limit"
  BY <1>1
<1>3. SoundIn(cache[t], rows, call, f) /\ Reason(cache[t], f[3]) = "right"
  BY <1>2 DEF CopiesSound, Sound, Reason
<1>4. Holds(cache[t], f[3], RowsFor(rows, t))
  BY <1>2, <1>3 DEF SoundIn
<1>5. QED
  BY <1>2, <1>4 DEF Holds, RowsFor, LimitsIn, LimitsOf, ActiveOf

-----------------------------------------------------------------------------
(* At first.                                                                *)

LEMMA MinAndMax ==
  ASSUME NEW S \in SUBSET Nat, IsFiniteSet(S), S # {}
  PROVE  Min(S) \in S /\ Max(S) \in S
<1>1. \E m \in S : \A x \in S : m >= x
  <2> DEFINE f == [x \in S |-> x]
  <2>1. \A x \in S : f[x] \in Int
    OBVIOUS
  <2>2. PICK m \in S : \A x \in S : f[m] >= f[x]
    BY <2>1, LargestExists
  <2>3. QED
    BY <2>2
<1>2. \E m \in S : \A x \in S : m <= x
  <2> DEFINE f == [x \in S |-> -x]
  <2>1. \A x \in S : f[x] \in Int
    OBVIOUS
  <2>2. PICK m \in S : \A x \in S : f[m] >= f[x]
    BY <2>1, LargestExists
  <2>3. \A x \in S : m <= x
    BY <2>2
  <2>4. QED
    BY <2>3
<1>3. QED
  BY <1>1, <1>2 DEF Min, Max

LEMMA ConfigsShapeInit == ConfigsInit => ConfigsShape /\ RequestShape
<1> SUFFICES ASSUME ConfigsInit PROVE ConfigsShape /\ RequestShape
  OBVIOUS
<1>1. Min(Limits) \in Limits /\ Max(Limits) \in Limits
  BY ConfigsAssumption, MinAndMax
<1>2. 0 \in 0..MaxCalls /\ 0 \in 0..MaxRequests /\ 0 \in 0..MaxConfigFaults
  <2>1. MaxCalls \in Nat /\ MaxRequests \in Nat /\ MaxConfigFaults \in Nat
    BY ConfigsAssumption
  <2>2. QED
    BY <2>1
<1>3. ASSUME NEW t \in Targets, NEW limit \in Limits PROVE FirstRow(t, limit) \in ConfigRows
  BY <1>2 DEF FirstRow, ConfigRows
<1>4. PICK apps \in SUBSET (AppUsers \cap Budgeted) :
        rows = {FirstRow(TeamT, Max(Limits))}
                 \cup {FirstRow(UserT(u), Min(Limits)) : u \in Budgeted}
                 \cup {FirstRow(AppT(u), Min(Limits)) : u \in apps}
  BY DEF ConfigsInit
<1>5. rows \subseteq ConfigRows
  <2>1. \A u \in Budgeted : UserT(u) \in Targets
    BY ConfigsAssumption, TargetsDiffer
  <2>2. \A u \in apps : AppT(u) \in Targets
    BY TargetsDiffer
  <2>3. QED
    BY <1>1, <1>3, <1>4, <2>1, <2>2, TargetsDiffer
<1>6. \A t : FirstRow(t, Max(Limits)).of = t /\ FirstRow(t, Min(Limits)).of = t
  BY DEF FirstRow
<1>7. ASSUME NEW t \in {TeamT} \cup {UserT(u) : u \in Budgeted} PROVE ActiveOf(t) # {}
  <2>1. \E r \in rows : r.of = t
    BY <1>4, <1>6
  <2>2. QED
    BY <2>1 DEF ActiveOf
<1>8. ASSUME NEW t, ActiveOf(t) # {} PROVE TheLimit(t) \in Limits
  <2>1. PICK r : r = CHOOSE q \in ActiveOf(t) : TRUE
    OBVIOUS
  <2>2. r \in ActiveOf(t)
    BY <1>8, <2>1
  <2>3. r \in ConfigRows
    BY <1>5, <2>2 DEF ActiveOf
  <2>4. QED
    BY <2>1, <2>3 DEF TheLimit, ConfigRows
<1>9. ASSUME NEW t \in Targets PROVE cache[t] \in Copies \cup {NoCopy}
  <2>1. CASE t # TeamT /\ t \notin {UserT(u) : u \in Budgeted}
    BY <2>1 DEF ConfigsInit
  <2>2. CASE ~(t # TeamT /\ t \notin {UserT(u) : u \in Budgeted})
    <3>1. PICK gate : gate = IF t = TeamT THEN "absent" ELSE GateOf(ActiveOf(AppT(t[2])))
      OBVIOUS
    <3>2. gate \in Gates
      BY <3>1 DEF Gates, GateOf
    <3>3. TheLimit(t) \in Limits
      BY <2>2, <1>7, <1>8
    <3>4. cache[t] = [limit |-> TheLimit(t), expires |-> TRUE, by |-> 0, gate |-> gate,
                      whyLimit |-> "right", whyGate |-> "right"]
      BY <2>2, <3>1 DEF ConfigsInit
    <3>5. QED
      BY <1>2, <3>2, <3>3, <3>4 DEF Copies, Why
  <2>3. QED
    BY <2>1, <2>2
<1>10. cache \in [Targets -> Copies \cup {NoCopy}]
  <2>1. PICK body : cache = [t \in Targets |-> body[t]]
    <3>1. \E body : cache = [t \in Targets |-> body[t]]
      <4> WITNESS cache
      <4>1. QED
        BY DEF ConfigsInit
    <3>2. QED
      BY <3>1
  <2>2. QED
    BY <1>9, <2>1
<1>11. call \in [Calls -> CallRecords] /\ \A c \in Calls : CallOK(call[c])
  BY IdleIsOK DEF ConfigsInit, CallOK
<1>12. req \in RequestRecords /\ req.at = "idle"
  BY DEF ConfigsInit, IdleReq, RequestRecords, Buffers
<1>13. ConfigsTypeOK
  BY <1>2, <1>5, <1>10, <1>11, <1>12 DEF ConfigsInit, ConfigsTypeOK
<1>14. QED
  BY <1>11, <1>12, <1>13 DEF ConfigsShape, RequestShape, FillStages

LEMMA NumberedInit == ConfigsInit => Numbered
<1> SUFFICES ASSUME ConfigsInit PROVE Numbered
  OBVIOUS
<1>1. IdleCall.at = "idle"
  BY DEF IdleCall
<1>2. \A c \in Calls : call[c].at = "idle"
  BY <1>1 DEF ConfigsInit
<1>3. begun = 0 /\ \A t \in Targets : cache[t] # NoCopy => cache[t].by = 0
  BY DEF ConfigsInit
<1>4. QED
  BY <1>2, <1>3 DEF Numbered

LEMMA SoundInit == ConfigsInit => CopiesSound
<1> SUFFICES ASSUME ConfigsInit, NEW f \in Facts PROVE SoundIn(cache[f[2]], rows, call, f)
  BY DEF CopiesSound, Sound
<1>1. IdleCall.at = "idle"
  BY DEF IdleCall
<1>2. \A c \in Calls : call[c].at = "idle" /\ ~Bears(call[c], f)
  BY <1>1, IdleBearsNothing DEF ConfigsInit
<1>3. f[1] \in Targets /\ f[2] \in Targets
  BY FactsAre
<1>4. PICK copy : copy = cache[f[2]]
  OBVIOUS
<1>5. CASE copy = NoCopy
  BY <1>4, <1>5, NoCopyIsSound
<1>6. CASE copy # NoCopy
  <2>1. f[2] \in {TeamT} \cup {UserT(u) : u \in Budgeted}
    BY <1>3, <1>4, <1>6 DEF ConfigsInit
  <2>2. /\ copy.limit = TheLimit(f[2])
        /\ copy.gate = IF f[2] = TeamT THEN "absent" ELSE GateOf(ActiveOf(AppT(f[2][2])))
    BY <1>3, <1>4, <2>1 DEF ConfigsInit
  <2>3. Holds(copy, f[3], RowsFor(rows, f[1]))
    <3>1. RowsFor(rows, f[1]) = ActiveOf(f[1])
      BY DEF RowsFor, ActiveOf
    <3>2. CASE f[3] = "limit"
      <4>1. f[1] = f[2]
        BY <3>2, FactsAre
      <4>2. ActiveOf(f[2]) # {}
        <5>1. \E r \in rows : r.of = f[2]
          <6>1. \A t : FirstRow(t, Max(Limits)).of = t /\ FirstRow(t, Min(Limits)).of = t
            BY DEF FirstRow
          <6>2. QED
            BY <2>1, <6>1 DEF ConfigsInit
        <5>2. QED
          BY <5>1 DEF ActiveOf
      <4>3. PICK r : r = CHOOSE q \in ActiveOf(f[2]) : TRUE
        OBVIOUS
      <4>4. r \in ActiveOf(f[2]) /\ copy.limit = r.limit
        BY <2>2, <4>2, <4>3 DEF TheLimit
      <4>5. QED
        BY <3>1, <3>2, <4>1, <4>4 DEF Holds, LimitsIn
    <3>3. CASE f[3] = "gate"
      <4>1. PICK u \in AppUsers : f[1] = AppT(u) /\ f[2] = UserT(u)
        BY <3>3, FactsAre
      <4>2. f[2] # TeamT /\ f[2][2] = u
        BY <4>1, TargetsDiffer DEF UserT
      <4>3. QED
        BY <2>2, <3>1, <3>3, <4>1, <4>2 DEF Holds
    <3>4. QED
      BY <3>2, <3>3, FactsAre
  <2>4. QED
    BY <1>2, <1>4, <2>3 DEF SoundIn
<1>7. QED
  BY <1>5, <1>6

-----------------------------------------------------------------------------
(* The requests that the app's budget applies to.                           *)

LEMMA RowsFinite == IsFiniteSet(ConfigRows)
<1> DEFINE Us == [u \in Users |-> UserT(u)]
           As == [u \in AppUsers |-> AppT(u)]
           All == Targets \X ((0..MaxCalls) \X Limits)
           Row == [p \in All |-> [of |-> p[1], n |-> p[2][1], limit |-> p[2][2]]]
<1>1. IsFiniteSet(Users) /\ IsFiniteSet(AppUsers) /\ IsFiniteSet(Limits) /\ IsFiniteSet(0..MaxCalls)
  <2>1. IsFiniteSet(Users) /\ AppUsers \in SUBSET Users /\ IsFiniteSet(Limits) /\ MaxCalls \in Int /\ 0 \in Int
    BY ConfigsAssumption
  <2>2. QED
    BY <2>1, FS_Subset, FS_Interval
<1>2. IsFiniteSet({UserT(u) : u \in Users})
  <2>1. Us \in Surjection(Users, {UserT(u) : u \in Users})
    BY DEF Surjection
  <2>2. QED
    BY <1>1, <2>1, FS_Surjection
<1>3. IsFiniteSet({AppT(u) : u \in AppUsers})
  <2>1. As \in Surjection(AppUsers, {AppT(u) : u \in AppUsers})
    BY DEF Surjection
  <2>2. QED
    BY <1>1, <2>1, FS_Surjection
<1>4. IsFiniteSet(Targets)
  <2>1. IsFiniteSet({TeamT})
    BY FS_Singleton
  <2>2. IsFiniteSet({TeamT} \cup {UserT(u) : u \in Users})
    BY <1>2, <2>1, FS_Union
  <2>3. QED
    BY <1>3, <2>2, FS_Union DEF Targets
<1>5. IsFiniteSet(All)
  <2>1. IsFiniteSet((0..MaxCalls) \X Limits)
    BY <1>1, FS_Product
  <2>2. QED
    BY <1>4, <2>1, FS_Product
<1>6. Row \in Surjection(All, ConfigRows)
  <2>1. Row \in [All -> ConfigRows]
    BY DEF ConfigRows
  <2>2. ASSUME NEW r \in ConfigRows PROVE \E p \in All : Row[p] = r
    <3>1. PICK p \in All : p = <<r.of, <<r.n, r.limit>>>>
      BY DEF ConfigRows
    <3>2. Row[p] = [of |-> r.of, n |-> r.n, limit |-> r.limit]
      BY <3>1
    <3>3. r = [of |-> r.of, n |-> r.n, limit |-> r.limit]
      BY DEF ConfigRows
    <3>4. QED
      BY <3>2, <3>3
  <2>3. QED
    BY <2>1, <2>2 DEF Surjection
<1>7. QED
  BY <1>5, <1>6, FS_Surjection

LEMMA ActiveFinite ==
  ASSUME ConfigsTypeOK, NEW t
  PROVE  /\ IsFiniteSet(ActiveOf(t)) /\ Cardinality(ActiveOf(t)) \in Nat
         /\ Cardinality(ActiveOf(t)) = 0 <=> ActiveOf(t) = {}
<1>1. IsFiniteSet(ActiveOf(t))
  BY ActiveRows, RowsFinite, FS_Subset
<1>2. QED
  BY <1>1, FS_EmptySet, FS_CardinalityType

\* A request that the app's budget applies to: its user has both budgets still,
\* and it has seen the copy it is about to check, or is excused.
OwedIn(r, some) ==
  /\ r.owed /\ r.at \notin {"idle", "admitted"} => HasApp(r.user, some)
  /\ r.owed /\ r.at = "check" => "user" \in r.saw
  /\ r.owed /\ r.at = "check app" => "app" \in r.saw
  /\ r.at = "admitted" /\ r.owed /\ r.app = "unchecked" => r.excused
OwedIsKept == OwedIn(req, rows)

LEMMA OwedHasRows ==
  ASSUME RequestShape, OwedIsKept, req.owed, req.at \notin {"idle", "admitted"}
  PROVE  /\ ActiveOf(UserT(req.user)) # {} /\ ActiveOf(AppT(req.user)) # {}
         /\ req.user \in AppUsers
<1>1. HasApp(req.user, rows) /\ req.user \in AppUsers
  BY DEF OwedIsKept, OwedIn, RequestShape
<1>2. QED
  BY <1>1 DEF HasApp, ActiveOf

\* The request as it goes on from one stage to another.
LEMMA OwedGoesOn ==
  ASSUME NEW r \in RequestRecords, NEW some, NEW at, NEW buffer, NEW saw, OwedIn(r, some),
         r.at \notin {"idle", "admitted"}, at \notin {"idle", "admitted"},
         r.owed /\ at = "check" => "user" \in saw, r.owed /\ at = "check app" => "app" \in saw
  PROVE  OwedIn(AskedFor(r, at, buffer, saw), some)
<1>1. PICK q : q = AskedFor(r, at, buffer, saw)
  OBVIOUS
<1>2. q.at = at /\ q.saw = saw /\ q.owed = r.owed /\ q.user = r.user
  BY <1>1 DEF AskedFor, RequestRecords
<1>3. OwedIn(q, some)
  BY <1>2 DEF OwedIn
<1>4. QED
  BY <1>1, <1>3

LEMMA OwedEnds ==
  ASSUME NEW some, NEW app, NEW owed, NEW excused, owed /\ app = "unchecked" => excused
  PROVE  /\ OwedIn([IdleReq EXCEPT !.at = "admitted", !.app = app, !.owed = owed, !.excused = excused], some)
         /\ OwedIn(IdleReq, some)
<1>1. PICK q : q = [IdleReq EXCEPT !.at = "admitted", !.app = app, !.owed = owed, !.excused = excused]
  OBVIOUS
<1>2. q.at = "admitted" /\ q.app = app /\ q.owed = owed /\ q.excused = excused
  BY <1>1 DEF IdleReq
<1>3. OwedIn(q, some)
  BY <1>2 DEF OwedIn
<1>4. OwedIn(IdleReq, some)
  BY DEF IdleReq, OwedIn
<1>5. QED
  BY <1>1, <1>3, <1>4

LEMMA OwedStarts ==
  ASSUME NEW u \in AppUsers, StartRequest(u)
  PROVE  OwedIn(req', rows)
<1>1. PICK r : r = [IdleReq EXCEPT !.at = "team", !.user = u, !.owed = HasApp(u, rows)]
  OBVIOUS
<1>2. r.at = "team" /\ r.user = u /\ r.owed = HasApp(u, rows)
  BY <1>1 DEF IdleReq
<1>3. OwedIn(r, rows)
  BY <1>2 DEF OwedIn
<1>4. QED
  BY <1>1, <1>3 DEF StartRequest, Request

LEMMA OwedReads ==
  ASSUME ConfigsShape, RequestShape, OwedIsKept, ReadTeam \/ FillTeam \/ ReadApp \/ FillApp
  PROVE  OwedIn(req', rows)
<1>1. PICK r : r = req
  OBVIOUS
<1>2. r \in RequestRecords /\ OwedIn(r, rows) /\ r.at \in {"team", "fill team", "app", "fill app"}
  BY <1>1 DEF ConfigsShape, ConfigsTypeOK, OwedIsKept, ReadTeam, FillTeam, ReadApp, FillApp
<1>3. CASE ReadTeam \/ FillTeam
  <2>1. \E at \in {"user", "fill team"} : \E buffer : req' = AskedFor(r, at, buffer, r.saw)
    <3>1. CASE req' = [r EXCEPT !.at = "user"]
      <4>1. req' = AskedFor(r, "user", r.buffer, r.saw)
        BY <1>2, <3>1 DEF AskedFor, RequestRecords
      <4>2. QED
        BY <4>1
    <3>2. CASE \E q \in ActiveOf(TeamT) : req' = [r EXCEPT !.at = "fill team", !.buffer = Plain(q.limit)]
      <4>1. PICK q \in ActiveOf(TeamT) : req' = [r EXCEPT !.at = "fill team", !.buffer = Plain(q.limit)]
        BY <3>2
      <4>2. req' = AskedFor(r, "fill team", Plain(q.limit), r.saw)
        BY <1>2, <4>1 DEF AskedFor, RequestRecords
      <4>3. QED
        BY <4>2
    <3>3. CASE req' = [r EXCEPT !.at = "user", !.buffer = NoCopy]
      <4>1. req' = AskedFor(r, "user", NoCopy, r.saw)
        BY <1>2, <3>3 DEF AskedFor, RequestRecords
      <4>2. QED
        BY <4>1
    <3>4. QED
      BY <1>1, <1>3, <3>1, <3>2, <3>3 DEF ReadTeam, FillTeam, Request
  <2>2. PICK at \in {"user", "fill team"} : \E buffer : req' = AskedFor(r, at, buffer, r.saw)
    BY <2>1
  <2>3. PICK buffer : req' = AskedFor(r, at, buffer, r.saw)
    BY <2>2
  <2>4. OwedIn(AskedFor(r, at, buffer, r.saw), rows)
    BY <1>2, OwedGoesOn
  <2>5. QED
    BY <2>3, <2>4
<1>4. CASE ReadApp
  <2>1. CASE cache[AppT(r.user)] # NoCopy \/ ActiveOf(AppT(r.user)) = {}
    <3>1. PICK saw : saw = IF cache[AppT(r.user)] = NoCopy THEN r.saw ELSE r.saw \cup {"app"}
      OBVIOUS
    <3>2. req' = AskedFor(r, "check app", r.buffer, saw)
      <4>1. req' = [r EXCEPT !.at = "check app", !.saw = saw]
        BY <1>1, <1>2, <1>4, <2>1, <3>1 DEF ReadApp, Request
      <4>2. QED
        BY <1>2, <4>1 DEF AskedFor, RequestRecords
    <3>3. r.owed => "app" \in saw
      BY <1>1, <1>4, <2>1, <3>1, OwedHasRows DEF ReadApp
    <3>4. OwedIn(AskedFor(r, "check app", r.buffer, saw), rows)
      BY <1>2, <3>3, OwedGoesOn
    <3>5. QED
      BY <3>2, <3>4
  <2>2. CASE ~(cache[AppT(r.user)] # NoCopy \/ ActiveOf(AppT(r.user)) = {})
    <3>1. PICK q \in ActiveOf(AppT(r.user)) : req' = [r EXCEPT !.at = "fill app", !.buffer = Plain(q.limit)]
      BY <1>1, <1>4, <2>2 DEF ReadApp, Request
    <3>2. req' = AskedFor(r, "fill app", Plain(q.limit), r.saw)
      BY <1>2, <3>1 DEF AskedFor, RequestRecords
    <3>3. OwedIn(AskedFor(r, "fill app", Plain(q.limit), r.saw), rows)
      BY <1>2, OwedGoesOn
    <3>4. QED
      BY <3>2, <3>3
  <2>3. QED
    BY <2>1, <2>2
<1>5. CASE FillApp
  <2>1. req' = AskedFor(r, "check app", NoCopy, r.saw \cup {"app"})
    BY <1>1, <1>2, <1>5 DEF FillApp, Request, AskedFor, RequestRecords
  <2>2. OwedIn(AskedFor(r, "check app", NoCopy, r.saw \cup {"app"}), rows)
    BY <1>2, OwedGoesOn
  <2>3. QED
    BY <2>1, <2>2
<1>6. QED
  BY <1>3, <1>4, <1>5

LEMMA OwedReadsUser ==
  ASSUME ConfigsShape, RequestShape, OwedIsKept, ReadUser \/ FillUser
  PROVE  OwedIn(req', rows)
<1>1. PICK r : r = req
  OBVIOUS
<1>2. r \in RequestRecords /\ OwedIn(r, rows) /\ r.at \in {"user", "fill user"}
  BY <1>1 DEF ConfigsShape, ConfigsTypeOK, OwedIsKept, ReadUser, FillUser
<1>3. CASE req' = [r EXCEPT !.at = "check", !.saw = {"user"}] \/ req' = [r EXCEPT !.at = "check", !.buffer = NoCopy, !.saw = {"user"}]
  <2>1. \E buffer : req' = AskedFor(r, "check", buffer, {"user"})
    <3>1. CASE req' = [r EXCEPT !.at = "check", !.saw = {"user"}]
      <4>1. req' = AskedFor(r, "check", r.buffer, {"user"})
        BY <1>2, <3>1 DEF AskedFor, RequestRecords
      <4>2. QED
        BY <4>1
    <3>2. CASE req' = [r EXCEPT !.at = "check", !.buffer = NoCopy, !.saw = {"user"}]
      BY <3>2 DEF AskedFor
    <3>3. QED
      BY <1>3, <3>1, <3>2
  <2>2. PICK buffer : req' = AskedFor(r, "check", buffer, {"user"})
    BY <2>1
  <2>3. OwedIn(AskedFor(r, "check", buffer, {"user"}), rows)
    BY <1>2, OwedGoesOn
  <2>4. QED
    BY <2>2, <2>3
<1>4. CASE ActiveOf(UserT(r.user)) = {} /\ req' = [r EXCEPT !.at = "check"]
  <2>1. ~r.owed
    BY <1>1, <1>2, <1>4, OwedHasRows
  <2>2. req' = AskedFor(r, "check", r.buffer, r.saw)
    BY <1>2, <1>4 DEF AskedFor, RequestRecords
  <2>3. OwedIn(AskedFor(r, "check", r.buffer, r.saw), rows)
    BY <1>2, <2>1, OwedGoesOn
  <2>4. QED
    BY <2>2, <2>3
<1>5. CASE \E buffer : req' = [r EXCEPT !.at = "fill user", !.buffer = buffer]
  <2>1. PICK buffer : req' = [r EXCEPT !.at = "fill user", !.buffer = buffer]
    BY <1>5
  <2>2. req' = AskedFor(r, "fill user", buffer, r.saw)
    BY <1>2, <2>1 DEF AskedFor, RequestRecords
  <2>3. OwedIn(AskedFor(r, "fill user", buffer, r.saw), rows)
    BY <1>2, OwedGoesOn
  <2>4. QED
    BY <2>2, <2>3
<1>6. CASE req' = IdleReq
  BY <1>6, OwedEnds
<1>7. QED
  BY <1>1, <1>3, <1>4, <1>5, <1>6 DEF ReadUser, FillUser, Request, Refused

\* What the copies say is enough: were there no reason for the copy to be
\* wrong, it would say that the app has a budget.
LEMMA OwedIsExcused ==
  ASSUME ConfigsShape, RequestShape, CopiesSound, OwedIsKept, CheckUserAndTeam, req.owed,
         cache[UserT(req.user)] = NoCopy \/ cache[UserT(req.user)].gate # "yes"
  PROVE  Excuse(req.user)
<1>1. "user" \in req.saw /\ req.user \in AppUsers /\ ActiveOf(AppT(req.user)) # {}
  BY OwedHasRows DEF CheckUserAndTeam, OwedIsKept, OwedIn
<1>2. CASE cache[UserT(req.user)] = NoCopy
  BY <1>1, <1>2 DEF Excuse
<1>3. CASE cache[UserT(req.user)] # NoCopy
  <2>1. SUFFICES ASSUME cache[UserT(req.user)].by = 0, cache[UserT(req.user)].whyGate = "right" PROVE FALSE
    BY <1>3 DEF Excuse
  <2>2. PICK f \in Facts : f = <<AppT(req.user), UserT(req.user), "gate">>
    BY <1>1 DEF Facts
  <2>3. PICK copy : copy = cache[UserT(req.user)]
    OBVIOUS
  <2>4. f[1] = AppT(req.user) /\ f[2] = UserT(req.user) /\ f[3] = "gate"
    BY <2>2
  <2>5. SoundIn(copy, rows, call, f) /\ Reason(copy, f[3]) = "right" /\ copy # NoCopy /\ copy.by = 0
    BY <1>3, <2>1, <2>3, <2>4 DEF CopiesSound, Sound, Reason
  <2>6. Holds(copy, f[3], RowsFor(rows, f[1]))
    BY <2>5 DEF SoundIn
  <2>7. RowsFor(rows, f[1]) # {}
    BY <1>1, <2>4 DEF RowsFor, ActiveOf
  <2>8. copy.gate = "yes"
    BY <2>4, <2>6, <2>7 DEF Holds, GateOf
  <2>9. QED
    BY <1>3, <2>3, <2>8
<1>4. QED
  BY <1>2, <1>3

LEMMA OwedChecks ==
  ASSUME ConfigsShape, RequestShape, CopiesSound, OwedIsKept,
         CheckUserAndTeam \/ CheckApp \/ CheckLimitsInDb \/ RequestFails
  PROVE  OwedIn(req', rows)
<1>1. PICK r : r = req
  OBVIOUS
<1>2. r \in RequestRecords /\ OwedIn(r, rows) /\ r.at \notin {"idle", "admitted"}
  BY <1>1 DEF ConfigsShape, ConfigsTypeOK, OwedIsKept, CheckUserAndTeam, CheckApp, CheckLimitsInDb, RequestFails
<1>3. ASSUME NEW app, NEW excused, AdmittedWith(app, excused), r.owed /\ app = "unchecked" => excused
      PROVE  OwedIn(req', rows)
  BY <1>1, <1>3, OwedEnds DEF AdmittedWith, Request
<1>4. CASE Refused
  BY <1>4, OwedEnds DEF Refused, Request
<1>5. CASE CheckUserAndTeam
  <2>1. CASE Request([r EXCEPT !.at = "app", !.saw = {}])
    <3>1. req' = AskedFor(r, "app", r.buffer, {})
      BY <1>2, <2>1 DEF Request, AskedFor, RequestRecords
    <3>2. OwedIn(AskedFor(r, "app", r.buffer, {}), rows)
      BY <1>2, OwedGoesOn
    <3>3. QED
      BY <3>1, <3>2
  <2>2. CASE /\ cache[UserT(r.user)] = NoCopy \/ cache[UserT(r.user)].gate # "yes"
             /\ AdmittedWith("unchecked", Excuse(r.user))
    <3>1. r.owed => Excuse(r.user)
      BY <1>1, <1>5, <2>2, OwedIsExcused
    <3>2. QED
      BY <1>3, <2>2, <3>1
  <2>3. QED
    BY <1>1, <1>4, <1>5, <2>1, <2>2 DEF CheckUserAndTeam
<1>6. CASE CheckApp
  <2>1. r.owed => "app" \in req.saw
    BY <1>1, <1>2, <1>6 DEF CheckApp, OwedIn
  <2>2. PICK app : AdmittedWith(app, "app" \in req.saw)
    BY <1>6 DEF CheckApp
  <2>3. QED
    BY <1>3, <2>1, <2>2
<1>7. CASE CheckLimitsInDb
  <2>1. CASE /\ AtMostOne(AppT(r.user))
             /\ AdmittedWith(IF JustOne(AppT(r.user)) THEN "checked" ELSE "unchecked", FALSE)
    <3>1. r.owed => JustOne(AppT(r.user))
      <4>1. r.owed => ActiveOf(AppT(r.user)) # {}
        BY <1>1, <1>2, OwedHasRows
      <4>2. /\ Cardinality(ActiveOf(AppT(r.user))) \in Nat
            /\ Cardinality(ActiveOf(AppT(r.user))) = 0 <=> ActiveOf(AppT(r.user)) = {}
        BY ActiveFinite DEF ConfigsShape
      <4>3. QED
        BY <2>1, <4>1, <4>2 DEF AtMostOne, JustOne
    <3>2. QED
      BY <1>3, <2>1, <3>1
  <2>2. QED
    BY <1>1, <1>4, <1>7, <2>1 DEF CheckLimitsInDb
<1>8. CASE RequestFails
  BY <1>4, <1>8 DEF RequestFails
<1>9. QED
  BY <1>5, <1>6, <1>7, <1>8

LEMMA OwedNext ==
  ASSUME ConfigsShape, RequestShape, CopiesSound, OwedIsKept, [ConfigsNext]_configVars
  PROVE  OwedIsKept'
<1>1. CASE UNCHANGED <<req, rows>>
  BY <1>1 DEF OwedIsKept
<1>2. CASE \E c \in Calls : Commit(c)
  <2>1. PICK r : r = req
    OBVIOUS
  <2>2. r \in RequestRecords
    BY <2>1 DEF ConfigsShape, ConfigsTypeOK
  <2>3. CASE r.owed /\ ~HasApp(r.user, rows')
    <3>1. PICK q : q = [r EXCEPT !.owed = FALSE]
      OBVIOUS
    <3>2. q.owed = FALSE
      BY <2>2, <3>1 DEF RequestRecords
    <3>3. req' = q
      BY <1>2, <2>1, <2>3, <3>1 DEF Commit
    <3>4. QED
      BY <3>2, <3>3 DEF OwedIsKept, OwedIn
  <2>4. CASE ~(r.owed /\ ~HasApp(r.user, rows'))
    <3>1. req' = r
      BY <1>2, <2>1, <2>4 DEF Commit
    <3>2. OwedIn(r, rows)
      BY <2>1 DEF OwedIsKept
    <3>3. OwedIn(r, rows')
      BY <2>4, <3>2 DEF OwedIn
    <3>4. QED
      BY <3>1, <3>3 DEF OwedIsKept
  <2>5. QED
    BY <2>3, <2>4
<1>3. CASE Gateway
  <2>1. rows' = rows
    BY <1>3, GatewayServes DEF Serves
  <2>2. OwedIn(req', rows)
    BY <1>3, OwedStarts, OwedReads, OwedReadsUser, OwedChecks DEF Gateway
  <2>3. QED
    BY <2>1, <2>2 DEF OwedIsKept
<1>4. QED
  <2>1. ASSUME NEW c \in Calls, Operation(c) PROVE UNCHANGED <<req, rows>>
    <3>1. PICK y : Begins(c, y)
      BY <2>1, Operations DEF ConfigsShape
    <3>2. QED
      BY <3>1 DEF Begins
  <2>2. ASSUME NEW c \in Calls, Transaction(c) PROVE UNCHANGED <<req, rows>> \/ Commit(c)
    BY <2>2, TransactionsOut DEF QuietStep, Set, SetAgain, Unwritten
  <2>3. RetryFailed \/ (\E t \in Targets : Expire(t)) => UNCHANGED <<req, rows>>
    BY DEF RetryFailed, Expire
  <2>4. QED
    BY <1>1, <1>2, <1>3, <2>1, <2>2, <2>3 DEF ConfigsNext, configVars

LEMMA OwedInit == ConfigsInit => OwedIsKept
BY DEF ConfigsInit, OwedIsKept, OwedIn, IdleReq

ConfigsInductive == ConfigsShape /\ RequestShape /\ Numbered /\ CopiesSound /\ OwedIsKept

LEMMA ConfigsInductiveHolds == ConfigsSpec => []ConfigsInductive
<1>1. ConfigsInit => ConfigsInductive
  BY ConfigsShapeInit, NumberedInit, SoundInit, OwedInit DEF ConfigsInductive
<1>2. ConfigsInductive /\ [ConfigsNext]_configVars => ConfigsInductive'
  BY ShapeNext, NumberedNext, SoundNext, OwedNext DEF ConfigsInductive
<1>3. QED
  BY <1>1, <1>2, PTL DEF ConfigsSpec

\* The budget rows, their copies in Redis and the steps of the calls and of the
\* requests keep their types, whichever of them interleave (budget_service,
\* BudgetEnforcer).
THEOREM ConfigsTypesHold == ConfigsSpec => []ConfigsTypeOK
<1>1. ConfigsInductive => ConfigsTypeOK
  BY DEF ConfigsInductive, ConfigsShape
<1>2. QED
  BY <1>1, ConfigsInductiveHolds, PTL

\* A limit in Redis is that of an active row, unless the call that wrote it has
\* not committed, it was read before a commit it missed, or a DEL that failed
\* left it behind; and a request owed the app's check is admitted without it only
\* if it is on record how the copy came not to show it (budget_service of both
\* services, check_budget, set_user_client_budget).
THEOREM LimitsDoApply == ConfigsSpec => []LimitsApply
<1>1. ConfigsInductive => LimitsApply
  <2>1. ConfigsInductive => LimitHasCause
    BY SoundHasCause DEF ConfigsInductive
  <2>2. ConfigsInductive => AppBudgetApplies
    BY DEF ConfigsInductive, OwedIsKept, OwedIn, AppBudgetApplies
  <2>3. QED
    BY <2>1, <2>2 DEF LimitsApply
<1>2. QED
  BY <1>1, ConfigsInductiveHolds, PTL

-----------------------------------------------------------------------------
(* A user's budget and the team's.                                          *)

\* A budget of a user that is being set: since it was compared with the team's
\* nothing has been committed, and it takes the place of what it was compared for.
Fitted(x) ==
  x.op = "set user" /\ ~x.raced =>
    \E limit \in Limits :
      /\ Fits(x.user, limit)
      /\ x.at \in EarlyStages =>
           /\ x.todo = <<Write(UserT(x.user), limit)>>
           /\ x.at = "insert" => x.seen = ActiveOf(UserT(x.user))
      /\ x.at \notin EarlyStages =>
           /\ x.new = {[of |-> UserT(x.user), n |-> x.n, limit |-> limit]}
           /\ x.held = ActiveOf(UserT(x.user))
AllFitted == \A c \in Calls : Fitted(call[c])

LEMMA HeadOfWrite ==
  ASSUME NEW x, NEW t, NEW limit, x.todo = <<Write(t, limit)>>
  PROVE  Head(x.todo).of = t /\ Head(x.todo).limit = limit
<1>1. PICK w : w = Write(t, limit)
  OBVIOUS
<1>2. w.of = t /\ w.limit = limit
  BY <1>1 DEF Write
<1>3. \A v \in {w} : Head(<<v>>) = v
  OBVIOUS
<1>4. x.todo = <<w>>
  BY <1>1
<1>5. Head(x.todo) = w
  BY <1>3, <1>4
<1>6. QED
  BY <1>2, <1>5

LEMMA IdleIsFitted == Fitted(IdleCall)
BY DEF Fitted, IdleCall

LEMMA FittedStays ==
  ASSUME NEW y, Fitted(y), UNCHANGED <<rows, member>>
  PROVE  Fitted(y)'
<1>1. \A u, limit : Fits(u, limit) <=> Fits(u, limit)'
  BY DEF Fits, MemberSum, RowsOfMembers, LimitSum, JustOne, AtMostOne, TheLimit, ActiveOf
<1>2. \A t : ActiveOf(t) = ActiveOf(t)'
  BY DEF ActiveOf
<1>3. QED
  BY <1>1, <1>2 DEF Fitted

LEMMA FittedGoesOn ==
  ASSUME NEW x, NEW y, Fitted(x), Carries(x, y), x.at \notin EarlyStages
  PROVE  Fitted(y)
BY DEF Fitted, Carries

LEMMA FittedLooks ==
  ASSUME NEW x, NEW y, Fitted(x), Carries(x, y), x.at = "update",
         Looks(x, y, ActiveOf(Head(x.todo).of))
  PROVE  Fitted(y)
<1> SUFFICES ASSUME y.op = "set user", ~y.raced PROVE Fitted(y)
  BY DEF Fitted
<1>1. x.op = "set user" /\ ~x.raced /\ y.user = x.user
  BY DEF Carries
<1>2. PICK limit \in Limits : Fits(x.user, limit) /\ x.todo = <<Write(UserT(x.user), limit)>>
  BY <1>1 DEF Fitted, EarlyStages
<1>3. Head(x.todo).of = UserT(x.user)
  <2>1. PICK t : t = UserT(x.user)
    OBVIOUS
  <2>2. x.todo = <<Write(t, limit)>>
    BY <1>2, <2>1
  <2>3. Head(x.todo).of = t /\ Head(x.todo).limit = limit
    BY <2>2, HeadOfWrite
  <2>4. QED
    BY <2>1, <2>3
<1>4. y.at = "insert" /\ y.todo = x.todo /\ y.seen = ActiveOf(UserT(x.user))
  BY <1>3 DEF Looks
<1>5. QED
  BY <1>1, <1>2, <1>4 DEF Fitted, EarlyStages

LEMMA FittedGains ==
  ASSUME NEW x, NEW y, CallOK(x), Fitted(x), Carries(x, y), x.at = "insert",
         Gains(x, y, x.seen \cap rows)
  PROVE  Fitted(y)
<1> SUFFICES ASSUME y.op = "set user", ~y.raced PROVE Fitted(y)
  BY DEF Fitted
<1>1. x.op = "set user" /\ ~x.raced /\ y.user = x.user /\ y.n = x.n
  BY DEF Carries
<1>2. PICK limit \in Limits : /\ Fits(x.user, limit) /\ x.todo = <<Write(UserT(x.user), limit)>>
                              /\ x.seen = ActiveOf(UserT(x.user))
  BY <1>1 DEF Fitted, EarlyStages
<1>3. x.held = {} /\ x.new = {}
  BY <1>1 DEF CallOK, WritesOne, EarlyStages
<1>4. PICK r : r = [of |-> UserT(x.user), n |-> x.n, limit |-> limit]
  OBVIOUS
<1>5. AddedBy(x) = {r}
  <2>1. limit # 0
    BY ConfigsAssumption
  <2>2. Head(x.todo).of = UserT(x.user) /\ Head(x.todo).limit = limit
    BY <1>2, HeadOfWrite
  <2>3. QED
    BY <1>4, <2>1, <2>2 DEF AddedBy
<1>6. y.new = {r} /\ y.held = ActiveOf(UserT(x.user))
  <2>1. x.seen \cap rows = ActiveOf(UserT(x.user))
    BY <1>2 DEF ActiveOf
  <2>2. QED
    BY <1>3, <1>5, <2>1 DEF Gains
<1>7. y.at \notin EarlyStages
  <2>1. CallOK(y)
    BY DEF Carries
  <2>2. QED
    BY <1>6, <2>1 DEF CallOK, WritesOne
<1>8. QED
  BY <1>1, <1>2, <1>4, <1>6, <1>7 DEF Fitted

LEMMA FittedBegins ==
  ASSUME NEW c \in Calls, NEW y, Begins(c, y)
  PROVE  Fitted(y)
<1> SUFFICES ASSUME y.op = "set user" PROVE Fitted(y)
  BY DEF Fitted
<1>1. y.at = "update" /\ y.at \in EarlyStages
  BY DEF Begins, EarlyStages
<1>2. PICK limit \in Limits : y.todo = <<Write(UserT(y.user), limit)>> /\ Fits(y.user, limit)
  BY DEF Begins
<1>3. QED
  BY <1>1, <1>2 DEF Fitted

\* A step of a transaction, other than its commit.
LEMMA FittedSteps ==
  ASSUME ConfigsShape, NEW c \in Calls, Fitted(call[c]), Transaction(c), ~Commit(c)
  PROVE  /\ UNCHANGED <<rows, member>>
         /\ \E y : CallSteps(c, y) /\ Fitted(y)
<1>1. CallOK(call[c])
  BY CallIs
<1>2. PICK x : x = call[c]
  OBVIOUS
<1>3. UNCHANGED <<rows, member>>
  BY DEF Transaction, Update, Insert, DeadlockVictim, Rollback, Del, DelFails, Get, GetFails, Set, DelAgain,
         Refresh, SetAgain, WarmingFails, CommitFails, Unwritten
<1>4. CASE Update(c)
  <2>1. PICK y : CallSteps(c, y) /\ Looks(x, y, ActiveOf(Head(x.todo).of))
    BY <1>2, <1>4, UpdateSteps
  <2>2. Fitted(y)
    <3>1. x.at = "update"
      BY <1>2, <1>4 DEF Update
    <3>2. QED
      BY <1>2, <2>1, <3>1, FittedLooks, IdleIsFitted DEF CallSteps
  <2>3. QED
    BY <1>3, <2>1, <2>2
<1>5. CASE Insert(c)
  <2>1. PICK y : CallSteps(c, y) /\ Gains(x, y, x.seen \cap rows)
    BY <1>2, <1>5, InsertSteps
  <2>2. Fitted(y)
    <3>1. x.at = "insert"
      BY <1>2, <1>5 DEF Insert
    <3>2. QED
      BY <1>1, <1>2, <2>1, <3>1, FittedGains, IdleIsFitted DEF CallSteps
  <2>3. QED
    BY <1>3, <2>1, <2>2
<1>6. CASE DeadlockVictim(c) \/ CommitFails(c)
  BY <1>3, <1>6, IdleIsFitted DEF DeadlockVictim, Waits, CommitFails, Rollback, CallSteps
<1>7. CASE /\ \E y : CallSteps(c, y)
           /\ call[c].at \notin EarlyStages
  <2>1. PICK y : CallSteps(c, y)
    BY <1>7
  <2>2. Fitted(y)
    BY <1>7, <2>1, FittedGoesOn, IdleIsFitted DEF CallSteps
  <2>3. QED
    BY <1>3, <2>1, <2>2
<1>8. CASE Del(c) \/ DelFails(c) \/ Get(c) \/ GetFails(c) \/ Set(c) \/ Refresh(c) \/ SetAgain(c) \/ WarmingFails(c)
  <2>1. \E y : CallSteps(c, y)
    BY <1>8, DelSteps, GetSteps, SetSteps, RefreshSteps, WarmingFailsSteps
  <2>2. call[c].at \notin EarlyStages
    BY <1>8 DEF Del, DelFails, Get, GetFails, Set, Refresh, SetAgain, WarmingFails, EarlyStages
  <2>3. QED
    BY <1>7, <2>1, <2>2
<1>9. CASE DelAgain(c)
  <2>1. call[c].at = "del again" /\ call[c].op = "clear app"
    BY <1>1, <1>9 DEF DelAgain, CallOK, StageOK, EarlyStages, CallRecords
  <2>2. Go(c, "refresh") /\ call[c].at \notin EarlyStages \cup {"idle", "del"} \cup LateStages
    BY <1>9, <2>1 DEF DelAgain, EarlyStages, LateStages
  <2>3. \E y : CallSteps(c, y)
    BY <2>1, <2>2, GoesOn
  <2>4. QED
    BY <1>7, <2>2, <2>3
<1>10. QED
  BY <1>4, <1>5, <1>6, <1>8, <1>9 DEF Transaction

LEMMA FittedNext ==
  ASSUME ConfigsShape, RequestShape, AllFitted, [ConfigsNext]_configVars
  PROVE  AllFitted'
<1>1. CASE UNCHANGED <<rows, member, call>>
  BY <1>1, FittedStays DEF AllFitted
<1>2. ASSUME NEW c \in Calls, NEW y, CallOK(y), Fitted(y), call' = [call EXCEPT ![c] = y],
             UNCHANGED <<rows, member>>
      PROVE  AllFitted'
  <2>1. call'[c] = y /\ \A d \in Calls : d # c => call'[d] = call[d]
    BY <1>2, CallsAfter
  <2>2. Fitted(y)' /\ \A d \in Calls : \A z : z = call[d] => Fitted(z)'
    BY <1>2, FittedStays DEF AllFitted
  <2>3. QED
    BY <2>1, <2>2 DEF AllFitted
<1>3. ASSUME NEW c \in Calls, Commit(c) PROVE AllFitted'
  <2>1. ASSUME NEW d \in Calls PROVE Fitted(call[d])'
    <3>1. CASE d = c
      <4>1. call'[d] = IdleCall
        BY <1>3, <3>1, CommitIs
      <4>2. call'[d].op = "none"
        BY <4>1 DEF IdleCall
      <4>3. QED
        BY <4>2 DEF Fitted
    <3>2. CASE d # c /\ call[d].at = "idle"
      <4>1. call'[d].at = "idle" /\ CallOK(call'[d])
        BY <1>3, <3>2, CommitIs
      <4>2. call'[d].op = "none"
        BY <4>1 DEF CallOK, StageOK
      <4>3. QED
        BY <4>2 DEF Fitted
    <3>3. CASE d # c /\ call[d].at # "idle"
      <4>1. call'[d].raced = TRUE
        BY <1>3, <3>3, CommitIs DEF Races
      <4>2. QED
        BY <4>1 DEF Fitted
    <3>4. QED
      BY <3>1, <3>2, <3>3
  <2>2. QED
    BY <2>1 DEF AllFitted
<1>4. ASSUME NEW c \in Calls, Operation(c) PROVE AllFitted'
  <2>1. PICK y : Begins(c, y)
    BY <1>4, Operations DEF ConfigsShape
  <2>2. Fitted(y)
    BY <2>1, FittedBegins
  <2>3. QED
    BY <1>2, <2>1, <2>2 DEF Begins
<1>5. ASSUME NEW c \in Calls, Transaction(c), ~Commit(c) PROVE AllFitted'
  <2>1. Fitted(call[c])
    BY DEF AllFitted
  <2>2. PICK y : CallSteps(c, y) /\ Fitted(y)
    BY <1>5, <2>1, FittedSteps
  <2>3. CallOK(y) /\ call' = [call EXCEPT ![c] = y]
    BY <2>2, StepIsOneCall DEF OneCall
  <2>4. UNCHANGED <<rows, member>>
    BY <1>5, <2>1, FittedSteps
  <2>5. QED
    BY <1>2, <2>2, <2>3, <2>4
<1>6. CASE RetryFailed \/ (\E t \in Targets : Expire(t)) \/ Gateway
  <2>1. UNCHANGED <<rows, member, call>>
    BY <1>6, GatewayServes DEF RetryFailed, Expire, Serves
  <2>2. QED
    BY <1>1, <2>1
<1>7. CASE UNCHANGED configVars
  BY <1>1, <1>7 DEF configVars
<1>8. QED
  BY <1>3, <1>4, <1>5, <1>6, <1>7 DEF ConfigsNext

LEMMA FittedInit == ConfigsInit => AllFitted
BY IdleIsFitted DEF ConfigsInit, AllFitted

\* Sums of limits, over any rows there can be.
RowLimits == [r \in ConfigRows |-> r.limit]

LEMMA LimitSumIs ==
  ASSUME NEW some \in SUBSET ConfigRows
  PROVE  /\ IsFiniteSet(some) /\ \A r \in some : RowLimits[r] = r.limit /\ RowLimits[r] \in Int
         /\ LimitSum(some) = SumFunctionOnSet(RowLimits, some)
         /\ LimitSum(some) \in Int
<1>1. IsFiniteSet(some)
  BY RowsFinite, FS_Subset
<1>2. \A r \in some : RowLimits[r] = r.limit /\ RowLimits[r] \in Int
  <2>1. Limits \subseteq Int
    BY ConfigsAssumption
  <2>2. QED
    BY <2>1 DEF RowLimits, ConfigRows
<1>3. PICK g : g = [r \in some |-> r.limit]
  OBVIOUS
<1>4. \A r \in some : RowLimits[r] \in Int /\ g[r] = RowLimits[r]
  BY <1>2, <1>3
<1>5. SumFunctionOnSet(g, some) = SumFunctionOnSet(RowLimits, some)
  BY <1>1, <1>4, SumSame
<1>6. SumFunctionOnSet(RowLimits, some) \in Int
  BY <1>1, <1>4, SumIsInt
<1>7. QED
  BY <1>1, <1>2, <1>3, <1>5, <1>6 DEF LimitSum

\* The members' rows, one user's aside, and another row in their place.
LEMMA SumReplaced ==
  ASSUME NEW some \in SUBSET ConfigRows, NEW own \in SUBSET some, NEW r \in ConfigRows, r \notin some \ own
  PROVE  /\ LimitSum((some \ own) \cup {r}) = LimitSum(some \ own) + r.limit
         /\ own = {} => LimitSum(some) = LimitSum(some \ own)
         /\ \A q : own = {q} => LimitSum(some) = LimitSum(some \ own) + q.limit
<1>1. PICK rest \in SUBSET ConfigRows : rest = some \ own
  OBVIOUS
<1>2. IsFiniteSet(rest) /\ \A q \in rest : RowLimits[q] \in Int
  BY LimitSumIs
<1>3. ASSUME NEW q \in ConfigRows, q \notin rest
      PROVE  LimitSum(rest \cup {q}) = LimitSum(rest) + q.limit
  <2>1. rest \cup {q} \in SUBSET ConfigRows /\ RowLimits[q] = q.limit /\ \A p \in rest \cup {q} : RowLimits[p] \in Int
    <3>1. PICK both \in SUBSET ConfigRows : both = rest \cup {q}
      OBVIOUS
    <3>2. \A p \in both : RowLimits[p] = p.limit /\ RowLimits[p] \in Int
      BY LimitSumIs
    <3>3. QED
      BY <3>1, <3>2
  <2>2. SumFunctionOnSet(RowLimits, rest \cup {q}) = RowLimits[q] + SumFunctionOnSet(RowLimits, rest)
    BY <1>2, <1>3, <2>1, SumWith
  <2>3. LimitSum(rest) = SumFunctionOnSet(RowLimits, rest) /\ LimitSum(rest) \in Int
    BY LimitSumIs
  <2>4. LimitSum(rest \cup {q}) = SumFunctionOnSet(RowLimits, rest \cup {q})
    BY <2>1, LimitSumIs
  <2>5. RowLimits[q] \in Int
    BY <2>1
  <2>6. QED
    BY <2>1, <2>2, <2>3, <2>4, <2>5
<1>4. LimitSum(rest \cup {r}) = LimitSum(rest) + r.limit
  BY <1>1, <1>3
<1>5. own = {} => some = rest
  BY <1>1
<1>6. ASSUME NEW q, own = {q} PROVE LimitSum(some) = LimitSum(rest) + q.limit
  <2>1. q \in ConfigRows /\ q \notin rest /\ rest \cup {q} = some
    BY <1>1, <1>6
  <2>2. LimitSum(rest \cup {q}) = LimitSum(rest) + q.limit
    BY <1>3, <2>1
  <2>3. QED
    BY <2>1, <2>2
<1>7. QED
  BY <1>1, <1>4, <1>5, <1>6

\* One row at most: none, or the one whose limit the budget is.
LEMMA NoneOrOne ==
  ASSUME ConfigsTypeOK, NEW t, AtMostOne(t)
  PROVE  \/ ActiveOf(t) = {} /\ ~JustOne(t)
         \/ \E q : ActiveOf(t) = {q} /\ JustOne(t) /\ TheLimit(t) = q.limit
<1>1. IsFiniteSet(ActiveOf(t)) /\ Cardinality(ActiveOf(t)) \in Nat
      /\ (Cardinality(ActiveOf(t)) = 0 <=> ActiveOf(t) = {})
  BY ActiveFinite
<1>2. CASE Cardinality(ActiveOf(t)) = 0
  BY <1>1, <1>2 DEF JustOne
<1>3. CASE Cardinality(ActiveOf(t)) = 1
  <2>1. PICK q : ActiveOf(t) = {q}
    BY <1>1, <1>3, FS_Singleton
  <2>2. TheLimit(t) = q.limit
    BY <2>1 DEF TheLimit
  <2>3. QED
    BY <1>3, <2>1, <2>2 DEF JustOne
<1>4. QED
  BY <1>1, <1>2, <1>3 DEF AtMostOne

\* A budget that fits, put in the place of what the user had, still fits.
LEMMA FitsInPlace ==
  ASSUME ConfigsTypeOK, NEW u \in Users, NEW limit \in Limits, NEW n \in 0..MaxCalls, Fits(u, limit),
         u \in member, ActiveOf(TeamT) # {}
  PROVE  LimitSum(RowsOfMembers((rows \ ActiveOf(UserT(u))) \cup {[of |-> UserT(u), n |-> n, limit |-> limit]}))
           <= TheLimit(TeamT)
<1>1. PICK r : r = [of |-> UserT(u), n |-> n, limit |-> limit]
  OBVIOUS
<1>2. r \in ConfigRows /\ r.of = UserT(u) /\ r.limit = limit
  BY <1>1, TargetsDiffer DEF ConfigRows
<1>3. PICK own : own = ActiveOf(UserT(u))
  OBVIOUS
<1>4. PICK some : some = RowsOfMembers(rows)
  OBVIOUS
<1>5. some \in SUBSET ConfigRows /\ own \in SUBSET some /\ r \notin some \ own
  BY <1>2, <1>3, <1>4 DEF ConfigsTypeOK, RowsOfMembers, ActiveOf
<1>6. RowsOfMembers((rows \ own) \cup {r}) = (some \ own) \cup {r}
  BY <1>2, <1>3, <1>4 DEF RowsOfMembers, ActiveOf
<1>7. PICK rest \in Int : rest = LimitSum(some \ own)
  <2>1. PICK left \in SUBSET ConfigRows : left = some \ own
    BY <1>5
  <2>2. LimitSum(left) \in Int
    BY LimitSumIs
  <2>3. QED
    BY <2>1, <2>2
<1>8. LimitSum((some \ own) \cup {r}) = rest + limit
  BY <1>2, <1>5, <1>7, SumReplaced
<1>9. /\ JustOne(TeamT) /\ AtMostOne(UserT(u))
      /\ LimitSum(some) + limit
           <= TheLimit(TeamT) + (IF JustOne(UserT(u)) THEN TheLimit(UserT(u)) ELSE 0)
  BY <1>4 DEF Fits, MemberSum
<1>10. TheLimit(TeamT) \in Limits /\ Limits \subseteq Nat
  BY JustOneLimit, ConfigsAssumption
<1>11. rest + limit <= TheLimit(TeamT)
  <2>1. CASE own = {} /\ ~JustOne(UserT(u))
    <3>1. LimitSum(some) = rest
      BY <1>2, <1>5, <1>7, <2>1, SumReplaced
    <3>2. PICK total \in Nat : total = TheLimit(TeamT)
      BY <1>10
    <3>3. rest + limit <= total + 0
      BY <1>9, <2>1, <3>1, <3>2
    <3>4. QED
      BY <3>2, <3>3
  <2>2. CASE \E q : own = {q} /\ JustOne(UserT(u)) /\ TheLimit(UserT(u)) = q.limit
    <3>1. PICK q : own = {q} /\ JustOne(UserT(u)) /\ TheLimit(UserT(u)) = q.limit
      BY <2>2
    <3>2. LimitSum(some) = rest + q.limit
      BY <1>2, <1>5, <1>7, <3>1, SumReplaced
    <3>3. PICK total \in Nat, had \in Nat, wanted \in Nat : total = TheLimit(TeamT) /\ had = q.limit /\ wanted = limit
      <4>1. q.limit \in Limits
        BY <1>5, <3>1 DEF ConfigRows
      <4>2. QED
        BY <1>10, <4>1
    <3>4. rest + had + wanted <= total + had
      BY <1>9, <3>1, <3>2, <3>3
    <3>5. QED
      BY <1>7, <3>3, <3>4
  <2>3. QED
    BY <1>3, <1>9, <2>1, <2>2, NoneOrOne
<1>12. QED
  BY <1>1, <1>3, <1>6, <1>8, <1>11

LEMMA MembersFit ==
  ASSUME ConfigsShape, RequestShape, AllFitted, [ConfigsNext]_configVars, NEW c \in Calls,
         call[c].op = "set user", call[c].at = "commit", call[c].user \in member,
         ~call[c].raced, ActiveOf(TeamT) # {}, rows' # rows, call'[c].at = "idle"
  PROVE  LimitSum(RowsOfMembers(rows')) <= TheLimit(TeamT)
<1>1. PICK d \in Calls : Commit(d)
  <2>1. ASSUME NEW d \in Calls, Operation(d) PROVE FALSE
    <3>1. PICK y : Begins(d, y)
      BY <2>1, Operations DEF ConfigsShape
    <3>2. QED
      BY <3>1 DEF Begins
  <2>2. ASSUME NEW d \in Calls, Transaction(d), ~Commit(d) PROVE FALSE
    BY <2>2, FittedSteps DEF AllFitted
  <2>3. Gateway => FALSE
    BY GatewayServes DEF Serves
  <2>4. RetryFailed \/ (\E t \in Targets : Expire(t)) => FALSE
    BY DEF RetryFailed, Expire
  <2>5. QED
    BY <2>1, <2>2, <2>3, <2>4 DEF ConfigsNext, configVars
<1>2. d = c
  <2>1. d # c => call'[c].at = call[c].at
    BY <1>1, CommitIs DEF Races
  <2>2. QED
    BY <2>1
<1>3. PICK x : x = call[c]
  OBVIOUS
<1>4. CallOK(x) /\ x \in CallRecords /\ Fitted(x) /\ x.op = "set user" /\ ~x.raced /\ x.at \notin EarlyStages
  BY <1>3, CallIs DEF AllFitted, EarlyStages
<1>5. PICK limit \in Limits : /\ Fits(x.user, limit)
                              /\ x.new = {[of |-> UserT(x.user), n |-> x.n, limit |-> limit]}
                              /\ x.held = ActiveOf(UserT(x.user))
  BY <1>4 DEF Fitted
<1>6. x.user \in Users /\ x.n \in 0..MaxCalls
  BY <1>4 DEF CallOK, PartiesOK, CallRecords
<1>7. rows' = (rows \ ActiveOf(UserT(x.user))) \cup {[of |-> UserT(x.user), n |-> x.n, limit |-> limit]}
  BY <1>1, <1>2, <1>3, <1>5 DEF Commit
<1>8. LimitSum(RowsOfMembers((rows \ ActiveOf(UserT(x.user))) \cup {[of |-> UserT(x.user), n |-> x.n, limit |-> limit]}))
        <= TheLimit(TeamT)
  BY <1>3, <1>5, <1>6, FitsInPlace DEF ConfigsShape
<1>9. QED
  BY <1>7, <1>8

\* A user's budget that is set while nothing else commits leaves the sum of the
\* members' budgets within the budget of their team (set_user_budget).
THEOREM MembersStayWithinTeam == ConfigsSpec => MembersWithinTeam
<1>1. ConfigsInit => AllFitted
  BY FittedInit
<1>2. ConfigsInductive /\ AllFitted /\ [ConfigsNext]_configVars => AllFitted'
  BY FittedNext DEF ConfigsInductive
<1>3. ConfigsInductive /\ AllFitted /\ [ConfigsNext]_configVars =>
        [\A c \in Calls :
           /\ call[c].op = "set user" /\ call[c].at = "commit" /\ call[c].user \in member
           /\ ~call[c].raced /\ ActiveOf(TeamT) # {} /\ rows' # rows
           /\ call'[c].at = "idle"
           => LimitSum(RowsOfMembers(rows')) <= TheLimit(TeamT)]_configVars
  BY MembersFit DEF ConfigsInductive
<1>4. QED
  BY <1>1, <1>2, <1>3, ConfigsInductiveHolds, PTL DEF ConfigsSpec, MembersWithinTeam
===========================================================================
