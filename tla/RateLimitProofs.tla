-------------------------- MODULE RateLimitProofs --------------------------
(***************************************************************************)
(* The rate limits, for any requests, keys, limits and windows, and however*)
(* many attempts at Redis fail. What a key admits is read off the history  *)
(* of the evaluations of its script, and the proof is that the sorted set  *)
(* remembers of this history what a window needs.  And as long as none     *)
(* fails, what the counters hold is what the requests owe: a step of a     *)
(* request moves both by the same amount.                                  *)
(*                                                                         *)
(* And the credential brokers, for any profiles, durations and number of   *)
(* requests. Each broker's lock makes a miss exclusive, so what a mint     *)
(* takes for the end of its credentials is the end of the credentials it   *)
(* signs with; the rest is arithmetic over the margins.                    *)
(***************************************************************************)
EXTENDS RateLimit, AccountCredentials, FiniteSums

Entries == [req : Requests, at : Nat]
Evaluations == [req : Requests, at : Nat, ok : BOOLEAN]
Buckets == [win : Nat, cur : Int, prev : Int]
Amounts == {"tpm", "cost"} \X Int

RateShape ==
  /\ now \in Nat
  /\ stage = [r \in Requests |-> stage[r]]
  /\ at \in [Requests -> Nat] /\ \A r \in Requests : at[r] <= now
  /\ rpm \in [Keys -> SUBSET Entries] /\ \A k \in Keys : IsFiniteSet(rpm[k])
  /\ evals \in [Keys -> Seq(Evaluations)]
  /\ tpm \in [Keys -> Buckets]
  /\ plan \in [Requests -> Seq(Amounts)]

(* An admission that a window may still count is in the set, under a score *)
(* that is not older; and the set holds nothing else than evaluations.     *)
Recent(ev, j) == \A i \in DOMAIN ev : ev[j].at > ev[i].at - Window
Remembered(log, ev) ==
  \A j \in DOMAIN ev : ev[j].ok /\ Recent(ev, j) =>
    \E e \in log : e.req = ev[j].req /\ e.at >= ev[j].at
Evaluated(log, ev) == \A e \in log : \E j \in DOMAIN ev : e.at = ev[j].at

(* The clocks of the evaluations are past, and a request that is still at  *)
(* its RPM check brings none older than those it brought before.           *)
Past(ev, t) == \A j \in DOMAIN ev : ev[j].at <= t
OwnPast(ev, r, t) == \A j \in DOMAIN ev : ev[j].req = r => ev[j].at <= t

(* The requests that the window of the i-th evaluation has admitted.       *)
Admitted(ev, i) ==
  {ev[j].req : j \in {n \in 1..i : ev[n].ok /\ ev[n].at > ev[i].at - Window}}
WithinLimit(k, ev, i) ==
  ev[i].ok /\ ~Late(ev, i) => Cardinality(Admitted(ev, i)) <= RpmLimitOf(ev[i].req, k)
WithinLimits(k, ev) == \A i \in DOMAIN ev : WithinLimit(k, ev, i)

RateInv ==
  /\ RateShape
  /\ \A k \in Keys : /\ Past(evals[k], now)
                     /\ Remembered(rpm[k], evals[k]) /\ Evaluated(rpm[k], evals[k])
                     /\ WithinLimits(k, evals[k])
  /\ \A k \in Keys, r \in Requests : stage[r] = "rpm" => OwnPast(evals[k], r, at[r])
---------------------------------------------------------------------------
LEMMA LimitsAreNumbers ==
  ASSUME NEW r \in Requests, NEW k \in Keys
  PROVE  RpmLimitOf(r, k) \in Int /\ (RpmLimit[k] > 0 => RpmLimitOf(r, k) >= 1)
<1>1. RpmLimit[k] \in Nat /\ ThrottlePct \in Nat
  BY RateAssumption
<1>2. (RpmLimit[k] * ThrottlePct) \div 100 \in Int
  BY <1>1
<1>3. QED
  BY <1>1, <1>2 DEF RpmLimitOf

\* A set of entries names at most as many requests as it has entries.
Named(S) == {e.req : e \in S}

LEMMA NamedAreNoMore ==
  ASSUME NEW S, IsFiniteSet(S)
  PROVE  IsFiniteSet(Named(S)) /\ Cardinality(Named(S)) <= Cardinality(S)
<1> DEFINE Good == {T \in SUBSET S : /\ IsFiniteSet(T) /\ IsFiniteSet(Named(T))
                                     /\ Cardinality(Named(T)) <= Cardinality(T)}
<1>1. {} \in Good
  <2>1. Named({}) = {}
    BY DEF Named
  <2>2. QED
    BY <2>1, FS_EmptySet
<1>2. ASSUME NEW T \in SUBSET S, NEW x \in S \ T, T \in Good
      PROVE  T \cup {x} \in Good
  <2>1. Named(T \cup {x}) = Named(T) \cup {x.req}
    BY DEF Named
  <2>2. /\ IsFiniteSet(T \cup {x}) /\ IsFiniteSet(Named(T) \cup {x.req})
        /\ Cardinality(T \cup {x}) = Cardinality(T) + 1
        /\ Cardinality(Named(T) \cup {x.req}) <= Cardinality(Named(T)) + 1
    <3>1. IsFiniteSet(T) /\ IsFiniteSet(Named(T)) /\ x \notin T
      BY <1>2
    <3>2. Cardinality(Named(T)) \in Nat
      BY <3>1, FS_CardinalityType
    <3>3. /\ IsFiniteSet(T \cup {x})
          /\ Cardinality(T \cup {x}) = IF x \in T THEN Cardinality(T) ELSE Cardinality(T) + 1
      BY <3>1, FS_AddElement
    <3>4. /\ IsFiniteSet(Named(T) \cup {x.req})
          /\ Cardinality(Named(T) \cup {x.req}) =
               IF x.req \in Named(T) THEN Cardinality(Named(T)) ELSE Cardinality(Named(T)) + 1
      BY <3>1, FS_AddElement
    <3>5. QED
      BY <3>1, <3>2, <3>3, <3>4
  <2>3. Cardinality(T) \in Nat /\ Cardinality(Named(T)) \in Nat
    BY <1>2, FS_CardinalityType
  <2>4. Cardinality(Named(T \cup {x})) <= Cardinality(T \cup {x})
    <3>1. Cardinality(Named(T \cup {x})) = Cardinality(Named(T) \cup {x.req})
      BY <2>1
    <3>2. Cardinality(Named(T) \cup {x.req}) \in Nat
      BY <2>2, FS_CardinalityType
    <3> HIDE DEF Named
    <3>3. Cardinality(Named(T)) <= Cardinality(T)
      BY <1>2
    <3>4. QED
      BY <3>1, <3>2, <3>3, <2>2, <2>3
  <2>5. IsFiniteSet(Named(T \cup {x}))
    BY <2>1, <2>2
  <2>6. QED
    BY <2>2, <2>4, <2>5
<1> HIDE DEF Good
<1>3. S \in Good
  BY <1>1, <1>2, SubsetInduction
<1>4. QED
  BY <1>3 DEF Good
---------------------------------------------------------------------------
(* One evaluation of the script, over what a key and its history hold.     *)
Evaluation(r, t, ok) == [req |-> r, at |-> t, ok |-> ok]

LEMMA LiveIsFinite ==
  ASSUME NEW log \in SUBSET Entries, IsFiniteSet(log), NEW t \in Nat
  PROVE  /\ Live(log, t, Window) \in SUBSET Entries
         /\ IsFiniteSet(Live(log, t, Window))
<1>1. Live(log, t, Window) \subseteq log
  BY DEF Live
<1>2. QED
  BY <1>1, FS_Subset

LEMMA ScriptKeepsShape ==
  ASSUME NEW log \in SUBSET Entries, IsFiniteSet(log), NEW r \in Requests, NEW t \in Nat, NEW limit
  PROVE  /\ RpmCheck(log, limit, r, t, Window).log \in SUBSET Entries
         /\ IsFiniteSet(RpmCheck(log, limit, r, t, Window).log)
         /\ RpmCheck(log, limit, r, t, Window).ok \in BOOLEAN
<1> DEFINE live == Live(log, t, Window)
           kept == {e \in live : e.req # r}
           new == [req |-> r, at |-> t]
<1>1. live \in SUBSET Entries /\ IsFiniteSet(live)
  BY LiveIsFinite
<1>2. kept \subseteq live
  OBVIOUS
<1>3. IsFiniteSet(kept)
  BY <1>1, <1>2, FS_Subset
<1>4. IsFiniteSet(kept \cup {new})
  BY <1>3, FS_AddElement
<1>5. new \in Entries
  BY DEF Entries
<1>6. kept \cup {new} \in SUBSET Entries
  BY <1>1, <1>2, <1>5
<1>7. RpmCheck(log, limit, r, t, Window) \in {[ok |-> FALSE, log |-> live],
                                             [ok |-> TRUE, log |-> kept \cup {new}]}
  BY DEF RpmCheck
<1> HIDE DEF live, kept, new
<1>8. CASE RpmCheck(log, limit, r, t, Window) = [ok |-> FALSE, log |-> live]
  BY <1>1, <1>8
<1>9. CASE RpmCheck(log, limit, r, t, Window) = [ok |-> TRUE, log |-> kept \cup {new}]
  BY <1>4, <1>6, <1>9
<1>10. QED
  BY <1>7, <1>8, <1>9

\* Whatever was in the set in the window that ends with t still is, perhaps
\* under a newer score; the set has nothing new but the request, if it passes.
LEMMA ScriptKeepsWindow ==
  ASSUME NEW log \in SUBSET Entries, NEW r \in Requests, NEW t \in Nat, NEW limit
  PROVE  /\ \A e \in log : e.at > t - Window /\ e.req # r
                             => e \in RpmCheck(log, limit, r, t, Window).log
         /\ \A e \in log : e.at > t - Window /\ ~RpmCheck(log, limit, r, t, Window).ok
                             => e \in RpmCheck(log, limit, r, t, Window).log
         /\ RpmCheck(log, limit, r, t, Window).ok
              => [req |-> r, at |-> t] \in RpmCheck(log, limit, r, t, Window).log
         /\ \A e \in RpmCheck(log, limit, r, t, Window).log :
              e \in log \/ e = [req |-> r, at |-> t]
BY DEF RpmCheck, Live

LEMMA EvaluationIsRemembered ==
  ASSUME NEW log \in SUBSET Entries, NEW ev \in Seq(Evaluations), NEW r \in Requests,
         NEW t \in Nat, NEW limit,
         Remembered(log, ev), Evaluated(log, ev), OwnPast(ev, r, t), Window \in Nat \ {0},
         NEW run, run = RpmCheck(log, limit, r, t, Window), run.ok \in BOOLEAN
  PROVE  LET more == Append(ev, Evaluation(r, t, run.ok))
         IN Remembered(run.log, more) /\ Evaluated(run.log, more)
<1> DEFINE new == Evaluation(r, t, run.ok)
           more == Append(ev, new)
           entry == [req |-> r, at |-> t]
<1>1. new \in Evaluations /\ new.req = r /\ new.at = t /\ new.ok = run.ok
  BY DEF Evaluation, Evaluations
<1>2. /\ DOMAIN more = 1..(Len(ev) + 1) /\ DOMAIN ev = 1..Len(ev) /\ Len(ev) \in Nat
      /\ \A j \in DOMAIN ev : more[j] = ev[j]
      /\ more[Len(ev) + 1] = new
  BY <1>1
<1>3. \A j \in DOMAIN ev : ev[j].at \in Nat /\ ev[j].req \in Requests
  <2>1. \A j \in DOMAIN ev : ev[j] \in Evaluations
    OBVIOUS
  <2>2. QED
    BY <2>1 DEF Evaluations
<1>4. \A e \in log : e.at \in Nat
  BY DEF Entries
<1>5. /\ \A e \in log : e.at > t - Window /\ e.req # r => e \in run.log
      /\ \A e \in log : e.at > t - Window /\ ~run.ok => e \in run.log
      /\ run.ok => entry \in run.log
      /\ \A e \in run.log : e \in log \/ e = entry
  BY ScriptKeepsWindow
<1> HIDE DEF new, more
<1>6. ASSUME NEW j \in DOMAIN more, more[j].ok, Recent(more, j)
      PROVE  \E e \in run.log : e.req = more[j].req /\ e.at >= more[j].at
  <2>1. CASE j \in DOMAIN ev
    <3>1. \A i \in DOMAIN more : more[j].at > more[i].at - Window
      BY <1>6 DEF Recent
    <3>2. ev[j].ok /\ Recent(ev, j)
      BY <1>2, <1>6, <2>1, <3>1 DEF Recent
    <3>3. PICK e \in log : e.req = ev[j].req /\ e.at >= ev[j].at
      BY <2>1, <3>2 DEF Remembered
    <3>4. ev[j].at > t - Window
      BY <1>1, <1>2, <2>1, <3>1
    <3>5. e.at > t - Window
      BY <1>3, <1>4, <2>1, <3>3, <3>4
    <3>6. CASE e.req # r \/ ~run.ok
      BY <1>2, <1>5, <2>1, <3>3, <3>5, <3>6
    <3>7. CASE e.req = r /\ run.ok
      <4>1. ev[j].at <= t
        BY <2>1, <3>3, <3>7 DEF OwnPast
      <4>2. entry.req = ev[j].req /\ entry.at >= ev[j].at
        BY <1>3, <2>1, <3>3, <3>7, <4>1
      <4>3. QED
        BY <1>2, <1>5, <2>1, <3>7, <4>2
    <3>8. QED
      BY <3>6, <3>7
  <2>2. CASE j \notin DOMAIN ev
    <3>1. j = Len(ev) + 1
      BY <1>2, <2>2
    <3>2. run.ok
      BY <1>1, <1>2, <1>6, <3>1
    <3>3. entry.req = more[j].req /\ entry.at >= more[j].at
      BY <1>1, <1>2, <3>1
    <3>4. QED
      BY <1>5, <3>2, <3>3
  <2>3. QED
    BY <2>1, <2>2
<1>7. ASSUME NEW e \in run.log
      PROVE  \E j \in DOMAIN more : e.at = more[j].at
  <2>1. CASE e \in log
    <3>1. PICK j \in DOMAIN ev : e.at = ev[j].at
      BY <2>1 DEF Evaluated
    <3>2. QED
      BY <1>2, <3>1
  <2>2. CASE e = entry
    BY <1>1, <1>2, <2>2
  <2>3. QED
    BY <1>5, <1>7, <2>1, <2>2
<1>8. Remembered(run.log, more) /\ Evaluated(run.log, more)
  BY <1>6, <1>7 DEF Remembered, Evaluated
<1>9. QED
  BY <1>8 DEF more, new

\* An evaluation that lets a request pass, and is not late, has found fewer
\* than the limit in the set, which remembers all that its window admitted.
LEMMA EvaluationWithinLimit ==
  ASSUME NEW log \in SUBSET Entries, IsFiniteSet(log), NEW ev \in Seq(Evaluations),
         NEW r \in Requests, NEW k \in Keys, NEW t \in Nat,
         Remembered(log, ev), WithinLimits(k, ev), Window \in Nat \ {0},
         NEW run, run = RpmCheck(log, RpmLimitOf(r, k), r, t, Window), run.ok \in BOOLEAN
  PROVE  WithinLimits(k, Append(ev, Evaluation(r, t, run.ok)))
<1> DEFINE new == Evaluation(r, t, run.ok)
           more == Append(ev, new)
           live == Live(log, t, Window)
           n == Len(ev) + 1
<1>1. new \in Evaluations /\ new.req = r /\ new.at = t /\ new.ok = run.ok
  BY DEF Evaluation, Evaluations
<1>2. /\ DOMAIN more = 1..n /\ DOMAIN ev = 1..Len(ev) /\ Len(ev) \in Nat
      /\ \A j \in DOMAIN ev : more[j] = ev[j]
      /\ more[n] = new
  BY <1>1
<1>3. \A j \in DOMAIN ev : ev[j].at \in Nat /\ ev[j].req \in Requests
  <2>1. \A j \in DOMAIN ev : ev[j] \in Evaluations
    OBVIOUS
  <2>2. QED
    BY <2>1 DEF Evaluations
<1>4. \A e \in log : e.at \in Nat
  BY DEF Entries
<1> HIDE DEF new, more
<1>5. ASSUME NEW i \in DOMAIN ev
      PROVE  WithinLimit(k, more, i)
  <2>1. \A j \in 1..i : j \in DOMAIN ev /\ more[j] = ev[j]
    BY <1>2, <1>5
  <2>2. Late(more, i) <=> Late(ev, i)
    <3>1. \A j \in 1..(i - 1) : j \in 1..i
      BY <1>2, <1>5
    <3>2. more[i] = ev[i]
      BY <1>2, <1>5
    <3>3. QED
      BY <2>1, <3>1, <3>2 DEF Late
  <2>3. {m \in 1..i : more[m].ok /\ more[m].at > more[i].at - Window}
          = {m \in 1..i : ev[m].ok /\ ev[m].at > ev[i].at - Window}
    BY <1>2, <1>5, <2>1
  <2>4. Admitted(more, i) = Admitted(ev, i)
    BY <2>1, <2>3 DEF Admitted
  <2>5. WithinLimit(k, ev, i)
    BY <1>5 DEF WithinLimits
  <2>6. QED
    BY <1>2, <1>5, <2>2, <2>4, <2>5 DEF WithinLimit
<1>6. ASSUME more[n].ok, ~Late(more, n)
      PROVE  Cardinality(Admitted(more, n)) <= RpmLimitOf(r, k)
  <2>1. run.ok
    BY <1>1, <1>2, <1>6
  <2>2. live \in SUBSET Entries /\ IsFiniteSet(live)
    BY LiveIsFinite
  <2>3. Cardinality(live) \in Nat /\ RpmLimitOf(r, k) \in Int
    BY <2>2, FS_CardinalityType, LimitsAreNumbers
  <2>4. Cardinality(live) < RpmLimitOf(r, k)
    BY <2>1, <2>3 DEF RpmCheck
  <2>5. \A j \in DOMAIN ev : ev[j].at <= t
    <3>1. \A j \in 1..(n - 1) : ~(more[j].at > more[n].at)
      BY <1>6 DEF Late
    <3>2. n - 1 = Len(ev)
      BY <1>2
    <3>3. QED
      BY <1>1, <1>2, <1>3, <3>1, <3>2
  <2>6. ASSUME NEW j \in 1..n, more[j].ok, more[j].at > more[n].at - Window
        PROVE  more[j].req \in Named(live) \cup {r}
    <3>1. CASE j = n
      BY <1>1, <1>2, <3>1
    <3>2. CASE j # n
      <4>1. j \in DOMAIN ev /\ more[j] = ev[j]
        BY <1>2, <3>2
      <4>2. ev[j].at > t - Window
        BY <1>1, <1>2, <2>6, <4>1
      <4>3. Recent(ev, j)
        BY <1>3, <2>5, <4>1, <4>2 DEF Recent
      <4>4. PICK e \in log : e.req = ev[j].req /\ e.at >= ev[j].at
        BY <2>6, <4>1, <4>3 DEF Remembered
      <4>5. e.at > t - Window
        BY <1>3, <1>4, <4>1, <4>2, <4>4
      <4>6. e \in live
        BY <4>5 DEF Live
      <4>7. QED
        BY <4>1, <4>4, <4>6 DEF Named
    <3>3. QED
      BY <3>1, <3>2
  <2>7. Admitted(more, n) \subseteq Named(live) \cup {r}
    BY <2>6 DEF Admitted
  <2> HIDE DEF live
  <2>8. IsFiniteSet(Named(live)) /\ Cardinality(Named(live)) <= Cardinality(live)
    BY <2>2, NamedAreNoMore
  <2>9. /\ IsFiniteSet(Named(live) \cup {r})
        /\ Cardinality(Named(live) \cup {r}) =
             IF r \in Named(live) THEN Cardinality(Named(live)) ELSE Cardinality(Named(live)) + 1
    BY <2>8, FS_AddElement
  <2>10. IsFiniteSet(Admitted(more, n)) /\ Cardinality(Admitted(more, n)) <= Cardinality(Named(live) \cup {r})
    BY <2>7, <2>9, FS_Subset
  <2>11. Cardinality(Named(live)) \in Nat /\ Cardinality(Admitted(more, n)) \in Nat
    BY <2>8, <2>10, FS_CardinalityType
  <2>12. QED
    BY <2>3, <2>4, <2>8, <2>9, <2>10, <2>11
<1>7. ASSUME NEW i \in DOMAIN more
      PROVE  WithinLimit(k, more, i)
  <2>1. CASE i = n
    BY <1>1, <1>2, <1>6, <2>1 DEF WithinLimit
  <2>2. CASE i # n
    BY <1>2, <1>5, <2>2
  <2>3. QED
    BY <2>1, <2>2
<1>8. WithinLimits(k, more)
  BY <1>7 DEF WithinLimits
<1>9. QED
  BY <1>8 DEF more, new
---------------------------------------------------------------------------
(* What a step of a request may do: to the clocks and stages, to the set   *)
(* and the history of an RPM key, to the buckets, to the settlements.      *)
Moves(r) ==
  /\ now' = now
  /\ stage' = [q \in Requests |-> stage'[q]]
  /\ at' \in [Requests -> Nat] /\ \A q \in Requests : at'[q] <= now
  /\ \A q \in Requests : stage'[q] = "rpm" =>
       at'[q] = now \/ (stage[q] = "rpm" /\ at'[q] = at[q])

Logs(r, k) ==
  /\ stage[r] = "rpm"
  /\ rpm' = [rpm EXCEPT ![k] = RpmRun(r, k).log]
  /\ evals' = [evals EXCEPT ![k] =
                 Append(evals[k], Evaluation(r, at[r], RpmRun(r, k).ok))]

Idles == UNCHANGED <<rpm, evals>>

LEMMA WindowIsPositive == Window \in Nat \ {0} /\ Reserve \in Nat
BY RateAssumption

LEMMA ApplyCounts ==
  ASSUME RateShape, NEW r \in Requests, Apply(r) \/ UNCHANGED counterVars
  PROVE  /\ Idles \/ Logs(r, Scope(r))
         /\ tpm' \in [Keys -> Buckets]
<1>1. CASE UNCHANGED counterVars
  BY <1>1 DEF RateShape, counterVars, Idles
<1>2. CASE Apply(r)
  <2> DEFINE k == Scope(r)
  <2>1. CASE stage[r] = "rpm"
    BY <1>2, <2>1 DEF Apply, Logs, Evaluation, RateShape
  <2>2. CASE stage[r] = "tpm"
    <3>1. tpm' = [tpm EXCEPT ![k] = TpmRun(r, k).bucket] /\ Idles
      BY <1>2, <2>2 DEF Apply, Idles
    <3>2. ASSUME k \in Keys PROVE TpmRun(r, k).bucket \in Buckets
      <4> DEFINE b == Rotate(tpm[k], at[r], Window)
      <4>1. tpm[k] \in Buckets /\ at[r] \in Nat
        BY <3>2 DEF RateShape
      <4>2. at[r] \div Window \in Nat
        BY <4>1, WindowIsPositive
      <4>3. b \in Buckets
        BY <4>1, <4>2 DEF Rotate, Buckets
      <4>4. TpmRun(r, k).bucket \in {b, [b EXCEPT !.cur = b.cur + Reserve]}
        BY DEF TpmRun, TpmCheck
      <4> HIDE DEF b
      <4>5. [b EXCEPT !.cur = b.cur + Reserve] \in Buckets
        BY <4>3, WindowIsPositive DEF Buckets
      <4>6. QED
        BY <4>3, <4>4, <4>5
    <3>3. QED
      BY <3>1, <3>2 DEF RateShape
  <2>3. CASE stage[r] = "cost"
    BY <1>2, <2>3 DEF Apply, RateShape, Idles
  <2>4. QED
    BY <1>2, <2>1, <2>2, <2>3 DEF Apply
<1>3. QED
  BY <1>1, <1>2

LEMMA Advances ==
  ASSUME RateShape, NEW r \in Requests, now' = now, NEW to, NEW t \in Nat, t <= now,
         stage' = [stage EXCEPT ![r] = to], at' = [at EXCEPT ![r] = t],
         to = "rpm" => t = now
  PROVE  Moves(r)
<1>1. DOMAIN stage = Requests
  BY DEF RateShape
<1>2. stage' = [q \in Requests |-> stage'[q]]
  BY <1>1
<1>3. at' \in [Requests -> Nat] /\ \A q \in Requests : at'[q] = IF q = r THEN t ELSE at[q]
  BY DEF RateShape
<1>4. \A q \in Requests : stage'[q] = IF q = r THEN to ELSE stage[q]
  BY <1>1
<1>5. \A q \in Requests : at'[q] <= now
  BY <1>3 DEF RateShape
<1>6. \A q \in Requests : stage'[q] = "rpm" => at'[q] = now \/ (stage[q] = "rpm" /\ at'[q] = at[q])
  BY <1>3, <1>4
<1>7. QED
  BY <1>2, <1>3, <1>5, <1>6 DEF Moves

LEMMA Stays ==
  ASSUME RateShape, NEW r \in Requests, now' = now, stage' = stage, at' = at
  PROVE  Moves(r)
<1>1. stage' = [q \in Requests |-> stage'[q]]
  BY DEF RateShape
<1>2. at' \in [Requests -> Nat] /\ \A q \in Requests : at'[q] <= now
  BY DEF RateShape
<1>3. QED
  BY <1>1, <1>2 DEF Moves

LEMMA GoingOn ==
  ASSUME RateShape, NEW r \in Requests, GoOn(r)
  PROVE  \E to \in {"ready", "over"} : stage' = [stage EXCEPT ![r] = to]
BY DEF GoOn

LEMMA Dismissing ==
  ASSUME RateShape, NEW r \in Requests, Dismiss(r), now' = now
  PROVE  Moves(r)
<1>1. PICK to \in {"ready", "over"} : stage' = [stage EXCEPT ![r] = to]
  BY GoingOn DEF Dismiss
<1>2. at' = [at EXCEPT ![r] = 0]
  BY DEF Dismiss
<1>3. 0 \in Nat /\ 0 <= now
  BY DEF RateShape
<1>4. QED
  BY <1>1, <1>2, <1>3, Advances

LEMMA Evaluates ==
  ASSUME RateShape, NEW r \in Requests, EvalAllow(r) \/ EvalReject(r) \/ EvalFail(r)
  PROVE  /\ Moves(r) /\ plan' = plan
         /\ Idles \/ Logs(r, Scope(r))
         /\ tpm' \in [Keys -> Buckets]
<1>1. Apply(r) \/ UNCHANGED counterVars
  BY DEF EvalAllow, EvalReject, EvalFail
<1>2. plan' = plan /\ now' = now
  BY DEF EvalAllow, EvalReject, EvalFail
<1>3. UNCHANGED <<stage, at>> \/ Dismiss(r)
  BY DEF EvalAllow, EvalReject, EvalFail, GiveUp, GiveUpOpen
<1>4. ASSUME UNCHANGED <<stage, at>> PROVE Moves(r)
  <2>1. now' = now /\ stage' = stage /\ at' = at
    BY <1>2, <1>4
  <2>2. QED
    BY <2>1, Stays
<1>5. Moves(r)
  BY <1>2, <1>3, <1>4, Dismissing
<1>6. QED
  BY <1>1, <1>2, <1>5, ApplyCounts

LEMMA SettlementsAreAmounts ==
  ASSUME NEW r \in Requests, NEW kind \in {"tpm", "cost"}, NEW n \in Int
  PROVE  Settlement(r, kind, n) \in Seq(Amounts)
<1>1. Reserve \in Int /\ EstCost \in Int
  BY RateAssumption
<1>2. <<"tpm", n - Reserve>> \in Amounts /\ <<"cost", n - EstCost>> \in Amounts
  BY <1>1 DEF Amounts
<1>3. QED
  BY <1>2 DEF Settlement

LEMMA Handles ==
  ASSUME RateShape, NEW r \in Requests, Handle(r)
  PROVE  Moves(r) /\ Idles /\ tpm' \in [Keys -> Buckets] /\ plan' \in [Requests -> Seq(Amounts)]
<1>1. PICK to \in {"unwinding", "finalizing"}, steps \in Seq(Amounts) : Settle(r, to, steps)
  <2>1. CASE ProviderFails(r)
    <3>1. Settlement(r, "tpm", 0) \in Seq(Amounts) /\ Settlement(r, "cost", 0) \in Seq(Amounts)
      BY SettlementsAreAmounts
    <3>2. Settlement(r, "tpm", 0) \o Settlement(r, "cost", 0) \in Seq(Amounts)
      BY <3>1
    <3>3. QED
      BY <2>1, <3>2 DEF ProviderFails
  <2>2. CASE FinalizeNoUsage(r)
    <3>1. Settlement(r, "tpm", 0) \in Seq(Amounts)
      BY SettlementsAreAmounts
    <3>2. QED
      BY <2>2, <3>1 DEF FinalizeNoUsage
  <2>3. CASE NoFinalize(r)
    <3>1. << >> \in Seq(Amounts)
      OBVIOUS
    <3>2. QED
      BY <2>3, <3>1 DEF NoFinalize
  <2>4. ASSUME NEW usage \in Usages, Finalize(r, usage)
        PROVE  \E to \in {"unwinding", "finalizing"}, steps \in Seq(Amounts) : Settle(r, to, steps)
    <3>1. usage.tokens \in Int /\ usage.cost \in Int
      BY RateAssumption
    <3>2. Settlement(r, "cost", usage.cost) \in Seq(Amounts) /\ Settlement(r, "tpm", usage.tokens) \in Seq(Amounts)
      BY <3>1, SettlementsAreAmounts
    <3>3. Settlement(r, "cost", usage.cost) \o Settlement(r, "tpm", usage.tokens) \in Seq(Amounts)
      BY <3>2
    <3>4. QED
      BY <2>4, <3>3 DEF Finalize
  <2>5. QED
    BY <2>1, <2>2, <2>3, <2>4 DEF Handle
<1>2. stage' = [stage EXCEPT ![r] = to] /\ UNCHANGED <<now, counterVars, at>>
  BY <1>1 DEF Settle
<1>3. plan' = [plan EXCEPT ![r] = steps]
  BY <1>1 DEF Settle
<1>4. QED
  BY <1>1, <1>2, <1>3 DEF Moves, Idles, counterVars, RateShape

LEMMA Settles ==
  ASSUME RateShape, NEW r \in Requests, SettleOk(r) \/ SettleFail(r)
  PROVE  Moves(r) /\ Idles /\ tpm' \in [Keys -> Buckets] /\ plan' \in [Requests -> Seq(Amounts)]
<1>1. UNCHANGED <<now, rpm, stage, at, evals>>
  BY DEF SettleOk, SettleFail
<1>2. plan[r] \in Seq(Amounts) /\ plan[r] # <<>>
  BY DEF SettleOk, SettleFail, Settling, RateShape
<1>3. PICK S : Adjust(r, S)
  BY DEF SettleOk, SettleFail
<1>4. plan' = plan \/ plan' = [plan EXCEPT ![r] = Tail(plan[r])]
  BY DEF SettleOk, SettleFail
<1>5. plan' \in [Requests -> Seq(Amounts)]
  <2>1. Tail(plan[r]) \in Seq(Amounts) /\ plan \in [Requests -> Seq(Amounts)]
    BY <1>2 DEF RateShape
  <2>2. QED
    BY <1>4, <2>1
<1>6. plan[r][1][2] \in Int
  <2>1. plan[r][1] \in Amounts
    BY <1>2
  <2>2. QED
    BY <2>1 DEF Amounts
<1>7. tpm' \in [Keys -> Buckets]
  <2> DEFINE n == plan[r][1][2]
  <2>1. CASE AdjustTokens(S, n)
    <3>1. ASSUME NEW k \in Keys
          PROVE  [tpm[k] EXCEPT !.cur = tpm[k].cur + n] \in Buckets /\ tpm[k] \in Buckets
      <4>1. tpm[k] \in Buckets
        BY DEF RateShape
      <4>2. QED
        BY <1>6, <4>1 DEF Buckets
    <3>2. tpm' = [k \in Keys |-> IF k \in S THEN [tpm[k] EXCEPT !.cur = tpm[k].cur + n] ELSE tpm[k]]
      BY <2>1 DEF AdjustTokens
    <3>3. QED
      BY <3>1, <3>2
  <2>2. CASE AdjustCost(S, n)
    BY <2>2 DEF AdjustCost, RateShape
  <2>3. QED
    BY <1>3, <2>1, <2>2 DEF Adjust
<1>8. QED
  BY <1>1, <1>5, <1>7 DEF Moves, Idles, RateShape

LEMMA Proceeds ==
  ASSUME RateShape, NEW r \in Requests,
         Pass(r) \/ BeginRpm(r) \/ EndCheck(r) \/ EndSettle(r)
  PROVE  Moves(r) /\ Idles /\ tpm' \in [Keys -> Buckets] /\ plan' = plan
<1>1. Idles /\ tpm' \in [Keys -> Buckets] /\ plan' = plan /\ now' = now
  BY DEF Pass, BeginRpm, EndCheck, EndSettle, Idles, counterVars, RateShape
<1>2. now \in Nat /\ now <= now /\ 0 <= now
  BY DEF RateShape
<1>3. ASSUME GoOn(r), at' = at PROVE Moves(r)
  <2>1. PICK to \in {"ready", "over"} : stage' = [stage EXCEPT ![r] = to]
    BY <1>3, GoingOn
  <2>2. at' = [at EXCEPT ![r] = at[r]] /\ at[r] \in Nat /\ at[r] <= now
    BY <1>3 DEF RateShape
  <2>3. QED
    BY <1>1, <2>1, <2>2, Advances
<1>4. CASE Pass(r)
  BY <1>1, <1>3, <1>4 DEF Pass
<1>5. CASE BeginRpm(r)
  <2>1. stage' = [stage EXCEPT ![r] = "rpm"] /\ at' = [at EXCEPT ![r] = now]
    BY <1>5 DEF BeginRpm
  <2>2. QED
    BY <1>1, <1>2, <2>1, Advances
<1>6. CASE EndCheck(r)
  <2>1. at' = [at EXCEPT ![r] = now] \/ at' = [at EXCEPT ![r] = 0]
    BY <1>6 DEF EndCheck
  <2>2. PICK to \in {"tpm", "cost", "serving"} : stage' = [stage EXCEPT ![r] = to]
    BY <1>6 DEF EndCheck
  <2>3. QED
    BY <1>1, <1>2, <2>1, <2>2, Advances
<1>7. CASE EndSettle(r)
  <2>1. at' = at
    BY <1>7 DEF EndSettle
  <2>2. CASE GoOn(r)
    BY <1>1, <1>3, <2>1, <2>2
  <2>3. CASE stage' = [stage EXCEPT ![r] = "over"]
    <3>1. at' = [at EXCEPT ![r] = at[r]] /\ at[r] \in Nat /\ at[r] <= now
      BY <2>1 DEF RateShape
    <3>2. QED
      BY <1>1, <2>3, <3>1, Advances
  <2>4. QED
    BY <1>7, <2>2, <2>3 DEF EndSettle
<1>8. QED
  BY <1>1, <1>4, <1>5, <1>6, <1>7

LEMMA StepOfRequest ==
  ASSUME RateShape, NEW r \in Requests, Step(r)
  PROVE  /\ Moves(r) /\ tpm' \in [Keys -> Buckets] /\ plan' \in [Requests -> Seq(Amounts)]
         /\ Idles \/ \E k : Logs(r, k)
<1>1. plan \in [Requests -> Seq(Amounts)]
  BY DEF RateShape
<1>2. QED
  BY <1>1, Evaluates, Handles, Settles, Proceeds DEF Step
---------------------------------------------------------------------------
LEMMA InitRates == RateInit => RateInv
<1> SUFFICES ASSUME RateInit PROVE RateInv
  OBVIOUS
<1>1. RateShape
  <2>1. \A k \in Keys : rpm[k] = {} /\ IsFiniteSet(rpm[k])
    BY FS_EmptySet DEF RateInit
  <2>2. tpm \in [Keys -> Buckets]
    BY DEF RateInit, Buckets
  <2>3. QED
    BY <2>1, <2>2 DEF RateInit, RateShape
<1>2. \A k \in Keys : evals[k] = << >> /\ rpm[k] = {}
  BY DEF RateInit
<1>3. QED
  BY <1>1, <1>2 DEF RateInv, Past, Remembered, Evaluated, WithinLimits, OwnPast

LEMMA TickKeepsRates == RateInv /\ Tick => RateInv'
<1> SUFFICES ASSUME RateInv, Tick PROVE RateInv'
  OBVIOUS
<1>1. now' = now + 1 /\ UNCHANGED <<rpm, tpm, evals, stage, at, plan>>
  BY DEF Tick, counterVars, reqVars
<1>2. RateShape'
  BY <1>1 DEF RateInv, RateShape
<1>3. ASSUME NEW k \in Keys PROVE Past(evals[k], now + 1)
  <2>1. evals[k] \in Seq(Evaluations) /\ now \in Nat /\ Past(evals[k], now)
    BY DEF RateInv, RateShape
  <2>2. \A j \in DOMAIN evals[k] : evals[k][j] \in Evaluations
    BY <2>1
  <2>3. QED
    BY <2>1, <2>2 DEF Past, Evaluations
<1>4. QED
  BY <1>1, <1>2, <1>3 DEF RateInv

\* What an evaluation makes of the set and the history of a key.
LEMMA LoggedEvaluation ==
  ASSUME RateInv, NEW r \in Requests, NEW k \in Keys, Logs(r, k)
  PROVE  /\ rpm'[k] \in SUBSET Entries /\ IsFiniteSet(rpm'[k])
         /\ evals'[k] \in Seq(Evaluations)
         /\ Past(evals'[k], now)
         /\ Remembered(rpm'[k], evals'[k]) /\ Evaluated(rpm'[k], evals'[k])
         /\ WithinLimits(k, evals'[k])
         /\ \A q \in Requests : stage[q] = "rpm" => OwnPast(evals'[k], q, at[q])
<1> DEFINE run == RpmRun(r, k)
           new == Evaluation(r, at[r], run.ok)
<1>1. /\ rpm[k] \in SUBSET Entries /\ IsFiniteSet(rpm[k]) /\ evals[k] \in Seq(Evaluations)
      /\ at[r] \in Nat /\ at[r] <= now
  BY DEF RateInv, RateShape
<1>2. /\ Past(evals[k], now) /\ Remembered(rpm[k], evals[k]) /\ Evaluated(rpm[k], evals[k])
      /\ WithinLimits(k, evals[k]) /\ OwnPast(evals[k], r, at[r])
      /\ \A q \in Requests : stage[q] = "rpm" => OwnPast(evals[k], q, at[q])
  BY DEF RateInv, Logs
<1>3. rpm'[k] = run.log /\ evals'[k] = Append(evals[k], new)
  BY DEF Logs, RateInv, RateShape
<1>4. run = RpmCheck(rpm[k], RpmLimitOf(r, k), r, at[r], Window)
  BY DEF RpmRun
<1> HIDE DEF run
<1>5. run.log \in SUBSET Entries /\ IsFiniteSet(run.log) /\ run.ok \in BOOLEAN
  BY <1>1, <1>4, ScriptKeepsShape
<1>6. Window \in Nat \ {0}
  BY WindowIsPositive
<1>7. Remembered(run.log, Append(evals[k], new)) /\ Evaluated(run.log, Append(evals[k], new))
  BY <1>1, <1>2, <1>4, <1>5, <1>6, EvaluationIsRemembered
<1>8. WithinLimits(k, Append(evals[k], new))
  BY <1>1, <1>2, <1>4, <1>5, <1>6, EvaluationWithinLimit
<1>9. new \in Evaluations /\ new.req = r /\ new.at = at[r]
  BY <1>1, <1>5 DEF Evaluation, Evaluations
<1> HIDE DEF new
<1>10. /\ Append(evals[k], new) \in Seq(Evaluations)
       /\ \A j \in DOMAIN Append(evals[k], new) :
            IF j \in DOMAIN evals[k] THEN Append(evals[k], new)[j] = evals[k][j]
                                     ELSE Append(evals[k], new)[j] = new
  BY <1>1, <1>9
<1>11. Past(Append(evals[k], new), now)
  BY <1>1, <1>2, <1>9, <1>10 DEF Past
<1>12. ASSUME NEW q \in Requests, stage[q] = "rpm"
       PROVE  OwnPast(Append(evals[k], new), q, at[q])
  <2>1. at[q] \in Nat
    BY DEF RateInv, RateShape
  <2>2. OwnPast(evals[k], q, at[q])
    BY <1>2, <1>12
  <2>3. QED
    BY <1>1, <1>9, <1>10, <2>1, <2>2 DEF OwnPast
<1>13. QED
  BY <1>3, <1>5, <1>7, <1>8, <1>10, <1>11, <1>12

LEMMA StepKeepsRates ==
  ASSUME RateInv, NEW r \in Requests, Step(r)
  PROVE  RateInv'
<1>1. RateShape
  BY DEF RateInv
<1>2. /\ Moves(r) /\ tpm' \in [Keys -> Buckets] /\ plan' \in [Requests -> Seq(Amounts)]
      /\ Idles \/ \E k : Logs(r, k)
  BY <1>1, StepOfRequest
<1>3. /\ rpm' = [k \in Keys |-> rpm'[k]] /\ evals' = [k \in Keys |-> evals'[k]]
      /\ \A k \in Keys : (rpm'[k] = rpm[k] /\ evals'[k] = evals[k]) \/ Logs(r, k)
  <2>1. rpm = [k \in Keys |-> rpm[k]] /\ evals = [k \in Keys |-> evals[k]]
    BY <1>1 DEF RateShape
  <2>2. CASE Idles
    BY <2>1, <2>2 DEF Idles
  <2>3. CASE \E k : Logs(r, k)
    <3>1. PICK k : Logs(r, k)
      BY <2>3
    <3>2. rpm' = [rpm EXCEPT ![k] = RpmRun(r, k).log]
      BY <3>1 DEF Logs
    <3>3. evals' = [evals EXCEPT ![k] = Append(evals[k], Evaluation(r, at[r], RpmRun(r, k).ok))]
      BY <3>1 DEF Logs
    <3>4. \A j \in Keys : j # k => rpm'[j] = rpm[j] /\ evals'[j] = evals[j]
      BY <2>1, <3>2, <3>3
    <3>5. rpm' = [j \in Keys |-> rpm'[j]] /\ evals' = [j \in Keys |-> evals'[j]]
      BY <2>1, <3>2, <3>3
    <3>6. QED
      BY <3>1, <3>4, <3>5
  <2>4. QED
    BY <1>2, <2>2, <2>3
<1>4. ASSUME NEW k \in Keys
      PROVE  /\ rpm'[k] \in SUBSET Entries /\ IsFiniteSet(rpm'[k])
             /\ evals'[k] \in Seq(Evaluations)
             /\ Past(evals'[k], now)
             /\ Remembered(rpm'[k], evals'[k]) /\ Evaluated(rpm'[k], evals'[k])
             /\ WithinLimits(k, evals'[k])
             /\ \A q \in Requests : stage[q] = "rpm" => OwnPast(evals'[k], q, at[q])
  <2>1. CASE rpm'[k] = rpm[k] /\ evals'[k] = evals[k]
    BY <2>1 DEF RateInv, RateShape
  <2>2. QED
    BY <1>3, <2>1, LoggedEvaluation
<1>5. now' = now
  BY <1>2 DEF Moves
<1>6. RateShape'
  <2>1. rpm' \in [Keys -> SUBSET Entries] /\ \A k \in Keys : IsFiniteSet(rpm'[k])
    BY <1>3, <1>4
  <2>2. evals' \in [Keys -> Seq(Evaluations)]
    BY <1>3, <1>4
  <2>3. /\ now' \in Nat /\ stage' = [q \in Requests |-> stage'[q]]
        /\ at' \in [Requests -> Nat] /\ \A q \in Requests : at'[q] <= now'
    BY <1>1, <1>2 DEF Moves, RateShape
  <2>4. QED
    BY <1>2, <2>1, <2>2, <2>3 DEF RateShape
<1>7. ASSUME NEW k \in Keys, NEW q \in Requests, stage'[q] = "rpm"
      PROVE  OwnPast(evals'[k], q, at'[q])
  <2>1. CASE at'[q] = now
    BY <1>4, <2>1 DEF OwnPast, Past
  <2>2. CASE stage[q] = "rpm" /\ at'[q] = at[q]
    BY <1>4, <2>2
  <2>3. QED
    BY <1>2, <1>7, <2>1, <2>2 DEF Moves
<1>8. QED
  BY <1>4, <1>5, <1>6, <1>7 DEF RateInv

LEMMA RatesAlways == RateSpec => []RateInv
<1>1. RateInv /\ UNCHANGED vars => RateInv'
  <2> SUFFICES ASSUME RateInv, UNCHANGED vars PROVE RateInv'
    OBVIOUS
  <2>1. UNCHANGED <<now, rpm, tpm, evals, stage, at, plan>>
    BY DEF vars, counterVars, reqVars
  <2>2. QED
    BY <2>1 DEF RateInv, RateShape
<1>2. RateInv /\ RateNext => RateInv'
  BY TickKeepsRates, StepKeepsRates DEF RateNext
<1>3. QED
  BY InitRates, <1>1, <1>2, PTL DEF RateSpec

\* No window of a key admits more than the limit of the request that ends it,
\* of whichever gateway, retry or throttling (rate_limit_check.lua), unless
\* its clock is behind that of an earlier evaluation.
THEOREM AdmissionsAreBounded == RateSpec => []RpmWindowBound
<1>1. RateInv => RpmWindowBound
  BY DEF RateInv, WithinLimits, WithinLimit, Admitted, RpmWindowBound
<1>2. QED
  BY <1>1, RatesAlways, PTL
---------------------------------------------------------------------------
LEMMA ThatManyWindows ==
  ASSUME NEW n \in Nat, NEW w \in Nat, w > 0
  PROVE  (n * w) \div w = n /\ n * w \in Nat
OBVIOUS

LEMMA AsManyWindows ==
  ASSUME NEW m \in Nat, NEW n \in Nat, m <= n, NEW w \in Nat
  PROVE  m * w <= n * w
OBVIOUS

LEMMA BucketRecovers ==
  ASSUME NEW b \in Buckets, NEW limit \in Nat, Reserve <= limit
  PROVE  TpmCheck(b, limit, Reserve, (b.win + 2) * Window, Window).ok
<1> DEFINE n == b.win + 2
           t == n * Window
           new == Rotate(b, t, Window)
<1>1. b.win \in Nat /\ n \in Nat /\ n # b.win /\ b.win # n - 1
  BY DEF Buckets
<1>2. Window \in Nat /\ Window > 0 /\ Reserve \in Nat
  BY WindowIsPositive
<1> HIDE DEF n
<1>3. t \in Nat /\ t \div Window = n
  BY <1>1, <1>2, ThatManyWindows
<1> HIDE DEF t
<1>4. new = [win |-> n, cur |-> 0, prev |-> 0]
  BY <1>1, <1>3 DEF Rotate
<1> HIDE DEF new
<1>5. Estimate(new, Reserve, t, Window) = 0 * (Window - (t % Window)) + (0 + Reserve) * Window
  BY <1>4 DEF Estimate
<1>6. Window - (t % Window) \in Int
  BY <1>2, <1>3
<1>7. 0 * (Window - (t % Window)) = 0
  BY <1>6
<1>8. Estimate(new, Reserve, t, Window) = Reserve * Window
  BY <1>2, <1>5, <1>7
<1>9. Reserve * Window <= limit * Window /\ Reserve * Window \in Int /\ limit * Window \in Int
  BY <1>2, AsManyWindows
<1>10. ~(Estimate(new, Reserve, t, Window) > limit * Window)
  BY <1>8, <1>9
<1>11. TpmCheck(b, limit, Reserve, t, Window).ok
  BY <1>10 DEF TpmCheck, new
<1>12. QED
  BY <1>11 DEF t, n

LEMMA SetRecovers ==
  ASSUME NEW log \in SUBSET Entries, NEW ev \in Seq(Evaluations), ev # << >>, Evaluated(log, ev),
         NEW k \in Keys, RpmLimit[k] > 0, NEW r \in Requests
  PROVE  RpmCheck(log, RpmLimitOf(r, k), r,
                  Max({ev[i].at : i \in DOMAIN ev}) + Window, Window).ok
<1> DEFINE times == {ev[i].at : i \in DOMAIN ev}
           last == Max(times)
<1>1. DOMAIN ev = 1..Len(ev) /\ Len(ev) \in Nat /\ Len(ev) # 0
  OBVIOUS
<1>2. \A i \in DOMAIN ev : ev[i].at \in Int
  <2>1. \A i \in DOMAIN ev : ev[i] \in Evaluations
    OBVIOUS
  <2>2. QED
    BY <2>1 DEF Evaluations
<1>3. PICK m \in times : \A x \in times : m >= x
  <2> DEFINE f == [i \in DOMAIN ev |-> ev[i].at]
  <2>1. IsFiniteSet(DOMAIN ev) /\ DOMAIN ev # {}
    <3>1. IsFiniteSet(1..Len(ev))
      BY <1>1, FS_Interval
    <3>2. 1 \in 1..Len(ev)
      BY <1>1
    <3>3. QED
      BY <1>1, <3>1, <3>2
  <2>2. \A i \in DOMAIN ev : f[i] \in Int /\ f[i] = ev[i].at
    BY <1>2
  <2> HIDE DEF f
  <2>3. PICK i \in DOMAIN ev : \A x \in DOMAIN ev : f[i] >= f[x]
    BY <2>1, <2>2, LargestExists
  <2>4. QED
    BY <2>2, <2>3
<1>4. last \in times /\ \A x \in times : last >= x
  BY <1>3 DEF Max
<1>5. last \in Int /\ Window \in Nat
  BY <1>2, <1>4, WindowIsPositive
<1>6. \A e \in log : e.at <= last
  BY <1>4 DEF Evaluated
<1> HIDE DEF last
<1>7. Live(log, last + Window, Window) = {}
  <2>1. \A e \in log : e.at \in Nat
    BY DEF Entries
  <2>2. \A e \in log : ~(e.at > (last + Window) - Window)
    BY <1>5, <1>6, <2>1
  <2>3. QED
    BY <2>2 DEF Live
<1>8. ~(0 >= RpmLimitOf(r, k))
  BY LimitsAreNumbers
<1>9. RpmCheck(log, RpmLimitOf(r, k), r, last + Window, Window).ok
  BY <1>7, <1>8, FS_EmptySet DEF RpmCheck
<1>10. QED
  BY <1>9 DEF last

\* Whatever was stranded, retried or rotated: a window after its last
\* evaluation an RPM key admits again, and two buckets after its marker a TPM
\* key (rate_limit_check.lua, rate_limit_tpm_check.lua).
THEOREM QuietKeysRecover == RateSpec => []RecoversWhenQuiet
<1>1. RateInv => RecoversWhenQuiet
  <2> SUFFICES ASSUME RateInv, NEW k \in Keys
               PROVE  /\ RpmLimit[k] > 0 /\ evals[k] # << >> =>
                           \A r \in Requests :
                             RpmCheck(rpm[k], RpmLimitOf(r, k), r,
                                      Max({evals[k][i].at : i \in DOMAIN evals[k]}) + Window,
                                      Window).ok
                      /\ TpmLimit[k] >= Reserve =>
                           TpmCheck(tpm[k], TpmLimit[k], Reserve,
                                    (tpm[k].win + 2) * Window, Window).ok
    BY DEF RecoversWhenQuiet
  <2>1. /\ rpm[k] \in SUBSET Entries /\ evals[k] \in Seq(Evaluations)
        /\ Evaluated(rpm[k], evals[k]) /\ tpm[k] \in Buckets
    BY DEF RateInv, RateShape
  <2>2. ASSUME RpmLimit[k] > 0, evals[k] # << >>, NEW r \in Requests
        PROVE  RpmCheck(rpm[k], RpmLimitOf(r, k), r,
                        Max({evals[k][i].at : i \in DOMAIN evals[k]}) + Window, Window).ok
    BY <2>1, <2>2, SetRecovers
  <2>3. ASSUME TpmLimit[k] >= Reserve
        PROVE  TpmCheck(tpm[k], TpmLimit[k], Reserve, (tpm[k].win + 2) * Window, Window).ok
    <3>1. TpmLimit[k] \in Nat /\ Reserve \in Nat
      BY RateAssumption
    <3>2. QED
      BY <2>1, <2>3, <3>1, BucketRecovers
  <2>4. QED
    BY <2>2, <2>3
<1>2. QED
  BY <1>1, RatesAlways, PTL
---------------------------------------------------------------------------
(* The books: as long as no attempt fails, what the counters of a key or a  *)
(* cost scope hold is the sum of what the requests owe.  A step of a request*)
(* moves both sides by the same amount.                                     *)

(* What a request has in hand: the candidate it is at, the scopes of its   *)
(* check, at most one settlement of tokens and one of cost.                *)
InHand(r) ==
  /\ turn[r] \in 1..Len(Chain[r])
  /\ Len(plan[r]) <= 2
  /\ stage[r] = "rpm" => todo[r] \subseteq RpmKeys(r)
  /\ stage[r] = "tpm" => todo[r] \subseteq TpmKeys(r)
  /\ stage[r] = "cost" => todo[r] \subseteq CostKeys(r)

BooksShape ==
  /\ now <= MaxTime
  /\ faults \in Nat
  /\ turn = [r \in Requests |-> turn[r]]
  /\ todo = [r \in Requests |-> todo[r]]
  /\ cost \in [CostScopes -> [CostWindows -> Int]]
  /\ dropped \in [Keys -> Int]
  /\ leftTokens \in [Requests -> [Keys -> Int]]
  /\ leftCost \in [Requests -> [CostScopes -> Int]]
  /\ \A r \in Requests : InHand(r)

BooksInv == BooksShape /\ BooksBalance
---------------------------------------------------------------------------
LEMMA ScopesOfCandidate ==
  ASSUME NEW r \in Requests, turn[r] \in 1..Len(Chain[r])
  PROVE  /\ Candidate(r) \in Seq(Keys)
         /\ ToSet(Candidate(r)) \subseteq Keys /\ ToSet(Payers[r]) \subseteq CostScopes
         /\ Payers[r] \in Seq(CostScopes)
<1>1. Chain[r] \in Seq(Seq(Keys) \ {<<>>}) /\ Payers[r] \in Seq(CostScopes)
  BY RateAssumption
<1>2. Candidate(r) \in Seq(Keys)
  BY <1>1 DEF Candidate
<1>3. QED
  BY <1>1, <1>2 DEF ToSet

\* The scope that is evaluated next is one the check has not evaluated yet.
LEMMA NextScope ==
  ASSUME NEW r \in Requests, InHand(r), Evaluating(r)
  PROVE  Scope(r) \in todo[r]
<1> DEFINE S == {i \in DOMAIN Order(r) : Order(r)[i] \in todo[r]}
<1>1. /\ Candidate(r) \in Seq(Keys) /\ Payers[r] \in Seq(CostScopes)
  BY ScopesOfCandidate DEF InHand
<1>2. todo[r] \subseteq ToSet(Order(r))
  BY DEF InHand, Evaluating, Order, RpmKeys, TpmKeys, CostKeys
<1>3. DOMAIN Order(r) = 1..Len(Order(r)) /\ Len(Order(r)) \in Nat
  BY <1>1 DEF Order
<1>4. IsFiniteSet(S)
  <2>1. IsFiniteSet(1..Len(Order(r)))
    BY <1>3, FS_Interval
  <2>2. S \subseteq 1..Len(Order(r))
    BY <1>3
  <2>3. QED
    BY <2>1, <2>2, FS_Subset
<1>5. S # {}
  <2>1. todo[r] # {}
    BY DEF Evaluating
  <2>2. QED
    BY <1>2, <2>1 DEF ToSet
<1>6. \A i \in S : i \in Int
  BY <1>3
<1>7. \E i \in S : \A j \in S : i <= j
  <2> HIDE DEF S
  <2>1. QED
    BY <1>4, <1>5, <1>6, LeastExists
<1>8. Min(S) \in S
  BY <1>7 DEF Min
<1>9. QED
  BY <1>8 DEF Scope
---------------------------------------------------------------------------
(* What a step of a request leaves alone: what the others have in hand.    *)
OthersRest(r) ==
  /\ turn' = [q \in Requests |-> turn'[q]] /\ todo' = [q \in Requests |-> todo'[q]]
  /\ \A q \in Requests \ {r} :
       /\ stage'[q] = stage[q] /\ turn'[q] = turn[q] /\ todo'[q] = todo[q]
       /\ plan'[q] = plan[q]
       /\ leftTokens'[q] = leftTokens[q] /\ leftCost'[q] = leftCost[q]

\* The loop at r, the set of scopes before it, and its plan: each at most moves at r.
Touches(r) ==
  /\ stage' = stage \/ \E x : stage' = [stage EXCEPT ![r] = x]
  /\ turn' = turn \/ \E x : turn' = [turn EXCEPT ![r] = x]
  /\ todo' = todo \/ \E x : todo' = [todo EXCEPT ![r] = x]
  /\ plan' = plan \/ \E x : plan' = [plan EXCEPT ![r] = x]
  /\ leftTokens' = leftTokens \/ \E x : leftTokens' = [leftTokens EXCEPT ![r] = x]
  /\ leftCost' = leftCost \/ \E x : leftCost' = [leftCost EXCEPT ![r] = x]

LEMMA TouchesRest ==
  ASSUME RateShape, BooksShape, NEW r \in Requests, Touches(r)
  PROVE  OthersRest(r)
<1>1. /\ stage = [q \in Requests |-> stage[q]] /\ turn = [q \in Requests |-> turn[q]]
      /\ todo = [q \in Requests |-> todo[q]]
  BY DEF RateShape, BooksShape
<1>2. DOMAIN plan = Requests /\ DOMAIN leftTokens = Requests /\ DOMAIN leftCost = Requests
  BY DEF RateShape, BooksShape
<1>3. turn' = [q \in Requests |-> turn'[q]] /\ todo' = [q \in Requests |-> todo'[q]]
  BY <1>1 DEF Touches
<1>4. \A q \in Requests \ {r} : stage'[q] = stage[q] /\ turn'[q] = turn[q] /\ todo'[q] = todo[q]
  BY <1>1 DEF Touches
<1>5. \A q \in Requests \ {r} : plan'[q] = plan[q] /\ leftTokens'[q] = leftTokens[q] /\ leftCost'[q] = leftCost[q]
  BY <1>2 DEF Touches
<1>6. QED
  BY <1>3, <1>4, <1>5 DEF OthersRest

LEMMA StepTouches ==
  ASSUME NEW r \in Requests, Step(r)
  PROVE  Touches(r)
<1>1. CASE Pass(r) \/ BeginRpm(r) \/ EndCheck(r) \/ EndSettle(r)
  BY <1>1 DEF Pass, BeginRpm, EndCheck, EndSettle, GoOn, Touches, leftVars
<1>2. ASSUME Evaluating(r), Stranded(r)
      PROVE  /\ leftTokens' = leftTokens \/ \E x : leftTokens' = [leftTokens EXCEPT ![r] = x]
             /\ leftCost' = leftCost \/ \E x : leftCost' = [leftCost EXCEPT ![r] = x]
  BY <1>2 DEF Stranded, Leaves, leftVars, Evaluating
<1>3. ASSUME Dismiss(r)
      PROVE  /\ stage' = stage \/ \E x : stage' = [stage EXCEPT ![r] = x]
             /\ turn' = turn \/ \E x : turn' = [turn EXCEPT ![r] = x]
             /\ todo' = todo \/ \E x : todo' = [todo EXCEPT ![r] = x]
  BY <1>3 DEF Dismiss, GoOn
<1>4. CASE EvalAllow(r)
  BY <1>4 DEF EvalAllow, Touches, leftVars
<1>5. CASE EvalReject(r)
  BY <1>2, <1>3, <1>5 DEF EvalReject, Touches
<1>6. CASE EvalFail(r)
  <2>1. plan' = plan /\ Evaluating(r)
    BY <1>6 DEF EvalFail
  <2>2. CASE Retry(r) /\ UNCHANGED <<stage, turn, todo, at, leftVars>>
    BY <2>1, <2>2 DEF Touches, leftVars
  <2>3. CASE GiveUpOpen(r)
    BY <2>1, <2>3 DEF Touches, leftVars, GiveUpOpen
  <2>4. CASE Dismiss(r) /\ Stranded(r)
    BY <1>2, <1>3, <2>1, <2>4 DEF Touches
  <2>5. QED
    BY <1>6, <2>2, <2>3, <2>4 DEF EvalFail, GiveUp
<1>7. CASE Handle(r)
  <2>1. PICK to, steps : Settle(r, to, steps)
    BY <1>7 DEF Handle, ProviderFails, FinalizeNoUsage, NoFinalize, Finalize
  <2>2. /\ leftTokens' = leftTokens \/ \E x : leftTokens' = [leftTokens EXCEPT ![r] = x]
        /\ leftCost' = leftCost \/ \E x : leftCost' = [leftCost EXCEPT ![r] = x]
    BY <1>7 DEF Handle, ProviderFails, FinalizeNoUsage, NoFinalize, Finalize, Leaves, leftVars
  <2>3. QED
    BY <2>1, <2>2 DEF Settle, Touches
<1>8. CASE SettleOk(r) \/ SettleFail(r)
  BY <1>8 DEF SettleOk, SettleFail, Touches, leftVars
<1>9. QED
  BY <1>1, <1>4, <1>5, <1>6, <1>7, <1>8 DEF Step
---------------------------------------------------------------------------
LEMMA KeysAreTheirs ==
  ASSUME NEW r \in Requests, turn[r] \in 1..Len(Chain[r])
  PROVE  TpmKeys(r) \subseteq Keys /\ RpmKeys(r) \subseteq Keys /\ CostKeys(r) \subseteq CostScopes
BY ScopesOfCandidate DEF TpmKeys, RpmKeys, CostKeys

\* What a candidate leaves in the books stays a number per key and cost scope.
LEMMA LeavesShape ==
  ASSUME BooksShape, NEW r \in Requests, NEW n \in Int, NEW T, NEW m \in Int, NEW S,
         Leaves(r, n, T, m, S)
  PROVE  leftTokens' \in [Requests -> [Keys -> Int]] /\ leftCost' \in [Requests -> [CostScopes -> Int]]
<1>1. leftTokens[r] \in [Keys -> Int] /\ leftCost[r] \in [CostScopes -> Int]
  BY DEF BooksShape
<1>2. [k \in Keys |-> leftTokens[r][k] + IF k \in T THEN n ELSE 0] \in [Keys -> Int]
  BY <1>1
<1>3. [s \in CostScopes |-> leftCost[r][s] + IF s \in S THEN m ELSE 0] \in [CostScopes -> Int]
  BY <1>1
<1>4. QED
  BY <1>2, <1>3 DEF Leaves, BooksShape

LEMMA AmountsAreInts == Reserve \in Int /\ EstCost \in Int /\ 0 \in Int
BY RateAssumption

LEMMA LeftShape ==
  ASSUME BooksShape, NEW r \in Requests, Step(r)
  PROVE  leftTokens' \in [Requests -> [Keys -> Int]] /\ leftCost' \in [Requests -> [CostScopes -> Int]]
<1>1. ASSUME UNCHANGED leftVars
      PROVE  leftTokens' \in [Requests -> [Keys -> Int]] /\ leftCost' \in [Requests -> [CostScopes -> Int]]
  BY <1>1 DEF leftVars, BooksShape
<1>2. CASE Pass(r) \/ BeginRpm(r) \/ EndCheck(r) \/ EndSettle(r) \/ EvalAllow(r) \/ SettleOk(r) \/ SettleFail(r)
           \/ ProviderFails(r)
  BY <1>1, <1>2 DEF Pass, BeginRpm, EndCheck, EndSettle, EvalAllow, SettleOk, SettleFail, ProviderFails
<1>3. CASE FinalizeNoUsage(r)
  BY <1>3, AmountsAreInts, LeavesShape DEF FinalizeNoUsage
<1>4. CASE NoFinalize(r)
  BY <1>4, AmountsAreInts, LeavesShape DEF NoFinalize
<1>5. ASSUME NEW usage \in Usages, Finalize(r, usage)
      PROVE  leftTokens' \in [Requests -> [Keys -> Int]] /\ leftCost' \in [Requests -> [CostScopes -> Int]]
  <2>1. usage.tokens \in Int /\ usage.cost \in Int
    BY RateAssumption
  <2>2. Leaves(r, usage.tokens, TpmKeys(r), usage.cost, CostKeys(r))
    BY <1>5 DEF Finalize
  <2>3. QED
    BY <2>1, <2>2, LeavesShape
<1>6. ASSUME Evaluating(r), Stranded(r)
      PROVE  leftTokens' \in [Requests -> [Keys -> Int]] /\ leftCost' \in [Requests -> [CostScopes -> Int]]
  <2>1. CASE stage[r] = "rpm"
    BY <1>1, <1>6, <2>1 DEF Stranded
  <2>2. CASE stage[r] = "tpm"
    <3>1. Leaves(r, Reserve, Behind(r, TpmKeys(r)), 0, {})
      BY <1>6, <2>2 DEF Stranded
    <3>2. QED
      BY <3>1, AmountsAreInts, LeavesShape
  <2>3. CASE stage[r] = "cost"
    <3>1. Leaves(r, Reserve, TpmKeys(r), EstCost, Behind(r, CostKeys(r)))
      BY <1>6, <2>3 DEF Stranded
    <3>2. QED
      BY <3>1, AmountsAreInts, LeavesShape
  <2>4. QED
    BY <1>6, <2>1, <2>2, <2>3 DEF Evaluating
<1>7. CASE EvalReject(r)
  BY <1>6, <1>7 DEF EvalReject
<1>8. CASE EvalFail(r)
  <2>1. Evaluating(r) /\ (UNCHANGED leftVars \/ Stranded(r))
    BY <1>8 DEF EvalFail, GiveUp, GiveUpOpen, leftVars
  <2>2. QED
    BY <1>1, <1>6, <2>1
<1>9. QED
  BY <1>2, <1>3, <1>4, <1>5, <1>7, <1>8 DEF Step, Handle

\* What a settlement may plan: tokens, cost or both, in either order.
Plans(r, n, m) ==
  {<<>>, Settlement(r, "tpm", n), Settlement(r, "tpm", n) \o Settlement(r, "cost", m),
   Settlement(r, "cost", m) \o Settlement(r, "tpm", n)}

LEMMA PlansAreShort ==
  ASSUME NEW r \in Requests, NEW n \in Int, NEW m \in Int, NEW p \in Plans(r, n, m)
  PROVE  Len(p) <= 2
<1> DEFINE a == Settlement(r, "tpm", n)
           b == Settlement(r, "cost", m)
<1>1. a \in Seq(Amounts) /\ b \in Seq(Amounts)
  BY SettlementsAreAmounts
<1>2. Len(a) <= 1 /\ Len(b) <= 1
  BY DEF Settlement
<1>3. p \in {<<>>, a, a \o b, b \o a}
  BY DEF Plans
<1> HIDE DEF a, b
<1>4. Len(a \o b) <= 2 /\ Len(b \o a) <= 2 /\ Len(a) <= 2
  BY <1>1, <1>2
<1>5. QED
  BY <1>3, <1>4

LEMMA InHandKept ==
  ASSUME RateShape, BooksShape, NEW r \in Requests, Step(r)
  PROVE  InHand(r)'
<1>1. InHand(r) /\ turn[r] \in 1..Len(Chain[r]) /\ Len(plan[r]) <= 2
  BY DEF BooksShape, InHand
<1>2. DOMAIN stage = Requests /\ DOMAIN turn = Requests /\ DOMAIN todo = Requests /\ DOMAIN plan = Requests
  BY DEF RateShape, BooksShape
<1>3. plan[r] \in Seq(Amounts) /\ Chain[r] \in Seq(Seq(Keys) \ {<<>>})
  BY RateAssumption DEF RateShape
<1>4. ASSUME GoOn(r), plan'[r] = plan[r] PROVE InHand(r)'
  <2>1. turn'[r] \in 1..Len(Chain[r])
    BY <1>1, <1>2, <1>3, <1>4 DEF GoOn
  <2>2. stage'[r] \in {"ready", "over"}
    BY <1>2, <1>4 DEF GoOn
  <2>3. QED
    BY <1>1, <1>4, <2>1, <2>2 DEF InHand
<1>5. ASSUME turn'[r] = turn[r], plan'[r] = plan[r], stage'[r] = "over" PROVE InHand(r)'
  BY <1>1, <1>5 DEF InHand
<1>6. ASSUME Dismiss(r), plan'[r] = plan[r] PROVE InHand(r)'
  BY <1>2, <1>4, <1>5, <1>6 DEF Dismiss
<1>7. ASSUME stage'[r] = stage[r], turn'[r] = turn[r], plan'[r] = plan[r], todo'[r] \subseteq todo[r]
      PROVE  InHand(r)'
  <2>1. Candidate(r)' = Candidate(r)
    BY <1>7 DEF Candidate
  <2>2. TpmKeys(r)' = TpmKeys(r) /\ RpmKeys(r)' = RpmKeys(r) /\ CostKeys(r)' = CostKeys(r)
    BY <2>1 DEF TpmKeys, RpmKeys, CostKeys
  <2>3. QED
    BY <1>1, <1>7, <2>2 DEF InHand
<1>8. CASE Pass(r)
  BY <1>4, <1>8 DEF Pass
<1>9. CASE BeginRpm(r)
  <2>1. stage'[r] = "rpm" /\ todo'[r] = RpmKeys(r) /\ turn' = turn /\ plan' = plan
    BY <1>2, <1>9 DEF BeginRpm
  <2>2. RpmKeys(r)' = RpmKeys(r)
    BY <2>1 DEF RpmKeys, Candidate
  <2>3. QED
    BY <1>1, <2>1, <2>2 DEF InHand
<1>10. CASE EndCheck(r)
  <2>1. turn' = turn /\ plan' = plan
    BY <1>10 DEF EndCheck
  <2>2. TpmKeys(r)' = TpmKeys(r) /\ CostKeys(r)' = CostKeys(r)
    BY <2>1 DEF TpmKeys, Candidate, CostKeys
  <2>3. \/ stage'[r] = "tpm" /\ todo'[r] = TpmKeys(r)
        \/ stage'[r] = "cost" /\ todo'[r] = CostKeys(r)
        \/ stage'[r] = "serving"
    BY <1>2, <1>10 DEF EndCheck
  <2>4. QED
    BY <1>1, <2>1, <2>2, <2>3 DEF InHand
<1>11. CASE EvalAllow(r)
  BY <1>2, <1>7, <1>11 DEF EvalAllow
<1>12. CASE EvalReject(r)
  BY <1>6, <1>12 DEF EvalReject
<1>13. CASE EvalFail(r)
  <2>1. plan'[r] = plan[r]
    BY <1>13 DEF EvalFail
  <2>2. CASE UNCHANGED <<stage, turn, todo>>
    BY <1>7, <2>1, <2>2
  <2>3. CASE GiveUpOpen(r)
    BY <1>2, <1>7, <2>1, <2>3 DEF GiveUpOpen
  <2>4. CASE Dismiss(r)
    BY <1>6, <2>1, <2>4
  <2>5. QED
    BY <1>13, <2>2, <2>3, <2>4 DEF EvalFail, GiveUp
<1>14. CASE Handle(r)
  <2>1. \E to \in {"unwinding", "finalizing"}, n \in Int, m \in Int :
          \E p \in Plans(r, n, m) : Settle(r, to, p)
    <3>1. CASE ProviderFails(r)
      BY <3>1, AmountsAreInts DEF ProviderFails, Plans
    <3>2. CASE FinalizeNoUsage(r)
      BY <3>2, AmountsAreInts DEF FinalizeNoUsage, Plans
    <3>3. CASE NoFinalize(r)
      BY <3>3, AmountsAreInts DEF NoFinalize, Plans
    <3>4. ASSUME NEW usage \in Usages, Finalize(r, usage)
          PROVE  \E to \in {"unwinding", "finalizing"}, n \in Int, m \in Int :
                   \E p \in Plans(r, n, m) : Settle(r, to, p)
      <4>1. usage.tokens \in Int /\ usage.cost \in Int
        BY RateAssumption
      <4>2. QED
        BY <3>4, <4>1 DEF Finalize, Plans
    <3>5. QED
      BY <1>14, <3>1, <3>2, <3>3, <3>4 DEF Handle
  <2> PICK to \in {"unwinding", "finalizing"}, n \in Int, m \in Int :
        \E p \in Plans(r, n, m) : Settle(r, to, p)
    BY <2>1
  <2> PICK p \in Plans(r, n, m) : Settle(r, to, p)
    OBVIOUS
  <2>2. Len(p) <= 2
    BY PlansAreShort
  <2>3. stage'[r] = to /\ plan'[r] = p /\ turn'[r] = turn[r]
    BY <1>2 DEF Settle
  <2>4. QED
    BY <1>1, <2>2, <2>3 DEF InHand
<1>15. CASE SettleOk(r) \/ SettleFail(r)
  <2>1. UNCHANGED <<stage, turn, todo>> /\ Settling(r)
    BY <1>15 DEF SettleOk, SettleFail
  <2>2. plan'[r] = plan[r] \/ plan'[r] = Tail(plan[r])
    BY <1>2, <1>15 DEF SettleOk, SettleFail
  <2>3. Len(plan'[r]) <= 2
    <3>1. plan[r] # <<>> /\ plan[r] \in Seq(Amounts) /\ Len(plan[r]) <= 2
      BY <1>1, <1>3, <2>1 DEF Settling
    <3>2. Len(Tail(plan[r])) <= 2
      BY <3>1
    <3>3. QED
      BY <2>2, <3>1, <3>2
  <2>4. stage'[r] \in {"unwinding", "finalizing"} /\ turn'[r] = turn[r]
    BY <2>1 DEF Settling
  <2>5. QED
    BY <1>1, <2>3, <2>4 DEF InHand
<1>16. CASE EndSettle(r)
  <2>1. plan'[r] = plan[r]
    BY <1>16 DEF EndSettle
  <2>2. GoOn(r) \/ (stage'[r] = "over" /\ turn'[r] = turn[r])
    BY <1>2, <1>16 DEF EndSettle
  <2>3. QED
    BY <1>4, <1>5, <2>1, <2>2
<1>17. QED
  BY <1>8, <1>9, <1>10, <1>11, <1>12, <1>13, <1>14, <1>15, <1>16 DEF Step
---------------------------------------------------------------------------
LEMMA WindowsExist ==
  ASSUME NEW t \in Nat, t <= MaxTime
  PROVE  Windows(t).cpm \in CostWindows /\ Windows(t).cph \in CostWindows
<1>1. t \in 0..MaxTime
  BY RateAssumption
<1>2. QED
  BY <1>1 DEF CostWindows

LEMMA HeldIsInt ==
  ASSUME NEW b \in Buckets
  PROVE  Held(b) \in Int
BY DEF Held, Buckets

LEMMA RotateKeepsType ==
  ASSUME NEW b \in Buckets, NEW t \in Nat
  PROVE  Rotate(b, t, Window) \in Buckets
<1>1. t \div Window \in Nat
  BY WindowIsPositive
<1>2. QED
  BY <1>1 DEF Rotate, Buckets

LEMMA PlannedAmount ==
  ASSUME RateShape, NEW r \in Requests, Settling(r)
  PROVE  plan[r][1] \in Amounts /\ plan[r][1][1] \in {"tpm", "cost"} /\ plan[r][1][2] \in Int
<1>1. plan[r] \in Seq(Amounts) /\ plan[r] # <<>>
  BY DEF RateShape, Settling
<1>2. plan[r][1] \in Amounts
  BY <1>1
<1>3. QED
  BY <1>2 DEF Amounts

LEMMA ApplyShape ==
  ASSUME RateShape, BooksShape, NEW r \in Requests, Evaluating(r), Apply(r)
  PROVE  cost' \in [CostScopes -> [CostWindows -> Int]] /\ dropped' \in [Keys -> Int]
<1> DEFINE k == Scope(r)
<1>1. k \in todo[r] /\ InHand(r) /\ turn[r] \in 1..Len(Chain[r])
  BY NextScope DEF BooksShape, InHand
<1>2. CASE stage[r] = "rpm"
  BY <1>2 DEF Apply, BooksShape
<1>3. CASE stage[r] = "tpm"
  <2>1. k \in Keys
    BY <1>1, <1>3, KeysAreTheirs DEF InHand
  <2>2. tpm[k] \in Buckets /\ Rotate(tpm[k], at[r], Window) \in Buckets
    BY <2>1, RotateKeepsType DEF RateShape
  <2>3. Held(tpm[k]) \in Int /\ Held(Rotate(tpm[k], at[r], Window)) \in Int
    BY <2>2, HeldIsInt
  <2>4. dropped[k] \in Int
    BY <2>1 DEF BooksShape
  <2> HIDE DEF k
  <2>5. dropped' = [dropped EXCEPT ![k] = dropped[k] + Held(tpm[k]) - Held(Rotate(tpm[k], at[r], Window))]
        /\ cost' = cost
    BY <1>3 DEF Apply, k
  <2>6. PICK n \in Int : n = dropped[k] + Held(tpm[k]) - Held(Rotate(tpm[k], at[r], Window))
    BY <2>3, <2>4
  <2>7. QED
    BY <2>5, <2>6 DEF BooksShape
<1>4. CASE stage[r] = "cost"
  <2>1. k \in CostScopes
    BY <1>1, <1>4, KeysAreTheirs DEF InHand
  <2>2. cost[k] \in [CostWindows -> Int]
    BY <2>1 DEF BooksShape
  <2>3. CostRun(r, k).used \in [CostWindows -> Int]
    BY <2>2, AmountsAreInts DEF CostRun, CostCheck
  <2>4. cost' = [cost EXCEPT ![k] = CostRun(r, k).used] /\ dropped' = dropped
    BY <1>4 DEF Apply
  <2>5. QED
    BY <2>3, <2>4 DEF BooksShape
<1>5. QED
  BY <1>2, <1>3, <1>4 DEF Evaluating

LEMMA CountersShape ==
  ASSUME RateShape, BooksShape, NEW r \in Requests, Step(r)
  PROVE  cost' \in [CostScopes -> [CostWindows -> Int]] /\ dropped' \in [Keys -> Int]
<1>1. CASE UNCHANGED counterVars
  BY <1>1 DEF counterVars, BooksShape
<1>2. CASE Evaluating(r) /\ Apply(r)
  BY <1>2, ApplyShape
<1>3. CASE SettleOk(r) \/ SettleFail(r)
  <2>1. Settling(r) /\ dropped' = dropped /\ \E S : Adjust(r, S)
    BY <1>3 DEF SettleOk, SettleFail
  <2>2. PICK S : Adjust(r, S)
    BY <2>1
  <2>3. plan[r][1][2] \in Int
    BY <2>1, PlannedAmount
  <2>4. cost' = cost \/ AdjustCost(S, plan[r][1][2])
    BY <2>2 DEF Adjust, AdjustTokens
  <2>5. ASSUME AdjustCost(S, plan[r][1][2])
        PROVE  cost' \in [CostScopes -> [CostWindows -> Int]]
    <3>1. PICK n \in Int : n = plan[r][1][2]
      BY <2>3
    <3>2. \A s \in CostScopes, c \in CostWindows : cost[s][c] \in Int
      BY DEF BooksShape
    <3>3. cost' = [s \in CostScopes |-> [c \in CostWindows |->
                cost[s][c] + IF s \in S /\ c \in {Windows(now).cpm, Windows(now).cph}
                             THEN n ELSE 0]]
      BY <2>5, <3>1 DEF AdjustCost
    <3>4. QED
      BY <3>1, <3>2, <3>3
  <2>6. QED
    BY <2>1, <2>4, <2>5 DEF BooksShape
<1>4. QED
  BY <1>1, <1>2, <1>3 DEF Step, Pass, BeginRpm, EndCheck, EvalAllow, EvalReject, EvalFail, Handle,
     ProviderFails, FinalizeNoUsage, NoFinalize, Finalize, Settle, EndSettle

LEMMA FaultsCount ==
  ASSUME BooksShape, NEW r \in Requests, Step(r)
  PROVE  /\ now' = now /\ faults' \in Nat /\ (faults' = 0 => faults = 0)
         /\ faults' = 0 => ~EvalFail(r) /\ ~SettleFail(r)
<1>1. CASE EvalFail(r) \/ SettleFail(r)
  BY <1>1 DEF EvalFail, SettleFail, Fault, BooksShape
<1>2. CASE ~EvalFail(r) /\ ~SettleFail(r)
  BY <1>2 DEF BooksShape, Step, Pass, BeginRpm, EndCheck, EvalAllow, EvalReject, Handle,
     ProviderFails, FinalizeNoUsage, NoFinalize, Finalize, Settle, EndSettle, SettleOk
<1>3. QED
  BY <1>1, <1>2

LEMMA ShapeKept ==
  ASSUME RateShape, BooksShape, NEW r \in Requests, Step(r)
  PROVE  BooksShape' /\ OthersRest(r)
<1>1. OthersRest(r)
  BY StepTouches, TouchesRest
<1>2. ASSUME NEW q \in Requests PROVE InHand(q)'
  <2>1. CASE q = r
    BY <2>1, InHandKept
  <2>2. CASE q # r
    <3>1. InHand(q)
      BY DEF BooksShape
    <3>2. stage'[q] = stage[q] /\ turn'[q] = turn[q] /\ todo'[q] = todo[q] /\ plan'[q] = plan[q]
      BY <1>1, <2>2 DEF OthersRest
    <3>3. Candidate(q)' = Candidate(q)
      BY <3>2 DEF Candidate
    <3>4. TpmKeys(q)' = TpmKeys(q) /\ RpmKeys(q)' = RpmKeys(q) /\ CostKeys(q)' = CostKeys(q)
      BY <3>3 DEF TpmKeys, RpmKeys, CostKeys
    <3>5. QED
      BY <3>1, <3>2, <3>4 DEF InHand
  <2>3. QED
    BY <2>1, <2>2
<1>3. now' <= MaxTime /\ faults' \in Nat
  BY FaultsCount DEF BooksShape
<1>4. turn' = [q \in Requests |-> turn'[q]] /\ todo' = [q \in Requests |-> todo'[q]]
  BY <1>1 DEF OthersRest
<1>5. /\ cost' \in [CostScopes -> [CostWindows -> Int]] /\ dropped' \in [Keys -> Int]
      /\ leftTokens' \in [Requests -> [Keys -> Int]] /\ leftCost' \in [Requests -> [CostScopes -> Int]]
  BY CountersShape, LeftShape
<1>6. BooksShape'
  BY <1>2, <1>3, <1>4, <1>5 DEF BooksShape
<1>7. QED
  BY <1>1, <1>6
---------------------------------------------------------------------------
(* What a step of a plan settles.                                          *)
Part(a, kind) == IF a[1] = kind THEN a[2] ELSE 0

LEMMA SumOfFirst ==
  ASSUME NEW f, f[1] \in Int
  PROVE  SumFunctionOnSet(f, {1}) = f[1]
<1>1. IsFiniteSet({}) /\ 1 \notin {} /\ \A y \in {} \cup {1} : f[y] \in Int
  BY FS_EmptySet
<1>2. SumFunctionOnSet(f, {} \cup {1}) = f[1] + SumFunctionOnSet(f, {})
  BY <1>1, SumWith
<1>3. SumFunctionOnSet(f, {}) = 0 /\ {} \cup {1} = {1}
  BY SumOfNone
<1>4. QED
  BY <1>2, <1>3

LEMMA SumOfTwo ==
  ASSUME NEW f, f[1] \in Int, f[2] \in Int
  PROVE  SumFunctionOnSet(f, {1, 2}) = f[1] + f[2]
<1>1. IsFiniteSet({1})
  BY FS_Singleton
<1>8. 2 \notin {1} /\ \A y \in {1} \cup {2} : f[y] \in Int
  OBVIOUS
<1>2. SumFunctionOnSet(f, {1} \cup {2}) = f[2] + SumFunctionOnSet(f, {1})
  BY <1>1, <1>8, SumWith
<1>3. SumFunctionOnSet(f, {1}) = f[1]
  BY SumOfFirst
<1>4. {1} \cup {2} = {1, 2}
  OBVIOUS
<1>5. SumFunctionOnSet(f, {1, 2}) = f[2] + f[1]
  BY <1>2, <1>3, <1>4
<1>6. f[2] + f[1] = f[1] + f[2]
  OBVIOUS
<1>7. QED
  BY <1>5, <1>6

LEMMA PlanSums ==
  ASSUME NEW kind, NEW a \in Amounts, NEW b \in Amounts
  PROVE  /\ Unsettled(<<>>, kind) = 0
         /\ Unsettled(<<a>>, kind) = Part(a, kind)
         /\ Unsettled(<<a, b>>, kind) = Part(a, kind) + Part(b, kind)
<1>1. Part(a, kind) \in Int /\ Part(b, kind) \in Int
  BY DEF Part, Amounts
<1>2. Unsettled(<<>>, kind) = 0
  <2>1. DOMAIN <<>> = {}
    OBVIOUS
  <2>2. QED
    BY <2>1, SumOfNone DEF Unsettled
<1>3. Unsettled(<<a>>, kind) = Part(a, kind)
  <2> DEFINE f == [i \in DOMAIN <<a>> |-> IF <<a>>[i][1] = kind THEN <<a>>[i][2] ELSE 0]
  <2>1. DOMAIN <<a>> = {1} /\ f[1] = Part(a, kind)
    BY DEF Part
  <2> HIDE DEF f
  <2>2. SumFunctionOnSet(f, {1}) = f[1]
    BY <1>1, <2>1, SumOfFirst
  <2>3. QED
    BY <2>1, <2>2 DEF Unsettled, f
<1>4. Unsettled(<<a, b>>, kind) = Part(a, kind) + Part(b, kind)
  <2> DEFINE f == [i \in DOMAIN <<a, b>> |-> IF <<a, b>>[i][1] = kind THEN <<a, b>>[i][2] ELSE 0]
  <2>1. DOMAIN <<a, b>> = {1, 2} /\ f[1] = Part(a, kind) /\ f[2] = Part(b, kind)
    BY DEF Part
  <2> HIDE DEF f
  <2>2. SumFunctionOnSet(f, {1, 2}) = f[1] + f[2]
    BY <1>1, <2>1, SumOfTwo
  <2>3. QED
    BY <2>1, <2>2 DEF Unsettled, f
<1>5. QED
  BY <1>2, <1>3, <1>4

LEMMA ShortPlans ==
  ASSUME NEW p \in Seq(Amounts), Len(p) <= 2
  PROVE  \/ p = <<>>
         \/ \E a \in Amounts : p = <<a>>
         \/ \E a, b \in Amounts : p = <<a, b>>
<1>1. Len(p) \in {0, 1, 2}
  <2>1. PICK n \in Nat : n = Len(p)
    OBVIOUS
  <2>2. n <= 2
    BY <2>1
  <2>3. n = 0 \/ n = 1 \/ n = 2
    BY <2>2
  <2>4. QED
    BY <2>1, <2>3
<1>2. CASE Len(p) = 0
  BY <1>2
<1>3. CASE Len(p) = 1
  <2>1. p = <<p[1]>> /\ p[1] \in Amounts
    BY <1>3
  <2>2. QED
    BY <2>1
<1>4. CASE Len(p) = 2
  <2>1. p = <<p[1], p[2]>> /\ p[1] \in Amounts /\ p[2] \in Amounts
    BY <1>4
  <2>2. QED
    BY <2>1
<1>5. QED
  BY <1>1, <1>2, <1>3, <1>4

\* A step of a plan that is made takes its amount from what is pending.
LEMMA PlanStep ==
  ASSUME NEW p \in Seq(Amounts), Len(p) <= 2, NEW kind
  PROVE  /\ Unsettled(p, kind) \in Int
         /\ p # <<>> => Unsettled(p, kind) = Part(p[1], kind) + Unsettled(Tail(p), kind)
<1>1. CASE p = <<>>
  <2>1. Unsettled(<<>>, kind) = 0
    <3>1. <<"tpm", 0>> \in Amounts
      BY DEF Amounts
    <3>2. QED
      BY <3>1, PlanSums
  <2>2. QED
    BY <1>1, <2>1
<1>2. ASSUME NEW a \in Amounts, p = <<a>>
      PROVE  /\ Unsettled(p, kind) \in Int
             /\ p # <<>> => Unsettled(p, kind) = Part(p[1], kind) + Unsettled(Tail(p), kind)
  <2>1. Tail(p) = <<>> /\ p[1] = a
    BY <1>2
  <2>2. Part(a, kind) \in Int
    BY DEF Part, Amounts
  <2>3. Unsettled(<<a>>, kind) = Part(a, kind) /\ Unsettled(<<>>, kind) = 0
    BY PlanSums
  <2>4. QED
    BY <1>2, <2>1, <2>2, <2>3
<1>3. ASSUME NEW a \in Amounts, NEW b \in Amounts, p = <<a, b>>
      PROVE  /\ Unsettled(p, kind) \in Int
             /\ p # <<>> => Unsettled(p, kind) = Part(p[1], kind) + Unsettled(Tail(p), kind)
  <2>1. Tail(p) = <<b>> /\ p[1] = a
    BY <1>3
  <2>2. Part(a, kind) \in Int /\ Part(b, kind) \in Int
    BY DEF Part, Amounts
  <2>3. Unsettled(<<a, b>>, kind) = Part(a, kind) + Part(b, kind) /\ Unsettled(<<b>>, kind) = Part(b, kind)
    BY PlanSums
  <2>4. QED
    BY <1>3, <2>1, <2>2, <2>3
<1>4. QED
  BY <1>1, <1>2, <1>3, ShortPlans
---------------------------------------------------------------------------
OfKind(kind) == {c \in CostWindows : c[1] = kind}

LEMMA WindowsAreFinite ==
  ASSUME NEW kind
  PROVE  IsFiniteSet(OfKind(kind))
<1> DEFINE T == 0..MaxTime
           M == {Windows(t).cpm : t \in T}
           H == {Windows(t).cph : t \in T}
<1>1. IsFiniteSet(T)
  BY RateAssumption, FS_Interval
<1> HIDE DEF T
<1>2. IsFiniteSet(M) /\ IsFiniteSet(H)
  <2> DEFINE m == [t \in T |-> Windows(t).cpm]
             h == [t \in T |-> Windows(t).cph]
  <2>1. m \in Surjection(T, M) /\ h \in Surjection(T, H)
    BY DEF Surjection
  <2>2. QED
    BY <1>1, <2>1, FS_Surjection
<1>3. IsFiniteSet(M \cup H)
  BY <1>2, FS_Union
<1>4. CostWindows = M \cup H
  BY DEF CostWindows, T
<1>5. OfKind(kind) \subseteq M \cup H
  BY <1>4 DEF OfKind
<1>6. QED
  BY <1>3, <1>5, FS_Subset

\* Adding an amount to the counters of a moment adds it once per kind.
LEMMA SpentMoves ==
  ASSUME NEW t \in Nat, t <= MaxTime, NEW n \in Int, NEW kind \in {"cpm", "cph"},
         NEW f \in [CostWindows -> Int], NEW g \in [CostWindows -> Int],
         \A c \in CostWindows :
           g[c] = f[c] + IF c \in {Windows(t).cpm, Windows(t).cph} THEN n ELSE 0
  PROVE  SumFunctionOnSet(g, OfKind(kind)) = SumFunctionOnSet(f, OfKind(kind)) + n
<1>1. IsFiniteSet(OfKind(kind))
  BY WindowsAreFinite
<1>2. PICK w : w = IF kind = "cpm" THEN Windows(t).cpm ELSE Windows(t).cph
  OBVIOUS
<1>3. w \in OfKind(kind)
  BY <1>2, WindowsExist DEF OfKind, Windows
<1>4. \A c \in OfKind(kind) : f[c] \in Int /\ g[c] \in Int
  BY DEF OfKind
<1>5. \A c \in OfKind(kind) : c # w => g[c] = f[c]
  <2> SUFFICES ASSUME NEW c \in OfKind(kind), c # w PROVE g[c] = f[c]
    OBVIOUS
  <2>1. c \in CostWindows /\ c[1] = kind
    BY DEF OfKind
  <2>2. c \notin {Windows(t).cpm, Windows(t).cph}
    BY <1>2, <2>1 DEF Windows
  <2>3. QED
    BY <2>1, <2>2
<1>6. g[w] = f[w] + n
  BY <1>2, <1>3 DEF OfKind
<1>7. SumFunctionOnSet(g, OfKind(kind)) = SumFunctionOnSet(f, OfKind(kind)) - f[w] + g[w]
  BY <1>1, <1>3, <1>4, <1>5, SumChanges
<1>8. SumFunctionOnSet(f, OfKind(kind)) \in Int /\ f[w] \in Int
  BY <1>1, <1>3, <1>4, SumIsInt
<1>9. QED
  BY <1>6, <1>7, <1>8

LEMMA SpentIsInt ==
  ASSUME BooksShape, NEW s \in CostScopes, NEW kind
  PROVE  Spent(s, kind) \in Int
<1>1. IsFiniteSet(OfKind(kind)) /\ \A c \in OfKind(kind) : cost[s][c] \in Int
  BY WindowsAreFinite DEF BooksShape, OfKind
<1>2. SumFunctionOnSet(cost[s], OfKind(kind)) \in Int
  BY <1>1, SumIsInt
<1>3. QED
  BY <1>2 DEF Spent, OfKind
---------------------------------------------------------------------------
(* The two sides of a balance, per key and per cost scope: what a step of  *)
(* a request does to the one it does to the request's share of the other.  *)
TokenBooks(k) == Held(tpm[k]) + dropped[k]

TokensNet(r) ==
  \A k \in Keys : TokenBooks(k)' = TokenBooks(k) + TokensOwed(r, k)' - TokensOwed(r, k)

CostsNet(r) ==
  \A s \in CostScopes : PayerLimited(s) =>
    \A kind \in {"cpm", "cph"} :
      Spent(s, kind)' = Spent(s, kind) + CostOwed(r, s)' - CostOwed(r, s)

LEMMA OwedIsInt ==
  ASSUME RateShape, BooksShape, NEW r \in Requests
  PROVE  /\ \A k \in Keys : TokensOwed(r, k) \in Int /\ TokenBooks(k) \in Int
         /\ \A s \in CostScopes : CostOwed(r, s) \in Int
<1>1. plan[r] \in Seq(Amounts) /\ Len(plan[r]) <= 2
  BY DEF RateShape, BooksShape, InHand
<1>2. Unsettled(plan[r], "tpm") \in Int /\ Unsettled(plan[r], "cost") \in Int
  BY <1>1, PlanStep
<1>3. ASSUME NEW k \in Keys PROVE TokensOwed(r, k) \in Int /\ TokenBooks(k) \in Int
  <2>1. leftTokens[r][k] \in Int /\ dropped[k] \in Int
    BY DEF BooksShape
  <2>2. Held(tpm[k]) \in Int
    BY HeldIsInt DEF RateShape
  <2>3. TokensOwed(r, k) \in Int
    BY <1>2, <2>1, AmountsAreInts DEF TokensOwed
  <2>4. QED
    BY <2>1, <2>2, <2>3 DEF TokenBooks
<1>4. ASSUME NEW s \in CostScopes PROVE CostOwed(r, s) \in Int
  <2>1. leftCost[r][s] \in Int
    BY DEF BooksShape
  <2>2. QED
    BY <1>2, <2>1, AmountsAreInts DEF CostOwed
<1>5. QED
  BY <1>3, <1>4

\* A step that leaves the counters and a request's share alone.
LEMMA NothingMoves ==
  ASSUME RateShape, BooksShape, NEW r \in Requests,
         tpm' = tpm, cost' = cost, dropped' = dropped,
         \A k \in Keys : TokensOwed(r, k)' = TokensOwed(r, k),
         \A s \in CostScopes : CostOwed(r, s)' = CostOwed(r, s)
  PROVE  TokensNet(r) /\ CostsNet(r)
<1>2. ASSUME NEW k \in Keys
      PROVE  TokenBooks(k)' = TokenBooks(k) + TokensOwed(r, k)' - TokensOwed(r, k)
  <2>1. TokenBooks(k)' = TokenBooks(k)
    BY DEF TokenBooks
  <2>2. TokenBooks(k) \in Int /\ TokensOwed(r, k) \in Int
    BY OwedIsInt
  <2>3. QED
    BY <2>1, <2>2
<1>3. ASSUME NEW s \in CostScopes, NEW kind \in {"cpm", "cph"}
      PROVE  Spent(s, kind)' = Spent(s, kind) + CostOwed(r, s)' - CostOwed(r, s)
  <2>1. Spent(s, kind)' = Spent(s, kind)
    BY DEF Spent
  <2>2. Spent(s, kind) \in Int /\ CostOwed(r, s) \in Int
    BY OwedIsInt, SpentIsInt
  <2>3. QED
    BY <2>1, <2>2
<1>4. QED
  BY <1>2, <1>3 DEF TokensNet, CostsNet
---------------------------------------------------------------------------
LEMMA KeysStay ==
  ASSUME NEW r, turn'[r] = turn[r]
  PROVE  TpmKeys(r)' = TpmKeys(r) /\ RpmKeys(r)' = RpmKeys(r) /\ CostKeys(r)' = CostKeys(r)
BY DEF TpmKeys, RpmKeys, CostKeys, Candidate

LEMMA NothingUnsettled ==
  ASSUME NEW kind
  PROVE  Unsettled(<<>>, kind) = 0
<1>1. <<"tpm", 0>> \in Amounts
  BY DEF Amounts
<1>2. QED
  BY <1>1, PlanSums

LEMMA LeftAreInts ==
  ASSUME BooksShape, NEW r \in Requests
  PROVE  /\ \A k \in Keys : leftTokens[r][k] \in Int
         /\ \A s \in CostScopes : leftCost[r][s] \in Int
BY DEF BooksShape

LEMMA ProceedsNet ==
  ASSUME RateShape, BooksShape, NEW r \in Requests,
         Pass(r) \/ BeginRpm(r) \/ EndCheck(r) \/ EndSettle(r)
  PROVE  TokensNet(r) /\ CostsNet(r)
<1>1. leftTokens' = leftTokens /\ leftCost' = leftCost /\ plan' = plan
      /\ tpm' = tpm /\ cost' = cost /\ dropped' = dropped
  BY DEF Pass, BeginRpm, EndCheck, EndSettle, leftVars, counterVars
<1>2. DOMAIN stage = Requests /\ DOMAIN turn = Requests /\ DOMAIN todo = Requests
  BY DEF RateShape, BooksShape
<1>3. \A k \in Keys : leftTokens[r][k] \in Int
  BY LeftAreInts
<1>4. \A s \in CostScopes : leftCost[r][s] \in Int
  BY LeftAreInts
<1>5. /\ \A k \in Keys : TokensOwed(r, k)' = TokensOwed(r, k)
      /\ \A s \in CostScopes : CostOwed(r, s)' = CostOwed(r, s)
  <2>1. CASE Pass(r) \/ BeginRpm(r)
    <3>1. stage[r] = "ready" /\ stage'[r] \in {"ready", "rpm", "over"}
      BY <1>2, <2>1 DEF Pass, BeginRpm, GoOn
    <3>2. QED
      BY <1>1, <1>3, <1>4, <3>1 DEF TokensOwed, CostOwed
  <2>2. CASE EndSettle(r)
    <3>1. plan[r] = <<>> /\ stage[r] \in {"unwinding", "finalizing"} /\ stage'[r] \in {"ready", "over"}
      BY <1>2, <2>2 DEF EndSettle, GoOn
    <3>2. Unsettled(plan[r], "tpm") = 0 /\ Unsettled(plan[r], "cost") = 0
      BY <3>1, NothingUnsettled
    <3>3. QED
      BY <1>1, <1>3, <1>4, <3>1, <3>2 DEF TokensOwed, CostOwed
  <2>3. CASE EndCheck(r)
    <3>1. todo[r] = {} /\ turn'[r] = turn[r]
      BY <2>3 DEF EndCheck
    <3>2. TpmKeys(r)' = TpmKeys(r) /\ CostKeys(r)' = CostKeys(r)
      BY <3>1, KeysStay
    <3>3. \/ stage[r] = "rpm" /\ stage'[r] = "tpm" /\ todo'[r] = TpmKeys(r)
          \/ stage[r] = "tpm" /\ stage'[r] = "cost" /\ todo'[r] = CostKeys(r)
          \/ stage[r] = "cost" /\ stage'[r] = "serving"
      BY <1>2, <2>3 DEF EndCheck
    <3>4. CASE stage[r] = "rpm" /\ stage'[r] = "tpm" /\ todo'[r] = TpmKeys(r)
      BY <1>1, <1>3, <1>4, <3>2, <3>4 DEF TokensOwed, CostOwed, Behind
    <3>5. CASE stage[r] = "tpm" /\ stage'[r] = "cost" /\ todo'[r] = CostKeys(r)
      BY <1>1, <1>3, <1>4, <3>1, <3>2, <3>5 DEF TokensOwed, CostOwed, Behind
    <3>6. CASE stage[r] = "cost" /\ stage'[r] = "serving"
      BY <1>1, <1>3, <1>4, <3>1, <3>2, <3>6 DEF TokensOwed, CostOwed, Behind
    <3>7. QED
      BY <3>3, <3>4, <3>5, <3>6
  <2>4. QED
    BY <2>1, <2>2, <2>3
<1>6. QED
  BY <1>1, <1>5, NothingMoves
---------------------------------------------------------------------------
\* What a plan will settle, by the amounts it was made from.
LEMMA PlannedTokens ==
  ASSUME NEW r \in Requests, NEW n \in Int
  PROVE  LET p == Settlement(r, "tpm", n)
         IN  /\ TpmKeys(r) # {} => Unsettled(p, "tpm") = n - Reserve
             /\ Unsettled(p, "cost") = 0
<1> DEFINE x == <<"tpm", n - Reserve>>
<1>1. x \in Amounts /\ n - Reserve \in Int
  BY AmountsAreInts DEF Amounts
<1>2. Unsettled(<<x>>, "tpm") = n - Reserve /\ Unsettled(<<x>>, "cost") = 0
  <2>1. Part(x, "tpm") = n - Reserve /\ Part(x, "cost") = 0
    BY DEF Part
  <2> HIDE DEF x
  <2>2. QED
    BY <1>1, <2>1, PlanSums
<1>3. CASE TpmKeys(r) = {} \/ n = Reserve
  <2>1. Settlement(r, "tpm", n) = <<>>
    BY <1>3 DEF Settlement
  <2>2. n = Reserve => n - Reserve = 0
    BY AmountsAreInts
  <2>3. QED
    BY <1>3, <2>1, <2>2, NothingUnsettled
<1>4. CASE TpmKeys(r) # {} /\ n # Reserve
  <2>1. Settlement(r, "tpm", n) = <<x>>
    BY <1>4 DEF Settlement
  <2> HIDE DEF x
  <2>2. QED
    BY <1>2, <2>1
<1>5. QED
  BY <1>3, <1>4

LEMMA PlannedBoth ==
  ASSUME NEW r \in Requests, NEW n \in Int, NEW m \in Int, NEW p,
         p \in {Settlement(r, "tpm", n) \o Settlement(r, "cost", m),
                Settlement(r, "cost", m) \o Settlement(r, "tpm", n)}
  PROVE  /\ TpmKeys(r) # {} => Unsettled(p, "tpm") = n - Reserve
         /\ CostKeys(r) # {} => Unsettled(p, "cost") = m - EstCost
<1> DEFINE x == <<"tpm", n - Reserve>>
           y == <<"cost", m - EstCost>>
<1>1. x \in Amounts /\ y \in Amounts /\ n - Reserve \in Int /\ m - EstCost \in Int
  BY AmountsAreInts DEF Amounts
<1>2. /\ Part(x, "tpm") = n - Reserve /\ Part(x, "cost") = 0
      /\ Part(y, "cost") = m - EstCost /\ Part(y, "tpm") = 0
  BY DEF Part
<1>3. (n = Reserve => n - Reserve = 0) /\ (m = EstCost => m - EstCost = 0)
  BY AmountsAreInts
<1>4. Settlement(r, "tpm", n) = IF TpmKeys(r) = {} \/ n = Reserve THEN <<>> ELSE <<x>>
  BY DEF Settlement
<1>5. Settlement(r, "cost", m) = IF CostKeys(r) = {} \/ m = EstCost THEN <<>> ELSE <<y>>
  BY DEF Settlement
<1> HIDE DEF x, y
<1>6. /\ <<>> \o <<>> = <<>> /\ <<>> \o <<x>> = <<x>> /\ <<x>> \o <<>> = <<x>>
      /\ <<>> \o <<y>> = <<y>> /\ <<y>> \o <<>> = <<y>>
      /\ <<x>> \o <<y>> = <<x, y>> /\ <<y>> \o <<x>> = <<y, x>>
  <2>1. <<>> \o <<>> = <<>>
    OBVIOUS
  <2>2. \A z \in Amounts : <<>> \o <<z>> = <<z>> /\ <<z>> \o <<>> = <<z>>
    OBVIOUS
  <2>3. ASSUME NEW z \in Amounts, NEW w \in Amounts PROVE <<z>> \o <<w>> = <<z, w>>
    <3> DEFINE q == <<z>> \o <<w>>
    <3>1. <<z>> \in Seq(Amounts) /\ <<w>> \in Seq(Amounts) /\ q \in Seq(Amounts)
      OBVIOUS
    <3>2. Len(q) = 2 /\ q[1] = z /\ q[2] = w
      BY <3>1
    <3> HIDE DEF q
    <3>3. q = <<q[1], q[2]>>
      BY <3>1, <3>2
    <3>4. QED
      BY <3>2, <3>3 DEF q
  <2>4. QED
    BY <1>1, <2>1, <2>2, <2>3
<1>7. CASE (TpmKeys(r) = {} \/ n = Reserve) /\ (CostKeys(r) = {} \/ m = EstCost)
  <2>1. p = <<>>
    BY <1>4, <1>5, <1>6, <1>7
  <2>2. QED
    BY <1>3, <1>7, <2>1, NothingUnsettled
<1>8. CASE ~(TpmKeys(r) = {} \/ n = Reserve) /\ (CostKeys(r) = {} \/ m = EstCost)
  <2>1. p = <<x>>
    BY <1>4, <1>5, <1>6, <1>8
  <2>2. Unsettled(<<x>>, "tpm") = Part(x, "tpm") /\ Unsettled(<<x>>, "cost") = Part(x, "cost")
    BY <1>1, PlanSums
  <2>3. QED
    BY <1>2, <1>3, <1>8, <2>1, <2>2
<1>9. CASE (TpmKeys(r) = {} \/ n = Reserve) /\ ~(CostKeys(r) = {} \/ m = EstCost)
  <2>1. p = <<y>>
    BY <1>4, <1>5, <1>6, <1>9
  <2>2. Unsettled(<<y>>, "tpm") = Part(y, "tpm") /\ Unsettled(<<y>>, "cost") = Part(y, "cost")
    BY <1>1, PlanSums
  <2>3. QED
    BY <1>2, <1>3, <1>9, <2>1, <2>2
<1>10. CASE ~(TpmKeys(r) = {} \/ n = Reserve) /\ ~(CostKeys(r) = {} \/ m = EstCost)
  <2>1. p = <<x, y>> \/ p = <<y, x>>
    BY <1>4, <1>5, <1>6, <1>10
  <2>2. \A kind : /\ Unsettled(<<x, y>>, kind) = Part(x, kind) + Part(y, kind)
                  /\ Unsettled(<<y, x>>, kind) = Part(y, kind) + Part(x, kind)
    BY <1>1, PlanSums
  <2>3. /\ Part(x, "tpm") + Part(y, "tpm") = n - Reserve /\ Part(y, "tpm") + Part(x, "tpm") = n - Reserve
        /\ Part(x, "cost") + Part(y, "cost") = m - EstCost /\ Part(y, "cost") + Part(x, "cost") = m - EstCost
    BY <1>1, <1>2
  <2>4. Unsettled(p, "tpm") = n - Reserve /\ Unsettled(p, "cost") = m - EstCost
    BY <2>1, <2>2, <2>3
  <2>5. QED
    BY <2>4
<1>11. QED
  BY <1>7, <1>8, <1>9, <1>10

\* A reservation that is handed over to its settlement: what remains with the
\* request and what is still to be settled are what was reserved.
LEMMA HandedOver ==
  ASSUME RateShape, BooksShape, NEW r \in Requests, NEW to \in {"unwinding", "finalizing"}, NEW p,
         Settle(r, to, p), NEW n \in Int, NEW m \in Int,
         TpmKeys(r) # {} => Unsettled(p, "tpm") = n - Reserve,
         CostKeys(r) # {} => Unsettled(p, "cost") = m - EstCost,
         \A k \in Keys : leftTokens'[r][k] = leftTokens[r][k] + IF k \in TpmKeys(r) THEN n ELSE 0,
         \A s \in CostScopes : leftCost'[r][s] = leftCost[r][s] + IF s \in CostKeys(r) THEN m ELSE 0
  PROVE  TokensNet(r) /\ CostsNet(r)
<1>1. DOMAIN stage = Requests /\ DOMAIN plan = Requests
  BY DEF RateShape
<1>2. stage[r] = "serving" /\ stage'[r] = to /\ plan'[r] = p /\ turn'[r] = turn[r]
      /\ tpm' = tpm /\ cost' = cost /\ dropped' = dropped
  BY <1>1 DEF Settle, counterVars
<1>3. TpmKeys(r)' = TpmKeys(r) /\ CostKeys(r)' = CostKeys(r)
  BY <1>2, KeysStay
<1>4. ASSUME NEW k \in Keys PROVE TokensOwed(r, k)' = TokensOwed(r, k)
  <2>1. leftTokens[r][k] \in Int
    BY LeftAreInts
  <2>2. TokensOwed(r, k) = leftTokens[r][k] + IF k \in TpmKeys(r) THEN Reserve ELSE 0
    BY <1>2 DEF TokensOwed
  <2>3. TokensOwed(r, k)' = leftTokens'[r][k] + IF k \in TpmKeys(r) THEN -Unsettled(p, "tpm") ELSE 0
    BY <1>2, <1>3 DEF TokensOwed
  <2>4. CASE k \in TpmKeys(r)
    <3>1. TokensOwed(r, k)' = leftTokens[r][k] + n + (-(n - Reserve))
      BY <2>3, <2>4
    <3>2. QED
      BY <2>1, <2>2, <2>4, <3>1, AmountsAreInts
  <2>5. CASE k \notin TpmKeys(r)
    BY <2>1, <2>2, <2>3, <2>5
  <2>6. QED
    BY <2>4, <2>5
<1>5. ASSUME NEW s \in CostScopes PROVE CostOwed(r, s)' = CostOwed(r, s)
  <2>1. leftCost[r][s] \in Int
    BY LeftAreInts
  <2>2. CostOwed(r, s) = leftCost[r][s] + IF s \in CostKeys(r) THEN EstCost ELSE 0
    BY <1>2 DEF CostOwed
  <2>3. CostOwed(r, s)' = leftCost'[r][s] + IF s \in CostKeys(r) THEN -Unsettled(p, "cost") ELSE 0
    BY <1>2, <1>3 DEF CostOwed
  <2>4. CASE s \in CostKeys(r)
    <3>1. CostOwed(r, s)' = leftCost[r][s] + m + (-(m - EstCost))
      BY <2>3, <2>4
    <3>2. QED
      BY <2>1, <2>2, <2>4, <3>1, AmountsAreInts
  <2>5. CASE s \notin CostKeys(r)
    BY <2>1, <2>2, <2>3, <2>5
  <2>6. QED
    BY <2>4, <2>5
<1>6. QED
  BY <1>2, <1>4, <1>5, NothingMoves

LEMMA LeavesAdds ==
  ASSUME BooksShape, NEW r \in Requests, NEW n \in Int, NEW T, NEW m \in Int, NEW S,
         Leaves(r, n, T, m, S)
  PROVE  /\ \A k \in Keys : leftTokens'[r][k] = leftTokens[r][k] + IF k \in T THEN n ELSE 0
         /\ \A s \in CostScopes : leftCost'[r][s] = leftCost[r][s] + IF s \in S THEN m ELSE 0
BY DEF Leaves, BooksShape

LEMMA HandlesNet ==
  ASSUME RateShape, BooksShape, NEW r \in Requests, Handle(r)
  PROVE  TokensNet(r) /\ CostsNet(r)
<1> USE DEF leftVars
<1>1. CASE ProviderFails(r)
  <2> DEFINE p == Settlement(r, "tpm", 0) \o Settlement(r, "cost", 0)
  <2>1. Settle(r, "unwinding", p) /\ leftTokens' = leftTokens /\ leftCost' = leftCost
    BY <1>1 DEF ProviderFails
  <2>2. /\ TpmKeys(r) # {} => Unsettled(p, "tpm") = 0 - Reserve
        /\ CostKeys(r) # {} => Unsettled(p, "cost") = 0 - EstCost
    BY AmountsAreInts, PlannedBoth
  <2>3. /\ \A k \in Keys : leftTokens'[r][k] = leftTokens[r][k] + IF k \in TpmKeys(r) THEN 0 ELSE 0
        /\ \A s \in CostScopes : leftCost'[r][s] = leftCost[r][s] + IF s \in CostKeys(r) THEN 0 ELSE 0
    BY <2>1, LeftAreInts
  <2> HIDE DEF p
  <2>4. QED
    BY <2>1, <2>2, <2>3, AmountsAreInts, HandedOver
<1>2. CASE FinalizeNoUsage(r)
  <2> DEFINE p == Settlement(r, "tpm", 0)
  <2>1. Settle(r, "finalizing", p) /\ Leaves(r, 0, {}, EstCost, CostKeys(r))
    BY <1>2 DEF FinalizeNoUsage
  <2>2. /\ TpmKeys(r) # {} => Unsettled(p, "tpm") = 0 - Reserve
        /\ Unsettled(p, "cost") = EstCost - EstCost
    BY AmountsAreInts, PlannedTokens
  <2>3. \A s \in CostScopes : leftCost'[r][s] = leftCost[r][s] + IF s \in CostKeys(r) THEN EstCost ELSE 0
    BY <2>1 DEF Leaves, BooksShape
  <2>4. \A k \in Keys : leftTokens'[r][k] = leftTokens[r][k] + IF k \in TpmKeys(r) THEN 0 ELSE 0
    BY <2>1 DEF Leaves, BooksShape
  <2> HIDE DEF p
  <2>5. QED
    BY <2>1, <2>2, <2>3, <2>4, AmountsAreInts, HandedOver
<1>3. CASE NoFinalize(r)
  <2>1. Settle(r, "finalizing", <<>>) /\ Leaves(r, Reserve, TpmKeys(r), EstCost, CostKeys(r))
    BY <1>3 DEF NoFinalize
  <2>2. Unsettled(<<>>, "tpm") = Reserve - Reserve /\ Unsettled(<<>>, "cost") = EstCost - EstCost
    BY AmountsAreInts, NothingUnsettled
  <2>3. /\ \A k \in Keys : leftTokens'[r][k] = leftTokens[r][k] + IF k \in TpmKeys(r) THEN Reserve ELSE 0
        /\ \A s \in CostScopes : leftCost'[r][s] = leftCost[r][s] + IF s \in CostKeys(r) THEN EstCost ELSE 0
    BY <2>1, AmountsAreInts, LeavesAdds
  <2>4. QED
    BY <2>1, <2>2, <2>3, AmountsAreInts, HandedOver
<1>4. ASSUME NEW usage \in Usages, Finalize(r, usage) PROVE TokensNet(r) /\ CostsNet(r)
  <2> DEFINE p == Settlement(r, "cost", usage.cost) \o Settlement(r, "tpm", usage.tokens)
  <2>1. usage.tokens \in Int /\ usage.cost \in Int
    BY RateAssumption
  <2>2. Settle(r, "finalizing", p) /\ Leaves(r, usage.tokens, TpmKeys(r), usage.cost, CostKeys(r))
    BY <1>4 DEF Finalize
  <2>3. /\ TpmKeys(r) # {} => Unsettled(p, "tpm") = usage.tokens - Reserve
        /\ CostKeys(r) # {} => Unsettled(p, "cost") = usage.cost - EstCost
    BY <2>1, PlannedBoth
  <2>4. /\ \A k \in Keys : leftTokens'[r][k] = leftTokens[r][k] + IF k \in TpmKeys(r) THEN usage.tokens ELSE 0
        /\ \A s \in CostScopes : leftCost'[r][s] = leftCost[r][s] + IF s \in CostKeys(r) THEN usage.cost ELSE 0
    BY <2>1, <2>2, LeavesAdds
  <2> HIDE DEF p
  <2>5. QED
    BY <2>1, <2>2, <2>3, <2>4, HandedOver
<1>5. QED
  BY <1>1, <1>2, <1>3, <1>4 DEF Handle
---------------------------------------------------------------------------
\* What the TPM script does to the books of its key: rotation moves tokens
\* from the buckets to the discarded ones, a reservation adds to them.
LEMMA TpmRunBooks ==
  ASSUME RateShape, BooksShape, NEW r \in Requests, NEW x \in Keys,
         tpm' = [tpm EXCEPT ![x] = TpmRun(r, x).bucket],
         dropped' = [dropped EXCEPT ![x] = dropped[x] + Held(tpm[x]) - Held(Rotate(tpm[x], at[r], Window))]
  PROVE  /\ \A k \in Keys \ {x} : TokenBooks(k)' = TokenBooks(k)
         /\ TpmRun(r, x).ok => TokenBooks(x)' = TokenBooks(x) + Reserve
         /\ ~TpmRun(r, x).ok => TokenBooks(x)' = TokenBooks(x)
<1>1. DOMAIN tpm = Keys /\ DOMAIN dropped = Keys
  BY DEF RateShape, BooksShape
<1>2. \A k \in Keys \ {x} : TokenBooks(k)' = TokenBooks(k)
  BY <1>1 DEF TokenBooks
<1>3. PICK b : b = Rotate(tpm[x], at[r], Window)
  OBVIOUS
<1>4. tpm[x] \in Buckets /\ b \in Buckets
  BY <1>3, RotateKeepsType DEF RateShape
<1>5. Held(tpm[x]) \in Int /\ Held(b) \in Int /\ dropped[x] \in Int
  BY <1>4, HeldIsInt DEF BooksShape
<1>6. TpmRun(r, x) = IF Estimate(b, Reserve, at[r], Window) > TpmLimit[x] * Window
                     THEN [ok |-> FALSE, bucket |-> b]
                     ELSE [ok |-> TRUE, bucket |-> [b EXCEPT !.cur = b.cur + Reserve]]
  BY <1>3 DEF TpmRun, TpmCheck
<1>7. Held([b EXCEPT !.cur = b.cur + Reserve]) = Held(b) + Reserve
  <2>1. b.cur \in Int /\ b.prev \in Int /\ Reserve \in Int
    BY <1>4, AmountsAreInts DEF Buckets
  <2>2. [b EXCEPT !.cur = b.cur + Reserve].cur = b.cur + Reserve /\ [b EXCEPT !.cur = b.cur + Reserve].prev = b.prev
    BY <1>4 DEF Buckets
  <2>3. QED
    BY <2>1, <2>2 DEF Held
<1>8. tpm'[x] = TpmRun(r, x).bucket /\ dropped'[x] = dropped[x] + Held(tpm[x]) - Held(b)
  BY <1>1, <1>3
<1>9. ASSUME TpmRun(r, x).ok PROVE TokenBooks(x)' = TokenBooks(x) + Reserve
  <2>1. TpmRun(r, x).bucket = [b EXCEPT !.cur = b.cur + Reserve]
    BY <1>6, <1>9
  <2>2. TokenBooks(x)' = Held(tpm'[x]) + dropped'[x]
    BY DEF TokenBooks, Held
  <2>3. TokenBooks(x)' = (Held(b) + Reserve) + (dropped[x] + Held(tpm[x]) - Held(b))
    BY <1>7, <1>8, <2>1, <2>2
  <2>4. QED
    BY <1>5, <2>3, AmountsAreInts DEF TokenBooks
<1>10. ASSUME ~TpmRun(r, x).ok PROVE TokenBooks(x)' = TokenBooks(x)
  <2>1. TpmRun(r, x).bucket = b
    BY <1>6, <1>10
  <2>2. TokenBooks(x)' = Held(tpm'[x]) + dropped'[x]
    BY DEF TokenBooks, Held
  <2>3. TokenBooks(x)' = Held(b) + (dropped[x] + Held(tpm[x]) - Held(b))
    BY <1>8, <2>1, <2>2
  <2>4. QED
    BY <1>5, <2>3 DEF TokenBooks
<1>11. QED
  BY <1>2, <1>9, <1>10

\* What the cost script does to the counters of its scope.
LEMMA CostRunBooks ==
  ASSUME RateShape, BooksShape, NEW r \in Requests, NEW x \in CostScopes,
         cost' = [cost EXCEPT ![x] = CostRun(r, x).used], NEW kind \in {"cpm", "cph"}
  PROVE  /\ \A s \in CostScopes \ {x} : Spent(s, kind)' = Spent(s, kind)
         /\ CostRun(r, x).ok => Spent(x, kind)' = Spent(x, kind) + EstCost
         /\ ~CostRun(r, x).ok => Spent(x, kind)' = Spent(x, kind)
<1>1. DOMAIN cost = CostScopes /\ cost[x] \in [CostWindows -> Int]
  BY DEF BooksShape
<1>2. ASSUME NEW s \in CostScopes \ {x} PROVE Spent(s, kind)' = Spent(s, kind)
  <2>1. cost'[s] = cost[s]
    BY <1>1
  <2>2. QED
    BY <2>1 DEF Spent
<1>3. PICK w : w = Windows(at[r])
  OBVIOUS
<1>4. CostRun(r, x) =
        IF Exceeds(cost[x][w.cpm], EstCost, CpmLimit[x]) \/ Exceeds(cost[x][w.cph], EstCost, CphLimit[x])
        THEN [ok |-> FALSE, used |-> cost[x]]
        ELSE [ok |-> TRUE, used |-> [c \in CostWindows |->
                cost[x][c] + IF c \in {w.cpm, w.cph} THEN EstCost ELSE 0]]
  BY <1>1, <1>3 DEF CostRun, CostCheck
<1>5. cost'[x] = CostRun(r, x).used
  BY <1>1
<1>6. ASSUME CostRun(r, x).ok PROVE Spent(x, kind)' = Spent(x, kind) + EstCost
  <2>1. PICK g : g = [c \in CostWindows |-> cost[x][c] + IF c \in {w.cpm, w.cph} THEN EstCost ELSE 0]
    OBVIOUS
  <2>2. cost'[x] = g
    BY <1>4, <1>5, <1>6, <2>1
  <2>3. g \in [CostWindows -> Int]
    BY <1>1, <2>1, AmountsAreInts
  <2>4. at[r] \in Nat /\ at[r] <= MaxTime
    BY RateAssumption DEF RateShape, BooksShape
  <2>5. \A c \in CostWindows :
          g[c] = cost[x][c] + IF c \in {Windows(at[r]).cpm, Windows(at[r]).cph} THEN EstCost ELSE 0
    BY <1>3, <2>1
  <2>6. PICK f \in [CostWindows -> Int] : f = cost[x]
    BY <1>1
  <2>7. PICK t \in Nat : t = at[r]
    BY <2>4
  <2>8. SumFunctionOnSet(g, OfKind(kind)) = SumFunctionOnSet(f, OfKind(kind)) + EstCost
    <3>1. t <= MaxTime /\ EstCost \in Int
      BY <2>4, <2>7, AmountsAreInts
    <3>2. \A c \in CostWindows : g[c] = f[c] + IF c \in {Windows(t).cpm, Windows(t).cph} THEN EstCost ELSE 0
      BY <2>5, <2>6, <2>7
    <3>3. QED
      BY <2>3, <3>1, <3>2, SpentMoves
  <2>9. Spent(x, kind)' = SumFunctionOnSet(g, OfKind(kind))
    BY <2>2 DEF Spent, OfKind
  <2>10. Spent(x, kind) = SumFunctionOnSet(f, OfKind(kind))
    BY <2>6 DEF Spent, OfKind
  <2>11. QED
    BY <2>8, <2>9, <2>10
<1>7. ASSUME ~CostRun(r, x).ok PROVE Spent(x, kind)' = Spent(x, kind)
  <2>1. cost'[x] = cost[x]
    BY <1>4, <1>5, <1>7
  <2>2. QED
    BY <2>1 DEF Spent
<1>8. QED
  BY <1>2, <1>6, <1>7
---------------------------------------------------------------------------
LEMMA Dismissed ==
  ASSUME RateShape, NEW r \in Requests, Dismiss(r)
  PROVE  stage'[r] \in {"ready", "over"}
BY DEF Dismiss, GoOn, RateShape

\* A script of the RPM check books nothing.
LEMMA RpmEvalNet ==
  ASSUME RateShape, BooksShape, NEW r \in Requests, stage[r] = "rpm",
         EvalAllow(r) \/ EvalReject(r)
  PROVE  TokensNet(r) /\ CostsNet(r)
<1>1. tpm' = tpm /\ cost' = cost /\ dropped' = dropped
  BY DEF EvalAllow, EvalReject, Apply
<1>2. leftTokens' = leftTokens /\ leftCost' = leftCost
  BY DEF EvalAllow, EvalReject, Stranded, leftVars
<1>3. stage'[r] \in {"rpm", "ready", "over"}
  <2>1. stage' = stage \/ Dismiss(r)
    BY DEF EvalAllow, EvalReject
  <2>2. QED
    BY <2>1, Dismissed
<1>4. ASSUME NEW k \in Keys PROVE TokensOwed(r, k)' = TokensOwed(r, k)
  <2>1. leftTokens[r][k] \in Int
    BY LeftAreInts
  <2>2. QED
    BY <1>2, <1>3, <2>1 DEF TokensOwed
<1>5. ASSUME NEW s \in CostScopes PROVE CostOwed(r, s)' = CostOwed(r, s)
  <2>1. leftCost[r][s] \in Int
    BY LeftAreInts
  <2>2. QED
    BY <1>2, <1>3, <2>1 DEF CostOwed
<1>6. QED
  BY <1>1, <1>4, <1>5, NothingMoves

LEMMA NextIsTheirs ==
  ASSUME BooksShape, NEW r \in Requests, Evaluating(r)
  PROVE  /\ Scope(r) \in todo[r]
         /\ stage[r] = "tpm" => Scope(r) \in TpmKeys(r) /\ Scope(r) \in Keys
         /\ stage[r] = "cost" => Scope(r) \in CostKeys(r) /\ Scope(r) \in CostScopes
<1>1. InHand(r) /\ turn[r] \in 1..Len(Chain[r])
  BY DEF BooksShape, InHand
<1>2. Scope(r) \in todo[r]
  BY <1>1, NextScope
<1>3. QED
  BY <1>1, <1>2, KeysAreTheirs DEF InHand

LEMMA TpmAllowNet ==
  ASSUME RateShape, BooksShape, NEW r \in Requests, stage[r] = "tpm", EvalAllow(r)
  PROVE  TokensNet(r) /\ CostsNet(r)
<1> PICK x : x = Scope(r)
  OBVIOUS
<1>1. x \in todo[r] /\ x \in TpmKeys(r) /\ x \in Keys
  BY NextIsTheirs DEF EvalAllow
<1>2. /\ tpm' = [tpm EXCEPT ![x] = TpmRun(r, x).bucket] /\ cost' = cost
      /\ dropped' = [dropped EXCEPT ![x] = dropped[x] + Held(tpm[x]) - Held(Rotate(tpm[x], at[r], Window))]
      /\ TpmRun(r, x).ok
  BY DEF EvalAllow, Apply, Allowed
<1>3. stage' = stage /\ turn' = turn /\ leftTokens' = leftTokens /\ leftCost' = leftCost
  BY DEF EvalAllow, leftVars
<1>4. todo'[r] = todo[r] \ {x}
  BY DEF EvalAllow, BooksShape
<1>5. TpmKeys(r)' = TpmKeys(r)
  BY <1>3, KeysStay
<1>6. /\ \A k \in Keys \ {x} : TokenBooks(k)' = TokenBooks(k)
      /\ TokenBooks(x)' = TokenBooks(x) + Reserve
  BY <1>1, <1>2, TpmRunBooks
<1>7. ASSUME NEW k \in Keys
      PROVE  TokenBooks(k)' = TokenBooks(k) + TokensOwed(r, k)' - TokensOwed(r, k)
  <2>1. leftTokens[r][k] \in Int /\ TokenBooks(k) \in Int /\ Reserve \in Int
    BY LeftAreInts, OwedIsInt, AmountsAreInts
  <2>2. TokensOwed(r, k) = leftTokens[r][k] + IF k \in TpmKeys(r) \ todo[r] THEN Reserve ELSE 0
    BY DEF TokensOwed, Behind
  <2>3. TokensOwed(r, k)' = leftTokens[r][k] + IF k \in TpmKeys(r) \ (todo[r] \ {x}) THEN Reserve ELSE 0
    BY <1>3, <1>4, <1>5 DEF TokensOwed, Behind
  <2>4. CASE k = x
    BY <1>1, <1>6, <2>1, <2>2, <2>3, <2>4
  <2>5. CASE k # x
    <3>1. TokensOwed(r, k)' = TokensOwed(r, k) /\ TokensOwed(r, k) \in Int
      BY <2>2, <2>3, <2>5, OwedIsInt
    <3>2. QED
      BY <1>6, <2>1, <2>5, <3>1
  <2>6. QED
    BY <2>4, <2>5
<1>8. ASSUME NEW s \in CostScopes, NEW kind \in {"cpm", "cph"}
      PROVE  Spent(s, kind)' = Spent(s, kind) + CostOwed(r, s)' - CostOwed(r, s)
  <2>1. Spent(s, kind)' = Spent(s, kind)
    BY <1>2 DEF Spent
  <2>2. CostOwed(r, s)' = CostOwed(r, s)
    BY <1>3 DEF CostOwed
  <2>3. Spent(s, kind) \in Int /\ CostOwed(r, s) \in Int
    BY SpentIsInt, OwedIsInt
  <2>4. QED
    BY <2>1, <2>2, <2>3
<1>9. QED
  BY <1>7, <1>8 DEF TokensNet, CostsNet

\* A rejection leaves what the scopes behind it hold with the request.
LEMMA TpmRejectNet ==
  ASSUME RateShape, BooksShape, NEW r \in Requests, stage[r] = "tpm", EvalReject(r)
  PROVE  TokensNet(r) /\ CostsNet(r)
<1> PICK x : x = Scope(r)
  OBVIOUS
<1>1. x \in Keys
  BY NextIsTheirs DEF EvalReject
<1>2. /\ tpm' = [tpm EXCEPT ![x] = TpmRun(r, x).bucket] /\ cost' = cost
      /\ dropped' = [dropped EXCEPT ![x] = dropped[x] + Held(tpm[x]) - Held(Rotate(tpm[x], at[r], Window))]
      /\ ~TpmRun(r, x).ok
  BY DEF EvalReject, Apply, Allowed
<1>3. stage'[r] \in {"ready", "over"}
  BY Dismissed DEF EvalReject
<1>4. Leaves(r, Reserve, Behind(r, TpmKeys(r)), 0, {})
  BY DEF EvalReject, Stranded
<1>5. \A k \in Keys : TokenBooks(k)' = TokenBooks(k)
  BY <1>1, <1>2, TpmRunBooks
<1>6. ASSUME NEW k \in Keys
      PROVE  TokenBooks(k)' = TokenBooks(k) + TokensOwed(r, k)' - TokensOwed(r, k)
  <2>1. leftTokens[r][k] \in Int /\ TokenBooks(k) \in Int /\ Reserve \in Int
    BY LeftAreInts, OwedIsInt, AmountsAreInts
  <2>2. TokensOwed(r, k) = leftTokens[r][k] + IF k \in Behind(r, TpmKeys(r)) THEN Reserve ELSE 0
    BY DEF TokensOwed
  <2>3. leftTokens'[r][k] = leftTokens[r][k] + IF k \in Behind(r, TpmKeys(r)) THEN Reserve ELSE 0
    BY <1>4 DEF Leaves, BooksShape
  <2>4. TokensOwed(r, k)' = leftTokens'[r][k] + 0
    BY <1>3 DEF TokensOwed
  <2>5. TokensOwed(r, k)' = TokensOwed(r, k) /\ TokensOwed(r, k) \in Int
    BY <2>1, <2>2, <2>3, <2>4
  <2>6. QED
    BY <1>5, <2>1, <2>5
<1>7. ASSUME NEW s \in CostScopes, NEW kind \in {"cpm", "cph"}
      PROVE  Spent(s, kind)' = Spent(s, kind) + CostOwed(r, s)' - CostOwed(r, s)
  <2>1. Spent(s, kind)' = Spent(s, kind)
    BY <1>2 DEF Spent
  <2>2. leftCost[r][s] \in Int
    BY LeftAreInts
  <2>3. leftCost'[r][s] = leftCost[r][s]
    BY <1>4, <2>2 DEF Leaves, BooksShape
  <2>4. CostOwed(r, s)' = CostOwed(r, s)
    BY <1>3, <2>2, <2>3 DEF CostOwed
  <2>5. Spent(s, kind) \in Int /\ CostOwed(r, s) \in Int
    BY SpentIsInt, OwedIsInt
  <2>6. QED
    BY <2>1, <2>4, <2>5
<1>8. QED
  BY <1>6, <1>7 DEF TokensNet, CostsNet

LEMMA CostAllowNet ==
  ASSUME RateShape, BooksShape, NEW r \in Requests, stage[r] = "cost", EvalAllow(r)
  PROVE  TokensNet(r) /\ CostsNet(r)
<1> PICK x : x = Scope(r)
  OBVIOUS
<1>1. x \in todo[r] /\ x \in CostKeys(r) /\ x \in CostScopes
  BY NextIsTheirs DEF EvalAllow
<1>2. cost' = [cost EXCEPT ![x] = CostRun(r, x).used] /\ tpm' = tpm /\ dropped' = dropped /\ CostRun(r, x).ok
  BY DEF EvalAllow, Apply, Allowed
<1>3. stage' = stage /\ turn' = turn /\ leftTokens' = leftTokens /\ leftCost' = leftCost
  BY DEF EvalAllow, leftVars
<1>4. todo'[r] = todo[r] \ {x}
  BY DEF EvalAllow, BooksShape
<1>5. TpmKeys(r)' = TpmKeys(r) /\ CostKeys(r)' = CostKeys(r)
  BY <1>3, KeysStay
<1>6. ASSUME NEW k \in Keys
      PROVE  TokenBooks(k)' = TokenBooks(k) + TokensOwed(r, k)' - TokensOwed(r, k)
  <2>1. TokenBooks(k)' = TokenBooks(k)
    BY <1>2 DEF TokenBooks
  <2>2. TokensOwed(r, k)' = TokensOwed(r, k)
    BY <1>3, <1>5 DEF TokensOwed
  <2>3. TokenBooks(k) \in Int /\ TokensOwed(r, k) \in Int
    BY OwedIsInt
  <2>4. QED
    BY <2>1, <2>2, <2>3
<1>7. ASSUME NEW s \in CostScopes, NEW kind \in {"cpm", "cph"}
      PROVE  Spent(s, kind)' = Spent(s, kind) + CostOwed(r, s)' - CostOwed(r, s)
  <2>1. leftCost[r][s] \in Int /\ Spent(s, kind) \in Int /\ EstCost \in Int
    BY LeftAreInts, SpentIsInt, AmountsAreInts
  <2>2. CostOwed(r, s) = leftCost[r][s] + IF s \in CostKeys(r) \ todo[r] THEN EstCost ELSE 0
    BY DEF CostOwed, Behind
  <2>3. CostOwed(r, s)' = leftCost[r][s] + IF s \in CostKeys(r) \ (todo[r] \ {x}) THEN EstCost ELSE 0
    BY <1>3, <1>4, <1>5 DEF CostOwed, Behind
  <2>4. /\ \A o \in CostScopes \ {x} : Spent(o, kind)' = Spent(o, kind)
        /\ Spent(x, kind)' = Spent(x, kind) + EstCost
    BY <1>1, <1>2, CostRunBooks
  <2>5. CASE s = x
    BY <1>1, <2>1, <2>2, <2>3, <2>4, <2>5
  <2>6. CASE s # x
    <3>1. CostOwed(r, s)' = CostOwed(r, s) /\ CostOwed(r, s) \in Int
      BY <2>2, <2>3, <2>6, OwedIsInt
    <3>2. QED
      BY <2>1, <2>4, <2>6, <3>1
  <2>7. QED
    BY <2>5, <2>6
<1>8. QED
  BY <1>6, <1>7 DEF TokensNet, CostsNet

LEMMA CostRejectNet ==
  ASSUME RateShape, BooksShape, NEW r \in Requests, stage[r] = "cost", EvalReject(r)
  PROVE  TokensNet(r) /\ CostsNet(r)
<1> PICK x : x = Scope(r)
  OBVIOUS
<1>1. x \in CostScopes
  BY NextIsTheirs DEF EvalReject
<1>2. cost' = [cost EXCEPT ![x] = CostRun(r, x).used] /\ tpm' = tpm /\ dropped' = dropped /\ ~CostRun(r, x).ok
  BY DEF EvalReject, Apply, Allowed
<1>3. stage'[r] \in {"ready", "over"}
  BY Dismissed DEF EvalReject
<1>4. Leaves(r, Reserve, TpmKeys(r), EstCost, Behind(r, CostKeys(r)))
  BY DEF EvalReject, Stranded
<1>5. ASSUME NEW k \in Keys
      PROVE  TokenBooks(k)' = TokenBooks(k) + TokensOwed(r, k)' - TokensOwed(r, k)
  <2>1. TokenBooks(k)' = TokenBooks(k)
    BY <1>2 DEF TokenBooks
  <2>2. TokensOwed(r, k) = leftTokens[r][k] + IF k \in TpmKeys(r) THEN Reserve ELSE 0
    BY DEF TokensOwed
  <2>3. leftTokens'[r][k] = leftTokens[r][k] + IF k \in TpmKeys(r) THEN Reserve ELSE 0
    BY <1>4 DEF Leaves, BooksShape
  <2>4. TokensOwed(r, k)' = leftTokens'[r][k] + 0
    BY <1>3 DEF TokensOwed
  <2>5. TokensOwed(r, k) \in Int /\ TokenBooks(k) \in Int
    BY OwedIsInt
  <2>6. TokensOwed(r, k)' = TokensOwed(r, k)
    BY <2>2, <2>3, <2>4, <2>5
  <2>7. QED
    BY <2>1, <2>5, <2>6
<1>6. ASSUME NEW s \in CostScopes, NEW kind \in {"cpm", "cph"}
      PROVE  Spent(s, kind)' = Spent(s, kind) + CostOwed(r, s)' - CostOwed(r, s)
  <2>1. \A o \in CostScopes : Spent(o, kind)' = Spent(o, kind)
    BY <1>1, <1>2, CostRunBooks
  <2>2. CostOwed(r, s) = leftCost[r][s] + IF s \in Behind(r, CostKeys(r)) THEN EstCost ELSE 0
    BY DEF CostOwed
  <2>3. leftCost'[r][s] = leftCost[r][s] + IF s \in Behind(r, CostKeys(r)) THEN EstCost ELSE 0
    BY <1>4 DEF Leaves, BooksShape
  <2>4. CostOwed(r, s)' = leftCost'[r][s] + 0
    BY <1>3 DEF CostOwed
  <2>5. CostOwed(r, s) \in Int /\ Spent(s, kind) \in Int
    BY OwedIsInt, SpentIsInt
  <2>6. CostOwed(r, s)' = CostOwed(r, s)
    BY <2>2, <2>3, <2>4, <2>5
  <2>7. QED
    BY <2>1, <2>5, <2>6
<1>7. QED
  BY <1>5, <1>6 DEF TokensNet, CostsNet

\* A settlement moves the counters by what it takes from the pending amounts.
LEMMA SettleNet ==
  ASSUME RateShape, BooksShape, NEW r \in Requests, SettleOk(r)
  PROVE  TokensNet(r) /\ CostsNet(r)
<1>1. /\ Settling(r) /\ plan[r] \in Seq(Amounts) /\ plan[r] # <<>> /\ Len(plan[r]) <= 2
      /\ DOMAIN plan = Requests
  BY DEF SettleOk, Settling, RateShape, BooksShape, InHand
<1>2. PICK a : a = plan[r][1]
  OBVIOUS
<1>3. a \in Amounts /\ a[1] \in {"tpm", "cost"} /\ a[2] \in Int
  BY <1>1, <1>2, PlannedAmount
<1>4. stage' = stage /\ turn' = turn /\ leftTokens' = leftTokens /\ leftCost' = leftCost /\ dropped' = dropped
      /\ plan'[r] = Tail(plan[r])
  BY <1>1 DEF SettleOk, leftVars
<1>5. TpmKeys(r)' = TpmKeys(r) /\ CostKeys(r)' = CostKeys(r)
  BY <1>4, KeysStay
<1>6. PICK p : p = plan[r]
  OBVIOUS
<1>7. /\ Unsettled(p, "tpm") \in Int /\ Unsettled(p, "cost") \in Int
      /\ Unsettled(p, "tpm") = Part(a, "tpm") + Unsettled(Tail(p), "tpm")
      /\ Unsettled(p, "cost") = Part(a, "cost") + Unsettled(Tail(p), "cost")
  BY <1>1, <1>2, <1>6, PlanStep
<1>8. Unsettled(Tail(p), "tpm") \in Int /\ Unsettled(Tail(p), "cost") \in Int
  <2>1. Tail(p) \in Seq(Amounts) /\ Len(Tail(p)) <= 2
    BY <1>1, <1>6
  <2>2. QED
    BY <2>1, PlanStep
<1>9. stage[r] \in {"unwinding", "finalizing"}
  BY <1>1 DEF Settling
<1>10. ASSUME NEW k \in Keys
       PROVE  TokensOwed(r, k)' = TokensOwed(r, k) + IF k \in TpmKeys(r) THEN Part(a, "tpm") ELSE 0
  <2>1. leftTokens[r][k] \in Int /\ Part(a, "tpm") \in Int
    BY <1>3, LeftAreInts DEF Part
  <2>2. TokensOwed(r, k) = leftTokens[r][k] + IF k \in TpmKeys(r) THEN -Unsettled(p, "tpm") ELSE 0
    BY <1>6, <1>9 DEF TokensOwed
  <2>3. TokensOwed(r, k)' = leftTokens[r][k] + IF k \in TpmKeys(r) THEN -Unsettled(Tail(p), "tpm") ELSE 0
    BY <1>4, <1>5, <1>6, <1>9 DEF TokensOwed
  <2>4. QED
    BY <1>7, <1>8, <2>1, <2>2, <2>3
<1>11. ASSUME NEW s \in CostScopes
       PROVE  CostOwed(r, s)' = CostOwed(r, s) + IF s \in CostKeys(r) THEN Part(a, "cost") ELSE 0
  <2>1. leftCost[r][s] \in Int /\ Part(a, "cost") \in Int
    BY <1>3, LeftAreInts DEF Part
  <2>2. CostOwed(r, s) = leftCost[r][s] + IF s \in CostKeys(r) THEN -Unsettled(p, "cost") ELSE 0
    BY <1>6, <1>9 DEF CostOwed
  <2>3. CostOwed(r, s)' = leftCost[r][s] + IF s \in CostKeys(r) THEN -Unsettled(Tail(p), "cost") ELSE 0
    BY <1>4, <1>5, <1>6, <1>9 DEF CostOwed
  <2>4. QED
    BY <1>7, <1>8, <2>1, <2>2, <2>3
<1>12. CASE a[1] = "tpm"
  <2>1. AdjustTokens(TpmKeys(r), a[2])
    BY <1>2, <1>12 DEF SettleOk, Adjust, Booked
  <2>2. Part(a, "tpm") = a[2] /\ Part(a, "cost") = 0
    BY <1>12 DEF Part
  <2>3. ASSUME NEW k \in Keys
        PROVE  TokenBooks(k)' = TokenBooks(k) + TokensOwed(r, k)' - TokensOwed(r, k)
    <3>1. tpm[k] \in Buckets /\ tpm'[k] = IF k \in TpmKeys(r) THEN [tpm[k] EXCEPT !.cur = tpm[k].cur + a[2]] ELSE tpm[k]
      BY <2>1 DEF AdjustTokens, RateShape
    <3>2. tpm[k].cur \in Int /\ tpm[k].prev \in Int /\ dropped[k] \in Int
      BY <3>1 DEF Buckets, BooksShape
    <3>3. tpm'[k].cur = tpm[k].cur + (IF k \in TpmKeys(r) THEN a[2] ELSE 0) /\ tpm'[k].prev = tpm[k].prev
      BY <3>1, <3>2 DEF Buckets
    <3>4. TokenBooks(k) = (tpm[k].cur + tpm[k].prev) + dropped[k]
      BY DEF TokenBooks, Held
    <3>5. TokenBooks(k)' = (tpm'[k].cur + tpm'[k].prev) + dropped[k]
      BY <1>4 DEF TokenBooks, Held
    <3>6. TokensOwed(r, k)' = TokensOwed(r, k) + (IF k \in TpmKeys(r) THEN a[2] ELSE 0) /\ TokensOwed(r, k) \in Int
      BY <1>10, <2>2, OwedIsInt
    <3>7. QED
      BY <1>3, <3>2, <3>3, <3>4, <3>5, <3>6
  <2>4. ASSUME NEW s \in CostScopes, NEW kind \in {"cpm", "cph"}
        PROVE  Spent(s, kind)' = Spent(s, kind) + CostOwed(r, s)' - CostOwed(r, s)
    <3>1. Spent(s, kind)' = Spent(s, kind)
      BY <2>1 DEF AdjustTokens, Spent
    <3>2. Spent(s, kind) \in Int /\ CostOwed(r, s) \in Int
      BY SpentIsInt, OwedIsInt
    <3>3. CostOwed(r, s)' = CostOwed(r, s)
      BY <1>11, <2>2, <3>2
    <3>4. QED
      BY <3>1, <3>2, <3>3
  <2>5. QED
    BY <2>3, <2>4 DEF TokensNet, CostsNet
<1>13. CASE a[1] = "cost"
  <2>1. AdjustCost(ToSet(Payers[r]), a[2])
    BY <1>2, <1>13 DEF SettleOk, Adjust, Booked
  <2>2. Part(a, "cost") = a[2] /\ Part(a, "tpm") = 0
    BY <1>13 DEF Part
  <2>3. ASSUME NEW k \in Keys
        PROVE  TokenBooks(k)' = TokenBooks(k) + TokensOwed(r, k)' - TokensOwed(r, k)
    <3>1. TokenBooks(k)' = TokenBooks(k)
      BY <1>4, <2>1 DEF AdjustCost, TokenBooks
    <3>2. TokenBooks(k) \in Int /\ TokensOwed(r, k) \in Int
      BY OwedIsInt
    <3>3. TokensOwed(r, k)' = TokensOwed(r, k)
      BY <1>10, <2>2, <3>2
    <3>4. QED
      BY <3>1, <3>2, <3>3
  <2>4. ASSUME NEW s \in CostScopes, PayerLimited(s), NEW kind \in {"cpm", "cph"}
        PROVE  Spent(s, kind)' = Spent(s, kind) + CostOwed(r, s)' - CostOwed(r, s)
    <3>1. s \in CostKeys(r) <=> s \in ToSet(Payers[r])
      BY <2>4 DEF CostKeys
    <3>2. PICK n \in Int : n = IF s \in CostKeys(r) THEN a[2] ELSE 0
      BY <1>3
    <3>3. CostOwed(r, s)' = CostOwed(r, s) + n /\ CostOwed(r, s) \in Int /\ Spent(s, kind) \in Int
      BY <1>11, <2>2, <3>2, OwedIsInt, SpentIsInt
    <3>4. PICK f \in [CostWindows -> Int] : f = cost[s]
      BY DEF BooksShape
    <3>5. cost'[s] = [c \in CostWindows |-> cost[s][c] +
                        IF s \in ToSet(Payers[r]) /\ c \in {Windows(now).cpm, Windows(now).cph} THEN a[2] ELSE 0]
      BY <2>1 DEF AdjustCost
    <3>6. PICK t \in Nat : t = now /\ t <= MaxTime
      BY DEF RateShape, BooksShape
    <3>7. PICK g : g = [c \in CostWindows |-> f[c] + IF c \in {Windows(t).cpm, Windows(t).cph} THEN n ELSE 0]
      OBVIOUS
    <3>8. g \in [CostWindows -> Int]
      BY <3>7
    <3>9. cost'[s] = g
      <4>1. CASE s \in ToSet(Payers[r])
        <5>1. n = a[2]
          BY <3>1, <3>2, <4>1
        <5>2. QED
          BY <3>4, <3>5, <3>6, <3>7, <4>1, <5>1
      <4>2. CASE s \notin ToSet(Payers[r])
        <5>1. n = 0
          BY <3>1, <3>2, <4>2
        <5>2. cost'[s] = [c \in CostWindows |-> f[c] + 0]
          BY <3>4, <3>5, <4>2
        <5>3. g = [c \in CostWindows |-> f[c] + 0]
          BY <3>7, <5>1
        <5>4. QED
          BY <5>2, <5>3
      <4>3. QED
        BY <4>1, <4>2
    <3>10. \A c \in CostWindows : g[c] = f[c] + IF c \in {Windows(t).cpm, Windows(t).cph} THEN n ELSE 0
      BY <3>7
    <3>11. SumFunctionOnSet(g, OfKind(kind)) = SumFunctionOnSet(f, OfKind(kind)) + n
      BY <3>6, <3>8, <3>10, SpentMoves
    <3>12. Spent(s, kind)' = SumFunctionOnSet(g, OfKind(kind)) /\ Spent(s, kind) = SumFunctionOnSet(f, OfKind(kind))
      BY <3>4, <3>9 DEF Spent, OfKind
    <3>13. QED
      BY <3>3, <3>11, <3>12
  <2>5. QED
    BY <2>3, <2>4 DEF TokensNet, CostsNet
<1>14. QED
  BY <1>3, <1>12, <1>13
---------------------------------------------------------------------------
LEMMA StepNet ==
  ASSUME RateShape, BooksShape, NEW r \in Requests, Step(r), faults' = 0
  PROVE  TokensNet(r) /\ CostsNet(r)
<1>1. ~EvalFail(r) /\ ~SettleFail(r)
  BY FaultsCount
<1>2. ASSUME EvalAllow(r) \/ EvalReject(r) PROVE TokensNet(r) /\ CostsNet(r)
  <2>1. stage[r] \in {"rpm", "tpm", "cost"}
    BY <1>2 DEF EvalAllow, EvalReject, Evaluating
  <2>2. QED
    BY <1>2, <2>1, RpmEvalNet, TpmAllowNet, TpmRejectNet, CostAllowNet, CostRejectNet
<1>3. CASE Pass(r) \/ BeginRpm(r) \/ EndCheck(r) \/ EndSettle(r)
  BY <1>3, ProceedsNet
<1>4. CASE Handle(r)
  BY <1>4, HandlesNet
<1>5. CASE SettleOk(r)
  BY <1>5, SettleNet
<1>6. QED
  BY <1>1, <1>2, <1>3, <1>4, <1>5 DEF Step

\* The other requests' shares do not move.
LEMMA OthersOwe ==
  ASSUME NEW r \in Requests, OthersRest(r), NEW q \in Requests \ {r}
  PROVE  /\ \A k \in Keys : TokensOwed(q, k)' = TokensOwed(q, k)
         /\ \A s \in CostScopes : CostOwed(q, s)' = CostOwed(q, s)
<1>1. stage'[q] = stage[q] /\ turn'[q] = turn[q] /\ todo'[q] = todo[q] /\ plan'[q] = plan[q]
      /\ leftTokens'[q] = leftTokens[q] /\ leftCost'[q] = leftCost[q]
  BY DEF OthersRest
<1>2. TpmKeys(q)' = TpmKeys(q) /\ CostKeys(q)' = CostKeys(q)
  BY <1>1, KeysStay
<1>3. Unsettled(plan[q], "tpm")' = Unsettled(plan[q], "tpm") /\ Unsettled(plan[q], "cost")' = Unsettled(plan[q], "cost")
  BY <1>1 DEF Unsettled
<1>4. Behind(q, TpmKeys(q))' = Behind(q, TpmKeys(q)) /\ Behind(q, CostKeys(q))' = Behind(q, CostKeys(q))
  BY <1>1, <1>2 DEF Behind
<1>5. QED
  BY <1>1, <1>2, <1>3, <1>4 DEF TokensOwed, CostOwed

OwedInInts ==
  \A q \in Requests : /\ \A k \in Keys : TokensOwed(q, k) \in Int
                     /\ \A s \in CostScopes : CostOwed(q, s) \in Int

LEMMA SharesAreInts == RateShape /\ BooksShape => OwedInInts
BY OwedIsInt DEF OwedInInts

\* One request's share moves, and the sum with it.
LEMMA SumMoves ==
  ASSUME NEW r \in Requests, NEW f, NEW g,
         \A q \in Requests : f[q] \in Int /\ g[q] \in Int,
         \A q \in Requests \ {r} : g[q] = f[q],
         NEW b \in Int, NEW c \in Int, b = SumFunctionOnSet(f, Requests), c = b + g[r] - f[r]
  PROVE  c = SumFunctionOnSet(g, Requests)
<1>1. IsFiniteSet(Requests)
  BY RateAssumption
<1>2. SumFunctionOnSet(g, Requests) = SumFunctionOnSet(f, Requests) - f[r] + g[r]
  BY <1>1, SumChanges
<1>3. f[r] \in Int /\ g[r] \in Int
  OBVIOUS
<1>4. QED
  BY <1>2, <1>3

LEMMA StepBalances ==
  ASSUME RateShape, BooksShape, RateShape', BooksShape', NEW r \in Requests, Step(r), OthersRest(r),
         faults' = 0, TokensBalance, CostsBalance
  PROVE  TokensBalance' /\ CostsBalance'
<1>1. TokensNet(r) /\ CostsNet(r)
  BY StepNet
<1>2. OwedInInts
  BY SharesAreInts
<1>3. OwedInInts'
  BY SharesAreInts, PTL
<1>4. ASSUME NEW k \in Keys
      PROVE  (TokenBooks(k) = SumFunctionOnSet([q \in Requests |-> TokensOwed(q, k)], Requests))'
  <2>1. PICK f : f = [q \in Requests |-> TokensOwed(q, k)]
    OBVIOUS
  <2>2. PICK g : g = [q \in Requests |-> TokensOwed(q, k)']
    OBVIOUS
  <2>3. PICK b \in Int : b = TokenBooks(k)
    BY OwedIsInt
  <2>4. PICK c : c = TokenBooks(k)'
    OBVIOUS
  <2>5. /\ \A q \in Requests : f[q] \in Int /\ g[q] \in Int
        /\ \A q \in Requests \ {r} : g[q] = f[q]
    BY <1>2, <1>3, <2>1, <2>2, OthersOwe DEF OwedInInts
  <2>6. b = SumFunctionOnSet(f, Requests)
    BY <2>1, <2>3 DEF TokensBalance, TokenBooks
  <2>7. c = b + g[r] - f[r]
    BY <1>1, <2>1, <2>2, <2>3, <2>4 DEF TokensNet
  <2>8. c \in Int
    BY <2>5, <2>7
  <2>9. c = SumFunctionOnSet(g, Requests)
    BY <2>5, <2>6, <2>7, <2>8, SumMoves
  <2>10. QED
    BY <2>2, <2>4, <2>9
<1>5. ASSUME NEW s \in CostScopes, PayerLimited(s), NEW kind \in {"cpm", "cph"}
      PROVE  (Spent(s, kind) = SumFunctionOnSet([q \in Requests |-> CostOwed(q, s)], Requests))'
  <2>1. PICK f : f = [q \in Requests |-> CostOwed(q, s)]
    OBVIOUS
  <2>2. PICK g : g = [q \in Requests |-> CostOwed(q, s)']
    OBVIOUS
  <2>3. PICK b \in Int : b = Spent(s, kind)
    BY SpentIsInt
  <2>4. PICK c : c = Spent(s, kind)'
    OBVIOUS
  <2>5. /\ \A q \in Requests : f[q] \in Int /\ g[q] \in Int
        /\ \A q \in Requests \ {r} : g[q] = f[q]
    BY <1>2, <1>3, <2>1, <2>2, OthersOwe DEF OwedInInts
  <2>6. b = SumFunctionOnSet(f, Requests)
    BY <1>5, <2>1, <2>3 DEF CostsBalance
  <2>7. c = b + g[r] - f[r]
    BY <1>1, <1>5, <2>1, <2>2, <2>3, <2>4 DEF CostsNet
  <2>8. c \in Int
    BY <2>5, <2>7
  <2>9. c = SumFunctionOnSet(g, Requests)
    BY <2>5, <2>6, <2>7, <2>8, SumMoves
  <2>10. QED
    BY <2>2, <2>4, <2>9
<1>6. TokensBalance'
  BY <1>4 DEF TokensBalance, TokenBooks
<1>7. CostsBalance'
  BY <1>5 DEF CostsBalance, PayerLimited
<1>8. QED
  BY <1>6, <1>7
---------------------------------------------------------------------------
LEMMA SumOfZeros ==
  ASSUME NEW S, IsFiniteSet(S), NEW f, \A x \in S : f[x] = 0
  PROVE  SumFunctionOnSet(f, S) = 0
<1>1. \A x \in S : f[x] \in Nat /\ f[x] <= 0
  OBVIOUS
<1>2. SumFunctionOnSet(f, S) <= Cardinality(S) * 0 /\ SumFunctionOnSet(f, S) \in Nat
  BY <1>1, SumBounded, SumIsNat
<1>3. Cardinality(S) \in Nat
  BY FS_CardinalityType
<1>4. Cardinality(S) * 0 = 0
  BY <1>3
<1>5. QED
  BY <1>2, <1>4

LEMMA InitBooks == RateInit => BooksInv
<1> SUFFICES ASSUME RateInit PROVE BooksInv
  OBVIOUS
<1>1. \A r \in Requests : Chain[r] \in Seq(Seq(Keys) \ {<<>>}) /\ Chain[r] # <<>>
  BY RateAssumption
<1>2. \A r \in Requests : InHand(r)
  BY <1>1 DEF RateInit, InHand
<1>3. BooksShape
  <2>1. now <= MaxTime
    BY RateAssumption DEF RateInit
  <2>2. QED
    BY <1>2, <2>1 DEF RateInit, BooksShape
<1>4. ASSUME NEW k \in Keys
      PROVE  Held(tpm[k]) + dropped[k] = SumFunctionOnSet([r \in Requests |-> TokensOwed(r, k)], Requests)
  <2>1. PICK f : f = [r \in Requests |-> TokensOwed(r, k)]
    OBVIOUS
  <2>2. \A r \in Requests : f[r] = 0
    BY <2>1 DEF RateInit, TokensOwed
  <2>3. SumFunctionOnSet(f, Requests) = 0
    BY <2>2, SumOfZeros, RateAssumption
  <2>4. Held(tpm[k]) + dropped[k] = 0
    BY DEF RateInit, Held
  <2>5. QED
    BY <2>1, <2>3, <2>4
<1>5. ASSUME NEW s \in CostScopes, NEW kind
      PROVE  Spent(s, kind) = SumFunctionOnSet([r \in Requests |-> CostOwed(r, s)], Requests)
  <2>1. PICK f : f = [r \in Requests |-> CostOwed(r, s)]
    OBVIOUS
  <2>2. \A r \in Requests : f[r] = 0
    BY <2>1 DEF RateInit, CostOwed
  <2>3. SumFunctionOnSet(f, Requests) = 0
    BY <2>2, SumOfZeros, RateAssumption
  <2>4. \A c \in OfKind(kind) : cost[s][c] = 0
    BY DEF RateInit, OfKind
  <2>5. SumFunctionOnSet(cost[s], OfKind(kind)) = 0
    BY <2>4, WindowsAreFinite, SumOfZeros
  <2>6. QED
    BY <2>1, <2>3, <2>5 DEF Spent, OfKind
<1>6. QED
  BY <1>3, <1>4, <1>5 DEF BooksInv, BooksBalance, TokensBalance, CostsBalance

LEMMA TickKeepsBooks == BooksInv /\ RateShape /\ Tick => BooksInv'
<1> SUFFICES ASSUME BooksInv, RateShape, Tick PROVE BooksInv'
  OBVIOUS
<1>1. /\ rpm' = rpm /\ tpm' = tpm /\ cost' = cost /\ dropped' = dropped /\ stage' = stage /\ turn' = turn
      /\ todo' = todo /\ plan' = plan /\ faults' = faults /\ leftTokens' = leftTokens /\ leftCost' = leftCost
  BY DEF Tick, counterVars, reqVars, leftVars
<1>2. now' <= MaxTime
  BY RateAssumption DEF Tick, RateShape
<1>3. ASSUME NEW r \in Requests PROVE InHand(r)'
  <2>1. InHand(r)
    BY DEF BooksInv, BooksShape
  <2>2. TpmKeys(r)' = TpmKeys(r) /\ RpmKeys(r)' = RpmKeys(r) /\ CostKeys(r)' = CostKeys(r)
    BY <1>1, KeysStay
  <2>3. QED
    BY <1>1, <2>1, <2>2 DEF InHand
<1>4. BooksShape'
  BY <1>1, <1>2, <1>3 DEF BooksInv, BooksShape
<1>5. ASSUME NEW r \in Requests
      PROVE  /\ \A k \in Keys : TokensOwed(r, k)' = TokensOwed(r, k)
             /\ \A s \in CostScopes : CostOwed(r, s)' = CostOwed(r, s)
  <2>1. TpmKeys(r)' = TpmKeys(r) /\ CostKeys(r)' = CostKeys(r)
    BY <1>1, KeysStay
  <2>2. QED
    BY <1>1, <2>1 DEF TokensOwed, CostOwed, Behind, Unsettled
<1>6. TokensBalance => TokensBalance'
  BY <1>1, <1>5 DEF TokensBalance
<1>7. CostsBalance => CostsBalance'
  BY <1>1, <1>5 DEF CostsBalance, Spent, PayerLimited
<1>8. QED
  BY <1>1, <1>4, <1>6, <1>7 DEF BooksInv, BooksBalance

LEMMA BooksNext == RateInv /\ RateInv' /\ BooksInv /\ [RateNext]_vars => BooksInv'
<1> SUFFICES ASSUME RateInv, RateInv', BooksInv, [RateNext]_vars PROVE BooksInv'
  OBVIOUS
<1>1. RateShape /\ RateShape' /\ BooksShape
  BY DEF RateInv, BooksInv
<1>2. CASE Tick
  BY <1>1, <1>2, TickKeepsBooks
<1>3. ASSUME NEW r \in Requests, Step(r) PROVE BooksInv'
  <2>1. BooksShape' /\ OthersRest(r)
    BY <1>1, <1>3, ShapeKept
  <2>2. ASSUME faults' = 0 PROVE TokensBalance' /\ CostsBalance'
    <3>1. faults = 0
      BY <1>1, <1>3, <2>2, FaultsCount
    <3>2. TokensBalance /\ CostsBalance
      BY <3>1 DEF BooksInv, BooksBalance
    <3>3. QED
      BY <1>1, <1>3, <2>1, <2>2, <3>2, StepBalances
  <2>3. QED
    BY <2>1, <2>2 DEF BooksInv, BooksBalance
<1>4. CASE UNCHANGED vars
  <2>1. /\ rpm' = rpm /\ tpm' = tpm /\ cost' = cost /\ dropped' = dropped /\ stage' = stage /\ turn' = turn
        /\ todo' = todo /\ plan' = plan /\ faults' = faults /\ leftTokens' = leftTokens /\ leftCost' = leftCost
        /\ now' = now
    BY <1>4 DEF vars, counterVars, reqVars, leftVars
  <2>2. ASSUME NEW r \in Requests
        PROVE  /\ InHand(r)'
               /\ \A k \in Keys : TokensOwed(r, k)' = TokensOwed(r, k)
               /\ \A s \in CostScopes : CostOwed(r, s)' = CostOwed(r, s)
    <3>1. TpmKeys(r)' = TpmKeys(r) /\ RpmKeys(r)' = RpmKeys(r) /\ CostKeys(r)' = CostKeys(r)
      BY <2>1, KeysStay
    <3>2. InHand(r)
      BY <1>1 DEF BooksShape
    <3>3. InHand(r)'
      BY <2>1, <3>1, <3>2 DEF InHand
    <3>4. QED
      BY <2>1, <3>1, <3>3 DEF TokensOwed, CostOwed, Behind, Unsettled
  <2>3. BooksShape'
    BY <1>1, <2>1, <2>2 DEF BooksShape
  <2>4. (TokensBalance => TokensBalance') /\ (CostsBalance => CostsBalance')
    BY <2>1, <2>2 DEF TokensBalance, CostsBalance, Spent, PayerLimited
  <2>5. QED
    BY <2>1, <2>3, <2>4 DEF BooksInv, BooksBalance
<1>5. QED
  BY <1>2, <1>3, <1>4 DEF RateNext

(* As long as Redis answers, the books balance: the tokens in the buckets,  *)
(* and those that rotation discarded, are what the requests owe, and so are *)
(* the cost counters of every limited user and team.                        *)
THEOREM BooksAlwaysBalance == RateSpec => []BooksBalance
<1>1. BooksInv => BooksBalance
  BY DEF BooksInv
<1>2. QED
  BY InitBooks, BooksNext, RatesAlways, <1>1, PTL DEF RateSpec
---------------------------------------------------------------------------
(***************************************************************************)
(* The credential brokers.                                                 *)
(***************************************************************************)
Credentials == [born : Int, dies : Int, ext : Exts]
Places == [role : Roles, region : Regions]
Slots == [at : {"idle", "bearer", "assume", "own", "mint", "client", "assumeClient",
                "build", "served", "inAccount"},
          via : {"mantle", "native", "bedrock"},
          profile : Profiles \cup {NoCreds}, since : Nat,
          using : Credentials \cup {NoCreds}, got : Places \cup {Here}, when : Nat]

CredTypeOK ==
  /\ clock \in Nat
  /\ creds \in [Roles -> Credentials \cup {NoCreds}]
  /\ bearers \in [Roles \X Regions ->
                    [from : Credentials, until : Int, role : Roles, region : Regions]
                      \cup {NoCreds}]
  /\ clients \in [Roles \X Regions \X Exts ->
                    [from : Credentials, role : Roles, region : Regions] \cup {NoCreds}]
  /\ holder \in [{"mantle", "native"} -> Adapters \cup {NoCreds}]
  /\ use \in [Adapters -> Slots]

(* A bearer in the cache is filed under its account and region, and is no longer
   given out once what signed it is dead: the role's, whose end the broker knows,
   or the pod's own if they live for a bearer's term. *)
BearersGood ==
  \A role \in Roles, region \in Regions :
    LET b == bearers[<<role, region>>] IN
    b # NoCreds =>
      /\ b.role = role /\ b.region = region
      /\ role # InAccount => b.until <= b.from.dies
      /\ role = InAccount /\ b.from.dies - b.from.born >= BearerTTL => b.until <= b.from.dies

ClientsGood ==
  \A role \in Roles, region \in Regions, ext \in Exts :
    LET c == clients[<<role, region, ext>>] IN
    c # NoCreds => c.role = role /\ c.region = region /\ c.from.ext = ext

(* Where a request stands, and what it must by then have. *)
InMantle(q) == use[q].at \in {"assume", "own", "mint"}
InNative(q) == use[q].at \in {"assumeClient", "build"}

SlotPlace(q) ==
  LET c == use[q] IN
  /\ c.since <= clock
  /\ c.at # "idle" => c.profile \in Profiles
  /\ InMantle(q) => holder["mantle"] = q
  /\ InNative(q) => holder["native"] = q
  /\ c.at \in {"bearer", "assume", "own", "mint"} => c.via = "mantle"
  /\ c.at = "assume" => c.profile.role # InAccount
  /\ c.at = "own" => c.profile.role = InAccount

SlotMints(q) ==
  LET c == use[q] IN
  c.at = "mint" =>
    /\ c.using \in Credentials
    /\ c.profile.role # InAccount =>
         creds[c.profile.role] = c.using /\ c.using.dies > c.since + RefreshSkew
    /\ c.profile.role = InAccount => c.using.born >= c.since

SlotBuilds(q) ==
  LET c == use[q] IN
  c.at = "build" =>
    /\ c.using \in Credentials /\ c.using.ext = c.profile.ext
    /\ c.using.dies > c.since + RefreshSkew

SlotServed(q) ==
  use[q].at = "served" =>
    use[q].using \in Credentials /\ DeadHasCause(q) /\ OfItsProfile(q)

CredInv ==
  /\ CredTypeOK /\ BearersGood /\ ClientsGood
  /\ \A q \in Adapters : SlotPlace(q) /\ SlotMints(q) /\ SlotBuilds(q) /\ SlotServed(q)

-----------------------------------------------------------------------------
(* The ranges of the constants, and of what is read off a profile. *)
LEMMA Ranges ==
  /\ AssumeDuration \in Nat /\ RefreshSkew \in Nat /\ BearerTTL \in Nat /\ BearerSkew \in Nat
  /\ RefreshSkew < BearerTTL /\ BearerTTL < AssumeDuration
  /\ \A life \in OwnLives : life \in Nat
  /\ Adapters \subseteq Nat /\ NoCreds \notin Adapters
  /\ \A p \in Profiles : p.role \in Roles /\ p.region \in Regions /\ p.ext \in Exts
<1>1. \A p \in Profiles : p.role \in Roles /\ p.region \in Regions /\ p.ext \in Exts
  BY DEF Roles, Regions, Exts
<1>2. Adapters \subseteq Nat /\ NoCreds \notin Adapters
  BY CredentialAssumption DEF Adapters
<1> QED
  BY <1>1, <1>2, CredentialAssumption

LEMMA CredInitInv == CredentialsInit => CredInv
<1> SUFFICES ASSUME CredentialsInit PROVE CredInv
  OBVIOUS
<1>1. NoUse \in Slots
  BY DEF NoUse, Slots
<1>2. CredTypeOK
  BY <1>1 DEF CredentialsInit, CredTypeOK
<1>3. BearersGood
  BY DEF CredentialsInit, BearersGood
<1>4. ClientsGood
  BY DEF CredentialsInit, ClientsGood
<1>5. \A q \in Adapters : use[q].at = "idle" /\ use[q].since = 0 /\ clock = 0
  BY DEF CredentialsInit, NoUse
<1> QED
  BY <1>2, <1>3, <1>4, <1>5 DEF CredInv, SlotPlace, SlotMints, SlotBuilds, SlotServed,
     InMantle, InNative

(* A request that does not move keeps what it has: only the holder of a lock
   gives it back, and only the holder of the broker's assumes a role. *)
LEMMA OthersKeep ==
  ASSUME CredInv, NEW q \in Adapters, NEW p \in Adapters, p # q,
         use'[p] = use[p], clock' = clock,
         \A b \in {"mantle", "native"} :
           holder'[b] = holder[b] \/ holder[b] \in {NoCreds, q},
         creds' = creds \/ holder["mantle"] = q
  PROVE  SlotPlace(p)' /\ SlotMints(p)' /\ SlotBuilds(p)' /\ SlotServed(p)'
<1>1. NoCreds # p
  BY Ranges
<1>2. InMantle(p) => holder'["mantle"] = p /\ creds' = creds
  BY <1>1 DEF CredInv, SlotPlace
<1>3. InNative(p) => holder'["native"] = p
  BY <1>1 DEF CredInv, SlotPlace
<1>4. SlotPlace(p)'
  BY <1>2, <1>3 DEF CredInv, SlotPlace, InMantle, InNative
<1>5. SlotMints(p)'
  BY <1>2 DEF CredInv, SlotMints, InMantle
<1>6. SlotBuilds(p)'
  BY DEF CredInv, SlotBuilds
<1>7. SlotServed(p)'
  BY DEF CredInv, SlotServed, DeadHasCause, OfItsProfile
<1> QED
  BY <1>4, <1>5, <1>6, <1>7

(* A request begins: it waits for a lock, or needs no broker. *)
LEMMA RouteKeeps ==
  ASSUME CredInv, NEW q \in Adapters, NEW p \in Profiles, NEW m \in BOOLEAN,
         Route(q, p, m)
  PROVE  CredInv'
<1>1. PICK c \in Slots : c.at \in {"bearer", "client", "inAccount"} /\ c.profile = p
        /\ c.since = 0 /\ (c.at = "bearer" => c.via = "mantle")
        /\ use' = [use EXCEPT ![q] = c]
  <2> DEFINE via == Backend(p, m)
             to == CASE via = "mantle" -> "bearer" [] via = "native" -> "client"
                     [] OTHER -> "inAccount"
             c == [NoUse EXCEPT !.profile = p, !.via = via, !.at = to]
  <2>1. via \in {"mantle", "native", "bedrock"}
    BY DEF Backend
  <2> HIDE DEF via
  <2>2. to \in {"bearer", "client", "inAccount"} /\ (to = "bearer" => via = "mantle")
    BY <2>1
  <2> HIDE DEF to
  <2>3. c \in Slots
    BY <2>1, <2>2 DEF Slots, NoUse
  <2>4. use' = [use EXCEPT ![q] = c]
    BY Zenon DEF Route, via, to
  <2>5. c.at = to /\ c.via = via /\ c.profile = p /\ c.since = 0
    BY DEF NoUse
  <2> HIDE DEF c
  <2> QED
    BY <2>2, <2>3, <2>4, <2>5
<1>2. UNCHANGED <<clock, creds, bearers, clients, holder>>
  BY DEF Route
<1>3. CredTypeOK'
  BY <1>1, <1>2 DEF CredInv, CredTypeOK
<1>4. use'[q] = c
  BY <1>1 DEF CredInv, CredTypeOK
<1>5. SlotPlace(q)' /\ SlotMints(q)' /\ SlotBuilds(q)' /\ SlotServed(q)'
  BY <1>1, <1>2, <1>4 DEF SlotPlace, SlotMints, SlotBuilds, SlotServed, InMantle, InNative,
     CredInv, CredTypeOK
<1>6. \A o \in Adapters : o # q => use'[o] = use[o]
  BY <1>1 DEF CredInv, CredTypeOK
<1>7. \A o \in Adapters : SlotPlace(o)' /\ SlotMints(o)' /\ SlotBuilds(o)' /\ SlotServed(o)'
  BY <1>2, <1>5, <1>6, OthersKeep
<1> QED
  BY <1>2, <1>3, <1>7 DEF CredInv, BearersGood, ClientsGood

(* A step of one request, with what its slot becomes, and what it may change of
   the locks and caches. *)
LEMMA SlotStep ==
  ASSUME CredInv, NEW q \in Adapters, NEW c \in Slots, use' = [use EXCEPT ![q] = c],
         clock' = clock, CredTypeOK', BearersGood', ClientsGood',
         \A b \in {"mantle", "native"} :
           holder'[b] = holder[b] \/ holder[b] \in {NoCreds, q},
         creds' = creds \/ holder["mantle"] = q,
         SlotPlace(q)', SlotMints(q)', SlotBuilds(q)', SlotServed(q)'
  PROVE  CredInv'
<1>1. \A o \in Adapters : o # q => use'[o] = use[o]
  BY DEF CredInv, CredTypeOK
<1>2. \A o \in Adapters : SlotPlace(o)' /\ SlotMints(o)' /\ SlotBuilds(o)' /\ SlotServed(o)'
  BY <1>1, OthersKeep
<1> QED
  BY <1>2 DEF CredInv

(* A hit is of the request's account and region, and still alive. *)
LEMMA BearerHitKeeps ==
  ASSUME CredInv, NEW q \in Adapters, BearerHit(q)
  PROVE  CredInv'
<1> DEFINE p == use[q].profile
           b == bearers[<<p.role, p.region>>]
           c == [use[q] EXCEPT !.at = "served", !.since = clock, !.using = b.from,
                   !.when = clock, !.got = [role |-> b.role, region |-> b.region]]
<1>1. use[q] \in Slots /\ use[q].via = "mantle" /\ p \in Profiles /\ clock \in Nat
  BY DEF BearerHit, CredInv, CredTypeOK, SlotPlace
<1>2. p.role \in Roles /\ p.region \in Regions
  BY <1>1, Ranges
<1>3. /\ b \in [from : Credentials, until : Int, role : Roles, region : Regions]
      /\ b.role = p.role /\ b.region = p.region /\ b.until > clock
      /\ p.role # InAccount => b.until <= b.from.dies
      /\ p.role = InAccount /\ b.from.dies - b.from.born >= BearerTTL => b.until <= b.from.dies
  <2>1. b # NoCreds /\ b.until > clock
    BY DEF BearerHit, BearerCached, BearerKey
  <2>2. b \in [from : Credentials, until : Int, role : Roles, region : Regions]
    BY <1>2, <2>1 DEF CredInv, CredTypeOK
  <2> QED
    BY <1>2, <2>1, <2>2 DEF CredInv, BearersGood
<1>4. use' = [use EXCEPT ![q] = c] /\ UNCHANGED <<clock, creds, bearers, clients, holder>>
  BY Zenon DEF BearerHit, BearerKey, Serve, Waits
<1>5. c \in Slots
  BY <1>1, <1>3 DEF Slots, Places
<1>6. use'[q] = c
  BY <1>4 DEF CredInv, CredTypeOK
<1>7. /\ c.at = "served" /\ c.via = "mantle" /\ c.profile = p /\ c.using = b.from
      /\ c.since = clock /\ c.when = clock /\ c.got.role = b.role /\ c.got.region = b.region
  BY <1>1 DEF Slots
<1> HIDE DEF c, b, p
<1>8. SlotServed(q)'
  <2>1. c.using.dies <= c.when => c.got.role = InAccount /\ c.using.dies - c.using.born < BearerTTL
    BY <1>1, <1>3, <1>7, Ranges DEF Credentials
  <2>2. DeadHasCause(q)' /\ OfItsProfile(q)'
    BY <1>3, <1>6, <1>7, <2>1 DEF DeadHasCause, OfItsProfile
  <2> QED
    BY <1>3, <1>6, <1>7, <2>2 DEF SlotServed
<1>9. SlotPlace(q)' /\ SlotMints(q)' /\ SlotBuilds(q)'
  BY <1>1, <1>4, <1>6, <1>7 DEF SlotPlace, SlotMints, SlotBuilds, InMantle, InNative
<1>10. CredTypeOK' /\ BearersGood' /\ ClientsGood'
  BY <1>4, <1>5 DEF CredInv, CredTypeOK, BearersGood, ClientsGood
<1> QED
  BY <1>4, <1>5, <1>8, <1>9, <1>10, SlotStep

LEMMA ClientHitKeeps ==
  ASSUME CredInv, NEW q \in Adapters, ClientHit(q)
  PROVE  CredInv'
<1> DEFINE p == use[q].profile
           b == clients[<<p.role, p.region, p.ext>>]
           c == [use[q] EXCEPT !.at = "served", !.since = clock, !.using = b.from,
                   !.when = clock, !.got = [role |-> b.role, region |-> b.region]]
<1>1. use[q] \in Slots /\ p \in Profiles /\ clock \in Nat
  BY DEF ClientHit, CredInv, CredTypeOK, SlotPlace
<1>2. p.role \in Roles /\ p.region \in Regions /\ p.ext \in Exts
  BY <1>1, Ranges
<1>3. /\ b \in [from : Credentials, role : Roles, region : Regions]
      /\ b.role = p.role /\ b.region = p.region /\ b.from.ext = p.ext
      /\ b.from.dies - RefreshSkew > clock
  <2>1. b # NoCreds /\ b.from.dies - RefreshSkew > clock
    BY DEF ClientHit, ClientCached, ClientKey, Fresh
  <2>2. b \in [from : Credentials, role : Roles, region : Regions]
    BY <1>2, <2>1 DEF CredInv, CredTypeOK
  <2> QED
    BY <1>2, <2>1, <2>2 DEF CredInv, ClientsGood
<1>4. use' = [use EXCEPT ![q] = c] /\ UNCHANGED <<clock, creds, bearers, clients, holder>>
  BY Zenon DEF ClientHit, ClientKey, Serve, Waits
<1>5. c \in Slots
  BY <1>1, <1>3 DEF Slots, Places
<1>6. use'[q] = c
  BY <1>4 DEF CredInv, CredTypeOK
<1>7. /\ c.at = "served" /\ c.profile = p /\ c.using = b.from
      /\ c.when = clock /\ c.since = clock /\ c.got.role = b.role /\ c.got.region = b.region
  BY <1>1 DEF Slots
<1> HIDE DEF c, b, p
<1>8. SlotServed(q)'
  <2>1. ~(c.using.dies <= c.when)
    BY <1>1, <1>3, <1>7, Ranges DEF Credentials
  <2>2. DeadHasCause(q)' /\ OfItsProfile(q)'
    BY <1>3, <1>6, <1>7, <2>1 DEF DeadHasCause, OfItsProfile
  <2> QED
    BY <1>3, <1>6, <1>7, <2>2 DEF SlotServed
<1>9. SlotPlace(q)' /\ SlotMints(q)' /\ SlotBuilds(q)'
  BY <1>1, <1>4, <1>6, <1>7 DEF SlotPlace, SlotMints, SlotBuilds, InMantle, InNative
<1>10. CredTypeOK' /\ BearersGood' /\ ClientsGood'
  BY <1>4, <1>5 DEF CredInv, CredTypeOK, BearersGood, ClientsGood
<1> QED
  BY <1>4, <1>5, <1>8, <1>9, <1>10, SlotStep

(* A miss takes the lock; what the broker still has of the role is fresh. *)
LEMMA BearerMissKeeps ==
  ASSUME CredInv, NEW q \in Adapters, BearerMiss(q)
  PROVE  CredInv'
<1> DEFINE p == use[q].profile
<1>1. /\ use[q] \in Slots /\ use[q].via = "mantle" /\ p \in Profiles /\ clock \in Nat
      /\ holder["mantle"] = NoCreds
  BY DEF BearerMiss, CredInv, CredTypeOK, SlotPlace
<1>2. p.role \in Roles
  BY <1>1, Ranges
<1>3. PICK c \in Slots :
        /\ use' = [use EXCEPT ![q] = c] /\ c.profile = p /\ c.via = "mantle" /\ c.since = clock
        /\ \/ c.at = "own" /\ p.role = InAccount
           \/ c.at = "assume" /\ p.role # InAccount
           \/ /\ c.at = "mint" /\ p.role # InAccount /\ c.using = creds[p.role]
              /\ c.using \in Credentials /\ c.using.dies > c.since + RefreshSkew
  <2>1. CASE p.role = InAccount
    <3> DEFINE c == [use[q] EXCEPT !.at = "own", !.since = clock]
    <3>1. use' = [use EXCEPT ![q] = c]
      BY <2>1 DEF BearerMiss, Waits
    <3>2. c \in Slots /\ c.at = "own" /\ c.profile = p /\ c.via = "mantle" /\ c.since = clock
      BY <1>1 DEF Slots
    <3> HIDE DEF c
    <3> QED
      BY <2>1, <3>1, <3>2
  <2>2. CASE p.role # InAccount /\ Fresh(creds[p.role])
    <3> DEFINE c == [use[q] EXCEPT !.at = "mint", !.since = clock, !.using = creds[p.role]]
    <3>1. use' = [use EXCEPT ![q] = c]
      BY <2>2 DEF BearerMiss, Waits
    <3>2. creds[p.role] \in Credentials /\ creds[p.role].dies - RefreshSkew > clock
      BY <1>2, <2>2 DEF Fresh, CredInv, CredTypeOK
    <3>3. creds[p.role].dies > clock + RefreshSkew
      BY <1>1, <3>2, Ranges DEF Credentials
    <3>4. /\ c \in Slots /\ c.at = "mint" /\ c.profile = p /\ c.via = "mantle"
          /\ c.since = clock /\ c.using = creds[p.role]
      BY <1>1, <3>2 DEF Slots
    <3> HIDE DEF c
    <3> QED
      BY <2>2, <3>1, <3>2, <3>3, <3>4
  <2>3. CASE p.role # InAccount /\ ~Fresh(creds[p.role])
    <3> DEFINE c == [use[q] EXCEPT !.at = "assume", !.since = clock]
    <3>1. use' = [use EXCEPT ![q] = c]
      BY <2>3 DEF BearerMiss, Waits
    <3>2. c \in Slots /\ c.at = "assume" /\ c.profile = p /\ c.via = "mantle" /\ c.since = clock
      BY <1>1 DEF Slots
    <3> HIDE DEF c
    <3> QED
      BY <2>3, <3>1, <3>2
  <2> QED
    BY <2>1, <2>2, <2>3
<1>4. use'[q] = c
  BY <1>3 DEF CredInv, CredTypeOK
<1>5. UNCHANGED <<clock, creds, bearers, clients>> /\ holder' = [holder EXCEPT !["mantle"] = q]
  BY DEF BearerMiss, Lock
<1>6. CredTypeOK' /\ BearersGood' /\ ClientsGood'
  BY <1>3, <1>5 DEF CredInv, CredTypeOK, BearersGood, ClientsGood
<1>7. holder'["mantle"] = q /\ holder'["native"] = holder["native"]
  BY <1>5 DEF CredInv, CredTypeOK
<1>8. SlotPlace(q)' /\ SlotMints(q)' /\ SlotBuilds(q)' /\ SlotServed(q)'
  BY <1>1, <1>3, <1>4, <1>5, <1>7
     DEF SlotPlace, SlotMints, SlotBuilds, SlotServed, InMantle, InNative
<1> QED
  BY <1>1, <1>3, <1>5, <1>6, <1>7, <1>8, SlotStep

(* New credentials of a role: an hour from within the call, which is more than
   the skew; the bearers signed with the earlier ones are gone. *)
LEMMA AssumedKeeps ==
  ASSUME CredInv, NEW q \in Adapters, Assumed(q)
  PROVE  CredInv'
<1> DEFINE p == use[q].profile
<1>1. /\ use[q] \in Slots /\ use[q].via = "mantle" /\ p \in Profiles /\ clock \in Nat
      /\ p.role # InAccount /\ use[q].since \in Nat /\ use[q].since <= clock
      /\ holder["mantle"] = q
  BY DEF Assumed, CredInv, CredTypeOK, SlotPlace, InMantle, Slots
<1>2. p.role \in Roles /\ p.ext \in Exts
  BY <1>1, Ranges
<1>3. PICK born \in use[q].since .. clock :
        /\ creds' = [creds EXCEPT ![p.role] = Issued(born, AssumeDuration, p.ext)]
        /\ use' = [use EXCEPT ![q].at = "mint", ![q].using = Issued(born, AssumeDuration, p.ext)]
  BY Zenon DEF Assumed
<1> DEFINE new == Issued(born, AssumeDuration, p.ext)
           c == [use[q] EXCEPT !.at = "mint", !.using = new]
<1>4. /\ new \in Credentials /\ new.born = born /\ new.dies = born + AssumeDuration
      /\ new.dies > use[q].since + RefreshSkew
  BY <1>1, <1>2, Ranges DEF Issued, Credentials
<1>5. use' = [use EXCEPT ![q] = c]
  BY <1>3 DEF CredInv, CredTypeOK
<1>6. c \in Slots /\ c.at = "mint" /\ c.via = "mantle" /\ c.profile = p /\ c.using = new
      /\ c.since = use[q].since
  BY <1>1, <1>4 DEF Slots
<1> HIDE DEF new, c
<1>7. use'[q] = c /\ creds' = [creds EXCEPT ![p.role] = new] /\ creds'[p.role] = new
  BY <1>2, <1>3, <1>5 DEF CredInv, CredTypeOK, new
<1>8. UNCHANGED <<clock, clients, holder>>
      /\ bearers' = [k \in DOMAIN bearers |-> IF k[1] = p.role THEN NoCreds ELSE bearers[k]]
  BY DEF Assumed
<1>9. /\ bearers' \in [Roles \X Regions ->
             [from : Credentials, until : Int, role : Roles, region : Regions] \cup {NoCreds}]
      /\ \A k \in Roles \X Regions : bearers'[k] \in {NoCreds, bearers[k]}
  BY <1>8 DEF CredInv, CredTypeOK
<1>10. CredTypeOK'
  BY <1>4, <1>5, <1>6, <1>7, <1>8, <1>9 DEF CredInv, CredTypeOK
<1>11. BearersGood' /\ ClientsGood'
  BY <1>8, <1>9 DEF CredInv, BearersGood, ClientsGood
<1>12. SlotPlace(q)' /\ SlotMints(q)' /\ SlotBuilds(q)' /\ SlotServed(q)'
  BY <1>1, <1>4, <1>6, <1>7, <1>8
     DEF SlotPlace, SlotMints, SlotBuilds, SlotServed, InMantle, InNative
<1> QED
  BY <1>1, <1>5, <1>6, <1>8, <1>10, <1>11, <1>12, SlotStep

LEMMA OwnReadKeeps ==
  ASSUME CredInv, NEW q \in Adapters, OwnRead(q)
  PROVE  CredInv'
<1> DEFINE p == use[q].profile
<1>1. /\ use[q] \in Slots /\ use[q].via = "mantle" /\ p \in Profiles /\ clock \in Nat
      /\ p.role = InAccount /\ use[q].since \in Nat /\ use[q].since <= clock
      /\ holder["mantle"] = q
  BY DEF OwnRead, CredInv, CredTypeOK, SlotPlace, InMantle, Slots
<1>2. p.role \in Roles /\ p.ext \in Exts
  BY <1>1, Ranges
<1>3. PICK life \in OwnLives :
        use' = [use EXCEPT ![q].at = "mint", ![q].using = Issued(clock, life, p.ext)]
  BY Zenon DEF OwnRead
<1> DEFINE new == Issued(clock, life, p.ext)
           c == [use[q] EXCEPT !.at = "mint", !.using = new]
<1>4. new \in Credentials /\ new.born >= use[q].since
  BY <1>1, <1>2, Ranges DEF Issued, Credentials
<1>5. use' = [use EXCEPT ![q] = c]
  BY <1>3 DEF CredInv, CredTypeOK
<1>6. c \in Slots /\ c.at = "mint" /\ c.via = "mantle" /\ c.profile = p /\ c.using = new
      /\ c.since = use[q].since
  BY <1>1, <1>4 DEF Slots
<1> HIDE DEF new, c
<1>7. use'[q] = c /\ UNCHANGED <<clock, creds, bearers, clients, holder>>
  BY <1>5 DEF CredInv, CredTypeOK, OwnRead
<1>8. CredTypeOK' /\ BearersGood' /\ ClientsGood'
  BY <1>5, <1>6, <1>7 DEF CredInv, CredTypeOK, BearersGood, ClientsGood
<1>9. SlotPlace(q)' /\ SlotMints(q)' /\ SlotBuilds(q)' /\ SlotServed(q)'
  BY <1>1, <1>4, <1>6, <1>7
     DEF SlotPlace, SlotMints, SlotBuilds, SlotServed, InMantle, InNative
<1> QED
  BY <1>5, <1>6, <1>7, <1>8, <1>9, SlotStep

(* The bearer's end is within its credentials' life, and a mint that took no
   longer than the skew hands out a live one. *)
LEMMA MintedKeeps ==
  ASSUME CredInv, NEW q \in Adapters, Minted(q)
  PROVE  CredInv'
<1> DEFINE u == use[q]
           p == u.profile
           b == [from |-> u.using, until |-> Until(u), role |-> p.role, region |-> p.region]
           c == [u EXCEPT !.at = "served", !.when = clock,
                   !.got = [role |-> p.role, region |-> p.region]]
<1>1. /\ u \in Slots /\ u.via = "mantle" /\ p \in Profiles /\ clock \in Nat
      /\ u.since \in Nat /\ u.since <= clock /\ holder["mantle"] = q
      /\ u.using \in Credentials
      /\ p.role # InAccount => creds[p.role] = u.using /\ u.using.dies > u.since + RefreshSkew
      /\ p.role = InAccount => u.using.born >= u.since
  BY DEF Minted, CredInv, CredTypeOK, SlotPlace, SlotMints, InMantle, Slots
<1>2. p.role \in Roles /\ p.region \in Regions
  BY <1>1, Ranges
<1>3. /\ Until(u) \in Int
      /\ p.role # InAccount => Until(u) <= u.using.dies
      /\ p.role = InAccount => Until(u) <= u.since + BearerTTL
  <2>1. CASE p.role = InAccount
    BY <1>1, <2>1, Ranges DEF Until, LeastOf
  <2>2. CASE p.role # InAccount
    BY <1>1, <2>2, Ranges DEF Until, LeastOf, Credentials
  <2> QED
    BY <2>1, <2>2
<1>4. p.role = InAccount /\ u.using.dies - u.using.born >= BearerTTL =>
        u.since + BearerTTL <= u.using.dies
  BY <1>1, Ranges DEF Credentials
<1>5. use' = [use EXCEPT ![q] = c] /\ UNCHANGED <<clock, creds, clients>>
      /\ bearers' = [bearers EXCEPT ![<<p.role, p.region>>] = b]
      /\ holder' = [holder EXCEPT !["mantle"] = NoCreds]
  <2>1. c = Serve(u, u.using, p.role, p.region)
    BY <1>1 DEF Serve, Slots
  <2> QED
    BY <2>1 DEF Minted, BearerKey, Unlock, CredInv, CredTypeOK
<1>6. /\ c \in Slots /\ c.at = "served" /\ c.via = "mantle" /\ c.profile = p
      /\ c.using = u.using /\ c.since = u.since /\ c.when = clock
      /\ c.got.role = p.role /\ c.got.region = p.region
  BY <1>1, <1>2 DEF Slots, Places
<1>7. /\ b \in [from : Credentials, until : Int, role : Roles, region : Regions]
      /\ b.from = u.using /\ b.until = Until(u) /\ b.role = p.role /\ b.region = p.region
  BY <1>1, <1>2, <1>3
<1> HIDE DEF b, c, u, p
<1>8. use'[q] = c
  BY <1>5 DEF CredInv, CredTypeOK
<1>9. CredTypeOK'
  BY <1>2, <1>5, <1>6, <1>7 DEF CredInv, CredTypeOK
<1>10. BearersGood'
  <2> SUFFICES ASSUME NEW role \in Roles, NEW region \in Regions,
                      bearers'[<<role, region>>] # NoCreds
               PROVE  LET d == bearers'[<<role, region>>] IN
                        /\ d.role = role /\ d.region = region
                        /\ role # InAccount => d.until <= d.from.dies
                        /\ role = InAccount /\ d.from.dies - d.from.born >= BearerTTL
                             => d.until <= d.from.dies
    BY DEF BearersGood
  <2>1. CASE role = p.role /\ region = p.region
    <3>1. bearers'[<<role, region>>] = b
      BY <1>2, <1>5, <2>1 DEF CredInv, CredTypeOK
    <3>2. role = InAccount /\ b.from.dies - b.from.born >= BearerTTL => b.until <= b.from.dies
      BY <1>1, <1>3, <1>4, <1>7, <2>1, Ranges DEF Credentials
    <3> QED
      BY <1>3, <1>7, <2>1, <3>1, <3>2
  <2>2. CASE ~(role = p.role /\ region = p.region)
    <3>1. bearers'[<<role, region>>] = bearers[<<role, region>>]
      BY <1>2, <1>5, <2>2 DEF CredInv, CredTypeOK
    <3> QED
      BY <3>1 DEF CredInv, BearersGood
  <2> QED
    BY <2>1, <2>2
<1>11. SlotServed(q)'
  <2>1. clock - u.since > RefreshSkew \/ ~(c.using.dies <= c.when)
        \/ (p.role = InAccount /\ u.using.dies - u.using.born < BearerTTL)
    BY <1>1, <1>4, <1>6, Ranges DEF Credentials
  <2>2. DeadHasCause(q)' /\ OfItsProfile(q)'
    BY <1>6, <1>8, <2>1 DEF DeadHasCause, OfItsProfile
  <2> QED
    BY <1>1, <1>6, <1>8, <2>2 DEF SlotServed
<1>12. SlotPlace(q)' /\ SlotMints(q)' /\ SlotBuilds(q)'
  BY <1>1, <1>5, <1>6, <1>8 DEF SlotPlace, SlotMints, SlotBuilds, InMantle, InNative
<1>13. holder["mantle"] = q /\ holder'["native"] = holder["native"]
  BY <1>1, <1>5 DEF CredInv, CredTypeOK
<1>14. ClientsGood'
  BY <1>5 DEF CredInv, ClientsGood
<1> QED
  BY <1>5, <1>6, <1>9, <1>10, <1>11, <1>12, <1>13, <1>14, SlotStep

(* A slot that is idle, or waits for nothing, owes nothing. *)
LEMMA Released ==
  ASSUME CredInv, NEW q \in Adapters, NEW c \in Slots, use' = [use EXCEPT ![q] = c],
         c.at \in {"idle", "inAccount"}, c.since <= clock,
         c.at # "idle" => c.profile \in Profiles,
         UNCHANGED <<clock, creds, bearers, clients>>,
         holder' \in [{"mantle", "native"} -> Adapters \cup {NoCreds}],
         \A b \in {"mantle", "native"} :
           holder'[b] = holder[b] \/ holder[b] \in {NoCreds, q}
  PROVE  CredInv'
<1>1. use'[q] = c
  BY DEF CredInv, CredTypeOK
<1>2. CredTypeOK' /\ BearersGood' /\ ClientsGood'
  BY DEF CredInv, CredTypeOK, BearersGood, ClientsGood
<1>3. SlotPlace(q)' /\ SlotMints(q)' /\ SlotBuilds(q)' /\ SlotServed(q)'
  BY <1>1 DEF SlotPlace, SlotMints, SlotBuilds, SlotServed, InMantle, InNative
<1> QED
  BY <1>2, <1>3, SlotStep

LEMMA BearerFailsKeeps ==
  ASSUME CredInv, NEW q \in Adapters, BearerFails(q)
  PROVE  CredInv'
<1>1. holder["mantle"] = q /\ clock \in Nat
  BY DEF BearerFails, CredInv, CredTypeOK, SlotPlace, InMantle
<1>2. holder' = [holder EXCEPT !["mantle"] = NoCreds]
  BY DEF BearerFails, Unlock
<1>3. /\ holder' \in [{"mantle", "native"} -> Adapters \cup {NoCreds}]
      /\ holder'["native"] = holder["native"]
  BY <1>2 DEF CredInv, CredTypeOK
<1>4. NoUse \in Slots /\ NoUse.at = "idle" /\ NoUse.since = 0
  BY DEF NoUse, Slots
<1>5. use' = [use EXCEPT ![q] = NoUse] /\ UNCHANGED <<clock, creds, bearers, clients>>
  BY DEF BearerFails
<1>6. \A b \in {"mantle", "native"} : holder'[b] = holder[b] \/ holder[b] \in {NoCreds, q}
  BY <1>1, <1>3
<1>7. NoUse.since <= clock
  BY <1>1, <1>4
<1> QED
  BY <1>3, <1>4, <1>5, <1>6, <1>7, Released

LEMMA ClientFailsKeeps ==
  ASSUME CredInv, NEW q \in Adapters, ClientFails(q)
  PROVE  CredInv'
<1> DEFINE c == [use[q] EXCEPT !.at = "inAccount", !.using = NoCreds]
<1>1. /\ holder["native"] = q /\ use[q] \in Slots /\ use[q].profile \in Profiles
      /\ use[q].since <= clock
  BY DEF ClientFails, CredInv, CredTypeOK, SlotPlace, InNative
<1>2. holder' = [holder EXCEPT !["native"] = NoCreds]
  BY DEF ClientFails, Unlock
<1>3. /\ holder' \in [{"mantle", "native"} -> Adapters \cup {NoCreds}]
      /\ holder'["mantle"] = holder["mantle"]
  BY <1>2 DEF CredInv, CredTypeOK
<1>4. /\ c \in Slots /\ c.at = "inAccount" /\ c.since = use[q].since
      /\ c.profile = use[q].profile
  BY <1>1 DEF Slots
<1>5. use' = [use EXCEPT ![q] = c] /\ UNCHANGED <<clock, creds, bearers, clients>>
  BY DEF ClientFails, CredInv, CredTypeOK
<1> HIDE DEF c
<1> QED
  BY <1>1, <1>3, <1>4, <1>5, Released

LEMMA LeaveKeeps ==
  ASSUME CredInv, NEW q \in Adapters, Leave(q)
  PROVE  CredInv'
<1>1. NoUse \in Slots /\ NoUse.at = "idle" /\ NoUse.since = 0
  BY DEF NoUse, Slots
<1>2. /\ use' = [use EXCEPT ![q] = NoUse] /\ UNCHANGED <<clock, creds, bearers, clients, holder>>
      /\ holder \in [{"mantle", "native"} -> Adapters \cup {NoCreds}] /\ clock \in Nat
  BY DEF Leave, CredInv, CredTypeOK
<1>3. holder' \in [{"mantle", "native"} -> Adapters \cup {NoCreds}]
      /\ \A b \in {"mantle", "native"} : holder'[b] = holder[b] \/ holder[b] \in {NoCreds, q}
  BY <1>2
<1>4. NoUse.since <= clock
  BY <1>1, <1>2
<1> QED
  BY <1>1, <1>2, <1>3, <1>4, Released

-----------------------------------------------------------------------------
(* The cross-account clients. *)
LEMMA ClientMissKeeps ==
  ASSUME CredInv, NEW q \in Adapters, ClientMiss(q)
  PROVE  CredInv'
<1> DEFINE c == [use[q] EXCEPT !.at = "assumeClient", !.since = clock]
<1>1. /\ use[q] \in Slots /\ use[q].profile \in Profiles /\ clock \in Nat
      /\ holder["native"] = NoCreds
  BY DEF ClientMiss, CredInv, CredTypeOK, SlotPlace
<1>2. use' = [use EXCEPT ![q] = c] /\ UNCHANGED <<clock, creds, bearers, clients>>
      /\ holder' = [holder EXCEPT !["native"] = q]
  BY DEF ClientMiss, Waits, Lock
<1>3. c \in Slots /\ c.at = "assumeClient" /\ c.since = clock /\ c.profile = use[q].profile
  BY <1>1 DEF Slots
<1> HIDE DEF c
<1>4. use'[q] = c /\ holder'["native"] = q /\ holder'["mantle"] = holder["mantle"]
  BY <1>2 DEF CredInv, CredTypeOK
<1>5. CredTypeOK' /\ BearersGood' /\ ClientsGood'
  BY <1>2, <1>3 DEF CredInv, CredTypeOK, BearersGood, ClientsGood
<1>6. SlotPlace(q)' /\ SlotMints(q)' /\ SlotBuilds(q)' /\ SlotServed(q)'
  BY <1>1, <1>2, <1>3, <1>4
     DEF SlotPlace, SlotMints, SlotBuilds, SlotServed, InMantle, InNative
<1> QED
  BY <1>1, <1>2, <1>3, <1>4, <1>5, <1>6, SlotStep

LEMMA ClientAssumedKeeps ==
  ASSUME CredInv, NEW q \in Adapters, ClientAssumed(q)
  PROVE  CredInv'
<1> DEFINE p == use[q].profile
<1>1. /\ use[q] \in Slots /\ p \in Profiles /\ clock \in Nat
      /\ use[q].since \in Nat /\ use[q].since <= clock /\ holder["native"] = q
  BY DEF ClientAssumed, CredInv, CredTypeOK, SlotPlace, InNative, Slots
<1>2. p.ext \in Exts
  BY <1>1, Ranges
<1>3. PICK born \in use[q].since .. clock :
        use' = [use EXCEPT ![q].at = "build", ![q].using = Issued(born, AssumeDuration, p.ext)]
  BY Zenon DEF ClientAssumed
<1> DEFINE new == Issued(born, AssumeDuration, p.ext)
           c == [use[q] EXCEPT !.at = "build", !.using = new]
<1>4. new \in Credentials /\ new.ext = p.ext /\ new.dies > use[q].since + RefreshSkew
  BY <1>1, <1>2, Ranges DEF Issued, Credentials
<1>5. use' = [use EXCEPT ![q] = c]
  BY <1>3 DEF CredInv, CredTypeOK
<1>6. c \in Slots /\ c.at = "build" /\ c.profile = p /\ c.using = new /\ c.since = use[q].since
  BY <1>1, <1>4 DEF Slots
<1> HIDE DEF new, c
<1>7. use'[q] = c /\ UNCHANGED <<clock, creds, bearers, clients, holder>>
  BY <1>5 DEF CredInv, CredTypeOK, ClientAssumed
<1>8. CredTypeOK' /\ BearersGood' /\ ClientsGood'
  BY <1>5, <1>6, <1>7 DEF CredInv, CredTypeOK, BearersGood, ClientsGood
<1>9. SlotPlace(q)' /\ SlotMints(q)' /\ SlotBuilds(q)' /\ SlotServed(q)'
  BY <1>1, <1>4, <1>6, <1>7
     DEF SlotPlace, SlotMints, SlotBuilds, SlotServed, InMantle, InNative
<1> QED
  BY <1>5, <1>6, <1>7, <1>8, <1>9, SlotStep

LEMMA ClientBuiltKeeps ==
  ASSUME CredInv, NEW q \in Adapters, ClientBuilt(q)
  PROVE  CredInv'
<1> DEFINE u == use[q]
           p == u.profile
           b == [from |-> u.using, role |-> p.role, region |-> p.region]
           c == [u EXCEPT !.at = "served", !.when = clock,
                   !.got = [role |-> p.role, region |-> p.region]]
<1>1. /\ u \in Slots /\ p \in Profiles /\ clock \in Nat
      /\ u.since \in Nat /\ u.since <= clock /\ holder["native"] = q
      /\ u.using \in Credentials /\ u.using.ext = p.ext /\ u.using.dies > u.since + RefreshSkew
  BY DEF ClientBuilt, CredInv, CredTypeOK, SlotPlace, SlotBuilds, InNative, Slots
<1>2. p.role \in Roles /\ p.region \in Regions /\ p.ext \in Exts
  BY <1>1, Ranges
<1>3. use' = [use EXCEPT ![q] = c] /\ UNCHANGED <<clock, creds, bearers>>
      /\ clients' = [clients EXCEPT ![<<p.role, p.region, p.ext>>] = b]
      /\ holder' = [holder EXCEPT !["native"] = NoCreds]
  <2>1. c = Serve(u, u.using, p.role, p.region)
    BY <1>1 DEF Serve, Slots
  <2> QED
    BY <2>1 DEF ClientBuilt, ClientKey, Unlock, CredInv, CredTypeOK
<1>4. /\ c \in Slots /\ c.at = "served" /\ c.profile = p /\ c.using = u.using
      /\ c.since = u.since /\ c.when = clock
      /\ c.got.role = p.role /\ c.got.region = p.region
  BY <1>1, <1>2 DEF Slots, Places
<1>5. /\ b \in [from : Credentials, role : Roles, region : Regions]
      /\ b.from = u.using /\ b.role = p.role /\ b.region = p.region
  BY <1>1, <1>2
<1> HIDE DEF b, c, u, p
<1>6. use'[q] = c
  BY <1>3 DEF CredInv, CredTypeOK
<1>7. CredTypeOK'
  BY <1>2, <1>3, <1>4, <1>5 DEF CredInv, CredTypeOK
<1>8. ClientsGood'
  <2> SUFFICES ASSUME NEW role \in Roles, NEW region \in Regions, NEW ext \in Exts,
                      clients'[<<role, region, ext>>] # NoCreds
               PROVE  LET d == clients'[<<role, region, ext>>] IN
                        d.role = role /\ d.region = region /\ d.from.ext = ext
    BY DEF ClientsGood
  <2>1. CASE role = p.role /\ region = p.region /\ ext = p.ext
    BY <1>1, <1>2, <1>3, <1>5, <2>1 DEF CredInv, CredTypeOK
  <2>2. CASE ~(role = p.role /\ region = p.region /\ ext = p.ext)
    <3>1. clients'[<<role, region, ext>>] = clients[<<role, region, ext>>]
      BY <1>2, <1>3, <2>2 DEF CredInv, CredTypeOK
    <3> QED
      BY <3>1 DEF CredInv, ClientsGood
  <2> QED
    BY <2>1, <2>2
<1>9. SlotServed(q)'
  <2>1. clock - u.since > RefreshSkew \/ ~(c.using.dies <= c.when)
    BY <1>1, <1>4, Ranges DEF Credentials
  <2>2. DeadHasCause(q)' /\ OfItsProfile(q)'
    BY <1>1, <1>4, <1>6, <2>1 DEF DeadHasCause, OfItsProfile
  <2> QED
    BY <1>1, <1>4, <1>6, <2>2 DEF SlotServed
<1>10. SlotPlace(q)' /\ SlotMints(q)' /\ SlotBuilds(q)'
  BY <1>1, <1>3, <1>4, <1>6 DEF SlotPlace, SlotMints, SlotBuilds, InMantle, InNative
<1>11. holder["native"] = q /\ holder'["mantle"] = holder["mantle"]
  BY <1>1, <1>3 DEF CredInv, CredTypeOK
<1>12. BearersGood'
  BY <1>3 DEF CredInv, BearersGood
<1> QED
  BY <1>3, <1>4, <1>7, <1>8, <1>9, <1>10, <1>11, <1>12, SlotStep

-----------------------------------------------------------------------------
(* Time passes, or nothing: what was given out stays as it was given. *)
LEMMA PassesKeeps ==
  ASSUME CredInv, UNCHANGED <<creds, bearers, clients, holder, use>>,
         clock' \in Nat, clock' >= clock
  PROVE  CredInv'
<1>1. CredTypeOK' /\ BearersGood' /\ ClientsGood'
  BY DEF CredInv, CredTypeOK, BearersGood, ClientsGood
<1>2. ASSUME NEW q \in Adapters
      PROVE  SlotPlace(q)' /\ SlotMints(q)' /\ SlotBuilds(q)' /\ SlotServed(q)'
  <2>1. use[q].since \in Nat /\ clock \in Nat /\ use[q].since <= clock
    BY DEF CredInv, CredTypeOK, Slots, SlotPlace
  <2>2. SlotPlace(q)'
    BY <2>1 DEF CredInv, SlotPlace, InMantle, InNative
  <2>3. SlotMints(q)' /\ SlotBuilds(q)'
    BY DEF CredInv, SlotMints, SlotBuilds
  <2>4. SlotServed(q)'
    BY DEF CredInv, SlotServed, DeadHasCause, OfItsProfile
  <2> QED
    BY <2>2, <2>3, <2>4
<1> QED
  BY <1>1, <1>2 DEF CredInv

LEMMA CredStep == CredInv /\ [CredentialsNext]_credVars => CredInv'
<1> SUFFICES ASSUME CredInv, [CredentialsNext]_credVars PROVE CredInv'
  OBVIOUS
<1>1. CASE Passes
  BY <1>1, PassesKeeps DEF Passes, CredInv, CredTypeOK
<1>2. CASE UNCHANGED credVars
  BY <1>2, PassesKeeps DEF credVars, CredInv, CredTypeOK
<1>3. ASSUME NEW q \in Adapters, NEW p \in Profiles, NEW m \in BOOLEAN, Route(q, p, m)
      PROVE  CredInv'
  BY <1>3, RouteKeeps
<1>4. ASSUME NEW q \in Adapters,
             BearerHit(q) \/ BearerMiss(q) \/ Assumed(q) \/ OwnRead(q) \/ Minted(q) \/ BearerFails(q)
      PROVE  CredInv'
  BY <1>4, BearerHitKeeps, BearerMissKeeps, AssumedKeeps, OwnReadKeeps, MintedKeeps,
     BearerFailsKeeps
<1>5. ASSUME NEW q \in Adapters,
             ClientHit(q) \/ ClientMiss(q) \/ ClientAssumed(q) \/ ClientBuilt(q)
               \/ ClientFails(q) \/ Leave(q)
      PROVE  CredInv'
  BY <1>5, ClientHitKeeps, ClientMissKeeps, ClientAssumedKeeps, ClientBuiltKeeps,
     ClientFailsKeeps, LeaveKeeps
<1> QED
  BY <1>1, <1>2, <1>3, <1>4, <1>5 DEF CredentialsNext

(* The gateway never hands out a dead credential but for a mint slower than the
   skew or pod credentials shorter than a bearer's term, and never one of another
   account, region or external id, whatever the profiles and the durations. *)
THEOREM CredentialsSafe == CredentialsSpec => []CredentialsUsable
<1>1. CredInv => CredentialsUsable
  BY DEF CredInv, SlotServed, CredentialsUsable
<1> QED
  BY CredInitInv, CredStep, <1>1, PTL DEF CredentialsSpec

(* The broker's lock: one request at a time is in a miss of each broker. *)
THEOREM OneMissAtATime ==
  CredentialsSpec => [](\A q, o \in Adapters :
                          (InMantle(q) /\ InMantle(o)) \/ (InNative(q) /\ InNative(o)) => q = o)
<1>1. CredInv => \A q, o \in Adapters :
                   (InMantle(q) /\ InMantle(o)) \/ (InNative(q) /\ InNative(o)) => q = o
  BY DEF CredInv, SlotPlace
<1> QED
  BY CredInitInv, CredStep, <1>1, PTL DEF CredentialsSpec
===========================================================================
