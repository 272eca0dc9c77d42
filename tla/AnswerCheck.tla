---------------------------- MODULE AnswerCheck ----------------------------
(* How one turn of the chat agent checks the SQL it answers with: the vote of
   k candidates by what they return, the validator run on every result, the
   critic of another family, and the gate at the end of the turn.
   Tools run in threads; the turn sends what they put in its bucket whenever
   the model's stream yields something.  A frame shows an envelope as it is
   when it is sent; the checks go on changing it. *)
EXTENDS Naturals, Sequences, SequencesExt, FiniteSets, FiniteSetsExt, Functions

CONSTANTS
  SqlCalls,          \* the turn's calls of the SQL tools
  Voted,             \* those of ask_sql_verified; the others ask_sql_specialist
  KQuick, KDeep,     \* candidates
  MaxResults         \* bound: different results of the candidates

ASSUME AnswerAssumption ==
  /\ Voted \subseteq SqlCalls /\ "model" \notin SqlCalls
  /\ KQuick \in Nat \ {0} /\ KDeep \in Nat \ {0} /\ MaxResults \in Nat \ {0}

VARIABLES
  deep, extras,    \* deep mode; whether the critic is enabled, which works in deep mode
  answering,       \* the turn: "open", "sent" (all results), "done", "broken"
  sql,             \* per call: [at, ballot, env]
  bucket,          \* _tool_results: <<"sql" or "val", call>>
  shipped,         \* how many of them went out
  seen,            \* calls a concern about which the user was shown
  gated,           \* the card of the gate went out
  overlooked       \* history: calls a concern about which came after their frames

answerVars == <<deep, extras, answering, sql, bucket, shipped, seen, gated, overlooked>>

NoBallot == [cast |-> 0, votes |-> <<>>, warned |-> {}]
NoEnvelope == [form |-> "none", result |-> 0, warned |-> FALSE, vote |-> "none", validation |-> "none"]

AnswerInit ==
  /\ deep \in BOOLEAN /\ extras \in {FALSE, deep} /\ answering = "open"
  /\ sql = [c \in SqlCalls |-> [at |-> "idle", ballot |-> NoBallot, env |-> NoEnvelope]]
  /\ bucket = <<>> /\ shipped = 0
  /\ seen = {} /\ gated = FALSE /\ overlooked = {}

Concerns == {"WARN", "FAIL"}
Concern(env) == env.validation \in Concerns \/ env.vote \in Concerns

(* What a specialist's call gives: SQL with its rows, or a failure (an error, or
   prose with no envelope in it).  Results are named as they first appear. *)
Failure == [NoEnvelope EXCEPT !.form = "failed"]
Rows(x, w) == [NoEnvelope EXCEPT !.form = "sql", !.result = x, !.warned = w]
Envelopes(n) == {Failure} \cup {Rows(x, w) : x \in 1..n, w \in BOOLEAN}

Becomes(c, call) == sql' = [sql EXCEPT ![c] = call]
Stashed(c, env, entry) ==
  Becomes(c, [sql[c] EXCEPT !.at = "check", !.env = env]) /\ bucket' = Append(bucket, entry)

AskSql(c) ==
  /\ answering = "open" /\ sql[c].at = "idle"
  /\ Becomes(c, [sql[c] EXCEPT !.at = IF c \in Voted THEN "vote" ELSE "ask"])
  /\ UNCHANGED <<deep, extras, answering, bucket, shipped, seen, gated, overlooked>>

SpecialistAnswers(c) ==
  /\ sql[c].at = "ask"
  /\ \E env \in Envelopes(1) : Stashed(c, env, <<"sql", c>>)
  /\ UNCHANGED <<deep, extras, answering, shipped, seen, gated, overlooked>>

(* The call of a specialist raises: the tool has failed, with no result.  A
   vote fails with any of its candidates. *)
SpecialistRaises(c) ==
  /\ sql[c].at \in {"ask", "vote"}
  /\ Becomes(c, [sql[c] EXCEPT !.at = "over", !.ballot = NoBallot])
  /\ UNCHANGED <<deep, extras, answering, bucket, shipped, seen, gated, overlooked>>

----------------------------------------------------------------------------
(* The vote: the candidates that ran, by what they returned, and the results of
   which a candidate carries a warning.  Order matters between equals only. *)
Candidates == IF deep THEN KDeep ELSE KQuick
Results(ballot) == DOMAIN ballot.votes
Ran(ballot) == FoldFunction(+, 0, ballot.votes)

Candidate(c) ==
  LET ballot == sql[c].ballot
  IN /\ sql[c].at = "vote" /\ ballot.cast < Candidates
     /\ \E env \in Envelopes(Min({MaxResults, Cardinality(Results(ballot)) + 1})) :
          Becomes(c, [sql[c] EXCEPT !.ballot =
            IF env.form = "failed" THEN [ballot EXCEPT !.cast = @ + 1]
            ELSE [cast   |-> ballot.cast + 1,
                  votes  |-> [x \in Results(ballot) \cup {env.result} |->
                                (IF x \in Results(ballot) THEN ballot.votes[x] ELSE 0)
                                  + (IF x = env.result THEN 1 ELSE 0)],
                  warned |-> IF env.warned THEN ballot.warned \cup {env.result} ELSE ballot.warned]])
  /\ UNCHANGED <<deep, extras, answering, bucket, shipped, seen, gated, overlooked>>

CleanFirst(ballot) ==  \* mutant: sorts by warnings, then by size
  LET clean == Results(ballot) \ ballot.warned
  IN IF clean # {} THEN clean ELSE Results(ballot)

(* The largest clusters; of several, those without a warning, if any. *)
Leaders(ballot) ==
  LET largest == {x \in Results(ballot) : \A y \in Results(ballot) : ballot.votes[y] <= ballot.votes[x]}
      clean == largest \ ballot.warned
  IN IF clean # {} THEN clean ELSE largest

Verdict(ballot, x) ==
  IF Cardinality(Leaders(ballot)) > 1 \/ (Ran(ballot) >= 2 /\ 2 * ballot.votes[x] < Ran(ballot))
  THEN "WARN" ELSE "PASS"

(* The first of the leaders to come; if none ran, the failure of the first. *)
Elect(c) ==
  LET ballot == sql[c].ballot
  IN /\ sql[c].at = "vote" /\ ballot.cast = Candidates
     /\ \/ /\ Results(ballot) = {}
           /\ Stashed(c, [Failure EXCEPT !.vote = "FAIL"], <<"sql", c>>)
        \/ \E x \in Leaders(ballot), w \in BOOLEAN :
             /\ w => x \in ballot.warned
             /\ Stashed(c, [form |-> "sql", result |-> x, warned |-> w, vote |-> Verdict(ballot, x),
                            validation |-> "none"], <<"sql", c>>)
  /\ UNCHANGED <<deep, extras, answering, shipped, seen, gated, overlooked>>

----------------------------------------------------------------------------
(* The validator runs on every result with SQL.  What it says goes into the
   bucket, whether a verdict is found in it or not, and into the envelope; if
   its call raises, the envelope alone gets a warning. *)
IsOut(entry) == \E i \in 1..shipped : bucket[i] = entry
Note(c, after) == overlooked' = IF after THEN overlooked \cup {c} ELSE overlooked

AutoValidate(c) ==
  /\ sql[c].at = "check" /\ sql[c].env.form = "sql"
  /\ \/ \E v \in {"PASS", "WARN", "FAIL", "unparsed"} :
          /\ Becomes(c, [sql[c] EXCEPT !.at = "validated", !.ballot = NoBallot, !.env.validation = v])
          /\ bucket' = Append(bucket, <<"val", c>>)
          /\ UNCHANGED overlooked
     \/ /\ Becomes(c, [sql[c] EXCEPT !.at = "validated", !.ballot = NoBallot, !.env.validation = "WARN"])
        /\ Note(c, IsOut(<<"sql", c>>))
        /\ UNCHANGED bucket
  /\ UNCHANGED <<deep, extras, answering, shipped, seen, gated>>

NothingToValidate(c) ==
  /\ sql[c].at = "check" /\ sql[c].env.form # "sql"
  /\ Becomes(c, [sql[c] EXCEPT !.at = "over", !.ballot = NoBallot])
  /\ UNCHANGED <<deep, extras, answering, bucket, shipped, seen, gated, overlooked>>

IsHighRisk(env) == Concern(env) \/ env.warned

(* The critic is asked about risky results in deep mode, and may turn PASS into
   WARN; its failure or delay changes nothing.  The verdict is one object, in
   the envelope and in the validator's entry. *)
CrossFamilyCheck(c) ==
  /\ sql[c].at = "validated"
  /\ \/ /\ Becomes(c, [sql[c] EXCEPT !.at = "over"])
        /\ UNCHANGED overlooked
     \/ /\ extras /\ IsHighRisk(sql[c].env) /\ sql[c].env.validation = "PASS"
        /\ Becomes(c, [sql[c] EXCEPT !.at = "over", !.env.validation = "WARN"])
        /\ Note(c, IsOut(<<"sql", c>>) /\ IsOut(<<"val", c>>))
  /\ UNCHANGED <<deep, extras, answering, bucket, shipped, seen, gated>>

(* The model calls the validator of its own accord. *)
AskValidator ==
  /\ answering = "open" /\ <<"val", "model">> \notin ToSet(bucket)
  /\ bucket' = Append(bucket, <<"val", "model">>)
  /\ UNCHANGED <<deep, extras, answering, sql, shipped, seen, gated, overlooked>>

----------------------------------------------------------------------------
(* The turn.  In both entries of a call the verdict shows; in the first also
   what its vote came to. *)
Shows(entry) ==
  entry[2] \in SqlCalls /\ (IF entry[1] = "sql" THEN Concern(sql[entry[2]].env)
                            ELSE sql[entry[2]].env.validation \in Concerns)

Flush ==
  /\ shipped' = Len(bucket)
  /\ seen' = seen \cup {bucket[i][2] : i \in {j \in (shipped + 1)..Len(bucket) : Shows(bucket[j])}}

StreamYields ==
  /\ answering = "open" /\ shipped < Len(bucket)
  /\ Flush
  /\ UNCHANGED <<deep, extras, answering, sql, bucket, gated, overlooked>>

AllOver == \A c \in SqlCalls : sql[c].at \in {"idle", "over"}

EndsUnflushed ==  \* mutant: results of the last tools are not sent
  /\ answering = "open" /\ AllOver
  /\ answering' = "sent"
  /\ UNCHANGED <<deep, extras, sql, bucket, shipped, seen, gated, overlooked>>

StreamFinishes ==
  /\ answering = "open" /\ AllOver
  /\ Flush
  /\ answering' = "sent"
  /\ UNCHANGED <<deep, extras, sql, bucket, gated, overlooked>>

StreamRaises ==
  /\ answering = "open"
  /\ answering' = "broken"
  /\ UNCHANGED <<deep, extras, sql, bucket, shipped, seen, gated, overlooked>>

(* The gate asks whether there is a validator's entry at all (and no report;
   turns that make one are not modelled). *)
Gate ==
  LET has(kind) == \E i \in DOMAIN bucket : bucket[i][1] = kind
  IN has("sql") /\ ~has("val")

CloseTurn ==
  /\ answering = "sent"
  /\ gated' = Gate /\ answering' = "done"
  /\ UNCHANGED <<deep, extras, sql, bucket, shipped, seen, overlooked>>

AnswerNext ==
  \/ \E c \in SqlCalls :
       \/ AskSql(c) \/ SpecialistAnswers(c) \/ SpecialistRaises(c)
       \/ Candidate(c) \/ Elect(c)
       \/ AutoValidate(c) \/ NothingToValidate(c) \/ CrossFamilyCheck(c)
  \/ AskValidator \/ StreamYields \/ StreamFinishes \/ StreamRaises \/ CloseTurn

AnswerSpec == AnswerInit /\ [][AnswerNext]_answerVars

----------------------------------------------------------------------------
AnswerTypeOK ==
  /\ deep \in BOOLEAN /\ extras \in BOOLEAN /\ gated \in BOOLEAN
  /\ answering \in {"open", "sent", "done", "broken"}
  /\ \A c \in SqlCalls :
       /\ sql[c].at \in {"idle", "ask", "vote", "check", "validated", "over"}
       /\ sql[c].ballot.cast <= Candidates
  /\ shipped \in 0..Len(bucket) /\ seen \subseteq SqlCalls /\ overlooked \subseteq SqlCalls

(* What the vote elects was returned by no fewer candidates than anything else,
   and passes only if all that as many returned carries a warning it has not. *)
VoteIsSound ==
  \A c \in Voted : sql[c].at = "check" =>
    LET ballot == sql[c].ballot
        env == sql[c].env
        others == Results(ballot) \ {env.result}
    IN \/ Results(ballot) = {} /\ env.vote = "FAIL"
       \/ /\ \A x \in others : ballot.votes[x] <= ballot.votes[env.result]
          /\ env.vote = "PASS" =>
               \A x \in others : \/ ballot.votes[x] < ballot.votes[env.result]
                                 \/ x \in ballot.warned /\ env.result \notin ballot.warned

(* A turn that ends with a result nothing has confirmed, or about which there is
   a concern, has said so: unless the concern came after the frames that would
   have shown it, the validator gave no verdict, or the gate was content with
   the validation of something else. *)
QuietAnswerHasCause ==
  answering = "done" =>
    \A c \in SqlCalls :
      <<"sql", c>> \in ToSet(bucket) /\ (Concern(sql[c].env) \/ sql[c].env.validation # "PASS") =>
        \/ c \in seen \/ gated
        \/ c \in overlooked \/ sql[c].env.validation = "unparsed"
        \/ \E i \in DOMAIN bucket : bucket[i][1] = "val" /\ bucket[i][2] # c
============================================================================
