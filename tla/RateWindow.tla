---------------------------- MODULE RateWindow ----------------------------
(***************************************************************************)
(* The Lua scripts of the rate limiter, each as a function from what the   *)
(* keys of one scope hold, and the arguments, to the verdict and to what   *)
(* the keys hold afterwards. Redis runs a script atomically.               *)
(*                                                                         *)
(* Time is a natural number and w the length of a window in it. The TTLs   *)
(* of the keys outlive two windows, after which a script discards what it  *)
(* finds anyway, so expiry is left out.                                    *)
(***************************************************************************)
EXTENDS Integers, FiniteSets

\* rate_limit_check.lua: a sliding log, the ZSET of admitted requests. A
\* member is a request, so adding it again only moves its score.
Live(log, t, w) == {e \in log : e.at > t - w}

RpmCheckLoose(log, limit, r, t, w) ==  \* mutant: > where the script has >=
  LET live == Live(log, t, w)
  IN IF Cardinality(live) > limit
     THEN [ok |-> FALSE, log |-> live]
     ELSE [ok |-> TRUE,
           log |-> {e \in live : e.req # r} \cup {[req |-> r, at |-> t]}]

RpmCheck(log, limit, r, t, w) ==
  LET live == Live(log, t, w)
  IN IF Cardinality(live) >= limit
     THEN [ok |-> FALSE, log |-> live]
     ELSE [ok |-> TRUE,
           log |-> {e \in live : e.req # r} \cup {[req |-> r, at |-> t]}]

\* rate_limit_tpm_check.lua: two buckets and the marker of the current one.
RotateKeeping(b, t, w) ==  \* mutant: an idle gap does not clear prev
  IF b.win = t \div w THEN b
  ELSE [win |-> t \div w, cur |-> 0, prev |-> b.cur]

\* The script rotates whenever the marker differs from its own bucket.
Rotate(b, t, w) ==
  IF b.win = t \div w THEN b
  ELSE [win |-> t \div w, cur |-> 0,
        prev |-> IF b.win = (t \div w) - 1 THEN b.cur ELSE 0]

\* prev * (1 - elapsed) + cur + n, times w to stay in the integers.
Estimate(b, n, t, w) == b.prev * (w - (t % w)) + (b.cur + n) * w

TpmCheck(bucket, limit, n, t, w) ==
  LET b == Rotate(bucket, t, w)
  IN IF Estimate(b, n, t, w) > limit * w
     THEN [ok |-> FALSE, bucket |-> b]
     ELSE [ok |-> TRUE, bucket |-> [b EXCEPT !.cur = @ + n]]

\* cost_rate_limit_scope.lua: a counter per minute and one per hour, both in
\* the key of their window. A limit of 0 is no limit.
Exceeds(used, c, limit) == limit > 0 /\ used + c > limit

CostCheck(used, windows, c, cpm, cph) ==
  IF Exceeds(used[windows.cpm], c, cpm) \/ Exceeds(used[windows.cph], c, cph)
  THEN [ok |-> FALSE, used |-> used]
  ELSE [ok |-> TRUE,
        used |-> [k \in DOMAIN used |->
                    used[k] + IF k \in {windows.cpm, windows.cph} THEN c ELSE 0]]
===========================================================================
