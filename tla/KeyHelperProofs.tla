-------------------------- MODULE KeyHelperProofs --------------------------
(* Two files, no locks, and any number of helpers, logins and logouts.  The
   invariant speaks of each run through its own locals and the few values it is
   judged by (Theirs, Kept), of the two files (Files), and of the refresh tokens
   in runs, file and IdP (Honoured). *)
EXTENDS KeyHelper, TLAPS

RefreshTokens == Nat \cup {None}
TokenFiles == [user : Users, expires : Int, id : Int, refresh : RefreshTokens,
               from : RefreshTokens, stray : BOOLEAN]
Keys == [user : Users, expires : Int, life : Nat, stray : BOOLEAN]
Tokens == {"refresh", "truncTokens", "writeTokens", "exchange"}
Writing == {"truncTokens", "writeTokens"}
Shown == {"refresh", "truncTokens", "writeTokens"}
Printing == {"truncCache", "writeCache", "print"}
Oidc == {"oidc", "oidcDaemon"}
Runs == [kind : {"none", "oidc", "oidcDaemon", "sts", "stsDaemon"},
         at : {"idle", "asleep", "cache", "tokens", "session", "presign", "request"}
                \cup Tokens \cup Printing,
         began : Nat, held : TokenFiles \cup Users \cup {Nobody, None}, key : Keys \cup {None},
         current : Keys \cup {None}, wake : Int, misses : Nat, stopping : BOOLEAN]

(* The locals of a run at its control points. *)
RunRight(run) ==
  /\ run \in Runs
  /\ run.at \in Tokens => run.held \in TokenFiles /\ run.kind \in Oidc
  /\ run.at = "refresh" => run.held.refresh # None
  /\ run.at = "request" => run.held \in Users
  /\ run.at \in Printing => run.key \in Keys
  /\ run.at \in {"cache", "tokens", "truncCache", "writeCache"} => run.kind \in Oidc
  /\ run.at = "cache" => run.kind \notin Daemons
  /\ run.at \in {"session", "presign", "request"} => run.kind \notin Oidc
  /\ run.at = "asleep" => run.current \in Keys /\ run.kind \in Daemons
  /\ run.current # None => run.kind \in Daemons

(* What a run holds belongs to whoever logged in last, a, or is known not
   to: e is the epoch, and out whether a logout is under way. *)
Good(value, run, e, a) == value.user = a \/ value.stray \/ run.began # e
Theirs(run, e, a, out) ==
  /\ run.began <= e
  /\ run.at \in Tokens => Good(run.held, run, e, a) /\ (out => run.held.stray \/ run.began # e)
  /\ run.at \in Printing /\ run.kind \in Oidc => Good(run.key, run, e, a)

(* At time t, the failed renewals of a daemon make up for the intervals since
   its key came within the margin, up to the next poll. *)
Margin(vk) == Min({RenewMargin, vk.life - 1})
Kept(run, t) ==
  run.kind \in Daemons =>
    /\ run.at \in Printing => run.key.expires = t + run.key.life
    /\ run.current # None \/ run.at = "asleep" =>
         /\ run.misses >= run.wake - run.current.expires + Margin(run.current)
         /\ IF run.at = "asleep" THEN run.wake \in {t, t + 1} ELSE run.wake = t

RunOk(run, t, e, a, out) == RunRight(run) /\ Theirs(run, e, a, out) /\ Kept(run, t)
Ok(run) == RunOk(run, now, epoch, account, Doing("logout"))

Shape ==
  /\ now \in Nat /\ epoch \in Nat /\ minted \in Nat /\ account \in Users \cup {Nobody}
  /\ live \subseteq Nat /\ rotating \in BOOLEAN /\ session \in Users \cup {Nobody}
  /\ proc \in [Helpers -> Runs]
  /\ command \in {None, [does |-> "logout"]} \cup [does : {"login", "write"}, user : Users]

TokensRight(file, a, out) ==
  Readable(file) => /\ file \in TokenFiles /\ (file.user = a \/ file.stray)
                    /\ out => file.stray
CacheRight(file, a) == Readable(file) => file \in Keys /\ (file.user = a \/ file.stray)
Files == TokensRight(tokens, account, Doing("logout")) /\ CacheRight(cache, account)

(* A refresh token a run shows or is about to save is honoured (l, of m
   issued); one that was minted for a run, the IdP rotating (r), is known to
   nobody else. *)
OwnRight(run, l, m, r) ==
  /\ run.at \in Shown /\ run.held.refresh # None =>
       /\ run.held.refresh <= m
       /\ ~r => run.held.refresh \in l
  /\ run.at \in Writing => run.held.refresh # None /\ run.held.refresh \in l
Apart(run, other, r) ==
  r /\ run.at \in Writing /\ other.at \in Shown => other.held.refresh # run.held.refresh
Unfiled(run, file, r) ==
  r /\ run.at \in Writing /\ Readable(file) => file.refresh # run.held.refresh
FileRight(file, l, m, r) ==
  Readable(file) /\ file.refresh # None =>
    /\ file.refresh <= m
    /\ ~r => file.refresh \in l
Covered(file, l, x, p) ==
  Readable(file) /\ file.refresh # None =>
    \/ file.refresh \in l \cup x
    \/ \E h \in Helpers : p[h].at \in Writing /\ p[h].held.from = file.refresh

HonouredRight(p, file, l, m, r, x) ==
  /\ \A t \in l : t <= m
  /\ FileRight(file, l, m, r)
  /\ \A h \in Helpers : OwnRight(p[h], l, m, r) /\ Unfiled(p[h], file, r)
  /\ \A h \in Helpers : \A g \in Helpers \ {h} : Apart(p[h], p[g], r)
  /\ Covered(file, l, x, p)
Honoured == HonouredRight(proc, tokens, live, minted, rotating, lost)

HelperInv == Shape /\ Files /\ Honoured /\ \A h \in Helpers : Ok(proc[h])
----------------------------------------------------------------------------
\* The smaller of two integers, where Min picks it from a set.
LEMMA SmallerOf ==
  ASSUME NEW a \in Int, NEW b \in Int
  PROVE  Min({a, b}) = IF a <= b THEN a ELSE b
<1>1. \E x \in {a, b} : \A y \in {a, b} : x <= y
  OBVIOUS
<1>2. /\ Min({a, b}) \in {a, b}
      /\ \A y \in {a, b} : Min({a, b}) <= y
  BY <1>1 DEF Min
<1>3. QED
  BY <1>2

\* The margin within which a daemon renews is no more than RenewMargin, and
\* less than the life of its key.
LEMMA Margins ==
  ASSUME NEW vk \in Keys
  PROVE  Margin(vk) \in Int /\ Margin(vk) <= RenewMargin /\ Margin(vk) <= vk.life - 1
<1>1. RenewMargin \in Int /\ vk.life - 1 \in Int
  BY HelperAssumption DEF Keys
<1>2. QED
  BY <1>1, SmallerOf DEF Margin

\* A slot without a run is as the invariant wants it.
LEMMA NoRunIsOk ==
  ASSUME Shape
  PROVE  Ok(NoRun) /\ NoRun \in Runs /\ NoRun.at = "idle" /\ NoRun.kind = "none"
BY DEF Shape, NoRun, Ok, RunOk, RunRight, Runs, Theirs, Kept, Tokens, Printing, Daemons

\* A loop's head: what is asleep has its next poll one interval on.
LEMMA AsleepIsOk ==
  ASSUME Shape, NEW run \in Runs, run.current \in Keys, run.kind \in Daemons, run.began <= epoch,
         run.misses >= now + 1 - run.current.expires + Margin(run.current)
  PROVE  Ok(Asleep(run)) /\ Asleep(run) \in Runs /\ Asleep(run).at \in {"idle", "asleep"}
<1>1. CASE run.stopping
  BY <1>1, NoRunIsOk DEF Asleep
<1>2. CASE ~run.stopping
  <2> DEFINE r == Asleep(run)
  <2>1. r = [run EXCEPT !.at = "asleep", !.wake = now + 1, !.held = None, !.key = None]
    BY <1>2 DEF Asleep
  <2>2. now + 1 \in Int
    BY DEF Shape
  <2>3. /\ r \in Runs /\ r.at = "asleep" /\ r.wake = now + 1 /\ r.kind = run.kind
        /\ r.current = run.current /\ r.misses = run.misses /\ r.began = run.began
    BY <2>1, <2>2 DEF Runs
  <2> HIDE DEF r
  <2>4. RunRight(r)
    BY <2>3 DEF RunRight, Tokens, Printing
  <2>5. Theirs(r, epoch, account, Doing("logout"))
    BY <2>3 DEF Theirs, Tokens, Printing
  <2>6. Kept(r, now)
    <3>1. /\ Margin(run.current) \in Int /\ run.current.expires \in Int /\ run.misses \in Nat
          /\ now \in Nat
      BY Margins DEF Keys, Runs, Shape
    <3>2. r.misses >= r.wake - r.current.expires + Margin(r.current)
      BY <2>3, <3>1
    <3>3. r.wake \in {now, now + 1}
      BY <2>3
    <3>4. QED
      BY <2>3, <3>2, <3>3 DEF Kept, Printing
  <2>7. QED
    BY <2>3, <2>4, <2>5, <2>6 DEF r, Ok, RunOk
<1>3. QED
  BY <1>1, <1>2

\* A failure: the end of a one-shot run, another missed renewal of a daemon.
Failed(run) == IF run.current = None THEN NoRun
               ELSE Asleep([run EXCEPT !.misses = run.misses + 1])

LEMMA FailureIsOk ==
  ASSUME Shape, NEW run \in Runs, Ok(run), run.at # "asleep"
  PROVE  Ok(Failed(run)) /\ Failed(run) \in Runs /\ Failed(run).at \in {"idle", "asleep"}
<1>1. CASE run.current = None
  BY <1>1, NoRunIsOk DEF Failed
<1>2. CASE run.current # None
  <2> DEFINE r == [run EXCEPT !.misses = run.misses + 1]
  <2>1. /\ r \in Runs /\ r.current = run.current /\ r.kind = run.kind /\ r.began = run.began
        /\ r.misses = run.misses + 1 /\ run.misses \in Nat
    BY DEF Runs
  <2>2. Failed(run) = Asleep(r)
    BY <1>2 DEF Failed
  <2> HIDE DEF r
  <2>3. /\ run.current \in Keys /\ run.kind \in Daemons /\ run.began <= epoch /\ run.wake = now
        /\ run.misses >= run.wake - run.current.expires + Margin(run.current)
    BY <1>2 DEF Ok, RunOk, RunRight, Runs, Theirs, Kept
  <2>4. run.current.expires \in Int /\ Margin(run.current) \in Int /\ now \in Nat
    BY <2>3, Margins DEF Keys, Shape
  <2>5. r.misses >= now + 1 - r.current.expires + Margin(r.current)
    BY <2>1, <2>3, <2>4
  <2>6. QED
    BY <2>1, <2>2, <2>3, <2>5, AsleepIsOk
<1>3. QED
  BY <1>1, <1>2

\* One run changes, and nothing the others are judged by.
LEMMA OneRun ==
  ASSUME Shape, \A g \in Helpers : Ok(proc[g]), NEW h \in Helpers, NEW run \in Runs, Ok(run),
         proc' = [proc EXCEPT ![h] = run], UNCHANGED <<now, epoch, account, command>>
  PROVE  proc' \in [Helpers -> Runs] /\ \A g \in Helpers : Ok(proc[g])'
<1>1. proc' \in [Helpers -> Runs]
  BY DEF Shape
<1>2. Doing("logout")' = Doing("logout")
  BY DEF Doing
<1>3. ASSUME NEW g \in Helpers
      PROVE  RunOk(proc'[g], now, epoch, account, Doing("logout"))
  <2>1. proc'[g] = run \/ proc'[g] = proc[g]
    BY DEF Shape
  <2>2. QED
    BY <2>1 DEF Ok
<1>4. QED
  BY <1>1, <1>2, <1>3 DEF Ok

\* A failure, an exception nobody names, and the end of a run.
LEMMA RunFails ==
  ASSUME Shape, \A g \in Helpers : Ok(proc[g]), NEW h \in Helpers, proc[h].at # "asleep",
         Fail(h) \/ Crash(h), UNCHANGED <<now, epoch, account, command>>
  PROVE  proc' \in [Helpers -> Runs] /\ \A g \in Helpers : Ok(proc[g])'
<1>1. CASE Fail(h)
  <2>1. proc' = [proc EXCEPT ![h] = Failed(proc[h])]
    BY <1>1 DEF Fail, Becomes, Failed
  <2>2. proc[h] \in Runs
    BY DEF Shape
  <2>3. QED
    BY <2>1, <2>2, FailureIsOk, OneRun
<1>2. CASE Crash(h)
  BY <1>2, NoRunIsOk, OneRun DEF Crash, Becomes
<1>3. QED
  BY <1>1, <1>2

\* After any step of a run, every run is as the invariant wants it.
LEMMA RunStays ==
  ASSUME HelperInv, NEW h \in Helpers, Step(h)
  PROVE  proc' \in [Helpers -> Runs] /\ \A g \in Helpers : Ok(proc[g])'
<1>1. /\ Shape /\ Files /\ \A g \in Helpers : Ok(proc[g])
      /\ proc[h] \in Runs /\ Ok(proc[h])
  BY DEF HelperInv, Shape
<1>2. CASE TruncateTokens(h)
  <2> DEFINE run == [proc[h] EXCEPT !.at = "writeTokens"]
  <2>1. /\ proc[h].at = "truncTokens"
        /\ proc' = [proc EXCEPT ![h] = run] /\ UNCHANGED <<now, epoch, account, command>>
    BY <1>2 DEF TruncateTokens, At, Go, Becomes, history
  <2>2. /\ run \in Runs
        /\ run.at = "writeTokens" /\ run.held = proc[h].held /\ run.key = proc[h].key
        /\ run.kind = proc[h].kind /\ run.began = proc[h].began /\ run.current = proc[h].current
        /\ run.wake = proc[h].wake /\ run.misses = proc[h].misses
    BY <1>1, <2>1 DEF Runs, Tokens, Printing
  <2> HIDE DEF run
  <2>3. Ok(run)
    BY <1>1, <2>1, <2>2 DEF Ok, RunOk, RunRight, Theirs, Good, Kept, Tokens, Printing, Oidc, Daemons
  <2>4. QED
    BY <1>1, <2>1, <2>2, <2>3, OneRun
<1>3. CASE TruncateCache(h)
  <2> DEFINE run == [proc[h] EXCEPT !.at = "writeCache"]
  <2>1. /\ proc[h].at = "truncCache"
        /\ proc' = [proc EXCEPT ![h] = run] /\ UNCHANGED <<now, epoch, account, command>>
    BY <1>3 DEF TruncateCache, At, Go, Becomes, history
  <2>2. /\ run \in Runs
        /\ run.at = "writeCache" /\ run.held = proc[h].held /\ run.key = proc[h].key
        /\ run.kind = proc[h].kind /\ run.began = proc[h].began /\ run.current = proc[h].current
        /\ run.wake = proc[h].wake /\ run.misses = proc[h].misses
    BY <1>1, <2>1 DEF Runs, Tokens, Printing
  <2> HIDE DEF run
  <2>3. Ok(run)
    BY <1>1, <2>1, <2>2 DEF Ok, RunOk, RunRight, Theirs, Good, Kept, Tokens, Printing, Oidc, Daemons
  <2>4. QED
    BY <1>1, <2>1, <2>2, <2>3, OneRun
<1>4. CASE WriteCache(h)
  <2> DEFINE run == [proc[h] EXCEPT !.at = "print"]
  <2>1. /\ proc[h].at = "writeCache"
        /\ proc' = [proc EXCEPT ![h] = run] /\ UNCHANGED <<now, epoch, account, command>>
    BY <1>4 DEF WriteCache, At, Go, Becomes, history
  <2>2. /\ run \in Runs
        /\ run.at = "print" /\ run.held = proc[h].held /\ run.key = proc[h].key
        /\ run.kind = proc[h].kind /\ run.began = proc[h].began /\ run.current = proc[h].current
        /\ run.wake = proc[h].wake /\ run.misses = proc[h].misses
    BY <1>1, <2>1 DEF Runs, Tokens, Printing
  <2> HIDE DEF run
  <2>3. Ok(run)
    BY <1>1, <2>1, <2>2 DEF Ok, RunOk, RunRight, Theirs, Good, Kept, Tokens, Printing, Oidc, Daemons
  <2>4. QED
    BY <1>1, <2>1, <2>2, <2>3, OneRun
<1>5. ASSUME NEW daemon \in BOOLEAN, Start(h, daemon)
      PROVE  proc' \in [Helpers -> Runs] /\ \A g \in Helpers : Ok(proc[g])'
  <2> DEFINE kind == Kind(oidc, daemon)
             at == CASE oidc /\ ~daemon -> "cache"
                     [] oidc /\ daemon -> "tokens"
                     [] OTHER -> "session"
             run == [NoRun EXCEPT !.kind = kind, !.began = epoch, !.at = at]
  <2>1. /\ proc' = [proc EXCEPT ![h] = run] /\ UNCHANGED <<now, epoch, account, command>>
    BY <1>5 DEF Start, Becomes, history
  <2>2. /\ kind \in {"oidc", "oidcDaemon", "sts", "stsDaemon"} /\ at \in {"cache", "tokens", "session"}
        /\ at = "cache" => kind = "oidc"
        /\ at = "tokens" => kind = "oidcDaemon"
        /\ at = "session" => kind \in {"sts", "stsDaemon"}
    BY <1>5 DEF Kind
  <2> HIDE DEF kind, at
  <2>3. /\ run \in Runs /\ run.kind = kind /\ run.at = at /\ run.began = epoch /\ run.current = None
    <3>1. NoRun.current = None /\ NoRun \in Runs /\ epoch \in Nat
      BY <1>1, NoRunIsOk DEF NoRun, Shape
    <3>2. QED
      BY <2>2, <3>1 DEF Runs
  <2> HIDE DEF run
  <2>4. Ok(run)
    BY <1>1, <2>2, <2>3 DEF Ok, RunOk, RunRight, Theirs, Good, Kept, Tokens, Printing, Oidc, Daemons, Shape
  <2>5. QED
    BY <1>1, <2>1, <2>3, <2>4, OneRun
<1>6. CASE ReadCache(h)
  <2>1. CASE Usable(cache)
    <3> DEFINE run == [proc[h] EXCEPT !.at = "print", !.key = cache]
    <3>1. /\ proc[h].at = "cache" /\ cache \in Keys /\ (cache.user = account \/ cache.stray)
          /\ proc' = [proc EXCEPT ![h] = run] /\ UNCHANGED <<now, epoch, account, command>>
      BY <1>1, <1>6, <2>1 DEF ReadCache, Usable, Files, CacheRight, At, Go, Becomes, history
    <3>2. /\ run \in Runs
          /\ run.at = "print" /\ run.key = cache
          /\ run.kind = proc[h].kind /\ run.began = proc[h].began /\ run.current = proc[h].current
          /\ run.wake = proc[h].wake /\ run.misses = proc[h].misses
      BY <1>1, <3>1 DEF Runs, Tokens, Printing
    <3> HIDE DEF run
    <3>3. Ok(run)
      BY <1>1, <3>1, <3>2 DEF Ok, RunOk, RunRight, Theirs, Good, Kept, Tokens, Printing, Oidc, Daemons
    <3>4. QED
      BY <1>1, <3>1, <3>2, <3>3, OneRun
  <2>2. CASE ~Usable(cache)
    <3> DEFINE run == [proc[h] EXCEPT !.at = "tokens"]
    <3>1. /\ proc[h].at = "cache"
          /\ proc' = [proc EXCEPT ![h] = run] /\ UNCHANGED <<now, epoch, account, command>>
      BY <1>6, <2>2 DEF ReadCache, At, Go, Becomes, history
    <3>2. /\ run \in Runs
          /\ run.at = "tokens"
          /\ run.kind = proc[h].kind /\ run.began = proc[h].began /\ run.current = proc[h].current
          /\ run.wake = proc[h].wake /\ run.misses = proc[h].misses
      BY <1>1, <3>1 DEF Runs, Tokens, Printing
    <3> HIDE DEF run
    <3>3. Ok(run)
      BY <1>1, <3>1, <3>2 DEF Ok, RunOk, RunRight, Theirs, Good, Kept, Tokens, Printing, Oidc, Daemons
    <3>4. QED
      BY <1>1, <3>1, <3>2, <3>3, OneRun
  <2>3. QED
    BY <2>1, <2>2
<1>7. CASE LoadTokens(h)
  <2>1. CASE Fail(h)
    BY <1>1, <1>7, <2>1, RunFails DEF LoadTokens, At, history
  <2>2. CASE ~Fail(h)
    <3> DEFINE run == [proc[h] EXCEPT !.at = IF now >= tokens.expires THEN "refresh" ELSE "exchange", !.held = tokens]
    <3>1. /\ proc[h].at = "tokens" /\ Readable(tokens)
          /\ now >= tokens.expires => tokens.refresh # None
          /\ proc' = [proc EXCEPT ![h] = run] /\ UNCHANGED <<now, epoch, account, command>>
      BY <1>7, <2>2 DEF LoadTokens, At, Go, Becomes, history
    <3>5. /\ tokens \in TokenFiles /\ (tokens.user = account \/ tokens.stray)
          /\ Doing("logout") => tokens.stray
      BY <1>1, <3>1 DEF Files, TokensRight
    <3>2. /\ run \in Runs
          /\ run.at \in {"refresh", "exchange"} /\ run.held = tokens
          /\ run.at = "refresh" => tokens.refresh # None
          /\ run.kind = proc[h].kind /\ run.began = proc[h].began /\ run.current = proc[h].current
          /\ run.wake = proc[h].wake /\ run.misses = proc[h].misses
      BY <1>1, <3>1, <3>5 DEF Runs, Tokens, Printing
    <3> HIDE DEF run
    <3>3. Ok(run)
      BY <1>1, <3>1, <3>2, <3>5 DEF Ok, RunOk, RunRight, Theirs, Good, Kept, Tokens, Printing, Oidc, Daemons
    <3>4. QED
      BY <1>1, <3>1, <3>2, <3>3, OneRun
  <2>3. QED
    BY <2>1, <2>2
<1>8. CASE Refresh(h)
  <2>1. PICK id \in {proc[h].held.id, now + TokenLife} :
          proc' = [proc EXCEPT ![h] = [proc[h] EXCEPT !.at = "truncTokens",
                     !.held = Renewed(proc[h].held, IF rotating THEN minted' ELSE None, id)]]
    BY <1>8 DEF Refresh, Becomes
  <2>2. /\ proc[h].at = "refresh" /\ UNCHANGED <<now, epoch, account, command>>
        /\ rotating => minted' = minted + 1
    BY <1>8 DEF Refresh, Rotate, At, history
  <2> DEFINE old == proc[h].held
             held == Renewed(old, IF rotating THEN minted' ELSE None, id)
             run == [proc[h] EXCEPT !.at = "truncTokens", !.held = held]
  <2>3. old \in TokenFiles /\ proc[h].kind \in Oidc
    BY <1>1, <2>2 DEF Ok, RunOk, RunRight, Tokens
  <2>4. held \in TokenFiles /\ held.user = old.user /\ held.stray = old.stray
    <3>1. /\ now + TokenLife \in Int /\ id \in Int
          /\ rotating => minted' \in Nat
      BY <1>1, <2>2, <2>3, HelperAssumption DEF Shape, TokenFiles
    <3> DEFINE token == IF (IF rotating THEN minted' ELSE None) = None THEN old.refresh
                        ELSE IF rotating THEN minted' ELSE None
    <3>2. token \in RefreshTokens
      BY <2>3, <3>1 DEF TokenFiles, RefreshTokens
    <3>3. held = [old EXCEPT !.expires = now + TokenLife, !.id = id, !.from = old.refresh,
                             !.refresh = token]
      BY DEF Renewed
    <3> HIDE DEF token, held
    <3>4. QED
      BY <2>3, <3>1, <3>2, <3>3 DEF TokenFiles
  <2> HIDE DEF held
  <2>5. /\ run \in Runs /\ run.at = "truncTokens" /\ run.held = held /\ run.kind = proc[h].kind
        /\ run.began = proc[h].began /\ run.current = proc[h].current
        /\ run.wake = proc[h].wake /\ run.misses = proc[h].misses
    BY <1>1, <2>4 DEF Runs, Tokens
  <2> HIDE DEF run
  <2>6. Ok(run)
    BY <1>1, <2>2, <2>3, <2>4, <2>5 DEF Ok, RunOk, RunRight, Theirs, Good, Kept, Tokens, Printing, Oidc, Daemons
  <2>7. proc' = [proc EXCEPT ![h] = run]
    BY <2>1 DEF run, held
  <2>8. QED
    BY <1>1, <2>2, <2>5, <2>6, <2>7, OneRun
<1>9. CASE RefreshFails(h)
  BY <1>1, <1>9, RunFails DEF RefreshFails, At
<1>10. CASE WriteTokens(h)
  <2>1. /\ proc[h].at = "writeTokens" /\ UNCHANGED <<now, epoch, account, command>>
        /\ tokens' = Stray(h, proc[h].held)
        /\ IF proc[h].kind = "oidc" /\ tokens'.id = 0 THEN Fail(h)
           ELSE Becomes(h, [proc[h] EXCEPT !.at = "exchange", !.held = tokens'])
    BY <1>10 DEF WriteTokens, At, history
  <2>2. /\ tokens' \in TokenFiles /\ tokens'.user = proc[h].held.user
        /\ proc[h].held.stray => tokens'.stray
        /\ proc[h].kind \in Oidc
    <3>1. proc[h].held \in TokenFiles /\ proc[h].kind \in Oidc
      BY <1>1, <2>1 DEF Ok, RunOk, RunRight, Tokens
    <3> DEFINE stray == proc[h].held.stray \/ proc[h].began # epoch
    <3>2. stray \in BOOLEAN /\ tokens' = [proc[h].held EXCEPT !.stray = stray]
      BY <2>1 DEF Stray
    <3>3. proc[h].held.stray => stray
      OBVIOUS
    <3> HIDE DEF stray
    <3>4. QED
      BY <3>1, <3>2, <3>3 DEF TokenFiles
  <2>3. CASE Fail(h)
    BY <1>1, <2>1, <2>3, RunFails
  <2>4. CASE ~Fail(h)
    <3> DEFINE run == [proc[h] EXCEPT !.at = "exchange", !.held = tokens']
    <3>1. /\ proc[h].at = "writeTokens"
          /\ proc' = [proc EXCEPT ![h] = run] /\ UNCHANGED <<now, epoch, account, command>>
      BY <2>1, <2>4 DEF Becomes
    <3>2. /\ run \in Runs
          /\ run.at = "exchange" /\ run.held = tokens'
          /\ run.kind = proc[h].kind /\ run.began = proc[h].began /\ run.current = proc[h].current
          /\ run.wake = proc[h].wake /\ run.misses = proc[h].misses
      BY <1>1, <3>1, <2>2 DEF Runs, Tokens, Printing
    <3> HIDE DEF run
    <3>3. Ok(run)
      BY <1>1, <3>1, <3>2, <2>2 DEF Ok, RunOk, RunRight, Theirs, Good, Kept, Tokens, Printing, Oidc, Daemons
    <3>4. QED
      BY <1>1, <3>1, <3>2, <3>3, OneRun
  <2>5. QED
    BY <2>3, <2>4
<1>11. ASSUME NEW user \in Users, NEW stray \in BOOLEAN, NEW next \in {"truncCache", "print"},
              Issue(h, user, stray, next), UNCHANGED <<now, epoch, account, command>>,
              proc[h].at \in {"exchange", "request"},
              next = "truncCache" => proc[h].kind \in Oidc,
              proc[h].kind \in Oidc => user = account \/ stray \/ proc[h].began # epoch
       PROVE  proc' \in [Helpers -> Runs] /\ \A g \in Helpers : Ok(proc[g])'
  <2>1. PICK life \in Lives \cup {0} :
          proc' = [proc EXCEPT ![h] = [proc[h] EXCEPT !.at = next, !.key = NewKey(user, stray, life)]]
    BY <1>11 DEF Issue, Becomes
  <2> DEFINE key == NewKey(user, stray, life)
             run == [proc[h] EXCEPT !.at = next, !.key = key]
  <2>2. /\ key \in Keys /\ key.user = user /\ key.stray = stray /\ key.expires = now + key.life
    <3>1. life \in Nat /\ now + life \in Int
      BY <1>1, HelperAssumption DEF Shape
    <3>2. QED
      BY <3>1 DEF NewKey, Keys
  <2> HIDE DEF key
  <2>3. /\ run \in Runs /\ run.at = next /\ run.key = key /\ run.kind = proc[h].kind
        /\ run.began = proc[h].began /\ run.current = proc[h].current
        /\ run.wake = proc[h].wake /\ run.misses = proc[h].misses
    BY <1>1, <2>2 DEF Runs, Printing
  <2> HIDE DEF run
  <2>4. Ok(run)
    BY <1>1, <1>11, <2>2, <2>3 DEF Ok, RunOk, RunRight, Theirs, Good, Kept, Tokens, Printing, Oidc, Daemons
  <2>5. proc' = [proc EXCEPT ![h] = run]
    BY <2>1 DEF run, key
  <2>6. QED
    BY <1>1, <1>11, <2>3, <2>4, <2>5, OneRun
<1>12. CASE Exchange(h)
  <2>1. /\ proc[h].at = "exchange" /\ UNCHANGED <<now, epoch, account, command>>
        /\ Issue(h, proc[h].held.user, proc[h].held.stray, "truncCache")
    BY <1>12 DEF Exchange, At, history
  <2>2. /\ proc[h].held.user \in Users /\ proc[h].held.stray \in BOOLEAN /\ proc[h].kind \in Oidc
        /\ Good(proc[h].held, proc[h], epoch, account)
    BY <1>1, <2>1 DEF Ok, RunOk, RunRight, Theirs, Tokens, TokenFiles
  <2>3. QED
    BY <1>11, <2>1, <2>2 DEF Good
<1>13. CASE RequestKey(h)
  <2>1. /\ proc[h].at = "request" /\ UNCHANGED <<now, epoch, account, command>>
        /\ Issue(h, proc[h].held, FALSE, "print")
    BY <1>13 DEF RequestKey, At, history
  <2>2. /\ proc[h].held \in Users /\ proc[h].kind \notin Oidc
    BY <1>1, <2>1 DEF Ok, RunOk, RunRight, Oidc
  <2>3. QED
    BY <1>11, <2>1, <2>2
<1>14. CASE ExchangeFails(h) \/ RequestFails(h)
  BY <1>1, <1>14, RunFails DEF ExchangeFails, RequestFails, At, history
<1>15. CASE CheckSession(h)
  <2>1. CASE session = Nobody
    BY <1>1, <1>15, <2>1, RunFails DEF CheckSession, At, history
  <2>2. CASE session # Nobody
    <3> DEFINE run == [proc[h] EXCEPT !.at = "presign"]
    <3>1. /\ proc[h].at = "session"
          /\ proc' = [proc EXCEPT ![h] = run] /\ UNCHANGED <<now, epoch, account, command>>
      BY <1>15, <2>2 DEF CheckSession, At, Go, Becomes, history
    <3>2. /\ run \in Runs
          /\ run.at = "presign"
          /\ run.kind = proc[h].kind /\ run.began = proc[h].began /\ run.current = proc[h].current
          /\ run.wake = proc[h].wake /\ run.misses = proc[h].misses
      BY <1>1, <3>1 DEF Runs, Tokens, Printing
    <3> HIDE DEF run
    <3>3. Ok(run)
      BY <1>1, <3>1, <3>2 DEF Ok, RunOk, RunRight, Theirs, Good, Kept, Tokens, Printing, Oidc, Daemons
    <3>4. QED
      BY <1>1, <3>1, <3>2, <3>3, OneRun
  <2>3. QED
    BY <2>1, <2>2
<1>16. CASE Presign(h)
  <2>1. CASE session = Nobody
    BY <1>1, <1>16, <2>1, RunFails DEF Presign, At, history
  <2>2. CASE session # Nobody
    <3> DEFINE run == [proc[h] EXCEPT !.at = "request", !.held = session]
    <3>1. /\ proc[h].at = "presign" /\ session \in Users
          /\ proc' = [proc EXCEPT ![h] = run] /\ UNCHANGED <<now, epoch, account, command>>
      BY <1>1, <1>16, <2>2 DEF Presign, Shape, At, Go, Becomes, history
    <3>2. /\ run \in Runs
          /\ run.at = "request" /\ run.held = session
          /\ run.kind = proc[h].kind /\ run.began = proc[h].began /\ run.current = proc[h].current
          /\ run.wake = proc[h].wake /\ run.misses = proc[h].misses
      BY <1>1, <3>1 DEF Runs, Tokens, Printing
    <3> HIDE DEF run
    <3>3. Ok(run)
      BY <1>1, <3>1, <3>2 DEF Ok, RunOk, RunRight, Theirs, Good, Kept, Tokens, Printing, Oidc, Daemons
    <3>4. QED
      BY <1>1, <3>1, <3>2, <3>3, OneRun
  <2>3. QED
    BY <2>1, <2>2
<1>17. CASE PrintKey(h)
  <2>1. /\ proc[h].at = "print" /\ UNCHANGED <<now, epoch, account, command>>
    BY <1>17 DEF PrintKey, At, history
  <2>2. CASE proc[h].kind \in Daemons
    <3> DEFINE run == [proc[h] EXCEPT !.current = proc[h].key, !.misses = 0]
    <3>1. proc' = [proc EXCEPT ![h] = Asleep(run)]
      BY <1>17, <2>2 DEF PrintKey, Becomes
    <3>2. /\ proc[h].key \in Keys /\ proc[h].key.expires = now + proc[h].key.life
          /\ proc[h].began <= epoch
      BY <1>1, <2>1, <2>2 DEF Ok, RunOk, RunRight, Theirs, Kept, Printing
    <3>3. /\ run \in Runs /\ run.current = proc[h].key /\ run.misses = 0 /\ run.kind = proc[h].kind
          /\ run.began = proc[h].began
      BY <1>1, <3>2 DEF Runs
    <3> HIDE DEF run
    <3>4. run.misses >= now + 1 - run.current.expires + Margin(run.current)
      <4>1. /\ Margin(proc[h].key) \in Int /\ Margin(proc[h].key) <= proc[h].key.life - 1
            /\ proc[h].key.life \in Nat /\ now \in Nat
        BY <1>1, <3>2, Margins DEF Keys, Shape
      <4>2. QED
        BY <3>2, <3>3, <4>1
    <3>5. Ok(Asleep(run)) /\ Asleep(run) \in Runs
      BY <1>1, <2>2, <3>2, <3>3, <3>4, AsleepIsOk
    <3>6. QED
      BY <1>1, <2>1, <3>1, <3>5, OneRun
  <2>3. CASE proc[h].kind \notin Daemons
    <3>1. proc' = [proc EXCEPT ![h] = NoRun]
      BY <1>17, <2>3 DEF PrintKey, Becomes
    <3>2. QED
      BY <1>1, <2>1, <3>1, NoRunIsOk, OneRun
  <2>4. QED
    BY <2>2, <2>3
<1>18. CASE Poll(h)
  <2>1. /\ proc[h].at = "asleep" /\ proc[h].wake = now /\ UNCHANGED <<now, epoch, account, command>>
    BY <1>18 DEF Poll, At, history
  <2>2. /\ proc[h].kind \in Daemons /\ proc[h].current \in Keys /\ proc[h].began <= epoch
        /\ proc[h].misses >= now - proc[h].current.expires + Margin(proc[h].current)
    BY <1>1, <2>1 DEF Ok, RunOk, RunRight, Theirs, Kept
  <2>3. CASE Ends(proc[h])
    <3>1. proc' = [proc EXCEPT ![h] = NoRun]
      BY <1>18, <2>3 DEF Poll, Becomes
    <3>2. QED
      BY <1>1, <2>1, <3>1, NoRunIsOk, OneRun
  <2>4. CASE ~Ends(proc[h]) /\ ~Due(proc[h].current)
    <3>1. proc' = [proc EXCEPT ![h] = Asleep(proc[h])]
      BY <1>18, <2>4 DEF Poll, Becomes
    <3>2. proc[h].misses >= now + 1 - proc[h].current.expires + Margin(proc[h].current)
      <4>1. /\ Margin(proc[h].current) \in Int /\ Margin(proc[h].current) <= RenewMargin
            /\ proc[h].current.expires \in Int /\ now \in Nat /\ RenewMargin \in Nat
            /\ proc[h].misses \in Nat
        BY <1>1, <2>2, Margins, HelperAssumption DEF Keys, Shape, Runs
      <4>2. proc[h].current.expires - now > RenewMargin
        BY <2>4, <4>1 DEF Due
      <4>3. QED
        BY <4>1, <4>2
    <3>3. Ok(Asleep(proc[h])) /\ Asleep(proc[h]) \in Runs
      BY <1>1, <2>2, <3>2, AsleepIsOk
    <3>4. QED
      BY <1>1, <2>1, <3>1, <3>3, OneRun
  <2>5. CASE ~Ends(proc[h]) /\ Due(proc[h].current)
    <3> DEFINE at == IF proc[h].kind = "stsDaemon" THEN "session" ELSE "tokens"
               run == [proc[h] EXCEPT !.began = epoch, !.at = at]
    <3>1. proc' = [proc EXCEPT ![h] = run]
      BY <1>18, <2>5 DEF Poll, Becomes
    <3>2. /\ at \in {"session", "tokens"} /\ epoch \in Nat
          /\ at = "session" => proc[h].kind = "stsDaemon"
          /\ at = "tokens" => proc[h].kind = "oidcDaemon"
      BY <1>1, <2>2 DEF Shape, Daemons
    <3> HIDE DEF at
    <3>3. /\ run \in Runs /\ run.at = at /\ run.began = epoch /\ run.kind = proc[h].kind
          /\ run.current = proc[h].current /\ run.wake = proc[h].wake
          /\ run.misses = proc[h].misses
      BY <1>1, <3>2 DEF Runs
    <3> HIDE DEF run
    <3>4. RunRight(run)
      BY <2>2, <3>2, <3>3 DEF RunRight, Tokens, Printing, Oidc
    <3>5. Theirs(run, epoch, account, Doing("logout"))
      BY <3>2, <3>3 DEF Theirs, Tokens, Printing
    <3>6. Kept(run, now)
      <4>1. run.misses >= run.wake - run.current.expires + Margin(run.current)
        BY <2>1, <2>2, <3>3
      <4>2. run.wake = now /\ run.at # "asleep" /\ run.at \notin Printing
        BY <2>1, <3>2, <3>3 DEF Printing
      <4>3. QED
        BY <4>1, <4>2 DEF Kept
    <3>7. QED
      BY <1>1, <2>1, <3>1, <3>3, <3>4, <3>5, <3>6, OneRun DEF Ok, RunOk
  <2>6. QED
    BY <2>3, <2>4, <2>5
<1>19. CASE Terminate(h)
  <2> DEFINE run == [proc[h] EXCEPT !.stopping = TRUE]
  <2>1. proc' = [proc EXCEPT ![h] = run] /\ UNCHANGED <<now, epoch, account, command>>
    BY <1>19 DEF Terminate, Becomes, history
  <2>2. /\ run \in Runs /\ run.at = proc[h].at /\ run.began = proc[h].began
        /\ run.kind = proc[h].kind /\ run.current = proc[h].current /\ run.wake = proc[h].wake
        /\ run.misses = proc[h].misses /\ run.held = proc[h].held /\ run.key = proc[h].key
    BY <1>1 DEF Runs
  <2> HIDE DEF run
  <2>3. RunRight(run)
    BY <1>1, <2>2 DEF Ok, RunOk, RunRight
  <2>4. Theirs(run, epoch, account, Doing("logout"))
    BY <1>1, <2>2 DEF Ok, RunOk, Theirs, Good
  <2>5. Kept(run, now)
    BY <1>1, <2>2 DEF Ok, RunOk, Kept
  <2>6. QED
    BY <1>1, <2>1, <2>2, <2>3, <2>4, <2>5, OneRun DEF Ok, RunOk
<1>20. CASE Kill(h)
  <2>1. proc' = [proc EXCEPT ![h] = NoRun] /\ UNCHANGED <<now, epoch, account, command>>
    BY <1>20 DEF Kill, Crash, Becomes
  <2>2. QED
    BY <1>1, <2>1, NoRunIsOk, OneRun
<1>21. QED
  BY <1>2, <1>3, <1>4, <1>5, <1>6, <1>7, <1>8, <1>9, <1>10, <1>12, <1>13, <1>14, <1>15, <1>16,
     <1>17, <1>18, <1>19, <1>20 DEF Step

\* A file that is absent, or truncated and not yet written, is not read.
LEMMA NotReadable == ~Readable(Torn) /\ ~Readable(None)
BY DEF Readable

\* The two files hold keys and tokens of the account, or known not to be.
LEMMA FilesStay ==
  ASSUME HelperInv, NEW h \in Helpers, Step(h)
  PROVE  Shape' /\ Files'
<1>1. Shape /\ Files /\ proc[h] \in Runs /\ Ok(proc[h])
  BY DEF HelperInv, Shape
<1>2. /\ now' = now /\ epoch' = epoch /\ account' = account /\ session' = session
      /\ command' = command /\ rotating' = rotating
      /\ minted' \in Nat /\ live' \subseteq Nat
  <2>1. CASE Refresh(h) \/ RefreshFails(h)
    <3>1. ASSUME NEW token, Rotate(token)
          PROVE  minted' \in Nat /\ live' \subseteq Nat /\ UNCHANGED rotating
      <4>1. minted \in Nat /\ minted + 1 \in Nat /\ live \subseteq Nat
        BY <1>1 DEF Shape
      <4>2. UNCHANGED rotating /\ (\/ UNCHANGED <<live, minted>>
                                   \/ minted' = minted + 1 /\ live' = (live \ {token}) \cup {minted'})
        BY <3>1 DEF Rotate
      <4>3. QED
        BY <4>1, <4>2
    <3>2. CASE Refresh(h)
      BY <3>1, <3>2 DEF Refresh, history
    <3>3. CASE RefreshFails(h)
      BY <1>1, <3>1, <3>3 DEF RefreshFails, Shape, idp
    <3>4. QED
      BY <2>1, <3>2, <3>3
  <2>2. CASE ~(Refresh(h) \/ RefreshFails(h))
    BY <1>1, <2>2 DEF Shape, Step, Start, ReadCache, LoadTokens, TruncateTokens, WriteTokens, Exchange,
       ExchangeFails, TruncateCache, WriteCache, PrintKey, CheckSession, Presign, RequestKey,
       RequestFails, Poll, Terminate, Kill, idp, history
  <2>3. QED
    BY <2>1, <2>2
<1>3. Shape'
  BY <1>1, <1>2, RunStays DEF Shape
<1>10. Doing("logout")' = Doing("logout")
  BY <1>2 DEF Doing
<1>4. CASE TruncateTokens(h)
  <2>1. tokens' = Torn /\ cache' = cache
    BY <1>4 DEF TruncateTokens
  <2>2. QED
    BY <1>1, <1>2, <1>3, <1>10, <2>1, NotReadable DEF Files, TokensRight
<1>5. CASE WriteTokens(h)
  <2>1. /\ proc[h].at = "writeTokens" /\ tokens' = Stray(h, proc[h].held) /\ UNCHANGED cache
    BY <1>5 DEF WriteTokens, At
  <2>2. /\ proc[h].held \in TokenFiles /\ Good(proc[h].held, proc[h], epoch, account)
        /\ Doing("logout") => proc[h].held.stray \/ proc[h].began # epoch
    BY <1>1, <2>1 DEF Ok, RunOk, RunRight, Theirs, Tokens
  <2> DEFINE stray == proc[h].held.stray \/ proc[h].began # epoch
  <2>3. /\ stray \in BOOLEAN /\ tokens' = [proc[h].held EXCEPT !.stray = stray]
        /\ proc[h].held.user = account \/ stray
        /\ Doing("logout") => stray
    BY <2>1, <2>2 DEF Stray, Good
  <2> HIDE DEF stray
  <2>4. /\ tokens' \in TokenFiles /\ (tokens'.user = account \/ tokens'.stray)
        /\ Doing("logout") => tokens'.stray
    BY <2>2, <2>3 DEF TokenFiles
  <2>5. QED
    BY <1>1, <1>2, <1>3, <1>10, <2>1, <2>4 DEF Files, TokensRight
<1>6. CASE TruncateCache(h)
  <2>1. cache' = Torn /\ tokens' = tokens
    BY <1>6 DEF TruncateCache
  <2>2. QED
    BY <1>1, <1>2, <1>3, <1>10, <2>1, NotReadable DEF Files, CacheRight
<1>7. CASE WriteCache(h)
  <2>1. /\ proc[h].at = "writeCache" /\ cache' = Stray(h, proc[h].key) /\ UNCHANGED tokens
    BY <1>7 DEF WriteCache, At
  <2>2. /\ proc[h].key \in Keys /\ Good(proc[h].key, proc[h], epoch, account)
    BY <1>1, <2>1 DEF Ok, RunOk, RunRight, Theirs, Printing
  <2> DEFINE stray == proc[h].key.stray \/ proc[h].began # epoch
  <2>3. /\ stray \in BOOLEAN /\ cache' = [proc[h].key EXCEPT !.stray = stray]
        /\ proc[h].key.user = account \/ stray
    BY <2>1, <2>2 DEF Stray, Good
  <2> HIDE DEF stray
  <2>4. cache' \in Keys /\ (cache'.user = account \/ cache'.stray)
    BY <2>2, <2>3 DEF Keys
  <2>5. QED
    BY <1>1, <1>2, <1>3, <1>10, <2>1, <2>4 DEF Files, CacheRight
<1>8. CASE ~(TruncateTokens(h) \/ WriteTokens(h) \/ TruncateCache(h) \/ WriteCache(h))
  <2>1. UNCHANGED <<tokens, cache>>
    BY <1>8 DEF Step, Start, ReadCache, LoadTokens, Refresh, RefreshFails, Exchange,
       ExchangeFails, PrintKey, CheckSession, Presign, RequestKey, RequestFails, Poll, Terminate,
       Kill, files
  <2>2. QED
    BY <1>1, <1>2, <1>3, <1>10, <2>1 DEF Files
<1>9. QED
  BY <1>3, <1>4, <1>5, <1>6, <1>7, <1>8

\* A login or logout excuses what older runs hold: they began in an older epoch.
LEMMA NewEpoch ==
  ASSUME NEW run, NEW t, NEW e \in Nat, NEW a, NEW b, NEW out, NEW out2, RunOk(run, t, e, a, out)
  PROVE  RunOk(run, t, e + 1, b, out2)
<1>1. run.began \in Nat /\ run.began <= e
  BY DEF RunOk, RunRight, Runs, Theirs
<1>2. QED
  BY <1>1 DEF RunOk, Theirs, Good

\* The commands and the clock leave the runs and the files as they must be.
LEMMA CommandStays ==
  ASSUME HelperInv,
         \/ \E u \in Users : BeginLogin(u)
         \/ LoginFails \/ TruncateForLogin \/ FinishLogin \/ ClearTokens \/ ClearCache
         \/ \E u \in Users \cup {Nobody} : SwitchSession(u)
         \/ Tick
  PROVE  Shape' /\ Files' /\ \A g \in Helpers : Ok(proc[g])'
<1>1. /\ Shape /\ Files /\ proc' = proc
      /\ \A g \in Helpers : RunOk(proc[g], now, epoch, account, Doing("logout"))
      /\ epoch \in Nat
  BY DEF HelperInv, Ok, Shape, BeginLogin, LoginFails, TruncateForLogin, FinishLogin, ClearTokens,
     ClearCache, SwitchSession, Tick
<1>2. ASSUME now' = now, epoch' = epoch + 1
      PROVE  \A g \in Helpers : Ok(proc[g])'
  BY <1>1, <1>2, NewEpoch DEF Ok
<1>3. ASSUME now' = now, epoch' = epoch, account' = account, Doing("logout")' = Doing("logout")
      PROVE  \A g \in Helpers : Ok(proc[g])'
  BY <1>1, <1>3 DEF Ok
<1>4. ASSUME NEW u \in Users, BeginLogin(u)
      PROVE  Shape' /\ Files' /\ \A g \in Helpers : Ok(proc[g])'
  <2>1. /\ now' = now /\ epoch' = epoch /\ account' = account /\ tokens' = tokens /\ cache' = cache
        /\ session' = session /\ minted' = minted /\ live' = live /\ rotating' = rotating
        /\ command = None /\ command' = [does |-> "login", user |-> u]
    BY <1>4 DEF BeginLogin, files, idp, history
  <2>2. Doing("logout") = FALSE /\ Doing("logout")' = FALSE
    BY <2>1 DEF Doing
  <2>3. QED
    <3>1. Shape'
      BY <1>1, <2>1 DEF Shape
    <3>2. Files'
      BY <1>1, <2>1, <2>2 DEF Files
    <3>3. QED
      BY <1>3, <2>1, <2>2, <3>1, <3>2
<1>5. CASE LoginFails
  <2>1. /\ now' = now /\ epoch' = epoch /\ account' = account /\ tokens' = tokens /\ cache' = cache
        /\ session' = session /\ minted' = minted /\ live' = live /\ rotating' = rotating
        /\ Doing("login") /\ command' = None
    BY <1>5 DEF LoginFails, files, idp, history
  <2>2. Doing("logout") = FALSE /\ Doing("logout")' = FALSE
    BY <2>1 DEF Doing
  <2>3. QED
    <3>1. Shape'
      BY <1>1, <2>1 DEF Shape
    <3>2. Files'
      BY <1>1, <2>1, <2>2 DEF Files
    <3>3. QED
      BY <1>3, <2>1, <2>2, <3>1, <3>2
<1>6. CASE TruncateForLogin
  <2>1. /\ UNCHANGED <<now, account, cache, session, minted, live, rotating>> /\ tokens' = Torn
        /\ Doing("login") /\ command' = [command EXCEPT !.does = "write"] /\ epoch' = epoch + 1
    BY <1>6 DEF TruncateForLogin, idp
  <2>2. command' \in [does : {"login", "write"}, user : Users]
    BY <1>1, <2>1 DEF Shape, Doing
  <2>3. QED
    BY <1>1, <1>2, <2>1, <2>2, NotReadable DEF Shape, Files, TokensRight
<1>7. CASE FinishLogin
  <2>1. PICK refresh \in BOOLEAN, id \in BOOLEAN :
          /\ minted' = IF refresh THEN minted + 1 ELSE minted
          /\ live' = IF refresh THEN live \cup {minted'} ELSE live
          /\ tokens' = [Granted(command.user, FALSE, id) EXCEPT
                          !.refresh = IF refresh THEN minted' ELSE None]
    BY <1>7 DEF FinishLogin
  <2>2. /\ UNCHANGED <<now, session, rotating>> /\ Doing("write") /\ command' = None
        /\ account' = command.user /\ epoch' = epoch + 1
        /\ cache' = IF Readable(cache) THEN [cache EXCEPT !.stray = TRUE] ELSE cache
    BY <1>7 DEF FinishLogin
  <2>3. command.user \in Users
    BY <1>1, <2>2 DEF Shape, Doing
  <2>4. minted' \in Nat /\ live' \subseteq Nat
    BY <1>1, <2>1 DEF Shape
  <2>5. tokens' \in TokenFiles /\ tokens'.user = command.user
    <3> DEFINE token == IF refresh THEN minted' ELSE None
               ends == IF id THEN now + TokenLife ELSE 0
    <3>1. token \in RefreshTokens /\ ends \in Int /\ now + TokenLife \in Int
      BY <1>1, <2>4, HelperAssumption DEF Shape, RefreshTokens
    <3>2. tokens' = [user |-> command.user, expires |-> now + TokenLife, id |-> ends,
                     refresh |-> token, from |-> None, stray |-> FALSE]
      BY <2>1 DEF Granted
    <3>3. None \in RefreshTokens
      BY DEF RefreshTokens
    <3> HIDE DEF token, ends
    <3>4. QED
      BY <2>3, <3>1, <3>2, <3>3 DEF TokenFiles
  <2>6. Readable(cache') => cache' \in Keys /\ cache'.stray
    BY <1>1, <2>2 DEF Files, CacheRight, Keys, Readable
  <2>7. ~Doing("logout")'
    BY <2>2 DEF Doing
  <2>8. Shape'
    BY <1>1, <2>2, <2>3, <2>4 DEF Shape
  <2>9. Files'
    BY <2>2, <2>5, <2>6, <2>7 DEF Files, TokensRight, CacheRight
  <2>10. QED
    BY <1>2, <2>2, <2>8, <2>9
<1>8. CASE ClearTokens
  <2>1. /\ UNCHANGED <<now, account, cache, session, minted, live, rotating>> /\ tokens' = None
        /\ command' = [does |-> "logout"] /\ epoch' = epoch + 1
    BY <1>8 DEF ClearTokens, idp
  <2>2. QED
    BY <1>1, <1>2, <2>1, NotReadable DEF Shape, Files, TokensRight
<1>9. CASE ClearCache
  <2>1. /\ UNCHANGED <<now, tokens, session, minted, live, rotating>> /\ cache' = None
        /\ command' = None /\ epoch' = epoch + 1 /\ account' = Nobody /\ Doing("logout")
    BY <1>9 DEF ClearCache, idp
  <2>2. QED
    BY <1>1, <1>2, <2>1, NotReadable DEF Shape, Files, TokensRight, CacheRight, Doing
<1>10. ASSUME NEW u \in Users \cup {Nobody}, SwitchSession(u)
       PROVE  Shape' /\ Files' /\ \A g \in Helpers : Ok(proc[g])'
  <2>1. /\ UNCHANGED <<now, epoch, account, tokens, cache, command, minted, live, rotating>>
        /\ session' = u
    BY <1>10 DEF SwitchSession, files, idp, history
  <2>2. Doing("logout")' = Doing("logout")
    BY <2>1 DEF Doing
  <2>3. QED
    BY <1>1, <1>3, <2>1, <2>2 DEF Shape, Files
<1>11. CASE Tick
  <2>1. /\ UNCHANGED <<epoch, account, tokens, cache, session, command, minted, live, rotating>>
        /\ now' = now + 1
        /\ \A g \in Helpers : proc[g].kind \in Daemons => proc[g].at = "asleep" /\ proc[g].wake > now
    BY <1>11 DEF Tick, files, idp, history, At
  <2>2. Doing("logout")' = Doing("logout")
    BY <2>1 DEF Doing
  <2>3. Shape' /\ Files'
    BY <1>1, <2>1, <2>2 DEF Shape, Files
  <2>4. ASSUME NEW g \in Helpers
        PROVE  Kept(proc[g], now + 1)
    <3>1. Kept(proc[g], now) /\ now \in Nat
      BY <1>1 DEF RunOk, Shape
    <3>2. QED
      BY <2>1, <3>1 DEF Kept, Printing
  <2>5. \A g \in Helpers : RunOk(proc[g], now + 1, epoch, account, Doing("logout"))
    BY <1>1, <2>4 DEF RunOk
  <2>6. QED
    BY <1>1, <2>1, <2>2, <2>3, <2>5 DEF Ok
<1>12. QED
  BY <1>4, <1>5, <1>6, <1>7, <1>8, <1>9, <1>10, <1>11

\* A run that ends or sleeps shows no token.
LEMMA Rests ==
  ASSUME Shape, NEW h \in Helpers, Fail(h) \/ Crash(h)
  PROVE  \E run : proc' = [proc EXCEPT ![h] = run] /\ run.at \in {"idle", "asleep"}
<1>1. NoRun.at = "idle"
  BY DEF NoRun
<1>2. ASSUME NEW run \in Runs
      PROVE  Asleep(run).at \in {"idle", "asleep"}
  BY <1>1 DEF Asleep, Runs
<1>3. CASE Crash(h)
  BY <1>1, <1>3 DEF Crash, Becomes
<1>4. CASE Fail(h) /\ proc[h].current = None
  BY <1>1, <1>4 DEF Fail, Becomes
<1>5. CASE Fail(h) /\ proc[h].current # None
  <2> DEFINE r == [proc[h] EXCEPT !.misses = proc[h].misses + 1]
  <2>1. proc' = [proc EXCEPT ![h] = Asleep(r)]
    BY <1>5 DEF Fail, Becomes
  <2>2. r \in Runs
    <3>1. proc[h] \in Runs
      BY DEF Shape
    <3>2. QED
      BY <3>1 DEF Runs
  <2> HIDE DEF r
  <2>3. QED
    BY <1>2, <2>1, <2>2
<1>6. QED
  BY <1>3, <1>4, <1>5

\* One run moves without touching a refresh token: it shows none after the
\* step and was not about to save one, or it shows what it showed.
LEMMA Quiet ==
  ASSUME NEW p \in [Helpers -> Runs], NEW file, NEW l, NEW m, NEW r, NEW x, NEW file2,
         NEW h \in Helpers, NEW run, HonouredRight(p, file, l, m, r, x),
         file2 = file \/ ~Readable(file2),
         \/ run.at \notin Shown /\ p[h].at \notin Writing
         \/ /\ run.at \in Writing <=> p[h].at \in Writing
            /\ run.at \in Shown <=> p[h].at \in Shown
            /\ run.held = p[h].held
  PROVE  HonouredRight([p EXCEPT ![h] = run], file2, l, m, r, x)
<1> DEFINE q == [p EXCEPT ![h] = run]
<1>1. /\ q[h] = run
      /\ \A g \in Helpers \ {h} : q[g] = p[g]
  OBVIOUS
<1>2. Writing \subseteq Shown
  BY DEF Writing, Shown
<1> HIDE DEF q
<1>3. /\ \A t \in l : t <= m
      /\ FileRight(file2, l, m, r)
  BY DEF HonouredRight, FileRight
<1>4. ASSUME NEW g \in Helpers
      PROVE  OwnRight(q[g], l, m, r) /\ Unfiled(q[g], file2, r)
  <2>1. OwnRight(p[g], l, m, r) /\ Unfiled(p[g], file, r)
    BY DEF HonouredRight
  <2>2. CASE g # h
    BY <1>1, <2>1, <2>2 DEF Unfiled
  <2>3. CASE g = h
    BY <1>1, <1>2, <2>1, <2>3 DEF OwnRight, Unfiled
  <2>4. QED
    BY <2>2, <2>3
<1>5. ASSUME NEW g \in Helpers, NEW k \in Helpers \ {g}
      PROVE  Apart(q[g], q[k], r)
  <2>1. Apart(p[g], p[k], r)
    BY DEF HonouredRight
  <2>2. QED
    BY <1>1, <1>2, <2>1 DEF Apart
<1>6. Covered(file2, l, x, q)
  <2>1. CASE Readable(file2) /\ file2.refresh # None
    <3>1. file2 = file /\ Covered(file, l, x, p)
      BY <2>1 DEF HonouredRight
    <3>2. CASE file.refresh \in l \cup x
      BY <3>1, <3>2 DEF Covered
    <3>3. CASE file.refresh \notin l \cup x
      <4>1. PICK g \in Helpers : p[g].at \in Writing /\ p[g].held.from = file.refresh
        BY <2>1, <3>1, <3>3 DEF Covered
      <4>2. q[g].at \in Writing /\ q[g].held.from = file.refresh
        BY <1>1, <1>2, <4>1
      <4>3. QED
        BY <3>1, <4>2 DEF Covered
    <3>4. QED
      BY <3>2, <3>3
  <2>2. QED
    BY <2>1 DEF Covered
<1>7. HonouredRight(q, file2, l, m, r, x)
  BY <1>3, <1>4, <1>5, <1>6 DEF HonouredRight
<1>8. QED
  BY <1>7 DEF q

\* The IdP replaces a token that a run shows, or a run that was to save its
\* successor dies: what it showed is lost, the others' tokens are honoured still.
LEMMA Lost ==
  ASSUME NEW p \in [Helpers -> Runs], NEW file, NEW l, NEW m \in Nat, NEW r, NEW x, NEW token,
         NEW l2, NEW m2 \in Nat, NEW h \in Helpers, NEW run,
         HonouredRight(p, file, l, m, r, x), run.at \notin Shown,
         p[h].at \in Writing => token = p[h].held.from,
         \/ l2 = l /\ m2 = m
         \/ /\ p[h].at = "refresh" /\ token = p[h].held.refresh /\ r
            /\ m2 = m + 1 /\ l2 = (l \ {token}) \cup {m + 1}, l \subseteq Nat,
         \A g \in Helpers : p[g].at \in Shown => p[g].held.refresh \in RefreshTokens,
         Readable(file) => file.refresh \in RefreshTokens
  PROVE  HonouredRight([p EXCEPT ![h] = run], file, l2, m2, r, x \cup {token})
<1> DEFINE q == [p EXCEPT ![h] = run]
<1>1. /\ q[h] = run
      /\ \A g \in Helpers \ {h} : q[g] = p[g]
  OBVIOUS
<1>2. Writing \subseteq Shown /\ "refresh" \in Shown /\ None \notin Nat
  BY HelperAssumption DEF Writing, Shown
<1> HIDE DEF q
<1>3. ASSUME NEW t \in l2
      PROVE  t <= m2
  <2>1. \A u \in l : u <= m
    BY DEF HonouredRight
  <2>2. CASE l2 = l /\ m2 = m
    BY <2>1, <2>2
  <2>3. CASE m2 = m + 1 /\ l2 = (l \ {token}) \cup {m + 1}
    <3>1. t = m + 1 \/ (t \in l /\ t \in Nat /\ t <= m)
      BY <2>1, <2>3
    <3>2. QED
      BY <2>3, <3>1
  <2>4. QED
    BY <2>2, <2>3
<1>4. FileRight(file, l2, m2, r)
  BY DEF HonouredRight, FileRight, RefreshTokens
<1>5. ASSUME NEW g \in Helpers
      PROVE  OwnRight(q[g], l2, m2, r) /\ Unfiled(q[g], file, r)
  <2>1. OwnRight(p[g], l, m, r) /\ Unfiled(p[g], file, r)
    BY DEF HonouredRight
  <2>2. CASE g # h
    <3>1. Apart(p[g], p[h], r)
      BY <2>2 DEF HonouredRight
    <3>2. OwnRight(p[g], l2, m2, r)
      BY <1>2, <2>1, <3>1 DEF OwnRight, Apart, RefreshTokens
    <3>3. QED
      BY <1>1, <2>1, <2>2, <3>2
  <2>3. CASE g = h
    BY <1>1, <1>2, <2>3 DEF OwnRight, Unfiled
  <2>4. QED
    BY <2>2, <2>3
<1>6. ASSUME NEW g \in Helpers, NEW k \in Helpers \ {g}
      PROVE  Apart(q[g], q[k], r)
  <2>1. Apart(p[g], p[k], r)
    BY DEF HonouredRight
  <2>2. QED
    BY <1>1, <1>2, <2>1 DEF Apart
<1>7. Covered(file, l2, x \cup {token}, q)
  <2>1. Covered(file, l, x, p)
    BY DEF HonouredRight
  <2>2. l \cup x \subseteq l2 \cup x \cup {token}
    OBVIOUS
  <2>3. ASSUME Readable(file), file.refresh # None, file.refresh \notin l2 \cup x \cup {token}
        PROVE  \E g \in Helpers : q[g].at \in Writing /\ q[g].held.from = file.refresh
    <3>1. PICK g \in Helpers : p[g].at \in Writing /\ p[g].held.from = file.refresh
      BY <2>1, <2>2, <2>3 DEF Covered
    <3>2. g # h
      BY <2>3, <3>1
    <3>3. QED
      BY <1>1, <3>1, <3>2
  <2>4. QED
    BY <2>3 DEF Covered
<1>8. HonouredRight(q, file, l2, m2, r, x \cup {token})
  BY <1>3, <1>4, <1>5, <1>6, <1>7 DEF HonouredRight
<1>9. QED
  BY <1>8 DEF q

\* What runs show and the file holds are refresh tokens, of those issued or none.
LEMMA RefreshTyped ==
  ASSUME HelperInv
  PROVE  /\ \A g \in Helpers : proc[g].at \in Shown => proc[g].held.refresh \in RefreshTokens
         /\ Readable(tokens) => tokens.refresh \in RefreshTokens
<1>1. ASSUME NEW g \in Helpers, proc[g].at \in Shown
      PROVE  proc[g].held.refresh \in RefreshTokens
  <2>1. proc[g].held \in TokenFiles
    BY <1>1 DEF HelperInv, Ok, RunOk, RunRight, Tokens, Shown
  <2>2. QED
    BY <2>1 DEF TokenFiles
<1>2. Readable(tokens) => tokens.refresh \in RefreshTokens
  BY DEF HelperInv, Files, TokensRight, TokenFiles
<1>3. QED
  BY <1>1, <1>2

\* A daemon or a one-shot run begins a renewal with the token on file.
LEMMA Loads ==
  ASSUME NEW p \in [Helpers -> Runs], NEW file, NEW l, NEW m, NEW r, NEW x,
         NEW h \in Helpers, NEW run, HonouredRight(p, file, l, m, r, x),
         p[h].at \notin Shown, run.at \notin Writing, run.held = file, Readable(file),
         run.at \in Shown => file.refresh # None
  PROVE  HonouredRight([p EXCEPT ![h] = run], file, l, m, r, x)
<1> DEFINE q == [p EXCEPT ![h] = run]
<1>1. /\ q[h] = run
      /\ \A g \in Helpers \ {h} : q[g] = p[g]
  OBVIOUS
<1>2. Writing \subseteq Shown
  BY DEF Writing, Shown
<1> HIDE DEF q
<1>3. /\ \A t \in l : t <= m
      /\ FileRight(file, l, m, r)
      /\ Covered(file, l, x, p)
  BY DEF HonouredRight
<1>4. ASSUME NEW g \in Helpers
      PROVE  OwnRight(q[g], l, m, r) /\ Unfiled(q[g], file, r)
  <2>1. OwnRight(p[g], l, m, r) /\ Unfiled(p[g], file, r)
    BY DEF HonouredRight
  <2>2. CASE g # h
    BY <1>1, <2>1, <2>2 DEF Unfiled
  <2>3. CASE g = h
    BY <1>1, <1>2, <1>3, <2>3 DEF OwnRight, Unfiled, FileRight
  <2>4. QED
    BY <2>2, <2>3
<1>5. ASSUME NEW g \in Helpers, NEW k \in Helpers \ {g}
      PROVE  Apart(q[g], q[k], r)
  <2>1. Apart(p[g], p[k], r) /\ Unfiled(p[g], file, r)
    BY DEF HonouredRight
  <2>2. CASE g = h
    BY <1>1, <2>2 DEF Apart
  <2>3. CASE g # h /\ k = h
    BY <1>1, <2>1, <2>3 DEF Apart, Unfiled
  <2>4. CASE g # h /\ k # h
    BY <1>1, <2>1, <2>4
  <2>5. QED
    BY <2>2, <2>3, <2>4
<1>6. Covered(file, l, x, q)
  <2>1. ASSUME NEW g \in Helpers, p[g].at \in Writing
        PROVE  q[g] = p[g]
    BY <1>1, <1>2, <2>1
  <2>2. QED
    BY <1>3, <2>1 DEF Covered
<1>7. HonouredRight(q, file, l, m, r, x)
  BY <1>3, <1>4, <1>5, <1>6 DEF HonouredRight
<1>8. QED
  BY <1>7 DEF q

\* A refresh succeeds: the run holds a token the IdP honours, a new one that
\* nobody else knows if the IdP rotates, and remembers the one it showed.
LEMMA Renews ==
  ASSUME NEW p \in [Helpers -> Runs], NEW file, NEW l, NEW m \in Nat, NEW r, NEW x,
         NEW l2, NEW m2 \in Nat, NEW h \in Helpers, NEW run, l \subseteq Nat,
         HonouredRight(p, file, l, m, r, x), p[h].at = "refresh", run.at \in Writing,
         p[h].held.refresh \in l, run.held.from = p[h].held.refresh,
         \/ /\ r /\ m2 = m + 1 /\ l2 = (l \ {p[h].held.refresh}) \cup {m + 1}
            /\ run.held.refresh = m + 1
         \/ ~r /\ l2 = l /\ m2 = m /\ run.held.refresh = p[h].held.refresh,
         \A g \in Helpers : p[g].at \in Shown => p[g].held.refresh \in RefreshTokens,
         Readable(file) => file.refresh \in RefreshTokens
  PROVE  HonouredRight([p EXCEPT ![h] = run], file, l2, m2, r, x)
<1> DEFINE q == [p EXCEPT ![h] = run]
           token == p[h].held.refresh
<1>1. /\ q[h] = run
      /\ \A g \in Helpers \ {h} : q[g] = p[g]
  OBVIOUS
<1>2. Writing \subseteq Shown /\ "refresh" \in Shown /\ "refresh" \notin Writing /\ None \notin Nat
  BY HelperAssumption DEF Writing, Shown
<1>3. token \in l /\ token \in Nat /\ run.held.from = token
  OBVIOUS
<1>4. IF r THEN m2 = m + 1 /\ l2 = (l \ {token}) \cup {m + 1} /\ run.held.refresh = m + 1
           ELSE l2 = l /\ m2 = m /\ run.held.refresh = token
  OBVIOUS
<1> HIDE DEF q, token
<1>5. ASSUME NEW t \in l2
      PROVE  t <= m2
  <2>1. \A u \in l : u <= m /\ u \in Nat
    BY DEF HonouredRight
  <2>2. CASE r
    <3>1. t = m + 1 \/ (t \in l /\ t <= m /\ t \in Nat)
      BY <1>4, <2>1, <2>2
    <3>2. QED
      BY <1>4, <2>2, <3>1
  <2>3. CASE ~r
    BY <1>4, <2>1, <2>3
  <2>4. QED
    BY <2>2, <2>3
<1>6. FileRight(file, l2, m2, r)
  BY <1>4 DEF HonouredRight, FileRight, RefreshTokens
<1>7. ASSUME NEW g \in Helpers, p[g].at \in Shown, p[g].held.refresh # None
      PROVE  p[g].held.refresh <= m /\ p[g].held.refresh \in Nat
  BY <1>7 DEF HonouredRight, OwnRight, RefreshTokens
<1>8. Readable(file) /\ file.refresh # None => file.refresh <= m /\ file.refresh \in Nat
  BY DEF HonouredRight, FileRight, RefreshTokens
<1>9. ASSUME NEW g \in Helpers
      PROVE  OwnRight(q[g], l2, m2, r) /\ Unfiled(q[g], file, r)
  <2>1. OwnRight(p[g], l, m, r) /\ Unfiled(p[g], file, r)
    BY DEF HonouredRight
  <2>2. CASE g # h
    <3>1. Apart(p[g], p[h], r)
      BY <2>2 DEF HonouredRight
    <3>2. p[g].at \in Writing /\ r => p[g].held.refresh # token
      BY <1>2, <3>1 DEF Apart, token
    <3>3. OwnRight(p[g], l2, m2, r)
      BY <1>2, <1>4, <1>7, <2>1, <3>2 DEF OwnRight
    <3>4. QED
      BY <1>1, <2>1, <2>2, <3>3
  <2>3. CASE g = h
    <3>1. token <= m
      BY <1>3 DEF HonouredRight
    <3>2. OwnRight(run, l2, m2, r)
      BY <1>2, <1>3, <1>4, <3>1 DEF OwnRight
    <3>3. Unfiled(run, file, r)
      <4>1. CASE file.refresh = None
        BY <1>2, <1>4, <4>1 DEF Unfiled
      <4>2. CASE file.refresh # None
        BY <1>4, <1>8, <4>2 DEF Unfiled
      <4>3. QED
        BY <4>1, <4>2
    <3>4. QED
      BY <1>1, <2>3, <3>2, <3>3
  <2>4. QED
    BY <2>2, <2>3
<1>10. ASSUME NEW g \in Helpers, NEW k \in Helpers \ {g}
       PROVE  Apart(q[g], q[k], r)
  <2>1. Apart(p[g], p[k], r)
    BY DEF HonouredRight
  <2>2. ASSUME NEW n \in Helpers, p[n].at \in Shown, r
        PROVE  run.held.refresh # p[n].held.refresh
    BY <1>2, <1>4, <1>7, <2>2
  <2>3. CASE g = h
    BY <1>1, <2>2, <2>3 DEF Apart
  <2>4. CASE g # h /\ k = h
    <3>1. p[g].at \in Writing /\ r => p[g].held.refresh # run.held.refresh
      BY <1>2, <2>2
    <3>2. QED
      BY <1>1, <2>4, <3>1 DEF Apart
  <2>5. CASE g # h /\ k # h
    BY <1>1, <2>1, <2>5
  <2>6. QED
    BY <2>3, <2>4, <2>5
<1>11. Covered(file, l2, x, q)
  <2>1. Covered(file, l, x, p)
    BY DEF HonouredRight
  <2>2. ASSUME Readable(file), file.refresh # None, file.refresh \notin l2 \cup x
        PROVE  \E g \in Helpers : q[g].at \in Writing /\ q[g].held.from = file.refresh
    <3>1. CASE file.refresh = token
      BY <1>1, <1>3, <3>1
    <3>2. CASE file.refresh # token
      <4>1. file.refresh \notin l \cup x
        BY <1>4, <2>2, <3>2
      <4>2. PICK g \in Helpers : p[g].at \in Writing /\ p[g].held.from = file.refresh
        BY <2>1, <2>2, <4>1 DEF Covered
      <4>3. g # h
        BY <1>2, <4>2
      <4>4. QED
        BY <1>1, <4>2, <4>3
    <3>3. QED
      BY <3>1, <3>2
  <2>3. QED
    BY <2>2 DEF Covered
<1>12. HonouredRight(q, file, l2, m2, r, x)
  BY <1>5, <1>6, <1>9, <1>10, <1>11 DEF HonouredRight
<1>13. QED
  BY <1>12 DEF q

\* A run saves what it held: the file has a token the IdP honours, and no other
\* run is about to save that one.
LEMMA Saves ==
  ASSUME NEW p \in [Helpers -> Runs], NEW file, NEW l, NEW m, NEW r, NEW x,
         NEW h \in Helpers, NEW run, NEW file2, HonouredRight(p, file, l, m, r, x),
         p[h].at = "writeTokens", run.at \notin Shown, file2.refresh = p[h].held.refresh
  PROVE  HonouredRight([p EXCEPT ![h] = run], file2, l, m, r, x)
<1> DEFINE q == [p EXCEPT ![h] = run]
<1>1. /\ q[h] = run
      /\ \A g \in Helpers \ {h} : q[g] = p[g]
  OBVIOUS
<1>2. Writing \subseteq Shown /\ "writeTokens" \in Writing
  BY DEF Writing, Shown
<1> HIDE DEF q
<1>3. OwnRight(p[h], l, m, r) /\ \A t \in l : t <= m
  BY DEF HonouredRight
<1>4. file2.refresh \in l /\ FileRight(file2, l, m, r) /\ Covered(file2, l, x, q)
  BY <1>2, <1>3 DEF OwnRight, FileRight, Covered
<1>5. ASSUME NEW g \in Helpers
      PROVE  OwnRight(q[g], l, m, r) /\ Unfiled(q[g], file2, r)
  <2>1. CASE g # h
    <3>1. OwnRight(p[g], l, m, r) /\ Apart(p[g], p[h], r)
      BY <2>1 DEF HonouredRight
    <3>2. QED
      BY <1>1, <1>2, <2>1, <3>1 DEF Apart, Unfiled
  <2>2. CASE g = h
    BY <1>1, <1>2, <2>2 DEF OwnRight, Unfiled
  <2>3. QED
    BY <2>1, <2>2
<1>6. ASSUME NEW g \in Helpers, NEW k \in Helpers \ {g}
      PROVE  Apart(q[g], q[k], r)
  <2>1. Apart(p[g], p[k], r)
    BY DEF HonouredRight
  <2>2. QED
    BY <1>1, <1>2, <2>1 DEF Apart
<1>7. HonouredRight(q, file2, l, m, r, x)
  BY <1>3, <1>4, <1>5, <1>6 DEF HonouredRight
<1>8. QED
  BY <1>7 DEF q

\* The step of a run leaves the refresh tokens as they must be.
LEMMA HonouredStays ==
  ASSUME HelperInv, NEW h \in Helpers, Step(h)
  PROVE  Honoured'
<1>1. /\ Shape /\ proc \in [Helpers -> Runs] /\ proc[h] \in Runs /\ RunRight(proc[h])
      /\ HonouredRight(proc, tokens, live, minted, rotating, lost)
      /\ live \subseteq Nat /\ minted \in Nat /\ rotating \in BOOLEAN
  BY DEF HelperInv, Shape, Honoured, Ok, RunOk
<1>2. /\ \A g \in Helpers : proc[g].at \in Shown => proc[g].held.refresh \in RefreshTokens
      /\ Readable(tokens) => tokens.refresh \in RefreshTokens
  BY RefreshTyped
<1>3. ASSUME NEW run, proc' = [proc EXCEPT ![h] = run], live' = live, minted' = minted,
             rotating' = rotating, lost' = lost, tokens' = tokens \/ ~Readable(tokens'),
             \/ run.at \notin Shown /\ proc[h].at \notin Writing
             \/ /\ run.at \in Writing <=> proc[h].at \in Writing
                /\ run.at \in Shown <=> proc[h].at \in Shown
                /\ run.held = proc[h].held
      PROVE  Honoured'
  BY <1>1, <1>3, Quiet DEF Honoured
<1>4. ASSUME Fail(h) \/ Crash(h), proc[h].at \notin Writing, live' = live, minted' = minted,
             rotating' = rotating, lost' = lost, tokens' = tokens
      PROVE  Honoured'
  <2>1. PICK run : proc' = [proc EXCEPT ![h] = run] /\ run.at \in {"idle", "asleep"}
    BY <1>1, <1>4, Rests
  <2>2. run.at \notin Shown
    BY <2>1 DEF Shown
  <2>3. QED
    BY <1>3, <1>4, <2>1, <2>2
<1>5. ASSUME NEW point, Go(h, point), proc[h].at \notin Writing, point \notin Shown, live' = live,
             minted' = minted, rotating' = rotating, lost' = lost, tokens' = tokens
      PROVE  Honoured'
  <2> DEFINE run == [proc[h] EXCEPT !.at = point]
  <2>1. proc' = [proc EXCEPT ![h] = run] /\ run.at = point
    BY <1>1, <1>5 DEF Go, Becomes, Runs
  <2> HIDE DEF run
  <2>2. QED
    BY <1>3, <1>5, <2>1
<1>6. ASSUME NEW daemon \in BOOLEAN, Start(h, daemon)
      PROVE  Honoured'
  <2> DEFINE at == CASE oidc /\ ~daemon -> "cache"
                     [] oidc /\ daemon -> "tokens"
                     [] OTHER -> "session"
             run == [NoRun EXCEPT !.kind = Kind(oidc, daemon), !.began = epoch, !.at = at]
  <2>1. proc' = [proc EXCEPT ![h] = run] /\ run.at = at /\ at \in {"cache", "tokens", "session"}
    BY <1>6 DEF Start, Becomes, NoRun
  <2> HIDE DEF at, run
  <2>2. run.at \notin Shown /\ proc[h].at \notin Writing
    BY <1>6, <2>1 DEF Start, At, Shown, Writing
  <2>3. /\ live' = live /\ minted' = minted /\ rotating' = rotating /\ lost' = lost
        /\ tokens' = tokens
    BY <1>6 DEF Start, idp, history, files
  <2>4. QED
    BY <1>3, <2>1, <2>2, <2>3
<1>7. CASE ReadCache(h)
  <2>1. /\ proc[h].at \notin Writing /\ live' = live /\ minted' = minted /\ rotating' = rotating
        /\ lost' = lost /\ tokens' = tokens
    BY <1>7 DEF ReadCache, At, Writing, idp, history, files
  <2>2. CASE Usable(cache)
    <3> DEFINE run == [proc[h] EXCEPT !.at = "print", !.key = cache]
    <3>1. proc' = [proc EXCEPT ![h] = run] /\ run.at = "print"
      BY <1>1, <1>7, <2>2 DEF ReadCache, Becomes, Runs
    <3> HIDE DEF run
    <3>2. QED
      BY <1>3, <2>1, <3>1 DEF Shown
  <2>3. CASE ~Usable(cache)
    BY <1>5, <1>7, <2>1, <2>3 DEF ReadCache, Shown
  <2>4. QED
    BY <2>2, <2>3
<1>8. CASE LoadTokens(h)
  <2>1. /\ proc[h].at = "tokens" /\ live' = live /\ minted' = minted /\ rotating' = rotating
        /\ lost' = lost /\ tokens' = tokens
    BY <1>8 DEF LoadTokens, At, idp, history, files
  <2>2. proc[h].at \notin Shown /\ proc[h].at \notin Writing
    BY <2>1 DEF Shown, Writing
  <2>3. CASE Fail(h)
    BY <1>4, <2>1, <2>2, <2>3
  <2>4. CASE ~Fail(h)
    <3> DEFINE at == IF now >= tokens.expires THEN "refresh" ELSE "exchange"
               run == [proc[h] EXCEPT !.at = at, !.held = tokens]
    <3>1. /\ proc' = [proc EXCEPT ![h] = run] /\ Readable(tokens)
          /\ at = "refresh" => tokens.refresh # None
      BY <1>8, <2>4 DEF LoadTokens, Becomes
    <3>2. run.at = at /\ run.held = tokens
      BY <1>1 DEF Runs
    <3>3. at \in {"refresh", "exchange"}
      OBVIOUS
    <3> HIDE DEF at, run
    <3>4. run.at \notin Writing /\ (run.at \in Shown => tokens.refresh # None)
      BY <3>1, <3>2, <3>3 DEF Shown, Writing
    <3>5. HonouredRight(proc', tokens, live, minted, rotating, lost)
      BY <1>1, <2>2, <3>1, <3>2, <3>4, Loads
    <3>6. QED
      BY <2>1, <3>5 DEF Honoured
  <2>5. QED
    BY <2>3, <2>4
<1>9. CASE Refresh(h)
  <2> DEFINE token == IF rotating THEN minted' ELSE None
  <2>1. PICK id : proc' = [proc EXCEPT ![h] = [proc[h] EXCEPT
                             !.at = "truncTokens", !.held = Renewed(proc[h].held, token, id)]]
    BY <1>9 DEF Refresh, Becomes
  <2>2. /\ proc[h].at = "refresh" /\ proc[h].held.refresh \in live
        /\ rotating' = rotating /\ lost' = lost /\ tokens' = tokens
        /\ IF rotating THEN /\ minted' = minted + 1
                            /\ live' = (live \ {proc[h].held.refresh}) \cup {minted'}
                       ELSE live' = live /\ minted' = minted
    BY <1>9 DEF Refresh, Rotate, At, history, files
  <2> DEFINE run == [proc[h] EXCEPT
                       !.at = "truncTokens", !.held = Renewed(proc[h].held, token, id)]
  <2>3. run.at = "truncTokens" /\ run.held = Renewed(proc[h].held, token, id)
    BY <1>1 DEF Runs
  <2>4. /\ Renewed(proc[h].held, token, id).from = proc[h].held.refresh
        /\ Renewed(proc[h].held, token, id).refresh =
             IF token = None THEN proc[h].held.refresh ELSE token
    <3>1. proc[h].held \in TokenFiles
      BY <1>1, <2>2 DEF RunRight, Tokens
    <3>2. QED
      BY <3>1 DEF Renewed, TokenFiles
  <2>5. proc' = [proc EXCEPT ![h] = run]
    BY <2>1
  <2> HIDE DEF run
  <2>6. rotating => token = minted + 1 /\ token # None
    BY <1>1, <2>2, HelperAssumption
  <2>7. ~rotating => token = None
    OBVIOUS
  <2> HIDE DEF token
  <2>8. \/ /\ rotating /\ minted' = minted + 1
           /\ live' = (live \ {proc[h].held.refresh}) \cup {minted + 1}
           /\ run.held.refresh = minted + 1
        \/ /\ ~rotating /\ live' = live /\ minted' = minted
           /\ run.held.refresh = proc[h].held.refresh
    BY <2>2, <2>3, <2>4, <2>6, <2>7
  <2>9. minted' \in Nat
    BY <1>1, <2>2
  <2>10. run.at \in Writing /\ run.held.from = proc[h].held.refresh
    BY <2>3, <2>4 DEF Writing
  <2>11. PICK new : /\ proc' = [proc EXCEPT ![h] = new] /\ new.at \in Writing
                    /\ new.held.from = proc[h].held.refresh
                    /\ \/ /\ rotating /\ minted' = minted + 1
                          /\ live' = (live \ {proc[h].held.refresh}) \cup {minted + 1}
                          /\ new.held.refresh = minted + 1
                       \/ /\ ~rotating /\ live' = live /\ minted' = minted
                          /\ new.held.refresh = proc[h].held.refresh
    BY <2>5, <2>8, <2>10
  <2>12. proc[h].at = "refresh" /\ proc[h].held.refresh \in live
    BY <2>2
  <2>13. HonouredRight([proc EXCEPT ![h] = new], tokens, live', minted', rotating, lost)
    BY <1>1, <1>2, <2>9, <2>11, <2>12, Renews
  <2>14. QED
    BY <2>2, <2>11, <2>13 DEF Honoured
<1>10. CASE RefreshFails(h)
  <2>1. proc[h].at = "refresh" /\ tokens' = tokens /\ proc[h].at \notin Writing
    BY <1>10 DEF RefreshFails, At, files, Writing
  <2>2. CASE (Fail(h) \/ Crash(h)) /\ UNCHANGED <<idp, lost>>
    BY <1>4, <2>1, <2>2 DEF idp
  <2>3. CASE ~((Fail(h) \/ Crash(h)) /\ UNCHANGED <<idp, lost>>)
    <3> DEFINE token == proc[h].held.refresh
    <3>1. Crash(h) /\ Rotate(token) /\ lost' = lost \cup {token}
      BY <1>10, <2>3 DEF RefreshFails
    <3>2. PICK run : proc' = [proc EXCEPT ![h] = run] /\ run.at \in {"idle", "asleep"}
      BY <1>1, <3>1, Rests
    <3>3. run.at \notin Shown
      BY <3>2 DEF Shown
    <3>4. /\ rotating' = rotating
          /\ \/ live' = live /\ minted' = minted
             \/ rotating /\ minted' = minted + 1 /\ live' = (live \ {token}) \cup {minted + 1}
      BY <3>1 DEF Rotate
    <3>5. minted' \in Nat
      BY <1>1, <3>4
    <3>6. HonouredRight(proc', tokens, live', minted', rotating, lost')
      BY <1>1, <1>2, <2>1, <3>1, <3>2, <3>3, <3>4, <3>5, Lost
    <3>7. QED
      BY <2>1, <3>4, <3>6 DEF Honoured
  <2>4. QED
    BY <2>2, <2>3
<1>11. CASE TruncateTokens(h)
  <2> DEFINE run == [proc[h] EXCEPT !.at = "writeTokens"]
  <2>1. /\ proc' = [proc EXCEPT ![h] = run] /\ run.at = "writeTokens" /\ run.held = proc[h].held
        /\ proc[h].at = "truncTokens"
    BY <1>1, <1>11 DEF TruncateTokens, Go, Becomes, Runs, At
  <2> HIDE DEF run
  <2>2. /\ live' = live /\ minted' = minted /\ rotating' = rotating /\ lost' = lost
        /\ ~Readable(tokens')
    BY <1>11, NotReadable DEF TruncateTokens, idp, history
  <2>3. /\ run.at \in Writing <=> proc[h].at \in Writing
        /\ run.at \in Shown <=> proc[h].at \in Shown
    BY <2>1 DEF Writing, Shown
  <2>4. QED
    BY <1>3, <2>1, <2>2, <2>3
<1>12. CASE WriteTokens(h)
  <2>1. /\ proc[h].at = "writeTokens" /\ tokens' = Stray(h, proc[h].held)
        /\ live' = live /\ minted' = minted /\ rotating' = rotating /\ lost' = lost
    BY <1>12 DEF WriteTokens, At, idp, history
  <2>2. tokens'.refresh = proc[h].held.refresh
    <3>1. proc[h].held \in TokenFiles
      BY <1>1, <2>1 DEF RunRight, Tokens
    <3>2. QED
      BY <2>1, <3>1 DEF Stray, TokenFiles
  <2>3. ASSUME NEW run, proc' = [proc EXCEPT ![h] = run], run.at \notin Shown
        PROVE  Honoured'
    <3>1. HonouredRight(proc', tokens', live, minted, rotating, lost)
      BY <1>1, <2>1, <2>2, <2>3, Saves
    <3>2. QED
      BY <2>1, <3>1 DEF Honoured
  <2>4. CASE Fail(h)
    <3>1. PICK run : proc' = [proc EXCEPT ![h] = run] /\ run.at \in {"idle", "asleep"}
      BY <1>1, <2>4, Rests
    <3>2. QED
      BY <2>3, <3>1 DEF Shown
  <2>5. CASE ~Fail(h)
    <3> DEFINE run == [proc[h] EXCEPT !.at = "exchange", !.held = tokens']
    <3>1. proc' = [proc EXCEPT ![h] = run] /\ run.at = "exchange"
      BY <1>1, <1>12, <2>5 DEF WriteTokens, Becomes, Runs
    <3> HIDE DEF run
    <3>2. QED
      BY <2>3, <3>1 DEF Shown
  <2>6. QED
    BY <2>4, <2>5
<1>13. ASSUME NEW user, NEW stray, NEW next \in {"truncCache", "print"}, Issue(h, user, stray, next),
              proc[h].at \notin Writing, live' = live, minted' = minted, rotating' = rotating,
              lost' = lost, tokens' = tokens
       PROVE  Honoured'
  <2>1. PICK life : Becomes(h, [proc[h] EXCEPT !.at = next, !.key = NewKey(user, stray, life)])
    BY <1>13 DEF Issue
  <2> DEFINE run == [proc[h] EXCEPT !.at = next, !.key = NewKey(user, stray, life)]
  <2>2. proc' = [proc EXCEPT ![h] = run] /\ run.at = next
    BY <1>1, <2>1 DEF Becomes, Runs
  <2> HIDE DEF run
  <2>3. run.at \notin Shown
    BY <2>2 DEF Shown
  <2>4. QED
    BY <1>3, <1>13, <2>2, <2>3
<1>14. CASE Exchange(h)
  <2>1. /\ proc[h].at \notin Writing /\ live' = live /\ minted' = minted /\ rotating' = rotating
        /\ lost' = lost /\ tokens' = tokens
    BY <1>14 DEF Exchange, At, Writing, idp, history, files
  <2>2. QED
    BY <1>13, <1>14, <2>1 DEF Exchange
<1>15. CASE RequestKey(h)
  <2>1. /\ proc[h].at \notin Writing /\ live' = live /\ minted' = minted /\ rotating' = rotating
        /\ lost' = lost /\ tokens' = tokens
    BY <1>15 DEF RequestKey, At, Writing, idp, history, files
  <2>2. QED
    BY <1>13, <1>15, <2>1 DEF RequestKey
<1>16. CASE ExchangeFails(h) \/ RequestFails(h)
  <2>1. /\ proc[h].at \notin Writing /\ live' = live /\ minted' = minted /\ rotating' = rotating
        /\ lost' = lost /\ tokens' = tokens /\ (Fail(h) \/ Crash(h))
    BY <1>16 DEF ExchangeFails, RequestFails, At, Writing, idp, history, files
  <2>2. QED
    BY <1>4, <2>1
<1>17. CASE TruncateCache(h) \/ WriteCache(h)
  <2>1. /\ proc[h].at \notin Writing /\ live' = live /\ minted' = minted /\ rotating' = rotating
        /\ lost' = lost /\ tokens' = tokens /\ (Go(h, "writeCache") \/ Go(h, "print"))
    BY <1>17 DEF TruncateCache, WriteCache, At, Writing, idp, history
  <2>2. QED
    BY <1>5, <2>1 DEF Shown
<1>18. CASE PrintKey(h)
  <2>1. /\ proc[h].at \notin Writing /\ live' = live /\ minted' = minted /\ rotating' = rotating
        /\ lost' = lost /\ tokens' = tokens
    BY <1>18 DEF PrintKey, At, Writing, idp, history, files
  <2>2. CASE proc[h].kind \in Daemons
    <3> DEFINE r == [proc[h] EXCEPT !.current = proc[h].key, !.misses = 0]
    <3>1. proc' = [proc EXCEPT ![h] = Asleep(r)]
      BY <1>18, <2>2 DEF PrintKey, Becomes
    <3>2. r.at = proc[h].at /\ Asleep(r).at \in {"idle", "asleep"}
      BY <1>1 DEF Runs, Asleep, NoRun
    <3> HIDE DEF r
    <3>3. QED
      BY <1>3, <2>1, <3>1, <3>2 DEF Shown
  <2>3. CASE proc[h].kind \notin Daemons
    BY <1>3, <1>18, <2>1, <2>3 DEF PrintKey, Becomes, NoRun, Shown
  <2>4. QED
    BY <2>2, <2>3
<1>19. CASE CheckSession(h)
  <2>1. /\ proc[h].at \notin Writing /\ live' = live /\ minted' = minted /\ rotating' = rotating
        /\ lost' = lost /\ tokens' = tokens /\ (Fail(h) \/ Go(h, "presign"))
    BY <1>19 DEF CheckSession, At, Writing, idp, history, files
  <2>2. QED
    BY <1>4, <1>5, <2>1 DEF Shown
<1>20. CASE Presign(h)
  <2>1. /\ proc[h].at \notin Writing /\ live' = live /\ minted' = minted /\ rotating' = rotating
        /\ lost' = lost /\ tokens' = tokens
    BY <1>20 DEF Presign, At, Writing, idp, history, files
  <2>2. CASE Fail(h)
    BY <1>4, <2>1, <2>2
  <2>3. CASE ~Fail(h)
    <3> DEFINE run == [proc[h] EXCEPT !.at = "request", !.held = session]
    <3>1. proc' = [proc EXCEPT ![h] = run] /\ run.at = "request"
      BY <1>1, <1>20, <2>3 DEF Presign, Becomes, Runs
    <3> HIDE DEF run
    <3>2. QED
      BY <1>3, <2>1, <3>1 DEF Shown
  <2>4. QED
    BY <2>2, <2>3
<1>21. CASE Poll(h)
  <2>1. /\ proc[h].at \notin Writing /\ live' = live /\ minted' = minted /\ rotating' = rotating
        /\ lost' = lost /\ tokens' = tokens
    BY <1>21 DEF Poll, At, Writing, idp, history, files
  <2>2. \E run : proc' = [proc EXCEPT ![h] = run] /\ run.at \notin Shown
    <3>1. CASE Ends(proc[h])
      <4>1. proc' = [proc EXCEPT ![h] = NoRun]
        BY <1>21, <3>1 DEF Poll, Becomes
      <4>2. NoRun.at \notin Shown
        BY DEF NoRun, Shown
      <4>3. QED
        BY <4>1, <4>2
    <3>2. CASE ~Ends(proc[h]) /\ ~Due(proc[h].current)
      <4>1. proc' = [proc EXCEPT ![h] = Asleep(proc[h])]
        BY <1>21, <3>2 DEF Poll, Becomes
      <4>2. Asleep(proc[h]).at \in {"idle", "asleep"}
        BY <1>1 DEF Asleep, Runs, NoRun
      <4>3. QED
        BY <4>1, <4>2 DEF Shown
    <3>3. CASE ~Ends(proc[h]) /\ Due(proc[h].current)
      <4> DEFINE at == IF proc[h].kind = "stsDaemon" THEN "session" ELSE "tokens"
                 run == [proc[h] EXCEPT !.began = epoch, !.at = at]
      <4>1. proc' = [proc EXCEPT ![h] = run] /\ run.at = at /\ at \in {"session", "tokens"}
        BY <1>1, <1>21, <3>3 DEF Poll, Becomes, Runs
      <4> HIDE DEF run, at
      <4>2. QED
        BY <4>1 DEF Shown
    <3>4. QED
      BY <3>1, <3>2, <3>3
  <2>3. QED
    BY <1>3, <2>1, <2>2
<1>22. CASE Terminate(h)
  <2> DEFINE run == [proc[h] EXCEPT !.stopping = TRUE]
  <2>1. proc' = [proc EXCEPT ![h] = run] /\ run.at = proc[h].at /\ run.held = proc[h].held
    BY <1>1, <1>22 DEF Terminate, Becomes, Runs
  <2> HIDE DEF run
  <2>2. /\ live' = live /\ minted' = minted /\ rotating' = rotating /\ lost' = lost
        /\ tokens' = tokens
    BY <1>22 DEF Terminate, idp, history, files
  <2>3. /\ run.at \in Writing <=> proc[h].at \in Writing
        /\ run.at \in Shown <=> proc[h].at \in Shown
    BY <2>1
  <2>4. QED
    BY <1>3, <2>1, <2>2, <2>3
<1>23. CASE Kill(h)
  <2>1. /\ live' = live /\ minted' = minted /\ rotating' = rotating /\ tokens' = tokens /\ Crash(h)
        /\ proc[h].at \in Writing => lost' = lost \cup {proc[h].held.from}
        /\ proc[h].at \notin Writing => lost' = lost
    BY <1>23 DEF Kill, idp, files, Writing
  <2>2. CASE proc[h].at \notin Writing
    BY <1>4, <2>1, <2>2
  <2>3. CASE proc[h].at \in Writing
    <3>1. PICK run : proc' = [proc EXCEPT ![h] = run] /\ run.at \in {"idle", "asleep"}
      BY <1>1, <2>1, Rests
    <3>2. run.at \notin Shown
      BY <3>1 DEF Shown
    <3>3. HonouredRight(proc', tokens, live, minted, rotating, lost \cup {proc[h].held.from})
      BY <1>1, <1>2, <3>1, <3>2, Lost
    <3>4. QED
      BY <2>1, <2>3, <3>3 DEF Honoured
  <2>4. QED
    BY <2>2, <2>3
<1>24. QED
  BY <1>6, <1>7, <1>8, <1>9, <1>10, <1>11, <1>12, <1>14, <1>15, <1>16, <1>17, <1>18, <1>19, <1>20,
     <1>21, <1>22, <1>23 DEF Step

\* A login adds a token to those the IdP honours; the other commands and the
\* clock add none.
LEMMA HonouredThroughCommands ==
  ASSUME HelperInv,
         \/ \E u \in Users : BeginLogin(u)
         \/ LoginFails \/ TruncateForLogin \/ FinishLogin \/ ClearTokens \/ ClearCache
         \/ \E u \in Users \cup {Nobody} : SwitchSession(u)
         \/ Tick
  PROVE  Honoured'
<1>1. /\ HonouredRight(proc, tokens, live, minted, rotating, lost) /\ minted \in Nat
      /\ live \subseteq Nat
  BY DEF HelperInv, Honoured, Shape
<1>2. proc' = proc /\ rotating' = rotating /\ lost' = lost
  BY DEF BeginLogin, LoginFails, TruncateForLogin, FinishLogin, ClearTokens, ClearCache, SwitchSession,
     Tick, idp, history
<1>3. CASE FinishLogin
  <2>1. PICK refresh \in BOOLEAN, id \in BOOLEAN :
          /\ minted' = IF refresh THEN minted + 1 ELSE minted
          /\ live' = IF refresh THEN live \cup {minted'} ELSE live
          /\ tokens' = [Granted(command.user, FALSE, id) EXCEPT
                          !.refresh = IF refresh THEN minted' ELSE None]
    BY <1>3 DEF FinishLogin
  <2>2. tokens'.refresh = IF refresh THEN minted' ELSE None
    BY <2>1 DEF Granted
  <2>3. CASE refresh
    <3>1. minted' = minted + 1 /\ live' = live \cup {minted + 1} /\ tokens'.refresh = minted + 1
      BY <2>1, <2>2, <2>3
    <3>2. \A t \in live' : t <= minted'
      <4>1. \A t \in live : t <= minted /\ t \in Nat
        BY <1>1 DEF HonouredRight
      <4>2. \A t \in live : t <= minted + 1
        BY <1>1, <4>1
      <4>3. QED
        BY <1>1, <3>1, <4>2
    <3>3. FileRight(tokens', live', minted', rotating) /\ Covered(tokens', live', lost, proc)
      BY <1>1, <3>1 DEF FileRight, Covered
    <3>4. ASSUME NEW g \in Helpers
          PROVE  OwnRight(proc[g], live', minted', rotating) /\ Unfiled(proc[g], tokens', rotating)
      <4>1. OwnRight(proc[g], live, minted, rotating)
        BY <1>1 DEF HonouredRight
      <4>2. proc[g].at \in Shown => proc[g].held.refresh \in RefreshTokens
        BY RefreshTyped
      <4>3. proc[g].at \in Shown /\ proc[g].held.refresh # None =>
              /\ proc[g].held.refresh \in Nat /\ proc[g].held.refresh <= minted
              /\ proc[g].held.refresh # minted + 1 /\ proc[g].held.refresh <= minted + 1
        BY <1>1, <4>1, <4>2 DEF OwnRight, RefreshTokens
      <4>4. Writing \subseteq Shown
        BY DEF Writing, Shown
      <4>5. QED
        BY <3>1, <4>1, <4>3, <4>4 DEF OwnRight, Unfiled
    <3>5. HonouredRight(proc, tokens', live', minted', rotating, lost)
      BY <1>1, <3>2, <3>3, <3>4 DEF HonouredRight
    <3>6. QED
      BY <1>2, <3>5 DEF Honoured
  <2>4. CASE ~refresh
    <3>1. minted' = minted /\ live' = live /\ tokens'.refresh = None
      BY <2>1, <2>2, <2>4
    <3>2. HonouredRight(proc, tokens', live, minted, rotating, lost)
      BY <1>1, <3>1 DEF HonouredRight, FileRight, Covered, Unfiled, OwnRight
    <3>3. QED
      BY <1>2, <3>1, <3>2 DEF Honoured
  <2>5. QED
    BY <2>3, <2>4
<1>4. CASE ~FinishLogin
  <2>1. live' = live /\ minted' = minted /\ (tokens' = tokens \/ ~Readable(tokens'))
    BY <1>4, NotReadable DEF BeginLogin, LoginFails, TruncateForLogin, ClearTokens, ClearCache,
       SwitchSession, Tick, idp, files
  <2>2. HonouredRight(proc, tokens', live, minted, rotating, lost)
    BY <1>1, <2>1 DEF HonouredRight, FileRight, Covered, Unfiled
  <2>3. QED
    BY <1>2, <2>1, <2>2 DEF Honoured
<1>5. QED
  BY <1>3, <1>4

\* The invariant holds when the workstation starts.
LEMMA HelperInit == Init => HelperInv
<1> SUFFICES ASSUME Init PROVE HelperInv
  OBVIOUS
<1>1. /\ now = 0 /\ cache = None /\ epoch = 0 /\ minted = 1 /\ live = {1} /\ command = None
      /\ account \in Users /\ rotating \in BOOLEAN /\ session \in Users \cup {Nobody}
      /\ proc = [g \in Helpers |-> NoRun] /\ tokens = Granted(account, TRUE, TRUE)
  BY DEF Init
<1>2. NoRun \in Runs
  BY DEF NoRun, Runs
<1>3. Shape
  BY <1>1, <1>2 DEF Shape
<1> DEFINE ends == now + TokenLife
<1>4. tokens = [user |-> account, expires |-> ends, id |-> ends, refresh |-> minted,
                from |-> None, stray |-> FALSE]
  BY <1>1 DEF Granted
<1>5. tokens \in TokenFiles
  <2>1. ends \in Int /\ minted \in RefreshTokens /\ None \in RefreshTokens /\ account \in Users
    BY <1>1, HelperAssumption DEF RefreshTokens
  <2> HIDE DEF ends
  <2>2. QED
    BY <1>4, <2>1 DEF TokenFiles
<1>6. Files
  <2>1. Doing("logout") = FALSE
    BY <1>1 DEF Doing
  <2>2. TokensRight(tokens, account, FALSE)
    BY <1>4, <1>5 DEF TokensRight
  <2>3. QED
    BY <1>1, <2>1, <2>2, NotReadable DEF Files, CacheRight
<1>7. \A g \in Helpers : Ok(proc[g])
  BY <1>1, <1>3, NoRunIsOk
<1>8. Honoured
  <2>1. \A g \in Helpers : proc[g].at = "idle"
    BY <1>1 DEF NoRun
  <2>2. FileRight(tokens, live, minted, rotating) /\ Covered(tokens, live, lost, proc)
    <3>1. tokens.refresh = minted /\ minted <= minted /\ minted \in live
      <4>1. tokens.refresh = minted
        BY <1>4
      <4>2. minted <= minted /\ minted \in live
        BY <1>1
      <4>3. QED
        BY <4>1, <4>2
    <3>2. QED
      BY <3>1 DEF FileRight, Covered
  <2>3. \A g \in Helpers : proc[g].at \notin Shown /\ proc[g].at \notin Writing
    BY <2>1 DEF Shown, Writing
  <2>4. \A t \in live : t <= minted
    BY <1>1
  <2>5. QED
    BY <2>2, <2>3, <2>4 DEF Honoured, HonouredRight, OwnRight, Unfiled, Apart
<1>9. QED
  BY <1>3, <1>6, <1>7, <1>8 DEF HelperInv

\* Every step preserves the invariant.
LEMMA HelperStep == HelperInv /\ [Next]_vars => HelperInv'
<1> SUFFICES ASSUME HelperInv, [Next]_vars PROVE HelperInv'
  OBVIOUS
<1>1. ASSUME NEW h \in Helpers, Step(h)
      PROVE  HelperInv'
  BY <1>1, RunStays, FilesStay, HonouredStays DEF HelperInv
<1>2. CASE \/ \E u \in Users : BeginLogin(u)
           \/ LoginFails \/ TruncateForLogin \/ FinishLogin \/ ClearTokens \/ ClearCache
           \/ \E u \in Users \cup {Nobody} : SwitchSession(u)
           \/ Tick
  BY <1>2, CommandStays, HonouredThroughCommands DEF HelperInv
<1>3. CASE UNCHANGED vars
  <2>1. /\ now' = now /\ epoch' = epoch /\ minted' = minted /\ live' = live /\ lost' = lost
        /\ account' = account /\ rotating' = rotating /\ session' = session /\ proc' = proc
        /\ command' = command /\ tokens' = tokens /\ cache' = cache
    BY <1>3 DEF vars, files, idp, history
  <2>2. Doing("logout")' = Doing("logout")
    BY <2>1 DEF Doing
  <2>3. QED
    BY <2>1, <2>2 DEF HelperInv, Shape, Files, Honoured, Ok
<1>4. QED
  BY <1>1, <1>2, <1>3 DEF Next

\* The invariant of the key helpers holds in every behaviour.
THEOREM HelperRight == Spec => []HelperInv
BY HelperInit, HelperStep, PTL DEF Spec

(* A key about to be printed belongs to whoever logged in last, unless the run
   began before that login or logout, or uses what such a run wrote or a login
   left in the key cache (save_tokens, vk_cache.save, logout). *)
THEOREM PrintedKeysAreTheirs == Spec => []KeyOfAnotherHasCause
<1>1. HelperInv => KeyOfAnotherHasCause
  <2> SUFFICES ASSUME HelperInv, NEW h \in Helpers, At(h, "print"),
                      proc[h].kind \in {"oidc", "oidcDaemon"}
               PROVE  proc[h].key.user = account \/ proc[h].key.stray \/ proc[h].began # epoch
    BY DEF KeyOfAnotherHasCause
  <2>1. QED
    BY DEF HelperInv, Ok, RunOk, Theirs, Good, At, Printing, Oidc
<1>2. QED
  BY <1>1, HelperRight, PTL

(* Runs that refresh at once do not lock the user out, and the key of a sleeping
   daemon has lapsed only after a failed renewal in every interval of the margin
   (refresh_tokens, the daemons' loops). *)
THEOREM OutagesAreExplained == Spec => []OutageHasCause
<1>1. HelperInv => LockedOutHasCause
  <2> SUFFICES ASSUME HelperInv PROVE LockedOutHasCause
    OBVIOUS
  <2>1. Covered(tokens, live, lost, proc)
    BY DEF HelperInv, Honoured, HonouredRight
  <2>2. QED
    BY <2>1 DEF LockedOutHasCause, Covered, Writing
<1>2. HelperInv => LapseHasCause
  <2> SUFFICES ASSUME HelperInv, NEW h \in Helpers, At(h, "asleep"), now >= proc[h].current.expires
               PROVE  proc[h].misses >= Margin(proc[h].current)
    BY DEF LapseHasCause, Margin
  <2>1. /\ proc[h].current \in Keys /\ now \in Nat /\ proc[h].misses \in Nat
        /\ proc[h].misses >= proc[h].wake - proc[h].current.expires + Margin(proc[h].current)
        /\ proc[h].wake \in {now, now + 1}
    BY DEF HelperInv, Ok, RunOk, RunRight, Runs, Kept, At, Shape
  <2>2. proc[h].current.expires \in Int /\ Margin(proc[h].current) \in Int
    BY <2>1, Margins DEF Keys
  <2>3. QED
    BY <2>1, <2>2
<1>3. HelperInv => OutageHasCause
  BY <1>1, <1>2 DEF OutageHasCause
<1>4. QED
  BY <1>3, HelperRight, PTL
============================================================================
