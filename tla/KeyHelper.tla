----------------------------- MODULE KeyHelper -----------------------------
(* The api-key-helper processes of one workstation.  They print the virtual
   key a coding tool sends, and share two files with `gateway-cli login` and
   `gateway-cli logout`: the OIDC tokens and the key cache.  Nobody locks
   either file, and a write truncates before it writes.
   Time advances in daemon check intervals (300 s, the cache margin too); calls
   end within one. *)
EXTENDS Integers, FiniteSets, FiniteSetsExt

CONSTANTS
  Helpers,      \* process slots
  Users,        \* people who may log in on this workstation
  Nobody,       \* no account, no AWS session
  None,         \* an absent file or an empty local
  Torn,         \* a file truncated and not yet written
  Lives,        \* intervals a new key may live (an SSO session's end caps it)
  TokenLife,    \* intervals an OIDC token lives
  RenewMargin,  \* the daemons' 1800 s
  MaxTime, MaxRuns, MaxCommands, MaxFaults

ASSUME HelperAssumption ==
  /\ Lives \subseteq Nat \ {0} /\ TokenLife \in Nat /\ RenewMargin \in Nat
  /\ {MaxTime, MaxRuns, MaxCommands, MaxFaults} \subseteq Nat
  /\ Nobody \notin Users /\ None # Torn /\ None \notin Nat

CacheMargin == 1   \* is_expiring(300), in intervals

(* _detect_mode and --daemon choose one of four flows. *)
Kind(oidc, daemon) == CASE oidc /\ ~daemon -> "oidc" [] oidc /\ daemon -> "oidcDaemon"
                        [] ~oidc /\ ~daemon -> "sts" [] OTHER -> "stsDaemon"
Daemons == {"oidcDaemon", "stsDaemon"}

VARIABLES
  now,
  tokens, cache,     \* oidc-tokens.json and vk-cache.json
  session,           \* whose AWS SSO session is active (the aws CLI's state)
  live, minted,      \* refresh tokens the IdP still honours; how many it issued
  rotating,          \* whether this IdP replaces a refresh token it is shown
  oidc,              \* whether the environment names an OIDC issuer and client
  proc,              \* per slot, the run under way and its locals
  command,           \* the login or logout under way
  runs, commands, faults,
  epoch, account,    \* history: file changes by commands; who logged in last
  lost               \* history: refresh tokens whose successor died

files == <<tokens, cache>>
idp == <<oidc, live, minted, rotating>>
history == <<epoch, account, lost>>
vars == <<now, files, session, idp, proc, command, runs, commands, faults,
          history>>

Readable(file) == file \notin {None, Torn}

(* A run: its flow and control point, the epoch its issuance began in, the
   tokens (or AWS user) it holds, the key it is about to save or print, a
   daemon's current key, next poll and failed renewals, and whether SIGTERM
   has been received. *)
NoRun == [kind |-> "none", at |-> "idle", began |-> 0, held |-> None,
          key |-> None, current |-> None, wake |-> 0, misses |-> 0,
          stopping |-> FALSE]

(* The tokens of a login; the IdP may grant no refresh token or no id_token. *)
Granted(user, refresh, id) ==
  [user |-> user, expires |-> now + TokenLife,
   id |-> IF id THEN now + TokenLife ELSE 0,
   refresh |-> IF refresh THEN minted ELSE None, from |-> None, stray |-> FALSE]

(* Somebody has logged in, and no run has begun. *)
Init ==
  /\ now = 0 /\ cache = None
  /\ oidc \in BOOLEAN /\ rotating \in (IF oidc THEN BOOLEAN ELSE {FALSE})
  /\ session \in (IF oidc THEN {Nobody} ELSE Users \cup {Nobody})
  /\ account \in Users /\ minted = 1 /\ live = {1}
  /\ tokens = Granted(account, TRUE, TRUE)
  /\ proc = [h \in Helpers |-> NoRun]
  /\ command = None
  /\ runs = 0 /\ commands = 0 /\ faults = 0
  /\ epoch = 0 /\ lost = {}

At(h, point) == proc[h].at = point
Becomes(h, run) == proc' = [proc EXCEPT ![h] = run]
Go(h, point) == Becomes(h, [proc[h] EXCEPT !.at = point])
Crash(h) == Becomes(h, NoRun)   \* an exception no handler names, or the end
Fault == faults < MaxFaults /\ faults' = faults + 1

(* The loop's head: a daemon told to stop ends, another sleeps. *)
Asleep(run) ==
  IF run.stopping THEN NoRun
  ELSE [run EXCEPT !.at = "asleep", !.wake = now + 1, !.held = None, !.key = None]

(* A daemon past its first key logs a failure and loops; any other process
   ends with an error code. *)
Fail(h) ==
  Becomes(h, IF proc[h].current = None THEN NoRun
             ELSE Asleep([proc[h] EXCEPT !.misses = @ + 1]))

----------------------------------------------------------------------------
(* One invocation begins, in the mode the environment selects. *)
Start(h, daemon) ==
  /\ At(h, "idle") /\ runs < MaxRuns
  /\ runs' = runs + 1
  /\ Becomes(h, [NoRun EXCEPT
                   !.kind = Kind(oidc, daemon), !.began = epoch,
                   !.at = CASE oidc /\ ~daemon -> "cache"
                            [] oidc /\ daemon -> "tokens"
                            [] OTHER -> "session"])
  /\ UNCHANGED <<now, files, session, idp, command, commands, faults, history>>

(* A cached key is used when more than the cache margin is left of it. *)
Usable(vk) == Readable(vk) /\ now + CacheMargin < vk.expires

ReadCache(h) ==
  /\ At(h, "cache")
  /\ IF Usable(cache)
     THEN Becomes(h, [proc[h] EXCEPT !.at = "print", !.key = cache])
     ELSE Go(h, "tokens")
  /\ UNCHANGED <<now, files, session, idp, command, runs, commands, faults,
                 history>>

(* Tokens near their end must be refreshed, which needs a refresh token; the
   one-shot mode also refuses an empty id_token. *)
LoadTokens(h) ==
  /\ At(h, "tokens")
  /\ LET old == now >= tokens.expires
     IN IF \/ ~Readable(tokens)
           \/ old /\ tokens.refresh = None
           \/ ~old /\ proc[h].kind = "oidc" /\ tokens.id = 0
        THEN Fail(h)
        ELSE Becomes(h, [proc[h] EXCEPT !.at = IF old THEN "refresh" ELSE "exchange",
                                        !.held = tokens])
  /\ UNCHANGED <<now, files, session, idp, command, runs, commands, faults,
                 history>>

(* The refreshed tokens: a refresh token or an id_token that the response
   leaves out stays the old one, the id_token with its old end. *)
KeepsOldRefresh(old, refresh, id) ==
  [old EXCEPT !.expires = now + TokenLife, !.id = id, !.from = old.refresh]

Renewed(old, refresh, id) ==
  [old EXCEPT !.expires = now + TokenLife, !.id = id, !.from = old.refresh,
              !.refresh = IF refresh = None THEN @ ELSE refresh]

(* The IdP replaces the token it is shown, if that is its policy. *)
Rotate(token) ==
  /\ IF rotating THEN /\ minted' = minted + 1
                      /\ live' = (live \ {token}) \cup {minted'}
                 ELSE UNCHANGED <<live, minted>>
  /\ UNCHANGED <<oidc, rotating>>

(* Discovery, then the grant; the response may carry an id_token. *)
Refresh(h) ==
  /\ At(h, "refresh")
  /\ LET held == proc[h].held
     IN /\ held.refresh \in live
        /\ Rotate(held.refresh)
        /\ \E id \in {held.id, now + TokenLife} :
             Becomes(h, [proc[h] EXCEPT
               !.at = "truncTokens",
               !.held = Renewed(held, IF rotating THEN minted' ELSE None, id)])
  /\ UNCHANGED <<now, files, session, command, runs, commands, faults, history>>

(* A refusal is an OIDCLoginError.  Discovery and connection errors are not;
   the second may strike after the IdP has rotated the token. *)
RefreshFails(h) ==
  /\ At(h, "refresh")
  /\ LET token == proc[h].held.refresh
     IN \/ token \notin live /\ Fail(h) /\ UNCHANGED <<idp, lost, faults>>
        \/ Fault /\ Fail(h) /\ UNCHANGED <<idp, lost>>
        \/ Fault /\ Crash(h) /\ UNCHANGED <<idp, lost>>
        \/ /\ token \in live /\ Fault /\ Crash(h) /\ Rotate(token)
           /\ lost' = lost \cup {token}
  /\ UNCHANGED <<now, files, session, command, runs, commands, epoch, account>>

(* Path.write_text opens with truncation, then writes. *)
TruncateTokens(h) ==
  /\ At(h, "truncTokens")
  /\ tokens' = Torn
  /\ Go(h, "writeTokens")
  /\ UNCHANGED <<now, cache, session, idp, command, runs, commands, faults,
                 history>>

(* History: what a run older than the last command writes is stray. *)
Stray(h, value) == [value EXCEPT !.stray = @ \/ proc[h].began # epoch]

(* After the save the one-shot mode looks at the id_token. *)
WriteTokens(h) ==
  /\ At(h, "writeTokens")
  /\ tokens' = Stray(h, proc[h].held)
  /\ IF proc[h].kind = "oidc" /\ tokens'.id = 0
     THEN Fail(h)
     ELSE Becomes(h, [proc[h] EXCEPT !.at = "exchange", !.held = tokens'])
  /\ UNCHANGED <<now, cache, session, idp, command, runs, commands, faults,
                 history>>

(* The admin API answers a live id_token with a new key.  An expiry that does
   not parse becomes the present moment: life 0. *)
NewKey(user, stray, life) ==
  [user |-> user, expires |-> now + life, life |-> life, stray |-> stray]

Issue(h, user, stray, next) ==
  \E life \in Lives \cup {0} :
    /\ IF life = 0 THEN Fault ELSE UNCHANGED faults
    /\ Becomes(h, [proc[h] EXCEPT !.at = next, !.key = NewKey(user, stray, life)])

Exchange(h) ==
  /\ At(h, "exchange")
  /\ now < proc[h].held.id
  /\ Issue(h, proc[h].held.user, proc[h].held.stray, "truncCache")
  /\ UNCHANGED <<now, files, session, idp, command, runs, commands, history>>

(* A refusal is an OIDCExchangeError; a broken connection is not. *)
ExchangeFails(h) ==
  /\ At(h, "exchange")
  /\ \/ now >= proc[h].held.id /\ Fail(h) /\ UNCHANGED faults
     \/ Fault /\ (Fail(h) \/ Crash(h))
  /\ UNCHANGED <<now, files, session, idp, command, runs, commands, history>>

TruncateCache(h) ==
  /\ At(h, "truncCache")
  /\ cache' = Torn
  /\ Go(h, "writeCache")
  /\ UNCHANGED <<now, tokens, session, idp, command, runs, commands, faults,
                 history>>

WriteCache(h) ==
  /\ At(h, "writeCache")
  /\ cache' = Stray(h, proc[h].key)
  /\ Go(h, "print")
  /\ UNCHANGED <<now, tokens, session, idp, command, runs, commands, faults,
                 history>>

(* The key goes to stdout; a one-shot run ends, a daemon makes it current. *)
PrintKey(h) ==
  /\ At(h, "print")
  /\ Becomes(h, IF proc[h].kind \in Daemons
                THEN Asleep([proc[h] EXCEPT !.current = proc[h].key, !.misses = 0])
                ELSE NoRun)
  /\ UNCHANGED <<now, files, session, idp, command, runs, commands, faults,
                 history>>

----------------------------------------------------------------------------
(* STS mode: the aws CLI vouches for the session, the request is pre-signed
   with whatever credentials it finds next, the API answers with a key. *)
CheckSession(h) ==
  /\ At(h, "session")
  /\ IF session = Nobody THEN Fail(h) ELSE Go(h, "presign")
  /\ UNCHANGED <<now, files, session, idp, command, runs, commands, faults,
                 history>>

Presign(h) ==
  /\ At(h, "presign")
  /\ IF session = Nobody THEN Fail(h)
     ELSE Becomes(h, [proc[h] EXCEPT !.at = "request", !.held = session])
  /\ UNCHANGED <<now, files, session, idp, command, runs, commands, faults,
                 history>>

(* An expiry that does not parse becomes a naive timestamp here (see Ends). *)
RequestKey(h) ==
  /\ At(h, "request")
  /\ Issue(h, proc[h].held, FALSE, "print")
  /\ UNCHANGED <<now, files, session, idp, command, runs, commands, history>>

RequestFails(h) ==
  /\ At(h, "request")
  /\ Fault /\ Fail(h)
  /\ UNCHANGED <<now, files, session, idp, command, runs, commands, history>>

----------------------------------------------------------------------------
(* A daemon keeps a key that has more than the renewal margin left. *)
Due(vk) == vk.expires - now <= RenewMargin

(* A stop, or a naive timestamp that cannot be subtracted from an aware one. *)
Ends(run) == run.stopping \/ (run.kind = "stsDaemon" /\ run.current.life = 0)

Poll(h) ==
  /\ At(h, "asleep") /\ proc[h].wake = now
  /\ Becomes(h,
       IF Ends(proc[h]) THEN NoRun
       ELSE IF ~Due(proc[h].current) THEN Asleep(proc[h])
       ELSE [proc[h] EXCEPT
               !.began = epoch,
               !.at = IF proc[h].kind = "stsDaemon"
                      THEN "session" ELSE "tokens"])
  /\ UNCHANGED <<now, files, session, idp, command, runs, commands, faults,
                 history>>

(* SIGTERM only sets a flag, which the loop reads at its head and when its
   sleep is over. *)
Terminate(h) ==
  /\ proc[h].kind \in Daemons /\ ~proc[h].stopping
  /\ Fault
  /\ Becomes(h, [proc[h] EXCEPT !.stopping = TRUE])
  /\ UNCHANGED <<now, files, session, idp, command, runs, commands, history>>

(* A process may be killed anywhere, between a truncation and its write too. *)
Kill(h) ==
  /\ ~At(h, "idle")
  /\ Fault
  /\ Crash(h)
  /\ lost' = IF proc[h].at \in {"truncTokens", "writeTokens"}
             THEN lost \cup {proc[h].held.from} ELSE lost
  /\ UNCHANGED <<now, files, session, idp, command, runs, commands, epoch,
                 account>>

----------------------------------------------------------------------------
(* gateway-cli login: the callback port admits one at a time.  It ends in an
   error, or with new tokens in the file; the key cache is not touched. *)
BeginLogin(u) ==
  /\ oidc /\ command = None /\ commands < MaxCommands
  /\ commands' = commands + 1
  /\ command' = [does |-> "login", user |-> u]
  /\ UNCHANGED <<now, files, session, idp, proc, runs, faults, history>>

Doing(what) == command # None /\ command.does = what

LoginFails ==
  /\ Doing("login")
  /\ Fault /\ command' = None
  /\ UNCHANGED <<now, files, session, idp, proc, runs, commands, history>>

TruncateForLogin ==
  /\ Doing("login")
  /\ tokens' = Torn /\ epoch' = epoch + 1
  /\ command' = [command EXCEPT !.does = "write"]
  /\ UNCHANGED <<now, cache, session, idp, proc, runs, commands, faults,
                 account, lost>>

FinishLogin ==
  /\ Doing("write")
  /\ \E refresh, id \in BOOLEAN :
       /\ minted' = IF refresh THEN minted + 1 ELSE minted
       /\ live' = IF refresh THEN live \cup {minted'} ELSE live
       /\ tokens' = [Granted(command.user, FALSE, id) EXCEPT
                       !.refresh = IF refresh THEN minted' ELSE None]
  /\ cache' = IF Readable(cache) THEN [cache EXCEPT !.stray = TRUE] ELSE cache
  /\ account' = command.user /\ epoch' = epoch + 1
  /\ command' = None
  /\ UNCHANGED <<now, session, oidc, rotating, proc, runs, commands, faults, lost>>

(* gateway-cli logout: the tokens go first, the key cache next. *)
ClearTokens ==
  /\ oidc /\ command = None /\ commands < MaxCommands
  /\ commands' = commands + 1
  /\ tokens' = None /\ epoch' = epoch + 1
  /\ command' = [does |-> "logout"]
  /\ UNCHANGED <<now, cache, session, idp, proc, runs, faults, account, lost>>

KeepCache ==
  /\ Doing("logout")
  /\ account' = Nobody /\ epoch' = epoch + 1
  /\ command' = None
  /\ UNCHANGED <<now, files, session, idp, proc, runs, commands, faults, lost>>

ClearCache ==
  /\ Doing("logout")
  /\ cache' = None
  /\ account' = Nobody /\ epoch' = epoch + 1
  /\ command' = None
  /\ UNCHANGED <<now, tokens, session, idp, proc, runs, commands, faults, lost>>

(* aws sso login and logout; it matters in STS mode only, as the files matter
   in OIDC mode only. *)
SwitchSession(u) ==
  /\ ~oidc /\ u # session /\ commands < MaxCommands
  /\ commands' = commands + 1
  /\ session' = u
  /\ UNCHANGED <<now, files, idp, proc, command, runs, faults, history>>

(* Every sleeper polls on time, and a daemon's calls end within the interval. *)
Tick ==
  /\ now < MaxTime
  /\ \A h \in Helpers :
       \/ proc[h].kind \notin Daemons
       \/ At(h, "asleep") /\ proc[h].wake > now
  /\ now' = now + 1
  /\ UNCHANGED <<files, session, idp, proc, command, runs, commands, faults,
                 history>>

Step(h) ==
  \/ \E daemon \in BOOLEAN : Start(h, daemon)
  \/ ReadCache(h) \/ LoadTokens(h) \/ Refresh(h) \/ RefreshFails(h)
  \/ TruncateTokens(h) \/ WriteTokens(h) \/ Exchange(h) \/ ExchangeFails(h)
  \/ TruncateCache(h) \/ WriteCache(h) \/ PrintKey(h)
  \/ CheckSession(h) \/ Presign(h) \/ RequestKey(h) \/ RequestFails(h)
  \/ Poll(h) \/ Terminate(h) \/ Kill(h)

Next ==
  \/ \E h \in Helpers : Step(h)
  \/ \E u \in Users : BeginLogin(u)
  \/ LoginFails \/ TruncateForLogin \/ FinishLogin \/ ClearTokens \/ ClearCache
  \/ \E u \in Users \cup {Nobody} : SwitchSession(u)
  \/ Tick

Spec == Init /\ [][Next]_vars

----------------------------------------------------------------------------
(* A key about to be printed belongs to whoever logged in last, unless the run
   began before that login or logout, or what it uses was written by such a
   run, or was left in the key cache by a login. *)
KeyOfAnotherHasCause ==
  \A h \in Helpers :
    At(h, "print") /\ proc[h].kind \in {"oidc", "oidcDaemon"}
      => \/ proc[h].key.user = account \/ proc[h].key.stray
         \/ proc[h].began # epoch

(* The refresh token on file still works, or its successor is about to be
   written, or was lost with the response or the process that had it: two runs
   that refresh at once do not lock the user out. *)
LockedOutHasCause ==
  Readable(tokens) /\ tokens.refresh # None
    => \/ tokens.refresh \in live \cup lost
       \/ \E h \in Helpers : /\ proc[h].at \in {"truncTokens", "writeTokens"}
                            /\ proc[h].held.from = tokens.refresh

(* The key of a sleeping daemon has lapsed only after a failed renewal in every
   interval of the renewal margin, or of the key's life if that is shorter. *)
LapseHasCause ==
  \A h \in Helpers :
    At(h, "asleep") /\ now >= proc[h].current.expires
      => proc[h].misses >= Min({RenewMargin, proc[h].current.life - 1})

(* Both: nobody is cut off while the tokens and the agents' polls could have
   kept them going. *)
OutageHasCause == LockedOutHasCause /\ LapseHasCause
============================================================================
