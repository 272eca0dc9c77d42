----------------------------- MODULE VirtualKeys -----------------------------
(***************************************************************************)
(* The virtual keys of one user, and what the gateway believes about them. *)
(* The admin-api keeps keys, team, activity and model policies in the      *)
(* database and leaves three things in Redis: who owns a key (key:vk), the *)
(* AuthContext the gateway will trust for up to 300 s (key:cache:vk), and  *)
(* the keys of each team (team:vk_hashes).  Its requests are transactions  *)
(* that touch Redis before or after their commit; the gateway's requests   *)
(* read and fill the AuthContext in between.                               *)
(***************************************************************************)
EXTENDS Naturals, FiniteSets

CONSTANTS Keys, Teams, Policies, Sessions, Requests,
          NoKey, NoTeam, NoCtx,
          Anything,        \* no entry in an allow-list: every model is allowed
          Issued,          \* the keys issued before the behaviour begins
  MaxOperations, MaxFaults

ASSUME KeysAssumption ==
  /\ NoKey \notin Keys /\ NoTeam \notin Teams /\ Anything \notin Policies
  /\ Issued \subseteq Keys /\ Cardinality(Issued) <= 1
  /\ Teams # {} /\ {MaxOperations, MaxFaults} \subseteq Nat

VARIABLES
  userTeam, active,   \* auth.users: the user's team, is_active
  override,           \* user_allowed_models of the user (Anything: no row)
  policy,             \* team_allowed_models of each team
  status,             \* auth.virtual_keys: status of each key
  lookup,             \* the keys with a key:vk entry
  ctx,                \* key:cache:vk, or NoCtx
  index,              \* team:vk_hashes of each team
  failures,           \* cache_invalidation_failures, unresolved
  sess,               \* the admin-api requests in progress
  reqs,               \* the gateway requests in progress
  operations, faults, \* bounds: requests begun, failures injected
  cause,              \* history: why the AuthContext of a key may be out of date
  revived             \* history: keys a revocation did not remove from Redis

database == <<userTeam, active, override, policy, status>>
cache    == <<lookup, ctx, index>>
bounds   == <<operations, faults>>
history  == <<cause, revived>>
vars     == <<database, cache, failures, sess, reqs, bounds, history>>

Statuses == {"none", "ACTIVE", "EXPIRED", "REVOKED"}
Contexts == [team : Teams, models : Policies \cup {Anything}]
Entries  == {"ctx", "lookup"} \X Keys \cup {<<"swap", NoKey>>}

ActiveKeys == {k \in Keys : status[k] = "ACTIVE"}

\* user > team > none
Effective(mine, teams) == IF mine = Anything THEN teams ELSE mine
Truth == [team |-> userTeam, models |-> Effective(override, policy[userTeam])]

IdleSession ==
  [op |-> "none", at |-> "idle", key |-> NoKey, keys |-> {}, expired |-> {},
   holds |-> {}, todo |-> {}, from |-> NoTeam, team |-> NoTeam, value |-> Anything,
   enabled |-> TRUE, snapshot |-> NoCtx, failed |-> {}, outdated |-> FALSE]

IdleRequest ==
  [at |-> "idle", key |-> NoKey, db |-> TRUE, team |-> NoTeam,
   models |-> Anything, banned |-> FALSE, revoked |-> FALSE, outdated |-> FALSE,
   orphan |-> FALSE]

Init ==
  /\ userTeam \in Teams /\ active = TRUE /\ override = Anything
  /\ policy = [t \in Teams |-> Anything]
  /\ status = [k \in Keys |-> IF k \in Issued THEN "ACTIVE" ELSE "none"]
  /\ lookup = Issued
  /\ ctx = [k \in Keys |-> IF k \in Issued THEN Truth ELSE NoCtx]
  /\ index = [t \in Teams |-> IF t = userTeam THEN Issued ELSE {}]
  /\ failures = {}
  /\ sess = [s \in Sessions |-> IdleSession]
  /\ reqs = [g \in Requests |-> IdleRequest]
  /\ operations = 0 /\ faults = 0
  /\ cause = [k \in Keys |-> {}] /\ revived = {}

-----------------------------------------------------------------------------
(* The histories.  A commit makes every AuthContext that no longer agrees   *)
(* with the database out of date, and everything read before it as well.    *)

Fault == faults < MaxFaults /\ faults' = faults + 1
NoFault == UNCHANGED faults

NoteChange(why(_)) ==
  cause' = [k \in Keys |-> IF ctx'[k] \in {NoCtx, Truth'} THEN {}
                           ELSE cause[k] \cup why(k)]

Outdate(r) == [r EXCEPT !.outdated = @ \/ /\ <<userTeam, override, policy>>' # <<userTeam, override, policy>>
                                           /\ r.at \notin {"idle", "ctx"}]
OutdateRequests == reqs' = [g \in Requests |-> Outdate(reqs[g])]

\* A request that has passed the lookup of k keeps going when the entry goes.
OrphanRequests(k) ==
  reqs' = [g \in Requests |-> IF reqs[g].key = k /\ reqs[g].at \notin {"ctx", "lookup"}
                              THEN [reqs[g] EXCEPT !.orphan = TRUE] ELSE reqs[g]]

-----------------------------------------------------------------------------
(* The admin-api: the head of a request, up to its first write to Redis.    *)

AfterDeletes(op) ==
  CASE op = "revoke" -> "srem"
    [] op \in {"transfer", "exchange"} -> "swap"
    [] op = "team policy" -> "commit"
    [] op = "user policy" -> "finish"

Begin(s, r) ==
  /\ sess[s].at = "idle" /\ operations < MaxOperations
  /\ operations' = operations + 1
  /\ sess' = [sess EXCEPT ![s] = r]
  /\ UNCHANGED <<database, cache, failures, reqs, faults, history>>

Deleting(op, entries) ==
  [IdleSession EXCEPT !.op = op, !.todo = entries,
                      !.at = IF entries = {} THEN AfterDeletes(op) ELSE "delete"]

Fresh(k) == /\ status[k] = "none" /\ k \notin lookup /\ ctx[k] = NoCtx
            /\ \A s \in Sessions : sess[s].key # k

\* CLI exchange: the STS identity's user, its team as it is.
IssueForSts(s, k) ==
  /\ Fresh(k) /\ active
  /\ Begin(s, [IdleSession EXCEPT !.op = "issue", !.at = "expire", !.key = k,
                                  !.from = userTeam, !.team = userTeam])

\* OIDC exchange: the groups of the token name team t; a user of another team
\* is transferred first, in the same transaction, whether active or not.
ExchangeToken(s, k, t) ==
  /\ Fresh(k)
  /\ IF t = userTeam
     THEN active /\ Begin(s, [IdleSession EXCEPT !.op = "exchange", !.at = "expire",
                                !.key = k, !.from = userTeam, !.team = t])
     ELSE Begin(s, [Deleting("exchange", {"ctx"} \X ActiveKeys) EXCEPT
                      !.key = k, !.keys = ActiveKeys, !.from = userTeam, !.team = t,
                      !.enabled = active])

TransferUser(s, t) ==
  Begin(s, [Deleting("transfer", {"ctx"} \X ActiveKeys) EXCEPT
              !.keys = ActiveKeys, !.from = userTeam, !.team = t])

RevokeKey(s, k) ==
  /\ status[k] # "none"
  /\ Begin(s, [Deleting("revoke", {"ctx", "lookup"} \X {k}) EXCEPT !.keys = {k}])

ForceReauthTeam(s) ==
  /\ ActiveKeys # {}
  /\ Begin(s, [Deleting("revoke", {"ctx", "lookup"} \X ActiveKeys) EXCEPT !.keys = ActiveKeys])

\* Set (or, with Anything, clear) the allow-list of a team; the keys come from
\* the reverse index, and none when it cannot be read.
SetTeamPolicy(s, t, p) ==
  \E found \in IF faults < MaxFaults THEN {index[t], {}} ELSE {index[t]} :
    Begin(s, [Deleting("team policy", {"ctx"} \X found) EXCEPT
                !.keys = found, !.team = t, !.value = p])

SetUserPolicy(s, p) ==
  Begin(s, [IdleSession EXCEPT !.op = "user policy", !.at = "commit", !.value = p])

-----------------------------------------------------------------------------
(* The admin-api: Redis, one entry at a time.                               *)

Entry(e) == /\ ctx' = IF e[1] = "ctx" THEN [ctx EXCEPT ![e[2]] = NoCtx] ELSE ctx
            /\ lookup' = IF e[1] = "lookup" THEN lookup \ {e[2]} ELSE lookup

\* mutant: the entries the other way round
ContextFirst(s, e) == e[1] = "lookup" => <<"ctx", e[2]>> \notin sess[s].todo

\* revoke_key deletes who owns the key before what the gateway remembers of it.
InOrder(s, e) == e[1] = "ctx" => <<"lookup", e[2]>> \notin sess[s].todo
Ticked(s, e) ==
  [sess[s] EXCEPT !.todo = @ \ {e},
                  !.at = IF sess[s].todo = {e} THEN AfterDeletes(sess[s].op) ELSE @]

DeleteEntry(s) ==
  /\ sess[s].at = "delete"
  /\ \E e \in sess[s].todo :
       /\ InOrder(s, e)
       /\ \/ /\ Entry(e) /\ NoFault
             /\ sess' = [sess EXCEPT ![s] = Ticked(s, e)]
             /\ cause' = IF e[1] = "ctx" THEN [cause EXCEPT ![e[2]] = {}] ELSE cause
             /\ IF e[1] = "lookup" THEN OrphanRequests(e[2]) ELSE UNCHANGED reqs
             /\ UNCHANGED revived
          \/ /\ Fault
             /\ sess' = [sess EXCEPT ![s] = [Ticked(s, e) EXCEPT !.failed = @ \cup {e}]]
             /\ cause' = [cause EXCEPT ![e[2]] = @ \cup {"lost delete"}]
             /\ revived' = IF sess[s].op = "revoke" THEN revived \cup {e[2]} ELSE revived
             /\ UNCHANGED <<lookup, ctx, reqs>>
  /\ UNCHANGED <<database, index, failures, operations>>

\* transfer_user: the keys change sets; a failure is recorded and swallowed.
\* A deactivated user's exchange is refused here, after Redis has changed.
SwapIndex(s) ==
  /\ sess[s].at = "swap"
  /\ LET next == IF sess[s].op = "transfer" THEN "commit"
                 ELSE IF sess[s].enabled THEN "expire" ELSE "refused"
     IN \/ /\ index' = [t \in Teams |-> IF t = sess[s].team THEN index[t] \cup sess[s].keys
                                        ELSE IF t = sess[s].from THEN index[t] \ sess[s].keys
                                        ELSE index[t]]
           /\ sess' = [sess EXCEPT ![s].at = next] /\ NoFault
        \/ /\ Fault /\ sess[s].keys # {}
           /\ sess' = [sess EXCEPT ![s].at = next, ![s].failed = @ \cup {<<"swap", NoKey>>}]
           /\ UNCHANGED index
  /\ UNCHANGED <<database, lookup, ctx, failures, reqs, operations, history>>

\* revoke_key: out of the set of the team the user is in by now.
RemoveFromIndex(s) ==
  /\ sess[s].at = "srem"
  /\ \/ index' = [index EXCEPT ![userTeam] = @ \ sess[s].keys] /\ NoFault
     \/ Fault /\ UNCHANGED index
  /\ sess' = [sess EXCEPT ![s].at = "commit"]
  /\ UNCHANGED <<database, lookup, ctx, failures, reqs, operations, history>>

-----------------------------------------------------------------------------
(* issue_key: expire the ACTIVE keys and insert the new one in a statement, *)
(* read the team's allow-list, write the three Redis entries.               *)

RowsFree(s, rows) == \A r \in Sessions \ {s} : sess[r].holds \cap rows = {}

\* The statement sees the keys committed when it begins and waits for their rows.
ExpireAndCreate(s) ==
  /\ sess[s].at = "expire"
  /\ sess' = [sess EXCEPT ![s].expired = ActiveKeys, ![s].at = "rows"]
  /\ UNCHANGED <<database, cache, failures, reqs, bounds, history>>

TakeRows(s) ==
  /\ sess[s].at = "rows" /\ RowsFree(s, sess[s].expired)
  /\ sess' = [sess EXCEPT ![s].holds = sess[s].expired, ![s].at = "snapshot"]
  /\ UNCHANGED <<database, cache, failures, reqs, bounds, history>>

\* Only the team's list is read, never the user's override.
TakeSnapshot(s) ==
  /\ sess[s].at = "snapshot"
  /\ sess' = [sess EXCEPT ![s].at = "publish",
                ![s].snapshot = [team |-> sess[s].team, models |-> policy[sess[s].team]]]
  /\ UNCHANGED <<database, cache, failures, reqs, bounds, history>>

Publish(s) ==
  LET k == sess[s].key IN
  /\ sess[s].at = "publish"
  /\ lookup' = lookup \cup {k}
  /\ ctx' = [ctx EXCEPT ![k] = sess[s].snapshot]
  /\ index' = [index EXCEPT ![sess[s].team] = @ \cup {k}]
  /\ sess' = [sess EXCEPT ![s].at = "commit"]
  /\ UNCHANGED <<database, failures, reqs, bounds, history>>

-----------------------------------------------------------------------------
(* The admin-api: the end of a request (get_db_session commits, or rolls    *)
(* back and with it the failures it recorded).                              *)

Issues(s) == sess[s].op \in {"issue", "exchange"}

\* Why the AuthContext of k may disagree with what s commits.
Reason(s, k) ==
  IF Issues(s) /\ k = sess[s].key
  THEN {w \in {"team snapshot"} : override # Anything} \cup {w \in {"late fill"} : sess[s].outdated}
  ELSE IF sess[s].op \in {"transfer", "exchange", "team policy"}
  THEN {IF k \in sess[s].keys THEN "early delete" ELSE "not listed"}
  ELSE {}

CommitStatus(s) ==
  status' = [k \in Keys |->
               IF Issues(s) /\ k = sess[s].key THEN "ACTIVE"
               ELSE IF k \in sess[s].expired /\ status[k] = "ACTIVE" THEN "EXPIRED"
               ELSE IF sess[s].op = "revoke" /\ k \in sess[s].keys THEN "REVOKED"
               ELSE status[k]]

Commit(s) ==
  /\ sess[s].at = "commit"
  /\ sess[s].op = "revoke" => RowsFree(s, sess[s].keys)
  /\ CommitStatus(s)
  /\ userTeam' = IF sess[s].op \in {"transfer", "exchange"} /\ sess[s].team # sess[s].from
                 THEN sess[s].team ELSE userTeam
  /\ policy' = IF sess[s].op = "team policy"
               THEN [policy EXCEPT ![sess[s].team] = sess[s].value] ELSE policy
  /\ override' = IF sess[s].op = "user policy" THEN sess[s].value ELSE override
  /\ failures' = failures \cup sess[s].failed
  /\ UNCHANGED <<active, cache, bounds, revived>>
  /\ sess' = [r \in Sessions |->
                IF r # s THEN Outdate(sess[r])
                ELSE IF sess[s].op = "user policy"
                     THEN [IdleSession EXCEPT !.op = "user policy", !.at = "list"]
                     ELSE IdleSession]
  /\ OutdateRequests
  /\ NoteChange(LAMBDA k : Reason(s, k))

\* mutant: the service was given no cache manager, so nothing is deleted
NotInjected(s) ==
  /\ sess[s].at = "list"
  /\ sess' = [sess EXCEPT ![s].at = "finish"]
  /\ UNCHANGED <<database, cache, failures, reqs, bounds, history>>

\* After the commit: the AuthContexts of the keys that are ACTIVE by now.
ListKeys(s) ==
  /\ sess[s].at = "list"
  /\ sess' = [sess EXCEPT ![s] = Deleting("user policy", {"ctx"} \X ActiveKeys)]
  /\ UNCHANGED <<database, cache, failures, reqs, bounds, history>>

FinishUserPolicy(s) ==
  /\ sess[s].at = "finish"
  /\ failures' = failures \cup sess[s].failed
  /\ sess' = [sess EXCEPT ![s] = IdleSession]
  /\ UNCHANGED <<database, cache, reqs, bounds, history>>

Rollback(s) ==
  /\ \/ sess[s].at = "refused" /\ NoFault
     \/ sess[s].at \in {"publish", "commit"} /\ Fault
  /\ sess' = [sess EXCEPT ![s] = IdleSession]
  /\ UNCHANGED <<database, cache, failures, reqs, operations, history>>

-----------------------------------------------------------------------------
(* Transactions that leave Redis alone: Cognito sync and the expirer; the   *)
(* retry of recorded deletions; and the entries that reach their TTL.       *)

Synced(why) ==
  /\ operations < MaxOperations /\ operations' = operations + 1
  /\ UNCHANGED <<override, policy, status, cache, failures, faults, revived>>
  /\ sess' = [s \in Sessions |-> Outdate(sess[s])]
  /\ NoteChange(LAMBDA k : {why})

SyncMovesUser(t) ==
  /\ t # userTeam /\ userTeam' = t
  /\ UNCHANGED active
  /\ Synced("sync") /\ OutdateRequests

SyncSetsActive(on) ==
  /\ active # on /\ active' = on
  /\ UNCHANGED userTeam
  /\ Synced("sync")
  /\ reqs' = [g \in Requests |-> [reqs[g] EXCEPT !.banned = @ /\ ~on]]

\* The TTL of key:vk is the rest of the key's life.
ExpireKey(k) ==
  /\ status[k] = "ACTIVE" /\ k \notin lookup /\ RowsFree(NoKey, {k})
  /\ status' = [status EXCEPT ![k] = "EXPIRED"]
  /\ UNCHANGED <<userTeam, active, override, policy, cache, failures, sess, reqs, bounds, history>>

\* An entry swap:... or pattern:... is deleted like a key, and counted resolved.
RetryFailed(e) ==
  /\ e \in failures
  /\ Entry(e) /\ failures' = failures \ {e}
  /\ IF e[1] = "lookup" THEN OrphanRequests(e[2]) ELSE UNCHANGED reqs
  /\ cause' = IF e[1] = "ctx" THEN [cause EXCEPT ![e[2]] = {}] ELSE cause
  /\ UNCHANGED <<database, index, sess, bounds, revived>>

EntryLapses(k) ==
  /\ \/ k \in lookup /\ Entry(<<"lookup", k>>) /\ UNCHANGED cause
     \/ ctx[k] # NoCtx /\ Entry(<<"ctx", k>>) /\ cause' = [cause EXCEPT ![k] = {}]
  /\ UNCHANGED <<database, index, failures, sess, reqs, bounds, revived>>

-----------------------------------------------------------------------------
(* The gateway: VKAuthStrategy.authenticate, and which stores it may ask.   *)

Become(g, r) == reqs' = [reqs EXCEPT ![g] = r]
OnlyRequest == UNCHANGED <<database, cache, failures, sess, bounds, history>>
Refused == IdleRequest
Over(g) == reqs[g].at \in {"idle", "served"}

\* The client has a key once its transaction is committed.  With Redis (or
\* both stores) degraded no owner can be found and the request is refused.
StartRequest(g, k) ==
  /\ Over(g) /\ status[k] # "none"
  /\ \E db \in BOOLEAN :
       Become(g, [IdleRequest EXCEPT !.at = "ctx", !.key = k, !.db = db,
                    !.banned = ~active, !.revoked = status[k] = "REVOKED"])
  /\ OnlyRequest

\* A cached AuthContext leaves one question to the database, if it is there.
ReadContext(g) ==
  LET c == ctx[reqs[g].key] IN
  /\ reqs[g].at = "ctx"
  /\ Become(g, [reqs[g] EXCEPT !.at = IF c = NoCtx THEN "lookup"
                                      ELSE IF reqs[g].db THEN "recheck" ELSE "served"])
  /\ OnlyRequest

\* A hit: the account may have been deactivated since.
Recheck(g) ==
  LET k == reqs[g].key IN
  /\ reqs[g].at = "recheck"
  /\ IF active
     THEN Become(g, [reqs[g] EXCEPT !.at = "served"]) /\ UNCHANGED <<lookup, ctx, cause>>
     ELSE /\ lookup' = lookup \ {k} /\ ctx' = [ctx EXCEPT ![k] = NoCtx]
          /\ cause' = [cause EXCEPT ![k] = {}]
          /\ reqs' = [h \in Requests |->
                        IF h = g THEN Refused
                        ELSE IF reqs[h].key = k THEN [reqs[h] EXCEPT !.orphan = TRUE]
                        ELSE reqs[h]]
  /\ UNCHANGED <<database, index, failures, sess, bounds, revived>>

ReadLookup(g) ==
  /\ reqs[g].at = "lookup"
  /\ Become(g, IF reqs[g].key \in lookup /\ reqs[g].db
               THEN [reqs[g] EXCEPT !.at = "user"] ELSE Refused)
  /\ OnlyRequest

LoadUser(g) ==
  /\ reqs[g].at = "user"
  /\ Become(g, IF active THEN [reqs[g] EXCEPT !.at = "override", !.team = userTeam,
                                              !.outdated = FALSE]
               ELSE Refused)
  /\ OnlyRequest

\* Fail closed when the override cannot be read.
LoadOverride(g) ==
  /\ reqs[g].at = "override"
  /\ \/ Become(g, [reqs[g] EXCEPT !.models = override,
                                  !.at = IF override = Anything THEN "policy" ELSE "store"])
     \/ Become(g, Refused)
  /\ OnlyRequest

LoadPolicy(g) ==
  /\ reqs[g].at = "policy"
  /\ Become(g, [reqs[g] EXCEPT !.models = policy[reqs[g].team], !.at = "store"])
  /\ OnlyRequest

StoreContext(g) ==
  LET k == reqs[g].key
      c == [team |-> reqs[g].team, models |-> reqs[g].models]
  IN
  /\ reqs[g].at = "store"
  /\ ctx' = [ctx EXCEPT ![k] = c]
  /\ cause' = [cause EXCEPT ![k] = IF reqs[g].outdated THEN {"late fill"} ELSE {}]
  /\ revived' = IF reqs[g].orphan THEN revived \cup {k} ELSE revived
  /\ Become(g, [reqs[g] EXCEPT !.at = "served", !.team = NoTeam, !.models = Anything,
                               !.outdated = FALSE, !.orphan = FALSE])
  /\ UNCHANGED <<database, lookup, index, failures, sess, bounds>>

-----------------------------------------------------------------------------
Admin(s) ==
  \/ \E k \in Keys : IssueForSts(s, k)
  \/ \E k \in Keys, t \in Teams : ExchangeToken(s, k, t)
  \/ \E t \in Teams : TransferUser(s, t)
  \/ \E k \in Keys : RevokeKey(s, k)
  \/ ForceReauthTeam(s)
  \/ \E t \in Teams, p \in Policies \cup {Anything} : SetTeamPolicy(s, t, p)
  \/ \E p \in Policies \cup {Anything} : SetUserPolicy(s, p)
  \/ DeleteEntry(s) \/ SwapIndex(s) \/ RemoveFromIndex(s)
  \/ ExpireAndCreate(s) \/ TakeRows(s) \/ TakeSnapshot(s) \/ Publish(s)
  \/ Commit(s) \/ ListKeys(s) \/ FinishUserPolicy(s) \/ Rollback(s)

Background ==
  \/ \E t \in Teams : SyncMovesUser(t)
  \/ \E on \in BOOLEAN : SyncSetsActive(on)
  \/ \E k \in Keys : ExpireKey(k) \/ EntryLapses(k)
  \/ \E e \in Entries : RetryFailed(e)

Gateway(g) ==
  \/ \E k \in Keys : StartRequest(g, k)
  \/ ReadContext(g) \/ Recheck(g) \/ ReadLookup(g)
  \/ LoadUser(g) \/ LoadOverride(g) \/ LoadPolicy(g) \/ StoreContext(g)

Next == \/ \E s \in Sessions : Admin(s)
        \/ Background
        \/ \E g \in Requests : Gateway(g)

Spec == Init /\ [][Next]_vars

-----------------------------------------------------------------------------
KeysTypeOK ==
  /\ userTeam \in Teams /\ active \in BOOLEAN
  /\ override \in Policies \cup {Anything}
  /\ policy \in [Teams -> Policies \cup {Anything}]
  /\ status \in [Keys -> Statuses]
  /\ lookup \subseteq Keys /\ ctx \in [Keys -> Contexts \cup {NoCtx}]
  /\ index \in [Teams -> SUBSET Keys]
  /\ failures \subseteq Entries /\ revived \subseteq Keys

Quiet == \A s \in Sessions : sess[s].at = "idle"

\* Once the admin-api is quiet, the AuthContext cached for an ACTIVE key says
\* what the database says of the user's team and models, unless one of the
\* paths the code leaves open explains it: a snapshot read before the change, a
\* deletion before the commit, a key the reverse index did not list, a
\* snapshot of the team's list alone, a deletion Redis refused, or a Cognito sync.
StaleHasCause ==
  Quiet => \A k \in ActiveKeys : ctx[k] \in {NoCtx, Truth} \/ cause[k] # {}

\* A request that begins while its user is deactivated is refused, however the
\* caches stand, unless the account is active again before the answer or the
\* database is out of reach.
DeactivatedIsRefused ==
  \A g \in Requests : reqs[g].at = "served" /\ reqs[g].db => ~reqs[g].banned

\* A key whose revocation was committed before the request began is served
\* only if a deletion failed or a request that had already found its owner
\* filled the cache again.
RevokedServedHasCause ==
  \A g \in Requests : reqs[g].at = "served" /\ reqs[g].revoked => reqs[g].key \in revived

\* Both: who is gone is refused, save for the causes named.
GoneAreRefused == DeactivatedIsRefused /\ RevokedServedHasCause
=============================================================================
