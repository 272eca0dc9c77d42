----------------------------- MODULE CognitoSync -----------------------------
(***************************************************************************)
(* The Cognito synchronisation of the admin-api.  sync_all crawls the user *)
(* pool group by group, compares what it saw with one snapshot of the      *)
(* users table, writes the differences in batches, deactivates whoever it  *)
(* did not see and empties the teams it did not see.  Meanwhile the pool   *)
(* changes, people log in through OIDC, and sync_user or sync_group store  *)
(* what they fetched a moment ago.                                         *)
(*                                                                         *)
(* The display name, compared and copied as the email is, is left out, and *)
(* so are the result's counters.  Departments only decide whether a team   *)
(* can be placed.                                                          *)
(***************************************************************************)
EXTENDS Naturals, Sequences, FiniteSets, SequencesExt

CONSTANTS
  Subs, Emails,        \* Cognito subjects; email addresses
  GroupOrder,          \* the pool's groups, in the order Cognito lists them
  Mapped,              \* the groups whose name parses to a team
  Homeless,            \* those of them whose department cannot be placed
  AdminGroups,
  Memberships,         \* the sets of groups an account may be in
  DefaultTeam, Handmade, Local,   \* teams without a group; an STS user's subject
  Ids,                 \* primary keys of auth.users
  NoAccount, NoRow,
  DeactivateMissing,   \* COGNITO_SYNC_DEACTIVATE_MISSING
  BatchSize, MaxChanges, MaxOthers, MaxOutages

Groups == ToSet(GroupOrder)
Unknown(s) == <<"unknown", s>>     \* <sub>@unknown, when the token has no email
Mails    == Emails \cup {Local} \cup {Unknown(s) : s \in Subs}
Homes    == Mapped \cup {DefaultTeam, Handmade}
Accounts == [email : Emails, enabled : BOOLEAN, groups : SUBSET Groups]
Rows     == [sub : Subs \cup {Local}, email : Mails, team : Homes,
             role : {"ADMIN", "DEVELOPER"}, active : BOOLEAN, oidc : BOOLEAN]

\* The last but one: there is always a key nobody has.
ASSUME SyncAssumption ==
  /\ GroupOrder \in Seq(Groups) /\ Homeless \subseteq Mapped /\ Mapped \cup AdminGroups \subseteq Groups
  /\ Memberships \subseteq SUBSET Groups
  /\ Local \notin Subs /\ NoAccount \notin Subs
  /\ NoRow \notin Rows
  /\ DeactivateMissing \in BOOLEAN /\ BatchSize \in Nat \ {0}
  /\ IsFiniteSet(Subs) /\ (IsFiniteSet(Ids) => Cardinality(Ids) > Cardinality(Subs))
  /\ {MaxChanges, MaxOthers, MaxOutages} \subseteq Nat

VARIABLES
  pool,       \* Cognito: the account of each subject
  rows,       \* auth.users, committed
  work,       \* what sync_all's transaction wrote and has not committed
  sync,       \* sync_all: where it is and what it has read
  single,     \* a sync_user or sync_group between its fetch and its commit
  changes, others, outages,  \* bounds
  errors,     \* history: the listings and teams sync_all recorded as failed
  conflicts,  \* history: the subjects whose write sync_all rolled back
  touched     \* history: subjects and emails changed since the syncs began

syncBounds == <<changes, others, outages>>
syncHistory == <<errors, conflicts, touched>>
syncVars == <<pool, rows, work, sync, single, syncBounds, syncHistory>>

Row(s, e, t, r, a, oidc) ==
  [sub |-> s, email |-> e, team |-> t, role |-> r, active |-> a, oidc |-> oidc]

NoSync == [at |-> "idle", todo |-> {}, map |-> <<>>, synced |-> {}, snap |-> <<>>,
           left |-> {}, seen |-> {}, processed |-> 0, moved |-> {}]
NoSingle == [op |-> "none", of |-> NoAccount, map |-> <<>>]

SyncInit ==
  /\ pool \in [Subs -> {NoAccount} \cup
                 [email : Emails, enabled : {TRUE}, groups : Memberships]]
  /\ \A s, u \in Subs : (s # u /\ pool[s] # NoAccount /\ pool[u] # NoAccount)
                        => pool[s].email # pool[u].email
  /\ LET local == CHOOSE i \in Ids : TRUE IN
     rows = [i \in Ids |-> IF i = local
                           THEN Row(Local, Local, Handmade, "DEVELOPER", TRUE, FALSE)
                           ELSE NoRow]
  /\ work = <<>> /\ sync = NoSync /\ single = NoSingle
  /\ changes = 0 /\ others = 0 /\ outages = 0 /\ errors = {} /\ conflicts = {} /\ touched = {}

-----------------------------------------------------------------------------
(* What a list of groups means, and the upsert all syncs share.             *)

\* the first group of the listing that has a team (wanted: those to consider)
TeamOf(groups, wanted) ==
  LET ours == {k \in DOMAIN GroupOrder : GroupOrder[k] \in groups \cap wanted}
  IN IF ours = {} THEN DefaultTeam ELSE GroupOrder[Min(ours)]

RoleOf(groups) == IF groups \cap AdminGroups # {} THEN "ADMIN" ELSE "DEVELOPER"

View == [i \in Ids |-> IF i \in DOMAIN work THEN work[i] ELSE rows[i]]

Used(db) == {i \in Ids : db[i] # NoRow}
BySub(db, s)   == {i \in Used(db) : db[i].sub = s}
ByEmail(db, e) == {i \in Used(db) : db[i].email = e}

\* get_by_sso_subject, else get_by_email, else a new row, whose key nobody else has
Target(db, s, e) ==
  CHOOSE i \in Ids : IF BySub(db, s) # {} THEN i \in BySub(db, s)
                     ELSE IF ByEmail(db, e) # {} THEN i \in ByEmail(db, e)
                     ELSE i \notin Used(db) \cup DOMAIN work

\* the UNIQUE constraints of auth.users
Collides(db, i, row) ==
  \E j \in Used(db) \ {i} : db[j].email = row.email \/ db[j].sub = row.sub

Provider(db, i) == IF db[i] = NoRow THEN TRUE ELSE db[i].oidc

Upserted(db, s, info, team) ==
  LET i == Target(db, s, info.email)
  IN [id |-> i, row |-> Row(s, info.email, team, RoleOf(info.groups),
                            info.enabled, Provider(db, i))]

\* mutant: the gate forgets that an account can be disabled or enabled again
IgnoresActive(snap, s, info, team) ==
  \/ snap.email # info.email
  \/ snap.team # team
  \/ snap.role # RoleOf(info.groups)

NeedsUpdate(snap, s, info, team) ==
  \/ snap.email # info.email
  \/ snap.team # team
  \/ snap.role # RoleOf(info.groups)
  \/ snap.active # info.enabled

Outage == outages < MaxOutages /\ outages' = outages + 1

-----------------------------------------------------------------------------
(* sync_all.                                                                *)

StartSync ==
  /\ sync.at \in {"idle", "done"}
  /\ touched' = IF single = NoSingle THEN {} ELSE touched
  /\ \/ /\ sync' = [NoSync EXCEPT !.at = "groups", !.todo = Groups]
        /\ errors' = {} /\ UNCHANGED outages
     \/ /\ Outage                       \* list_groups fails: nothing is synced
        /\ errors' = {"groups"} /\ sync' = [NoSync EXCEPT !.at = "done"]
  /\ conflicts' = {}
  /\ UNCHANGED <<pool, rows, work, single, changes, others>>

MembersOf(g) == {s \in Subs : pool[s] # NoAccount /\ g \in pool[s].groups}

\* A member keeps the profile it was first seen with; its groups accumulate.
Noted(map, members, groups) ==
  [s \in DOMAIN map \cup members |->
     IF s \in DOMAIN map
     THEN [map[s] EXCEPT !.groups = @ \cup IF s \in members THEN groups ELSE {}]
     ELSE [email |-> pool[s].email, enabled |-> pool[s].enabled, groups |-> groups]]

FetchGroup(g) ==
  /\ sync.at = "groups" /\ g \in sync.todo
  /\ \A h \in sync.todo \ {g} : \E i, j \in DOMAIN GroupOrder :
       i < j /\ GroupOrder[i] = g /\ GroupOrder[j] = h
  /\ LET team == IF g \in Mapped \ Homeless THEN {g} ELSE {}
         after == [sync EXCEPT !.todo = @ \ {g}, !.synced = @ \cup team]
         placed == IF g \in Homeless THEN {"team"} ELSE {}
     IN \/ /\ sync' = [after EXCEPT !.map = Noted(@, MembersOf(g), {g})]
           /\ errors' = errors \cup placed /\ UNCHANGED outages
        \/ /\ Outage
           /\ sync' = after /\ errors' = errors \cup placed \cup {"members"}
  /\ UNCHANGED <<pool, rows, work, single, changes, others, conflicts, touched>>

\* 2b: the whole pool, for those no group showed
ListAllUsers ==
  /\ sync.at = "groups" /\ sync.todo = {}
  /\ \/ /\ sync' = [sync EXCEPT !.at = "prefetch",
                      !.map = Noted(@, {s \in Subs : pool[s] # NoAccount}, {})]
        /\ UNCHANGED <<outages, errors>>
     \/ /\ Outage
        /\ sync' = [sync EXCEPT !.at = "prefetch"] /\ errors' = errors \cup {"users"}
  /\ UNCHANGED <<pool, rows, work, single, changes, others, conflicts, touched>>

Prefetch ==
  /\ sync.at = "prefetch"
  /\ LET known == {s \in DOMAIN sync.map : BySub(rows, s) # {}} IN
     sync' = [sync EXCEPT !.at = "users", !.left = DOMAIN sync.map,
                !.snap = [s \in known |-> rows[CHOOSE i \in BySub(rows, s) : TRUE]]]
  /\ UNCHANGED <<pool, rows, work, single, syncBounds, syncHistory>>

\* mutant: a user the gate skips is not marked as seen
SeenWhenWritten(s, skipped) == IF skipped THEN sync.seen ELSE sync.seen \cup {s}

Seen(s, skipped) == sync.seen \cup {s}

\* One user: skipped by the gate, written inside a savepoint, or rolled back to it.
SyncOne(s) ==
  /\ sync.at = "users" /\ s \in sync.left
  /\ LET info == sync.map[s]
         team == TeamOf(info.groups, sync.synced)
         up   == Upserted(View, s, info, team)
         skip == s \in DOMAIN sync.snap /\ ~NeedsUpdate(sync.snap[s], s, info, team)
         bad  == Collides(View, up.id, up.row)
         next == [sync EXCEPT !.left = @ \ {s}, !.seen = Seen(s, skip)]
         full == (sync.processed + 1) % BatchSize = 0
         wrote == [i \in DOMAIN work \cup {up.id} |-> IF i = up.id THEN up.row ELSE work[i]]
         kept  == IF bad THEN work ELSE wrote
     IN IF skip
        THEN /\ sync' = next
             /\ UNCHANGED <<rows, work, conflicts>>
        ELSE /\ sync' = [next EXCEPT !.processed = @ + 1]
             /\ conflicts' = IF bad THEN conflicts \cup {s} ELSE conflicts
             /\ IF full
                THEN /\ rows' = [i \in Ids |-> IF i \in DOMAIN kept THEN kept[i] ELSE rows[i]]
                     /\ work' = <<>>
                ELSE work' = kept /\ UNCHANGED rows
  /\ UNCHANGED <<pool, single, syncBounds, errors, touched>>

CommitRest ==
  /\ sync.at = "users" /\ sync.left = {}
  /\ rows' = View /\ work' = <<>>
  /\ sync' = [sync EXCEPT !.at = IF DeactivateMissing THEN "missing" ELSE "teams"]
  /\ UNCHANGED <<pool, single, syncBounds, syncHistory>>

\* deactivate_missing_oidc_users: one UPDATE over the table as it is by then
DeactivateUnseen ==
  /\ sync.at = "missing"
  /\ rows' = [i \in Ids |-> IF i \in Used(rows) /\ rows[i].oidc /\ rows[i].sub \notin sync.seen
                            THEN [rows[i] EXCEPT !.active = FALSE] ELSE rows[i]]
  /\ sync' = [sync EXCEPT !.at = "teams"]
  /\ UNCHANGED <<pool, work, single, syncBounds, syncHistory>>

\* list_all_teams, with the members each team has at that moment
ReadStaleTeams ==
  /\ sync.at = "teams"
  /\ sync' = [sync EXCEPT !.at = "moves",
                !.moved = {i \in Used(rows) : /\ rows[i].active
                                              /\ rows[i].team \notin sync.synced \cup {DefaultTeam}}]
  /\ UNCHANGED <<pool, rows, work, single, syncBounds, syncHistory>>

CommitMoves ==
  /\ sync.at = "moves"
  /\ rows' = [i \in Ids |-> IF i \in sync.moved THEN [rows[i] EXCEPT !.team = DefaultTeam]
                            ELSE rows[i]]
  /\ sync' = [sync EXCEPT !.at = "done"]
  /\ UNCHANGED <<pool, work, single, syncBounds, syncHistory>>

\* The database fails, or the caller goes away: the open batch is lost.
SyncAborts ==
  /\ sync.at \notin {"idle", "done"} /\ Outage
  /\ sync' = NoSync /\ work' = <<>> /\ errors' = {} /\ conflicts' = {}
  /\ UNCHANGED <<pool, rows, single, changes, others, touched>>

SyncAll ==
  \/ StartSync \/ ListAllUsers \/ Prefetch \/ CommitRest \/ DeactivateUnseen
  \/ ReadStaleTeams \/ CommitMoves \/ SyncAborts
  \/ \E g \in Groups : FetchGroup(g)
  \/ \E s \in Subs : SyncOne(s)

-----------------------------------------------------------------------------
(* sync_user, sync_group and the OIDC login, each one transaction.  They     *)
(* wait for a row, an email or a subject sync_all holds uncommitted.         *)

Free(s, e) ==
  \A i \in DOMAIN work : /\ work[i].sub # s /\ work[i].email # e
                         /\ rows[i] # NoRow => (rows[i].sub # s /\ rows[i].email # e)

Other == others < MaxOthers /\ others' = others + 1

\* admin_get_user by Username, which is the email in this pool, then its groups
FetchUser(e) ==
  /\ single = NoSingle /\ Other
  /\ LET found == {s \in Subs : pool[s] # NoAccount /\ pool[s].email = e} IN
     \/ /\ single' = [op |-> "user", of |-> e,
                      map |-> [s \in found |-> pool[s]]]
        /\ UNCHANGED outages
     \/ /\ Outage /\ found # {}         \* the groups cannot be listed: none are used
        /\ single' = [op |-> "user", of |-> e,
                      map |-> [s \in found |-> [pool[s] EXCEPT !.groups = {}]]]
  /\ touched' = IF sync.at = "idle" THEN {} ELSE touched
  /\ UNCHANGED <<pool, rows, work, sync, changes, errors, conflicts>>

\* sync_group reads the members of one group; their role comes from it alone.
FetchMembers(g) ==
  /\ single = NoSingle /\ Other
  /\ g \in Mapped \ Homeless            \* otherwise the request ends here
  /\ single' = [op |-> "group", of |-> g,
                map |-> [s \in MembersOf(g) |-> [pool[s] EXCEPT !.groups = {g}]]]
  /\ touched' = IF sync.at = "idle" THEN {} ELSE touched
  /\ UNCHANGED <<pool, rows, work, sync, changes, outages, errors, conflicts>>

\* _upsert_one_user for each account; one collision and nothing is committed.
Store(acc, s, map) ==
  LET up == Upserted(acc.db, s, map[s], TeamOf(map[s].groups, Mapped \ Homeless))
  IN [db |-> [acc.db EXCEPT ![up.id] = up.row],
      bad |-> acc.bad \/ Collides(acc.db, up.id, up.row)]

Stored(db, map) ==
  LET all == FoldLeft(LAMBDA acc, s : Store(acc, s, map), [db |-> db, bad |-> FALSE],
                      SetToSeq(DOMAIN map))
  IN IF all.bad THEN db ELSE all.db

\* _deactivate_missing_user: no account, so the row is found by email
Deactivated(db, e) ==
  [i \in Ids |-> IF i \in ByEmail(db, e) /\ db[i].oidc
                 THEN [db[i] EXCEPT !.active = FALSE] ELSE db[i]]

StoreSingle ==
  /\ single # NoSingle
  /\ \A s \in DOMAIN single.map : Free(s, single.map[s].email)
  /\ DOMAIN single.map = {} => Free(NoAccount, single.of)
  /\ rows' = IF single.op = "user" /\ DOMAIN single.map = {} THEN Deactivated(rows, single.of)
             ELSE Stored(rows, single.map)
  /\ single' = NoSingle
  /\ touched' = touched \cup DOMAIN single.map
                        \cup {single.map[s].email : s \in DOMAIN single.map}
                        \cup IF single.op = "user" THEN {single.of} ELSE {}
  /\ UNCHANGED <<pool, work, sync, syncBounds, errors, conflicts>>

\* The row a login leaves: activity is not its business, and an email the
\* token did not carry does not replace a real one.
LoginRow(old, s, e, t) ==
  IF old = NoRow THEN Row(s, e, t, RoleOf(pool[s].groups), TRUE, TRUE)
  ELSE [old EXCEPT !.sub = s, !.team = t, !.role = RoleOf(pool[s].groups),
                   !.email = IF e \in Emails \/ @ = Unknown(s) THEN e ELSE @]

Login(s, e) ==
  /\ pool[s] # NoAccount /\ pool[s].enabled /\ e \in {pool[s].email, Unknown(s)}
  /\ Free(s, e) /\ Other
  /\ LET i == Target(rows, s, e)
         new == LoginRow(rows[i], s, e, TeamOf(pool[s].groups, Mapped))
     IN /\ new.active                   \* user_deactivated: rolled back
        /\ ~Collides(rows, i, new)      \* IntegrityError: rolled back
        /\ rows' = [rows EXCEPT ![i] = new]
        /\ touched' = touched \cup {s, e, new.email}
  /\ UNCHANGED <<pool, work, sync, single, changes, outages, errors, conflicts>>

-----------------------------------------------------------------------------
(* The user pool (external): accounts come, go and change.                  *)

Change(s, account) ==
  /\ changes < MaxChanges /\ changes' = changes + 1
  /\ pool[s] # account
  /\ account # NoAccount => \A u \in Subs \ {s} :
       pool[u] # NoAccount => pool[u].email # account.email
  /\ pool' = [pool EXCEPT ![s] = account]
  /\ touched' = touched \cup {s}
                        \cup {a.email : a \in {pool[s], account} \ {NoAccount}}
  /\ UNCHANGED <<rows, work, sync, single, others, outages, errors, conflicts>>

PoolChanges(s) ==
  \/ pool[s] = NoAccount /\ \E e \in Emails, gs \in Memberships :
       Change(s, [email |-> e, enabled |-> TRUE, groups |-> gs])
  \/ pool[s] # NoAccount /\
       \/ Change(s, NoAccount)
       \/ Change(s, [pool[s] EXCEPT !.enabled = ~@])
       \/ \E gs \in Memberships : Change(s, [pool[s] EXCEPT !.groups = gs])
       \/ \E e \in Emails : Change(s, [pool[s] EXCEPT !.email = e])

SyncNext ==
  \/ SyncAll \/ StoreSingle
  \/ \E e \in Emails : FetchUser(e)
  \/ \E g \in Groups : FetchMembers(g)
  \/ \E s \in Subs : PoolChanges(s) \/ \E e \in Emails \cup {Unknown(s)} : Login(s, e)

SyncSpec == SyncInit /\ [][SyncNext]_syncVars

-----------------------------------------------------------------------------

\* Every row is a row of auth.users: subjects and emails are unique in it.
SyncTypeOK ==
  /\ \A s \in Subs : pool[s] # NoAccount => pool[s] \in Accounts
  /\ \A i \in Used(rows) : rows[i] \in Rows /\ ~Collides(rows, i, rows[i])
  /\ DOMAIN work \subseteq Ids

\* A finished sync_all leaves the row of every account as the pool has it,
\* whatever the gate skipped and whoever logged in or was synced before it:
\* for the accounts nobody touched while it ran, whose write did not collide,
\* and unless a listing failed (sync_all 114-220, _needs_update 32-43).
MirrorsThePool ==
  (sync.at = "done" /\ errors \subseteq {"team"}) =>
    \A s \in Subs : (pool[s] # NoAccount /\ {s, pool[s].email} \cap (touched \cup conflicts) = {}) =>
      \E i \in Used(rows) :
        LET a == pool[s] IN
        rows[i] = Row(s, a.email, TeamOf(a.groups, Mapped \ Homeless), RoleOf(a.groups),
                      a.enabled, rows[i].oidc)

\* Nobody is deactivated whose account was there and enabled all along,
\* unless the listing of the whole pool failed, and nobody of another
\* provider for being absent from the pool; save that sync_user, which asks by
\* email, takes an account whose email changed for a deleted one (sync_all
\* 186-188 and 224-232, _deactivate_missing_user 412-446).
DeactivatedHasCause ==
  [][\A i \in Used(rows) : (rows[i].active /\ ~rows'[i].active) =>
       LET s == rows'[i].sub IN
       \/ {s, rows[i].sub, rows[i].email} \cap touched # {}
       \/ s \in Subs /\ pool[s] = NoAccount
       \/ s \in Subs /\ ~pool[s].enabled
       \/ "users" \in errors /\ rows[i].oidc
       \/ /\ single # NoSingle /\ single.of = rows[i].email /\ rows[i].oidc
          /\ \A u \in Subs : pool[u] # NoAccount => pool[u].email # single.of]_syncVars
=============================================================================
