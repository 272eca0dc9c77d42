------------------------- MODULE VirtualKeysProofs -------------------------
(***************************************************************************)
(* What the caches may say of a user's keys, for any keys, teams,          *)
(* policies, admin-api sessions and gateway requests. The proof is in      *)
(* layers, each an invariant that the next one uses: the shape of the      *)
(* records; whom the gateway has let pass; what a revocation has removed;  *)
(* and what explains an AuthContext that is out of date. Then the Cognito  *)
(* sync, which keeps the rows those keys belong to: an account nobody      *)
(* touches is followed through the crawl, by what the listings have told   *)
(* of it and by the row it has under the open batch.                       *)
(***************************************************************************)
EXTENDS VirtualKeys, CognitoSync, FiniteSums, SequenceTheorems

Lists == Policies \cup {Anything}
KeyEntries == {"ctx", "lookup"} \X Keys

SessionRecords ==
  [op : {"none", "issue", "exchange", "transfer", "revoke", "team policy", "user policy"},
   at : {"idle", "expire", "rows", "snapshot", "publish", "commit", "delete", "swap", "srem",
         "refused", "list", "finish"},
   key : Keys \cup {NoKey}, keys : SUBSET Keys, expired : SUBSET Keys, holds : SUBSET Keys,
   todo : SUBSET KeyEntries, from : Teams \cup {NoTeam}, team : Teams \cup {NoTeam},
   value : Lists, enabled : BOOLEAN, snapshot : Contexts \cup {NoCtx},
   failed : SUBSET Entries, outdated : BOOLEAN]

RequestRecords ==
  [at : {"idle", "ctx", "recheck", "lookup", "user", "override", "policy", "store", "served"},
   key : Keys \cup {NoKey}, db : BOOLEAN, team : Teams \cup {NoTeam}, models : Lists,
   banned : BOOLEAN, revoked : BOOLEAN, outdated : BOOLEAN, orphan : BOOLEAN]

Issuing(r) == r.op \in {"issue", "exchange"}

(* The points of each operation, and what it needs there. *)
SessionShape(r) ==
  /\ r \in SessionRecords
  /\ r.at # "delete" => r.todo = {}
  /\ r.op = "none" => r.at = "idle"
  /\ r.op = "issue" => r.at \in {"expire", "rows", "snapshot", "publish", "commit"}
  /\ r.op = "exchange" => r.at \in {"delete", "swap", "refused", "expire", "rows", "snapshot",
                                    "publish", "commit"}
  /\ r.op = "transfer" => r.at \in {"delete", "swap", "commit"}
  /\ r.op = "revoke" => r.at \in {"delete", "srem", "commit"}
  /\ r.op = "team policy" => r.at \in {"delete", "commit"}
  /\ r.op = "user policy" => r.at \in {"commit", "list", "delete", "finish"}
  /\ IF Issuing(r) THEN r.key \in Keys ELSE r.key = NoKey
  /\ r.op \in {"issue", "exchange", "transfer", "team policy"} => r.team \in Teams
  /\ r.at = "publish" => r.snapshot \in Contexts

RequestShape(q) ==
  /\ q \in RequestRecords
  /\ q.at # "idle" => q.key \in Keys
  /\ q.at \in {"override", "policy", "store"} => q.team \in Teams

DatabaseShape ==
  /\ userTeam \in Teams /\ active \in BOOLEAN /\ override \in Lists
  /\ policy \in [Teams -> Lists] /\ status \in [Keys -> Statuses]

CacheShape ==
  /\ lookup \subseteq Keys /\ ctx \in [Keys -> Contexts \cup {NoCtx}]
  /\ index \in [Teams -> SUBSET Keys] /\ failures \subseteq Entries /\ revived \subseteq Keys

Sessioned == sess = [s \in Sessions |-> sess[s]] /\ \A s \in Sessions : SessionShape(sess[s])
Requested == reqs = [g \in Requests |-> reqs[g]] /\ \A g \in Requests : RequestShape(reqs[g])
Caused == cause = [k \in Keys |-> cause[k]]

KeysShape == DatabaseShape /\ CacheShape /\ Sessioned /\ Requested /\ Caused

(* A key is issued by one session, and until that commits nobody has it;   *)
(* no session forgets who owns a key after the AuthContext that names it.   *)
Unissued(s) ==
  Issuing(sess[s]) => /\ status[sess[s].key] = "none"
                      /\ \A t \in Sessions \ {s} : sess[t].key # sess[s].key

RevokesIssued(r) == r.op = "revoke" => \A k \in r.keys : status[k] # "none"

OwnersFirst(r) == \A k \in Keys : <<"lookup", k>> \in r.todo => <<"ctx", k>> \in r.todo

Held(q) == q.at # "idle" => status[q.key] # "none"

KeysApart ==
  /\ \A s \in Sessions : Unissued(s) /\ OwnersFirst(sess[s]) /\ RevokesIssued(sess[s])
  /\ \A g \in Requests : Held(reqs[g])

(* Whom the gateway lets pass. *)
Screened(q) ==
  /\ q.banned => ~active
  /\ q.at \in {"override", "policy", "store"} => ~q.banned
  /\ q.at = "served" /\ q.db => ~q.banned

Screening == \A g \in Requests : Screened(reqs[g])

(* What a revocation has removed, unless the key is revived. *)
Past == {"user", "override", "policy", "store"}

OwnerGone(k) ==
  k \in revived \/ /\ k \notin lookup
                   /\ \A g \in Requests : reqs[g].key = k /\ reqs[g].at \in Past => reqs[g].orphan

ContextGone(k) == k \in revived \/ ctx[k] = NoCtx

Revoking(r) ==
  r.op = "revoke" => \A k \in r.keys : /\ <<"lookup", k>> \in r.todo \/ OwnerGone(k)
                                       /\ <<"ctx", k>> \in r.todo \/ ContextGone(k)

Refusing(q) ==
  q.revoked => /\ q.at # "idle" => status[q.key] = "REVOKED"
               /\ q.at \in Past \cup {"recheck", "served"} => q.key \in revived

Revocation ==
  /\ \A s \in Sessions : Revoking(sess[s])
  /\ \A k \in Keys : status[k] = "REVOKED" => OwnerGone(k) /\ ContextGone(k)
  /\ \A g \in Requests : Refusing(reqs[g])

(* What a snapshot and a fill say, as long as nothing was committed since;  *)
(* and an AuthContext that is out of date has a cause, or its deletion by   *)
(* a user's policy change is still to come.                                 *)
UpToDate(r) ==
  Issuing(r) /\ ~r.outdated =>
    /\ r.from = userTeam /\ (r.op = "issue" => r.team = userTeam)
    /\ r.at \in {"publish", "commit"} =>
         r.snapshot = [team |-> r.team, models |-> policy[r.team]]

Published(r) == Issuing(r) /\ r.at = "commit" => ctx[r.key] \in {NoCtx, r.snapshot}

Current(q) ==
  ~q.outdated =>
    /\ q.at \in {"override", "policy", "store"} => q.team = userTeam
    /\ q.at = "policy" => override = Anything
    /\ q.at = "store" => q.models = Effective(override, policy[userTeam])

Pending(r, k) ==
  r.op = "user policy" /\ (r.at = "list" \/ (r.at = "delete" /\ <<"ctx", k>> \in r.todo))

Explained(k) ==
  status[k] = "ACTIVE" => \/ ctx[k] \in {NoCtx, Truth}
                          \/ cause[k] # {}
                          \/ \E s \in Sessions : Pending(sess[s], k)

Explanation ==
  /\ \A s \in Sessions : UpToDate(sess[s]) /\ Published(sess[s])
  /\ \A g \in Requests : Current(reqs[g])
  /\ \A k \in Keys : Explained(k)

-----------------------------------------------------------------------------
LEMMA IdleShapes == SessionShape(IdleSession) /\ RequestShape(IdleRequest)
BY DEF SessionShape, IdleSession, SessionRecords, RequestShape, IdleRequest, RequestRecords, Issuing,
   Lists

LEMMA TruthShape == DatabaseShape => Truth \in Contexts
BY DEF DatabaseShape, Truth, Contexts, Effective, Lists

LEMMA ShapeInit == Init => KeysShape
<1> SUFFICES ASSUME Init PROVE KeysShape
  OBVIOUS
<1>1. DatabaseShape
  BY DEF Init, DatabaseShape, Lists, Statuses
<1>2. CacheShape
  BY <1>1, TruthShape, KeysAssumption DEF Init, CacheShape
<1> QED
  BY <1>1, <1>2, IdleShapes DEF Init, KeysShape, Sessioned, Requested, Caused

-----------------------------------------------------------------------------
(* Outdate touches the one flag. *)
LEMMA OutdateSession ==
  ASSUME NEW r, SessionShape(r)
  PROVE  LET q == Outdate(r) IN
         /\ SessionShape(q)
         /\ q.op = r.op /\ q.at = r.at /\ q.key = r.key /\ q.keys = r.keys /\ q.expired = r.expired
         /\ q.holds = r.holds /\ q.todo = r.todo /\ q.from = r.from /\ q.team = r.team
         /\ q.value = r.value /\ q.enabled = r.enabled /\ q.snapshot = r.snapshot
         /\ q.failed = r.failed
         /\ q.outdated = (r.outdated \/ (/\ <<userTeam, override, policy>>' # <<userTeam, override, policy>>
                                         /\ r.at # "idle"))
<1> DEFINE late == r.outdated \/ /\ <<userTeam, override, policy>>' # <<userTeam, override, policy>>
                                 /\ r.at \notin {"idle", "ctx"}
           q == [r EXCEPT !.outdated = late]
<1>1. Outdate(r) = q
  BY DEF Outdate
<1>2. late \in BOOLEAN /\ r \in SessionRecords /\ r.at # "ctx"
  BY DEF SessionShape, SessionRecords
<1>3. late = (r.outdated \/ (/\ <<userTeam, override, policy>>' # <<userTeam, override, policy>>
                             /\ r.at # "idle"))
  BY <1>2
<1> HIDE DEF late
<1>4. /\ q \in SessionRecords /\ q.outdated = late
      /\ q.op = r.op /\ q.at = r.at /\ q.key = r.key /\ q.keys = r.keys /\ q.expired = r.expired
      /\ q.holds = r.holds /\ q.todo = r.todo /\ q.from = r.from /\ q.team = r.team
      /\ q.value = r.value /\ q.enabled = r.enabled /\ q.snapshot = r.snapshot
      /\ q.failed = r.failed
  BY <1>2 DEF SessionRecords
<1> HIDE DEF q
<1>5. SessionShape(q)
  BY <1>4 DEF SessionShape, Issuing
<1> QED
  BY <1>1, <1>3, <1>4, <1>5

LEMMA OutdateRequest ==
  ASSUME NEW r, RequestShape(r)
  PROVE  LET q == Outdate(r) IN
         /\ RequestShape(q)
         /\ q.at = r.at /\ q.key = r.key /\ q.db = r.db /\ q.team = r.team /\ q.models = r.models
         /\ q.banned = r.banned /\ q.revoked = r.revoked /\ q.orphan = r.orphan
         /\ q.outdated = (r.outdated \/ (/\ <<userTeam, override, policy>>' # <<userTeam, override, policy>>
                                         /\ r.at \notin {"idle", "ctx"}))
<1> DEFINE late == r.outdated \/ (/\ <<userTeam, override, policy>>' # <<userTeam, override, policy>>
                                  /\ r.at \notin {"idle", "ctx"})
           q == [r EXCEPT !.outdated = late]
<1>1. Outdate(r) = q
  BY DEF Outdate
<1>2. late \in BOOLEAN /\ r \in RequestRecords
  BY DEF RequestShape, RequestRecords
<1> HIDE DEF late
<1>3. /\ q \in RequestRecords /\ q.outdated = late
      /\ q.at = r.at /\ q.key = r.key /\ q.db = r.db /\ q.team = r.team /\ q.models = r.models
      /\ q.banned = r.banned /\ q.revoked = r.revoked /\ q.orphan = r.orphan
  BY <1>2 DEF RequestRecords
<1> HIDE DEF q
<1>4. RequestShape(q)
  BY <1>3 DEF RequestShape
<1> QED
  BY <1>1, <1>3, <1>4 DEF late

(* One session or one request moves on. *)
LEMMA SessionMoves ==
  ASSUME Sessioned, NEW s \in Sessions, NEW r, SessionShape(r), sess' = [sess EXCEPT ![s] = r]
  PROVE  Sessioned' /\ sess'[s] = r /\ \A t \in Sessions \ {s} : sess'[t] = sess[t]
BY DEF Sessioned

LEMMA RequestMoves ==
  ASSUME Requested, NEW g \in Requests, NEW q, RequestShape(q), reqs' = [reqs EXCEPT ![g] = q]
  PROVE  Requested' /\ reqs'[g] = q /\ \A h \in Requests \ {g} : reqs'[h] = reqs[h]
BY DEF Requested

LEMMA OrphanShape ==
  ASSUME NEW q, RequestShape(q)
  PROVE  LET o == [q EXCEPT !.orphan = TRUE] IN
         /\ RequestShape(o) /\ o.orphan
         /\ o.at = q.at /\ o.key = q.key /\ o.db = q.db /\ o.team = q.team /\ o.models = q.models
         /\ o.banned = q.banned /\ o.revoked = q.revoked /\ o.outdated = q.outdated
<1> DEFINE o == [q EXCEPT !.orphan = TRUE]
<1>1. /\ o \in RequestRecords /\ o.orphan
      /\ o.at = q.at /\ o.key = q.key /\ o.db = q.db /\ o.team = q.team /\ o.models = q.models
      /\ o.banned = q.banned /\ o.revoked = q.revoked /\ o.outdated = q.outdated
  BY DEF RequestShape, RequestRecords
<1> HIDE DEF o
<1>2. RequestShape(o)
  BY <1>1 DEF RequestShape
<1> QED
  BY <1>1, <1>2 DEF o

-----------------------------------------------------------------------------
(* How an operation of the admin-api begins. *)
Starts(r) ==
  /\ SessionShape(r) /\ r.outdated = FALSE
  /\ r.key # NoKey => status[r.key] = "none" /\ \A t \in Sessions : sess[t].key # r.key
  /\ Issuing(r) => /\ r.from = userTeam /\ r.at \in {"delete", "swap", "expire"}
                   /\ r.op = "issue" => r.team = userTeam
  /\ r.op = "revoke" => \A k \in r.keys : status[k] # "none" /\ {<<"ctx", k>>, <<"lookup", k>>} \subseteq r.todo
  /\ \A k \in Keys : <<"lookup", k>> \in r.todo => <<"ctx", k>> \in r.todo
  /\ r.op = "user policy" => r.at = "commit"

Begins(s) ==
  \/ \E k \in Keys : IssueForSts(s, k)
  \/ \E k \in Keys, t \in Teams : ExchangeToken(s, k, t)
  \/ \E t \in Teams : TransferUser(s, t)
  \/ \E k \in Keys : RevokeKey(s, k)
  \/ ForceReauthTeam(s)
  \/ \E t \in Teams, p \in Policies \cup {Anything} : SetTeamPolicy(s, t, p)
  \/ \E p \in Policies \cup {Anything} : SetUserPolicy(s, p)

LEMMA IdleFields ==
  /\ IdleSession.op = "none" /\ IdleSession.at = "idle" /\ IdleSession.key = NoKey
  /\ IdleSession.keys = {} /\ IdleSession.todo = {} /\ IdleSession.outdated = FALSE
BY DEF IdleSession

LEMMA StsStarts ==
  ASSUME KeysShape, NEW k \in Keys, Fresh(k)
  PROVE  Starts([IdleSession EXCEPT !.op = "issue", !.at = "expire", !.key = k,
                                    !.from = userTeam, !.team = userTeam])
<1> DEFINE r == [IdleSession EXCEPT !.op = "issue", !.at = "expire", !.key = k,
                                    !.from = userTeam, !.team = userTeam]
<1>1. /\ r \in SessionRecords /\ r.op = "issue" /\ r.at = "expire" /\ r.key = k /\ r.todo = {}
      /\ r.from = userTeam /\ r.team = userTeam /\ r.outdated = FALSE /\ userTeam \in Teams
  BY DEF IdleSession, SessionRecords, KeysShape, DatabaseShape, Lists
<1> HIDE DEF r
<1>2. SessionShape(r)
  BY <1>1 DEF SessionShape, Issuing
<1>3. Starts(r)
  BY <1>1, <1>2 DEF Starts, Fresh, Issuing
<1> QED
  BY <1>3 DEF r

Deletes == {"exchange", "transfer", "revoke", "team policy", "user policy"}

Deletion(r, op, entries) ==
  /\ r \in SessionRecords /\ r.op = op /\ r.todo = entries /\ r.key = NoKey
  /\ r.keys = {} /\ r.expired = {} /\ r.holds = {} /\ r.snapshot = NoCtx /\ r.failed = {}
  /\ r.outdated = FALSE
  /\ entries = {} => r.at = AfterDeletes(op)
  /\ entries # {} => r.at = "delete"

LEMMA DeletingFields ==
  ASSUME NEW op \in Deletes, NEW entries \in SUBSET KeyEntries
  PROVE  Deletion(Deleting(op, entries), op, entries)
BY DEF Deletion, Deleting, IdleSession, SessionRecords, AfterDeletes, Lists, Deletes

LEMMA AfterDeletesFacts ==
  /\ AfterDeletes("revoke") = "srem" /\ AfterDeletes("transfer") = "swap"
  /\ AfterDeletes("exchange") = "swap" /\ AfterDeletes("team policy") = "commit"
  /\ AfterDeletes("user policy") = "finish"
  /\ {"exchange", "transfer", "revoke", "team policy", "user policy"} \subseteq Deletes
BY DEF AfterDeletes, Deletes

LEMMA OperationsStart ==
  ASSUME KeysShape, NEW s \in Sessions, Begins(s)
  PROVE  \E r : Begin(s, r) /\ Starts(r)
<1>1. ASSUME NEW k \in Keys, IssueForSts(s, k)
      PROVE  \E r : Begin(s, r) /\ Starts(r)
  BY <1>1, StsStarts DEF IssueForSts
<1>2. ASSUME NEW k \in Keys, NEW t \in Teams, ExchangeToken(s, k, t)
      PROVE  \E r : Begin(s, r) /\ Starts(r)
  <2>1. CASE t = userTeam
    <3> DEFINE r == [IdleSession EXCEPT !.op = "exchange", !.at = "expire", !.key = k,
                                        !.from = userTeam, !.team = t]
    <3>1. /\ r \in SessionRecords /\ r.op = "exchange" /\ r.at = "expire" /\ r.key = k /\ r.todo = {}
          /\ r.from = userTeam /\ r.team = userTeam /\ r.outdated = FALSE /\ userTeam \in Teams
      BY <2>1 DEF IdleSession, SessionRecords, KeysShape, DatabaseShape, Lists
    <3>2. Begin(s, r) /\ Fresh(k)
      BY <1>2, <2>1 DEF ExchangeToken
    <3> HIDE DEF r
    <3>3. SessionShape(r)
      BY <3>1 DEF SessionShape, Issuing
    <3> QED
      BY <3>1, <3>2, <3>3 DEF Starts, Fresh, Issuing
  <2>2. CASE t # userTeam
    <3> DEFINE d == Deleting("exchange", {"ctx"} \X ActiveKeys)
               r == [d EXCEPT !.key = k, !.keys = ActiveKeys, !.from = userTeam, !.team = t,
                              !.enabled = active]
    <3>1. {"ctx"} \X ActiveKeys \in SUBSET KeyEntries /\ ActiveKeys \subseteq Keys
      BY DEF KeyEntries, ActiveKeys
    <3>2. /\ d \in SessionRecords /\ d.op = "exchange" /\ d.todo = {"ctx"} \X ActiveKeys
          /\ d.outdated = FALSE /\ d.at \in {"swap", "delete"} /\ (d.at # "delete" => d.todo = {})
      <4>1. "exchange" \in Deletes
        BY DEF Deletes
      <4>2. Deletion(d, "exchange", {"ctx"} \X ActiveKeys)
        BY <3>1, <4>1, DeletingFields
      <4> HIDE DEF d
      <4> QED
        BY <3>1, <4>2, AfterDeletesFacts DEF Deletion
    <3> HIDE DEF d
    <3>3. /\ r \in SessionRecords /\ r.op = "exchange" /\ r.key = k /\ r.todo = {"ctx"} \X ActiveKeys
          /\ r.outdated = FALSE /\ r.at \in {"swap", "delete"} /\ (r.at # "delete" => r.todo = {})
          /\ r.from = userTeam /\ r.team = t
      BY <3>1, <3>2 DEF SessionRecords, KeysShape, DatabaseShape
    <3>4. Begin(s, r) /\ Fresh(k)
      BY <1>2, <2>2 DEF ExchangeToken, d
    <3> HIDE DEF r
    <3>5. SessionShape(r)
      BY <3>3 DEF SessionShape, Issuing
    <3>6. \A j \in Keys : <<"lookup", j>> \notin r.todo
      BY <3>3
    <3> QED
      BY <3>3, <3>4, <3>5, <3>6 DEF Starts, Fresh, Issuing
  <2> QED
    BY <2>1, <2>2
<1>3. ASSUME NEW t \in Teams, TransferUser(s, t)
      PROVE  \E r : Begin(s, r) /\ Starts(r)
  <2> DEFINE d == Deleting("transfer", {"ctx"} \X ActiveKeys)
             r == [d EXCEPT !.keys = ActiveKeys, !.from = userTeam, !.team = t]
  <2>1. {"ctx"} \X ActiveKeys \in SUBSET KeyEntries /\ ActiveKeys \subseteq Keys
    BY DEF KeyEntries, ActiveKeys
  <2>2. /\ d \in SessionRecords /\ d.op = "transfer" /\ d.todo = {"ctx"} \X ActiveKeys /\ d.key = NoKey
        /\ d.outdated = FALSE /\ d.at \in {"swap", "delete"} /\ (d.at # "delete" => d.todo = {})
    <3>1. "transfer" \in Deletes
      BY DEF Deletes
    <3>2. Deletion(d, "transfer", {"ctx"} \X ActiveKeys)
      BY <2>1, <3>1, DeletingFields
    <3> HIDE DEF d
    <3> QED
      BY <2>1, <3>2, AfterDeletesFacts DEF Deletion
  <2> HIDE DEF d
  <2>3. /\ r \in SessionRecords /\ r.op = "transfer" /\ r.key = NoKey /\ r.todo = {"ctx"} \X ActiveKeys
        /\ r.outdated = FALSE /\ r.at \in {"swap", "delete"} /\ (r.at # "delete" => r.todo = {})
        /\ r.team = t
    BY <2>1, <2>2 DEF SessionRecords, KeysShape, DatabaseShape
  <2>4. Begin(s, r)
    BY <1>3 DEF TransferUser, d
  <2> HIDE DEF r
  <2>5. SessionShape(r)
    BY <2>3 DEF SessionShape, Issuing
  <2>6. \A j \in Keys : <<"lookup", j>> \notin r.todo
    BY <2>3
  <2> QED
    BY <2>3, <2>4, <2>5, <2>6 DEF Starts, Issuing
<1>4. ASSUME NEW K \in SUBSET Keys, K # {}, \A k \in K : status[k] # "none",
             Begin(s, [Deleting("revoke", {"ctx", "lookup"} \X K) EXCEPT !.keys = K])
      PROVE  \E r : Begin(s, r) /\ Starts(r)
  <2> DEFINE d == Deleting("revoke", {"ctx", "lookup"} \X K)
             r == [d EXCEPT !.keys = K]
  <2>1. {"ctx", "lookup"} \X K \in SUBSET KeyEntries /\ {"ctx", "lookup"} \X K # {}
    <3>1. PICK k \in K : TRUE
      BY <1>4
    <3>2. <<"ctx", k>> \in {"ctx", "lookup"} \X K
      OBVIOUS
    <3> QED
      BY <3>2 DEF KeyEntries
  <2>2. /\ d \in SessionRecords /\ d.op = "revoke" /\ d.todo = {"ctx", "lookup"} \X K
        /\ d.outdated = FALSE /\ d.at = "delete" /\ d.key = NoKey
    <3>1. "revoke" \in Deletes
      BY DEF Deletes
    <3>2. Deletion(d, "revoke", {"ctx", "lookup"} \X K)
      BY <2>1, <3>1, DeletingFields
    <3> HIDE DEF d
    <3> QED
      BY <2>1, <3>2, AfterDeletesFacts DEF Deletion
  <2> HIDE DEF d
  <2>3. /\ r \in SessionRecords /\ r.op = "revoke" /\ r.todo = {"ctx", "lookup"} \X K /\ r.keys = K
        /\ r.outdated = FALSE /\ r.at = "delete" /\ r.key = NoKey
    BY <2>2 DEF SessionRecords
  <2>4. Begin(s, r)
    BY <1>4 DEF d
  <2> HIDE DEF r
  <2>5. SessionShape(r)
    BY <2>3 DEF SessionShape, Issuing
  <2>6. \A k \in Keys : <<"lookup", k>> \in r.todo => <<"ctx", k>> \in r.todo
    BY <2>3
  <2>7. \A k \in r.keys : status[k] # "none" /\ {<<"ctx", k>>, <<"lookup", k>>} \subseteq r.todo
    BY <1>4, <2>3
  <2> QED
    BY <2>3, <2>4, <2>5, <2>6, <2>7 DEF Starts, Issuing
<1>5. ASSUME NEW k \in Keys, RevokeKey(s, k)
      PROVE  \E r : Begin(s, r) /\ Starts(r)
  <2>1. /\ {k} \in SUBSET Keys /\ {k} # {} /\ \A j \in {k} : status[j] # "none"
        /\ Begin(s, [Deleting("revoke", {"ctx", "lookup"} \X {k}) EXCEPT !.keys = {k}])
    BY <1>5 DEF RevokeKey
  <2> QED
    BY <1>4, <2>1
<1>6. ASSUME ForceReauthTeam(s)
      PROVE  \E r : Begin(s, r) /\ Starts(r)
  <2>1. /\ ActiveKeys \in SUBSET Keys /\ ActiveKeys # {} /\ \A j \in ActiveKeys : status[j] # "none"
        /\ Begin(s, [Deleting("revoke", {"ctx", "lookup"} \X ActiveKeys) EXCEPT !.keys = ActiveKeys])
    BY <1>6 DEF ForceReauthTeam, ActiveKeys
  <2> QED
    BY <1>4, <2>1
<1>7. ASSUME NEW t \in Teams, NEW p \in Policies \cup {Anything}, SetTeamPolicy(s, t, p)
      PROVE  \E r : Begin(s, r) /\ Starts(r)
  <2>1. PICK found \in {index[t], {}} :
          Begin(s, [Deleting("team policy", {"ctx"} \X found) EXCEPT
                      !.keys = found, !.team = t, !.value = p])
    BY <1>7 DEF SetTeamPolicy
  <2> DEFINE d == Deleting("team policy", {"ctx"} \X found)
             r == [d EXCEPT !.keys = found, !.team = t, !.value = p]
  <2>2. found \subseteq Keys /\ {"ctx"} \X found \in SUBSET KeyEntries
    BY DEF KeyEntries, KeysShape, CacheShape
  <2>3. /\ d \in SessionRecords /\ d.op = "team policy" /\ d.todo = {"ctx"} \X found /\ d.key = NoKey
        /\ d.outdated = FALSE /\ d.at \in {"commit", "delete"} /\ (d.at # "delete" => d.todo = {})
    <3>1. "team policy" \in Deletes
      BY DEF Deletes
    <3>2. Deletion(d, "team policy", {"ctx"} \X found)
      BY <2>2, <3>1, DeletingFields
    <3> HIDE DEF d
    <3> QED
      BY <2>2, <3>2, AfterDeletesFacts DEF Deletion
  <2> HIDE DEF d
  <2>4. /\ r \in SessionRecords /\ r.op = "team policy" /\ r.key = NoKey /\ r.todo = {"ctx"} \X found
        /\ r.outdated = FALSE /\ r.at \in {"commit", "delete"} /\ (r.at # "delete" => r.todo = {})
        /\ r.team = t
    BY ZenonT(60), <2>2, <2>3 DEF SessionRecords, Lists
  <2>5. Begin(s, r)
    BY <2>1 DEF d
  <2> HIDE DEF r
  <2>6. SessionShape(r)
    BY <2>4 DEF SessionShape, Issuing
  <2>7. \A j \in Keys : <<"lookup", j>> \notin r.todo
    BY <2>4
  <2> QED
    BY <2>4, <2>5, <2>6, <2>7 DEF Starts, Issuing
<1>8. ASSUME NEW p \in Policies \cup {Anything}, SetUserPolicy(s, p)
      PROVE  \E r : Begin(s, r) /\ Starts(r)
  <2> DEFINE r == [IdleSession EXCEPT !.op = "user policy", !.at = "commit", !.value = p]
  <2>1. /\ r \in SessionRecords /\ r.op = "user policy" /\ r.at = "commit" /\ r.key = NoKey
        /\ r.todo = {} /\ r.outdated = FALSE
    BY DEF IdleSession, SessionRecords, Lists
  <2>2. Begin(s, r)
    BY <1>8 DEF SetUserPolicy
  <2> HIDE DEF r
  <2>3. SessionShape(r)
    BY <2>1 DEF SessionShape, Issuing
  <2> QED
    BY <2>1, <2>2, <2>3 DEF Starts, Issuing
<1> QED
  BY <1>1, <1>2, <1>3, <1>5, <1>6, <1>7, <1>8 DEF Begins

-----------------------------------------------------------------------------
(* A session that moves on and touches neither the database nor a key's     *)
(* entries in Redis.                                                        *)
Advance(p, r) ==
  /\ SessionShape(r) /\ p.at # "delete"
  /\ Issuing(r) => /\ r.op = p.op /\ r.key = p.key /\ r.from = p.from /\ r.team = p.team
                   /\ r.outdated = p.outdated /\ r.at # "commit"
                   /\ r.at = "publish" => r.snapshot = [team |-> r.team, models |-> policy[r.team]]
  /\ r.op = "revoke" => p.op = "revoke" /\ r.keys = p.keys /\ r.todo = p.todo
  /\ OwnersFirst(r)
  /\ p.op = "user policy" /\ p.at = "list" => \A k \in ActiveKeys : Pending(r, k)

Turns(s) ==
  \/ SwapIndex(s) \/ RemoveFromIndex(s) \/ ExpireAndCreate(s) \/ TakeRows(s)
  \/ TakeSnapshot(s) \/ ListKeys(s) \/ FinishUserPolicy(s) \/ Rollback(s)

(* What leaves the shape of a session as it was, but for where it stands. *)
LEMMA AdvanceTo ==
  ASSUME NEW p, SessionShape(p), NEW r, r \in SessionRecords, p.at # "delete",
         r.op = p.op, r.key = p.key, r.keys = p.keys, r.todo = p.todo, r.from = p.from,
         r.team = p.team, r.outdated = p.outdated, p.at \notin {"idle", "list"}, r.at \notin {"idle", "delete"},
         r.at = "commit" => ~Issuing(p),
         r.at = "publish" => r.snapshot = [team |-> r.team, models |-> policy[r.team]]
                             /\ r.snapshot \in Contexts,
         p.op = "issue" => r.at \in {"rows", "snapshot", "publish"},
         p.op = "exchange" => r.at \in {"refused", "expire", "rows", "snapshot", "publish"},
         p.op = "transfer" => r.at = "commit", p.op = "revoke" => r.at = "commit",
         p.op \notin {"team policy", "user policy"}
  PROVE  Advance(p, r)
<1>1. r.todo = {} /\ p.op # "none"
  BY DEF SessionShape
<1>2. SessionShape(r)
  BY <1>1 DEF SessionShape, Issuing
<1> QED
  BY <1>1, <1>2 DEF Advance, Issuing, OwnersFirst

LEMMA IdleAdvance ==
  ASSUME NEW p, p.at \notin {"delete", "list"}
  PROVE  Advance(p, IdleSession)
BY IdleShapes, IdleFields DEF Advance, Issuing, OwnersFirst

LEMMA SessionsAdvance ==
  ASSUME KeysShape, NEW s \in Sessions, Turns(s)
  PROVE  /\ \E r : sess' = [sess EXCEPT ![s] = r] /\ Advance(sess[s], r)
         /\ UNCHANGED <<database, lookup, ctx, reqs, history>>
         /\ index' \in [Teams -> SUBSET Keys] /\ failures' \subseteq Entries
<1> DEFINE p == sess[s]
<1>0. /\ SessionShape(p) /\ p \in SessionRecords /\ sess = [t \in Sessions |-> sess[t]]
      /\ userTeam \in Teams /\ policy \in [Teams -> Lists]
      /\ index \in [Teams -> SUBSET Keys] /\ failures \subseteq Entries /\ ActiveKeys \subseteq Keys
  BY DEF KeysShape, DatabaseShape, CacheShape, Sessioned, SessionShape, ActiveKeys
<1>1. CASE SwapIndex(s)
  <2> DEFINE next == IF p.op = "transfer" THEN "commit" ELSE IF p.enabled THEN "expire" ELSE "refused"
             a == [p EXCEPT !.at = next]
             b == [p EXCEPT !.at = next, !.failed = @ \cup {<<"swap", NoKey>>}]
  <2>1. p.at = "swap" /\ p.op \in {"exchange", "transfer"}
    BY <1>0, <1>1 DEF SwapIndex, SessionShape, SessionRecords
  <2>2. next \in {"commit", "expire", "refused"} /\ (p.op = "transfer" <=> next = "commit")
    OBVIOUS
  <2>3. \/ sess' = [sess EXCEPT ![s] = a]
        \/ sess' = [sess EXCEPT ![s] = b]
    BY <1>0, <1>1 DEF SwapIndex
  <2>4. index' \in [Teams -> SUBSET Keys]
    <3>1. CASE index' = [t \in Teams |-> IF t = p.team THEN index[t] \cup p.keys
                                        ELSE IF t = p.from THEN index[t] \ p.keys ELSE index[t]]
      BY <1>0, <3>1 DEF SessionRecords
    <3>2. CASE UNCHANGED index
      BY <1>0, <3>2
    <3> QED
      BY <1>1, <3>1, <3>2 DEF SwapIndex
  <2>5. Entries \subseteq Entries /\ <<"swap", NoKey>> \in Entries
    BY DEF Entries
  <2> HIDE DEF next
  <2>6. Advance(p, a)
    <3>1. /\ a \in SessionRecords /\ a.op = p.op /\ a.key = p.key /\ a.keys = p.keys /\ a.todo = p.todo
          /\ a.from = p.from /\ a.team = p.team /\ a.outdated = p.outdated /\ a.at = next
      BY <1>0, <2>2 DEF SessionRecords
    <3> HIDE DEF a
    <3> QED
      BY <1>0, <2>1, <2>2, <3>1, AdvanceTo DEF Issuing
  <2>7. Advance(p, b)
    <3>1. /\ b \in SessionRecords /\ b.op = p.op /\ b.key = p.key /\ b.keys = p.keys /\ b.todo = p.todo
          /\ b.from = p.from /\ b.team = p.team /\ b.outdated = p.outdated /\ b.at = next
      BY <1>0, <2>2, <2>5 DEF SessionRecords
    <3> HIDE DEF b
    <3> QED
      BY <1>0, <2>1, <2>2, <3>1, AdvanceTo DEF Issuing
  <2> QED
    BY <1>0, <1>1, <2>3, <2>4, <2>6, <2>7 DEF SwapIndex
<1>2. CASE RemoveFromIndex(s)
  <2> DEFINE a == [p EXCEPT !.at = "commit"]
  <2>1. p.at = "srem" /\ p.op = "revoke" /\ sess' = [sess EXCEPT ![s] = a]
    BY <1>0, <1>2 DEF RemoveFromIndex, SessionShape, SessionRecords
  <2>2. index' \in [Teams -> SUBSET Keys]
    BY <1>0, <1>2 DEF RemoveFromIndex
  <2>3. Advance(p, a)
    <3>1. /\ a \in SessionRecords /\ a.op = p.op /\ a.key = p.key /\ a.keys = p.keys /\ a.todo = p.todo
          /\ a.from = p.from /\ a.team = p.team /\ a.outdated = p.outdated /\ a.at = "commit"
      BY <1>0 DEF SessionRecords
    <3> HIDE DEF a
    <3> QED
      BY <1>0, <2>1, <3>1, AdvanceTo DEF Issuing
  <2> QED
    BY <1>0, <1>2, <2>1, <2>2, <2>3 DEF RemoveFromIndex
<1>3. CASE ExpireAndCreate(s)
  <2> DEFINE a == [p EXCEPT !.expired = ActiveKeys, !.at = "rows"]
  <2>1. p.at = "expire" /\ Issuing(p) /\ sess' = [sess EXCEPT ![s] = a]
    BY <1>0, <1>3 DEF ExpireAndCreate, SessionShape, SessionRecords, Issuing
  <2>2. Advance(p, a)
    <3>1. /\ a \in SessionRecords /\ a.op = p.op /\ a.key = p.key /\ a.keys = p.keys /\ a.todo = p.todo
          /\ a.from = p.from /\ a.team = p.team /\ a.outdated = p.outdated /\ a.at = "rows"
      BY <1>0 DEF SessionRecords
    <3> HIDE DEF a
    <3> QED
      BY <1>0, <2>1, <3>1, AdvanceTo DEF Issuing
  <2> QED
    BY <1>0, <1>3, <2>1, <2>2 DEF ExpireAndCreate, cache
<1>4. CASE TakeRows(s)
  <2> DEFINE a == [p EXCEPT !.holds = p.expired, !.at = "snapshot"]
  <2>1. p.at = "rows" /\ Issuing(p) /\ sess' = [sess EXCEPT ![s] = a]
    BY <1>0, <1>4 DEF TakeRows, SessionShape, SessionRecords, Issuing
  <2>2. Advance(p, a)
    <3>1. /\ a \in SessionRecords /\ a.op = p.op /\ a.key = p.key /\ a.keys = p.keys /\ a.todo = p.todo
          /\ a.from = p.from /\ a.team = p.team /\ a.outdated = p.outdated /\ a.at = "snapshot"
      BY <1>0 DEF SessionRecords
    <3> HIDE DEF a
    <3> QED
      BY <1>0, <2>1, <3>1, AdvanceTo DEF Issuing
  <2> QED
    BY <1>0, <1>4, <2>1, <2>2 DEF TakeRows, cache
<1>5. CASE TakeSnapshot(s)
  <2> DEFINE c == [team |-> p.team, models |-> policy[p.team]]
             a == [p EXCEPT !.at = "publish", !.snapshot = c]
  <2>1. p.at = "snapshot" /\ Issuing(p) /\ sess' = [sess EXCEPT ![s] = a]
    BY <1>0, <1>5 DEF TakeSnapshot, SessionShape, SessionRecords, Issuing
  <2>2. c \in Contexts
    BY <1>0, <2>1 DEF SessionShape, Contexts, Issuing, Lists
  <2>3. Advance(p, a)
    <3> HIDE DEF c
    <3>1. /\ a \in SessionRecords /\ a.op = p.op /\ a.key = p.key /\ a.keys = p.keys /\ a.todo = p.todo
          /\ a.from = p.from /\ a.team = p.team /\ a.outdated = p.outdated /\ a.at = "publish"
          /\ a.snapshot = c
      BY <1>0, <2>2 DEF SessionRecords
    <3>2. a.snapshot = [team |-> a.team, models |-> policy[a.team]]
      BY <3>1 DEF c
    <3> HIDE DEF a
    <3> QED
      BY <1>0, <2>1, <2>2, <3>1, <3>2, AdvanceTo DEF Issuing
  <2> QED
    BY <1>0, <1>5, <2>1, <2>3 DEF TakeSnapshot, cache
<1>6. CASE ListKeys(s)
  <2> DEFINE entries == {"ctx"} \X ActiveKeys
             a == Deleting("user policy", entries)
  <2>1. p.at = "list" /\ p.op = "user policy" /\ sess' = [sess EXCEPT ![s] = a]
    BY <1>0, <1>6 DEF ListKeys, SessionShape, SessionRecords
  <2>2. "user policy" \in Deletes /\ entries \in SUBSET KeyEntries
    BY <1>0 DEF Deletes, KeyEntries
  <2>3. Deletion(a, "user policy", entries)
    BY <2>2, DeletingFields
  <2>4. \A k \in ActiveKeys : <<"ctx", k>> \in entries /\ entries # {}
    OBVIOUS
  <2>5. \A k \in Keys : <<"lookup", k>> \notin entries
    OBVIOUS
  <2> HIDE DEF a, entries
  <2>6. /\ a \in SessionRecords /\ a.op = "user policy" /\ a.todo = entries /\ a.key = NoKey
        /\ a.at \in {"finish", "delete"} /\ (entries # {} => a.at = "delete")
        /\ (entries = {} => a.at = "finish")
    BY <2>3, AfterDeletesFacts DEF Deletion
  <2>7. SessionShape(a)
    BY <2>6 DEF SessionShape, Issuing
  <2>8. Advance(p, a)
    BY <2>1, <2>4, <2>5, <2>6, <2>7 DEF Advance, Issuing, OwnersFirst, Pending
  <2> QED
    BY <1>0, <1>6, <2>1, <2>8 DEF ListKeys, cache
<1>7. CASE FinishUserPolicy(s)
  <2>1. p.at = "finish" /\ sess' = [sess EXCEPT ![s] = IdleSession]
    BY <1>7 DEF FinishUserPolicy
  <2>2. failures' \subseteq Entries
    BY <1>0, <1>7 DEF FinishUserPolicy, SessionRecords
  <2> QED
    BY <1>0, <1>7, <2>1, <2>2, IdleAdvance DEF FinishUserPolicy, cache
<1>8. CASE Rollback(s)
  <2>1. p.at \in {"refused", "publish", "commit"} /\ sess' = [sess EXCEPT ![s] = IdleSession]
    BY <1>8 DEF Rollback
  <2> QED
    BY <1>0, <1>8, <2>1, IdleAdvance DEF Rollback, cache
<1> QED
  BY <1>1, <1>2, <1>3, <1>4, <1>5, <1>6, <1>7, <1>8 DEF Turns

-----------------------------------------------------------------------------
(* A session that deletes, or fails to delete, one entry. *)
Tick(p, r, e) ==
  /\ SessionShape(r) /\ p.at = "delete" /\ e \in p.todo /\ e \in KeyEntries
  /\ e[1] = "ctx" => <<"lookup", e[2]>> \notin p.todo
  /\ r.op = p.op /\ r.key = p.key /\ r.keys = p.keys /\ r.from = p.from /\ r.team = p.team
  /\ r.outdated = p.outdated /\ r.todo = p.todo \ {e}
  /\ r.todo # {} => r.at = "delete"
  /\ r.at = "commit" => ~Issuing(r)
  /\ r.at # "publish"

LEMMA TickShape ==
  ASSUME NEW p, SessionShape(p), p.at = "delete", NEW e \in p.todo,
         e[1] = "ctx" => <<"lookup", e[2]>> \notin p.todo,
         NEW F \in SUBSET Entries,
         NEW at, at = IF p.todo = {e} THEN AfterDeletes(p.op) ELSE p.at
  PROVE  LET t == [p EXCEPT !.todo = @ \ {e}, !.at = at] IN
         Tick(p, t, e) /\ Tick(p, [t EXCEPT !.failed = @ \cup F], e)
<1> DEFINE t == [p EXCEPT !.todo = @ \ {e}, !.at = at]
           f == [t EXCEPT !.failed = @ \cup F]
<1>1. p \in SessionRecords /\ p.op \in Deletes /\ p.todo \subseteq KeyEntries
  BY DEF SessionShape, SessionRecords, Deletes
<1>2. p.todo # {e} => at = "delete"
  OBVIOUS
<1>3. p.todo = {e} => /\ p.op = "revoke" => at = "srem"
                      /\ p.op \in {"transfer", "exchange"} => at = "swap"
                      /\ p.op = "team policy" => at = "commit"
                      /\ p.op = "user policy" => at = "finish"
  BY AfterDeletesFacts
<1>4. at \in {"delete", "srem", "swap", "commit", "finish"}
  BY <1>1, <1>2, <1>3 DEF Deletes
<1>5. /\ t \in SessionRecords /\ t.op = p.op /\ t.key = p.key /\ t.keys = p.keys /\ t.from = p.from
      /\ t.team = p.team /\ t.outdated = p.outdated /\ t.todo = p.todo \ {e} /\ t.at = at
      /\ t.failed = p.failed
  BY ZenonT(60), <1>1, <1>4 DEF SessionRecords
<1> HIDE DEF t
<1>6. /\ f \in SessionRecords /\ f.op = p.op /\ f.key = p.key /\ f.keys = p.keys /\ f.from = p.from
      /\ f.team = p.team /\ f.outdated = p.outdated /\ f.todo = p.todo \ {e} /\ f.at = at
  BY <1>5 DEF SessionRecords
<1> HIDE DEF f
<1>7. ASSUME NEW r, r \in SessionRecords, r.op = p.op, r.key = p.key, r.keys = p.keys, r.from = p.from,
             r.team = p.team, r.outdated = p.outdated, r.todo = p.todo \ {e}, r.at = at
      PROVE  Tick(p, r, e)
  <2>1. p.todo = {e} \/ (p.todo # {e} /\ r.at = "delete" /\ r.todo # {})
    BY <1>2, <1>7
  <2>2. SessionShape(r)
    BY <1>1, <1>3, <1>7, <2>1 DEF SessionShape, Issuing, Deletes
  <2> QED
    BY <1>1, <1>3, <1>4, <1>7, <2>1, <2>2 DEF Tick, Issuing, Deletes
<1>8. Tick(p, t, e) /\ Tick(p, f, e)
  BY <1>5, <1>6, <1>7
<1> QED
  BY <1>8 DEF t, f

(* What a deletion leaves of the cache, and of the requests it meets. *)
Kept(q, o) ==
  /\ RequestShape(o)
  /\ o.at = q.at /\ o.key = q.key /\ o.db = q.db /\ o.team = q.team /\ o.models = q.models
  /\ o.banned = q.banned /\ o.revoked = q.revoked
  /\ (q.orphan => o.orphan) /\ (q.outdated => o.outdated)

Forgets ==
  /\ lookup' \subseteq lookup /\ ctx' \in [Keys -> Contexts \cup {NoCtx}]
  /\ \A k \in Keys : ctx'[k] = NoCtx \/ (ctx'[k] = ctx[k] /\ cause'[k] = cause[k])
  /\ Caused'
  /\ Requested' /\ \A g \in Requests : Kept(reqs[g], reqs'[g]) \/ reqs'[g] = IdleRequest

LEMMA KeptItself == ASSUME NEW q, RequestShape(q) PROVE Kept(q, q)
BY DEF Kept

LEMMA OrphansKept ==
  ASSUME Requested, NEW k, OrphanRequests(k)
  PROVE  /\ Requested' /\ \A g \in Requests : Kept(reqs[g], reqs'[g])
         /\ \A g \in Requests : reqs[g].key = k /\ reqs[g].at \notin {"ctx", "lookup"} => reqs'[g].orphan
<1>1. ASSUME NEW g \in Requests
      PROVE  /\ Kept(reqs[g], reqs'[g])
             /\ reqs[g].key = k /\ reqs[g].at \notin {"ctx", "lookup"} => reqs'[g].orphan
  <2>1. RequestShape(reqs[g])
    BY DEF Requested
  <2>2. CASE reqs[g].key = k /\ reqs[g].at \notin {"ctx", "lookup"}
    <3>1. reqs'[g] = [reqs[g] EXCEPT !.orphan = TRUE]
      BY <2>2 DEF OrphanRequests
    <3> QED
      BY <2>1, <3>1, OrphanShape DEF Kept
  <2>3. CASE ~(reqs[g].key = k /\ reqs[g].at \notin {"ctx", "lookup"})
    <3>1. reqs'[g] = reqs[g]
      BY <2>3 DEF OrphanRequests
    <3> QED
      BY <2>1, <2>3, <3>1, KeptItself
  <2> QED
    BY <2>2, <2>3
<1>2. reqs' = [g \in Requests |-> reqs'[g]]
  BY DEF OrphanRequests
<1> QED
  BY <1>1, <1>2 DEF Requested, Kept

LEMMA EntryForgets ==
  ASSUME KeysShape, NEW e \in Entries, Entry(e),
         cause' = IF e[1] = "ctx" THEN [cause EXCEPT ![e[2]] = {}] ELSE cause,
         \/ OrphanRequests(e[2])
         \/ UNCHANGED reqs
  PROVE  /\ Forgets
         /\ e[1] = "ctx" => ctx'[e[2]] = NoCtx
         /\ e[1] = "lookup" => e[2] \notin lookup'
<1>1. /\ lookup \subseteq Keys /\ ctx \in [Keys -> Contexts \cup {NoCtx}] /\ cause = [k \in Keys |-> cause[k]]
      /\ Requested /\ \A g \in Requests : RequestShape(reqs[g])
  BY DEF KeysShape, CacheShape, Caused, Requested
<1>2. e[1] = "ctx" => e[2] \in Keys
  BY DEF Entries
<1>3. Requested' /\ \A g \in Requests : Kept(reqs[g], reqs'[g])
  <2>1. CASE UNCHANGED reqs
    BY <1>1, <2>1, KeptItself DEF Requested
  <2>2. CASE OrphanRequests(e[2])
    BY <1>1, <2>2, OrphansKept
  <2> QED
    BY <2>1, <2>2
<1>4. lookup' \subseteq lookup /\ ctx' \in [Keys -> Contexts \cup {NoCtx}]
  BY <1>1, <1>2 DEF Entry
<1>5. \A k \in Keys : ctx'[k] = NoCtx \/ (ctx'[k] = ctx[k] /\ cause'[k] = cause[k])
  BY <1>1, <1>2 DEF Entry
<1>6. Caused'
  BY <1>1, <1>2 DEF Caused
<1>7. (e[1] = "ctx" => ctx'[e[2]] = NoCtx) /\ (e[1] = "lookup" => e[2] \notin lookup')
  BY <1>1, <1>2 DEF Entry
<1> QED
  BY <1>3, <1>4, <1>5, <1>6, <1>7 DEF Forgets

-----------------------------------------------------------------------------
(* The steps that delete. *)
Deleted(s, r, e) ==
  /\ sess' = [sess EXCEPT ![s] = r] /\ Tick(sess[s], r, e)
  /\ UNCHANGED <<database, index, failures>>
  /\ \/ /\ Forgets /\ UNCHANGED revived
        /\ e[1] = "ctx" => ctx'[e[2]] = NoCtx
        /\ e[1] = "lookup" => e[2] \notin lookup' /\ OrphanRequests(e[2])
     \/ /\ cause' = [cause EXCEPT ![e[2]] = @ \cup {"lost delete"}]
        /\ revived' = IF sess[s].op = "revoke" THEN revived \cup {e[2]} ELSE revived
        /\ UNCHANGED <<lookup, ctx, reqs>>

LEMMA DeletesOne ==
  ASSUME KeysShape, NEW s \in Sessions, DeleteEntry(s)
  PROVE  \E r : \E e \in sess[s].todo : Deleted(s, r, e)
<1> DEFINE p == sess[s]
<1>1. /\ SessionShape(p) /\ p \in SessionRecords /\ p.at = "delete" /\ p.todo \subseteq KeyEntries
      /\ UNCHANGED <<database, index, failures>>
  BY DEF KeysShape, Sessioned, SessionShape, SessionRecords, DeleteEntry
<1>2. PICK e \in p.todo :
        /\ InOrder(s, e)
        /\ \/ /\ Entry(e) /\ NoFault
              /\ sess' = [sess EXCEPT ![s] = Ticked(s, e)]
              /\ cause' = IF e[1] = "ctx" THEN [cause EXCEPT ![e[2]] = {}] ELSE cause
              /\ IF e[1] = "lookup" THEN OrphanRequests(e[2]) ELSE UNCHANGED reqs
              /\ UNCHANGED revived
           \/ /\ Fault
              /\ sess' = [sess EXCEPT ![s] = [Ticked(s, e) EXCEPT !.failed = @ \cup {e}]]
              /\ cause' = [cause EXCEPT ![e[2]] = @ \cup {"lost delete"}]
              /\ revived' = IF sess[s].op = "revoke" THEN revived \cup {e[2]} ELSE revived
              /\ UNCHANGED <<lookup, ctx, reqs>>
  BY DEF DeleteEntry
<1>3. e \in KeyEntries /\ e \in Entries
  BY <1>1 DEF KeyEntries, Entries
<1> DEFINE at == IF p.todo = {e} THEN AfterDeletes(p.op) ELSE p.at
           t == [p EXCEPT !.todo = @ \ {e}, !.at = at]
           f == [t EXCEPT !.failed = @ \cup {e}]
<1>4. Tick(p, t, e) /\ Tick(p, f, e)
  <2>1. {e} \in SUBSET Entries /\ (e[1] = "ctx" => <<"lookup", e[2]>> \notin p.todo)
    BY <1>2, <1>3 DEF InOrder
  <2> QED
    BY <1>1, <2>1, TickShape
<1>5. Ticked(s, e) = t
  BY DEF Ticked
<1> HIDE DEF t
<1>6. CASE /\ Entry(e) /\ NoFault
           /\ sess' = [sess EXCEPT ![s] = Ticked(s, e)]
           /\ cause' = IF e[1] = "ctx" THEN [cause EXCEPT ![e[2]] = {}] ELSE cause
           /\ IF e[1] = "lookup" THEN OrphanRequests(e[2]) ELSE UNCHANGED reqs
           /\ UNCHANGED revived
  <2>1. /\ Forgets
        /\ e[1] = "ctx" => ctx'[e[2]] = NoCtx
        /\ e[1] = "lookup" => e[2] \notin lookup'
    BY <1>3, <1>6, EntryForgets
  <2>2. sess' = [sess EXCEPT ![s] = t]
    BY <1>5, <1>6
  <2>3. Deleted(s, t, e)
    BY <1>1, <1>4, <1>6, <2>1, <2>2 DEF Deleted
  <2> QED
    BY <2>3
<1>7. CASE /\ Fault
           /\ sess' = [sess EXCEPT ![s] = [Ticked(s, e) EXCEPT !.failed = @ \cup {e}]]
           /\ cause' = [cause EXCEPT ![e[2]] = @ \cup {"lost delete"}]
           /\ revived' = IF sess[s].op = "revoke" THEN revived \cup {e[2]} ELSE revived
           /\ UNCHANGED <<lookup, ctx, reqs>>
  <2>1. sess' = [sess EXCEPT ![s] = f]
    BY <1>5, <1>7
  <2> HIDE DEF f
  <2>2. Deleted(s, f, e)
    BY <1>1, <1>4, <1>7, <2>1 DEF Deleted
  <2> QED
    BY <2>2
<1> QED
  BY <1>2, <1>6, <1>7

(* An entry lapses, a recorded deletion is tried again, or a request of a   *)
(* deactivated user clears what the cache holds of its key.                 *)
LEMMA RetryForgets ==
  ASSUME KeysShape, NEW e \in Entries, RetryFailed(e)
  PROVE  /\ Forgets /\ UNCHANGED <<database, index, sess, revived>>
         /\ failures' \subseteq Entries
<1>1. /\ Entry(e)
      /\ cause' = IF e[1] = "ctx" THEN [cause EXCEPT ![e[2]] = {}] ELSE cause
      /\ OrphanRequests(e[2]) \/ UNCHANGED reqs
      /\ failures' = failures \ {e} /\ UNCHANGED <<database, index, sess, revived>>
  BY DEF RetryFailed
<1>2. Forgets
  BY <1>1, EntryForgets
<1>3. failures' \subseteq Entries
  BY <1>1 DEF KeysShape, CacheShape
<1> QED
  BY <1>1, <1>2, <1>3

LEMMA LapseForgets ==
  ASSUME KeysShape, NEW k \in Keys, EntryLapses(k)
  PROVE  Forgets /\ UNCHANGED <<database, index, failures, sess, revived>>
<1>1. UNCHANGED <<database, index, failures, sess, reqs, revived>>
  BY DEF EntryLapses
<1>2. CASE Entry(<<"lookup", k>>) /\ UNCHANGED cause
  <2> DEFINE e == <<"lookup", k>>
  <2>1. e \in Entries /\ e[1] # "ctx"
    BY DEF Entries
  <2>2. Entry(e) /\ cause' = IF e[1] = "ctx" THEN [cause EXCEPT ![e[2]] = {}] ELSE cause
    BY <1>2, <2>1
  <2> HIDE DEF e
  <2> QED
    BY <1>1, <2>1, <2>2, EntryForgets
<1>3. CASE Entry(<<"ctx", k>>) /\ cause' = [cause EXCEPT ![k] = {}]
  <2> DEFINE e == <<"ctx", k>>
  <2>1. e \in Entries /\ e[1] = "ctx" /\ e[2] = k
    BY DEF Entries
  <2>2. Entry(e) /\ cause' = IF e[1] = "ctx" THEN [cause EXCEPT ![e[2]] = {}] ELSE cause
    BY <1>3, <2>1
  <2> HIDE DEF e
  <2> QED
    BY <1>1, <2>1, <2>2, EntryForgets
<1> QED
  BY <1>1, <1>2, <1>3 DEF EntryLapses

LEMMA RecheckForgets ==
  ASSUME KeysShape, NEW g \in Requests, Recheck(g), ~active
  PROVE  Forgets /\ UNCHANGED <<database, index, failures, sess, revived>>
<1> DEFINE k == reqs[g].key
<1>1. /\ reqs[g].at = "recheck"
      /\ lookup' = lookup \ {k} /\ ctx' = [ctx EXCEPT ![k] = NoCtx]
      /\ cause' = [cause EXCEPT ![k] = {}]
      /\ reqs' = [h \in Requests |->
                    IF h = g THEN Refused
                    ELSE IF reqs[h].key = k THEN [reqs[h] EXCEPT !.orphan = TRUE]
                    ELSE reqs[h]]
      /\ UNCHANGED <<database, index, failures, sess, revived>>
  BY DEF Recheck
<1>2. /\ k \in Keys /\ lookup \subseteq Keys /\ ctx \in [Keys -> Contexts \cup {NoCtx}]
      /\ cause = [j \in Keys |-> cause[j]] /\ \A h \in Requests : RequestShape(reqs[h])
  BY <1>1 DEF KeysShape, CacheShape, Caused, Requested, RequestShape
<1> HIDE DEF k
<1>3. ASSUME NEW h \in Requests
      PROVE  Kept(reqs[h], reqs'[h]) \/ reqs'[h] = IdleRequest
  <2>1. CASE h = g
    BY <1>1, <2>1 DEF Refused
  <2>2. CASE h # g /\ reqs[h].key = k
    <3>1. reqs'[h] = [reqs[h] EXCEPT !.orphan = TRUE]
      BY <1>1, <2>2
    <3> QED
      BY <1>2, <3>1, OrphanShape DEF Kept
  <2>3. CASE h # g /\ reqs[h].key # k
    <3>1. reqs'[h] = reqs[h]
      BY <1>1, <2>3
    <3> QED
      BY <1>2, <3>1, KeptItself
  <2> QED
    BY <2>1, <2>2, <2>3
<1>4. Requested'
  BY <1>1, <1>3, IdleShapes DEF Requested, Kept
<1>5. Caused'
  BY <1>1, <1>2 DEF Caused
<1>6. /\ lookup' \subseteq lookup /\ ctx' \in [Keys -> Contexts \cup {NoCtx}]
      /\ \A j \in Keys : ctx'[j] = NoCtx \/ (ctx'[j] = ctx[j] /\ cause'[j] = cause[j])
  BY <1>1, <1>2
<1> QED
  BY <1>1, <1>3, <1>4, <1>5, <1>6 DEF Forgets

LEMMA PublishFacts ==
  ASSUME KeysShape, NEW s \in Sessions, Publish(s)
  PROVE  LET p == sess[s]
             r == [p EXCEPT !.at = "commit"]
         IN  /\ p.at = "publish" /\ Issuing(p) /\ p.key \in Keys /\ p.snapshot \in Contexts
             /\ sess' = [sess EXCEPT ![s] = r] /\ SessionShape(r)
             /\ r.op = p.op /\ r.at = "commit" /\ r.key = p.key /\ r.todo = {} /\ r.from = p.from
             /\ r.team = p.team /\ r.snapshot = p.snapshot /\ r.outdated = p.outdated
             /\ lookup' = lookup \cup {p.key} /\ ctx' = [ctx EXCEPT ![p.key] = p.snapshot]
             /\ index' \in [Teams -> SUBSET Keys]
             /\ UNCHANGED <<database, failures, reqs, history>>
<1> DEFINE p == sess[s]
           r == [p EXCEPT !.at = "commit"]
<1>1. /\ SessionShape(p) /\ p \in SessionRecords /\ p.at = "publish" /\ p.todo = {}
      /\ sess = [t \in Sessions |-> sess[t]]
      /\ index \in [Teams -> SUBSET Keys]
  BY DEF KeysShape, CacheShape, Sessioned, SessionShape, Publish
<1>2. Issuing(p) /\ p.key \in Keys /\ p.snapshot \in Contexts /\ p.team \in Teams
  BY <1>1 DEF SessionShape, SessionRecords, Issuing
<1>3. /\ r \in SessionRecords
      /\ r.op = p.op /\ r.at = "commit" /\ r.key = p.key /\ r.todo = {} /\ r.from = p.from
      /\ r.team = p.team /\ r.snapshot = p.snapshot /\ r.outdated = p.outdated
  BY <1>1 DEF SessionRecords
<1>4. sess' = [sess EXCEPT ![s] = r]
  BY <1>1 DEF Publish
<1>5. index' \in [Teams -> SUBSET Keys]
  BY <1>1, <1>2 DEF Publish
<1> HIDE DEF r
<1>6. SessionShape(r)
  BY <1>2, <1>3 DEF SessionShape, Issuing
<1> QED
  BY <1>1, <1>2, <1>3, <1>4, <1>5, <1>6 DEF r, Publish

-----------------------------------------------------------------------------
(* The steps that change the database. *)
Outdated(q, o) ==
  /\ Kept(q, o)
  /\ o.orphan = q.orphan
  /\ o.outdated = (q.outdated \/ (/\ <<userTeam, override, policy>>' # <<userTeam, override, policy>>
                                  /\ q.at \notin {"idle", "ctx"}))

LEMMA OneOutdated ==
  ASSUME NEW q, RequestShape(q)
  PROVE  Outdated(q, Outdate(q))
BY OutdateRequest DEF Outdated, Kept

LEMMA RequestsOutdated ==
  ASSUME Requested, OutdateRequests
  PROVE  Requested' /\ \A g \in Requests : Outdated(reqs[g], reqs'[g])
<1>1. ASSUME NEW g \in Requests
      PROVE  Outdated(reqs[g], reqs'[g])
  <2>1. reqs'[g] = Outdate(reqs[g]) /\ RequestShape(reqs[g])
    BY DEF OutdateRequests, Requested
  <2> QED
    BY <2>1, OneOutdated
<1>2. reqs' = [g \in Requests |-> reqs'[g]]
  BY DEF OutdateRequests
<1> QED
  BY <1>1, <1>2 DEF Requested, Outdated, Kept

SessionOutdated(r, o) ==
  /\ SessionShape(o)
  /\ o.op = r.op /\ o.at = r.at /\ o.key = r.key /\ o.keys = r.keys /\ o.todo = r.todo
  /\ o.from = r.from /\ o.team = r.team /\ o.snapshot = r.snapshot
  /\ o.outdated = (r.outdated \/ (/\ <<userTeam, override, policy>>' # <<userTeam, override, policy>>
                                  /\ r.at # "idle"))

LEMMA SessionsOutdated ==
  ASSUME NEW r, SessionShape(r)
  PROVE  SessionOutdated(r, Outdate(r))
BY OutdateSession DEF SessionOutdated

(* The statuses a commit leaves. *)
StatusCommitted(p) ==
  /\ status' \in [Keys -> Statuses]
  /\ Issuing(p) => status'[p.key] = "ACTIVE"
  /\ \A k \in Keys :
       ~(Issuing(p) /\ k = p.key) =>
         /\ status'[k] = "ACTIVE" => status[k] = "ACTIVE"
         /\ status'[k] = "none" => status[k] = "none"
         /\ status[k] = "none" => status'[k] = "none" \/ (p.op = "revoke" /\ k \in p.keys)
         /\ status'[k] = "REVOKED" => status[k] = "REVOKED" \/ (p.op = "revoke" /\ k \in p.keys)
         /\ status[k] = "REVOKED" => status'[k] = "REVOKED"

LEMMA StatusesCommitted ==
  ASSUME KeysShape, NEW s \in Sessions, CommitStatus(s)
  PROVE  StatusCommitted(sess[s])
<1>1. status \in [Keys -> Statuses] /\ SessionShape(sess[s])
  BY DEF KeysShape, DatabaseShape, Sessioned
<1>2. Issues(s) <=> Issuing(sess[s])
  BY DEF Issues, Issuing
<1>3. Issuing(sess[s]) => sess[s].key \in Keys
  BY <1>1 DEF SessionShape
<1>4. ASSUME NEW k \in Keys
      PROVE  status'[k] = IF Issues(s) /\ k = sess[s].key THEN "ACTIVE"
                          ELSE IF k \in sess[s].expired /\ status[k] = "ACTIVE" THEN "EXPIRED"
                          ELSE IF sess[s].op = "revoke" /\ k \in sess[s].keys THEN "REVOKED"
                          ELSE status[k]
  BY DEF CommitStatus
<1>5. ASSUME NEW k \in Keys
      PROVE  /\ status'[k] \in Statuses
             /\ Issuing(sess[s]) /\ k = sess[s].key => status'[k] = "ACTIVE"
             /\ ~(Issuing(sess[s]) /\ k = sess[s].key) =>
                  /\ status'[k] = "ACTIVE" => status[k] = "ACTIVE"
                  /\ status'[k] = "none" => status[k] = "none"
                  /\ status[k] = "none" => status'[k] = "none" \/ (sess[s].op = "revoke" /\ k \in sess[s].keys)
                  /\ status'[k] = "REVOKED" => status[k] = "REVOKED" \/ (sess[s].op = "revoke" /\ k \in sess[s].keys)
                  /\ status[k] = "REVOKED" => status'[k] = "REVOKED"
  <2>1. status[k] \in Statuses
    BY <1>1
  <2>2. CASE Issues(s) /\ k = sess[s].key
    BY <1>2, <1>4, <2>2 DEF Statuses
  <2>3. CASE ~(Issues(s) /\ k = sess[s].key) /\ k \in sess[s].expired /\ status[k] = "ACTIVE"
    <3>1. status'[k] = "EXPIRED"
      BY <1>4, <2>3
    <3> QED
      BY <1>2, <2>3, <3>1 DEF Statuses
  <2>4. CASE /\ ~(Issues(s) /\ k = sess[s].key) /\ ~(k \in sess[s].expired /\ status[k] = "ACTIVE")
             /\ sess[s].op = "revoke" /\ k \in sess[s].keys
    <3>1. status'[k] = "REVOKED"
      BY <1>4, <2>4
    <3> QED
      BY <1>2, <2>4, <3>1 DEF Statuses
  <2>5. CASE /\ ~(Issues(s) /\ k = sess[s].key) /\ ~(k \in sess[s].expired /\ status[k] = "ACTIVE")
             /\ ~(sess[s].op = "revoke" /\ k \in sess[s].keys)
    <3>1. status'[k] = status[k]
      BY <1>4, <2>5
    <3> QED
      BY <1>2, <2>1, <2>5, <3>1
  <2> QED
    BY <2>2, <2>3, <2>4, <2>5
<1>6. status' = [k \in Keys |-> status'[k]]
  BY DEF CommitStatus
<1> QED
  BY <1>3, <1>5, <1>6 DEF StatusCommitted

OnRecord(why(_)) ==
  /\ Caused'
  /\ \A k \in Keys : cause'[k] = IF ctx'[k] \in {NoCtx, Truth'} THEN {} ELSE cause[k] \cup why(k)

Committed(s) ==
  LET p == sess[s] IN
  /\ p.at = "commit" /\ SessionShape(p) /\ StatusCommitted(p)
  /\ DatabaseShape' /\ UNCHANGED <<active, cache, revived>>
  /\ failures' \subseteq Entries
  /\ userTeam' = IF p.op \in {"transfer", "exchange"} /\ p.team # p.from THEN p.team ELSE userTeam
  /\ p.op # "team policy" => policy' = policy
  /\ p.op # "user policy" => override' = override
  /\ Sessioned' /\ \A t \in Sessions \ {s} : SessionOutdated(sess[t], sess'[t])
  /\ p.op = "user policy" => /\ sess'[s].op = "user policy" /\ sess'[s].at = "list"
                             /\ sess'[s].todo = {} /\ sess'[s].key = NoKey
  /\ p.op # "user policy" => sess'[s] = IdleSession
  /\ Requested' /\ \A g \in Requests : Outdated(reqs[g], reqs'[g])
  /\ OnRecord(LAMBDA k : Reason(s, k))

LEMMA Commits ==
  ASSUME KeysShape, NEW s \in Sessions, Commit(s)
  PROVE  Committed(s)
<1> DEFINE p == sess[s]
           listing == [IdleSession EXCEPT !.op = "user policy", !.at = "list"]
<1>1. /\ SessionShape(p) /\ p \in SessionRecords /\ p.at = "commit" /\ \A t \in Sessions : SessionShape(sess[t])
      /\ DatabaseShape /\ failures \subseteq Entries /\ Requested
  BY DEF KeysShape, CacheShape, Sessioned, SessionShape, Commit
<1>2. StatusCommitted(p)
  BY StatusesCommitted DEF Commit
<1>3. /\ userTeam' = IF p.op \in {"transfer", "exchange"} /\ p.team # p.from THEN p.team ELSE userTeam
      /\ policy' = IF p.op = "team policy" THEN [policy EXCEPT ![p.team] = p.value] ELSE policy
      /\ override' = IF p.op = "user policy" THEN p.value ELSE override
      /\ failures' = failures \cup p.failed /\ UNCHANGED <<active, cache, revived>>
  BY DEF Commit
<1>4. DatabaseShape'
  <2>1. p.op \in {"transfer", "exchange"} => p.team \in Teams
    BY <1>1 DEF SessionShape
  <2>2. p.value \in Lists
    BY <1>1 DEF SessionRecords
  <2>3. userTeam' \in Teams /\ override' \in Lists /\ policy' \in [Teams -> Lists] /\ active' \in BOOLEAN
    BY <1>1, <1>3, <2>1, <2>2 DEF DatabaseShape
  <2> QED
    BY <1>2, <2>3 DEF DatabaseShape, StatusCommitted
<1>5. failures' \subseteq Entries
  BY <1>1, <1>3 DEF SessionRecords
<1>6. sess' = [r \in Sessions |->
                 IF r # s THEN Outdate(sess[r])
                 ELSE IF p.op = "user policy" THEN listing ELSE IdleSession]
  BY DEF Commit
<1>7. /\ SessionShape(listing) /\ listing.op = "user policy" /\ listing.at = "list"
      /\ listing.todo = {} /\ listing.key = NoKey
  <2>1. /\ listing \in SessionRecords /\ listing.op = "user policy" /\ listing.at = "list"
        /\ listing.todo = {} /\ listing.key = NoKey
    BY DEF IdleSession, SessionRecords, Lists
  <2> HIDE DEF listing
  <2> QED
    BY <2>1 DEF SessionShape, Issuing
<1> HIDE DEF listing
<1>8. \A t \in Sessions \ {s} : SessionOutdated(sess[t], sess'[t])
  BY <1>1, <1>6, SessionsOutdated
<1>9. sess'[s] = IF p.op = "user policy" THEN listing ELSE IdleSession
  BY <1>6
<1>10. Sessioned'
  BY <1>6, <1>7, <1>8, <1>9, IdleShapes DEF Sessioned, SessionOutdated
<1>11. Requested' /\ \A g \in Requests : Outdated(reqs[g], reqs'[g])
  BY <1>1, RequestsOutdated DEF Commit
<1>12. OnRecord(LAMBDA k : Reason(s, k))
  BY DEF Commit, NoteChange, OnRecord, Caused
<1> QED
  BY <1>1, <1>2, <1>3, <1>4, <1>5, <1>7, <1>8, <1>9, <1>10, <1>11, <1>12 DEF Committed

Syncs(why) ==
  /\ DatabaseShape' /\ UNCHANGED <<override, policy, status, cache, failures, revived>>
  /\ Sessioned' /\ \A s \in Sessions : SessionOutdated(sess[s], sess'[s])
  /\ OnRecord(LAMBDA k : {why})

LEMMA SyncFacts ==
  ASSUME KeysShape, NEW why, Synced(why), userTeam' \in Teams, active' \in BOOLEAN
  PROVE  Syncs(why)
<1>1. /\ UNCHANGED <<override, policy, status, cache, failures, revived>>
      /\ sess' = [s \in Sessions |-> Outdate(sess[s])]
      /\ \A s \in Sessions : SessionShape(sess[s])
  BY DEF Synced, KeysShape, Sessioned
<1>2. DatabaseShape'
  BY <1>1 DEF KeysShape, DatabaseShape
<1>3. \A s \in Sessions : SessionOutdated(sess[s], sess'[s])
  BY <1>1, SessionsOutdated
<1>4. Sessioned'
  BY <1>1, <1>3 DEF Sessioned, SessionOutdated
<1>5. OnRecord(LAMBDA k : {why})
  BY DEF Synced, NoteChange, OnRecord, Caused
<1> QED
  BY <1>1, <1>2, <1>3, <1>4, <1>5 DEF Syncs

(* The account is switched: a request begun while it was off stays banned   *)
(* until it is on.                                                          *)
LEMMA SwitchFacts ==
  ASSUME KeysShape, NEW on \in BOOLEAN, SyncSetsActive(on)
  PROVE  /\ Syncs("sync") /\ active' = on /\ UNCHANGED userTeam
         /\ Requested'
         /\ \A g \in Requests : LET q == reqs[g] o == reqs'[g] IN
              /\ o.at = q.at /\ o.key = q.key /\ o.db = q.db /\ o.team = q.team /\ o.models = q.models
              /\ o.banned = (q.banned /\ ~on) /\ o.revoked = q.revoked
              /\ o.orphan = q.orphan /\ o.outdated = q.outdated
<1>1. /\ Synced("sync") /\ active' = on /\ UNCHANGED userTeam
      /\ reqs' = [g \in Requests |-> [reqs[g] EXCEPT !.banned = @ /\ ~on]]
      /\ userTeam \in Teams /\ \A g \in Requests : RequestShape(reqs[g])
  BY DEF SyncSetsActive, KeysShape, DatabaseShape, Requested
<1>2. Syncs("sync")
  BY <1>1, SyncFacts
<1>3. ASSUME NEW q, RequestShape(q)
      PROVE  LET o == [q EXCEPT !.banned = @ /\ ~on] IN
             /\ RequestShape(o)
             /\ o.at = q.at /\ o.key = q.key /\ o.db = q.db /\ o.team = q.team /\ o.models = q.models
             /\ o.banned = (q.banned /\ ~on) /\ o.revoked = q.revoked
             /\ o.orphan = q.orphan /\ o.outdated = q.outdated
  <2> DEFINE b == q.banned /\ ~on
             o == [q EXCEPT !.banned = b]
  <2>1. b \in BOOLEAN /\ q \in RequestRecords
    BY <1>3 DEF RequestShape, RequestRecords
  <2> HIDE DEF b
  <2>2. /\ o \in RequestRecords
        /\ o.at = q.at /\ o.key = q.key /\ o.db = q.db /\ o.team = q.team /\ o.models = q.models
        /\ o.banned = b /\ o.revoked = q.revoked
        /\ o.orphan = q.orphan /\ o.outdated = q.outdated
    BY <2>1 DEF RequestRecords
  <2> HIDE DEF o
  <2>3. RequestShape(o)
    BY <1>3, <2>2 DEF RequestShape
  <2> QED
    BY <2>2, <2>3 DEF o, b
<1>4. Requested'
  BY <1>1, <1>3 DEF Requested
<1>5. \A g \in Requests : reqs'[g] = [reqs[g] EXCEPT !.banned = @ /\ ~on]
  BY <1>1
<1> QED
  BY <1>1, <1>2, <1>3, <1>4, <1>5

-----------------------------------------------------------------------------
(* A request of the gateway moves on, and writes nothing. *)
Asks(q, r) ==
  /\ r.key = q.key /\ r.db = q.db /\ r.banned = q.banned /\ r.revoked = q.revoked
  /\ r.orphan = q.orphan
  /\ \/ q.at = "ctx" /\ r.at = "lookup" /\ ctx[q.key] = NoCtx
     \/ q.at = "ctx" /\ r.at = "recheck" /\ ctx[q.key] # NoCtx
     \/ q.at = "ctx" /\ r.at = "served" /\ ctx[q.key] # NoCtx /\ ~q.db
     \/ q.at = "recheck" /\ r.at = "served" /\ active
     \/ q.at = "lookup" /\ r.at = "user" /\ q.key \in lookup
     \/ q.at = "user" /\ r.at = "override" /\ active /\ r.team = userTeam
     \/ /\ q.at = "override" /\ r.team = q.team /\ r.models = override /\ r.outdated = q.outdated
        /\ r.at = IF override = Anything THEN "policy" ELSE "store"
     \/ /\ q.at = "policy" /\ r.team = q.team /\ r.models = policy[q.team] /\ r.outdated = q.outdated
        /\ r.at = "store"

Asked(q, r) ==
  /\ RequestShape(r)
  /\ \/ r = IdleRequest
     \/ /\ r.at = "ctx" /\ r.key \in Keys /\ status[r.key] # "none" /\ r.banned = ~active
        /\ r.revoked = (status[r.key] = "REVOKED")
     \/ Asks(q, r)

Goes(g) ==
  \/ \E k \in Keys : StartRequest(g, k)
  \/ ReadContext(g) \/ (Recheck(g) /\ active) \/ ReadLookup(g)
  \/ LoadUser(g) \/ LoadOverride(g) \/ LoadPolicy(g)

LEMMA Advancing ==
  ASSUME NEW q, RequestShape(q), NEW at \in {"recheck", "lookup", "user", "served"},
         q.at \notin {"idle"}
  PROVE  LET r == [q EXCEPT !.at = at] IN
         /\ RequestShape(r) /\ r.at = at /\ r.key = q.key /\ r.db = q.db
         /\ r.banned = q.banned /\ r.revoked = q.revoked /\ r.orphan = q.orphan
<1> DEFINE r == [q EXCEPT !.at = at]
<1>1. /\ r \in RequestRecords /\ r.at = at /\ r.key = q.key /\ r.db = q.db
      /\ r.banned = q.banned /\ r.revoked = q.revoked /\ r.orphan = q.orphan
  BY DEF RequestShape, RequestRecords
<1> HIDE DEF r
<1>2. RequestShape(r)
  BY <1>1 DEF RequestShape
<1> QED
  BY <1>1, <1>2 DEF r

LEMMA GatewayAsks ==
  ASSUME KeysShape, NEW g \in Requests, Goes(g)
  PROVE  /\ \E r : reqs' = [reqs EXCEPT ![g] = r] /\ Asked(reqs[g], r)
         /\ UNCHANGED <<database, cache, failures, sess, history>>
<1> DEFINE q == reqs[g]
           OneAsks(r) == /\ reqs' = [reqs EXCEPT ![g] = r] /\ Asked(q, r)
                         /\ UNCHANGED <<database, cache, failures, sess, history>>
<1>0. /\ RequestShape(q) /\ q \in RequestRecords /\ ctx \in [Keys -> Contexts \cup {NoCtx}]
      /\ DatabaseShape /\ reqs = [h \in Requests |-> reqs[h]]
      /\ userTeam \in Teams /\ override \in Lists /\ policy \in [Teams -> Lists] /\ active \in BOOLEAN
  BY DEF KeysShape, CacheShape, DatabaseShape, Requested, RequestShape
<1>1. ASSUME NEW k \in Keys, StartRequest(g, k)
      PROVE  \E r : OneAsks(r)
  <2>1. PICK db \in BOOLEAN :
          reqs' = [reqs EXCEPT ![g] = [IdleRequest EXCEPT !.at = "ctx", !.key = k, !.db = db,
                                         !.banned = ~active, !.revoked = status[k] = "REVOKED"]]
    BY <1>1 DEF StartRequest, Become
  <2> DEFINE b == ~active
             v == status[k] = "REVOKED"
             r == [IdleRequest EXCEPT !.at = "ctx", !.key = k, !.db = db, !.banned = b, !.revoked = v]
  <2>2. b \in BOOLEAN /\ v \in BOOLEAN
    BY <1>0
  <2> HIDE DEF b, v
  <2>3. /\ r \in RequestRecords /\ r.at = "ctx" /\ r.key = k /\ r.banned = b /\ r.revoked = v
    BY <2>2 DEF IdleRequest, RequestRecords, Lists
  <2>4. reqs' = [reqs EXCEPT ![g] = r]
    BY <2>1 DEF b, v
  <2> HIDE DEF r
  <2>5. RequestShape(r)
    BY <2>3 DEF RequestShape
  <2>6. Asked(q, r)
    BY <1>1, <2>3, <2>5 DEF Asked, StartRequest, b, v
  <2> QED
    BY <1>1, <2>4, <2>6 DEF StartRequest, OnlyRequest
<1>2. CASE ReadContext(g)
  <2> DEFINE at == IF ctx[q.key] = NoCtx THEN "lookup" ELSE IF q.db THEN "recheck" ELSE "served"
             r == [q EXCEPT !.at = at]
  <2>1. q.at = "ctx" /\ reqs' = [reqs EXCEPT ![g] = r] /\ OnlyRequest
    BY <1>2 DEF ReadContext, Become
  <2>2. at \in {"recheck", "lookup", "user", "served"}
    OBVIOUS
  <2>3. /\ at = "lookup" => ctx[q.key] = NoCtx
        /\ at = "recheck" => ctx[q.key] # NoCtx
        /\ at = "served" => ctx[q.key] # NoCtx /\ ~q.db
        /\ at # "user"
    OBVIOUS
  <2> HIDE DEF at
  <2>4. /\ RequestShape(r) /\ r.at = at /\ r.key = q.key /\ r.db = q.db
        /\ r.banned = q.banned /\ r.revoked = q.revoked /\ r.orphan = q.orphan
    BY <1>0, <2>1, <2>2, Advancing
  <2> HIDE DEF r
  <2>5. Asked(q, r)
    BY <2>1, <2>2, <2>3, <2>4 DEF Asked, Asks
  <2> QED
    BY <2>1, <2>5 DEF OnlyRequest
<1>3. CASE Recheck(g) /\ active
  <2> DEFINE r == [q EXCEPT !.at = "served"]
  <2>1. /\ q.at = "recheck" /\ reqs' = [reqs EXCEPT ![g] = r] /\ UNCHANGED <<lookup, ctx, cause>>
        /\ UNCHANGED <<database, index, failures, sess, revived>>
    BY <1>3 DEF Recheck, Become
  <2>2. "served" \in {"recheck", "lookup", "user", "served"}
    OBVIOUS
  <2>3. /\ RequestShape(r) /\ r.at = "served" /\ r.key = q.key /\ r.db = q.db
        /\ r.banned = q.banned /\ r.revoked = q.revoked /\ r.orphan = q.orphan
    BY <1>0, <2>1, <2>2, Advancing
  <2> HIDE DEF r
  <2>4. Asked(q, r)
    BY <1>3, <2>1, <2>3 DEF Asked, Asks
  <2> QED
    BY <2>1, <2>4 DEF cache, history
<1>4. CASE ReadLookup(g)
  <2> DEFINE r == [q EXCEPT !.at = "user"]
  <2>1. /\ q.at = "lookup" /\ OnlyRequest
        /\ \/ reqs' = [reqs EXCEPT ![g] = r] /\ q.key \in lookup
           \/ reqs' = [reqs EXCEPT ![g] = IdleRequest]
    BY <1>4 DEF ReadLookup, Become, Refused
  <2>2. "user" \in {"recheck", "lookup", "user", "served"}
    OBVIOUS
  <2>3. /\ RequestShape(r) /\ r.at = "user" /\ r.key = q.key /\ r.db = q.db
        /\ r.banned = q.banned /\ r.revoked = q.revoked /\ r.orphan = q.orphan
    BY <1>0, <2>1, <2>2, Advancing
  <2> HIDE DEF r
  <2>4. Asked(q, IdleRequest) /\ (q.key \in lookup => Asked(q, r))
    BY <2>1, <2>3, IdleShapes DEF Asked, Asks
  <2> QED
    BY <2>1, <2>4 DEF OnlyRequest
<1>5. CASE LoadUser(g)
  <2> DEFINE r == [q EXCEPT !.at = "override", !.team = userTeam, !.outdated = FALSE]
  <2>1. /\ q.at = "user" /\ OnlyRequest
        /\ \/ reqs' = [reqs EXCEPT ![g] = r] /\ active
           \/ reqs' = [reqs EXCEPT ![g] = IdleRequest]
    BY <1>5 DEF LoadUser, Become, Refused
  <2>2. /\ r \in RequestRecords /\ r.at = "override" /\ r.team = userTeam /\ r.key = q.key /\ r.db = q.db
        /\ r.banned = q.banned /\ r.revoked = q.revoked /\ r.orphan = q.orphan
    BY <1>0 DEF RequestRecords
  <2> HIDE DEF r
  <2>3. RequestShape(r)
    BY <1>0, <2>1, <2>2 DEF RequestShape
  <2>4. Asked(q, IdleRequest) /\ (active => Asked(q, r))
    BY <2>1, <2>2, <2>3, IdleShapes DEF Asked, Asks
  <2> QED
    BY <2>1, <2>4 DEF OnlyRequest
<1>6. CASE LoadOverride(g)
  <2> DEFINE at == IF override = Anything THEN "policy" ELSE "store"
             r == [q EXCEPT !.models = override, !.at = at]
  <2>1. /\ q.at = "override" /\ OnlyRequest
        /\ \/ reqs' = [reqs EXCEPT ![g] = r]
           \/ reqs' = [reqs EXCEPT ![g] = IdleRequest]
    BY <1>6 DEF LoadOverride, Become, Refused
  <2>2. at \in {"policy", "store"}
    OBVIOUS
  <2> HIDE DEF at
  <2>3. /\ r \in RequestRecords /\ r.at = at /\ r.models = override /\ r.team = q.team /\ r.key = q.key
        /\ r.db = q.db /\ r.banned = q.banned /\ r.revoked = q.revoked /\ r.orphan = q.orphan
        /\ r.outdated = q.outdated
    BY <1>0, <2>2 DEF RequestRecords
  <2> HIDE DEF r
  <2>4. RequestShape(r)
    BY <1>0, <2>1, <2>2, <2>3 DEF RequestShape
  <2>5. Asked(q, IdleRequest) /\ Asked(q, r)
    BY <2>1, <2>3, <2>4, IdleShapes DEF Asked, Asks, at
  <2> QED
    BY <2>1, <2>5 DEF OnlyRequest
<1>7. CASE LoadPolicy(g)
  <2> DEFINE r == [q EXCEPT !.models = policy[q.team], !.at = "store"]
  <2>1. q.at = "policy" /\ OnlyRequest /\ reqs' = [reqs EXCEPT ![g] = r]
    BY <1>7 DEF LoadPolicy, Become
  <2>2. q.team \in Teams
    BY <1>0, <2>1 DEF RequestShape
  <2>3. /\ r \in RequestRecords /\ r.at = "store" /\ r.models = policy[q.team] /\ r.team = q.team
        /\ r.key = q.key /\ r.db = q.db /\ r.banned = q.banned /\ r.revoked = q.revoked
        /\ r.orphan = q.orphan /\ r.outdated = q.outdated
    BY <1>0, <2>2 DEF RequestRecords
  <2> HIDE DEF r
  <2>4. RequestShape(r)
    BY <1>0, <2>1, <2>2, <2>3 DEF RequestShape
  <2>5. Asked(q, r)
    BY <2>1, <2>3, <2>4 DEF Asked, Asks
  <2> QED
    BY <2>1, <2>5 DEF OnlyRequest
<1> QED
  BY <1>1, <1>2, <1>3, <1>4, <1>5, <1>6, <1>7 DEF Goes

LEMMA StoreFacts ==
  ASSUME KeysShape, NEW g \in Requests, StoreContext(g)
  PROVE  LET q == reqs[g]
             c == [team |-> q.team, models |-> q.models]
             r == reqs'[g]
         IN  /\ q.at = "store" /\ q.key \in Keys /\ c \in Contexts
             /\ ctx' = [ctx EXCEPT ![q.key] = c]
             /\ cause' = [cause EXCEPT ![q.key] = IF q.outdated THEN {"late fill"} ELSE {}]
             /\ revived' = IF q.orphan THEN revived \cup {q.key} ELSE revived
             /\ UNCHANGED <<database, lookup, index, failures, sess>>
             /\ r.at = "served" /\ r.key = q.key /\ r.db = q.db /\ r.banned = q.banned
             /\ r.revoked = q.revoked
             /\ Requested' /\ \A h \in Requests \ {g} : reqs'[h] = reqs[h]
<1> DEFINE q == reqs[g]
           c == [team |-> q.team, models |-> q.models]
           r == [q EXCEPT !.at = "served", !.team = NoTeam, !.models = Anything,
                          !.outdated = FALSE, !.orphan = FALSE]
<1>1. /\ q.at = "store" /\ ctx' = [ctx EXCEPT ![q.key] = c]
      /\ cause' = [cause EXCEPT ![q.key] = IF q.outdated THEN {"late fill"} ELSE {}]
      /\ revived' = IF q.orphan THEN revived \cup {q.key} ELSE revived
      /\ UNCHANGED <<database, lookup, index, failures, sess>>
      /\ reqs' = [reqs EXCEPT ![g] = r]
  BY DEF StoreContext, Become
<1>2. /\ RequestShape(q) /\ q \in RequestRecords /\ Requested
  BY DEF KeysShape, Requested, RequestShape
<1>3. q.key \in Keys /\ q.team \in Teams /\ c \in Contexts
  BY <1>1, <1>2 DEF RequestShape, RequestRecords, Contexts, Lists
<1>4. /\ r \in RequestRecords /\ r.at = "served" /\ r.key = q.key /\ r.db = q.db
      /\ r.banned = q.banned /\ r.revoked = q.revoked
  BY <1>2 DEF RequestRecords, Lists
<1> HIDE DEF r
<1>5. RequestShape(r)
  BY <1>3, <1>4 DEF RequestShape
<1>6. Requested' /\ reqs'[g] = r /\ \A h \in Requests \ {g} : reqs'[h] = reqs[h]
  BY <1>1, <1>2, <1>5, RequestMoves
<1> QED
  BY <1>1, <1>3, <1>4, <1>6

-----------------------------------------------------------------------------
(* Every step is one of these. *)
SessionOnly(s, r) ==
  /\ sess' = [sess EXCEPT ![s] = r] /\ SessionShape(r)
  /\ (Starts(r) /\ sess[s].at = "idle") \/ Advance(sess[s], r)
  /\ UNCHANGED <<database, lookup, ctx, reqs, history>>
  /\ index' \in [Teams -> SUBSET Keys] /\ failures' \subseteq Entries

RequestOnly(g, r) ==
  /\ reqs' = [reqs EXCEPT ![g] = r] /\ Asked(reqs[g], r)
  /\ UNCHANGED <<database, cache, failures, sess, history>>

CacheOnly ==
  Forgets /\ UNCHANGED <<database, index, sess, revived>> /\ failures' \subseteq Entries

Steps ==
  \/ \E s \in Sessions : \E r : SessionOnly(s, r)
  \/ \E s \in Sessions : \E r : \E e \in sess[s].todo : Deleted(s, r, e)
  \/ \E s \in Sessions : Publish(s)
  \/ \E s \in Sessions : Commit(s)
  \/ \E t \in Teams : SyncMovesUser(t)
  \/ \E on \in BOOLEAN : SyncSetsActive(on)
  \/ \E k \in Keys : ExpireKey(k)
  \/ CacheOnly
  \/ \E g \in Requests : \E r : RequestOnly(g, r)
  \/ \E g \in Requests : StoreContext(g)

LEMMA NextSteps == KeysShape /\ Next => Steps
<1> SUFFICES ASSUME KeysShape, Next PROVE Steps
  OBVIOUS
<1>0. index \in [Teams -> SUBSET Keys] /\ failures \subseteq Entries
  BY DEF KeysShape, CacheShape
<1>1. ASSUME NEW s \in Sessions, Begins(s)
      PROVE  Steps
  <2>1. PICK r : Begin(s, r) /\ Starts(r)
    BY <1>1, OperationsStart
  <2>2. SessionOnly(s, r)
    BY <1>0, <2>1 DEF SessionOnly, Begin, Starts, cache
  <2> QED
    BY <2>2 DEF Steps
<1>2. ASSUME NEW s \in Sessions, Turns(s)
      PROVE  Steps
  <2>1. /\ \E r : sess' = [sess EXCEPT ![s] = r] /\ Advance(sess[s], r)
        /\ UNCHANGED <<database, lookup, ctx, reqs, history>>
        /\ index' \in [Teams -> SUBSET Keys] /\ failures' \subseteq Entries
    BY <1>2, SessionsAdvance
  <2>2. \E r : SessionOnly(s, r)
    BY <2>1 DEF SessionOnly, Advance
  <2> QED
    BY <2>2 DEF Steps
<1>3. ASSUME NEW s \in Sessions, DeleteEntry(s) \/ Publish(s) \/ Commit(s)
      PROVE  Steps
  BY <1>3, DeletesOne DEF Steps
<1>4. CASE Background
  <2>1. ASSUME NEW e \in Entries, RetryFailed(e)
        PROVE  Steps
    BY <2>1, RetryForgets DEF Steps, CacheOnly
  <2>2. ASSUME NEW k \in Keys, EntryLapses(k)
        PROVE  Steps
    BY <1>0, <2>2, LapseForgets DEF Steps, CacheOnly
  <2> QED
    BY <1>4, <2>1, <2>2 DEF Background, Steps
<1>5. ASSUME NEW g \in Requests, Goes(g)
      PROVE  Steps
  <2>1. /\ \E r : reqs' = [reqs EXCEPT ![g] = r] /\ Asked(reqs[g], r)
        /\ UNCHANGED <<database, cache, failures, sess, history>>
    BY <1>5, GatewayAsks
  <2>2. \E r : RequestOnly(g, r)
    BY <2>1 DEF RequestOnly
  <2> QED
    BY <2>2 DEF Steps
<1>6. ASSUME NEW g \in Requests, Recheck(g), ~active
      PROVE  Steps
  BY <1>0, <1>6, RecheckForgets DEF Steps, CacheOnly
<1>7. ASSUME NEW g \in Requests, StoreContext(g)
      PROVE  Steps
  BY <1>7 DEF Steps
<1>8. ASSUME NEW s \in Sessions, Admin(s)
      PROVE  Steps
  <2>1. Begins(s) \/ Turns(s) \/ DeleteEntry(s) \/ Publish(s) \/ Commit(s)
    BY <1>8 DEF Admin, Begins, Turns
  <2> QED
    BY <1>1, <1>2, <1>3, <2>1
<1>9. ASSUME NEW g \in Requests, Gateway(g)
      PROVE  Steps
  <2>1. Goes(g) \/ (Recheck(g) /\ ~active) \/ StoreContext(g)
    BY <1>9 DEF Gateway, Goes
  <2> QED
    BY <1>5, <1>6, <1>7, <2>1
<1> QED
  BY <1>4, <1>8, <1>9 DEF Next

LEMMA ShapeNext == KeysShape /\ [Next]_vars => KeysShape'
<1> SUFFICES ASSUME KeysShape, [Next]_vars PROVE KeysShape'
  OBVIOUS
<1>0. /\ DatabaseShape /\ CacheShape /\ Sessioned /\ Requested /\ Caused
      /\ lookup \subseteq Keys /\ ctx \in [Keys -> Contexts \cup {NoCtx}]
      /\ index \in [Teams -> SUBSET Keys] /\ failures \subseteq Entries /\ revived \subseteq Keys
      /\ cause = [k \in Keys |-> cause[k]]
  BY DEF KeysShape, CacheShape, Caused
<1>1. ASSUME NEW s \in Sessions, NEW r, SessionOnly(s, r)
      PROVE  KeysShape'
  <2>1. Sessioned'
    BY <1>0, <1>1, SessionMoves DEF SessionOnly
  <2>2. UNCHANGED <<database, lookup, ctx, reqs, history>> /\ index' \in [Teams -> SUBSET Keys]
        /\ failures' \subseteq Entries
    BY <1>1 DEF SessionOnly
  <2> QED
    BY <1>0, <2>1, <2>2 DEF KeysShape, DatabaseShape, CacheShape, Requested, Caused, database, history
<1>2. ASSUME NEW s \in Sessions, NEW r, NEW e \in sess[s].todo, Deleted(s, r, e)
      PROVE  KeysShape'
  <2>1. SessionShape(r) /\ e \in KeyEntries /\ sess' = [sess EXCEPT ![s] = r]
        /\ UNCHANGED <<database, index, failures>>
    BY <1>2 DEF Deleted, Tick
  <2>2. Sessioned'
    BY <1>0, <2>1, SessionMoves
  <2>3. DatabaseShape'
    BY <1>0, <2>1 DEF DatabaseShape, database
  <2>4. CASE Forgets /\ UNCHANGED revived
    BY <1>0, <2>1, <2>2, <2>3, <2>4 DEF KeysShape, CacheShape, Forgets
  <2>5. CASE /\ cause' = [cause EXCEPT ![e[2]] = @ \cup {"lost delete"}]
             /\ revived' = IF sess[s].op = "revoke" THEN revived \cup {e[2]} ELSE revived
             /\ UNCHANGED <<lookup, ctx, reqs>>
    <3>1. e[2] \in Keys
      BY <2>1 DEF KeyEntries
    <3>2. CacheShape' /\ Caused'
      BY <1>0, <2>1, <2>5, <3>1 DEF CacheShape, Caused
    <3>3. Requested'
      BY <1>0, <2>5 DEF Requested
    <3> QED
      BY <2>2, <2>3, <3>2, <3>3 DEF KeysShape
  <2> QED
    BY <1>2, <2>4, <2>5 DEF Deleted
<1>3. ASSUME NEW s \in Sessions, Publish(s)
      PROVE  KeysShape'
  <2> DEFINE p == sess[s]
             r == [p EXCEPT !.at = "commit"]
  <2>1. /\ p.key \in Keys /\ p.snapshot \in Contexts /\ sess' = [sess EXCEPT ![s] = r] /\ SessionShape(r)
        /\ lookup' = lookup \cup {p.key} /\ ctx' = [ctx EXCEPT ![p.key] = p.snapshot]
        /\ index' \in [Teams -> SUBSET Keys] /\ UNCHANGED <<database, failures, reqs, history>>
    BY <1>3, PublishFacts
  <2> HIDE DEF r
  <2>2. Sessioned'
    BY <1>0, <2>1, SessionMoves
  <2>3. DatabaseShape' /\ Requested' /\ Caused'
    BY <1>0, <2>1 DEF DatabaseShape, Requested, Caused, database, history
  <2>4. CacheShape'
    BY <1>0, <2>1 DEF CacheShape, history
  <2> QED
    BY <2>2, <2>3, <2>4 DEF KeysShape
<1>4. ASSUME NEW s \in Sessions, Commit(s)
      PROVE  KeysShape'
  <2>1. Committed(s)
    BY <1>4, Commits
  <2>2. DatabaseShape' /\ Sessioned' /\ Requested' /\ failures' \subseteq Entries /\ UNCHANGED <<cache, revived>>
        /\ OnRecord(LAMBDA k : Reason(s, k))
    BY <2>1 DEF Committed
  <2>3. Caused'
    BY <2>2 DEF OnRecord
  <2> QED
    BY <1>0, <2>2, <2>3 DEF KeysShape, CacheShape, cache
<1>5. ASSUME Syncs("sync"), Requested'
      PROVE  KeysShape'
  <2>1. DatabaseShape' /\ Sessioned' /\ UNCHANGED <<cache, failures, revived>> /\ OnRecord(LAMBDA k : {"sync"})
    BY <1>5 DEF Syncs
  <2>2. Caused'
    BY <2>1 DEF OnRecord
  <2> QED
    BY <1>0, <1>5, <2>1, <2>2 DEF KeysShape, CacheShape, cache
<1>6. ASSUME NEW t \in Teams, SyncMovesUser(t)
      PROVE  KeysShape'
  <2>1. Synced("sync") /\ userTeam' \in Teams /\ active' \in BOOLEAN /\ OutdateRequests
    BY <1>0, <1>6 DEF SyncMovesUser, DatabaseShape
  <2>2. Syncs("sync") /\ Requested'
    BY <1>0, <2>1, SyncFacts, RequestsOutdated
  <2> QED
    BY <1>5, <2>2
<1>7. ASSUME NEW on \in BOOLEAN, SyncSetsActive(on)
      PROVE  KeysShape'
  BY <1>5, <1>7, SwitchFacts
<1>8. ASSUME NEW k \in Keys, ExpireKey(k)
      PROVE  KeysShape'
  <2>1. /\ status' = [status EXCEPT ![k] = "EXPIRED"]
        /\ UNCHANGED <<userTeam, active, override, policy, cache, failures, sess, reqs, bounds, history>>
    BY <1>8 DEF ExpireKey
  <2>2. DatabaseShape'
    BY <1>0, <2>1 DEF DatabaseShape, Statuses
  <2> QED
    BY <1>0, <2>1, <2>2 DEF KeysShape, CacheShape, Sessioned, Requested, Caused, cache, history
<1>9. ASSUME CacheOnly
      PROVE  KeysShape'
  <2>1. /\ Forgets /\ UNCHANGED <<database, index, sess, revived>> /\ failures' \subseteq Entries
    BY <1>9 DEF CacheOnly
  <2>2. DatabaseShape' /\ Sessioned'
    BY <1>0, <2>1 DEF DatabaseShape, Sessioned, database
  <2> QED
    BY <1>0, <2>1, <2>2 DEF KeysShape, CacheShape, Forgets
<1>10. ASSUME NEW g \in Requests, NEW r, RequestOnly(g, r)
       PROVE  KeysShape'
  <2>1. /\ reqs' = [reqs EXCEPT ![g] = r] /\ RequestShape(r)
        /\ UNCHANGED <<database, cache, failures, sess, history>>
    BY <1>10 DEF RequestOnly, Asked
  <2>2. Requested'
    BY <1>0, <2>1, RequestMoves
  <2> QED
    BY <1>0, <2>1, <2>2 DEF KeysShape, DatabaseShape, CacheShape, Sessioned, Caused, database, cache, history
<1>11. ASSUME NEW g \in Requests, StoreContext(g)
       PROVE  KeysShape'
  <2> DEFINE q == reqs[g]
             c == [team |-> q.team, models |-> q.models]
  <2>1. /\ q.key \in Keys /\ c \in Contexts /\ ctx' = [ctx EXCEPT ![q.key] = c]
        /\ cause' = [cause EXCEPT ![q.key] = IF q.outdated THEN {"late fill"} ELSE {}]
        /\ revived' = IF q.orphan THEN revived \cup {q.key} ELSE revived
        /\ UNCHANGED <<database, lookup, index, failures, sess>> /\ Requested'
    BY <1>11, StoreFacts
  <2> HIDE DEF c, q
  <2>2. DatabaseShape' /\ Sessioned'
    BY <1>0, <2>1 DEF DatabaseShape, Sessioned, database
  <2>3. CacheShape' /\ Caused'
    BY <1>0, <2>1 DEF CacheShape, Caused
  <2> QED
    BY <2>1, <2>2, <2>3 DEF KeysShape
<1>12. CASE UNCHANGED vars
  BY <1>0, <1>12 DEF KeysShape, DatabaseShape, CacheShape, Sessioned, Requested, Caused, vars, database, cache,
     history
<1>13. CASE Next
  <2>1. Steps
    BY <1>13, NextSteps
  <2> QED
    BY <2>1, <1>1, <1>2, <1>3, <1>4, <1>6, <1>7, <1>8, <1>9, <1>10, <1>11 DEF Steps
<1> QED
  BY <1>12, <1>13

-----------------------------------------------------------------------------
(* First layer: a key is issued by one session, and asked for once issued.  *)
StatusKept == \A k \in Keys : status'[k] = "none" => status[k] = "none"

LEMMA ApartInit == Init => KeysApart
BY IdleFields DEF Init, KeysApart, Unissued, OwnersFirst, RevokesIssued, Held, IdleRequest, Issuing

LEMMA ApartNext == KeysShape /\ KeysApart /\ [Next]_vars => KeysApart'
<1> SUFFICES ASSUME KeysShape, KeysApart, [Next]_vars PROVE KeysApart'
  OBVIOUS
<1>0. /\ Sessioned /\ Requested
      /\ \A s \in Sessions : SessionShape(sess[s]) /\ sess[s].key \in Keys \cup {NoKey}
      /\ \A g \in Requests : RequestShape(reqs[g]) /\ (reqs[g].at # "idle" => reqs[g].key \in Keys)
      /\ \A s \in Sessions : Unissued(s) /\ OwnersFirst(sess[s]) /\ RevokesIssued(sess[s])
      /\ \A g \in Requests : Held(reqs[g])
      /\ NoKey \notin Keys
  BY ZenonT(60), KeysAssumption DEF KeysShape, Sessioned, Requested, SessionShape, SessionRecords, RequestShape, KeysApart
<1>1. ASSUME NEW s \in Sessions, NEW r, SessionOnly(s, r)
      PROVE  KeysApart'
  <2>1. /\ sess' = [sess EXCEPT ![s] = r] /\ SessionShape(r)
        /\ (Starts(r) /\ sess[s].at = "idle") \/ Advance(sess[s], r)
        /\ status' = status /\ reqs' = reqs
    BY <1>1 DEF SessionOnly, database
  <2>2. sess'[s] = r /\ \A t \in Sessions \ {s} : sess'[t] = sess[t]
    BY <1>0, <2>1, SessionMoves
  <2>3. /\ OwnersFirst(r) /\ RevokesIssued(r)
        /\ Issuing(r) => status[r.key] = "none" /\ \A t \in Sessions \ {s} : sess[t].key # r.key
        /\ ~Issuing(r) => r.key = NoKey
    <3>1. ~Issuing(r) => r.key = NoKey
      BY <2>1 DEF SessionShape
    <3>2. Issuing(r) => r.key # NoKey
      BY <1>0, <2>1 DEF SessionShape
    <3>3. CASE Starts(r)
      BY <3>1, <3>2, <3>3 DEF Starts, OwnersFirst, RevokesIssued
    <3>4. CASE Advance(sess[s], r)
      BY ZenonT(60), <1>0, <3>1, <3>4 DEF Advance, RevokesIssued, Unissued, Issuing
    <3> QED
      BY <2>1, <3>3, <3>4
  <2>4. ASSUME NEW t \in Sessions
        PROVE  Unissued(t)'
    <3>1. CASE t = s
      BY <2>1, <2>2, <2>3, <3>1 DEF Unissued, Issuing
    <3>2. CASE t # s
      <4>1. sess'[t] = sess[t] /\ Unissued(t) /\ (Issuing(sess[t]) => sess[t].key \in Keys)
        BY <1>0, <2>2, <3>2 DEF SessionShape
      <4>2. Issuing(sess[t]) => r.key # sess[t].key
        BY <1>0, <2>3, <3>2, <4>1
      <4> QED
        BY <2>1, <2>2, <4>1, <4>2 DEF Unissued, Issuing
    <3> QED
      BY <3>1, <3>2
  <2>5. ASSUME NEW t \in Sessions
        PROVE  OwnersFirst(sess[t])' /\ RevokesIssued(sess[t])'
    <3>1. CASE t = s
      BY <2>1, <2>2, <2>3, <3>1 DEF OwnersFirst, RevokesIssued
    <3>2. CASE t # s
      BY <1>0, <2>1, <2>2, <3>2 DEF OwnersFirst, RevokesIssued
    <3> QED
      BY <3>1, <3>2
  <2>6. \A g \in Requests : Held(reqs[g])'
    BY <1>0, <2>1 DEF Held
  <2> QED
    BY <2>4, <2>5, <2>6 DEF KeysApart
<1>2. ASSUME NEW s \in Sessions, NEW r, NEW e \in sess[s].todo, Deleted(s, r, e)
      PROVE  KeysApart'
  <2>1. /\ sess' = [sess EXCEPT ![s] = r] /\ SessionShape(r) /\ Tick(sess[s], r, e) /\ status' = status
    BY <1>2 DEF Deleted, Tick, database
  <2>2. sess'[s] = r /\ \A t \in Sessions \ {s} : sess'[t] = sess[t]
    BY <1>0, <2>1, SessionMoves
  <2>3. /\ r.op = sess[s].op /\ r.key = sess[s].key /\ r.keys = sess[s].keys
        /\ r.todo = sess[s].todo \ {e} /\ (e[1] = "ctx" => <<"lookup", e[2]>> \notin sess[s].todo)
    BY <2>1 DEF Tick
  <2>4. ASSUME NEW t \in Sessions
        PROVE  /\ sess'[t].op = sess[t].op /\ sess'[t].key = sess[t].key /\ sess'[t].keys = sess[t].keys
    BY <2>2, <2>3
  <2>5. \A t \in Sessions : Unissued(t)' /\ RevokesIssued(sess[t])'
    BY <1>0, <2>1, <2>4 DEF Unissued, RevokesIssued, Issuing
  <2>6. ASSUME NEW t \in Sessions
        PROVE  OwnersFirst(sess[t])'
    <3>1. OwnersFirst(r)
      <4> SUFFICES ASSUME NEW k \in Keys, <<"lookup", k>> \in r.todo
                   PROVE  <<"ctx", k>> \in r.todo
        BY DEF OwnersFirst
      <4>1. <<"ctx", k>> \in sess[s].todo
        BY <1>0, <2>3 DEF OwnersFirst
      <4>2. e # <<"ctx", k>>
        BY <2>3
      <4> QED
        BY <2>3, <4>1, <4>2
    <3>2. CASE t = s
      BY <2>2, <3>1, <3>2 DEF OwnersFirst
    <3>3. CASE t # s
      BY <1>0, <2>2, <3>3 DEF OwnersFirst
    <3> QED
      BY <3>2, <3>3
  <2>7. \A g \in Requests : Held(reqs[g])'
    <3>1. \A g \in Requests : Kept(reqs[g], reqs'[g]) \/ reqs'[g] = IdleRequest
      BY <1>0, <1>2, KeptItself DEF Deleted, Forgets
    <3>2. StatusKept
      BY <2>1 DEF StatusKept
    <3>3. ASSUME NEW g \in Requests
          PROVE  Held(reqs[g])'
      BY <1>0, <2>1, <3>1 DEF Held, Kept, IdleRequest
    <3> QED
      BY <3>3
  <2> QED
    BY <2>5, <2>6, <2>7 DEF KeysApart
<1>3. ASSUME NEW s \in Sessions, Publish(s)
      PROVE  KeysApart'
  <2> DEFINE p == sess[s]
             r == [p EXCEPT !.at = "commit"]
  <2>1. /\ sess' = [sess EXCEPT ![s] = r] /\ SessionShape(r) /\ Issuing(p)
        /\ r.op = p.op /\ r.key = p.key /\ r.todo = {} /\ status' = status /\ reqs' = reqs
    BY <1>3, PublishFacts DEF database
  <2> HIDE DEF r
  <2>2. sess'[s] = r /\ \A t \in Sessions \ {s} : sess'[t] = sess[t]
    BY <1>0, <2>1, SessionMoves
  <2>3. \A t \in Sessions : sess'[t].op = sess[t].op /\ sess'[t].key = sess[t].key
    BY <2>1, <2>2
  <2>4. \A t \in Sessions : Unissued(t)'
    BY <1>0, <2>1, <2>3 DEF Unissued, Issuing
  <2>5. \A t \in Sessions : OwnersFirst(sess[t])' /\ RevokesIssued(sess[t])'
    BY <1>0, <2>1, <2>2 DEF OwnersFirst, RevokesIssued, Issuing
  <2>6. \A g \in Requests : Held(reqs[g])'
    BY <1>0, <2>1 DEF Held
  <2> QED
    BY <2>4, <2>5, <2>6 DEF KeysApart
<1>4. ASSUME NEW s \in Sessions, Commit(s)
      PROVE  KeysApart'
  <2> DEFINE p == sess[s]
  <2>1. /\ SessionShape(p) /\ StatusCommitted(p) /\ p.at = "commit"
        /\ \A t \in Sessions \ {s} : SessionOutdated(sess[t], sess'[t])
        /\ (p.op = "user policy" => /\ sess'[s].op = "user policy" /\ sess'[s].at = "list"
                                   /\ sess'[s].todo = {} /\ sess'[s].key = NoKey)
        /\ (p.op # "user policy" => sess'[s] = IdleSession)
        /\ \A g \in Requests : Outdated(reqs[g], reqs'[g])
    BY <1>4, Commits DEF Committed
  <2>2. /\ sess'[s].key = NoKey /\ ~Issuing(sess'[s]) /\ sess'[s].todo = {} /\ sess'[s].op # "revoke"
    BY <2>1, IdleFields DEF Issuing
  <2>3. \A t \in Sessions \ {s} : /\ sess'[t].op = sess[t].op /\ sess'[t].key = sess[t].key
                                  /\ sess'[t].keys = sess[t].keys /\ sess'[t].todo = sess[t].todo
    BY <2>1 DEF SessionOutdated
  <2>4. StatusKept
    <3>1. Issuing(p) => p.key \in Keys
      BY <2>1 DEF SessionShape
    <3> QED
      BY <2>1, <3>1 DEF StatusKept, StatusCommitted
  <2>5. ASSUME NEW t \in Sessions
        PROVE  Unissued(t)' /\ OwnersFirst(sess[t])' /\ RevokesIssued(sess[t])'
    <3>1. CASE t = s
      BY <2>2, <3>1 DEF Unissued, OwnersFirst, RevokesIssued, Issuing
    <3>2. CASE t # s
      <4>1. ASSUME Issuing(sess[t])
            PROVE  status'[sess[t].key] = "none" /\ \A u \in Sessions \ {t} : sess'[u].key # sess[t].key
        <5>1. /\ sess[t].key \in Keys /\ status[sess[t].key] = "none"
              /\ \A u \in Sessions \ {t} : sess[u].key # sess[t].key
          BY <1>0, <4>1 DEF Unissued, SessionShape
        <5>2. p.key # sess[t].key
          BY <3>2, <5>1
        <5>3. ~(p.op = "revoke" /\ sess[t].key \in p.keys)
          BY <1>0, <5>1 DEF RevokesIssued
        <5>4. status'[sess[t].key] = "none"
          BY <2>1, <5>1, <5>2, <5>3 DEF StatusCommitted
        <5> QED
          BY <1>0, <2>2, <2>3, <5>1, <5>4
      <4>2. Unissued(t)'
        BY <2>3, <3>2, <4>1 DEF Unissued, Issuing
      <4>3. RevokesIssued(sess[t])'
        <5>1. SessionShape(sess[t]) /\ sess[t].keys \subseteq Keys
          BY <1>0 DEF SessionShape, SessionRecords
        <5> QED
          BY <1>0, <2>3, <2>4, <3>2, <5>1 DEF RevokesIssued, StatusKept
      <4>4. OwnersFirst(sess[t])'
        BY <1>0, <2>3, <3>2 DEF OwnersFirst
      <4> QED
        BY <4>2, <4>3, <4>4
    <3> QED
      BY <3>1, <3>2
  <2>6. \A g \in Requests : Held(reqs[g])'
    <3>1. \A g \in Requests : reqs'[g].at = reqs[g].at /\ reqs'[g].key = reqs[g].key
      BY <2>1 DEF Outdated, Kept
    <3> QED
      BY <1>0, <2>4, <3>1 DEF Held, StatusKept
  <2> QED
    BY <2>5, <2>6 DEF KeysApart
<1>5. ASSUME Syncs("sync"), \A g \in Requests : reqs'[g].at = reqs[g].at /\ reqs'[g].key = reqs[g].key
      PROVE  KeysApart'
  <2>1. /\ \A t \in Sessions : /\ sess'[t].op = sess[t].op /\ sess'[t].key = sess[t].key
                              /\ sess'[t].keys = sess[t].keys /\ sess'[t].todo = sess[t].todo
        /\ status' = status
    BY <1>5 DEF Syncs, SessionOutdated
  <2>2. \A t \in Sessions : Unissued(t)' /\ OwnersFirst(sess[t])' /\ RevokesIssued(sess[t])'
    BY <1>0, <2>1 DEF Unissued, OwnersFirst, RevokesIssued, Issuing
  <2>3. \A g \in Requests : Held(reqs[g])'
    BY <1>0, <1>5, <2>1 DEF Held
  <2> QED
    BY <2>2, <2>3 DEF KeysApart
<1>6. ASSUME NEW t \in Teams, SyncMovesUser(t)
      PROVE  KeysApart'
  <2>1. Synced("sync") /\ userTeam' \in Teams /\ active' \in BOOLEAN /\ OutdateRequests
    BY <1>6 DEF SyncMovesUser, KeysShape, DatabaseShape
  <2>2. Syncs("sync") /\ \A g \in Requests : Outdated(reqs[g], reqs'[g])
    BY <1>0, <2>1, SyncFacts, RequestsOutdated
  <2>3. \A g \in Requests : reqs'[g].at = reqs[g].at /\ reqs'[g].key = reqs[g].key
    BY <2>2 DEF Outdated, Kept
  <2> QED
    BY <1>5, <2>2, <2>3
<1>7. ASSUME NEW on \in BOOLEAN, SyncSetsActive(on)
      PROVE  KeysApart'
  BY <1>5, <1>7, SwitchFacts
<1>8. ASSUME NEW k \in Keys, ExpireKey(k)
      PROVE  KeysApart'
  <2>1. /\ status[k] = "ACTIVE" /\ status' = [status EXCEPT ![k] = "EXPIRED"]
        /\ status \in [Keys -> Statuses] /\ sess' = sess /\ reqs' = reqs
    BY <1>8 DEF ExpireKey, KeysShape, DatabaseShape
  <2>2. \A j \in Keys : status'[j] = "none" <=> status[j] = "none"
    BY <2>1
  <2>3. \A t \in Sessions : Issuing(sess[t]) => sess[t].key \in Keys
    BY <1>0 DEF SessionShape
  <2>4. \A t \in Sessions : sess[t].keys \subseteq Keys
    BY <1>0 DEF SessionShape, SessionRecords
  <2>5. \A t \in Sessions : Unissued(t)' /\ OwnersFirst(sess[t])' /\ RevokesIssued(sess[t])'
    BY <1>0, <2>1, <2>2, <2>3, <2>4 DEF Unissued, OwnersFirst, RevokesIssued, Issuing
  <2>6. \A g \in Requests : Held(reqs[g])'
    BY <1>0, <2>1, <2>2 DEF Held
  <2> QED
    BY <2>5, <2>6 DEF KeysApart
<1>9. ASSUME CacheOnly
      PROVE  KeysApart'
  <2>1. sess' = sess /\ status' = status /\ \A g \in Requests : Kept(reqs[g], reqs'[g]) \/ reqs'[g] = IdleRequest
    BY <1>9 DEF CacheOnly, Forgets, database
  <2>2. \A t \in Sessions : Unissued(t)' /\ OwnersFirst(sess[t])' /\ RevokesIssued(sess[t])'
    BY <1>0, <2>1 DEF Unissued, OwnersFirst, RevokesIssued, Issuing
  <2>3. ASSUME NEW g \in Requests
        PROVE  Held(reqs[g])'
    BY <1>0, <2>1 DEF Held, Kept, IdleRequest
  <2> QED
    BY <2>2, <2>3 DEF KeysApart
<1>10. ASSUME NEW g \in Requests, NEW r, RequestOnly(g, r)
       PROVE  KeysApart'
  <2>1. /\ reqs' = [reqs EXCEPT ![g] = r] /\ Asked(reqs[g], r) /\ RequestShape(r)
        /\ sess' = sess /\ status' = status
    BY <1>10 DEF RequestOnly, Asked, database
  <2>2. reqs'[g] = r /\ \A h \in Requests \ {g} : reqs'[h] = reqs[h]
    BY <1>0, <2>1, RequestMoves
  <2>3. Held(r)
    <3>1. CASE r = IdleRequest
      BY <3>1 DEF Held, IdleRequest
    <3>2. CASE r.at = "ctx" /\ status[r.key] # "none"
      BY <3>2 DEF Held
    <3>3. CASE Asks(reqs[g], r)
      BY <1>0, <3>3 DEF Held, Asks
    <3> QED
      BY <2>1, <3>1, <3>2, <3>3 DEF Asked
  <2>4. \A h \in Requests : Held(reqs[h])'
    BY <1>0, <2>1, <2>2, <2>3 DEF Held
  <2>5. \A t \in Sessions : Unissued(t)' /\ OwnersFirst(sess[t])' /\ RevokesIssued(sess[t])'
    BY <1>0, <2>1 DEF Unissued, OwnersFirst, RevokesIssued, Issuing
  <2> QED
    BY <2>4, <2>5 DEF KeysApart
<1>11. ASSUME NEW g \in Requests, StoreContext(g)
       PROVE  KeysApart'
  <2>1. /\ reqs[g].at = "store" /\ reqs'[g].key = reqs[g].key /\ sess' = sess /\ status' = status
        /\ \A h \in Requests \ {g} : reqs'[h] = reqs[h]
    BY <1>11, StoreFacts DEF database
  <2>2. \A h \in Requests : Held(reqs[h])'
    BY <1>0, <2>1 DEF Held
  <2>3. \A t \in Sessions : Unissued(t)' /\ OwnersFirst(sess[t])' /\ RevokesIssued(sess[t])'
    BY <1>0, <2>1 DEF Unissued, OwnersFirst, RevokesIssued, Issuing
  <2> QED
    BY <2>2, <2>3 DEF KeysApart
<1>12. CASE UNCHANGED vars
  BY <1>12 DEF KeysApart, Unissued, OwnersFirst, RevokesIssued, Held, Issuing, vars, database
<1>13. CASE Next
  <2>1. Steps
    BY <1>13, NextSteps
  <2> QED
    BY <2>1, <1>1, <1>2, <1>3, <1>4, <1>6, <1>7, <1>8, <1>9, <1>10, <1>11 DEF Steps
<1> QED
  BY <1>12, <1>13

-----------------------------------------------------------------------------
(* Second layer: whom the gateway lets pass. *)
LEMMA ScreeningInit == Init => Screening
BY DEF Init, Screening, Screened, IdleRequest

LEMMA ScreeningNext == KeysShape /\ Screening /\ [Next]_vars => Screening'
<1> SUFFICES ASSUME KeysShape, Screening, [Next]_vars PROVE Screening'
  OBVIOUS
<1>0. /\ Requested /\ active \in BOOLEAN
      /\ \A g \in Requests : RequestShape(reqs[g]) /\ Screened(reqs[g])
  BY DEF KeysShape, DatabaseShape, Requested, Screening
<1>1. ASSUME active' = active, \A g \in Requests : Kept(reqs[g], reqs'[g]) \/ reqs'[g] = IdleRequest
      PROVE  Screening'
  <2>1. ASSUME NEW g \in Requests
        PROVE  Screened(reqs[g])'
    <3>1. CASE reqs'[g] = IdleRequest
      BY <3>1 DEF Screened, IdleRequest
    <3>2. CASE Kept(reqs[g], reqs'[g])
      <4>1. reqs'[g].at = reqs[g].at /\ reqs'[g].db = reqs[g].db /\ reqs'[g].banned = reqs[g].banned
        BY <3>2 DEF Kept
      <4> QED
        BY <1>0, <1>1, <4>1 DEF Screened
    <3> QED
      BY <1>1, <3>1, <3>2
  <2> QED
    BY <2>1 DEF Screening
<1>2. ASSUME active' = active, reqs' = reqs
      PROVE  Screening'
  BY <1>0, <1>1, <1>2, KeptItself
<1>3. ASSUME NEW s \in Sessions, NEW r, SessionOnly(s, r)
      PROVE  Screening'
  BY <1>2, <1>3 DEF SessionOnly, database
<1>4. ASSUME NEW s \in Sessions, NEW r, NEW e \in sess[s].todo, Deleted(s, r, e)
      PROVE  Screening'
  <2>1. active' = active /\ (Forgets \/ reqs' = reqs)
    BY <1>4 DEF Deleted, database
  <2> QED
    BY <1>1, <1>2, <2>1 DEF Forgets
<1>5. ASSUME NEW s \in Sessions, Publish(s)
      PROVE  Screening'
  BY <1>2, <1>5, PublishFacts DEF database
<1>6. ASSUME \A g \in Requests : Outdated(reqs[g], reqs'[g]), active' = active
      PROVE  Screening'
  BY <1>1, <1>6 DEF Outdated
<1>7. ASSUME NEW s \in Sessions, Commit(s)
      PROVE  Screening'
  BY <1>6, <1>7, Commits DEF Committed
<1>8. ASSUME NEW t \in Teams, SyncMovesUser(t)
      PROVE  Screening'
  BY <1>0, <1>6, <1>8, RequestsOutdated DEF SyncMovesUser
<1>9. ASSUME NEW on \in BOOLEAN, SyncSetsActive(on)
      PROVE  Screening'
  <2>1. /\ active' = on
        /\ \A g \in Requests : LET q == reqs[g] o == reqs'[g] IN
             o.at = q.at /\ o.db = q.db /\ o.banned = (q.banned /\ ~on)
    BY <1>9, SwitchFacts
  <2>2. ASSUME NEW g \in Requests
        PROVE  Screened(reqs[g])'
    BY <1>0, <2>1 DEF Screened
  <2> QED
    BY <2>2 DEF Screening
<1>10. ASSUME NEW k \in Keys, ExpireKey(k)
       PROVE  Screening'
  BY <1>2, <1>10 DEF ExpireKey
<1>11. ASSUME CacheOnly
       PROVE  Screening'
  BY <1>1, <1>11 DEF CacheOnly, Forgets, database
<1>12. ASSUME NEW g \in Requests, NEW r, RequestOnly(g, r)
       PROVE  Screening'
  <2>1. /\ reqs' = [reqs EXCEPT ![g] = r] /\ Asked(reqs[g], r) /\ RequestShape(r) /\ active' = active
    BY <1>12 DEF RequestOnly, Asked, database
  <2>2. reqs'[g] = r /\ \A h \in Requests \ {g} : reqs'[h] = reqs[h]
    BY <1>0, <2>1, RequestMoves
  <2>3. Screened(r)
    <3>1. CASE r = IdleRequest
      BY <3>1 DEF Screened, IdleRequest
    <3>2. CASE r.at = "ctx" /\ r.banned = ~active
      BY <1>0, <3>2 DEF Screened
    <3>3. CASE Asks(reqs[g], r)
      BY <1>0, <3>3 DEF Screened, Asks
    <3> QED
      BY <2>1, <3>1, <3>2, <3>3 DEF Asked
  <2> QED
    BY <1>0, <2>1, <2>2, <2>3 DEF Screening, Screened
<1>13. ASSUME NEW g \in Requests, StoreContext(g)
       PROVE  Screening'
  <2>1. /\ reqs[g].at = "store" /\ reqs'[g].at = "served" /\ reqs'[g].banned = reqs[g].banned
        /\ active' = active /\ \A h \in Requests \ {g} : reqs'[h] = reqs[h]
    BY <1>13, StoreFacts DEF database
  <2> QED
    BY <1>0, <2>1 DEF Screening, Screened
<1>14. CASE UNCHANGED vars
  BY <1>2, <1>14 DEF vars, database
<1>15. CASE Next
  <2>1. Steps
    BY <1>15, NextSteps
  <2> QED
    BY <2>1, <1>3, <1>4, <1>5, <1>7, <1>8, <1>9, <1>10, <1>11, <1>12, <1>13 DEF Steps
<1> QED
  BY <1>14, <1>15

-----------------------------------------------------------------------------
(* Third layer: what a revocation has removed stays away.  An owner that is *)
(* gone is never written again (only the issue of a key writes it), and a   *)
(* request that found it before can fill the cache only if it is an orphan, *)
(* which revives the key.                                                   *)
LEMMA OwnerStaysGone ==
  ASSUME NEW k, OwnerGone(k), lookup' \subseteq lookup \/ (k \notin lookup => k \notin lookup'),
         revived \subseteq revived',
         \A g \in Requests :
           /\ reqs'[g].key = k /\ reqs'[g].at \in Past
           => k \in revived \/ reqs'[g].orphan
              \/ (reqs[g].key = k /\ reqs[g].at \in Past /\ (reqs[g].orphan => reqs'[g].orphan))
  PROVE  OwnerGone(k)'
BY DEF OwnerGone

LEMMA GoneStays ==
  ASSUME KeysShape, KeysApart, [Next]_vars
  PROVE  /\ revived \subseteq revived'
         /\ \A k \in Keys : status[k] # "none" /\ OwnerGone(k) => OwnerGone(k)'
         /\ \A k \in Keys : status[k] # "none" /\ OwnerGone(k) /\ ContextGone(k) => ContextGone(k)'
<1> DEFINE Goal == /\ revived \subseteq revived'
                   /\ \A k \in Keys : status[k] # "none" /\ OwnerGone(k) => OwnerGone(k)'
                   /\ \A k \in Keys : status[k] # "none" /\ OwnerGone(k) /\ ContextGone(k) => ContextGone(k)'
<1>0. /\ Requested /\ ctx \in [Keys -> Contexts \cup {NoCtx}]
      /\ \A g \in Requests : RequestShape(reqs[g])
      /\ \A s \in Sessions : Unissued(s)
  BY DEF KeysShape, CacheShape, Requested, KeysApart
<1>1. ASSUME lookup' \subseteq lookup, revived \subseteq revived',
             \A k \in Keys : ctx'[k] = NoCtx \/ ctx'[k] = ctx[k],
             \A g \in Requests : Kept(reqs[g], reqs'[g]) \/ reqs'[g] = IdleRequest
      PROVE  Goal
  <2>1. ASSUME NEW g \in Requests, reqs'[g].at \in Past
        PROVE  /\ reqs'[g].key = reqs[g].key /\ reqs[g].at \in Past
               /\ (reqs[g].orphan => reqs'[g].orphan)
    BY <1>1, <2>1 DEF Kept, IdleRequest, Past
  <2>2. \A k \in Keys : OwnerGone(k) => OwnerGone(k)'
    BY <1>1, <2>1, OwnerStaysGone
  <2>3. \A k \in Keys : ContextGone(k) => ContextGone(k)'
    BY <1>1 DEF ContextGone
  <2> QED
    BY <1>1, <2>2, <2>3
<1>2. ASSUME lookup' = lookup, revived \subseteq revived', ctx' = ctx, reqs' = reqs
      PROVE  Goal
  <2>1. lookup' \subseteq lookup /\ \A k \in Keys : ctx'[k] = NoCtx \/ ctx'[k] = ctx[k]
    BY <1>2
  <2>2. \A g \in Requests : Kept(reqs[g], reqs'[g]) \/ reqs'[g] = IdleRequest
    BY <1>0, <1>2, KeptItself
  <2> QED
    BY <1>1, <1>2, <2>1, <2>2
<1>3. ASSUME NEW s \in Sessions, NEW r, SessionOnly(s, r)
      PROVE  Goal
  BY <1>2, <1>3 DEF SessionOnly, history
<1>4. ASSUME NEW s \in Sessions, NEW r, NEW e \in sess[s].todo, Deleted(s, r, e)
      PROVE  Goal
  <2>1. \/ Forgets /\ revived' = revived
        \/ revived \subseteq revived' /\ UNCHANGED <<lookup, ctx, reqs>>
    BY <1>4 DEF Deleted
  <2> QED
    BY <1>1, <1>2, <2>1 DEF Forgets
<1>5. ASSUME NEW s \in Sessions, Publish(s)
      PROVE  Goal
  <2>1. /\ Issuing(sess[s]) /\ lookup' = lookup \cup {sess[s].key}
        /\ ctx' = [ctx EXCEPT ![sess[s].key] = sess[s].snapshot]
        /\ reqs' = reqs /\ revived' = revived
    BY <1>5, PublishFacts DEF history
  <2>2. status[sess[s].key] = "none"
    BY <1>0, <2>1 DEF Unissued
  <2>3. ASSUME NEW k \in Keys, status[k] # "none"
        PROVE  (OwnerGone(k) => OwnerGone(k)') /\ (ContextGone(k) => ContextGone(k)')
    <3>1. k # sess[s].key
      BY <2>2, <2>3
    <3>2. (k \in lookup' => k \in lookup) /\ ctx'[k] = ctx[k]
      BY <1>0, <2>1, <3>1
    <3> QED
      BY <2>1, <3>2 DEF OwnerGone, ContextGone
  <2> QED
    BY <2>1, <2>3
<1>6. ASSUME UNCHANGED <<lookup, ctx, revived>>, \A g \in Requests : Kept(reqs[g], reqs'[g])
      PROVE  Goal
  BY <1>1, <1>6
<1>7. ASSUME NEW s \in Sessions, Commit(s)
      PROVE  Goal
  BY <1>6, <1>7, Commits DEF Committed, Outdated, cache
<1>8. ASSUME NEW t \in Teams, SyncMovesUser(t)
      PROVE  Goal
  <2>1. UNCHANGED <<lookup, ctx, revived>> /\ OutdateRequests
    BY <1>8 DEF SyncMovesUser, Synced, cache
  <2>2. \A g \in Requests : Kept(reqs[g], reqs'[g])
    BY <1>0, <2>1, RequestsOutdated DEF Outdated
  <2> QED
    BY <1>6, <2>1, <2>2
<1>9. ASSUME NEW on \in BOOLEAN, SyncSetsActive(on)
      PROVE  Goal
  <2>1. UNCHANGED <<lookup, ctx, revived>>
    BY <1>9 DEF SyncSetsActive, Synced, cache
  <2>2. \A g \in Requests : reqs'[g].key = reqs[g].key /\ reqs'[g].at = reqs[g].at /\ reqs'[g].orphan = reqs[g].orphan
    BY <1>9, SwitchFacts
  <2>3. \A k \in Keys : (OwnerGone(k) => OwnerGone(k)') /\ (ContextGone(k) => ContextGone(k)')
    BY <2>1, <2>2 DEF OwnerGone, ContextGone
  <2> QED
    BY <2>1, <2>3
<1>10. ASSUME NEW k \in Keys, ExpireKey(k)
       PROVE  Goal
  BY <1>2, <1>10 DEF ExpireKey, cache, history
<1>11. ASSUME CacheOnly
       PROVE  Goal
  <2>1. Forgets /\ revived' = revived
    BY <1>11 DEF CacheOnly
  <2> QED
    BY <1>1, <2>1 DEF Forgets
<1>12. ASSUME NEW g \in Requests, NEW r, RequestOnly(g, r)
       PROVE  Goal
  <2>1. /\ reqs' = [reqs EXCEPT ![g] = r] /\ Asked(reqs[g], r) /\ RequestShape(r)
        /\ UNCHANGED <<lookup, ctx, revived>>
    BY <1>12 DEF RequestOnly, Asked, cache, history
  <2>2. reqs'[g] = r /\ \A h \in Requests \ {g} : reqs'[h] = reqs[h]
    BY <1>0, <2>1, RequestMoves
  <2>3. ASSUME NEW k \in Keys, OwnerGone(k)
        PROVE  OwnerGone(k)'
    <3>1. ASSUME r.key = k, r.at \in Past
          PROVE  k \in revived \/ r.orphan
      <4>1. Asks(reqs[g], r)
        BY <2>1, <3>1 DEF Asked, IdleRequest, Past
      <4>2. (reqs[g].at \in Past \/ (reqs[g].at = "lookup" /\ k \in lookup)) /\ reqs[g].key = k
             /\ r.orphan = reqs[g].orphan
        BY <3>1, <4>1 DEF Asks, Past
      <4> QED
        BY <2>3, <4>2 DEF OwnerGone
    <3>2. CASE k \in revived
      BY <2>1, <3>2 DEF OwnerGone
    <3>3. CASE k \notin revived
      <4>1. k \notin lookup /\ \A h \in Requests : reqs[h].key = k /\ reqs[h].at \in Past => reqs[h].orphan
        BY <2>3, <3>3 DEF OwnerGone
      <4>2. \A h \in Requests : reqs'[h].key = k /\ reqs'[h].at \in Past => reqs'[h].orphan
        BY <2>2, <3>1, <3>3, <4>1
      <4> QED
        BY <2>1, <4>1, <4>2 DEF OwnerGone
    <3> QED
      BY <3>2, <3>3
  <2>4. \A k \in Keys : ContextGone(k) => ContextGone(k)'
    BY <2>1 DEF ContextGone
  <2> QED
    BY <2>1, <2>3, <2>4
<1>13. ASSUME NEW g \in Requests, StoreContext(g)
       PROVE  Goal
  <2> DEFINE q == reqs[g]
             c == [team |-> q.team, models |-> q.models]
  <2>1. /\ q.at = "store" /\ ctx' = [ctx EXCEPT ![q.key] = c] /\ lookup' = lookup
        /\ revived' = (IF q.orphan THEN revived \cup {q.key} ELSE revived)
        /\ reqs'[g].at = "served" /\ \A h \in Requests \ {g} : reqs'[h] = reqs[h]
    BY <1>13, StoreFacts
  <2> HIDE DEF c
  <2>2. revived \subseteq revived'
    BY <2>1
  <2>3. ASSUME NEW k \in Keys, OwnerGone(k)
        PROVE  OwnerGone(k)'
    <3>1. "served" \notin Past
      BY DEF Past
    <3> QED
      BY <2>1, <2>2, <2>3, <3>1 DEF OwnerGone
  <2>4. ASSUME NEW k \in Keys, OwnerGone(k), ContextGone(k)
        PROVE  ContextGone(k)'
    <3>1. CASE k \in revived
      BY <2>2, <3>1 DEF ContextGone
    <3>2. CASE k \notin revived /\ k = q.key
      <4>1. q.orphan
        BY <2>1, <2>4, <3>2 DEF OwnerGone, Past
      <4> QED
        BY <2>1, <3>2, <4>1 DEF ContextGone
    <3>3. CASE k \notin revived /\ k # q.key
      BY <1>0, <2>1, <2>4, <3>3 DEF ContextGone
    <3> QED
      BY <3>1, <3>2, <3>3
  <2> QED
    BY <2>2, <2>3, <2>4
<1>14. CASE UNCHANGED vars
  BY <1>2, <1>14 DEF vars, cache, history
<1>15. CASE Next
  <2>1. Steps
    BY <1>15, NextSteps
  <2> QED
    BY <2>1, <1>3, <1>4, <1>5, <1>7, <1>8, <1>9, <1>10, <1>11, <1>12, <1>13 DEF Steps
<1> QED
  BY <1>14, <1>15

(* REVOKED is final, and only the commit of a revocation makes it. *)
LEMMA StatusFinal ==
  ASSUME KeysShape, KeysApart, [Next]_vars
  PROVE  \A k \in Keys :
           /\ status[k] = "REVOKED" => status'[k] = "REVOKED"
           /\ status'[k] = "REVOKED" =>
                \/ status[k] = "REVOKED"
                \/ \E s \in Sessions : /\ sess[s].op = "revoke" /\ k \in sess[s].keys
                                      /\ sess[s].todo = {} /\ Commit(s)
<1> DEFINE Goal == \A k \in Keys :
                     /\ status[k] = "REVOKED" => status'[k] = "REVOKED"
                     /\ status'[k] = "REVOKED" =>
                          \/ status[k] = "REVOKED"
                          \/ \E s \in Sessions : /\ sess[s].op = "revoke" /\ k \in sess[s].keys
                                                /\ sess[s].todo = {} /\ Commit(s)
<1>1. ASSUME NEW s \in Sessions, Commit(s)
      PROVE  Goal
  <2>1. StatusCommitted(sess[s]) /\ SessionShape(sess[s]) /\ sess[s].todo = {}
    BY <1>1, Commits DEF Committed, SessionShape
  <2>2. Unissued(s)
    BY DEF KeysApart
  <2>3. ASSUME NEW k \in Keys
        PROVE  /\ status[k] = "REVOKED" => status'[k] = "REVOKED"
               /\ status'[k] = "REVOKED" =>
                    status[k] = "REVOKED" \/ (sess[s].op = "revoke" /\ k \in sess[s].keys)
    <3>1. CASE Issuing(sess[s]) /\ k = sess[s].key
      <4>1. status[k] = "none" /\ status'[k] = "ACTIVE"
        BY <2>1, <2>2, <3>1 DEF StatusCommitted, Unissued
      <4> QED
        BY <4>1
    <3>2. CASE ~(Issuing(sess[s]) /\ k = sess[s].key)
      BY <2>1, <3>2 DEF StatusCommitted
    <3> QED
      BY <3>1, <3>2
  <2> QED
    BY <1>1, <2>1, <2>3
<1>2. ASSUME NEW k \in Keys, ExpireKey(k)
      PROVE  Goal
  <2>1. /\ status[k] = "ACTIVE" /\ status' = [status EXCEPT ![k] = "EXPIRED"]
        /\ status \in [Keys -> Statuses]
    BY <1>2 DEF ExpireKey, KeysShape, DatabaseShape
  <2>2. \A j \in Keys : status'[j] = "REVOKED" <=> status[j] = "REVOKED"
    BY <2>1
  <2> QED
    BY <2>2
<1>3. CASE UNCHANGED status
  BY <1>3
<1>4. CASE UNCHANGED vars
  BY <1>3, <1>4 DEF vars, database
<1>5. CASE Next
  <2>1. Steps
    BY <1>5, NextSteps
  <2>2. \/ \E s \in Sessions : Commit(s)
        \/ \E k \in Keys : ExpireKey(k)
        \/ UNCHANGED status
    <3>1. ASSUME NEW s \in Sessions, Publish(s)
          PROVE  UNCHANGED status
      BY <3>1 DEF Publish, database
    <3>2. ASSUME NEW g \in Requests, StoreContext(g)
          PROVE  UNCHANGED status
      BY <3>2 DEF StoreContext, database
    <3>3. ASSUME NEW t \in Teams, SyncMovesUser(t)
          PROVE  UNCHANGED status
      BY <3>3 DEF SyncMovesUser, Synced
    <3>4. ASSUME NEW on \in BOOLEAN, SyncSetsActive(on)
          PROVE  UNCHANGED status
      BY <3>4 DEF SyncSetsActive, Synced
    <3> QED
      BY <2>1, <3>1, <3>2, <3>3, <3>4 DEF Steps, SessionOnly, Deleted, CacheOnly, RequestOnly, database
  <2> QED
    BY <2>2, <1>1, <1>2, <1>3
<1> QED
  BY <1>4, <1>5

LEMMA RevocationInit == Init => Revocation
BY IdleFields DEF Init, Revocation, Revoking, Refusing, IdleRequest

(* What the steps of sessions and requests must show, given the two above. *)
LEMMA SessionsRevoke ==
  ASSUME KeysShape, KeysApart, Revocation, [Next]_vars,
         NEW p, NEW r, Revoking(p), RevokesIssued(p), SessionShape(p), OwnersFirst(p),
         r.op = "revoke" => p.op = "revoke" /\ r.keys = p.keys /\ r.todo = p.todo
  PROVE  r.op = "revoke" => \A k \in r.keys : /\ <<"lookup", k>> \in r.todo \/ OwnerGone(k)'
                                              /\ <<"ctx", k>> \in r.todo \/ ContextGone(k)'
<1> SUFFICES ASSUME r.op = "revoke", NEW k \in r.keys
             PROVE  /\ <<"lookup", k>> \in r.todo \/ OwnerGone(k)'
                    /\ <<"ctx", k>> \in r.todo \/ ContextGone(k)'
  OBVIOUS
<1>1. /\ k \in Keys /\ status[k] # "none"
      /\ <<"lookup", k>> \in p.todo \/ OwnerGone(k)
      /\ <<"ctx", k>> \in p.todo \/ ContextGone(k)
      /\ <<"lookup", k>> \in p.todo => <<"ctx", k>> \in p.todo
  BY DEF Revoking, RevokesIssued, SessionShape, SessionRecords, OwnersFirst
<1> QED
  BY <1>1, GoneStays

LEMMA DeletionRevokes ==
  ASSUME KeysShape, KeysApart, Revocation, [Next]_vars,
         NEW s \in Sessions, NEW r, NEW e \in sess[s].todo, Deleted(s, r, e)
  PROVE  r.op = "revoke" => \A k \in r.keys : /\ <<"lookup", k>> \in r.todo \/ OwnerGone(k)'
                                              /\ <<"ctx", k>> \in r.todo \/ ContextGone(k)'
<1> DEFINE p == sess[s]
<1> SUFFICES ASSUME r.op = "revoke", NEW k \in r.keys
             PROVE  /\ <<"lookup", k>> \in r.todo \/ OwnerGone(k)'
                    /\ <<"ctx", k>> \in r.todo \/ ContextGone(k)'
  OBVIOUS
<1>1. /\ SessionShape(p) /\ Revoking(p) /\ RevokesIssued(p) /\ OwnersFirst(p)
      /\ Requested /\ revived \subseteq Keys
  BY DEF KeysShape, CacheShape, Sessioned, KeysApart, Revocation
<1>2. p.op = "revoke" /\ r.keys = p.keys /\ r.todo = p.todo \ {e}
  BY DEF Deleted, Tick
<1>3. /\ k \in Keys /\ status[k] # "none"
      /\ <<"lookup", k>> \in p.todo \/ OwnerGone(k)
      /\ <<"ctx", k>> \in p.todo \/ ContextGone(k)
      /\ <<"lookup", k>> \in p.todo => <<"ctx", k>> \in p.todo
  BY <1>1, <1>2 DEF Revoking, RevokesIssued, SessionShape, SessionRecords, OwnersFirst
<1>4. e = <<"lookup", k>> => OwnerGone(k)'
  <2> SUFFICES ASSUME e = <<"lookup", k>> PROVE OwnerGone(k)'
    OBVIOUS
  <2>1. e[1] = "lookup" /\ e[2] = k
    OBVIOUS
  <2>2. CASE k \notin lookup' /\ OrphanRequests(k)
    <3>1. \A g \in Requests : reqs[g].key = k /\ reqs[g].at \notin {"ctx", "lookup"} => reqs'[g].orphan
      BY <1>1, <2>2, OrphansKept
    <3>2. \A g \in Requests : Kept(reqs[g], reqs'[g])
      BY <1>1, <2>2, OrphansKept
    <3>3. ASSUME NEW g \in Requests, reqs'[g].key = k, reqs'[g].at \in Past
          PROVE  reqs'[g].orphan
      <4>1. reqs[g].key = k /\ reqs[g].at \in Past
        BY <3>2, <3>3 DEF Kept
      <4> QED
        BY <3>1, <4>1 DEF Past
    <3> QED
      BY <2>2, <3>3 DEF OwnerGone
  <2>3. CASE revived' = IF p.op = "revoke" THEN revived \cup {k} ELSE revived
    BY <1>2, <2>3 DEF OwnerGone
  <2> QED
    BY <2>1, <2>2, <2>3 DEF Deleted
<1>5. e = <<"ctx", k>> => ContextGone(k)'
  <2> SUFFICES ASSUME e = <<"ctx", k>> PROVE ContextGone(k)'
    OBVIOUS
  <2>1. e[1] = "ctx" /\ e[2] = k
    OBVIOUS
  <2>2. ctx'[k] = NoCtx \/ k \in revived'
    BY <1>2, <2>1 DEF Deleted
  <2> QED
    BY <2>2 DEF ContextGone
<1> QED
  BY <1>2, <1>3, <1>4, <1>5, GoneStays

LEMMA SessionsStayRevoking ==
  ASSUME KeysShape, KeysApart, Revocation, [Next]_vars
  PROVE  \A t \in Sessions : Revoking(sess[t])'
<1> DEFINE Sound(r) == r.op = "revoke" => \A k \in r.keys : /\ <<"lookup", k>> \in r.todo \/ OwnerGone(k)'
                                                            /\ <<"ctx", k>> \in r.todo \/ ContextGone(k)'
           Goal == \A t \in Sessions : Sound(sess'[t])
<1>0. /\ Sessioned
      /\ \A t \in Sessions : /\ SessionShape(sess[t]) /\ Revoking(sess[t]) /\ RevokesIssued(sess[t])
                            /\ OwnersFirst(sess[t])
  BY DEF KeysShape, Sessioned, KeysApart, Revocation
<1>1. ASSUME NEW t \in Sessions, NEW r,
             r.op = "revoke" => sess[t].op = "revoke" /\ r.keys = sess[t].keys /\ r.todo = sess[t].todo
      PROVE  Sound(r)
  BY <1>0, <1>1, SessionsRevoke
<1>2. ASSUME NEW s \in Sessions, NEW r, Sound(r), sess' = [sess EXCEPT ![s] = r], SessionShape(r)
      PROVE  Goal
  <2>1. sess'[s] = r /\ \A t \in Sessions \ {s} : sess'[t] = sess[t]
    BY <1>0, <1>2, SessionMoves
  <2>2. \A t \in Sessions : Sound(sess[t])
    BY <1>1
  <2> HIDE DEF Sound
  <2>3. ASSUME NEW t \in Sessions
        PROVE  Sound(sess'[t])
    <3>1. CASE t = s
      BY <1>2, <2>1, <3>1
    <3>2. CASE t # s
      BY <2>1, <2>2, <3>2
    <3> QED
      BY <3>1, <3>2
  <2> QED
    BY <2>3
<1>3. ASSUME \A t \in Sessions : /\ sess'[t].op = sess[t].op /\ sess'[t].keys = sess[t].keys
                                 /\ sess'[t].todo = sess[t].todo
      PROVE  Goal
  <2>1. ASSUME NEW t \in Sessions
        PROVE  Sound(sess'[t])
    BY <1>1, <1>3
  <2> QED
    BY <2>1
<1>4. ASSUME NEW s \in Sessions, NEW r, SessionOnly(s, r)
      PROVE  Goal
  <2>1. /\ sess' = [sess EXCEPT ![s] = r] /\ SessionShape(r) /\ (Starts(r) \/ Advance(sess[s], r))
    BY <1>4 DEF SessionOnly
  <2>2. CASE Starts(r)
    <3>1. Sound(r)
      BY <2>2 DEF Starts
    <3> QED
      BY <1>2, <2>1, <3>1
  <2>3. CASE Advance(sess[s], r)
    <3>1. Sound(r)
      BY <1>1, <2>3 DEF Advance
    <3> QED
      BY <1>2, <2>1, <3>1
  <2> QED
    BY <2>1, <2>2, <2>3
<1>5. ASSUME NEW s \in Sessions, NEW r, NEW e \in sess[s].todo, Deleted(s, r, e)
      PROVE  Goal
  <2>1. Sound(r)
    BY <1>5, DeletionRevokes
  <2>2. sess' = [sess EXCEPT ![s] = r] /\ SessionShape(r)
    BY <1>5 DEF Deleted, Tick
  <2> QED
    BY <1>2, <2>1, <2>2
<1>6. ASSUME NEW s \in Sessions, Publish(s)
      PROVE  Goal
  <2> DEFINE p == sess[s]
             r == [p EXCEPT !.at = "commit"]
  <2>1. sess' = [sess EXCEPT ![s] = r] /\ SessionShape(r) /\ r.op = p.op /\ Issuing(p)
    BY <1>6, PublishFacts
  <2> HIDE DEF r
  <2>2. Sound(r)
    BY <2>1 DEF Issuing
  <2> QED
    BY <1>2, <2>1, <2>2
<1>7. ASSUME NEW s \in Sessions, Commit(s)
      PROVE  Goal
  <2>1. /\ \A t \in Sessions \ {s} : SessionOutdated(sess[t], sess'[t])
        /\ sess'[s].op # "revoke"
    BY <1>7, Commits, IdleFields DEF Committed
  <2>2. ASSUME NEW t \in Sessions
        PROVE  Sound(sess'[t])
    <3>1. CASE t = s
      BY <2>1, <3>1
    <3>2. CASE t # s
      <4>1. /\ sess'[t].op = sess[t].op /\ sess'[t].keys = sess[t].keys
            /\ sess'[t].todo = sess[t].todo
        BY <2>1, <3>2 DEF SessionOutdated
      <4> QED
        BY <1>1, <4>1
    <3> QED
      BY <3>1, <3>2
  <2> QED
    BY <2>2
<1>8. ASSUME Syncs("sync")
      PROVE  Goal
  <2>1. \A t \in Sessions : SessionOutdated(sess[t], sess'[t])
    BY <1>8 DEF Syncs
  <2> QED
    BY <1>3, <2>1 DEF SessionOutdated
<1>9. ASSUME NEW t \in Teams, SyncMovesUser(t)
      PROVE  Goal
  <2>1. Synced("sync") /\ userTeam' \in Teams /\ active' \in BOOLEAN
    BY <1>9 DEF SyncMovesUser, KeysShape, DatabaseShape
  <2> QED
    BY <1>8, <2>1, SyncFacts
<1>10. ASSUME NEW on \in BOOLEAN, SyncSetsActive(on)
       PROVE  Goal
  BY <1>8, <1>10, SwitchFacts
<1>11. ASSUME sess' = sess
       PROVE  Goal
  BY <1>3, <1>11
<1>12. ASSUME [Next]_vars
       PROVE  Goal
  <2>1. CASE UNCHANGED vars
    BY <1>11, <2>1 DEF vars
  <2>2. CASE Next
    <3>1. Steps
      BY <2>2, NextSteps
    <3>2. ASSUME NEW k \in Keys, ExpireKey(k)
          PROVE  Goal
      BY <1>11, <3>2 DEF ExpireKey
    <3>3. ASSUME NEW g \in Requests, StoreContext(g)
          PROVE  Goal
      BY <1>11, <3>3, StoreFacts
    <3>4. CacheOnly \/ (\E g \in Requests : \E r : RequestOnly(g, r)) => sess' = sess
      BY DEF CacheOnly, RequestOnly
    <3> QED
      BY <3>1, <3>2, <3>3, <3>4, <1>4, <1>5, <1>6, <1>7, <1>9, <1>10, <1>11 DEF Steps
  <2> QED
    BY <1>12, <2>1, <2>2
<1> QED
  BY <1>12 DEF Revoking

LEMMA KeysStayGone ==
  ASSUME KeysShape, KeysApart, Revocation, [Next]_vars
  PROVE  \A k \in Keys : status'[k] = "REVOKED" => OwnerGone(k)' /\ ContextGone(k)'
<1> SUFFICES ASSUME NEW k \in Keys, status'[k] = "REVOKED"
             PROVE  OwnerGone(k)' /\ ContextGone(k)'
  OBVIOUS
<1>1. CASE status[k] = "REVOKED"
  <2>1. OwnerGone(k) /\ ContextGone(k) /\ status[k] # "none"
    BY <1>1 DEF Revocation
  <2> QED
    BY <2>1, GoneStays
<1>2. ASSUME NEW s \in Sessions, sess[s].op = "revoke", k \in sess[s].keys, sess[s].todo = {}
      PROVE  OwnerGone(k)' /\ ContextGone(k)'
  <2>1. Revoking(sess[s]) /\ RevokesIssued(sess[s])
    BY DEF Revocation, KeysApart
  <2>2. OwnerGone(k) /\ ContextGone(k) /\ status[k] # "none"
    BY <1>2, <2>1 DEF Revoking, RevokesIssued
  <2> QED
    BY <2>2, GoneStays
<1> QED
  BY <1>1, <1>2, StatusFinal

LEMMA RequestsStayRefusing ==
  ASSUME KeysShape, KeysApart, Revocation, [Next]_vars
  PROVE  \A g \in Requests : Refusing(reqs[g])'
<1> DEFINE Goal == \A g \in Requests : Refusing(reqs[g])'
<1>0. /\ Requested
      /\ \A g \in Requests : RequestShape(reqs[g]) /\ Refusing(reqs[g]) /\ (reqs[g].at # "idle" => reqs[g].key \in Keys)
  BY DEF KeysShape, Requested, RequestShape, Revocation
<1>1. /\ revived \subseteq revived'
      /\ \A k \in Keys : status[k] = "REVOKED" => status'[k] = "REVOKED"
  BY GoneStays, StatusFinal
<1>2. ASSUME NEW g \in Requests, Kept(reqs[g], reqs'[g]) \/ reqs'[g] = IdleRequest
      PROVE  Refusing(reqs[g])'
  <2>1. CASE reqs'[g] = IdleRequest
    BY <2>1 DEF Refusing, IdleRequest
  <2>2. CASE Kept(reqs[g], reqs'[g])
    <3>1. reqs'[g].at = reqs[g].at /\ reqs'[g].key = reqs[g].key /\ reqs'[g].revoked = reqs[g].revoked
      BY <2>2 DEF Kept
    <3>2. reqs[g].at \in Past \cup {"recheck", "served"} => reqs[g].at # "idle"
      BY DEF Past
    <3> QED
      BY <1>0, <1>1, <3>1, <3>2 DEF Refusing
  <2> QED
    BY <1>2, <2>1, <2>2
<1>3. ASSUME reqs' = reqs
      PROVE  Goal
  BY <1>0, <1>2, <1>3, KeptItself
<1>4. ASSUME \A g \in Requests : Outdated(reqs[g], reqs'[g])
      PROVE  Goal
  BY <1>2, <1>4 DEF Outdated
<1>5. ASSUME NEW s \in Sessions, NEW r, NEW e \in sess[s].todo, Deleted(s, r, e)
      PROVE  Goal
  <2>1. Forgets \/ reqs' = reqs
    BY <1>5 DEF Deleted
  <2> QED
    BY <1>2, <1>3, <2>1 DEF Forgets
<1>6. ASSUME NEW s \in Sessions, Publish(s)
      PROVE  Goal
  BY <1>3, <1>6, PublishFacts
<1>7. ASSUME NEW s \in Sessions, Commit(s)
      PROVE  Goal
  BY <1>4, <1>7, Commits DEF Committed
<1>8. ASSUME NEW t \in Teams, SyncMovesUser(t)
      PROVE  Goal
  BY <1>0, <1>4, <1>8, RequestsOutdated DEF SyncMovesUser
<1>9. ASSUME NEW on \in BOOLEAN, SyncSetsActive(on)
      PROVE  Goal
  <2>1. /\ \A g \in Requests : LET q == reqs[g] o == reqs'[g] IN
              o.at = q.at /\ o.key = q.key /\ o.revoked = q.revoked
    BY <1>9, SwitchFacts
  <2>2. ASSUME NEW g \in Requests
        PROVE  Refusing(reqs[g])'
    <3>1. reqs[g].at \in Past \cup {"recheck", "served"} => reqs[g].at # "idle"
      BY DEF Past
    <3> QED
      BY <1>0, <1>1, <2>1, <3>1 DEF Refusing
  <2> QED
    BY <2>2
<1>10. ASSUME NEW g \in Requests, NEW r, RequestOnly(g, r)
       PROVE  Goal
  <2>1. /\ reqs' = [reqs EXCEPT ![g] = r] /\ Asked(reqs[g], r) /\ RequestShape(r)
        /\ status' = status /\ revived' = revived
    BY <1>10 DEF RequestOnly, Asked, database, history
  <2>2. reqs'[g] = r /\ \A h \in Requests \ {g} : reqs'[h] = reqs[h]
    BY <1>0, <2>1, RequestMoves
  <2>3. Refusing(r)
    <3>1. CASE r = IdleRequest
      BY <3>1 DEF Refusing, IdleRequest
    <3>2. CASE r.at = "ctx" /\ r.revoked = (status[r.key] = "REVOKED")
      BY <3>2 DEF Refusing, Past
    <3>3. CASE Asks(reqs[g], r)
      <4> SUFFICES ASSUME r.revoked PROVE Refusing(r)
        BY DEF Refusing
      <4>1. r.key = reqs[g].key /\ reqs[g].revoked /\ reqs[g].at # "idle" /\ r.key \in Keys
        BY <1>0, <3>3 DEF Asks
      <4>2. status[r.key] = "REVOKED" /\ OwnerGone(r.key) /\ ContextGone(r.key)
        BY <1>0, <4>1 DEF Refusing, Revocation
      <4>3. /\ reqs[g].at \in Past \cup {"recheck", "served"} => r.key \in revived
            /\ ctx[r.key] # NoCtx => r.key \in revived
            /\ r.key \in lookup => r.key \in revived
        BY <1>0, <4>1, <4>2 DEF Refusing, OwnerGone, ContextGone
      <4> QED
        BY <3>3, <4>1, <4>2, <4>3 DEF Refusing, Asks, Past
    <3> QED
      BY <2>1, <3>1, <3>2, <3>3 DEF Asked
  <2> QED
    BY <1>0, <2>1, <2>2, <2>3 DEF Refusing
<1>11. ASSUME NEW g \in Requests, StoreContext(g)
       PROVE  Goal
  <2>1. /\ reqs[g].at = "store" /\ reqs'[g].at = "served" /\ reqs'[g].key = reqs[g].key
        /\ reqs'[g].revoked = reqs[g].revoked /\ \A h \in Requests \ {g} : reqs'[h] = reqs[h]
    BY <1>11, StoreFacts
  <2>2. Refusing(reqs[g])'
    BY <1>0, <1>1, <2>1 DEF Refusing, Past
  <2>3. ASSUME NEW h \in Requests \ {g}
        PROVE  Refusing(reqs[h])'
    BY <1>0, <1>2, <2>1, KeptItself
  <2> QED
    BY <2>2, <2>3
<1>12. ASSUME [Next]_vars
       PROVE  Goal
  <2>1. CASE UNCHANGED vars
    BY <1>3, <2>1 DEF vars
  <2>2. CASE Next
    <3>1. Steps
      BY <2>2, NextSteps
    <3>2. ASSUME NEW k \in Keys, ExpireKey(k)
          PROVE  Goal
      BY <1>3, <3>2 DEF ExpireKey
    <3>3. (\E s \in Sessions : \E r : SessionOnly(s, r)) => reqs' = reqs
      BY DEF SessionOnly
    <3>4. CASE CacheOnly
      BY <1>2, <3>4 DEF CacheOnly, Forgets
    <3> QED
      BY <3>1, <3>2, <3>3, <3>4, <1>3, <1>5, <1>6, <1>7, <1>8, <1>9, <1>10, <1>11 DEF Steps
  <2> QED
    BY <1>12, <2>1, <2>2
<1> QED
  BY <1>12

LEMMA RevocationNext == KeysShape /\ KeysApart /\ Revocation /\ [Next]_vars => Revocation'
BY SessionsStayRevoking, KeysStayGone, RequestsStayRefusing DEF Revocation

-----------------------------------------------------------------------------
(* The types of the module's state, whatever the constants. *)
THEOREM KeysWellTyped == Spec => []KeysTypeOK
<1>1. KeysShape => KeysTypeOK
  BY DEF KeysShape, DatabaseShape, CacheShape, KeysTypeOK, Lists
<1> QED
  BY <1>1, ShapeInit, ShapeNext, PTL DEF Spec

(* Who is gone is refused: a request that begins while the user is          *)
(* deactivated is not served unless the account is active again or the      *)
(* database out of reach (VKAuthStrategy.authenticate re-checks a cached    *)
(* AuthContext); and a key whose revocation was committed before is served  *)
(* only if a deletion failed or a request that had already found the owner  *)
(* filled the cache again (revoke_key).                                     *)
THEOREM GoneAreRefusedAlways == Spec => []GoneAreRefused
<1> DEFINE GoneInv == KeysShape /\ KeysApart /\ Screening /\ Revocation
<1>1. Init => GoneInv
  BY ShapeInit, ApartInit, ScreeningInit, RevocationInit
<1>2. GoneInv /\ [Next]_vars => GoneInv'
  BY ShapeNext, ApartNext, ScreeningNext, RevocationNext
<1>3. GoneInv => GoneAreRefused
  BY DEF Screening, Screened, Revocation, Refusing, GoneAreRefused, DeactivatedIsRefused,
     RevokedServedHasCause
<1> QED
  BY <1>1, <1>2, <1>3, PTL DEF Spec

-----------------------------------------------------------------------------
(* Fourth layer: what explains an AuthContext that is out of date. *)
SameTruth == UNCHANGED <<userTeam, override, policy>>

LEMMA TruthStays == SameTruth => Truth' = Truth
BY DEF SameTruth, Truth, Effective

LEMMA ExplanationInit == Init => Explanation
<1> SUFFICES ASSUME Init PROVE Explanation
  OBVIOUS
<1>1. \A k \in Keys : ctx[k] \in {NoCtx, Truth}
  BY DEF Init
<1>2. \A k \in Keys : Explained(k)
  BY <1>1 DEF Explained
<1>3. \A s \in Sessions : UpToDate(sess[s]) /\ Published(sess[s])
  BY IdleFields DEF Init, UpToDate, Published, Issuing
<1>4. \A g \in Requests : Current(reqs[g])
  BY DEF Init, Current, IdleRequest
<1> QED
  BY <1>2, <1>3, <1>4 DEF Explanation

(* A session's snapshot. *)
LEMMA SnapshotStays ==
  ASSUME KeysShape, Explanation, [Next]_vars
  PROVE  \A t \in Sessions : UpToDate(sess[t])'
<1> DEFINE Goal == \A t \in Sessions : UpToDate(sess[t])'
<1>0. Sessioned /\ \A t \in Sessions : SessionShape(sess[t]) /\ UpToDate(sess[t])
  BY DEF KeysShape, Sessioned, Explanation
<1>1. ASSUME NEW s \in Sessions, NEW r, UpToDate(r), SessionShape(r), sess' = [sess EXCEPT ![s] = r], SameTruth
      PROVE  Goal
  <2>1. sess'[s] = r /\ \A t \in Sessions \ {s} : sess'[t] = sess[t]
    BY <1>0, <1>1, SessionMoves
  <2>2. ASSUME NEW t \in Sessions
        PROVE  UpToDate(sess[t])'
    <3>1. UpToDate(sess'[t])
      BY <1>0, <1>1, <2>1
    <3> QED
      BY <1>1, <3>1 DEF UpToDate, Issuing, SameTruth
  <2> QED
    BY <2>2
<1>2. ASSUME sess' = sess, SameTruth
      PROVE  Goal
  BY <1>0, <1>2 DEF UpToDate, Issuing, SameTruth
<1>3. ASSUME NEW t \in Sessions, SessionOutdated(sess[t], sess'[t])
      PROVE  UpToDate(sess[t])'
  <2>1. /\ sess'[t].op = sess[t].op /\ sess'[t].at = sess[t].at /\ sess'[t].from = sess[t].from
        /\ sess'[t].team = sess[t].team /\ sess'[t].snapshot = sess[t].snapshot
        /\ sess'[t].outdated = (sess[t].outdated
                               \/ (/\ <<userTeam, override, policy>>' # <<userTeam, override, policy>>
                                   /\ sess[t].at # "idle"))
    BY <1>3 DEF SessionOutdated
  <2>2. Issuing(sess[t]) => sess[t].at # "idle"
    BY <1>0 DEF SessionShape, Issuing
  <2>3. CASE SameTruth
    BY <1>0, <2>1, <2>3 DEF UpToDate, Issuing, SameTruth
  <2>4. CASE ~SameTruth
    BY <2>1, <2>2, <2>4 DEF UpToDate, Issuing, SameTruth
  <2> QED
    BY <2>3, <2>4
<1>4. ASSUME NEW s \in Sessions, NEW r, SessionOnly(s, r)
      PROVE  Goal
  <2>1. /\ sess' = [sess EXCEPT ![s] = r] /\ SessionShape(r) /\ (Starts(r) \/ Advance(sess[s], r)) /\ SameTruth
    BY <1>4 DEF SessionOnly, database, SameTruth
  <2>2. UpToDate(r)
    <3>1. CASE Starts(r)
      BY <3>1 DEF Starts, UpToDate
    <3>2. CASE Advance(sess[s], r)
      BY <1>0, <3>2 DEF Advance, UpToDate, Issuing
    <3> QED
      BY <2>1, <3>1, <3>2
  <2> QED
    BY <1>1, <2>1, <2>2
<1>5. ASSUME NEW s \in Sessions, NEW r, NEW e \in sess[s].todo, Deleted(s, r, e)
      PROVE  Goal
  <2>1. sess' = [sess EXCEPT ![s] = r] /\ SessionShape(r) /\ Tick(sess[s], r, e) /\ SameTruth
    BY <1>5 DEF Deleted, Tick, database, SameTruth
  <2>2. UpToDate(r)
    BY <1>0, <2>1 DEF Tick, UpToDate, Issuing
  <2> QED
    BY <1>1, <2>1, <2>2
<1>6. ASSUME NEW s \in Sessions, Publish(s)
      PROVE  Goal
  <2> DEFINE p == sess[s]
             r == [p EXCEPT !.at = "commit"]
  <2>1. /\ p.at = "publish" /\ sess' = [sess EXCEPT ![s] = r] /\ SessionShape(r) /\ r.op = p.op /\ r.at = "commit"
        /\ r.from = p.from /\ r.team = p.team /\ r.snapshot = p.snapshot /\ r.outdated = p.outdated
        /\ SameTruth
    BY <1>6, PublishFacts DEF database, SameTruth
  <2> HIDE DEF r
  <2>2. UpToDate(r)
    BY <1>0, <2>1 DEF UpToDate, Issuing
  <2> QED
    BY <1>1, <2>1, <2>2
<1>7. ASSUME NEW s \in Sessions, Commit(s)
      PROVE  Goal
  <2>1. /\ \A t \in Sessions \ {s} : SessionOutdated(sess[t], sess'[t])
        /\ sess'[s].op \in {"none", "user policy"}
    BY <1>7, Commits, IdleFields DEF Committed
  <2>2. UpToDate(sess[s])'
    BY <2>1 DEF UpToDate, Issuing
  <2> QED
    BY <1>3, <2>1, <2>2
<1>8. ASSUME Syncs("sync")
      PROVE  Goal
  BY <1>3, <1>8 DEF Syncs
<1>9. ASSUME NEW t \in Teams, SyncMovesUser(t)
      PROVE  Goal
  <2>1. Synced("sync") /\ userTeam' \in Teams /\ active' \in BOOLEAN
    BY <1>9 DEF SyncMovesUser, KeysShape, DatabaseShape
  <2> QED
    BY <1>8, <2>1, SyncFacts
<1>10. ASSUME NEW on \in BOOLEAN, SyncSetsActive(on)
       PROVE  Goal
  BY <1>8, <1>10, SwitchFacts
<1>11. CASE UNCHANGED vars
  BY <1>2, <1>11 DEF vars, database, SameTruth
<1>12. CASE Next
  <2>1. Steps
    BY <1>12, NextSteps
  <2>2. ASSUME NEW k \in Keys, ExpireKey(k)
        PROVE  Goal
    BY <1>2, <2>2 DEF ExpireKey, SameTruth
  <2>3. ASSUME NEW g \in Requests, StoreContext(g)
        PROVE  Goal
    BY <1>2, <2>3, StoreFacts DEF database, SameTruth
  <2>4. CacheOnly \/ (\E g \in Requests : \E r : RequestOnly(g, r)) => sess' = sess /\ SameTruth
    BY DEF CacheOnly, RequestOnly, database, SameTruth
  <2> QED
    BY <2>1, <2>2, <2>3, <2>4, <1>2, <1>4, <1>5, <1>6, <1>7, <1>9, <1>10 DEF Steps
<1> QED
  BY <1>11, <1>12

(* What an issue has published stands until its commit, or is deleted. *)
LEMMA PublicationStays ==
  ASSUME KeysShape, KeysApart, Explanation, [Next]_vars
  PROVE  \A t \in Sessions : Published(sess[t])'
<1> DEFINE Goal == \A t \in Sessions : Published(sess[t])'
           Stands(k) == ctx'[k] = NoCtx \/ ctx'[k] = ctx[k]
<1>0. /\ Sessioned /\ ctx \in [Keys -> Contexts \cup {NoCtx}]
      /\ \A t \in Sessions : SessionShape(sess[t]) /\ Published(sess[t]) /\ Unissued(t)
      /\ \A t \in Sessions : Issuing(sess[t]) => sess[t].key \in Keys
  BY DEF KeysShape, CacheShape, Sessioned, SessionShape, Explanation, KeysApart
<1>1. ASSUME NEW t \in Sessions, Issuing(sess[t]) => Stands(sess[t].key),
             sess'[t].op = sess[t].op, sess'[t].at = sess[t].at, sess'[t].key = sess[t].key,
             sess'[t].snapshot = sess[t].snapshot
      PROVE  Published(sess[t])'
  BY <1>0, <1>1 DEF Published, Issuing
<1>2. ASSUME NEW s \in Sessions, NEW r, SessionShape(r), sess' = [sess EXCEPT ![s] = r],
             r.at = "commit" => ~Issuing(r), \A k \in Keys : Stands(k)
      PROVE  Goal
  <2>1. sess'[s] = r /\ \A t \in Sessions \ {s} : sess'[t] = sess[t]
    BY <1>0, <1>2, SessionMoves
  <2>2. Published(sess[s])'
    BY <1>2, <2>1 DEF Published, Issuing
  <2>3. ASSUME NEW t \in Sessions \ {s}
        PROVE  Published(sess[t])'
    BY <1>0, <1>1, <1>2, <2>1
  <2> QED
    BY <2>2, <2>3
<1>3. ASSUME NEW s \in Sessions, NEW r, SessionOnly(s, r)
      PROVE  Goal
  <2>1. /\ sess' = [sess EXCEPT ![s] = r] /\ SessionShape(r) /\ (Starts(r) \/ Advance(sess[s], r))
        /\ ctx' = ctx
    BY <1>3 DEF SessionOnly
  <2>2. r.at = "commit" => ~Issuing(r)
    BY <2>1 DEF Starts, Advance
  <2> QED
    BY <1>2, <2>1, <2>2
<1>4. ASSUME NEW s \in Sessions, NEW r, NEW e \in sess[s].todo, Deleted(s, r, e)
      PROVE  Goal
  <2>1. sess' = [sess EXCEPT ![s] = r] /\ SessionShape(r) /\ (r.at = "commit" => ~Issuing(r))
    BY <1>4 DEF Deleted, Tick
  <2>2. \A k \in Keys : Stands(k)
    BY <1>4 DEF Deleted, Forgets
  <2> QED
    BY <1>2, <2>1, <2>2
<1>5. ASSUME NEW s \in Sessions, Publish(s)
      PROVE  Goal
  <2> DEFINE p == sess[s]
             r == [p EXCEPT !.at = "commit"]
  <2>1. /\ sess' = [sess EXCEPT ![s] = r] /\ SessionShape(r) /\ r.op = p.op /\ r.key = p.key
        /\ r.snapshot = p.snapshot /\ p.key \in Keys /\ ctx' = [ctx EXCEPT ![p.key] = p.snapshot]
        /\ Issuing(p)
    BY <1>5, PublishFacts
  <2> HIDE DEF r
  <2>2. sess'[s] = r /\ \A t \in Sessions \ {s} : sess'[t] = sess[t]
    BY <1>0, <2>1, SessionMoves
  <2>3. Published(sess[s])'
    BY <1>0, <2>1, <2>2 DEF Published, Issuing
  <2>4. ASSUME NEW t \in Sessions \ {s}
        PROVE  Published(sess[t])'
    <3>1. Issuing(sess[t]) => sess[t].key # p.key
      BY <1>0 DEF Unissued
    <3>2. Issuing(sess[t]) => Stands(sess[t].key)
      BY <1>0, <2>1, <3>1
    <3> QED
      BY <1>1, <2>2, <3>2
  <2> QED
    BY <2>3, <2>4
<1>6. ASSUME NEW t \in Sessions, SessionOutdated(sess[t], sess'[t]), ctx' = ctx
      PROVE  Published(sess[t])'
  <2>1. /\ sess'[t].op = sess[t].op /\ sess'[t].at = sess[t].at /\ sess'[t].key = sess[t].key
        /\ sess'[t].snapshot = sess[t].snapshot
    BY <1>6 DEF SessionOutdated
  <2> QED
    BY <1>1, <1>6, <2>1
<1>7. ASSUME NEW s \in Sessions, Commit(s)
      PROVE  Goal
  <2>1. /\ \A t \in Sessions \ {s} : SessionOutdated(sess[t], sess'[t])
        /\ sess'[s].op \in {"none", "user policy"} /\ ctx' = ctx
    BY <1>7, Commits, IdleFields DEF Committed, cache
  <2>2. Published(sess[s])'
    BY <2>1 DEF Published, Issuing
  <2> QED
    BY <1>6, <2>1, <2>2
<1>8. ASSUME Syncs("sync")
      PROVE  Goal
  BY <1>6, <1>8 DEF Syncs, cache
<1>9. ASSUME NEW t \in Teams, SyncMovesUser(t)
      PROVE  Goal
  <2>1. Synced("sync") /\ userTeam' \in Teams /\ active' \in BOOLEAN
    BY <1>9 DEF SyncMovesUser, KeysShape, DatabaseShape
  <2> QED
    BY <1>8, <2>1, SyncFacts
<1>10. ASSUME NEW on \in BOOLEAN, SyncSetsActive(on)
       PROVE  Goal
  BY <1>8, <1>10, SwitchFacts
<1>11. ASSUME sess' = sess, \A k \in Keys : Stands(k)
       PROVE  Goal
  BY <1>0, <1>1, <1>11
<1>12. ASSUME NEW g \in Requests, StoreContext(g)
       PROVE  Goal
  <2> DEFINE q == reqs[g]
             c == [team |-> q.team, models |-> q.models]
  <2>1. q.at = "store" /\ ctx' = [ctx EXCEPT ![q.key] = c] /\ sess' = sess
    BY <1>12, StoreFacts
  <2>2. status[q.key] # "none"
    BY <2>1 DEF KeysApart, Held
  <2>3. ASSUME NEW t \in Sessions
        PROVE  Published(sess[t])'
    <3>1. Issuing(sess[t]) => sess[t].key # q.key
      BY <1>0, <2>2 DEF Unissued
    <3>2. Issuing(sess[t]) => Stands(sess[t].key)
      BY <1>0, <2>1, <3>1
    <3> QED
      BY <1>1, <2>1, <3>2
  <2> QED
    BY <2>3
<1>13. CASE UNCHANGED vars
  BY <1>11, <1>13 DEF vars, cache
<1>14. CASE Next
  <2>1. Steps
    BY <1>14, NextSteps
  <2>2. ASSUME NEW k \in Keys, ExpireKey(k)
        PROVE  Goal
    BY <1>11, <2>2 DEF ExpireKey, cache
  <2>3. CASE CacheOnly
    BY <1>11, <2>3 DEF CacheOnly, Forgets
  <2>4. CASE \E g \in Requests : \E r : RequestOnly(g, r)
    BY <1>11, <2>4 DEF RequestOnly, cache
  <2> QED
    BY <2>1, <2>2, <2>3, <2>4, <1>3, <1>4, <1>5, <1>7, <1>9, <1>10, <1>12 DEF Steps
<1> QED
  BY <1>13, <1>14

(* What a request has read. *)
LEMMA ReadingStays ==
  ASSUME KeysShape, Explanation, [Next]_vars
  PROVE  \A g \in Requests : Current(reqs[g])'
<1> DEFINE Goal == \A g \in Requests : Current(reqs[g])'
<1>0. Requested /\ \A g \in Requests : RequestShape(reqs[g]) /\ Current(reqs[g])
  BY DEF KeysShape, Requested, Explanation
<1>1. ASSUME SameTruth, NEW g \in Requests, Kept(reqs[g], reqs'[g]) \/ reqs'[g] = IdleRequest
      PROVE  Current(reqs[g])'
  <2>1. CASE reqs'[g] = IdleRequest
    BY <2>1 DEF Current, IdleRequest
  <2>2. CASE Kept(reqs[g], reqs'[g])
    <3>1. /\ reqs'[g].at = reqs[g].at /\ reqs'[g].team = reqs[g].team /\ reqs'[g].models = reqs[g].models
          /\ (reqs[g].outdated => reqs'[g].outdated)
      BY <2>2 DEF Kept
    <3> QED
      BY <1>0, <1>1, <3>1 DEF Current, Effective, SameTruth
  <2> QED
    BY <1>1, <2>1, <2>2
<1>2. ASSUME SameTruth, reqs' = reqs
      PROVE  Goal
  BY <1>0, <1>1, <1>2, KeptItself
<1>3. ASSUME \A g \in Requests : Outdated(reqs[g], reqs'[g])
      PROVE  Goal
  <2>1. CASE SameTruth
    BY <1>1, <1>3, <2>1 DEF Outdated
  <2>2. CASE ~SameTruth
    <3>1. ASSUME NEW g \in Requests
          PROVE  Current(reqs[g])'
      <4>1. reqs'[g].at = reqs[g].at
        BY <1>3 DEF Outdated, Kept
      <4>2. reqs'[g].outdated = (reqs[g].outdated
                                 \/ (/\ <<userTeam, override, policy>>' # <<userTeam, override, policy>>
                                     /\ reqs[g].at \notin {"idle", "ctx"}))
        BY <1>3 DEF Outdated
      <4> QED
        BY <2>2, <4>1, <4>2 DEF Current, SameTruth
    <3> QED
      BY <3>1
  <2> QED
    BY <2>1, <2>2
<1>4. ASSUME NEW s \in Sessions, NEW r, NEW e \in sess[s].todo, Deleted(s, r, e)
      PROVE  Goal
  <2>1. (Forgets \/ reqs' = reqs) /\ SameTruth
    BY <1>4 DEF Deleted, database, SameTruth
  <2> QED
    BY <1>1, <1>2, <2>1 DEF Forgets
<1>5. ASSUME NEW s \in Sessions, Publish(s)
      PROVE  Goal
  BY <1>2, <1>5, PublishFacts DEF database, SameTruth
<1>6. ASSUME NEW s \in Sessions, Commit(s)
      PROVE  Goal
  BY <1>3, <1>6, Commits DEF Committed
<1>7. ASSUME NEW t \in Teams, SyncMovesUser(t)
      PROVE  Goal
  BY <1>0, <1>3, <1>7, RequestsOutdated DEF SyncMovesUser
<1>8. ASSUME NEW on \in BOOLEAN, SyncSetsActive(on)
      PROVE  Goal
  <2>1. SameTruth
    BY <1>8 DEF SyncSetsActive, Synced, SameTruth
  <2>2. \A g \in Requests : LET q == reqs[g] o == reqs'[g] IN
          o.at = q.at /\ o.team = q.team /\ o.models = q.models /\ o.outdated = q.outdated
    BY <1>8, SwitchFacts
  <2>3. ASSUME NEW g \in Requests
        PROVE  Current(reqs[g])'
    BY <1>0, <2>1, <2>2 DEF Current, Effective, SameTruth
  <2> QED
    BY <2>3
<1>9. ASSUME NEW g \in Requests, NEW r, RequestOnly(g, r)
      PROVE  Goal
  <2>1. /\ reqs' = [reqs EXCEPT ![g] = r] /\ Asked(reqs[g], r) /\ RequestShape(r) /\ SameTruth
    BY <1>9 DEF RequestOnly, Asked, database, SameTruth
  <2>2. reqs'[g] = r /\ \A h \in Requests \ {g} : reqs'[h] = reqs[h]
    BY <1>0, <2>1, RequestMoves
  <2>3. Current(r)
    <3>1. CASE r = IdleRequest
      BY <3>1 DEF Current, IdleRequest
    <3>2. CASE r.at = "ctx"
      BY <3>2 DEF Current
    <3>3. CASE Asks(reqs[g], r)
      <4>1. Current(reqs[g])
        BY <1>0
      <4>2. CASE r.at \in {"lookup", "recheck", "served", "user"}
        BY <4>2 DEF Current
      <4>3. CASE r.at = "override"
        BY <3>3, <4>3 DEF Asks, Current
      <4>4. CASE reqs[g].at = "override" /\ r.at \in {"policy", "store"}
        BY <3>3, <4>1, <4>4 DEF Asks, Current, Effective
      <4>5. CASE reqs[g].at = "policy" /\ r.at = "store"
        BY <3>3, <4>1, <4>5 DEF Asks, Current, Effective
      <4> QED
        BY <3>3, <4>2, <4>3, <4>4, <4>5 DEF Asks
    <3> QED
      BY <2>1, <3>1, <3>2, <3>3 DEF Asked
  <2>4. ASSUME NEW h \in Requests
        PROVE  Current(reqs[h])'
    <3>1. Current(reqs'[h])
      BY <1>0, <2>2, <2>3
    <3> QED
      BY <2>1, <3>1 DEF Current, Effective, SameTruth
  <2> QED
    BY <2>4
<1>10. ASSUME NEW g \in Requests, StoreContext(g)
       PROVE  Goal
  <2>1. /\ reqs'[g].at = "served" /\ SameTruth /\ \A h \in Requests \ {g} : reqs'[h] = reqs[h]
    BY <1>10, StoreFacts DEF database, SameTruth
  <2>2. Current(reqs[g])'
    BY <2>1 DEF Current
  <2>3. \A h \in Requests \ {g} : Current(reqs[h])'
    BY <1>0, <1>1, <2>1, KeptItself
  <2> QED
    BY <2>2, <2>3
<1>11. CASE UNCHANGED vars
  BY <1>2, <1>11 DEF vars, database, SameTruth
<1>12. CASE Next
  <2>1. Steps
    BY <1>12, NextSteps
  <2>2. ASSUME NEW k \in Keys, ExpireKey(k)
        PROVE  Goal
    BY <1>2, <2>2 DEF ExpireKey, SameTruth
  <2>3. CASE \E s \in Sessions : \E r : SessionOnly(s, r)
    BY <1>2, <2>3 DEF SessionOnly, database, SameTruth
  <2>4. CASE CacheOnly
    BY <1>1, <2>4 DEF CacheOnly, Forgets, database, SameTruth
  <2> QED
    BY <2>1, <2>2, <2>3, <2>4, <1>4, <1>5, <1>6, <1>7, <1>8, <1>9, <1>10 DEF Steps
<1> QED
  BY <1>11, <1>12

(* A key whose AuthContext, causes and pending deletions are as they were.  *)
LEMMA StillExplained ==
  ASSUME NEW k \in Keys, Explained(k), SameTruth, status'[k] = "ACTIVE" => status[k] = "ACTIVE",
         \/ ctx'[k] = NoCtx
         \/ ctx'[k] = ctx[k] /\ (cause[k] # {} => cause'[k] # {})
              /\ \A s \in Sessions : Pending(sess[s], k) => Pending(sess'[s], k)
  PROVE  Explained(k)'
<1>1. Truth' = Truth
  BY TruthStays
<1>2. CASE ctx'[k] = NoCtx
  BY <1>2 DEF Explained
<1>3. CASE /\ ctx'[k] = ctx[k] /\ (cause[k] # {} => cause'[k] # {})
           /\ \A s \in Sessions : Pending(sess[s], k) => Pending(sess'[s], k)
  <2>1. \A s \in Sessions : Pending(sess[s], k) => Pending(sess[s], k)'
    BY <1>3 DEF Pending
  <2> QED
    BY <1>1, <1>3, <2>1 DEF Explained
<1> QED
  BY <1>2, <1>3

LEMMA CommitExplains ==
  ASSUME KeysShape, KeysApart, Explanation, NEW s \in Sessions, Commit(s), NEW k \in Keys
  PROVE  Explained(k)'
<1> DEFINE p == sess[s]
<1>1. /\ p.at = "commit" /\ SessionShape(p) /\ StatusCommitted(p) /\ ctx' = ctx
      /\ userTeam' = (IF p.op \in {"transfer", "exchange"} /\ p.team # p.from THEN p.team ELSE userTeam)
      /\ (p.op # "team policy" => policy' = policy) /\ (p.op # "user policy" => override' = override)
      /\ \A t \in Sessions \ {s} : SessionOutdated(sess[t], sess'[t])
      /\ (p.op = "user policy" => sess'[s].op = "user policy" /\ sess'[s].at = "list")
      /\ cause'[k] = IF ctx'[k] \in {NoCtx, Truth'} THEN {} ELSE cause[k] \cup Reason(s, k)
  BY Commits DEF Committed, OnRecord, cache
<1>2. UpToDate(p) /\ Published(p) /\ Explained(k)
  BY DEF Explanation
<1> SUFFICES ASSUME status'[k] = "ACTIVE", ctx'[k] \notin {NoCtx, Truth'}
             PROVE  cause'[k] # {} \/ \E t \in Sessions : Pending(sess[t], k)'
  BY DEF Explained
<1>3. cause'[k] = cause[k] \cup Reason(s, k)
  BY <1>1
<1>4. Issues(s) <=> Issuing(p)
  BY DEF Issues, Issuing
<1>5. CASE p.op = "user policy"
  <2>1. Pending(sess[s], k)'
    BY <1>1, <1>5 DEF Pending
  <2> QED
    BY <2>1
<1>6. CASE Issuing(p) /\ k = p.key
  <2>1. CASE override # Anything
    <3>1. "team snapshot" \in Reason(s, k)
      BY <1>4, <1>6, <2>1 DEF Reason
    <3> QED
      BY <1>3, <3>1
  <2>2. CASE p.outdated
    <3>1. "late fill" \in Reason(s, k)
      BY <1>4, <1>6, <2>2 DEF Reason
    <3> QED
      BY <1>3, <3>1
  <2>3. CASE override = Anything /\ ~p.outdated
    <3>1. /\ p.from = userTeam /\ (p.op = "issue" => p.team = userTeam)
          /\ p.snapshot = [team |-> p.team, models |-> policy[p.team]]
      BY <1>1, <1>2, <1>6, <2>3 DEF UpToDate
    <3>2. ctx'[k] = p.snapshot
      BY <1>1, <1>2, <1>6 DEF Published
    <3>3. userTeam' = p.team /\ override' = Anything /\ policy' = policy
      BY <1>1, <1>6, <2>3, <3>1 DEF Issuing
    <3>4. Truth' = [team |-> p.team, models |-> policy[p.team]]
      BY <3>3 DEF Truth, Effective
    <3> QED
      BY <3>1, <3>2, <3>4
  <2> QED
    BY <2>1, <2>2, <2>3
<1>7. CASE ~(Issuing(p) /\ k = p.key) /\ p.op \in {"transfer", "exchange", "team policy"}
  <2>1. Reason(s, k) = {IF k \in p.keys THEN "early delete" ELSE "not listed"}
    BY <1>4, <1>7 DEF Reason
  <2> QED
    BY <1>3, <2>1
<1>8. CASE ~(Issuing(p) /\ k = p.key) /\ p.op \in {"issue", "revoke"}
  <2>1. status[k] = "ACTIVE"
    BY <1>1, <1>8 DEF StatusCommitted
  <2>2. SameTruth
    BY <1>1, <1>8 DEF SameTruth
  <2>3. ctx[k] \notin {NoCtx, Truth}
    BY <1>1, <2>2, TruthStays
  <2>4. cause[k] # {} \/ \E t \in Sessions : Pending(sess[t], k)
    BY <1>2, <2>1, <2>3 DEF Explained
  <2>5. ASSUME NEW t \in Sessions, Pending(sess[t], k)
        PROVE  Pending(sess[t], k)'
    <3>1. t # s
      BY <1>8, <2>5 DEF Pending
    <3>2. sess'[t].op = sess[t].op /\ sess'[t].at = sess[t].at /\ sess'[t].todo = sess[t].todo
      BY <1>1, <3>1 DEF SessionOutdated
    <3> QED
      BY <2>5, <3>2 DEF Pending
  <2> QED
    BY <1>3, <2>4, <2>5
<1>9. p.op \in {"issue", "exchange", "transfer", "revoke", "team policy", "user policy"}
  BY <1>1 DEF SessionShape, SessionRecords
<1> QED
  BY <1>5, <1>6, <1>7, <1>8, <1>9

LEMMA ExplanationStays ==
  ASSUME KeysShape, KeysApart, Explanation, [Next]_vars
  PROVE  \A k \in Keys : Explained(k)'
<1> DEFINE Goal == \A k \in Keys : Explained(k)'
<1>0. /\ Sessioned /\ ctx \in [Keys -> Contexts \cup {NoCtx}] /\ cause = [k \in Keys |-> cause[k]]
      /\ status \in [Keys -> Statuses]
      /\ \A k \in Keys : Explained(k)
  BY DEF KeysShape, DatabaseShape, CacheShape, Caused, Explanation
<1>1. ASSUME SameTruth, sess' = sess, \A k \in Keys : status'[k] = "ACTIVE" => status[k] = "ACTIVE",
             \A k \in Keys : ctx'[k] = NoCtx \/ (ctx'[k] = ctx[k] /\ cause'[k] = cause[k])
      PROVE  Goal
  <2>1. \A k \in Keys, s \in Sessions : Pending(sess[s], k) => Pending(sess'[s], k)
    BY <1>1
  <2> QED
    BY <1>0, <1>1, <2>1, StillExplained
<1>2. ASSUME SameTruth, sess' = sess, status' = status, ctx' = ctx, cause' = cause
      PROVE  Goal
  BY <1>1, <1>2
<1>3. ASSUME NEW s \in Sessions, NEW r, SessionOnly(s, r)
      PROVE  Goal
  <2>1. /\ sess' = [sess EXCEPT ![s] = r] /\ SessionShape(r)
        /\ (Starts(r) /\ sess[s].at = "idle") \/ Advance(sess[s], r)
        /\ SameTruth /\ status' = status /\ ctx' = ctx /\ cause' = cause
    BY <1>3 DEF SessionOnly, database, history, SameTruth
  <2>2. sess'[s] = r /\ \A t \in Sessions \ {s} : sess'[t] = sess[t]
    BY <1>0, <2>1, SessionMoves
  <2>3. ASSUME NEW k \in Keys
        PROVE  Explained(k)'
    <3>1. CASE status[k] = "ACTIVE"
      <4>1. Pending(sess[s], k) => Pending(r, k)
        BY <2>1, <3>1 DEF Pending, Advance, ActiveKeys
      <4>2. \A t \in Sessions : Pending(sess[t], k) => Pending(sess'[t], k)
        BY <2>2, <4>1
      <4> QED
        BY <1>0, <2>1, <4>2, StillExplained
    <3>2. CASE status[k] # "ACTIVE"
      BY <2>1, <3>2 DEF Explained
    <3> QED
      BY <3>1, <3>2
  <2> QED
    BY <2>3
<1>4. ASSUME NEW s \in Sessions, NEW r, NEW e \in sess[s].todo, Deleted(s, r, e)
      PROVE  Goal
  <2>1. /\ sess' = [sess EXCEPT ![s] = r] /\ Tick(sess[s], r, e) /\ SessionShape(r)
        /\ SameTruth /\ status' = status
    BY <1>4 DEF Deleted, Tick, database, SameTruth
  <2>2. sess'[s] = r /\ \A t \in Sessions \ {s} : sess'[t] = sess[t]
    BY <1>0, <2>1, SessionMoves
  <2>3. \/ /\ \A k \in Keys : ctx'[k] = NoCtx \/ (ctx'[k] = ctx[k] /\ cause'[k] = cause[k])
           /\ e[1] = "ctx" => ctx'[e[2]] = NoCtx
        \/ ctx' = ctx /\ cause' = [cause EXCEPT ![e[2]] = @ \cup {"lost delete"}]
    BY <1>4 DEF Deleted, Forgets
  <2>4. ASSUME NEW k \in Keys
        PROVE  Explained(k)'
    <3>1. CASE e # <<"ctx", k>>
      <4>1. Pending(sess[s], k) => Pending(r, k)
        <5> SUFFICES ASSUME Pending(sess[s], k) PROVE Pending(r, k)
          OBVIOUS
        <5>1. <<"ctx", k>> \in r.todo /\ r.op = "user policy"
          BY <2>1, <3>1 DEF Pending, Tick
        <5>2. r.at = "delete"
          BY <2>1, <5>1 DEF Tick
        <5> QED
          BY <5>1, <5>2 DEF Pending
      <4>2. \A t \in Sessions : Pending(sess[t], k) => Pending(sess'[t], k)
        BY <2>2, <4>1
      <4>3. ctx'[k] = NoCtx \/ (ctx'[k] = ctx[k] /\ (cause[k] # {} => cause'[k] # {}))
        BY <1>0, <2>3
      <4> QED
        BY <1>0, <2>1, <4>2, <4>3, StillExplained
    <3>2. CASE e = <<"ctx", k>>
      <4>1. e[1] = "ctx" /\ e[2] = k
        BY <3>2
      <4>2. ctx'[k] = NoCtx \/ cause'[k] = cause[k] \cup {"lost delete"}
        BY <1>0, <2>3, <4>1
      <4> QED
        BY <4>2 DEF Explained
    <3> QED
      BY <3>1, <3>2
  <2> QED
    BY <2>4
<1>5. ASSUME NEW s \in Sessions, Publish(s)
      PROVE  Goal
  <2> DEFINE p == sess[s]
             r == [p EXCEPT !.at = "commit"]
  <2>1. /\ Issuing(p) /\ p.key \in Keys /\ sess' = [sess EXCEPT ![s] = r] /\ SessionShape(r)
        /\ ctx' = [ctx EXCEPT ![p.key] = p.snapshot]
        /\ SameTruth /\ status' = status /\ cause' = cause
    BY <1>5, PublishFacts DEF database, history, SameTruth
  <2> HIDE DEF r
  <2>2. \A t \in Sessions \ {s} : sess'[t] = sess[t]
    BY <1>0, <2>1, SessionMoves
  <2>3. status[p.key] = "none"
    BY <2>1 DEF KeysApart, Unissued
  <2>4. ASSUME NEW k \in Keys
        PROVE  Explained(k)'
    <3>1. CASE k = p.key
      BY <2>1, <2>3, <3>1 DEF Explained
    <3>2. CASE k # p.key
      <4>1. ~Pending(sess[s], k)
        BY <2>1 DEF Pending, Issuing
      <4>2. \A t \in Sessions : Pending(sess[t], k) => Pending(sess'[t], k)
        BY <2>2, <4>1
      <4>3. ctx'[k] = ctx[k]
        BY <1>0, <2>1, <3>2
      <4> QED
        BY <1>0, <2>1, <4>2, <4>3, StillExplained
    <3> QED
      BY <3>1, <3>2
  <2> QED
    BY <2>4
<1>6. ASSUME Syncs("sync")
      PROVE  Goal
  <2>1. ASSUME NEW k \in Keys
        PROVE  ctx'[k] \in {NoCtx, Truth'} \/ "sync" \in cause'[k]
    BY <1>6 DEF Syncs, OnRecord
  <2>2. ASSUME NEW k \in Keys
        PROVE  Explained(k)'
    BY <2>1 DEF Explained
  <2> QED
    BY <2>2
<1>7. ASSUME NEW t \in Teams, SyncMovesUser(t)
      PROVE  Goal
  <2>1. Synced("sync") /\ userTeam' \in Teams /\ active' \in BOOLEAN
    BY <1>7 DEF SyncMovesUser, KeysShape, DatabaseShape
  <2> QED
    BY <1>6, <2>1, SyncFacts
<1>8. ASSUME NEW on \in BOOLEAN, SyncSetsActive(on)
      PROVE  Goal
  BY <1>6, <1>8, SwitchFacts
<1>9. ASSUME NEW k \in Keys, ExpireKey(k)
      PROVE  Goal
  <2>1. /\ status' = [status EXCEPT ![k] = "EXPIRED"] /\ SameTruth
        /\ sess' = sess /\ ctx' = ctx /\ cause' = cause
    BY <1>9 DEF ExpireKey, cache, history, SameTruth
  <2>2. \A j \in Keys : status'[j] = "ACTIVE" => status[j] = "ACTIVE"
    BY <1>0, <2>1
  <2> QED
    BY <1>1, <2>1, <2>2
<1>10. ASSUME CacheOnly
       PROVE  Goal
  BY <1>1, <1>10 DEF CacheOnly, Forgets, database, SameTruth
<1>11. ASSUME NEW g \in Requests, NEW r, RequestOnly(g, r)
       PROVE  Goal
  BY <1>2, <1>11 DEF RequestOnly, database, cache, history, SameTruth
<1>12. ASSUME NEW g \in Requests, StoreContext(g)
       PROVE  Goal
  <2> DEFINE q == reqs[g]
             c == [team |-> q.team, models |-> q.models]
  <2>1. /\ q.at = "store" /\ q.key \in Keys /\ ctx' = [ctx EXCEPT ![q.key] = c]
        /\ cause' = [cause EXCEPT ![q.key] = IF q.outdated THEN {"late fill"} ELSE {}]
        /\ SameTruth /\ status' = status /\ sess' = sess
    BY <1>12, StoreFacts DEF database, SameTruth
  <2>2. ~q.outdated => c = Truth
    <3>1. Current(q)
      BY DEF Explanation
    <3> QED
      BY <2>1, <3>1 DEF Current, Truth
  <2>3. Truth' = Truth
    BY <2>1, TruthStays
  <2> HIDE DEF c
  <2>4. ASSUME NEW k \in Keys
        PROVE  Explained(k)'
    <3>1. CASE k = q.key
      <4>1. ctx'[k] = c /\ cause'[k] = IF q.outdated THEN {"late fill"} ELSE {}
        BY <1>0, <2>1, <3>1
      <4> QED
        BY <2>2, <2>3, <4>1 DEF Explained
    <3>2. CASE k # q.key
      <4>1. ctx'[k] = ctx[k] /\ cause'[k] = cause[k]
        BY <1>0, <2>1, <3>2
      <4> QED
        BY <1>0, <2>1, <4>1, StillExplained
    <3> QED
      BY <3>1, <3>2
  <2> QED
    BY <2>4
<1>13. CASE UNCHANGED vars
  BY <1>2, <1>13 DEF vars, database, cache, history, SameTruth
<1>14. CASE Next
  <2>1. Steps
    BY <1>14, NextSteps
  <2>2. ASSUME NEW s \in Sessions, Commit(s)
        PROVE  Goal
    BY <2>2, CommitExplains
  <2> QED
    BY <2>1, <2>2, <1>3, <1>4, <1>5, <1>7, <1>8, <1>9, <1>10, <1>11, <1>12 DEF Steps
<1> QED
  BY <1>13, <1>14

LEMMA ExplanationNext == KeysShape /\ KeysApart /\ Explanation /\ [Next]_vars => Explanation'
BY SnapshotStays, PublicationStays, ReadingStays, ExplanationStays DEF Explanation

(* Once the admin-api is quiet, the AuthContext cached for an ACTIVE key     *)
(* agrees with the database, or one of the causes the code leaves open       *)
(* (key_service, cache_invalidation_service, the Cognito sync) is on record. *)
THEOREM StaleHasCauseAlways == Spec => []StaleHasCause
<1> DEFINE StaleInv == KeysShape /\ KeysApart /\ Explanation
<1>1. Init => StaleInv
  BY ShapeInit, ApartInit, ExplanationInit
<1>2. StaleInv /\ [Next]_vars => StaleInv'
  BY ShapeNext, ApartNext, ExplanationNext
<1>3. StaleInv => StaleHasCause
  <2> SUFFICES ASSUME StaleInv, Quiet, NEW k \in ActiveKeys
               PROVE  ctx[k] \in {NoCtx, Truth} \/ cause[k] # {}
    BY DEF StaleHasCause
  <2>1. Explained(k) /\ status[k] = "ACTIVE"
    BY DEF Explanation, ActiveKeys
  <2>2. \A s \in Sessions : ~Pending(sess[s], k)
    BY DEF Quiet, Pending
  <2> QED
    BY <2>1, <2>2 DEF Explained
<1> QED
  BY <1>1, <1>2, <1>3, PTL DEF Spec

-----------------------------------------------------------------------------
(* The Cognito sync. The inductive invariant follows an account that       *)
(* nobody touches through the crawl: what the listings know of it          *)
(* (Heard), and then the row it has under the batch (Placed).              *)
Crawling == {"groups", "prefetch", "users", "missing", "teams", "moves"}
Listed(map) == DOMAIN map \subseteq Subs /\ \A s \in DOMAIN map : map[s] \in Accounts

SyncTyped ==
  /\ sync \in [at : {"idle", "done"} \cup Crawling, todo : SUBSET Groups, map : {sync.map},
               synced : SUBSET Mapped, snap : {sync.snap}, left : SUBSET Subs, seen : SUBSET Subs,
               processed : Nat, moved : SUBSET Ids]
  /\ Listed(sync.map)
  /\ DOMAIN sync.snap \subseteq Subs /\ \A s \in DOMAIN sync.snap : sync.snap[s] \in Rows /\ sync.snap[s].sub = s
SingleTyped ==
  /\ single \in [op : {"none", "user", "group"}, of : Emails \cup Groups \cup {NoAccount}, map : {single.map}]
  /\ Listed(single.map)
TableTyped ==
  /\ rows \in [Ids -> Rows \cup {NoRow}]
  /\ DOMAIN work \subseteq Ids /\ \A i \in DOMAIN work : work[i] \in Rows
PoolTyped ==
  /\ pool \in [Subs -> Accounts \cup {NoAccount}]
  /\ \A s, u \in Subs : s # u /\ pool[s] # NoAccount /\ pool[u] # NoAccount => pool[s].email # pool[u].email
SyncsTyped == SyncTyped /\ SingleTyped /\ TableTyped /\ PoolTyped

\* The table's subjects, and whose row was made by hand.
OwnRows(db) == \A i, j \in Used(db) : (db[i].sub = db[j].sub \/ db[i].email = db[j].email) => i = j
ByHand(db) == \A i \in Used(db) : db[i].sub = Local => ~db[i].oidc
TableSound ==
  /\ OwnRows(rows) /\ OwnRows(View) /\ ByHand(rows) /\ ByHand(View)
  /\ sync.at # "users" => DOMAIN work = {}
  /\ \A i \in DOMAIN work : work[i].sub \in DOMAIN sync.map /\ work[i].active = sync.map[work[i].sub].enabled

\* What the listings know of an account that did not change since.
Known(s) == pool[s] # NoAccount
Heard(s) ==
  /\ s \in DOMAIN sync.map /\ s \notin touched =>
       Known(s) /\ sync.map[s].email = pool[s].email /\ sync.map[s].enabled = pool[s].enabled
  /\ s \notin touched /\ Known(s) /\ "members" \notin errors =>
       /\ s \in DOMAIN sync.map => sync.map[s].groups = pool[s].groups \ sync.todo
       /\ sync.at = "groups" /\ s \notin DOMAIN sync.map => pool[s].groups \subseteq sync.todo
  /\ s \notin touched /\ Known(s) /\ errors \cap {"groups", "users"} = {} /\ sync.at \notin {"idle", "groups"} =>
       s \in DOMAIN sync.map
  /\ \A u \in DOMAIN sync.map : u # s /\ Known(s) /\ sync.map[u].email = pool[s].email => pool[s].email \in touched
  /\ s \in DOMAIN single.map /\ s \notin touched => Known(s) /\ single.map[s].enabled = pool[s].enabled
  /\ single.op = "user" /\ DOMAIN single.map = {} /\ Known(s) /\ pool[s].email = single.of => single.of \in touched
CrawlSound ==
  /\ sync.at # "groups" => sync.todo = {}
  /\ sync.at \in Crawling => sync.synced = (Mapped \ Homeless) \ sync.todo
  /\ sync.at \in {"users", "missing", "teams", "moves"} => DOMAIN sync.map \subseteq sync.left \cup sync.seen
  /\ sync.at # "users" => sync.left = {}
  /\ sync.left \subseteq DOMAIN sync.map
  /\ sync.at = "idle" => DOMAIN sync.map = {}
  /\ sync.at \in Crawling => "groups" \notin errors
  /\ sync.at = "moves" => sync.moved \subseteq Used(rows)
ListingSound == CrawlSound /\ \A s \in Subs : Heard(s)

\* The row of an account nobody touched: what was prefetched, then what is written.
Untouched(s) == Known(s) /\ {s, pool[s].email} \cap (touched \cup conflicts) = {} /\ errors \subseteq {"team"}
Mirrors(s, r) == r = Row(s, pool[s].email, TeamOf(pool[s].groups, Mapped \ Homeless), RoleOf(pool[s].groups),
                         pool[s].enabled, r.oidc)
Placed(s) ==
  Untouched(s) /\ s \in DOMAIN sync.map /\ sync.at \in {"users", "missing", "teams", "moves", "done"} =>
    /\ s \notin sync.left =>
         \E i \in Used(View) : Mirrors(s, View[i]) /\ (sync.at = "moves" => i \notin sync.moved)
    /\ s \in sync.left /\ s \in DOMAIN sync.snap /\ sync.snap[s].email = pool[s].email =>
         \E i \in Used(View) : View[i] = sync.snap[s]
RowsSound == \A s \in Subs : Placed(s)
SyncSound == SyncsTyped /\ TableSound /\ ListingSound /\ RowsSound

-----------------------------------------------------------------------------
(* Tables, with the batch laid over them, and the row a profile goes to.   *)
\* A team is one of the wanted, or the default.
LEMMA TeamIsWanted ==
  ASSUME SyncAssumption, NEW groups, NEW wanted
  PROVE  TeamOf(groups, wanted) \in wanted \cup {DefaultTeam}
<1> DEFINE ours == {k \in DOMAIN GroupOrder : GroupOrder[k] \in groups \cap wanted}
<1>1. DOMAIN GroupOrder = 1..Len(GroupOrder) /\ Len(GroupOrder) \in Nat
  BY DEF SyncAssumption
<1>2. ours # {} => Min(ours) \in ours
  <2>1. ours \in SUBSET (1..Len(GroupOrder))
    BY <1>1
  <2> HIDE DEF ours
  <2>2. QED
    BY <1>1, <2>1, FirstPlace DEF Min
<1>3. QED
  BY <1>2 DEF TeamOf

Tables == [Ids -> Rows \cup {NoRow}]
\* A table as it looks to the sync, over what the sync wrote.
Overlaid(db, w) == [i \in Ids |-> IF i \in DOMAIN w THEN w[i] ELSE db[i]]
Written(w) == DOMAIN w \subseteq Ids /\ \A i \in DOMAIN w : w[i] \in Rows

\* A table over which the batch lies, row by row.
LEMMA OverIs ==
  ASSUME SyncAssumption, NEW db \in Tables, NEW w, Written(w), NEW v, v = Overlaid(db, w)
  PROVE  /\ v \in Tables /\ Used(v) = Used(db) \cup DOMAIN w
         /\ \A i \in DOMAIN w : v[i] = w[i]
         /\ \A i \in Ids \ DOMAIN w : v[i] = db[i]
<1>1. \A i \in DOMAIN w : w[i] # NoRow /\ i \in Ids
  BY DEF Written, SyncAssumption
<1>2. v \in Tables
  BY DEF Overlaid, Written, Tables
<1>3. QED
  BY <1>1, <1>2 DEF Overlaid, Used

\* There is a key for a subject without a row.
LEMMA FreeKey ==
  ASSUME SyncAssumption, NEW v \in Tables, OwnRows(v), NEW s \in Subs, BySub(v, s) = {}
  PROVE  \E i \in Ids : i \notin Used(v)
<1> SUFFICES ASSUME \A i \in Ids : i \in Used(v) PROVE FALSE
  OBVIOUS
<1> DEFINE T == (Subs \ {s}) \cup {Local}
           f == [i \in Ids |-> v[i].sub]
<1>1. \A i \in Ids : v[i] \in Rows /\ v[i].sub # s
  BY DEF Used, Tables, BySub
<1>2. \A i \in Ids : v[i].sub \in T
  BY <1>1 DEF Rows
<1>3. f \in [Ids -> T]
  BY <1>2
<1>4. f \in Injection(Ids, T)
  BY <1>3 DEF Injection, IsInjective, OwnRows
<1>5. IsFiniteSet(T) /\ Cardinality(T) = Cardinality(Subs)
  <2>1. IsFiniteSet(Subs) /\ Local \notin Subs
    BY DEF SyncAssumption
  <2>2. IsFiniteSet(Subs \ {s}) /\ Cardinality(Subs \ {s}) = Cardinality(Subs) - 1
    BY <2>1, FS_RemoveElement
  <2>3. IsFiniteSet(T) /\ Cardinality(T) = Cardinality(Subs \ {s}) + 1
    BY <2>1, <2>2, FS_AddElement
  <2>4. Cardinality(Subs) \in Nat
    BY <2>1, FS_CardinalityType
  <2>5. QED
    BY <2>2, <2>3, <2>4
<1> HIDE DEF f, T
<1>6. IsFiniteSet(Ids) /\ Cardinality(Ids) <= Cardinality(T)
  BY <1>4, <1>5, FS_Injection
<1>7. Cardinality(Ids) \in Nat /\ Cardinality(Subs) \in Nat
  BY <1>6, FS_CardinalityType DEF SyncAssumption
<1>8. QED
  BY <1>5, <1>6, <1>7 DEF SyncAssumption

\* Where a profile is stored: the row of the subject, that of the email, or one
\* that nobody has.
Places(db, s, e, i) ==
  /\ i \in Ids
  /\ \/ i \in BySub(db, s)
     \/ BySub(db, s) = {} /\ i \in ByEmail(db, e)
     \/ BySub(db, s) = {} /\ i \notin Used(db) \cup DOMAIN work

\* The place of a profile is one of the three.
LEMMA TargetIs ==
  ASSUME SyncAssumption, Written(work), NEW db \in Tables, NEW v, v = Overlaid(db, work), OwnRows(v),
         NEW s \in Subs, NEW e, BySub(db, s) = {} => BySub(v, s) = {}
  PROVE  Places(db, s, e, Target(db, s, e))
<1>1. BySub(db, s) \subseteq Ids /\ ByEmail(db, e) \subseteq Ids
  BY DEF BySub, ByEmail, Used
<1>2. BySub(db, s) = {} => \E i \in Ids : i \notin Used(db) \cup DOMAIN work
  <2>1. v \in Tables /\ Used(v) = Used(db) \cup DOMAIN work
    BY OverIs
  <2>2. QED
    BY <2>1, FreeKey
<1>3. CASE BySub(db, s) # {}
  <2>1. PICK i \in Ids : i \in BySub(db, s)
    BY <1>1, <1>3
  <2>2. Target(db, s, e) \in Ids /\ Target(db, s, e) \in BySub(db, s)
    BY <1>3, <2>1 DEF Target
  <2>3. QED
    BY <2>2 DEF Places
<1>4. CASE BySub(db, s) = {} /\ ByEmail(db, e) # {}
  <2>1. PICK i \in Ids : i \in ByEmail(db, e)
    BY <1>1, <1>4
  <2>2. Target(db, s, e) \in Ids /\ Target(db, s, e) \in ByEmail(db, e)
    BY <1>4, <2>1 DEF Target
  <2>3. QED
    BY <1>4, <2>2 DEF Places
<1>5. CASE BySub(db, s) = {} /\ ByEmail(db, e) = {}
  <2>1. PICK i \in Ids : i \notin Used(db) \cup DOMAIN work
    BY <1>2, <1>5
  <2>2. Target(db, s, e) \in Ids /\ Target(db, s, e) \notin Used(db) \cup DOMAIN work
    BY <1>5, <2>1 DEF Target
  <2>3. QED
    BY <1>5, <2>2 DEF Places
<1>6. QED
  BY <1>3, <1>4, <1>5

\* The row of a profile.
LEMMA RowIs ==
  ASSUME SyncAssumption, NEW db \in Tables, NEW s \in Subs, NEW info \in Accounts,
         NEW team \in Mapped \cup {DefaultTeam}, NEW up, up = Upserted(db, s, info, team), up.id \in Ids
  PROVE  /\ up.id = Target(db, s, info.email) /\ up.row \in Rows /\ up.row.sub = s
         /\ up.row.email = info.email /\ up.row.active = info.enabled
         /\ up.row = Row(s, info.email, team, RoleOf(info.groups), info.enabled, up.row.oidc)
<1> DEFINE i == Target(db, s, info.email)
           o == Provider(db, i)
           r == Row(s, info.email, team, RoleOf(info.groups), info.enabled, o)
<1>1. up = [id |-> i, row |-> r]
  BY DEF Upserted
<1>2. up.id = i /\ up.row = r
  BY <1>1
<1>3. o \in BOOLEAN
  <2>1. db[i] \in Rows \cup {NoRow}
    BY <1>2 DEF Tables
  <2>2. QED
    BY <2>1 DEF Provider, Rows
<1>4. info.email \in Mails /\ team \in Homes /\ info.enabled \in BOOLEAN /\ RoleOf(info.groups) \in {"ADMIN", "DEVELOPER"}
  BY DEF Accounts, Mails, Homes, RoleOf
<1> HIDE DEF o, i
<1>5. r \in Rows /\ r.sub = s /\ r.email = info.email /\ r.active = info.enabled /\ r.oidc = o
  BY <1>3, <1>4 DEF Row, Rows
<1>6. QED
  BY <1>2, <1>5 DEF i

-----------------------------------------------------------------------------
(* Storing profiles, one after the other.                                  *)
\* A row of its own in a table.
LEMMA RowFits ==
  ASSUME SyncAssumption, NEW db \in Tables, OwnRows(db), ByHand(db), NEW i \in Ids, NEW r \in Rows, r.sub \in Subs,
         \A j \in Used(db) \ {i} : db[j].sub # r.sub /\ db[j].email # r.email, NEW new, new = [db EXCEPT ![i] = r]
  PROVE  new \in Tables /\ OwnRows(new) /\ ByHand(new) /\ Used(new) = Used(db) \cup {i}
<1>1. new \in Tables /\ new[i] = r /\ \A j \in Ids \ {i} : new[j] = db[j]
  BY DEF Tables
<1>2. r # NoRow /\ r.sub # Local
  BY DEF SyncAssumption
<1>3. Used(new) = Used(db) \cup {i}
  BY <1>1, <1>2 DEF Used
<1>4. ASSUME NEW j \in Used(new), NEW k \in Used(new), new[j].sub = new[k].sub \/ new[j].email = new[k].email
      PROVE  j = k
  <2>1. j \in Ids /\ k \in Ids
    BY DEF Used
  <2>2. CASE j = i
    BY <1>1, <1>3, <1>4, <2>1, <2>2
  <2>3. CASE k = i
    BY <1>1, <1>3, <1>4, <2>1, <2>3
  <2>4. CASE j # i /\ k # i
    BY <1>1, <1>3, <1>4, <2>1, <2>4 DEF OwnRows
  <2>5. QED
    BY <2>2, <2>3, <2>4
<1>5. ByHand(new)
  <2>1. ASSUME NEW j \in Used(new), new[j].sub = Local PROVE ~new[j].oidc
    <3>1. j # i /\ j \in Ids /\ j \in Used(db)
      BY <1>1, <1>2, <1>3, <2>1 DEF Used
    <3>2. QED
      BY <1>1, <2>1, <3>1 DEF ByHand
  <2>2. QED
    BY <2>1 DEF ByHand
<1>6. OwnRows(new)
  BY <1>4 DEF OwnRows
<1>7. QED
  BY <1>1, <1>3, <1>5, <1>6

Accs == [db : Tables, bad : BOOLEAN]

\* Storing a profile gives a table again.
LEMMA StoreType ==
  ASSUME SyncAssumption, NEW acc \in Accs, NEW map, Listed(map), NEW s \in DOMAIN map
  PROVE  Store(acc, s, map) \in Accs
<1> DEFINE team == TeamOf(map[s].groups, Mapped \ Homeless)
           up == Upserted(acc.db, s, map[s], team)
<1>1. s \in Subs /\ map[s] \in Accounts /\ acc.db \in Tables /\ acc.bad \in BOOLEAN
  BY DEF Listed, Accs
<1>2. team \in Mapped \cup {DefaultTeam}
  BY TeamIsWanted
<1>3. Store(acc, s, map) = [db |-> [acc.db EXCEPT ![up.id] = up.row],
                            bad |-> acc.bad \/ Collides(acc.db, up.id, up.row)]
  BY DEF Store
<1>4. [acc.db EXCEPT ![up.id] = up.row] \in Tables
  <2> HIDE DEF team
  <2>1. CASE up.id \in Ids
    <3>1. up.row \in Rows
      BY <1>1, <1>2, <2>1, RowIs
    <3> HIDE DEF up
    <3>2. QED
      BY <1>1, <2>1, <3>1 DEF Tables
  <2>2. CASE up.id \notin Ids
    <3> HIDE DEF up
    <3>1. [acc.db EXCEPT ![up.id] = up.row] = acc.db
      BY <1>1, <2>2 DEF Tables
    <3>2. QED
      BY <1>1, <3>1
  <2>3. QED
    BY <2>1, <2>2
<1>5. (acc.bad \/ Collides(acc.db, up.id, up.row)) \in BOOLEAN
  BY <1>1 DEF Collides
<1> HIDE DEF up
<1>6. QED
  BY <1>3, <1>4, <1>5 DEF Accs

\* What the tables become with a listing, one profile after the other.
Storing(h, db, map, seq) ==
  /\ h \in [0..Len(seq) -> Accs] /\ h[0] = [db |-> db, bad |-> FALSE]
  /\ \A k \in 1..Len(seq) : h[k] = Store(h[k - 1], seq[k], map)

StoreFold(g, db, map, seq) ==
  g = [s \in SUBSET (DOMAIN seq) |->
         IF s = {} THEN [db |-> db, bad |-> FALSE] ELSE Store(g[s \ {Top(s)}], seq[Top(s)], map)]

AllStored(db, map, seq) == (CHOOSE g : StoreFold(g, db, map, seq))[DOMAIN seq]

\* The fold of Stored, by its definition.
LEMMA FoldOfStores ==
  ASSUME NEW db, NEW map
  PROVE  Stored(db, map) = LET out == AllStored(db, map, SetToSeq(DOMAIN map))
                           IN IF out.bad THEN db ELSE out.db
BY DEF AllStored, Stored, FoldLeft, MapThenFoldSet, StoreFold, Top, Max

\* A finite set can be listed.
LEMMA InSomeOrder ==
  ASSUME NEW S, IsFiniteSet(S)
  PROVE  SetToSeq(S) \in Seq(S)
<1>1. PICK n \in Nat : ExistsBijection(1..n, S)
  BY FS_NatBijection
<1>2. Cardinality(S) = n
  BY <1>1, FS_CountingElements
<1>3. \E f \in [1..n -> S] : IsInjective(f)
  BY <1>1 DEF ExistsBijection, Bijection, Injection
<1>4. SetToSeq(S) \in [1..n -> S]
  BY <1>2, <1>3 DEF SetToSeq
<1>5. QED
  BY <1>4

\* The fold of Stored takes the profiles one by one.
LEMMA StoredStepwise ==
  ASSUME SyncAssumption, NEW db \in Tables, NEW map, Listed(map)
  PROVE  \E seq \in Seq(DOMAIN map) : \E h :
           /\ Storing(h, db, map, seq)
           /\ Stored(db, map) = IF h[Len(seq)].bad THEN db ELSE h[Len(seq)].db
<1> DEFINE seq == SetToSeq(DOMAIN map)
           base == [db |-> db, bad |-> FALSE]
           n == Len(seq)
           V == Accs
           step == [p \in V \X (1..n) |-> Store(p[1], seq[p[2]], map)]
<1>0. seq \in Seq(DOMAIN map)
  <2>1. IsFiniteSet(DOMAIN map)
    BY FS_Subset DEF Listed, SyncAssumption
  <2>2. QED
    BY <2>1, InSomeOrder
<1> HIDE DEF seq
<1>1. n \in Nat /\ DOMAIN seq = 1..n /\ \A k \in 1..n : seq[k] \in DOMAIN map
  BY <1>0
<1>1a. base \in V
  BY DEF Accs
<1>2. \A v \in V : \A k \in 1..n : step[<<v, k>>] = Store(v, seq[k], map) /\ step[<<v, k>>] \in V
  <2> SUFFICES ASSUME NEW v \in V, NEW k \in 1..n
               PROVE  step[<<v, k>>] = Store(v, seq[k], map) /\ step[<<v, k>>] \in V
    OBVIOUS
  <2>1. <<v, k>> \in V \X (1..n)
    OBVIOUS
  <2>2. step[<<v, k>>] = Store(v, seq[k], map)
    BY <2>1
  <2>3. Store(v, seq[k], map) \in V
    BY <1>1, StoreType
  <2>4. QED
    BY <2>2, <2>3
<1> HIDE DEF step, n, V, base
<1>3. PICK g \in [SUBSET (1..n) -> V] : Folds(g, base, step, n)
  BY <1>1, <1>1a, <1>2, FoldExists
<1>4. StoreFold(g, db, map, seq)
  <2>1. ASSUME NEW s \in SUBSET (1..n)
        PROVE  g[s] = IF s = {} THEN base ELSE Store(g[s \ {Top(s)}], seq[Top(s)], map)
    <3>1. CASE s = {}
      BY <1>3, <3>1 DEF Folds
    <3>2. CASE s # {}
      <4>1. Top(s) \in 1..n
        BY <1>1, <3>2, TopIsTop
      <4>2. g[s \ {Top(s)}] \in V
        BY <1>3
      <4>3. g[s] = step[<<g[s \ {Top(s)}], Top(s)>>]
        BY <1>3, <3>2 DEF Folds
      <4>4. QED
        BY <1>2, <3>2, <4>1, <4>2, <4>3
    <3>3. QED
      BY <3>1, <3>2
  <2>2. QED
    BY <1>1, <1>3, <2>1 DEF StoreFold, base
<1> DEFINE f == CHOOSE x : StoreFold(x, db, map, seq)
           h == [k \in 0..n |-> f[1..k]]
<1>5. StoreFold(f, db, map, seq)
  BY <1>4
<1> HIDE DEF f
<1>6. f[1..0] = base /\ \A k \in 1..n : f[1..k] = Store(f[1..(k - 1)], seq[k], map)
  <2>1. \A s \in SUBSET (1..n) :
           f[s] = IF s = {} THEN base ELSE Store(f[s \ {Top(s)}], seq[Top(s)], map)
    BY <1>1, <1>5 DEF StoreFold, base
  <2>2. 1..0 = {} /\ 1..0 \in SUBSET (1..n)
    OBVIOUS
  <2>3. ASSUME NEW k \in 1..n PROVE f[1..k] = Store(f[1..(k - 1)], seq[k], map)
    <3>1. /\ 1..k \in SUBSET (1..n) /\ 1..k # {}
          /\ Top(1..k) = k /\ (1..k) \ {k} = 1..(k - 1)
      BY <1>1, FirstPlaces
    <3>2. f[1..k] = Store(f[(1..k) \ {Top(1..k)}], seq[Top(1..k)], map)
      BY <2>1, <3>1
    <3>3. QED
      BY <3>1, <3>2
  <2>4. QED
    BY <2>1, <2>2, <2>3
<1>7. \A k \in 0..n : h[k] \in V
  <2> DEFINE Good == {k \in 0..n : h[k] \in V}
  <2>1. 0 \in Good
    BY <1>1, <1>1a, <1>6
  <2>2. ASSUME NEW k \in 1..n, k - 1 \in Good PROVE k \in Good
    <3>1. h[k - 1] \in V /\ h[k - 1] = f[1..(k - 1)] /\ h[k] = f[1..k] /\ k \in 0..n
      BY <1>1, <2>2
    <3>2. Store(h[k - 1], seq[k], map) \in V
      BY <1>1, <3>1, StoreType DEF V
    <3>3. QED
      BY <1>6, <3>1, <3>2
  <2> HIDE DEF Good
  <2>3. \A k \in 0..n : k \in Good
    BY <1>1, <2>1, <2>2, PlaceInduction
  <2>4. QED
    BY <2>3 DEF Good
<1>8. h[0] = base /\ \A k \in 1..n : h[k] = Store(h[k - 1], seq[k], map)
  <2>1. 0 \in 0..n /\ \A k \in 1..n : k \in 0..n /\ k - 1 \in 0..n
    BY <1>1
  <2>2. \A k \in 0..n : h[k] = f[1..k]
    OBVIOUS
  <2> HIDE DEF h
  <2>3. QED
    BY <1>6, <2>1, <2>2
<1>9. h[n] = f[DOMAIN seq]
  <2>1. n \in 0..n
    BY <1>1
  <2>2. QED
    BY <1>1, <2>1 DEF h
<1>10. h \in [0..n -> V]
  BY <1>7
<1>11. Storing(h, db, map, seq)
  BY <1>8, <1>10 DEF Storing, n, V, base
<1>12. Stored(db, map) = IF h[n].bad THEN db ELSE h[n].db
  <2>1. AllStored(db, map, SetToSeq(DOMAIN map)) = h[n]
    BY <1>9 DEF f, AllStored, seq
  <2>2. QED
    BY <2>1, FoldOfStores
<1>13. QED
  BY <1>0, <1>11, <1>12 DEF n
\* A table whose rows have subjects of their own, with and without the open batch.
TwoSound(db) == OwnRows(db) /\ ByHand(db) /\ OwnRows(Overlaid(db, work)) /\ ByHand(Overlaid(db, work))
FreeIn(db, s, e) ==
  \A i \in DOMAIN work : /\ work[i].sub # s /\ work[i].email # e
                         /\ db[i] # NoRow => (db[i].sub # s /\ db[i].email # e)

\* A transaction that waits for the batch's rows writes none of them.
LEMMA TargetFree ==
  ASSUME SyncAssumption, Written(work), NEW db \in Tables, OwnRows(Overlaid(db, work)),
         NEW s \in Subs, NEW e, FreeIn(db, s, e), NEW i, i = Target(db, s, e)
  PROVE  Places(db, s, e, i) /\ i \notin DOMAIN work
<1> DEFINE v == Overlaid(db, work)
<1>1. /\ v \in Tables /\ Used(v) = Used(db) \cup DOMAIN work
      /\ \A j \in DOMAIN work : v[j] = work[j]
      /\ \A j \in Ids \ DOMAIN work : v[j] = db[j]
  BY OverIs
<1>2. BySub(db, s) = {} => BySub(v, s) = {}
  <2>1. ASSUME NEW j \in BySub(v, s) PROVE j \in BySub(db, s)
    <3>1. j \in Used(v) /\ v[j].sub = s /\ j \in Ids
      BY <2>1 DEF BySub, Used
    <3>2. j \notin DOMAIN work
      BY <1>1, <3>1 DEF FreeIn
    <3>3. QED
      BY <1>1, <3>1, <3>2 DEF BySub
  <2>2. QED
    BY <2>1
<1> HIDE DEF v
<1>3. Places(db, s, e, i)
  BY <1>2, TargetIs DEF v
<1>4. i \notin DOMAIN work
  <2>1. SUFFICES ASSUME i \in DOMAIN work PROVE FALSE
    OBVIOUS
  <2>2. db[i] # NoRow => (db[i].sub # s /\ db[i].email # e)
    BY <2>1 DEF FreeIn
  <2>3. QED
    BY <1>3, <2>1, <2>2 DEF Places, BySub, ByEmail, Used
<1>5. QED
  BY <1>3, <1>4

\* A row stored where it belongs: without a collision the table stays sound.
Fits(db, i, r) ==
  /\ i \in Ids /\ i \notin DOMAIN work /\ r \in Rows /\ r.sub \in Subs
  /\ ~Collides(db, i, r) /\ \A j \in DOMAIN work : work[j].sub # r.sub /\ work[j].email # r.email
Put(new, db, i, r) ==
  /\ new \in Tables /\ TwoSound(new) /\ Overlaid(new, work) = [Overlaid(db, work) EXCEPT ![i] = r]
  /\ new[i] = r /\ \A j \in Ids \ {i} : new[j] = db[j]

\* Without a collision, a row stored leaves every other and the table sound.
LEMMA StoreFits ==
  ASSUME SyncAssumption, Written(work), NEW db \in Tables, TwoSound(db), NEW r, NEW i, Fits(db, i, r),
         NEW new, new = [db EXCEPT ![i] = r]
  PROVE  Put(new, db, i, r)
<1> DEFINE v == Overlaid(db, work)
           u == Overlaid(new, work)
<1>1. /\ i \in Ids /\ i \notin DOMAIN work /\ r \in Rows /\ r.sub \in Subs
      /\ \A j \in Used(db) \ {i} : db[j].sub # r.sub /\ db[j].email # r.email
      /\ \A j \in DOMAIN work : work[j].sub # r.sub /\ work[j].email # r.email
  BY DEF Fits, Collides
<1>2. OwnRows(v) /\ ByHand(v) /\ OwnRows(db) /\ ByHand(db)
  BY DEF TwoSound
<1>3. new \in Tables /\ new[i] = r /\ \A j \in Ids \ {i} : new[j] = db[j]
  BY <1>1 DEF Tables
<1>4. OwnRows(new) /\ ByHand(new)
  BY <1>1, <1>2, RowFits
<1>5. /\ v \in Tables /\ Used(v) = Used(db) \cup DOMAIN work
      /\ \A j \in DOMAIN work : v[j] = work[j]
      /\ \A j \in Ids \ DOMAIN work : v[j] = db[j]
  BY OverIs
<1>6. u = [v EXCEPT ![i] = r]
  <2>1. \A j \in Ids : u[j] = IF j = i THEN r ELSE v[j]
    BY <1>1, <1>3 DEF Overlaid
  <2>2. DOMAIN u = Ids /\ DOMAIN v = Ids /\ u = [j \in Ids |-> u[j]]
    BY DEF Overlaid
  <2>3. QED
    BY <1>1, <1>5, <2>1, <2>2 DEF Tables
<1>7. \A j \in Used(v) \ {i} : v[j].sub # r.sub /\ v[j].email # r.email
  <2>1. \A j \in Used(v) : j \in Ids
    BY DEF Used
  <2>2. QED
    BY <1>1, <1>5, <2>1
<1> HIDE DEF v
<1>8. OwnRows(u) /\ ByHand(u)
  <2>1. v \in Tables
    BY <1>5
  <2>2. u = [v EXCEPT ![i] = r]
    BY <1>6
  <2> HIDE DEF u
  <2>3. QED
    BY <1>1, <1>2, <1>7, <2>1, <2>2, RowFits
<1>9. QED
  BY <1>3, <1>4, <1>6, <1>8 DEF TwoSound, Put, v

-----------------------------------------------------------------------------
\* What storing a listing leaves alone, and what it writes.
StoredSoFar(db, map, out) ==
  /\ out \in Tables /\ TwoSound(out)
  /\ \A i \in DOMAIN work : out[i] = db[i]
  /\ \A i \in Ids : \/ out[i] = db[i]
                    \/ out[i] # NoRow /\ out[i].sub \in DOMAIN map /\ out[i].active = map[out[i].sub].enabled
  /\ \A i \in Used(db) : (db[i].sub \notin DOMAIN map /\ \A s \in DOMAIN map : map[s].email # db[i].email)
                         => out[i] = db[i]
FreeFor(db, map) == \A s \in DOMAIN map : FreeIn(db, s, map[s].email)

\* One more profile.
LEMMA StoreOne ==
  ASSUME SyncAssumption, Written(work), NEW db \in Tables, NEW map, Listed(map), FreeFor(db, map),
         NEW acc \in Accs, acc.bad \/ StoredSoFar(db, map, acc.db), NEW s \in DOMAIN map,
         NEW next, next = Store(acc, s, map), ~next.bad
  PROVE  StoredSoFar(db, map, next.db)
<1> DEFINE team == TeamOf(map[s].groups, Mapped \ Homeless)
           up == Upserted(acc.db, s, map[s], team)
           e == map[s].email
<1>1. s \in Subs /\ map[s] \in Accounts /\ acc.db \in Tables /\ acc.bad \in BOOLEAN
  BY DEF Listed, Accs
<1>2. team \in Mapped \cup {DefaultTeam}
  BY TeamIsWanted
<1>3. next.db = [acc.db EXCEPT ![up.id] = up.row] /\ next.bad = (acc.bad \/ Collides(acc.db, up.id, up.row))
  BY DEF Store
<1>4. StoredSoFar(db, map, acc.db) /\ ~Collides(acc.db, up.id, up.row)
  BY <1>3
<1> HIDE DEF team
<1>5. up.id = Target(acc.db, s, e)
  BY DEF Upserted
<1>6. FreeIn(acc.db, s, e)
  <2>1. FreeIn(db, s, e)
    BY DEF FreeFor
  <2>2. QED
    BY <1>4, <2>1 DEF FreeIn, StoredSoFar
<1> HIDE DEF up
<1>7. Places(acc.db, s, e, up.id) /\ up.id \notin DOMAIN work
  <2>1. OwnRows(Overlaid(acc.db, work))
    BY <1>4 DEF StoredSoFar, TwoSound
  <2>2. QED
    BY <1>1, <1>5, <1>6, <2>1, TargetFree
<1>8. up.id \in Ids
  BY <1>7 DEF Places
<1>9. up.row \in Rows /\ up.row.sub = s /\ up.row.email = e /\ up.row.active = map[s].enabled
  BY <1>1, <1>2, <1>8, RowIs DEF up
<1>10. /\ next.db \in Tables /\ TwoSound(next.db)
       /\ next.db[up.id] = up.row /\ \A j \in Ids \ {up.id} : next.db[j] = acc.db[j]
  <2>1. Fits(acc.db, up.id, up.row)
    BY <1>1, <1>4, <1>6, <1>7, <1>8, <1>9 DEF FreeIn, Fits
  <2>2. TwoSound(acc.db)
    BY <1>4 DEF StoredSoFar
  <2>3. Put(next.db, acc.db, up.id, up.row)
    BY <1>1, <1>3, <2>1, <2>2, StoreFits
  <2>4. QED
    BY <2>3 DEF Put
<1>11. \A i \in DOMAIN work : next.db[i] = db[i]
  BY <1>4, <1>7, <1>10 DEF StoredSoFar, Written
<1>12. \A i \in Ids : \/ next.db[i] = db[i]
                      \/ next.db[i] # NoRow /\ next.db[i].sub \in DOMAIN map /\ next.db[i].active = map[next.db[i].sub].enabled
  <2>1. up.row # NoRow
    BY <1>9 DEF SyncAssumption
  <2>2. QED
    BY <1>4, <1>9, <1>10, <2>1 DEF StoredSoFar
<1>13. ASSUME NEW i \in Used(db), db[i].sub \notin DOMAIN map, \A u \in DOMAIN map : map[u].email # db[i].email
       PROVE  next.db[i] = db[i]
  <2>1. acc.db[i] = db[i] /\ i \in Ids /\ i \in Used(acc.db)
    BY <1>4, <1>13 DEF StoredSoFar, Used
  <2>2. up.id # i
    BY <1>7, <1>13, <2>1 DEF Places, BySub, ByEmail
  <2>3. QED
    BY <1>10, <2>1, <2>2
<1>14. QED
  BY <1>10, <1>11, <1>12, <1>13 DEF StoredSoFar

\* All of them.
LEMMA StoredKeeps ==
  ASSUME SyncAssumption, Written(work), NEW db \in Tables, TwoSound(db), NEW map, Listed(map), FreeFor(db, map)
  PROVE  StoredSoFar(db, map, Stored(db, map))
<1>0. StoredSoFar(db, map, db)
  BY DEF StoredSoFar
<1>1. PICK seq \in Seq(DOMAIN map) : \E h :
        /\ Storing(h, db, map, seq)
        /\ Stored(db, map) = IF h[Len(seq)].bad THEN db ELSE h[Len(seq)].db
  BY StoredStepwise
<1>2. PICK h : /\ Storing(h, db, map, seq)
               /\ Stored(db, map) = IF h[Len(seq)].bad THEN db ELSE h[Len(seq)].db
  BY <1>1
<1> DEFINE n == Len(seq)
           Good == {k \in 0..n : h[k].bad \/ StoredSoFar(db, map, h[k].db)}
<1>3. n \in Nat /\ \A k \in 1..n : seq[k] \in DOMAIN map
  OBVIOUS
<1>4. h \in [0..n -> Accs] /\ h[0] = [db |-> db, bad |-> FALSE] /\ \A k \in 1..n : h[k] = Store(h[k - 1], seq[k], map)
  BY <1>2 DEF Storing
<1> HIDE DEF n
<1>5. 0 \in Good
  BY <1>0, <1>3, <1>4
<1>6. ASSUME NEW k \in 1..n, k - 1 \in Good PROVE k \in Good
  <2>1. k \in 0..n /\ k - 1 \in 0..n /\ seq[k] \in DOMAIN map
    BY <1>3
  <2>2. h[k - 1] \in Accs /\ h[k] = Store(h[k - 1], seq[k], map)
    BY <1>4, <2>1
  <2>3. h[k - 1].bad \/ StoredSoFar(db, map, h[k - 1].db)
    BY <1>6
  <2>5. ~h[k].bad => StoredSoFar(db, map, h[k].db)
    BY <2>1, <2>2, <2>3, StoreOne
  <2>6. QED
    BY <2>1, <2>5
<1> HIDE DEF Good
<1>7. \A k \in 0..n : k \in Good
  BY <1>3, <1>5, <1>6, PlaceInduction
<1>8. h[n].bad \/ StoredSoFar(db, map, h[n].db)
  BY <1>3, <1>7 DEF Good
<1>9. QED
  BY <1>0, <1>2, <1>8 DEF n

-----------------------------------------------------------------------------
(* The types, step by step.                                                *)
Ats == {"idle", "done"} \cup Crawling
SyncShape(b) ==
  b \in [at : Ats, todo : SUBSET Groups, map : {b.map}, synced : SUBSET Mapped, snap : {b.snap},
         left : SUBSET Subs, seen : SUBSET Subs, processed : Nat, moved : SUBSET Ids]
SnapTyped(b) == DOMAIN b.snap \subseteq Subs /\ \A s \in DOMAIN b.snap : b.snap[s] \in Rows /\ b.snap[s].sub = s

\* The types of sync_all, in parts.
LEMMA SyncIs == SyncTyped <=> SyncShape(sync) /\ Listed(sync.map) /\ SnapTyped(sync)
BY DEF SyncTyped, SyncShape, SnapTyped, Ats

\* And after a step.
LEMMA SyncIsNext == SyncTyped' <=> SyncShape(sync') /\ Listed(sync'.map) /\ SnapTyped(sync')
BY DEF SyncTyped, SyncShape, SnapTyped, Ats, Listed

\* A sync that does not run has its types.
LEMMA NoSyncTyped == ASSUME SyncAssumption PROVE SyncShape(NoSync) /\ Listed(NoSync.map) /\ SnapTyped(NoSync)
<1>1. NoSync.map = <<>> /\ NoSync.snap = <<>> /\ DOMAIN <<>> = {}
  BY DEF NoSync
<1>2. SyncShape(NoSync)
  BY DEF NoSync, SyncShape, Ats
<1>3. QED
  BY <1>1, <1>2 DEF Listed, SnapTyped

\* A listing stays one when members are noted.
LEMMA NotedListed ==
  ASSUME SyncAssumption, PoolTyped, NEW map, Listed(map), NEW members, NEW groups \in SUBSET Groups,
         \A s \in members : s \in Subs /\ pool[s] # NoAccount
  PROVE  Listed(Noted(map, members, groups))
<1> DEFINE new == Noted(map, members, groups)
<1>1. DOMAIN new = DOMAIN map \cup members
  BY DEF Noted
<1>2. ASSUME NEW s \in DOMAIN map PROVE s \in Subs /\ new[s] \in Accounts
  <2>1. s \in Subs /\ map[s] \in Accounts
    BY DEF Listed
  <2>2. new[s] = [map[s] EXCEPT !.groups = @ \cup IF s \in members THEN groups ELSE {}]
    BY DEF Noted
  <2>3. QED
    BY <2>1, <2>2 DEF Accounts
<1>3. ASSUME NEW s \in members, s \notin DOMAIN map PROVE s \in Subs /\ new[s] \in Accounts
  <2>1. s \in Subs /\ pool[s] \in Accounts
    BY DEF PoolTyped
  <2>2. new[s] = [email |-> pool[s].email, enabled |-> pool[s].enabled, groups |-> groups]
    BY <1>3 DEF Noted
  <2>3. QED
    BY <2>1, <2>2 DEF Accounts
<1> HIDE DEF new
<1>4. QED
  BY <1>1, <1>2, <1>3 DEF Listed, new

\* Types, when a sync starts.
LEMMA StartSyncTyped ==
  ASSUME SyncAssumption, SyncTyped, StartSync
  PROVE  SyncTyped'
<1>1. SyncShape(NoSync) /\ Listed(NoSync.map) /\ SnapTyped(NoSync)
  BY NoSyncTyped
<1>2. \/ sync' = [NoSync EXCEPT !.at = "groups", !.todo = Groups]
      \/ sync' = [NoSync EXCEPT !.at = "done"]
  BY DEF StartSync
<1>3. SyncShape(sync') /\ sync'.map = NoSync.map /\ sync'.snap = NoSync.snap
  BY <1>1, <1>2 DEF SyncShape, Ats, NoSync, Crawling
<1>4. QED
  BY <1>1, <1>3, SyncIsNext DEF SnapTyped

\* Types, when a group is listed.
LEMMA FetchGroupTyped ==
  ASSUME SyncAssumption, SyncTyped, PoolTyped, NEW g \in Groups, FetchGroup(g)
  PROVE  SyncTyped'
<1> DEFINE team == IF g \in Mapped \ Homeless THEN {g} ELSE {}
           after == [sync EXCEPT !.todo = @ \ {g}, !.synced = @ \cup team]
           noted == Noted(sync.map, MembersOf(g), {g})
<1>1. SyncShape(sync) /\ Listed(sync.map) /\ SnapTyped(sync)
  BY SyncIs
<1>2. sync' = after \/ sync' = [after EXCEPT !.map = noted]
  <2>1. after.map = sync.map
    BY <1>1 DEF SyncShape
  <2>2. QED
    BY <2>1 DEF FetchGroup
<1>3. Listed(noted)
  <2>1. \A s \in MembersOf(g) : s \in Subs /\ pool[s] # NoAccount
    BY DEF MembersOf
  <2>2. QED
    BY <1>1, <2>1, NotedListed
<1> HIDE DEF noted
<1>4. SyncShape(after) /\ after.map = sync.map /\ after.snap = sync.snap
  <2>1. team \subseteq Mapped
    OBVIOUS
  <2> HIDE DEF team
  <2>2. QED
    BY <1>1, <2>1 DEF SyncShape
<1> HIDE DEF after
<1>5. SyncShape(sync') /\ (sync'.map = sync.map \/ sync'.map = noted) /\ sync'.snap = sync.snap
  <2>1. CASE sync' = after
    BY <1>4, <2>1
  <2>2. CASE sync' = [after EXCEPT !.map = noted]
    <3>1. sync'.map = noted /\ sync'.snap = after.snap
      BY <1>4, <2>2 DEF SyncShape
    <3>2. SyncShape(sync')
      BY <1>4, <2>2 DEF SyncShape
    <3>3. QED
      BY <1>4, <3>1, <3>2
  <2>3. QED
    BY <1>2, <2>1, <2>2
<1>6. QED
  BY <1>1, <1>3, <1>5, SyncIsNext DEF SnapTyped

\* Types, when the pool is listed.
LEMMA ListAllUsersTyped ==
  ASSUME SyncAssumption, SyncTyped, PoolTyped, ListAllUsers
  PROVE  SyncTyped'
<1> DEFINE noted == Noted(sync.map, {s \in Subs : pool[s] # NoAccount}, {})
<1>1. SyncShape(sync) /\ Listed(sync.map) /\ SnapTyped(sync)
  BY SyncIs
<1>2. sync' = [sync EXCEPT !.at = "prefetch"] \/ sync' = [sync EXCEPT !.at = "prefetch", !.map = noted]
  BY DEF ListAllUsers
<1>3. Listed(noted)
  BY <1>1, NotedListed
<1> HIDE DEF noted
<1>4. SyncShape(sync') /\ (sync'.map = sync.map \/ sync'.map = noted) /\ sync'.snap = sync.snap
  BY <1>1, <1>2 DEF SyncShape, Ats, Crawling
<1>5. QED
  BY <1>1, <1>3, <1>4, SyncIsNext DEF SnapTyped

\* Types, when the table is read; the snapshot has its rows.
LEMMA PrefetchTyped ==
  ASSUME SyncAssumption, SyncTyped, TableTyped, Prefetch
  PROVE  /\ SyncTyped'
         /\ \A s \in DOMAIN sync'.snap : \E i \in Used(rows) : sync'.snap[s] = rows[i]
<1> DEFINE known == {s \in DOMAIN sync.map : BySub(rows, s) # {}}
           snap == [s \in known |-> rows[CHOOSE i \in BySub(rows, s) : TRUE]]
<1>1. SyncShape(sync) /\ Listed(sync.map) /\ SnapTyped(sync)
  BY SyncIs
<1>2. sync' = [sync EXCEPT !.at = "users", !.left = DOMAIN sync.map, !.snap = snap]
  BY DEF Prefetch
<1>3. \A s \in DOMAIN snap : \E i \in BySub(rows, s) : snap[s] = rows[i]
  OBVIOUS
<1>4. DOMAIN snap \subseteq DOMAIN sync.map
  OBVIOUS
<1> HIDE DEF snap
<1>5. sync'.map = sync.map /\ sync'.snap = snap
  BY <1>1, <1>2 DEF SyncShape
<1>6. SyncShape(sync')
  BY <1>1, <1>2 DEF SyncShape, Ats, Crawling, Listed
<1>7. SnapTyped(sync')
  <2>1. \A s \in DOMAIN snap : snap[s] \in Rows /\ snap[s].sub = s
    BY <1>3 DEF BySub, Used, TableTyped
  <2>2. QED
    BY <1>1, <1>4, <1>5, <2>1 DEF SnapTyped, Listed
<1>8. QED
  BY <1>1, <1>3, <1>5, <1>6, <1>7, SyncIsNext DEF BySub

\* The steps that keep what was read and only advance.
LEMMA AdvanceTyped ==
  ASSUME SyncAssumption, SyncTyped, TableTyped, CommitRest \/ DeactivateUnseen \/ ReadStaleTeams \/ CommitMoves
  PROVE  /\ SyncTyped'
         /\ sync'.map = sync.map /\ sync'.left = sync.left /\ sync'.seen = sync.seen /\ sync'.todo = sync.todo
         /\ sync'.synced = sync.synced /\ sync'.snap = sync.snap
<1>1. SyncShape(sync) /\ Listed(sync.map) /\ SnapTyped(sync)
  BY SyncIs
<1> DEFINE moved == {i \in Used(rows) : /\ rows[i].active
                                        /\ rows[i].team \notin sync.synced \cup {DefaultTeam}}
<1>2. \/ sync' = [sync EXCEPT !.at = "missing"] \/ sync' = [sync EXCEPT !.at = "teams"]
      \/ sync' = [sync EXCEPT !.at = "moves", !.moved = moved] \/ sync' = [sync EXCEPT !.at = "done"]
  BY DEF CommitRest, DeactivateUnseen, ReadStaleTeams, CommitMoves
<1>3. moved \subseteq Ids
  BY DEF Used
<1> HIDE DEF moved
<1>4. SyncShape(sync') /\ sync'.map = sync.map /\ sync'.snap = sync.snap
  BY <1>1, <1>2, <1>3 DEF SyncShape, Ats, Crawling
<1>5. sync'.left = sync.left /\ sync'.seen = sync.seen /\ sync'.todo = sync.todo /\ sync'.synced = sync.synced
  BY <1>1, <1>2 DEF SyncShape
<1>6. QED
  BY <1>1, <1>4, <1>5, SyncIsNext DEF SnapTyped

\* Types, when a user is synced, and what it leaves of the crawl.
LEMMA SyncOneTyped ==
  ASSUME SyncAssumption, SyncTyped, NEW s \in Subs, SyncOne(s)
  PROVE  /\ SyncTyped'
         /\ sync'.at = "users" /\ sync'.left = sync.left \ {s} /\ sync'.seen = sync.seen \cup {s}
         /\ sync'.map = sync.map /\ sync'.todo = sync.todo /\ sync'.synced = sync.synced /\ sync'.snap = sync.snap
<1>1. SyncShape(sync) /\ Listed(sync.map) /\ SnapTyped(sync)
  BY SyncIs
<1> DEFINE next == [sync EXCEPT !.left = @ \ {s}, !.seen = @ \cup {s}]
<1>2. sync' = next \/ sync' = [next EXCEPT !.processed = @ + 1]
  <2>1. \A b : Seen(s, b) = sync.seen \cup {s}
    BY DEF Seen
  <2>2. QED
    BY <1>1, <2>1 DEF SyncOne
<1>3. SyncShape(next) /\ next.map = sync.map /\ next.snap = sync.snap /\ next.at = sync.at
      /\ next.left = sync.left \ {s} /\ next.seen = sync.seen \cup {s} /\ next.todo = sync.todo /\ next.synced = sync.synced
  BY <1>1 DEF SyncShape
<1> HIDE DEF next
<1>4. SyncShape(sync') /\ sync'.map = next.map /\ sync'.snap = next.snap /\ sync'.at = next.at
      /\ sync'.left = next.left /\ sync'.seen = next.seen /\ sync'.todo = next.todo /\ sync'.synced = next.synced
  BY <1>2, <1>3 DEF SyncShape
<1>5. sync.at = "users"
  BY DEF SyncOne
<1>6. SyncTyped'
  BY <1>1, <1>3, <1>4, SyncIsNext DEF SnapTyped
<1>7. QED
  BY <1>3, <1>4, <1>5, <1>6

\* Types, when a sync aborts.
LEMMA SyncAbortsTyped ==
  ASSUME SyncAssumption, SyncAborts
  PROVE  SyncTyped'
BY NoSyncTyped, SyncIsNext DEF SyncAborts

\* A transaction of its own.
LEMMA SingleNext ==
  ASSUME SyncAssumption, SingleTyped, PoolTyped
  PROVE  /\ \A e \in Emails : FetchUser(e) => SingleTyped'
         /\ \A g \in Groups : FetchMembers(g) => SingleTyped'
         /\ StoreSingle => SingleTyped'
<1>0. \A s \in Subs : pool[s] # NoAccount => pool[s] \in Accounts
  BY DEF PoolTyped
<1>1. ASSUME NEW e \in Emails, FetchUser(e) PROVE SingleTyped'
  <2> DEFINE found == {s \in Subs : pool[s] # NoAccount /\ pool[s].email = e}
             map1 == [s \in found |-> pool[s]]
             map2 == [s \in found |-> [pool[s] EXCEPT !.groups = {}]]
  <2>1. Listed(map1) /\ Listed(map2)
    <3>1. \A s \in found : s \in Subs /\ pool[s] \in Accounts
      BY <1>0
    <3>2. \A s \in found : [pool[s] EXCEPT !.groups = {}] \in Accounts
      BY <3>1 DEF Accounts
    <3> HIDE DEF found
    <3>3. QED
      BY <3>1, <3>2 DEF Listed
  <2>2. single' = [op |-> "user", of |-> e, map |-> map1] \/ single' = [op |-> "user", of |-> e, map |-> map2]
    BY <1>1 DEF FetchUser
  <2> HIDE DEF map1, map2
  <2>3. QED
    BY <2>1, <2>2 DEF SingleTyped, Listed
<1>2. ASSUME NEW g \in Groups, FetchMembers(g) PROVE SingleTyped'
  <2> DEFINE map == [s \in MembersOf(g) |-> [pool[s] EXCEPT !.groups = {g}]]
  <2>1. Listed(map)
    <3>1. \A s \in MembersOf(g) : s \in Subs /\ pool[s] \in Accounts
      BY <1>0 DEF MembersOf
    <3>2. \A s \in MembersOf(g) : [pool[s] EXCEPT !.groups = {g}] \in Accounts
      BY <3>1 DEF Accounts
    <3>3. QED
      BY <3>1, <3>2 DEF Listed
  <2>2. single' = [op |-> "group", of |-> g, map |-> map]
    BY <1>2 DEF FetchMembers
  <2> HIDE DEF map
  <2>3. QED
    BY <2>1, <2>2 DEF SingleTyped, Listed
<1>3. ASSUME StoreSingle PROVE SingleTyped'
  <2>1. single' = NoSingle
    BY <1>3 DEF StoreSingle
  <2>2. single' = [op |-> "none", of |-> NoAccount, map |-> <<>>] /\ DOMAIN <<>> = {}
    BY <2>1 DEF NoSingle
  <2>3. QED
    BY <2>2 DEF SingleTyped, Listed
<1>4. QED
  BY <1>1, <1>2, <1>3

\* The pool.
LEMMA ChangeTyped ==
  ASSUME SyncAssumption, PoolTyped, NEW s \in Subs, PoolChanges(s)
  PROVE  /\ PoolTyped'
         /\ \E account : /\ Change(s, account) /\ pool'[s] = account
                         /\ \A u \in Subs \ {s} : pool'[u] = pool[u]
<1>1. PICK account \in Accounts \cup {NoAccount} : Change(s, account)
  <2>1. CASE pool[s] = NoAccount
    <3>1. PICK e \in Emails, gs \in Memberships : Change(s, [email |-> e, enabled |-> TRUE, groups |-> gs])
      BY <2>1 DEF PoolChanges
    <3>2. [email |-> e, enabled |-> TRUE, groups |-> gs] \in Accounts
      BY DEF Accounts, SyncAssumption
    <3>3. QED
      BY <3>1, <3>2
  <2>2. CASE pool[s] # NoAccount
    <3>1. pool[s] \in Accounts
      BY <2>2 DEF PoolTyped
    <3>2. [pool[s] EXCEPT !.enabled = ~@] \in Accounts
      BY <3>1 DEF Accounts
    <3>3. \A gs \in Memberships : [pool[s] EXCEPT !.groups = gs] \in Accounts
      BY <3>1 DEF Accounts, SyncAssumption
    <3>4. \A e \in Emails : [pool[s] EXCEPT !.email = e] \in Accounts
      BY <3>1 DEF Accounts
    <3>5. QED
      BY <2>2, <3>2, <3>3, <3>4 DEF PoolChanges
  <2>3. QED
    BY <2>1, <2>2
<1>2. pool' = [pool EXCEPT ![s] = account]
  BY <1>1 DEF Change
<1>3. pool' \in [Subs -> Accounts \cup {NoAccount}] /\ pool'[s] = account /\ \A u \in Subs \ {s} : pool'[u] = pool[u]
  BY <1>2 DEF PoolTyped
<1>4. ASSUME NEW a \in Subs, NEW b \in Subs, a # b, pool'[a] # NoAccount, pool'[b] # NoAccount
      PROVE  pool'[a].email # pool'[b].email
  <2>1. account # NoAccount => \A u \in Subs \ {s} : pool[u] # NoAccount => pool[u].email # account.email
    BY <1>1 DEF Change
  <2>2. CASE a = s
    BY <1>3, <1>4, <2>1, <2>2
  <2>3. CASE b = s
    BY <1>3, <1>4, <2>1, <2>3
  <2>4. CASE a # s /\ b # s
    BY <1>3, <1>4, <2>4 DEF PoolTyped
  <2>5. QED
    BY <2>2, <2>3, <2>4
<1>5. PoolTyped'
  BY <1>3, <1>4 DEF PoolTyped
<1>6. QED
  BY <1>1, <1>3, <1>5

-----------------------------------------------------------------------------
(* What each step writes.                                                  *)
\* The sync's view is the table with the batch over it.
LEMMA ViewOver == View = Overlaid(rows, work)
BY DEF View, Overlaid

\* And after a step.
LEMMA ViewOverNext == View' = Overlaid(rows', work')
BY DEF View, Overlaid

FromMap(w, map) == \A i \in DOMAIN w : w[i].sub \in DOMAIN map /\ w[i].active = map[w[i].sub].enabled
TableKept == Written(work) /\ rows \in Tables /\ TwoSound(rows) /\ FromMap(work, sync.map)
                           /\ (sync.at # "users" => DOMAIN work = {})

\* The table and the batch, as one predicate.
LEMMA TableIs == TableTyped /\ TableSound <=> TableKept
BY ViewOver DEF TableTyped, TableSound, TableKept, Written, Tables, TwoSound, FromMap

\* What has to be shown of them after a step.
LEMMA TableIsNext ==
  ASSUME Written(work'), rows' \in Tables, OwnRows(rows'), ByHand(rows'),
         OwnRows(Overlaid(rows', work')), ByHand(Overlaid(rows', work')), FromMap(work', sync'.map),
         sync'.at # "users" => DOMAIN work' = {}
  PROVE  TableTyped' /\ TableSound'
BY ViewOverNext DEF TableTyped, TableSound, Written, Tables, FromMap, OwnRows, ByHand, Used

\* Where the batch is empty, the table is all there is.
LEMMA OverNothing ==
  ASSUME SyncAssumption, NEW db \in Tables, NEW w, DOMAIN w = {}
  PROVE  Overlaid(db, w) = db
<1>1. Overlaid(db, w) = [i \in Ids |-> db[i]]
  BY DEF Overlaid
<1>2. QED
  BY <1>1 DEF Tables

-----------------------------------------------------------------------------
\* What the sync's batch holds, kept or committed.
Taken(db) ==
  \A i \in Ids : db[i] = rows[i] \/ (db[i].sub \in DOMAIN sync.map /\ db[i].active = sync.map[db[i].sub].enabled)

\* The batch grows or is committed: the view is the same whichever.
LEMMA BatchTaken ==
  ASSUME SyncAssumption, TableKept, NEW kept, Written(kept), FromMap(kept, sync.map),
         NEW new, new = Overlaid(rows, kept), OwnRows(new), ByHand(new),
         (rows' = new /\ work' = <<>>) \/ (rows' = rows /\ work' = kept /\ sync'.at = "users"),
         sync'.map = sync.map
  PROVE  TableTyped' /\ TableSound' /\ View' = new /\ Taken(rows')
<1>1. new \in Tables /\ rows \in Tables /\ OwnRows(rows) /\ ByHand(rows)
  BY OverIs DEF TableKept, TwoSound
<1>2. Taken(new)
  BY DEF Taken, Overlaid, FromMap
<1>3. CASE rows' = new /\ work' = <<>>
  <2>1. DOMAIN work' = {}
    BY <1>3
  <2>2. Overlaid(rows', work') = new
    BY <1>1, <1>3, <2>1, OverNothing
  <2>3. Written(work') /\ FromMap(work', sync'.map)
    BY <2>1 DEF Written, FromMap
  <2>4. TableTyped' /\ TableSound'
    BY <1>1, <1>3, <2>1, <2>2, <2>3, TableIsNext
  <2>5. QED
    BY <1>2, <1>3, <2>2, <2>4, ViewOverNext
<1>4. CASE rows' = rows /\ work' = kept /\ sync'.at = "users"
  <2>1. Overlaid(rows', work') = new
    BY <1>4
  <2>2. Written(work') /\ FromMap(work', sync'.map)
    BY <1>4
  <2>3. TableTyped' /\ TableSound'
    BY <1>1, <1>4, <2>1, <2>2, TableIsNext
  <2>4. Taken(rows')
    BY <1>4 DEF Taken
  <2>5. QED
    BY <2>1, <2>3, <2>4, ViewOverNext
<1>5. QED
  BY <1>3, <1>4

\* What SyncOne did.
OneSkipped(s) ==
  /\ View' = View /\ conflicts' = conflicts /\ s \in DOMAIN sync.snap
  /\ ~NeedsUpdate(sync.snap[s], s, sync.map[s], TeamOf(sync.map[s].groups, sync.synced))
OneWritten(s, i, r) ==
  /\ View' = [View EXCEPT ![i] = r] /\ conflicts' = conflicts
  /\ Places(View, s, sync.map[s].email, i)
  /\ r \in Rows
  /\ r = Row(s, sync.map[s].email, TeamOf(sync.map[s].groups, sync.synced), RoleOf(sync.map[s].groups),
             sync.map[s].enabled, r.oidc)
OneDone(s) ==
  \/ OneSkipped(s)
  \/ View' = View /\ conflicts' = conflicts \cup {s}
  \/ \E i \in Ids, r \in Rows : OneWritten(s, i, r)

\* Where the row of a user goes, when it does not collide.
Wanted(s, team, up, wrote) ==
  /\ team = TeamOf(sync.map[s].groups, sync.synced)
  /\ up = Upserted(View, s, sync.map[s], team) /\ ~Collides(View, up.id, up.row)
  /\ wrote = [i \in DOMAIN work \cup {up.id} |-> IF i = up.id THEN up.row ELSE work[i]]
RowFor(s, team, up, wrote) ==
  /\ Places(View, s, sync.map[s].email, up.id) /\ up.id \in Ids /\ up.row \in Rows
  /\ up.row = Row(s, sync.map[s].email, team, RoleOf(sync.map[s].groups), sync.map[s].enabled, up.row.oidc)
  /\ Written(wrote) /\ FromMap(wrote, sync.map)
  /\ Overlaid(rows, wrote) = [View EXCEPT ![up.id] = up.row]
  /\ OwnRows(Overlaid(rows, wrote)) /\ ByHand(Overlaid(rows, wrote))

\* Where SyncOne writes, and what.
LEMMA OneRow ==
  ASSUME SyncAssumption, SyncTyped, TableKept, NEW s \in DOMAIN sync.map,
         NEW team, NEW up, NEW wrote, Wanted(s, team, up, wrote)
  PROVE  RowFor(s, team, up, wrote)
<1> DEFINE v == View
           info == sync.map[s]
<1>0. /\ team = TeamOf(info.groups, sync.synced)
      /\ up = Upserted(v, s, info, team) /\ ~Collides(v, up.id, up.row)
      /\ wrote = [i \in DOMAIN work \cup {up.id} |-> IF i = up.id THEN up.row ELSE work[i]]
  BY DEF Wanted
<1>1. s \in Subs /\ info \in Accounts /\ sync.synced \subseteq Mapped
  BY DEF SyncTyped, Listed
<1>2. /\ v = Overlaid(rows, work) /\ v \in Tables /\ Written(work) /\ rows \in Tables
      /\ Used(v) = Used(rows) \cup DOMAIN work /\ OwnRows(v) /\ ByHand(v)
  <2>1. v = Overlaid(rows, work) /\ Written(work) /\ rows \in Tables /\ OwnRows(v) /\ ByHand(v)
    BY ViewOver DEF TableKept, TwoSound
  <2> HIDE DEF v
  <2>2. QED
    BY <2>1, OverIs
<1>3. team \in Mapped \cup {DefaultTeam}
  BY <1>0, <1>1, TeamIsWanted
<1>4. up.id = Target(v, s, info.email)
  BY <1>0 DEF Upserted
<1>5. v = Overlaid(v, work)
  <2>1. \A i \in DOMAIN work : v[i] = work[i]
    BY <1>2 DEF Overlaid, Written
  <2>2. Overlaid(v, work) = [i \in Ids |-> v[i]]
    BY <2>1 DEF Overlaid
  <2>3. QED
    BY <1>2, <2>2 DEF Tables
<1> HIDE DEF v, info
<1>6. Places(v, s, info.email, up.id)
  BY <1>1, <1>2, <1>4, <1>5, TargetIs
<1>7. up.id \in Ids
  BY <1>6 DEF Places
<1>8. /\ up.row \in Rows /\ up.row.sub = s /\ up.row.active = info.enabled
      /\ up.row = Row(s, info.email, team, RoleOf(info.groups), info.enabled, up.row.oidc)
  BY <1>1, <1>2, <1>3, <1>0, <1>7, RowIs
<1>9. Written(wrote) /\ FromMap(wrote, sync.map)
  <2>1. Written(work) /\ FromMap(work, sync.map)
    BY DEF TableKept
  <2>2. up.row.active = sync.map[s].enabled
    BY <1>8 DEF info
  <2>3. \A i \in DOMAIN wrote : i \in Ids /\ wrote[i] \in Rows
    BY <1>0, <1>7, <1>8, <2>1 DEF Written
  <2>4. \A i \in DOMAIN wrote : wrote[i].sub \in DOMAIN sync.map /\ wrote[i].active = sync.map[wrote[i].sub].enabled
    BY <1>0, <1>8, <2>1, <2>2 DEF FromMap
  <2>5. QED
    BY <2>3, <2>4 DEF Written, FromMap
<1> DEFINE new == Overlaid(rows, wrote)
<1>10. new = [v EXCEPT ![up.id] = up.row]
  <2>1. \A i \in Ids : new[i] = IF i = up.id THEN up.row ELSE v[i]
    BY <1>0, <1>2 DEF Overlaid
  <2>2. new = [i \in Ids |-> new[i]]
    BY DEF Overlaid
  <2> HIDE DEF new
  <2>3. QED
    BY <1>2, <2>1, <2>2 DEF Tables
<1>11. OwnRows(new) /\ ByHand(new)
  <2>1. \A j \in Used(v) \ {up.id} : v[j].sub # up.row.sub /\ v[j].email # up.row.email
    BY <1>0 DEF Collides
  <2> HIDE DEF new
  <2>2. QED
    BY <1>1, <1>2, <1>7, <1>8, <1>10, <2>1, RowFits
<1>12. QED
  BY <1>6, <1>7, <1>8, <1>9, <1>10, <1>11 DEF v, info, RowFor

\* SyncOne skips, collides, or writes the one row.
LEMMA SyncOneDoes ==
  ASSUME SyncAssumption, SyncTyped, TableKept, NEW s \in Subs, SyncOne(s), sync.left \subseteq DOMAIN sync.map
  PROVE  TableTyped' /\ TableSound' /\ Taken(rows') /\ OneDone(s)
<1> DEFINE info == sync.map[s]
           team == TeamOf(info.groups, sync.synced)
           up   == Upserted(View, s, info, team)
           skip == s \in DOMAIN sync.snap /\ ~NeedsUpdate(sync.snap[s], s, info, team)
           bad  == Collides(View, up.id, up.row)
           wrote == [i \in DOMAIN work \cup {up.id} |-> IF i = up.id THEN up.row ELSE work[i]]
           kept  == IF bad THEN work ELSE wrote
<1>1. /\ s \in DOMAIN sync.map
      /\ IF skip THEN rows' = rows /\ work' = work /\ conflicts' = conflicts
         ELSE /\ conflicts' = IF bad THEN conflicts \cup {s} ELSE conflicts
              /\ \/ rows' = Overlaid(rows, kept) /\ work' = <<>>
                 \/ rows' = rows /\ work' = kept
  BY DEF SyncOne, Overlaid
<1>2. sync'.at = "users" /\ sync'.map = sync.map
  BY SyncOneTyped
<1>3. /\ Written(work) /\ FromMap(work, sync.map) /\ View = Overlaid(rows, work)
      /\ OwnRows(View) /\ ByHand(View)
  BY ViewOver DEF TableKept, TwoSound
<1>4. skip => OneSkipped(s) \/ View' # View
  BY <1>1 DEF OneSkipped
<1>5. CASE skip
  <2>1. rows' = rows /\ work' = work
    BY <1>1, <1>5
  <2> HIDE DEF skip
  <2>2. TableTyped' /\ TableSound' /\ View' = View /\ Taken(rows')
    BY <1>2, <1>3, <2>1, BatchTaken
  <2>3. QED
    BY <1>4, <1>5, <2>2 DEF OneDone
<1>6. CASE ~skip /\ bad
  <2>1. conflicts' = conflicts \cup {s} /\ \/ rows' = Overlaid(rows, work) /\ work' = <<>>
                                           \/ rows' = rows /\ work' = work
    BY <1>1, <1>6
  <2> HIDE DEF skip, bad
  <2>2. TableTyped' /\ TableSound' /\ View' = View /\ Taken(rows')
    BY <1>2, <1>3, <2>1, BatchTaken
  <2>3. QED
    BY <2>1, <2>2 DEF OneDone
<1>7. CASE ~skip /\ ~bad
  <2>1. conflicts' = conflicts /\ \/ rows' = Overlaid(rows, wrote) /\ work' = <<>>
                                  \/ rows' = rows /\ work' = wrote
    BY <1>1, <1>7
  <2>2. /\ Places(View, s, sync.map[s].email, up.id) /\ up.id \in Ids /\ up.row \in Rows
        /\ up.row = Row(s, sync.map[s].email, team, RoleOf(sync.map[s].groups), sync.map[s].enabled, up.row.oidc)
        /\ Written(wrote) /\ FromMap(wrote, sync.map)
        /\ Overlaid(rows, wrote) = [View EXCEPT ![up.id] = up.row]
        /\ OwnRows(Overlaid(rows, wrote)) /\ ByHand(Overlaid(rows, wrote))
    <3>1. s \in DOMAIN sync.map /\ Wanted(s, team, up, wrote)
      BY <1>1, <1>7 DEF Wanted
    <3> HIDE DEF wrote, up, team
    <3>2. RowFor(s, team, up, wrote)
      BY <3>1, OneRow
    <3>3. QED
      BY <3>2 DEF RowFor
  <2> HIDE DEF wrote, up, skip, bad
  <2>3. TableTyped' /\ TableSound' /\ View' = Overlaid(rows, wrote) /\ Taken(rows')
    BY <1>2, <2>1, <2>2, BatchTaken
  <2>4. OneWritten(s, up.id, up.row)
    BY <2>1, <2>2, <2>3 DEF OneWritten
  <2>5. QED
    BY <2>2, <2>3, <2>4 DEF OneDone
<1>8. QED
  BY <1>5, <1>6, <1>7
\* Steps that leave the table and the batch.
LEMMA TableUnchanged ==
  ASSUME SyncAssumption, TableKept, rows' = rows, work' = work, sync' = sync \/ sync.at # "users"
  PROVE  TableTyped' /\ TableSound' /\ View' = View
<1>1. sync'.at # "users" => DOMAIN work' = {}
  BY DEF TableKept
<1>2. FromMap(work', sync'.map)
  <2>1. CASE sync' = sync
    BY <2>1 DEF TableKept
  <2>2. CASE sync.at # "users"
    <3>1. DOMAIN work' = {}
      BY <2>2 DEF TableKept
    <3>2. QED
      BY <3>1 DEF FromMap
  <2>3. QED
    BY <2>1, <2>2
<1>3. /\ Written(work') /\ rows' \in Tables /\ OwnRows(rows') /\ ByHand(rows')
      /\ OwnRows(Overlaid(rows', work')) /\ ByHand(Overlaid(rows', work'))
  BY DEF TableKept, TwoSound
<1>4. View' = View
  BY ViewOver, ViewOverNext
<1>5. QED
  BY <1>1, <1>2, <1>3, <1>4, TableIsNext

\* Steps that change what a row says, not whose it is.
Alike(db, new) ==
  /\ new \in Tables /\ Used(new) = Used(db)
  /\ \A i \in Used(db) : new[i].sub = db[i].sub /\ new[i].email = db[i].email /\ new[i].oidc = db[i].oidc

\* A table stays sound while nobody's subject, email and provider change.
LEMMA AlikeSound ==
  ASSUME NEW db, NEW new, Alike(db, new), OwnRows(db), ByHand(db)
  PROVE  OwnRows(new) /\ ByHand(new)
BY DEF Alike, OwnRows, ByHand

\* Deactivating rows, or moving them, is such a change.
LEMMA MarkedAlike ==
  ASSUME SyncAssumption, NEW db \in Tables, NEW T, T \subseteq Used(db), NEW home \in Homes, NEW new,
         \/ new = [i \in Ids |-> IF i \in T THEN [db[i] EXCEPT !.active = FALSE] ELSE db[i]]
         \/ new = [i \in Ids |-> IF i \in T THEN [db[i] EXCEPT !.team = home] ELSE db[i]]
  PROVE  Alike(db, new) /\ \A i \in Ids \ T : new[i] = db[i]
<1>1. \A i \in T : db[i] \in Rows
  BY DEF Used, Tables
<1>2. \A i \in T : /\ new[i] \in Rows /\ new[i] # NoRow
                   /\ new[i].sub = db[i].sub /\ new[i].email = db[i].email /\ new[i].oidc = db[i].oidc
  <2> TAKE i \in T
  <2>1. db[i] \in Rows /\ i \in Ids
    BY <1>1 DEF Used
  <2>2. new[i] = [db[i] EXCEPT !.active = FALSE] \/ new[i] = [db[i] EXCEPT !.team = home]
    BY <2>1
  <2>3. new[i] \in Rows /\ new[i].sub = db[i].sub /\ new[i].email = db[i].email /\ new[i].oidc = db[i].oidc
    BY <2>1, <2>2 DEF Rows
  <2>4. QED
    BY <2>3 DEF SyncAssumption
<1>3. \A i \in Ids \ T : new[i] = db[i]
  OBVIOUS
<1>4. new \in Tables
  <2>1. \A i \in Ids : new[i] \in Rows \cup {NoRow}
    BY <1>2, <1>3 DEF Tables
  <2>2. DOMAIN new = Ids /\ new = [i \in Ids |-> new[i]]
    OBVIOUS
  <2>3. QED
    BY <2>1, <2>2 DEF Tables
<1>5. Used(new) = Used(db)
  BY <1>2, <1>3 DEF Used
<1>6. QED
  BY <1>2, <1>3, <1>4, <1>5 DEF Alike, Used

\* With no batch open, such a step keeps the table.
LEMMA AlikeKept ==
  ASSUME SyncAssumption, TableKept, DOMAIN work = {}, work' = work, Alike(rows, rows')
  PROVE  TableTyped' /\ TableSound' /\ View' = rows' /\ View = rows
<1>1. OwnRows(rows') /\ ByHand(rows') /\ rows' \in Tables
  BY AlikeSound DEF TableKept, TwoSound, Alike
<1>2. Overlaid(rows', work') = rows' /\ Overlaid(rows, work) = rows
  BY <1>1, OverNothing DEF TableKept
<1>3. Written(work') /\ FromMap(work', sync'.map)
  BY DEF Written, FromMap
<1>4. QED
  BY <1>1, <1>2, <1>3, TableIsNext, ViewOver, ViewOverNext

\* The last commit.
LEMMA CommitRestDoes ==
  ASSUME SyncAssumption, SyncTyped, TableKept, CommitRest
  PROVE  TableTyped' /\ TableSound' /\ View' = View /\ Taken(rows')
<1>1. rows' = Overlaid(rows, work) /\ work' = <<>> /\ View = Overlaid(rows, work)
  BY ViewOver DEF CommitRest
<1>1a. sync'.map = sync.map
  <2>1. TableTyped /\ CommitRest
    BY TableIs
  <2>2. QED
    BY <2>1, AdvanceTyped
<1>2. Written(work) /\ FromMap(work, sync.map) /\ OwnRows(Overlaid(rows, work)) /\ ByHand(Overlaid(rows, work))
  BY DEF TableKept, TwoSound
<1>3. QED
  BY <1>1, <1>1a, <1>2, BatchTaken

\* deactivate_missing_oidc_users changes only whom the crawl did not see.
LEMMA DeactivateDoes ==
  ASSUME SyncAssumption, TableKept, DeactivateUnseen
  PROVE  /\ TableTyped' /\ TableSound' /\ View' = rows' /\ View = rows
         /\ \A i \in Ids : rows'[i] = rows[i] \/ (i \in Used(rows) /\ rows[i].oidc /\ rows[i].sub \notin sync.seen
                                                  /\ rows'[i].sub = rows[i].sub)
<1> DEFINE T == {i \in Used(rows) : rows[i].oidc /\ rows[i].sub \notin sync.seen}
<1>1. rows' = [i \in Ids |-> IF i \in T THEN [rows[i] EXCEPT !.active = FALSE] ELSE rows[i]]
  BY DEF DeactivateUnseen
<1>2. T \subseteq Used(rows) /\ rows \in Tables
  BY DEF TableKept
<1> HIDE DEF T
<1>3. Alike(rows, rows') /\ \A i \in Ids \ T : rows'[i] = rows[i]
  <2>1. DefaultTeam \in Homes
    BY DEF Homes
  <2>2. QED
    BY <1>1, <1>2, <2>1, MarkedAlike
<1>4. DOMAIN work = {} /\ work' = work
  BY DEF DeactivateUnseen, TableKept
<1>5. TableTyped' /\ TableSound' /\ View' = rows' /\ View = rows
  BY <1>3, <1>4, AlikeKept
<1>6. QED
  BY <1>2, <1>3, <1>5 DEF Alike, T

\* Emptying the stale teams changes only their members.
LEMMA CommitMovesDoes ==
  ASSUME SyncAssumption, TableKept, CommitMoves, sync.moved \subseteq Used(rows)
  PROVE  /\ TableTyped' /\ TableSound' /\ View' = rows' /\ View = rows
         /\ \A i \in Ids \ sync.moved : rows'[i] = rows[i]
<1>1. rows' = [i \in Ids |-> IF i \in sync.moved THEN [rows[i] EXCEPT !.team = DefaultTeam] ELSE rows[i]]
  BY DEF CommitMoves
<1>2. rows \in Tables /\ DefaultTeam \in Homes
  BY DEF TableKept, Homes
<1>3. Alike(rows, rows') /\ \A i \in Ids \ sync.moved : rows'[i] = rows[i]
  BY <1>1, <1>2, MarkedAlike
<1>4. DOMAIN work = {} /\ work' = work
  BY DEF CommitMoves, TableKept
<1>5. QED
  BY <1>3, <1>4, AlikeKept

-----------------------------------------------------------------------------
\* What a transaction of its own leaves of the others' rows.
SingleDone ==
  /\ Used(rows) \subseteq Used(rows')
  /\ \A i \in DOMAIN work : rows'[i] = rows[i]
  /\ \A i \in Ids : \/ rows'[i] = rows[i]
                    \/ rows'[i] # NoRow /\ rows'[i].sub \in DOMAIN single.map
                       /\ rows'[i].active = single.map[rows'[i].sub].enabled
                    \/ single.op = "user" /\ DOMAIN single.map = {} /\ i \in Used(rows)
                       /\ rows[i].email = single.of /\ rows[i].oidc
  /\ \A i \in Used(rows) : ({rows[i].sub, rows[i].email} \cap touched' = {}) => rows'[i] = rows[i]

\* Deactivating by email changes only that email's rows.
LEMMA DeactivatedIs ==
  ASSUME SyncAssumption, TableKept, NEW e, NEW new, new = Deactivated(rows, e)
  PROVE  /\ new \in Tables /\ TwoSound(new) /\ Used(new) = Used(rows)
         /\ \A i \in DOMAIN work : new[i] = rows[i] \/ (rows[i] # NoRow /\ rows[i].email = e)
         /\ \A i \in Ids : new[i] = rows[i] \/ (i \in Used(rows) /\ rows[i].email = e /\ rows[i].oidc)
<1> DEFINE T == {i \in Used(rows) : rows[i].email = e /\ rows[i].oidc}
           v == Overlaid(rows, work)
           u == Overlaid(new, work)
<1>1. new = [i \in Ids |-> IF i \in T THEN [rows[i] EXCEPT !.active = FALSE] ELSE rows[i]]
  BY DEF Deactivated, ByEmail
<1>2. T \subseteq Used(rows) /\ rows \in Tables /\ Written(work) /\ TwoSound(rows)
  BY DEF TableKept
<1> HIDE DEF T
<1>3. Alike(rows, new) /\ \A i \in Ids \ T : new[i] = rows[i]
  <2>1. DefaultTeam \in Homes
    BY DEF Homes
  <2>2. QED
    BY <1>1, <1>2, <2>1, MarkedAlike
<1>4. new \in Tables
  BY <1>3 DEF Alike
<1>5. Alike(v, u)
  <2>1. /\ v \in Tables /\ Used(v) = Used(rows) \cup DOMAIN work
        /\ \A i \in DOMAIN work : v[i] = work[i]
        /\ \A i \in Ids \ DOMAIN work : v[i] = rows[i]
    BY <1>2, OverIs
  <2>2. /\ u \in Tables /\ Used(u) = Used(new) \cup DOMAIN work
        /\ \A i \in DOMAIN work : u[i] = work[i]
        /\ \A i \in Ids \ DOMAIN work : u[i] = new[i]
    BY <1>2, <1>4, OverIs
  <2> HIDE DEF u, v
  <2>3. QED
    BY <1>3, <2>1, <2>2 DEF Alike, Used
<1>6. TwoSound(new)
  BY <1>2, <1>3, <1>5, AlikeSound DEF TwoSound
<1>7. \A i \in Ids : new[i] = rows[i] \/ (i \in Used(rows) /\ rows[i].email = e /\ rows[i].oidc)
  BY <1>2, <1>3 DEF T
<1>8. Used(new) = Used(rows)
  BY <1>3 DEF Alike
<1>9. QED
  BY <1>2, <1>4, <1>6, <1>7, <1>8 DEF Used, Written

\* A sync_user or sync_group changes only the rows of what it fetched.
LEMMA StoreSingleDoes ==
  ASSUME SyncAssumption, SingleTyped, TableKept, StoreSingle
  PROVE  TableTyped' /\ TableSound' /\ SingleDone
<1> DEFINE map == single.map
           emails == {map[s].email : s \in DOMAIN map}
<1>1. Written(work) /\ rows \in Tables /\ TwoSound(rows) /\ FromMap(work, sync.map)
      /\ (sync.at # "users" => DOMAIN work = {}) /\ Listed(map)
  BY DEF TableKept, SingleTyped
<1>2. /\ work' = work /\ sync' = sync
      /\ touched' = touched \cup DOMAIN map \cup emails \cup IF single.op = "user" THEN {single.of} ELSE {}
  BY DEF StoreSingle
<1>3. ASSUME rows' \in Tables, TwoSound(rows') PROVE TableTyped' /\ TableSound'
  BY <1>1, <1>2, <1>3, TableIsNext DEF TwoSound
<1>4. CASE single.op = "user" /\ DOMAIN map = {}
  <2>1. rows' = Deactivated(rows, single.of)
    BY <1>4 DEF StoreSingle
  <2>2. /\ rows' \in Tables /\ TwoSound(rows') /\ Used(rows') = Used(rows)
        /\ \A i \in DOMAIN work : rows'[i] = rows[i] \/ (rows[i] # NoRow /\ rows[i].email = single.of)
        /\ \A i \in Ids : rows'[i] = rows[i] \/ (i \in Used(rows) /\ rows[i].email = single.of /\ rows[i].oidc)
    BY <2>1, DeactivatedIs
  <2>3. \A i \in DOMAIN work : rows[i] # NoRow => rows[i].email # single.of
    <3>1. Free(NoAccount, single.of)
      BY <1>4 DEF StoreSingle
    <3>2. QED
      BY <3>1 DEF Free
  <2>4. single.of \in touched'
    BY <1>2, <1>4
  <2>5. SingleDone
    <3>1. \A i \in DOMAIN work : rows'[i] = rows[i]
      BY <2>2, <2>3
    <3>2. \A i \in Used(rows) : rows[i].email # single.of => rows'[i] = rows[i]
      BY <2>2 DEF Used
    <3>3. QED
      BY <1>4, <2>2, <2>4, <3>1, <3>2 DEF SingleDone
  <2>6. QED
    BY <1>3, <2>2, <2>5
<1>5. CASE ~(single.op = "user" /\ DOMAIN map = {})
  <2>1. rows' = Stored(rows, map)
    BY <1>5 DEF StoreSingle
  <2>2. FreeFor(rows, map)
    BY DEF StoreSingle, Free, FreeFor, FreeIn
  <2>3. StoredSoFar(rows, map, rows')
    BY <1>1, <2>1, <2>2, StoredKeeps
  <2> HIDE DEF map
  <2>4. rows' \in Tables /\ TwoSound(rows')
    BY <2>3 DEF StoredSoFar
  <2>5. \A i \in Used(rows) : ({rows[i].sub, rows[i].email} \cap touched' = {}) => rows'[i] = rows[i]
    <3> SUFFICES ASSUME NEW i \in Used(rows), {rows[i].sub, rows[i].email} \cap touched' = {}
                 PROVE  rows'[i] = rows[i]
      OBVIOUS
    <3>1. rows[i].sub \notin DOMAIN map /\ \A s \in DOMAIN map : map[s].email # rows[i].email
      BY <1>2
    <3>2. QED
      BY <2>3, <3>1 DEF StoredSoFar
  <2>6. SingleDone
    <3>1. Used(rows) \subseteq Used(rows')
      BY <2>3 DEF StoredSoFar, Used
    <3>2. QED
      BY <2>3, <2>5, <3>1 DEF SingleDone, StoredSoFar, map
  <2>7. QED
    BY <1>3, <2>4, <2>6
<1>6. QED
  BY <1>4, <1>5

-----------------------------------------------------------------------------
\* A login writes an active row of its subject.
LoginDone ==
  /\ Used(rows) \subseteq Used(rows')
  /\ \A i \in DOMAIN work : rows'[i] = rows[i]
  /\ \A i \in Ids : rows'[i] = rows[i] \/ rows'[i].active
  /\ \A i \in Used(rows) : ({rows[i].sub, rows[i].email} \cap touched' = {}) => rows'[i] = rows[i]

\* A login changes only the row of its subject or email, and leaves it active.
LEMMA LoginDoes ==
  ASSUME SyncAssumption, PoolTyped, TableKept, NEW s \in Subs, NEW e \in Emails \cup {Unknown(s)}, Login(s, e)
  PROVE  TableTyped' /\ TableSound' /\ LoginDone
<1> DEFINE i == Target(rows, s, e)
           t == TeamOf(pool[s].groups, Mapped)
           new == LoginRow(rows[i], s, e, t)
<1>1. Written(work) /\ rows \in Tables /\ TwoSound(rows) /\ FromMap(work, sync.map)
      /\ (sync.at # "users" => DOMAIN work = {}) /\ OwnRows(Overlaid(rows, work))
  BY DEF TableKept, TwoSound
<1>2. /\ new.active /\ ~Collides(rows, i, new) /\ rows' = [rows EXCEPT ![i] = new]
      /\ touched' = touched \cup {s, e, new.email} /\ Free(s, e)
      /\ work' = work /\ sync' = sync
  BY DEF Login
<1>3. FreeIn(rows, s, e)
  BY <1>2 DEF Free, FreeIn
<1>4. t \in Mapped \cup {DefaultTeam}
  BY TeamIsWanted
<1> HIDE DEF t
<1>5. Places(rows, s, e, i) /\ i \notin DOMAIN work
  <2> DEFINE place == i
  <2>1. place = Target(rows, s, e)
    OBVIOUS
  <2> HIDE DEF i, place
  <2>2. Places(rows, s, e, place) /\ place \notin DOMAIN work
    BY <1>1, <1>3, <2>1, TargetFree
  <2>3. QED
    BY <2>2 DEF place
<1> HIDE DEF i
<1>6. i \in Ids
  BY <1>5 DEF Places
<1>7. new \in Rows /\ new.sub = s /\ (new.email = e \/ (rows[i] # NoRow /\ new.email = rows[i].email))
  <2>1. rows[i] \in Rows \cup {NoRow}
    BY <1>1, <1>6 DEF Tables
  <2>2. e \in Mails /\ t \in Homes /\ RoleOf(pool[s].groups) \in {"ADMIN", "DEVELOPER"}
    BY <1>4 DEF Mails, Homes, RoleOf
  <2>3. CASE rows[i] = NoRow
    <3>1. new = Row(s, e, t, RoleOf(pool[s].groups), TRUE, TRUE)
      BY <2>3 DEF LoginRow
    <3>2. QED
      BY <2>2, <3>1 DEF Row, Rows
  <2>4. CASE rows[i] # NoRow
    <3> DEFINE old == rows[i]
               m == IF e \in Emails \/ old.email = Unknown(s) THEN e ELSE old.email
               role == RoleOf(pool[s].groups)
    <3>1. new = [old EXCEPT !.sub = s, !.team = t, !.role = role, !.email = m]
      BY <2>1, <2>4 DEF LoginRow, Rows
    <3>2. old \in Rows /\ m \in Mails
      BY <2>1, <2>2, <2>4 DEF Rows
    <3>3. m = e \/ m = old.email
      OBVIOUS
    <3>4. new \in Rows /\ new.sub = s /\ new.email = m
      <4> HIDE DEF old, m
      <4>1. QED
        BY <2>2, <3>1, <3>2 DEF Rows
    <3>5. QED
      BY <2>4, <3>3, <3>4
  <2>5. QED
    BY <2>3, <2>4
<1> HIDE DEF new
<1>8. Fits(rows, i, new)
  <2>1. \A j \in DOMAIN work : work[j].sub # s /\ work[j].email # e
    BY <1>3 DEF FreeIn
  <2>2. ASSUME NEW j \in DOMAIN work, rows[i] # NoRow PROVE work[j].email # rows[i].email
    <3> DEFINE v == Overlaid(rows, work)
    <3>1. /\ v[j] = work[j] /\ v[i] = rows[i] /\ j \in Used(v) /\ i \in Used(v) /\ OwnRows(v)
      <4>1. /\ Used(v) = Used(rows) \cup DOMAIN work
            /\ \A k \in DOMAIN work : v[k] = work[k]
            /\ \A k \in Ids \ DOMAIN work : v[k] = rows[k]
        BY <1>1, OverIs
      <4>2. i \in Used(rows) /\ OwnRows(v)
        BY <1>1, <1>6, <2>2 DEF Used
      <4> HIDE DEF v
      <4>3. QED
        BY <1>5, <1>6, <4>1, <4>2
    <3> HIDE DEF v
    <3>2. QED
      BY <1>5, <3>1 DEF OwnRows
  <2>3. \A j \in DOMAIN work : work[j].sub # new.sub /\ work[j].email # new.email
    BY <1>7, <2>1, <2>2
  <2>4. QED
    BY <1>2, <1>5, <1>6, <1>7, <2>3 DEF Fits
<1>9. Put(rows', rows, i, new)
  BY <1>1, <1>2, <1>8, StoreFits
<1>10. TableTyped' /\ TableSound'
  BY <1>1, <1>2, <1>9, TableIsNext DEF Put, TwoSound
<1>11. rows'[i] = new /\ \A j \in Ids \ {i} : rows'[j] = rows[j]
  BY <1>9 DEF Put
<1>12. ASSUME NEW j \in Used(rows), {rows[j].sub, rows[j].email} \cap touched' = {} PROVE rows'[j] = rows[j]
  <2>1. rows[j].sub # s /\ rows[j].email # e /\ j \in Ids
    BY <1>2, <1>12 DEF Used
  <2>2. j # i
    BY <1>5, <1>12, <2>1 DEF Places, BySub, ByEmail
  <2>3. QED
    BY <1>11, <2>1, <2>2
<1>13. LoginDone
  <2>1. \A j \in DOMAIN work : j \in Ids \ {i}
    BY <1>1, <1>5 DEF Written
  <2>2. Used(rows) \subseteq Used(rows')
    BY <1>7, <1>11 DEF Used, SyncAssumption
  <2>3. QED
    BY <1>2, <1>11, <1>12, <2>1, <2>2 DEF LoginDone
<1>14. QED
  BY <1>10, <1>13

-----------------------------------------------------------------------------
(* What the listings know, step by step.                                   *)
\* A sync that does not run has heard of nobody.
LEMMA NoSyncIs == NoSync.at = "idle" /\ NoSync.todo = {} /\ DOMAIN NoSync.map = {} /\ NoSync.synced = {}
                  /\ NoSync.left = {} /\ NoSync.seen = {} /\ NoSync.moved = {}
BY DEF NoSync

\* Nor has a transaction that does not run.
LEMMA NoSingleIs == NoSingle.op = "none" /\ DOMAIN NoSingle.map = {}
BY DEF NoSingle

\* What was heard of an account stays true while it is left alone.
LEMMA HeardKept ==
  ASSUME NEW s \in Subs, Heard(s), pool'[s] = pool[s], touched \subseteq touched', errors' = errors,
         sync'.map = sync.map, sync'.todo = sync.todo,
         sync'.at = sync.at \/ (sync'.at # "groups" /\ sync.at \notin {"idle", "groups"}),
         single' = single \/ single' = NoSingle
  PROVE  Heard(s)'
<1>1. Known(s)' = Known(s)
  BY DEF Known
<1>2. \/ single'.map = single.map /\ single'.op = single.op /\ single'.of = single.of
      \/ single'.op = "none" /\ DOMAIN single'.map = {}
  BY NoSingleIs
<1>3. (s \in DOMAIN sync.map /\ s \notin touched =>
         Known(s) /\ sync.map[s].email = pool[s].email /\ sync.map[s].enabled = pool[s].enabled)'
  BY <1>1 DEF Heard
<1>4. (s \notin touched /\ Known(s) /\ "members" \notin errors =>
         /\ s \in DOMAIN sync.map => sync.map[s].groups = pool[s].groups \ sync.todo
         /\ sync.at = "groups" /\ s \notin DOMAIN sync.map => pool[s].groups \subseteq sync.todo)'
  BY <1>1 DEF Heard
<1>5. (s \notin touched /\ Known(s) /\ errors \cap {"groups", "users"} = {} /\ sync.at \notin {"idle", "groups"} =>
         s \in DOMAIN sync.map)'
  BY <1>1 DEF Heard
<1>6. (\A u \in DOMAIN sync.map : u # s /\ Known(s) /\ sync.map[u].email = pool[s].email => pool[s].email \in touched)'
  BY <1>1 DEF Heard
<1>7. (s \in DOMAIN single.map /\ s \notin touched => Known(s) /\ single.map[s].enabled = pool[s].enabled)'
  BY <1>1, <1>2 DEF Heard
<1>8. (single.op = "user" /\ DOMAIN single.map = {} /\ Known(s) /\ pool[s].email = single.of => single.of \in touched)'
  BY <1>1, <1>2 DEF Heard
<1>9. QED
  BY <1>3, <1>4, <1>5, <1>6, <1>7, <1>8 DEF Heard

\* A sync starts, knowing nothing.
LEMMA StartSyncHeard ==
  ASSUME SyncAssumption, PoolTyped, ListingSound, StartSync
  PROVE  ListingSound'
<1>1. \/ sync' = [NoSync EXCEPT !.at = "groups", !.todo = Groups] /\ errors' = {}
      \/ sync' = [NoSync EXCEPT !.at = "done"] /\ errors' = {"groups"}
  BY DEF StartSync
<1>2. /\ DOMAIN sync'.map = {} /\ sync'.synced = {} /\ sync'.left = {}
      /\ \/ sync'.at = "groups" /\ sync'.todo = Groups /\ errors' = {}
         \/ sync'.at = "done" /\ sync'.todo = {} /\ errors' = {"groups"}
  <2>1. sync'.map = NoSync.map /\ sync'.synced = NoSync.synced /\ sync'.left = NoSync.left
    BY <1>1 DEF NoSync
  <2>2. \/ sync'.at = "groups" /\ sync'.todo = Groups /\ errors' = {}
        \/ sync'.at = "done" /\ sync'.todo = NoSync.todo /\ errors' = {"groups"}
    BY <1>1 DEF NoSync
  <2>3. QED
    BY <2>1, <2>2, NoSyncIs
<1>3. pool' = pool /\ single' = single /\ touched' = IF single = NoSingle THEN {} ELSE touched
  BY DEF StartSync
<1>4. ASSUME NEW s \in Subs PROVE Heard(s)'
  <2>1. Heard(s)
    BY DEF ListingSound
  <2>2. Known(s)' = Known(s) /\ (Known(s) => pool[s].groups \subseteq Groups)
    BY <1>3 DEF Known, PoolTyped, Accounts
  <2>3. (s \in DOMAIN single.map /\ s \notin touched => Known(s) /\ single.map[s].enabled = pool[s].enabled)'
    BY <1>3, <2>1, <2>2, NoSingleIs DEF Heard
  <2>4. (single.op = "user" /\ DOMAIN single.map = {} /\ Known(s) /\ pool[s].email = single.of => single.of \in touched)'
    BY <1>3, <2>1, <2>2, NoSingleIs DEF Heard
  <2>5. QED
    BY <1>2, <1>3, <2>2, <2>3, <2>4 DEF Heard
<1>5. CrawlSound'
  BY <1>2 DEF CrawlSound, Crawling, SyncAssumption
<1>6. QED
  BY <1>4, <1>5 DEF ListingSound

\* One group more: its members, and the group of those already known.
LEMMA FetchGroupHeard ==
  ASSUME SyncAssumption, SyncTyped, PoolTyped, ListingSound, NEW g \in Groups, FetchGroup(g)
  PROVE  ListingSound'
<1> DEFINE team == IF g \in Mapped \ Homeless THEN {g} ELSE {}
           noted == Noted(sync.map, MembersOf(g), {g})
<1>0. SyncShape(sync)
  BY SyncIs
<1>1. /\ sync.at = "groups" /\ g \in sync.todo
      /\ sync'.at = "groups" /\ sync'.todo = sync.todo \ {g} /\ sync'.synced = sync.synced \cup team
      /\ sync'.left = sync.left
      /\ \/ sync'.map = noted
         \/ sync'.map = sync.map /\ "members" \in errors'
      /\ errors \subseteq errors' /\ ("groups" \in errors' => "groups" \in errors)
  <2> DEFINE after == [sync EXCEPT !.todo = @ \ {g}, !.synced = @ \cup team]
  <2>1. /\ sync.at = "groups" /\ g \in sync.todo
        /\ errors \subseteq errors' /\ ("groups" \in errors' => "groups" \in errors)
    BY DEF FetchGroup
  <2>2. after.map = sync.map /\ SyncShape(after)
    BY <1>0 DEF SyncShape
  <2>3. sync' = [after EXCEPT !.map = noted] \/ (sync' = after /\ "members" \in errors')
    BY <2>2 DEF FetchGroup
  <2>4. after.at = sync.at /\ after.todo = sync.todo \ {g} /\ after.synced = sync.synced \cup team /\ after.left = sync.left
    BY <1>0 DEF SyncShape
  <2> HIDE DEF after, team, noted
  <2>5. sync'.at = after.at /\ sync'.todo = after.todo /\ sync'.synced = after.synced /\ sync'.left = after.left
        /\ (sync'.map = noted \/ (sync'.map = after.map /\ "members" \in errors'))
    BY <2>2, <2>3 DEF SyncShape
  <2>6. QED
    BY <2>1, <2>2, <2>4, <2>5
<1>2. pool' = pool /\ single' = single /\ touched' = touched /\ rows' = rows
  BY DEF FetchGroup
<1>3. /\ DOMAIN noted = DOMAIN sync.map \cup MembersOf(g)
      /\ \A s \in DOMAIN sync.map : noted[s] = [sync.map[s] EXCEPT !.groups = @ \cup IF s \in MembersOf(g) THEN {g} ELSE {}]
      /\ \A s \in MembersOf(g) : s \notin DOMAIN sync.map =>
           noted[s] = [email |-> pool[s].email, enabled |-> pool[s].enabled, groups |-> {g}]
  BY DEF Noted
<1> HIDE DEF noted
<1>4. /\ \A s \in DOMAIN sync.map : /\ noted[s].email = sync.map[s].email /\ noted[s].enabled = sync.map[s].enabled
                                    /\ noted[s].groups = sync.map[s].groups \cup IF s \in MembersOf(g) THEN {g} ELSE {}
      /\ \A s \in MembersOf(g) : s \notin DOMAIN sync.map =>
           noted[s].email = pool[s].email /\ noted[s].enabled = pool[s].enabled /\ noted[s].groups = {g}
  <2>1. \A s \in DOMAIN sync.map : sync.map[s] \in Accounts
    BY DEF SyncTyped, Listed
  <2>2. ASSUME NEW s \in DOMAIN sync.map
        PROVE  /\ noted[s].email = sync.map[s].email /\ noted[s].enabled = sync.map[s].enabled
               /\ noted[s].groups = sync.map[s].groups \cup IF s \in MembersOf(g) THEN {g} ELSE {}
    <3>1. noted[s] = [sync.map[s] EXCEPT !.groups = @ \cup IF s \in MembersOf(g) THEN {g} ELSE {}]
      BY <1>3
    <3>2. sync.map[s] \in Accounts
      BY <2>1
    <3>3. QED
      BY <3>1, <3>2 DEF Accounts
  <2>3. ASSUME NEW s \in MembersOf(g), s \notin DOMAIN sync.map
        PROVE  noted[s].email = pool[s].email /\ noted[s].enabled = pool[s].enabled /\ noted[s].groups = {g}
    <3>1. noted[s] = [email |-> pool[s].email, enabled |-> pool[s].enabled, groups |-> {g}]
      BY <1>3, <2>3
    <3>2. QED
      BY <3>1
  <2>4. QED
    BY <2>2, <2>3
<1>5. \A s \in Subs : s \in MembersOf(g) <=> Known(s) /\ g \in pool[s].groups
  BY DEF MembersOf, Known
<1>5a. \A s \in MembersOf(g) : s \in Subs
  BY DEF MembersOf
<1>6. ASSUME NEW s \in Subs PROVE Heard(s)'
  <2>1. Heard(s)
    BY DEF ListingSound
  <2>2. Known(s)' = Known(s)
    BY <1>2 DEF Known
  <2>3. (s \in DOMAIN sync.map /\ s \notin touched =>
           Known(s) /\ sync.map[s].email = pool[s].email /\ sync.map[s].enabled = pool[s].enabled)'
    BY <1>1, <1>2, <1>3, <1>4, <1>5, <2>1, <2>2 DEF Heard
  <2>4. (s \notin touched /\ Known(s) /\ "members" \notin errors =>
           /\ s \in DOMAIN sync.map => sync.map[s].groups = pool[s].groups \ sync.todo
           /\ sync.at = "groups" /\ s \notin DOMAIN sync.map => pool[s].groups \subseteq sync.todo)'
    <3> SUFFICES ASSUME s \notin touched, Known(s), "members" \notin errors'
                 PROVE  /\ s \in DOMAIN sync'.map => sync'.map[s].groups = pool[s].groups \ (sync.todo \ {g})
                        /\ s \notin DOMAIN sync'.map => pool[s].groups \subseteq sync.todo \ {g}
      BY <1>1, <1>2, <2>2
    <3>1. sync'.map = noted /\ "members" \notin errors
      BY <1>1
    <3>2. /\ s \in DOMAIN sync.map => sync.map[s].groups = pool[s].groups \ sync.todo
          /\ s \notin DOMAIN sync.map => pool[s].groups \subseteq sync.todo
      BY <1>1, <2>1, <3>1 DEF Heard
    <3>3. CASE s \in DOMAIN sync.map
      BY <1>1, <1>3, <1>4, <1>5, <3>1, <3>2, <3>3
    <3>4. CASE s \notin DOMAIN sync.map /\ s \in MembersOf(g)
      BY <1>1, <1>3, <1>4, <1>5, <3>1, <3>2, <3>4
    <3>5. CASE s \notin DOMAIN sync.map /\ s \notin MembersOf(g)
      BY <1>1, <1>3, <1>5, <3>1, <3>2, <3>5
    <3>6. QED
      BY <3>3, <3>4, <3>5
  <2>5. (\A u \in DOMAIN sync.map : u # s /\ Known(s) /\ sync.map[u].email = pool[s].email => pool[s].email \in touched)'
    <3> SUFFICES ASSUME NEW u \in DOMAIN sync'.map, u # s, Known(s), sync'.map[u].email = pool[s].email
                 PROVE  pool[s].email \in touched
      BY <1>2, <2>2
    <3>1. CASE u \in DOMAIN sync.map
      <4>1. sync'.map[u].email = sync.map[u].email
        BY <1>1, <1>4, <3>1
      <4>2. QED
        BY <2>1, <3>1, <4>1 DEF Heard
    <3>2. CASE u \notin DOMAIN sync.map
      <4>1. u \in MembersOf(g) /\ sync'.map[u].email = pool[u].email
        BY <1>1, <1>3, <1>4, <3>2
      <4>2. u \in Subs /\ pool[u] # NoAccount
        BY <4>1 DEF MembersOf
      <4>3. QED
        BY <4>1, <4>2 DEF PoolTyped, Known
    <3>3. QED
      BY <3>1, <3>2
  <2>6. (s \in DOMAIN single.map /\ s \notin touched => Known(s) /\ single.map[s].enabled = pool[s].enabled)'
    BY <1>2, <2>1, <2>2 DEF Heard
  <2>7. (single.op = "user" /\ DOMAIN single.map = {} /\ Known(s) /\ pool[s].email = single.of => single.of \in touched)'
    BY <1>2, <2>1, <2>2 DEF Heard
  <2>8. QED
    BY <1>1, <2>3, <2>4, <2>5, <2>6, <2>7 DEF Heard
<1>7. CrawlSound'
  <2>1. sync.synced = (Mapped \ Homeless) \ sync.todo /\ sync.left = {} /\ "groups" \notin errors
    BY <1>1 DEF ListingSound, CrawlSound, Crawling
  <2>2. sync'.synced = (Mapped \ Homeless) \ sync'.todo
    BY <1>1, <2>1
  <2>3. QED
    BY <1>1, <2>1, <2>2 DEF CrawlSound
<1>8. QED
  BY <1>6, <1>7 DEF ListingSound

\* The rest of the pool: from here on every account is known.
LEMMA ListAllUsersHeard ==
  ASSUME SyncAssumption, SyncTyped, PoolTyped, ListingSound, ListAllUsers
  PROVE  ListingSound'
<1> DEFINE known == {s \in Subs : pool[s] # NoAccount}
           noted == Noted(sync.map, known, {})
<1>0. SyncShape(sync)
  BY SyncIs
<1>1. /\ sync.at = "groups" /\ sync.todo = {}
      /\ sync'.at = "prefetch" /\ sync'.todo = sync.todo /\ sync'.synced = sync.synced /\ sync'.left = sync.left
      /\ \/ sync'.map = noted /\ errors' = errors
         \/ sync'.map = sync.map /\ errors' = errors \cup {"users"}
  <2>1. \/ sync' = [sync EXCEPT !.at = "prefetch", !.map = noted] /\ errors' = errors
        \/ sync' = [sync EXCEPT !.at = "prefetch"] /\ errors' = errors \cup {"users"}
    BY DEF ListAllUsers
  <2>2. sync.at = "groups" /\ sync.todo = {}
    BY DEF ListAllUsers
  <2> HIDE DEF noted
  <2>3. QED
    BY <1>0, <2>1, <2>2 DEF SyncShape
<1>2. pool' = pool /\ single' = single /\ touched' = touched /\ rows' = rows
  BY DEF ListAllUsers
<1>3. /\ DOMAIN noted = DOMAIN sync.map \cup known
      /\ \A s \in DOMAIN sync.map : noted[s] = [sync.map[s] EXCEPT !.groups = @ \cup IF s \in known THEN {} ELSE {}]
      /\ \A s \in known : s \notin DOMAIN sync.map =>
           noted[s] = [email |-> pool[s].email, enabled |-> pool[s].enabled, groups |-> {}]
  BY DEF Noted
<1> HIDE DEF noted
<1>4. /\ \A s \in DOMAIN sync.map : /\ noted[s].email = sync.map[s].email /\ noted[s].enabled = sync.map[s].enabled
                                    /\ noted[s].groups = sync.map[s].groups
      /\ \A s \in known : s \notin DOMAIN sync.map =>
           noted[s].email = pool[s].email /\ noted[s].enabled = pool[s].enabled /\ noted[s].groups = {}
  <2>1. \A s \in DOMAIN sync.map : sync.map[s] \in Accounts
    BY DEF SyncTyped, Listed
  <2>2. ASSUME NEW s \in DOMAIN sync.map
        PROVE  /\ noted[s].email = sync.map[s].email /\ noted[s].enabled = sync.map[s].enabled
               /\ noted[s].groups = sync.map[s].groups
    <3>1. noted[s] = [sync.map[s] EXCEPT !.groups = @ \cup IF s \in known THEN {} ELSE {}]
      BY <1>3
    <3>2. sync.map[s] \in Accounts
      BY <2>1
    <3>3. QED
      BY <3>1, <3>2 DEF Accounts
  <2>3. ASSUME NEW s \in known, s \notin DOMAIN sync.map
        PROVE  noted[s].email = pool[s].email /\ noted[s].enabled = pool[s].enabled /\ noted[s].groups = {}
    <3>1. noted[s] = [email |-> pool[s].email, enabled |-> pool[s].enabled, groups |-> {}]
      BY <1>3, <2>3
    <3>2. QED
      BY <3>1
  <2>4. QED
    BY <2>2, <2>3
<1>5. \A s \in Subs : s \in known <=> Known(s)
  BY DEF Known
<1>6. ASSUME NEW s \in Subs PROVE Heard(s)'
  <2>1. Heard(s)
    BY DEF ListingSound
  <2>2. Known(s)' = Known(s)
    BY <1>2 DEF Known
  <2>3. (s \in DOMAIN sync.map /\ s \notin touched =>
           Known(s) /\ sync.map[s].email = pool[s].email /\ sync.map[s].enabled = pool[s].enabled)'
    BY <1>1, <1>2, <1>3, <1>4, <1>5, <2>1, <2>2 DEF Heard
  <2>4. (s \notin touched /\ Known(s) /\ "members" \notin errors =>
           /\ s \in DOMAIN sync.map => sync.map[s].groups = pool[s].groups \ sync.todo
           /\ sync.at = "groups" /\ s \notin DOMAIN sync.map => pool[s].groups \subseteq sync.todo)'
    <3> SUFFICES ASSUME s \notin touched, Known(s), "members" \notin errors', s \in DOMAIN sync'.map
                 PROVE  sync'.map[s].groups = pool[s].groups \ sync.todo
      BY <1>1, <1>2, <2>2
    <3>1. /\ s \in DOMAIN sync.map => sync.map[s].groups = pool[s].groups \ sync.todo
          /\ s \notin DOMAIN sync.map => pool[s].groups \subseteq sync.todo
      BY <1>1, <2>1 DEF Heard
    <3>2. CASE s \in DOMAIN sync.map
      BY <1>1, <1>4, <3>1, <3>2
    <3>3. CASE s \notin DOMAIN sync.map
      <4>1. sync'.map = noted
        BY <1>1, <3>3
      <4>2. noted[s].groups = {}
        BY <1>4, <1>5, <3>3
      <4>3. QED
        BY <1>1, <3>1, <3>3, <4>1, <4>2
    <3>4. QED
      BY <3>2, <3>3
  <2>5. (\A u \in DOMAIN sync.map : u # s /\ Known(s) /\ sync.map[u].email = pool[s].email => pool[s].email \in touched)'
    <3> SUFFICES ASSUME NEW u \in DOMAIN sync'.map, u # s, Known(s), sync'.map[u].email = pool[s].email
                 PROVE  pool[s].email \in touched
      BY <1>2, <2>2
    <3>1. CASE u \in DOMAIN sync.map
      <4>1. sync'.map[u].email = sync.map[u].email
        BY <1>1, <1>4, <3>1
      <4>2. QED
        BY <2>1, <3>1, <4>1 DEF Heard
    <3>2. CASE u \notin DOMAIN sync.map
      <4>1. u \in known /\ sync'.map[u].email = pool[u].email
        BY <1>1, <1>3, <1>4, <3>2
      <4>2. QED
        BY <4>1 DEF PoolTyped, Known
    <3>3. QED
      BY <3>1, <3>2
  <2>6. (s \notin touched /\ Known(s) /\ errors \cap {"groups", "users"} = {} /\ sync.at \notin {"idle", "groups"} =>
           s \in DOMAIN sync.map)'
    BY <1>1, <1>2, <1>3, <1>5, <2>2
  <2>7. (s \in DOMAIN single.map /\ s \notin touched => Known(s) /\ single.map[s].enabled = pool[s].enabled)'
    BY <1>2, <2>1, <2>2 DEF Heard
  <2>8. (single.op = "user" /\ DOMAIN single.map = {} /\ Known(s) /\ pool[s].email = single.of => single.of \in touched)'
    BY <1>2, <2>1, <2>2 DEF Heard
  <2>9. QED
    BY <2>3, <2>4, <2>5, <2>6, <2>7, <2>8 DEF Heard
<1>7. CrawlSound'
  BY <1>1 DEF ListingSound, CrawlSound, Crawling
<1>8. QED
  BY <1>6, <1>7 DEF ListingSound
\* Reading the table changes nothing of what was heard.
LEMMA PrefetchHeard ==
  ASSUME SyncAssumption, SyncTyped, ListingSound, Prefetch
  PROVE  ListingSound' /\ sync'.at = "users" /\ sync'.map = sync.map /\ sync'.left = DOMAIN sync.map
<1> DEFINE known == {s \in DOMAIN sync.map : BySub(rows, s) # {}}
           snap == [s \in known |-> rows[CHOOSE i \in BySub(rows, s) : TRUE]]
<1>1. sync' = [sync EXCEPT !.at = "users", !.left = DOMAIN sync.map, !.snap = snap] /\ sync.at = "prefetch"
  BY DEF Prefetch
<1>2. SyncShape(sync)
  BY SyncIs
<1> HIDE DEF snap
<1>3. /\ sync'.at = "users" /\ sync'.map = sync.map /\ sync'.left = DOMAIN sync.map /\ sync'.todo = sync.todo
      /\ sync'.synced = sync.synced
  BY <1>1, <1>2 DEF SyncShape
<1>4. /\ pool' = pool /\ touched' = touched /\ errors' = errors /\ single' = single
  BY DEF Prefetch, syncHistory
<1>5. \A s \in Subs : Heard(s)'
  BY <1>1, <1>3, <1>4, HeardKept DEF ListingSound
<1>6. CrawlSound'
  BY <1>1, <1>3, <1>4 DEF ListingSound, CrawlSound, Crawling
<1>7. QED
  BY <1>3, <1>5, <1>6 DEF ListingSound

\* Nor do the phases after the users.
LEMMA AdvanceHeard ==
  ASSUME SyncAssumption, SyncTyped, TableTyped, ListingSound,
         CommitRest \/ DeactivateUnseen \/ ReadStaleTeams \/ CommitMoves
  PROVE  ListingSound'
<1>1. /\ sync'.map = sync.map /\ sync'.left = sync.left /\ sync'.seen = sync.seen /\ sync'.todo = sync.todo
      /\ sync'.synced = sync.synced
  BY AdvanceTyped
<1>2. SyncShape(sync)
  BY SyncIs
<1>3. /\ sync.at \in {"users", "missing", "teams", "moves"} /\ sync'.at \in {"missing", "teams", "moves", "done"}
      /\ pool' = pool /\ touched' = touched /\ errors' = errors /\ single' = single
      /\ (sync.at = "users" => sync.left = {})
  BY <1>2 DEF CommitRest, DeactivateUnseen, ReadStaleTeams, CommitMoves, syncHistory, SyncShape
<1>4. sync'.at = "moves" => sync'.moved \subseteq Used(rows) /\ rows' = rows
  <2>1. CASE ReadStaleTeams
    <3> DEFINE T == {i \in Used(rows) : /\ rows[i].active
                                        /\ rows[i].team \notin sync.synced \cup {DefaultTeam}}
    <3>1. sync' = [sync EXCEPT !.at = "moves", !.moved = T] /\ T \subseteq Used(rows) /\ rows' = rows
      BY <2>1 DEF ReadStaleTeams
    <3> HIDE DEF T
    <3>2. QED
      BY <1>2, <3>1 DEF SyncShape
  <2>2. CASE CommitRest \/ DeactivateUnseen \/ CommitMoves
    <3>1. sync'.at # "moves"
      BY <1>2, <2>2 DEF CommitRest, DeactivateUnseen, CommitMoves, SyncShape
    <3>2. QED
      BY <3>1
  <2>3. QED
    BY <2>1, <2>2
<1>5. ASSUME NEW s \in Subs PROVE Heard(s)'
  <2>1. Heard(s) /\ sync'.at # "groups" /\ sync.at \notin {"idle", "groups"}
    BY <1>3 DEF ListingSound
  <2>2. QED
    BY <1>1, <1>3, <2>1, HeardKept
<1>6. CrawlSound'
  <2>1. sync'.at = "moves" => sync'.moved \subseteq Used(rows')
    BY <1>4
  <2>2. QED
    BY <1>1, <1>3, <2>1 DEF ListingSound, CrawlSound, Crawling
<1>7. QED
  BY <1>5, <1>6 DEF ListingSound

\* Nor does a user; who is no longer left was seen.
LEMMA SyncOneHeard ==
  ASSUME SyncAssumption, SyncTyped, ListingSound, NEW s \in Subs, SyncOne(s)
  PROVE  ListingSound'
<1>1. /\ sync'.at = "users" /\ sync'.left = sync.left \ {s} /\ sync'.seen = sync.seen \cup {s}
      /\ sync'.map = sync.map /\ sync'.todo = sync.todo /\ sync'.synced = sync.synced
  BY SyncOneTyped
<1>2. sync.at = "users" /\ pool' = pool /\ touched' = touched /\ errors' = errors /\ single' = single
  BY DEF SyncOne
<1>3. \A u \in Subs : Heard(u)'
  BY <1>1, <1>2, HeardKept DEF ListingSound
<1>4. CrawlSound'
  BY <1>1, <1>2 DEF ListingSound, CrawlSound, Crawling
<1>5. QED
  BY <1>3, <1>4 DEF ListingSound

\* A sync aborts, and forgets.
LEMMA SyncAbortsHeard ==
  ASSUME SyncAssumption, ListingSound, SyncAborts
  PROVE  ListingSound'
<1>1. /\ sync'.at = "idle" /\ sync'.todo = {} /\ DOMAIN sync'.map = {} /\ sync'.left = {}
      /\ errors' = {} /\ pool' = pool /\ touched' = touched /\ single' = single
  BY NoSyncIs DEF SyncAborts
<1>2. ASSUME NEW s \in Subs PROVE Heard(s)'
  <2>1. Heard(s) /\ Known(s)' = Known(s)
    BY <1>1 DEF ListingSound, Known
  <2>2. (s \in DOMAIN single.map /\ s \notin touched => Known(s) /\ single.map[s].enabled = pool[s].enabled)'
    BY <1>1, <2>1 DEF Heard
  <2>3. (single.op = "user" /\ DOMAIN single.map = {} /\ Known(s) /\ pool[s].email = single.of => single.of \in touched)'
    BY <1>1, <2>1 DEF Heard
  <2>4. QED
    BY <1>1, <2>1, <2>2, <2>3 DEF Heard
<1>3. CrawlSound'
  BY <1>1 DEF CrawlSound, Crawling
<1>4. QED
  BY <1>2, <1>3 DEF ListingSound

\* A fetch: the syncs that touched before it count no longer, when none runs.
LEMMA FetchHeard ==
  ASSUME SyncAssumption, ListingSound, pool' = pool, sync' = sync, errors' = errors, rows' = rows,
         touched' = IF sync.at = "idle" THEN {} ELSE touched,
         \A s \in DOMAIN single'.map : s \in Subs /\ Known(s) /\ single'.map[s].enabled = pool[s].enabled,
         single'.op = "user" /\ DOMAIN single'.map = {} => \A s \in Subs : Known(s) => pool[s].email # single'.of
  PROVE  ListingSound'
<1>1. ASSUME NEW s \in Subs PROVE Heard(s)'
  <2>1. Heard(s) /\ Known(s)' = Known(s)
    BY DEF ListingSound, Known
  <2>2. (s \in DOMAIN single.map /\ s \notin touched => Known(s) /\ single.map[s].enabled = pool[s].enabled)'
    BY <2>1
  <2>3. (single.op = "user" /\ DOMAIN single.map = {} /\ Known(s) /\ pool[s].email = single.of => single.of \in touched)'
    BY <2>1
  <2>4. CASE sync.at = "idle"
    <3>1. DOMAIN sync'.map = {} /\ sync'.at = "idle"
      BY <2>4 DEF ListingSound, CrawlSound
    <3>2. QED
      BY <2>2, <2>3, <3>1 DEF Heard
  <2>5. CASE sync.at # "idle"
    <3>1. touched' = touched
      BY <2>5
    <3>2. QED
      BY <2>1, <2>2, <2>3, <3>1 DEF Heard
  <2>6. QED
    BY <2>4, <2>5
<1>2. CrawlSound'
  BY DEF ListingSound, CrawlSound, Used
<1>3. QED
  BY <1>1, <1>2 DEF ListingSound

\* sync_user hears of whoever has the email now.
LEMMA FetchUserHeard ==
  ASSUME SyncAssumption, PoolTyped, ListingSound, NEW e \in Emails, FetchUser(e)
  PROVE  ListingSound'
<1> DEFINE found == {s \in Subs : pool[s] # NoAccount /\ pool[s].email = e}
           map1 == [s \in found |-> pool[s]]
           map2 == [s \in found |-> [pool[s] EXCEPT !.groups = {}]]
<1>1. single' = [op |-> "user", of |-> e, map |-> map1] \/ single' = [op |-> "user", of |-> e, map |-> map2]
  BY DEF FetchUser
<1>2. \A s \in found : map1[s].enabled = pool[s].enabled /\ map2[s].enabled = pool[s].enabled
  <2> TAKE s \in found
  <2>1. pool[s] \in Accounts
    BY DEF PoolTyped
  <2>2. QED
    BY <2>1 DEF Accounts
<1>3. DOMAIN map1 = found /\ DOMAIN map2 = found
  OBVIOUS
<1> HIDE DEF map1, map2
<1>4. DOMAIN single'.map = found /\ single'.of = e /\ \A s \in found : single'.map[s].enabled = pool[s].enabled
  BY <1>1, <1>2, <1>3
<1>5. \A s \in DOMAIN single'.map : s \in Subs /\ Known(s) /\ single'.map[s].enabled = pool[s].enabled
  BY <1>4 DEF Known
<1>6. DOMAIN single'.map = {} => \A s \in Subs : Known(s) => pool[s].email # single'.of
  BY <1>4 DEF Known
<1>7. /\ pool' = pool /\ sync' = sync /\ errors' = errors /\ rows' = rows
      /\ touched' = IF sync.at = "idle" THEN {} ELSE touched
  BY DEF FetchUser
<1> HIDE DEF found
<1>8. QED
  BY <1>5, <1>6, <1>7, FetchHeard

\* sync_group hears of the members.
LEMMA FetchMembersHeard ==
  ASSUME SyncAssumption, PoolTyped, ListingSound, NEW g \in Groups, FetchMembers(g)
  PROVE  ListingSound'
<1> DEFINE map == [s \in MembersOf(g) |-> [pool[s] EXCEPT !.groups = {g}]]
<1>1. single' = [op |-> "group", of |-> g, map |-> map]
  BY DEF FetchMembers
<1>2. \A s \in MembersOf(g) : map[s].enabled = pool[s].enabled /\ s \in Subs /\ Known(s)
  <2> TAKE s \in MembersOf(g)
  <2>1. pool[s] \in Accounts /\ s \in Subs /\ Known(s)
    BY DEF PoolTyped, MembersOf, Known
  <2>2. QED
    BY <2>1 DEF Accounts
<1>3. DOMAIN map = MembersOf(g)
  OBVIOUS
<1> HIDE DEF map
<1>4. /\ single'.op # "user"
      /\ \A s \in DOMAIN single'.map : s \in Subs /\ Known(s) /\ single'.map[s].enabled = pool[s].enabled
  BY <1>1, <1>2, <1>3
<1>5. /\ pool' = pool /\ sync' = sync /\ errors' = errors /\ rows' = rows
      /\ touched' = IF sync.at = "idle" THEN {} ELSE touched
  BY DEF FetchMembers
<1>6. QED
  BY <1>4, <1>5, FetchHeard

\* A transaction commits: its subjects and emails are touched.
LEMMA StoreSingleHeard ==
  ASSUME SyncAssumption, ListingSound, StoreSingle, Used(rows) \subseteq Used(rows')
  PROVE  ListingSound'
<1>1. /\ sync' = sync /\ errors' = errors /\ pool' = pool /\ single' = NoSingle /\ touched \subseteq touched'
  BY DEF StoreSingle
<1>2. \A s \in Subs : Heard(s)'
  BY <1>1, HeardKept DEF ListingSound
<1>3. CrawlSound'
  BY <1>1 DEF ListingSound, CrawlSound
<1>4. QED
  BY <1>2, <1>3 DEF ListingSound

\* A login touches its subject and emails.
LEMMA LoginHeard ==
  ASSUME SyncAssumption, ListingSound, NEW s \in Subs, NEW e, Login(s, e), Used(rows) \subseteq Used(rows')
  PROVE  ListingSound'
<1>1. /\ sync' = sync /\ errors' = errors /\ pool' = pool /\ single' = single /\ touched \subseteq touched'
  BY DEF Login
<1>2. \A u \in Subs : Heard(u)'
  BY <1>1, HeardKept DEF ListingSound
<1>3. CrawlSound'
  BY <1>1 DEF ListingSound, CrawlSound
<1>4. QED
  BY <1>2, <1>3 DEF ListingSound

\* An account changes, and is touched.
LEMMA PoolChangesHeard ==
  ASSUME SyncAssumption, PoolTyped, ListingSound, NEW s \in Subs, PoolChanges(s)
  PROVE  ListingSound'
<1>1. PICK account : /\ Change(s, account) /\ pool'[s] = account
                     /\ \A u \in Subs \ {s} : pool'[u] = pool[u]
  BY ChangeTyped
<1>2. /\ sync' = sync /\ errors' = errors /\ single' = single /\ rows' = rows
      /\ touched \subseteq touched' /\ s \in touched' /\ (account # NoAccount => account.email \in touched')
  BY <1>1 DEF Change
<1>3. ASSUME NEW u \in Subs \ {s} PROVE Heard(u)'
  BY <1>1, <1>2, HeardKept DEF ListingSound
<1>4. Heard(s)'
  <2>1. Known(s)' => pool'[s].email \in touched'
    BY <1>1, <1>2 DEF Known
  <2>2. QED
    BY <1>2, <2>1 DEF Heard
<1>5. CrawlSound'
  BY <1>2 DEF ListingSound, CrawlSound, Used
<1>6. QED
  BY <1>3, <1>4, <1>5 DEF ListingSound

-----------------------------------------------------------------------------
(* The row of an account left alone, step by step.                         *)
After == {"users", "missing", "teams", "moves", "done"}
\* A step leaves the row an account has.
Stays(s) ==
  \A j \in Used(View) : (View[j].sub = s /\ View[j].email = pool[s].email) =>
    j \in Used(View)' /\ View'[j] = View[j]

\* An account's row stays right while it, the row and the crawl's reading stay.
LEMMA PlacedKept ==
  ASSUME SyncTyped, NEW s \in Subs, Placed(s), pool'[s] = pool[s], Untouched(s)' => Untouched(s) /\ Stays(s),
         sync'.map = sync.map, s \in sync'.left <=> s \in sync.left, sync'.snap = sync.snap,
         sync'.at \in After => sync.at \in After,
         sync'.at = "moves" => sync.at = "moves" /\ sync'.moved = sync.moved
  PROVE  Placed(s)'
<1> SUFFICES ASSUME Untouched(s)', s \in DOMAIN sync'.map, sync'.at \in After
             PROVE  (/\ s \notin sync.left =>
                          \E i \in Used(View) : Mirrors(s, View[i]) /\ (sync.at = "moves" => i \notin sync.moved)
                     /\ s \in sync.left /\ s \in DOMAIN sync.snap /\ sync.snap[s].email = pool[s].email =>
                          \E i \in Used(View) : View[i] = sync.snap[s])'
  BY DEF Placed, After
<1>1. Untouched(s) /\ Stays(s) /\ s \in DOMAIN sync.map /\ sync.at \in After
  OBVIOUS
<1>2. ASSUME s \notin sync'.left
      PROVE  \E i \in Used(View)' : Mirrors(s, View[i])' /\ (sync'.at = "moves" => i \notin sync'.moved)
  <2>1. PICK i \in Used(View) : Mirrors(s, View[i]) /\ (sync.at = "moves" => i \notin sync.moved)
    BY <1>1, <1>2 DEF Placed, After
  <2>2. View[i].sub = s /\ View[i].email = pool[s].email
    BY <2>1 DEF Mirrors, Row
  <2>3. i \in Used(View)' /\ View'[i] = View[i]
    BY <1>1, <2>2 DEF Stays
  <2>4. Mirrors(s, View[i])'
    BY <2>1, <2>3 DEF Mirrors
  <2>5. QED
    BY <2>1, <2>3, <2>4
<1>3. ASSUME s \in sync'.left, s \in DOMAIN sync'.snap, sync'.snap[s].email = pool'[s].email
      PROVE  \E i \in Used(View)' : View'[i] = sync'.snap[s]
  <2>1. PICK i \in Used(View) : View[i] = sync.snap[s]
    BY <1>1, <1>3 DEF Placed, After
  <2>2. View[i].sub = s /\ View[i].email = pool[s].email
    BY <1>3, <2>1 DEF SyncTyped
  <2>3. i \in Used(View)' /\ View'[i] = View[i]
    BY <1>1, <2>2 DEF Stays
  <2>4. QED
    BY <2>1, <2>3
<1>4. QED
  BY <1>2, <1>3

\* Where the view stays, so does every row.
LEMMA SameViewStays ==
  ASSUME View' = View, NEW s PROVE Stays(s)
BY DEF Stays, Used

\* Where no crawl has read the table, nothing is placed.
LEMMA NotPlaced ==
  ASSUME DOMAIN sync'.map = {} \/ sync'.at \notin After
  PROVE  RowsSound'
BY DEF RowsSound, Placed, After

\* The snapshot is of rows there are.
LEMMA PrefetchPlaced ==
  ASSUME SyncAssumption, SyncTyped, TableKept, ListingSound, Prefetch
  PROVE  RowsSound'
<1>1. sync'.left = DOMAIN sync'.map /\ sync'.at = "users"
  BY PrefetchHeard
<1>2. \A s \in DOMAIN sync'.snap : \E i \in Used(rows) : sync'.snap[s] = rows[i]
  <2>1. TableTyped
    BY TableIs
  <2>2. QED
    BY <2>1, PrefetchTyped
<1>3. View' = rows
  <2>1. sync.at = "prefetch" /\ rows' = rows /\ work' = work
    BY DEF Prefetch
  <2>2. DOMAIN work = {} /\ rows \in Tables
    BY <2>1 DEF TableKept
  <2>3. Overlaid(rows', work') = rows
    BY <2>1, <2>2, OverNothing
  <2>4. QED
    BY <2>3, ViewOverNext
<1>4. ASSUME NEW s \in Subs PROVE Placed(s)'
  <2>1. Used(View)' = Used(rows)
    BY <1>3 DEF Used
  <2>2. QED
    BY <1>1, <1>2, <1>3, <2>1 DEF Placed
<1>5. QED
  BY <1>4 DEF RowsSound

\* What the sync knows of an account nobody touched is what the pool has.
LEMMA UntouchedHeard ==
  ASSUME SyncAssumption, PoolTyped, SyncTyped, ListingSound, NEW s \in Subs, Untouched(s), sync.at \in After
  PROVE  /\ s \in DOMAIN sync.map
         /\ sync.map[s].email = pool[s].email /\ sync.map[s].enabled = pool[s].enabled
         /\ sync.map[s].groups = pool[s].groups
         /\ sync.at # "done" => sync.synced = Mapped \ Homeless
         /\ \A u \in DOMAIN sync.map : u # s => sync.map[u].email # pool[s].email
<1>1. Heard(s) /\ CrawlSound
  BY DEF ListingSound
<1>2. Known(s) /\ s \notin touched /\ pool[s].email \notin touched /\ errors \subseteq {"team"}
  BY DEF Untouched
<1>3. s \in DOMAIN sync.map
  BY <1>1, <1>2 DEF Heard, After
<1>4. sync.map[s].email = pool[s].email /\ sync.map[s].enabled = pool[s].enabled
  BY <1>1, <1>2, <1>3 DEF Heard
<1>5. sync.map[s].groups = pool[s].groups \ sync.todo /\ sync.todo = {}
  <2>1. "members" \notin errors
    BY <1>2
  <2>2. sync.todo = {}
    BY <1>1 DEF CrawlSound, After
  <2>3. QED
    BY <1>1, <1>2, <1>3, <2>1, <2>2 DEF Heard
<1>6. sync.at # "done" => sync.synced = Mapped \ Homeless
  BY <1>1, <1>5 DEF CrawlSound, After, Crawling
<1>7. \A u \in DOMAIN sync.map : u # s => sync.map[u].email # pool[s].email
  BY <1>1, <1>2 DEF Heard
<1>8. QED
  BY <1>3, <1>4, <1>5, <1>6, <1>7

\* One user: its row is right now, and no other account's row was taken.
LEMMA SyncOnePlaced ==
  ASSUME SyncAssumption, PoolTyped, SyncTyped, TableKept, ListingSound, RowsSound,
         NEW x \in Subs, SyncOne(x), OneDone(x)
  PROVE  RowsSound'
<1>1. /\ sync'.at = "users" /\ sync'.left = sync.left \ {x} /\ sync'.map = sync.map /\ sync'.snap = sync.snap
  BY SyncOneTyped
<1>2. /\ sync.at = "users" /\ x \in sync.left /\ pool' = pool /\ touched' = touched /\ errors' = errors
  BY DEF SyncOne
<1>3. conflicts \subseteq conflicts'
  BY DEF OneDone, OneSkipped, OneWritten
<1>4. \A s \in Subs : Untouched(s)' => Untouched(s)
  BY <1>2, <1>3 DEF Untouched, Known
<1>5. ASSUME NEW s \in Subs, s # x PROVE Placed(s)'
  <2>1. ASSUME Untouched(s) PROVE Stays(s)
    <3>1. CASE View' = View
      BY <3>1, SameViewStays
    <3>2. CASE \E i \in Ids, r \in Rows : OneWritten(x, i, r)
      <4>1. PICK i \in Ids, r \in Rows : OneWritten(x, i, r)
        BY <3>2
      <4>2. Places(View, x, sync.map[x].email, i) /\ View' = [View EXCEPT ![i] = r]
        BY <4>1 DEF OneWritten
      <4>3. sync.map[x].email # pool[s].email
        <5>1. x \in DOMAIN sync.map
          BY <1>2 DEF ListingSound, CrawlSound
        <5>2. QED
          BY <1>2, <1>5, <2>1, <5>1, UntouchedHeard DEF After
      <4>4. ASSUME NEW j \in Used(View), View[j].sub = s, View[j].email = pool[s].email
            PROVE  j \in Used(View)' /\ View'[j] = View[j]
        <5>1. j # i
          BY <1>5, <4>2, <4>3, <4>4 DEF Places, BySub, ByEmail
        <5>2. j \in Ids /\ View[j] # NoRow
          BY DEF Used
        <5>3. View'[j] = View[j]
          BY <4>2, <5>1, <5>2 DEF View
        <5>4. QED
          BY <5>2, <5>3 DEF Used
      <4>5. QED
        BY <4>4 DEF Stays
    <3>3. QED
      BY <3>1, <3>2 DEF OneDone, OneSkipped
  <2>2. Placed(s) /\ pool'[s] = pool[s] /\ (s \in sync'.left <=> s \in sync.left)
    BY <1>1, <1>2, <1>5 DEF RowsSound
  <2>3. sync'.at \in After => sync.at \in After
    BY <1>2 DEF After
  <2>4. sync'.at # "moves"
    BY <1>1
  <2>5. QED
    BY <1>1, <1>4, <2>1, <2>2, <2>3, <2>4, PlacedKept
<1>6. Placed(x)'
  <2> SUFFICES ASSUME Untouched(x)'
               PROVE  \E i \in Used(View)' : Mirrors(x, View[i])'
    BY <1>1 DEF Placed
  <2> DEFINE info == sync.map[x]
             team == TeamOf(info.groups, sync.synced)
  <2>1. Untouched(x)
    BY <1>4
  <2>2. /\ x \in DOMAIN sync.map /\ info.email = pool[x].email /\ info.enabled = pool[x].enabled
        /\ info.groups = pool[x].groups /\ sync.synced = Mapped \ Homeless
    BY <1>2, <2>1, UntouchedHeard DEF After
  <2>3. \A r : r = Row(x, info.email, team, RoleOf(info.groups), info.enabled, r.oidc) <=> Mirrors(x, r)'
    BY <1>2, <2>2 DEF Mirrors
  <2>4. CASE \E i \in Ids, r \in Rows : OneWritten(x, i, r)
    <3>1. PICK i \in Ids, r \in Rows : OneWritten(x, i, r)
      BY <2>4
    <3>2. View' = [View EXCEPT ![i] = r] /\ r = Row(x, info.email, team, RoleOf(info.groups), info.enabled, r.oidc)
      BY <3>1 DEF OneWritten
    <3>3. View'[i] = r
      BY <3>2 DEF View
    <3>4. i \in Used(View)'
      BY <3>3 DEF Used, SyncAssumption
    <3>5. Mirrors(x, View[i])'
      BY <2>3, <3>2, <3>3
    <3>6. QED
      BY <3>4, <3>5
  <2>5. CASE OneSkipped(x)
    <3> DEFINE r == sync.snap[x]
    <3>1. View' = View /\ x \in DOMAIN sync.snap /\ ~NeedsUpdate(r, x, info, team)
      BY <2>5 DEF OneSkipped
    <3>2. r \in Rows /\ r.sub = x
      BY <3>1 DEF SyncTyped
    <3>3. r.email = info.email /\ r.team = team /\ r.role = RoleOf(info.groups) /\ r.active = info.enabled
      BY <3>1 DEF NeedsUpdate
    <3>4. r = Row(x, info.email, team, RoleOf(info.groups), info.enabled, r.oidc)
      <4> HIDE DEF r, team, info
      <4>1. QED
        BY <3>2, <3>3 DEF Rows, Row
    <3>5. PICK i \in Used(View) : View[i] = r
      BY <1>2, <2>1, <2>2, <3>1, <3>3 DEF RowsSound, Placed
    <3>6. Mirrors(x, View[i])' /\ i \in Used(View)'
      BY <2>3, <3>1, <3>4, <3>5 DEF Used
    <3>7. QED
      BY <3>6
  <2>6. CASE conflicts' = conflicts \cup {x}
    BY <2>6 DEF Untouched
  <2>7. QED
    BY <2>4, <2>5, <2>6 DEF OneDone
<1>7. QED
  BY <1>5, <1>6 DEF RowsSound

\* The last commit changes no row of the view.
LEMMA CommitRestPlaced ==
  ASSUME SyncAssumption, SyncTyped, TableKept, RowsSound, CommitRest, View' = View
  PROVE  RowsSound'
<1>1. TableTyped
  BY TableIs
<1>2. sync'.map = sync.map /\ sync'.left = sync.left /\ sync'.snap = sync.snap
  BY <1>1, AdvanceTyped
<1>3. /\ sync.at = "users" /\ pool' = pool /\ touched' = touched /\ errors' = errors /\ conflicts' = conflicts
      /\ sync'.at \in {"missing", "teams"}
  <2>1. SyncShape(sync)
    BY SyncIs
  <2>2. QED
    BY <2>1 DEF CommitRest, syncHistory, SyncShape
<1>4. ASSUME NEW s \in Subs PROVE Placed(s)'
  <2>1. Placed(s) /\ pool'[s] = pool[s] /\ Stays(s) /\ (Untouched(s)' => Untouched(s))
    BY <1>3, SameViewStays DEF RowsSound, Untouched, Known
  <2>2. (sync'.at \in After => sync.at \in After) /\ sync'.at # "moves"
    BY <1>3 DEF After
  <2>3. QED
    BY <1>2, <2>1, <2>2, PlacedKept
<1>5. QED
  BY <1>4 DEF RowsSound

\* Who was seen is not deactivated.
LEMMA DeactivatePlaced ==
  ASSUME SyncAssumption, SyncTyped, PoolTyped, TableKept, ListingSound, RowsSound, DeactivateUnseen
  PROVE  RowsSound'
<1>1. TableTyped
  BY TableIs
<1>2. sync'.map = sync.map /\ sync'.left = sync.left /\ sync'.snap = sync.snap
  BY <1>1, AdvanceTyped
<1>3. /\ sync.at = "missing" /\ pool' = pool /\ touched' = touched /\ errors' = errors /\ conflicts' = conflicts
      /\ sync'.at = "teams"
  <2>1. SyncShape(sync)
    BY SyncIs
  <2>2. QED
    BY <2>1 DEF DeactivateUnseen, syncHistory, SyncShape
<1>4. /\ View' = rows' /\ View = rows
      /\ \A i \in Ids : rows'[i] = rows[i] \/ rows[i].sub \notin sync.seen
  BY DeactivateDoes
<1>5. ASSUME NEW s \in Subs PROVE Placed(s)'
  <2>1. ASSUME Untouched(s) PROVE Stays(s)
    <3>1. s \in sync.seen
      <4>1. s \in DOMAIN sync.map
        BY <1>3, <2>1, UntouchedHeard DEF After
      <4>2. QED
        BY <1>3, <4>1 DEF ListingSound, CrawlSound
    <3>2. QED
      BY <1>4, <3>1 DEF Stays, Used
  <2>2. Placed(s) /\ pool'[s] = pool[s] /\ (Untouched(s)' => Untouched(s))
    BY <1>3 DEF RowsSound, Untouched, Known
  <2>3. (sync'.at \in After => sync.at \in After) /\ sync'.at # "moves"
    BY <1>3 DEF After
  <2>4. QED
    BY <1>2, <2>1, <2>2, <2>3, PlacedKept
<1>6. QED
  BY <1>5 DEF RowsSound

\* Who is in a team the crawl saw is not moved.
LEMMA ReadStalePlaced ==
  ASSUME SyncAssumption, SyncTyped, PoolTyped, TableKept, ListingSound, RowsSound, ReadStaleTeams
  PROVE  RowsSound'
<1> DEFINE T == {i \in Used(rows) : /\ rows[i].active
                                    /\ rows[i].team \notin sync.synced \cup {DefaultTeam}}
<1>1. SyncShape(sync)
  BY SyncIs
<1>2. /\ sync.at = "teams" /\ sync' = [sync EXCEPT !.at = "moves", !.moved = T]
      /\ pool' = pool /\ rows' = rows /\ work' = work /\ touched' = touched /\ errors' = errors /\ conflicts' = conflicts
  BY DEF ReadStaleTeams, syncHistory
<1>3. View' = View /\ View = rows
  <2>1. DOMAIN work = {} /\ rows \in Tables
    BY <1>2 DEF TableKept
  <2>2. QED
    BY <1>2, <2>1, OverNothing, ViewOver, ViewOverNext
<1>4. \A i \in T : rows[i].team \notin sync.synced \cup {DefaultTeam}
  OBVIOUS
<1> HIDE DEF T
<1>5. sync'.at = "moves" /\ sync'.moved = T /\ sync'.map = sync.map /\ sync'.left = sync.left /\ sync'.snap = sync.snap
  BY <1>1, <1>2 DEF SyncShape
<1>6. ASSUME NEW s \in Subs PROVE Placed(s)'
  <2> SUFFICES ASSUME Untouched(s)', s \in DOMAIN sync.map
               PROVE  \E i \in Used(View)' : Mirrors(s, View[i])' /\ i \notin T
    <3>1. sync.left = {}
      BY <1>2 DEF ListingSound, CrawlSound
    <3>2. QED
      BY <1>5, <3>1 DEF Placed
  <2>1. Untouched(s)
    BY <1>2 DEF Untouched, Known
  <2>2. s \notin sync.left /\ sync.synced = Mapped \ Homeless
    <3>1. sync.left = {}
      BY <1>2 DEF ListingSound, CrawlSound
    <3>2. QED
      BY <1>2, <2>1, <3>1, UntouchedHeard DEF After
  <2>3. PICK i \in Used(View) : Mirrors(s, View[i])
    BY <1>2, <2>1, <2>2 DEF RowsSound, Placed
  <2>4. View[i].team \in sync.synced \cup {DefaultTeam}
    <3>1. View[i].team = TeamOf(pool[s].groups, Mapped \ Homeless)
      <4>1. \A a, e, t, r, o, p : Row(a, e, t, r, o, p).team = t
        BY DEF Row
      <4>2. QED
        BY <2>3, <4>1 DEF Mirrors
    <3>2. QED
      BY <2>2, <3>1, TeamIsWanted
  <2>5. i \notin T
    BY <1>3, <1>4, <2>4
  <2>6. i \in Used(View)' /\ Mirrors(s, View[i])'
    BY <1>2, <1>3, <2>3 DEF Used, Mirrors
  <2>7. QED
    BY <2>5, <2>6
<1>7. QED
  BY <1>6 DEF RowsSound

\* The moves change only those that were read.
LEMMA CommitMovesPlaced ==
  ASSUME SyncAssumption, SyncTyped, TableKept, ListingSound, RowsSound, CommitMoves
  PROVE  RowsSound'
<1>1. TableTyped
  BY TableIs
<1>2. sync'.map = sync.map /\ sync'.left = sync.left /\ sync'.snap = sync.snap
  BY <1>1, AdvanceTyped
<1>3. /\ sync.at = "moves" /\ pool' = pool /\ touched' = touched /\ errors' = errors /\ conflicts' = conflicts
      /\ sync'.at = "done"
  <2>1. SyncShape(sync)
    BY SyncIs
  <2>2. QED
    BY <2>1 DEF CommitMoves, syncHistory, SyncShape
<1>4. sync.moved \subseteq Used(rows) /\ sync.left = {}
  BY <1>3 DEF ListingSound, CrawlSound
<1>5. View' = rows' /\ View = rows /\ \A i \in Ids \ sync.moved : rows'[i] = rows[i]
  BY <1>4, CommitMovesDoes
<1>6. ASSUME NEW s \in Subs PROVE Placed(s)'
  <2> SUFFICES ASSUME Untouched(s)', s \in DOMAIN sync.map
               PROVE  \E i \in Used(View)' : Mirrors(s, View[i])'
    BY <1>2, <1>3, <1>4 DEF Placed
  <2>1. Untouched(s)
    BY <1>3 DEF Untouched, Known
  <2>2. PICK i \in Used(View) : Mirrors(s, View[i]) /\ i \notin sync.moved
    BY <1>3, <1>4, <2>1 DEF RowsSound, Placed
  <2>3. View'[i] = View[i]
    BY <1>5, <2>2 DEF Used
  <2>4. i \in Used(View)' /\ Mirrors(s, View[i])'
    BY <1>3, <2>2, <2>3 DEF Used, Mirrors
  <2>5. QED
    BY <2>4
<1>7. QED
  BY <1>6 DEF RowsSound

\* A transaction of its own.
LEMMA OthersPlaced ==
  ASSUME SyncAssumption, SyncTyped, TableKept, RowsSound,
         sync' = sync, pool' = pool, errors' = errors, conflicts' = conflicts, work' = work, touched \subseteq touched',
         \A i \in DOMAIN work : rows'[i] = rows[i],
         \A i \in Used(rows) : ({rows[i].sub, rows[i].email} \cap touched' = {}) => rows'[i] = rows[i]
  PROVE  RowsSound'
<1>1. ASSUME NEW s \in Subs PROVE Placed(s)'
  <2>1. ASSUME Untouched(s)' PROVE Stays(s)
    <3> SUFFICES ASSUME NEW j \in Used(View), View[j].sub = s, View[j].email = pool[s].email
                 PROVE  j \in Used(View)' /\ View'[j] = View[j]
      BY DEF Stays
    <3>1. j \in Ids /\ View[j] # NoRow
      BY DEF Used
    <3>2. View'[j] = View[j]
      <4>1. CASE j \in DOMAIN work
        BY <3>1, <4>1 DEF View
      <4>2. CASE j \notin DOMAIN work
        <5>1. View[j] = rows[j] /\ View'[j] = rows'[j]
          BY <3>1, <4>2 DEF View
        <5>2. j \in Used(rows)
          BY <3>1, <5>1 DEF Used
        <5>3. {rows[j].sub, rows[j].email} \cap touched' = {}
          BY <2>1, <5>1 DEF Untouched
        <5>4. QED
          BY <5>1, <5>2, <5>3
      <4>3. QED
        BY <4>1, <4>2
    <3>3. QED
      BY <3>1, <3>2 DEF Used
  <2>2. Placed(s) /\ pool'[s] = pool[s] /\ (Untouched(s)' => Untouched(s))
    BY DEF RowsSound, Untouched, Known
  <2>3. QED
    BY <2>1, <2>2, PlacedKept
<1>2. QED
  BY <1>1 DEF RowsSound

\* Fetching changes no row.
LEMMA FetchPlaced ==
  ASSUME SyncAssumption, SyncTyped, RowsSound, sync' = sync, pool' = pool, errors' = errors,
         conflicts' = conflicts, View' = View, touched' = IF sync.at = "idle" THEN {} ELSE touched
  PROVE  RowsSound'
<1>1. CASE sync.at = "idle"
  <2>1. sync'.at \notin After
    BY <1>1 DEF After
  <2>2. QED
    BY <2>1, NotPlaced
<1>2. CASE sync.at # "idle"
  <2>1. ASSUME NEW s \in Subs PROVE Placed(s)'
    <3>1. Placed(s) /\ pool'[s] = pool[s] /\ (Untouched(s)' => Untouched(s)) /\ Stays(s)
      BY <1>2, SameViewStays DEF RowsSound, Untouched, Known
    <3>2. QED
      BY <3>1, PlacedKept
  <2>2. QED
    BY <2>1 DEF RowsSound
<1>3. QED
  BY <1>1, <1>2

\* A change of the pool touches the account it is about.
LEMMA PoolChangesPlaced ==
  ASSUME SyncAssumption, SyncTyped, PoolTyped, RowsSound, NEW s \in Subs, PoolChanges(s), View' = View
  PROVE  RowsSound'
<1>1. PICK account : /\ Change(s, account) /\ pool'[s] = account
                     /\ \A u \in Subs \ {s} : pool'[u] = pool[u]
  BY ChangeTyped
<1>2. /\ sync' = sync /\ errors' = errors /\ conflicts' = conflicts /\ touched \subseteq touched' /\ s \in touched'
  BY <1>1 DEF Change
<1>3. ASSUME NEW u \in Subs, u # s PROVE Placed(u)'
  <2>1. Placed(u) /\ pool'[u] = pool[u] /\ (Untouched(u)' => Untouched(u)) /\ Stays(u)
    BY <1>1, <1>2, <1>3, SameViewStays DEF RowsSound, Untouched, Known
  <2>2. QED
    BY <1>2, <2>1, PlacedKept
<1>4. Placed(s)'
  BY <1>2 DEF Placed, Untouched
<1>5. QED
  BY <1>3, <1>4 DEF RowsSound

-----------------------------------------------------------------------------
(* The invariant and what follows from it.                                 *)
\* The first state is sound.
LEMMA SyncInitSound ==
  ASSUME SyncAssumption, SyncInit
  PROVE  SyncSound
<1> DEFINE local == CHOOSE i \in Ids : TRUE
           r == Row(Local, Local, Handmade, "DEVELOPER", TRUE, FALSE)
<1>1. /\ work = <<>> /\ sync = NoSync /\ single = NoSingle /\ errors = {} /\ conflicts = {} /\ touched = {}
      /\ rows = [i \in Ids |-> IF i = local THEN r ELSE NoRow]
  BY DEF SyncInit
<1> HIDE DEF local
<1>2. SyncTyped
  BY <1>1, NoSyncTyped, SyncIs
<1>3. SingleTyped
  <2>1. single = [op |-> "none", of |-> NoAccount, map |-> <<>>]
    BY <1>1 DEF NoSingle
  <2>2. DOMAIN single.map = {}
    BY <1>1, NoSingleIs
  <2>3. QED
    BY <2>1, <2>2 DEF SingleTyped, Listed
<1>4. PoolTyped
  <2>1. pool \in [Subs -> {NoAccount} \cup [email : Emails, enabled : {TRUE}, groups : Memberships]]
    BY DEF SyncInit
  <2>2. [email : Emails, enabled : {TRUE}, groups : Memberships] \subseteq Accounts
    BY DEF Accounts, SyncAssumption
  <2>3. pool \in [Subs -> Accounts \cup {NoAccount}]
    BY <2>1, <2>2
  <2>4. QED
    BY <2>3 DEF SyncInit, PoolTyped
<1>5. r \in Rows /\ r.sub = Local /\ ~r.oidc /\ r # NoRow
  <2>1. r \in Rows /\ r.sub = Local /\ ~r.oidc
    BY DEF Row, Rows, Mails, Homes
  <2>2. QED
    BY <2>1 DEF SyncAssumption
<1> HIDE DEF r
<1>6. rows \in Tables /\ OwnRows(rows) /\ ByHand(rows) /\ DOMAIN work = {}
  <2>1. rows \in Tables /\ DOMAIN work = {}
    BY <1>1, <1>5 DEF Tables
  <2>2. \A i \in Used(rows) : i = local /\ rows[i] = r
    BY <1>1 DEF Used
  <2>3. QED
    BY <1>5, <2>1, <2>2 DEF OwnRows, ByHand
<1>7. TableTyped /\ TableSound
  <2>1. Overlaid(rows, work) = rows
    BY <1>6, OverNothing
  <2>2. TableKept
    BY <1>6, <2>1 DEF TableKept, Written, TwoSound, FromMap
  <2>3. QED
    BY <2>2, TableIs
<1>8. sync.at = "idle" /\ sync.todo = {} /\ DOMAIN sync.map = {} /\ sync.left = {}
  BY <1>1, NoSyncIs
<1>9. ListingSound
  <2>1. CrawlSound
    BY <1>8 DEF CrawlSound, Crawling
  <2>2. \A s \in Subs : Heard(s)
    BY <1>1, <1>8, NoSingleIs DEF Heard
  <2>3. QED
    BY <2>1, <2>2 DEF ListingSound
<1>10. RowsSound
  BY <1>8 DEF RowsSound, Placed
<1>11. QED
  BY <1>2, <1>3, <1>4, <1>7, <1>9, <1>10 DEF SyncSound, SyncsTyped

Sound == SyncTyped /\ SingleTyped /\ PoolTyped /\ TableKept /\ ListingSound /\ RowsSound

\* The invariant, over the table and the batch as one.
LEMMA SoundIs == SyncSound <=> Sound
BY TableIs DEF SyncSound, SyncsTyped, Sound

\* What has to be shown of it after a step.
LEMMA SoundNext ==
  ASSUME SyncTyped', SingleTyped', PoolTyped', TableTyped', TableSound', ListingSound', RowsSound'
  PROVE  SyncSound'
BY DEF SyncSound, SyncsTyped

\* Types that do not change.
LEMMA SameSingle == ASSUME SingleTyped, single' = single PROVE SingleTyped'
BY DEF SingleTyped, Listed

\* Types that do not change.
LEMMA SameSync == ASSUME SyncTyped, sync' = sync PROVE SyncTyped'
BY DEF SyncTyped, Listed

\* Types that do not change.
LEMMA SamePool == ASSUME PoolTyped, pool' = pool PROVE PoolTyped'
BY DEF PoolTyped

\* The steps of sync_all keep the invariant.
LEMMA SyncAllSound ==
  ASSUME SyncAssumption, Sound, SyncAll
  PROVE  SyncSound'
<1>1. SyncTyped /\ SingleTyped /\ PoolTyped /\ TableKept /\ ListingSound /\ RowsSound /\ TableTyped
  BY TableIs DEF Sound
<1>2. single' = single /\ pool' = pool
  BY DEF SyncAll, StartSync, ListAllUsers, Prefetch, CommitRest, DeactivateUnseen, ReadStaleTeams, CommitMoves,
         SyncAborts, FetchGroup, SyncOne, syncHistory, syncBounds
<1>3. SingleTyped' /\ PoolTyped'
  BY <1>1, <1>2, SameSingle, SamePool
<1>4. CASE StartSync
  <2>1. SyncTyped' /\ ListingSound'
    BY <1>1, <1>4, StartSyncTyped, StartSyncHeard
  <2>2. rows' = rows /\ work' = work /\ sync.at # "users"
    BY <1>4 DEF StartSync
  <2>3. TableTyped' /\ TableSound'
    BY <1>1, <2>2, TableUnchanged
  <2>4. DOMAIN sync'.map = {}
    <3>1. sync'.map = NoSync.map
      BY <1>4 DEF StartSync, NoSync
    <3>2. QED
      BY <3>1, NoSyncIs
  <2>5. QED
    BY <1>3, <2>1, <2>3, <2>4, NotPlaced, SoundNext
<1>5. CASE \E g \in Groups : FetchGroup(g)
  <2>1. PICK g \in Groups : FetchGroup(g)
    BY <1>5
  <2>2. SyncTyped' /\ ListingSound'
    BY <1>1, <2>1, FetchGroupTyped, FetchGroupHeard
  <2>3. rows' = rows /\ work' = work /\ sync.at = "groups"
    BY <2>1 DEF FetchGroup
  <2>4. TableTyped' /\ TableSound'
    BY <1>1, <2>3, TableUnchanged
  <2>5. sync'.at = "groups"
    <3>1. SyncShape(sync)
      BY <1>1, SyncIs
    <3> DEFINE team == IF g \in Mapped \ Homeless THEN {g} ELSE {}
               after == [sync EXCEPT !.todo = @ \ {g}, !.synced = @ \cup team]
               noted == Noted(after.map, MembersOf(g), {g})
    <3>2. sync' = after \/ sync' = [after EXCEPT !.map = noted]
      BY <2>1 DEF FetchGroup
    <3>3. SyncShape(after) /\ after.at = sync.at
      <4>1. team \subseteq Mapped
        OBVIOUS
      <4> HIDE DEF team
      <4>2. QED
        BY <3>1, <4>1 DEF SyncShape
    <3> HIDE DEF after, noted
    <3>4. QED
      BY <2>3, <3>2, <3>3 DEF SyncShape
  <2>6. sync'.at \notin After
    BY <2>5 DEF After
  <2>7. QED
    BY <1>3, <2>2, <2>4, <2>6, NotPlaced, SoundNext
<1>6. CASE ListAllUsers
  <2>1. SyncTyped' /\ ListingSound'
    BY <1>1, <1>6, ListAllUsersTyped, ListAllUsersHeard
  <2>2. rows' = rows /\ work' = work /\ sync.at = "groups"
    BY <1>6 DEF ListAllUsers
  <2>3. TableTyped' /\ TableSound'
    BY <1>1, <2>2, TableUnchanged
  <2>4. sync'.at = "prefetch"
    <3>1. SyncShape(sync)
      BY <1>1, SyncIs
    <3> DEFINE noted == Noted(sync.map, {s \in Subs : pool[s] # NoAccount}, {})
    <3>2. sync' = [sync EXCEPT !.at = "prefetch", !.map = noted] \/ sync' = [sync EXCEPT !.at = "prefetch"]
      BY <1>6 DEF ListAllUsers
    <3> HIDE DEF noted
    <3>3. QED
      BY <3>1, <3>2 DEF SyncShape
  <2>5. sync'.at \notin After
    BY <2>4 DEF After
  <2>6. QED
    BY <1>3, <2>1, <2>3, <2>5, NotPlaced, SoundNext
<1>7. CASE Prefetch
  <2>1. SyncTyped' /\ ListingSound' /\ RowsSound'
    BY <1>1, <1>7, PrefetchTyped, PrefetchHeard, PrefetchPlaced
  <2>2. rows' = rows /\ work' = work /\ sync.at = "prefetch"
    BY <1>7 DEF Prefetch
  <2>3. TableTyped' /\ TableSound'
    BY <1>1, <2>2, TableUnchanged
  <2>4. QED
    BY <1>3, <2>1, <2>3, SoundNext
<1>8. CASE \E s \in Subs : SyncOne(s)
  <2>1. PICK s \in Subs : SyncOne(s)
    BY <1>8
  <2>2. SyncTyped' /\ ListingSound'
    BY <1>1, <2>1, SyncOneTyped, SyncOneHeard
  <2>3. sync.left \subseteq DOMAIN sync.map
    BY <1>1 DEF ListingSound, CrawlSound
  <2>4. TableTyped' /\ TableSound' /\ OneDone(s)
    BY <1>1, <2>1, <2>3, SyncOneDoes
  <2>5. RowsSound'
    BY <1>1, <2>1, <2>4, SyncOnePlaced
  <2>6. QED
    BY <1>3, <2>2, <2>4, <2>5, SoundNext
<1>9. CASE CommitRest
  <2>1. SyncTyped' /\ ListingSound'
    BY <1>1, <1>9, AdvanceTyped, AdvanceHeard
  <2>2. TableTyped' /\ TableSound' /\ View' = View
    BY <1>1, <1>9, CommitRestDoes
  <2>3. RowsSound'
    BY <1>1, <1>9, <2>2, CommitRestPlaced
  <2>4. QED
    BY <1>3, <2>1, <2>2, <2>3, SoundNext
<1>10. CASE DeactivateUnseen
  <2>1. SyncTyped' /\ ListingSound'
    BY <1>1, <1>10, AdvanceTyped, AdvanceHeard
  <2>2. TableTyped' /\ TableSound'
    BY <1>1, <1>10, DeactivateDoes
  <2>3. RowsSound'
    BY <1>1, <1>10, DeactivatePlaced
  <2>4. QED
    BY <1>3, <2>1, <2>2, <2>3, SoundNext
<1>11. CASE ReadStaleTeams
  <2>1. SyncTyped' /\ ListingSound' /\ RowsSound'
    BY <1>1, <1>11, AdvanceTyped, AdvanceHeard, ReadStalePlaced
  <2>2. rows' = rows /\ work' = work /\ sync.at = "teams"
    BY <1>11 DEF ReadStaleTeams
  <2>3. TableTyped' /\ TableSound'
    BY <1>1, <2>2, TableUnchanged
  <2>4. QED
    BY <1>3, <2>1, <2>3, SoundNext
<1>12. CASE CommitMoves
  <2>1. SyncTyped' /\ ListingSound' /\ RowsSound'
    BY <1>1, <1>12, AdvanceTyped, AdvanceHeard, CommitMovesPlaced
  <2>2. sync.moved \subseteq Used(rows)
    BY <1>1, <1>12 DEF CommitMoves, ListingSound, CrawlSound
  <2>3. TableTyped' /\ TableSound'
    BY <1>1, <1>12, <2>2, CommitMovesDoes
  <2>4. QED
    BY <1>3, <2>1, <2>3, SoundNext
<1>13. CASE SyncAborts
  <2>1. SyncTyped' /\ ListingSound'
    BY <1>1, <1>13, SyncAbortsTyped, SyncAbortsHeard
  <2>2. rows' = rows /\ work' = <<>> /\ sync' = NoSync
    BY <1>13 DEF SyncAborts
  <2>3. TableTyped' /\ TableSound'
    <3>1. rows \in Tables /\ OwnRows(rows) /\ ByHand(rows) /\ DOMAIN work' = {}
      BY <1>1, <2>2 DEF TableKept, TwoSound
    <3>2. Overlaid(rows', work') = rows'
      BY <2>2, <3>1, OverNothing
    <3>3. Written(work') /\ FromMap(work', sync'.map)
      BY <3>1 DEF Written, FromMap
    <3>4. QED
      BY <2>2, <3>1, <3>2, <3>3, TableIsNext
  <2>4. RowsSound'
    BY <2>2, NoSyncIs, NotPlaced
  <2>5. QED
    BY <1>3, <2>1, <2>3, <2>4, SoundNext
<1>14. QED
  BY <1>4, <1>5, <1>6, <1>7, <1>8, <1>9, <1>10, <1>11, <1>12, <1>13 DEF SyncAll

\* So do the other transactions and the pool.
LEMMA OthersSound ==
  ASSUME SyncAssumption, Sound, SyncNext, ~SyncAll
  PROVE  SyncSound'
<1>1. SyncTyped /\ SingleTyped /\ PoolTyped /\ TableKept /\ ListingSound /\ RowsSound
  BY DEF Sound
<1>2. CASE StoreSingle
  <2>1. /\ sync' = sync /\ pool' = pool /\ errors' = errors /\ conflicts' = conflicts /\ work' = work
        /\ touched \subseteq touched'
    BY <1>2 DEF StoreSingle
  <2>2. SyncTyped' /\ PoolTyped' /\ SingleTyped'
    BY <1>1, <1>2, <2>1, SameSync, SamePool, SingleNext
  <2>3. TableTyped' /\ TableSound' /\ SingleDone
    BY <1>1, <1>2, StoreSingleDoes
  <2>4. ListingSound'
    BY <1>1, <1>2, <2>3, StoreSingleHeard DEF SingleDone
  <2>5. RowsSound'
    BY <1>1, <2>1, <2>3, OthersPlaced DEF SingleDone
  <2>6. QED
    BY <2>2, <2>3, <2>4, <2>5, SoundNext
<1>3. CASE \E e \in Emails : FetchUser(e)
  <2>1. PICK e \in Emails : FetchUser(e)
    BY <1>3
  <2>2. /\ sync' = sync /\ pool' = pool /\ errors' = errors /\ conflicts' = conflicts /\ rows' = rows /\ work' = work
        /\ touched' = IF sync.at = "idle" THEN {} ELSE touched
    BY <2>1 DEF FetchUser
  <2>3. SyncTyped' /\ PoolTyped' /\ SingleTyped' /\ ListingSound'
    BY <1>1, <2>1, <2>2, SameSync, SamePool, SingleNext, FetchUserHeard
  <2>4. TableTyped' /\ TableSound' /\ View' = View
    BY <1>1, <2>2, TableUnchanged
  <2>5. RowsSound'
    BY <1>1, <2>2, <2>4, FetchPlaced
  <2>6. QED
    BY <2>3, <2>4, <2>5, SoundNext
<1>4. CASE \E g \in Groups : FetchMembers(g)
  <2>1. PICK g \in Groups : FetchMembers(g)
    BY <1>4
  <2>2. /\ sync' = sync /\ pool' = pool /\ errors' = errors /\ conflicts' = conflicts /\ rows' = rows /\ work' = work
        /\ touched' = IF sync.at = "idle" THEN {} ELSE touched
    BY <2>1 DEF FetchMembers
  <2>3. SyncTyped' /\ PoolTyped' /\ SingleTyped' /\ ListingSound'
    BY <1>1, <2>1, <2>2, SameSync, SamePool, SingleNext, FetchMembersHeard
  <2>4. TableTyped' /\ TableSound' /\ View' = View
    BY <1>1, <2>2, TableUnchanged
  <2>5. RowsSound'
    BY <1>1, <2>2, <2>4, FetchPlaced
  <2>6. QED
    BY <2>3, <2>4, <2>5, SoundNext
<1>5. CASE \E s \in Subs : PoolChanges(s)
  <2>1. PICK s \in Subs : PoolChanges(s)
    BY <1>5
  <2>2. sync' = sync /\ single' = single /\ rows' = rows /\ work' = work
    BY <2>1 DEF PoolChanges, Change
  <2>3. SyncTyped' /\ PoolTyped' /\ SingleTyped' /\ ListingSound'
    BY <1>1, <2>1, <2>2, SameSync, SameSingle, ChangeTyped, PoolChangesHeard
  <2>4. TableTyped' /\ TableSound' /\ View' = View
    BY <1>1, <2>2, TableUnchanged
  <2>5. RowsSound'
    BY <1>1, <2>1, <2>4, PoolChangesPlaced
  <2>6. QED
    BY <2>3, <2>4, <2>5, SoundNext
<1>6. CASE \E s \in Subs : \E e \in Emails \cup {Unknown(s)} : Login(s, e)
  <2>0. PICK s \in Subs : \E e \in Emails \cup {Unknown(s)} : Login(s, e)
    BY <1>6
  <2>1. PICK e \in Emails \cup {Unknown(s)} : Login(s, e)
    BY <2>0
  <2>2. /\ sync' = sync /\ single' = single /\ pool' = pool /\ errors' = errors /\ conflicts' = conflicts
        /\ work' = work /\ touched \subseteq touched'
    BY <2>1 DEF Login
  <2>3. TableTyped' /\ TableSound' /\ LoginDone
    BY <1>1, <2>1, LoginDoes
  <2>4. SyncTyped' /\ PoolTyped' /\ SingleTyped' /\ ListingSound'
    BY <1>1, <2>1, <2>2, <2>3, SameSync, SameSingle, SamePool, LoginHeard DEF LoginDone
  <2>5. RowsSound'
    BY <1>1, <2>2, <2>3, OthersPlaced DEF LoginDone
  <2>6. QED
    BY <2>3, <2>4, <2>5, SoundNext
<1>7. QED
  BY <1>2, <1>3, <1>4, <1>5, <1>6 DEF SyncNext

\* And stuttering.
LEMMA StutterSound ==
  ASSUME SyncAssumption, Sound, UNCHANGED syncVars
  PROVE  SyncSound'
<1>1. /\ sync' = sync /\ single' = single /\ pool' = pool /\ errors' = errors /\ conflicts' = conflicts
      /\ touched' = touched /\ rows' = rows /\ work' = work
  BY DEF syncVars, syncHistory
<1>2. SyncTyped /\ SingleTyped /\ PoolTyped /\ TableKept /\ ListingSound /\ RowsSound
  BY DEF Sound
<1>3. SyncTyped' /\ PoolTyped' /\ SingleTyped'
  BY <1>1, <1>2, SameSync, SameSingle, SamePool
<1>4. TableTyped' /\ TableSound'
  BY <1>1, <1>2, TableUnchanged
<1>5. ListingSound'
  <2>1. \A s \in Subs : Heard(s)'
    BY <1>1, <1>2, HeardKept DEF ListingSound
  <2>2. CrawlSound'
    BY <1>1, <1>2 DEF ListingSound, CrawlSound, Used
  <2>3. QED
    BY <2>1, <2>2 DEF ListingSound
<1>6. RowsSound'
  BY <1>1, <1>2, OthersPlaced
<1>7. QED
  BY <1>3, <1>4, <1>5, <1>6, SoundNext

\* The invariant of the Cognito sync: types, a table whose subjects and emails
\* are unique with and without the open batch, listings that are true of whoever
\* was left alone, and the row of each such account (sync_all, _upsert_one_user,
\* oidc login).
THEOREM SyncTypesHold == SyncSpec => []SyncSound
<1>1. SyncInit => SyncSound
  BY SyncAssumption, SyncInitSound
<1>2. SyncSound /\ [SyncNext]_syncVars => SyncSound'
  BY SyncAssumption, SoundIs, SyncAllSound, OthersSound, StutterSound
<1>3. QED
  BY <1>1, <1>2, PTL DEF SyncSpec

\* The users table keeps its subjects and emails unique whatever commits beside
\* an open batch, and every row of it is a user's (the UNIQUE constraints of
\* auth.users, _upsert_one_user, the login).
THEOREM SubjectsAndMailsUnique == SyncSpec => []SyncTypeOK
<1>1. SyncSound => SyncTypeOK
  <2> SUFFICES ASSUME Sound PROVE SyncTypeOK
    BY SoundIs
  <2>1. \A s \in Subs : pool[s] # NoAccount => pool[s] \in Accounts
    BY DEF Sound, PoolTyped
  <2>2. rows \in Tables /\ OwnRows(rows) /\ DOMAIN work \subseteq Ids
    BY DEF Sound, TableKept, TwoSound, Written
  <2>3. \A i \in Used(rows) : rows[i] \in Rows /\ ~Collides(rows, i, rows[i])
    BY <2>2 DEF Used, Tables, OwnRows, Collides
  <2>4. QED
    BY <2>1, <2>2, <2>3 DEF SyncTypeOK
<1>2. QED
  BY <1>1, SyncTypesHold, PTL

\* A finished sync_all leaves the row of every account as the pool has it, for
\* the accounts nobody touched while it ran: what the gate skipped was right, no
\* other write took the row, and the deactivation and the emptying of stale teams
\* passed it by (sync_all, _needs_update, deactivate_missing_oidc_users).
THEOREM TableMirrorsThePool == SyncSpec => []MirrorsThePool
<1>1. SyncSound => MirrorsThePool
  <2> SUFFICES ASSUME Sound, sync.at = "done", errors \subseteq {"team"},
                      NEW s \in Subs, pool[s] # NoAccount, {s, pool[s].email} \cap (touched \cup conflicts) = {}
               PROVE  \E i \in Used(rows) :
                        LET a == pool[s] IN
                        rows[i] = Row(s, a.email, TeamOf(a.groups, Mapped \ Homeless), RoleOf(a.groups),
                                      a.enabled, rows[i].oidc)
    BY SoundIs DEF MirrorsThePool
  <2>1. Untouched(s)
    BY DEF Untouched, Known
  <2>2. s \in DOMAIN sync.map /\ s \notin sync.left
    BY <2>1, SyncAssumption, UntouchedHeard DEF Sound, After, ListingSound, CrawlSound
  <2>3. PICK i \in Used(View) : Mirrors(s, View[i])
    BY <2>1, <2>2 DEF Sound, RowsSound, Placed
  <2>4. View = rows
    <3>1. rows \in Tables /\ DOMAIN work = {}
      BY DEF Sound, TableKept
    <3>2. QED
      BY <3>1, SyncAssumption, OverNothing, ViewOver
  <2>5. QED
    BY <2>3, <2>4 DEF Mirrors
<1>2. QED
  BY <1>1, SyncTypesHold, PTL

\* A row the batch wrote is as the listing was.
LEMMA TakenHasCause ==
  ASSUME ListingSound, SyncTyped, Taken(rows'), NEW i \in Ids, rows[i].active, ~rows'[i].active
  PROVE  LET s == rows'[i].sub IN s \in touched \/ (s \in Subs /\ ~pool[s].enabled)
<1> DEFINE s == rows'[i].sub
<1>1. s \in DOMAIN sync.map /\ rows'[i].active = sync.map[s].enabled
  BY DEF Taken
<1> HIDE DEF s
<1>2. s \in Subs
  BY <1>1 DEF SyncTyped, Listed
<1>3. s \notin touched => sync.map[s].enabled = pool[s].enabled
  BY <1>1, <1>2 DEF ListingSound, Heard
<1>4. s \in touched \/ (s \in Subs /\ ~pool[s].enabled)
  BY <1>1, <1>2, <1>3
<1>5. QED
  BY <1>4 DEF s

Cause(i) ==
  LET s == rows'[i].sub IN
  \/ {s, rows[i].sub, rows[i].email} \cap touched # {}
  \/ s \in Subs /\ pool[s] = NoAccount
  \/ s \in Subs /\ ~pool[s].enabled
  \/ "users" \in errors /\ rows[i].oidc
  \/ /\ single # NoSingle /\ single.of = rows[i].email /\ rows[i].oidc
     /\ \A u \in Subs : pool[u] # NoAccount => pool[u].email # single.of

\* A step that deactivates a row has one of the causes.
LEMMA StepHasCause ==
  ASSUME SyncAssumption, Sound, SyncNext, NEW i \in Used(rows), rows[i].active, ~rows'[i].active
  PROVE  Cause(i)
<1>1. SyncTyped /\ SingleTyped /\ PoolTyped /\ TableKept /\ ListingSound /\ i \in Ids /\ rows[i] \in Rows
  BY DEF Sound, Used, TableKept, Tables
<1>2. rows' # rows
  OBVIOUS
<1>3. CASE (\E s \in Subs : SyncOne(s)) \/ CommitRest
  <2>1. Taken(rows')
    <3>1. sync.left \subseteq DOMAIN sync.map
      BY <1>1 DEF ListingSound, CrawlSound
    <3>2. QED
      BY <1>1, <1>3, <3>1, SyncOneDoes, CommitRestDoes
  <2>2. QED
    BY <1>1, <2>1, TakenHasCause DEF Cause
<1>4. CASE DeactivateUnseen
  <2> DEFINE s == rows[i].sub
  <2>1. rows[i].oidc /\ s \notin sync.seen /\ rows'[i].sub = s
    BY <1>1, <1>4, DeactivateDoes
  <2>2. s \in Subs
    <3>1. s # Local
      BY <1>1, <2>1 DEF TableKept, TwoSound, ByHand
    <3>2. QED
      BY <1>1, <3>1 DEF Rows
  <2>3. sync.at = "missing"
    BY <1>4 DEF DeactivateUnseen
  <2>4. "groups" \notin errors /\ sync.left = {} /\ DOMAIN sync.map \subseteq sync.left \cup sync.seen
    BY <1>1, <2>3 DEF ListingSound, CrawlSound, Crawling
  <2>5. s \notin DOMAIN sync.map
    BY <2>1, <2>4
  <2>6. s \in touched \/ pool[s] = NoAccount \/ "users" \in errors
    BY <1>1, <2>2, <2>3, <2>4, <2>5 DEF ListingSound, Heard, Known
  <2>7. QED
    BY <2>1, <2>2, <2>6 DEF Cause
<1>5. CASE CommitMoves
  <2>1. rows' = [j \in Ids |-> IF j \in sync.moved THEN [rows[j] EXCEPT !.team = DefaultTeam] ELSE rows[j]]
    BY <1>5 DEF CommitMoves
  <2>2. rows'[i].active = rows[i].active
    BY <1>1, <2>1 DEF Rows
  <2>3. QED
    BY <2>2
<1>6. CASE StoreSingle
  <2>1. SingleDone
    BY <1>1, <1>6, StoreSingleDoes
  <2>2. CASE rows'[i].sub \in DOMAIN single.map /\ rows'[i].active = single.map[rows'[i].sub].enabled
    <3> DEFINE s == rows'[i].sub
    <3>1. s \in Subs
      BY <1>1, <2>2 DEF SingleTyped, Listed
    <3>2. s \notin touched => single.map[s].enabled = pool[s].enabled
      BY <1>1, <2>2, <3>1 DEF ListingSound, Heard
    <3>3. s \in touched \/ ~pool[s].enabled
      BY <2>2, <3>2
    <3>4. QED
      BY <3>1, <3>3 DEF Cause
  <2>3. CASE single.op = "user" /\ DOMAIN single.map = {} /\ rows[i].email = single.of /\ rows[i].oidc
    <3>1. single # NoSingle
      BY <1>6 DEF StoreSingle
    <3>2. \A u \in Subs : Known(u) /\ pool[u].email = single.of => single.of \in touched
      BY <1>1, <2>3 DEF ListingSound, Heard
    <3>3. CASE single.of \in touched
      BY <2>3, <3>3 DEF Cause
    <3>4. CASE single.of \notin touched
      BY <2>3, <3>1, <3>2, <3>4 DEF Cause, Known
    <3>5. QED
      BY <3>3, <3>4
  <2>4. QED
    BY <1>1, <2>1, <2>2, <2>3 DEF SingleDone
<1>7. CASE \E s \in Subs : \E e \in Emails \cup {Unknown(s)} : Login(s, e)
  <2>1. LoginDone
    BY <1>1, <1>7, LoginDoes
  <2>2. QED
    BY <1>1, <2>1 DEF LoginDone
<1>8. CASE \/ StartSync \/ ListAllUsers \/ Prefetch \/ ReadStaleTeams \/ SyncAborts
           \/ \E g \in Groups : FetchGroup(g) \/ FetchMembers(g)
           \/ \E e \in Emails : FetchUser(e)
           \/ \E s \in Subs : PoolChanges(s)
  BY <1>2, <1>8 DEF StartSync, ListAllUsers, Prefetch, ReadStaleTeams, SyncAborts, FetchGroup, FetchMembers,
                    FetchUser, PoolChanges, Change
<1>9. QED
  BY <1>3, <1>4, <1>5, <1>6, <1>7, <1>8 DEF SyncNext, SyncAll

\* Nobody is deactivated without a cause in the pool, a failed listing, or a
\* change beside the sync (sync_all, _deactivate_missing_user).
THEOREM DeactivationsHaveCause == SyncSpec => DeactivatedHasCause
<1>1. SyncSound /\ [SyncNext]_syncVars =>
        [\A i \in Used(rows) : (rows[i].active /\ ~rows'[i].active) =>
           LET s == rows'[i].sub IN
           \/ {s, rows[i].sub, rows[i].email} \cap touched # {}
           \/ s \in Subs /\ pool[s] = NoAccount
           \/ s \in Subs /\ ~pool[s].enabled
           \/ "users" \in errors /\ rows[i].oidc
           \/ /\ single # NoSingle /\ single.of = rows[i].email /\ rows[i].oidc
              /\ \A u \in Subs : pool[u] # NoAccount => pool[u].email # single.of]_syncVars
  BY SyncAssumption, SoundIs, StepHasCause DEF Cause
<1>2. QED
  BY <1>1, SyncTypesHold, PTL DEF SyncSpec, DeactivatedHasCause
=============================================================================
