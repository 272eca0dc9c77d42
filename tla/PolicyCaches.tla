---------------------------- MODULE PolicyCaches ----------------------------
(* How an administrator's change of a policy reaches the gateway: the model
   catalogue, the per-model global limits, a team's downgrade rules and a
   client's routing profile.  The gateway caches what it reads for TTL ticks;
   the admin API deletes keys before its transaction commits.
   A policy's value is the number of the edit that set it; 0 is no limit, or a
   model that is inactive. *)
EXTENDS Naturals, Sequences, SequencesExt, FiniteSets

CONSTANTS
  Models, ProviderIds,   \* aliases, and the provider's model ids
  IdOf,                  \* the id each alias stands for
  Teams, Clients,        \* with their downgrade rules; their routing profile
  Limited,               \* models with a global limit to begin with
  Loads,                 \* the gateway's requests in flight
  TTL,
  MaxChanges, MaxCacheFaults   \* bounds

ASSUME PolicyAssumption ==
  /\ IdOf \in [Models -> ProviderIds] /\ Models \cap ProviderIds = {}
  /\ Limited \subseteq Models
  /\ TTL \in Nat \ {0} /\ MaxChanges \in Nat \ {0} /\ MaxCacheFaults \in Nat

Policies == ({"model", "limit"} \X Models) \cup ({"rules"} \X Teams) \cup ({"profile"} \X Clients)
Keys == Policies \cup ({"model"} \X ProviderIds)
Numbers == 0..MaxChanges

VARIABLES
  committed,  \* per policy, the committed value
  write,      \* the admin's transaction: [policy, value, left, failed], or NoWrite
  failures,   \* keys whose deletion is on record as failed
  cache,      \* per key: [policy, value, age, blind, raced], or NoEntry
  load,       \* per request: [at, policy, value, left, blind, raced, aged]
  changes, cacheFaults,
  since,      \* history: per policy and value, ticks since it was replaced
  undeleted,  \* history: keys a deletion of which has failed
  overwritten \* history: limits replaced by another model's

policyVars == <<committed, write, failures, cache, load, changes, cacheFaults,
                since, undeleted, overwritten>>

NoWrite == [at |-> "none"]
NoEntry == [at |-> "none"]
NoLoad == [at |-> "idle"]
FirstValue(p) == IF p[1] = "limit" /\ p[2] \notin Limited THEN 0 ELSE 1

PolicyInit ==
  /\ committed = [p \in Policies |-> FirstValue(p)]
  /\ write = NoWrite /\ failures = {}
  /\ cache = [k \in Keys |-> NoEntry]
  /\ load = [r \in Loads |-> NoLoad]
  /\ changes = 1 /\ cacheFaults = 0
  /\ since = [p \in Policies |-> [n \in Numbers |-> IF n = FirstValue(p) THEN 0 ELSE TTL + 1]]
  /\ undeleted = {} /\ overwritten = {}

CacheFault == cacheFaults < MaxCacheFaults /\ cacheFaults' = cacheFaults + 1

----------------------------------------------------------------------------
(* Admin: the row is changed, its keys are deleted, the request commits.  A
   model is invalidated under its alias only, whatever else it is cached as. *)
OnlyTheList(p) == IF p[1] = "model" THEN <<>> ELSE <<p>>
KeysToDelete(p) == <<p>>

Begin(p, value) ==
  /\ write = NoWrite /\ changes < MaxChanges
  /\ changes' = changes + 1
  /\ write' = [policy |-> p, value |-> value, left |-> KeysToDelete(p), failed |-> {}]
  /\ UNCHANGED <<committed, failures, cache, load, cacheFaults, since, undeleted, overwritten>>

SetModel(m) == committed[<<"model", m>>] # 0 /\ Begin(<<"model", m>>, changes + 1)
PatchStatus(m) ==
  Begin(<<"model", m>>, IF committed[<<"model", m>>] = 0 THEN changes + 1 ELSE 0)
SetLimit(m) == Begin(<<"limit", m>>, changes + 1)
SetRules(t) == Begin(<<"rules", t>>, changes + 1)
SetProfile(c) == Begin(<<"profile", c>>, changes + 1)

(* A load that is under way when its key goes will put back what it has read. *)
Overtaken(p) ==
  [r \in Loads |-> IF load[r].at = "save" /\ load[r].policy = p
                   THEN [load[r] EXCEPT !.raced = TRUE] ELSE load[r]]

DeleteKey ==
  /\ write # NoWrite /\ write.left # <<>>
  /\ LET key == Head(write.left)
     IN \/ /\ cache' = [cache EXCEPT ![key] = NoEntry]
           /\ undeleted' = undeleted \ {key}
           /\ write' = [write EXCEPT !.left = Tail(@)]
           /\ UNCHANGED cacheFaults
        \/ /\ CacheFault
           /\ write' = [write EXCEPT !.left = Tail(@), !.failed = @ \cup {key}]
           /\ UNCHANGED <<cache, undeleted>>
  /\ load' = Overtaken(write.policy)
  /\ UNCHANGED <<committed, failures, changes, since, overwritten>>

(* The update of a global limit has no condition on the model: it ends the
   limits of all of them. *)
Replaced(p) == IF p[1] = "limit" THEN {"limit"} \X Models ELSE {p}

(* The note of a failed deletion is a row of the same transaction. *)
CommitWrite ==
  /\ write # NoWrite /\ write.left = <<>>
  /\ LET p == write.policy
         gone == {q \in Replaced(p) \ {p} : committed[q] # 0}
     IN /\ committed' = [q \in Policies |-> IF q = p THEN write.value
                                         ELSE IF q \in gone THEN 0 ELSE committed[q]]
        /\ overwritten' = (overwritten \ {p}) \cup gone
        /\ since' = [q \in Policies |-> IF q \in gone \cup {p}
                       THEN [since[q] EXCEPT ![committed'[q]] = 0] ELSE since[q]]
        /\ load' = Overtaken(p)
  /\ failures' = failures \cup write.failed
  /\ undeleted' = undeleted \cup write.failed
  /\ write' = NoWrite
  /\ UNCHANGED <<cache, changes, cacheFaults>>

(* Anything else in the request fails: rolled back. *)
AbortWrite ==
  /\ write # NoWrite /\ CacheFault
  /\ write' = NoWrite
  /\ UNCHANGED <<committed, failures, cache, load, changes, since, undeleted, overwritten>>

RetryDeletion(k) ==
  /\ k \in failures
  /\ failures' = failures \ {k}
  /\ cache' = [cache EXCEPT ![k] = NoEntry]
  /\ undeleted' = undeleted \ {k}
  /\ UNCHANGED <<committed, write, load, changes, cacheFaults, since, overwritten>>

----------------------------------------------------------------------------
(* Gateway: a hit is used as it is.  A miss reads the database; an id may stand
   for several aliases, of which it gets one. *)
Meant(k) == IF k[2] \in ProviderIds
            THEN {<<"model", m>> : m \in {n \in Models : IdOf[n] = k[2]}} ELSE {k}

(* A model is cached under its alias and under its id. *)
Places(p) == IF p[1] = "model" THEN <<p, <<"model", IdOf[p[2]]>>>> ELSE <<p>>

Fetch(r, k, p, value, blind) ==
  /\ load[r].at = "idle" /\ cache[k] = NoEntry
  /\ load' = [load EXCEPT ![r] =
       [at |-> "save", policy |-> p, value |-> value, left |-> Places(p), blind |-> blind,
        raced |-> write # NoWrite /\ write.policy = p /\ write.left = <<>>, aged |-> FALSE]]
  /\ UNCHANGED <<committed, write, failures, cache, changes, since, undeleted, overwritten>>

(* An inactive model is refused and not cached. *)
ResolveModel(r, k) ==
  /\ k[1] = "model"
  /\ \E p \in Meant(k) : committed[p] # 0 /\ Fetch(r, k, p, committed[p], FALSE)
  /\ UNCHANGED cacheFaults

(* A query for limits that fails is an answer: none. *)
LoadLimits(r, m) ==
  LET k == <<"limit", m>>
  IN \/ Fetch(r, k, k, committed[k], FALSE) /\ UNCHANGED cacheFaults
     \/ CacheFault /\ Fetch(r, k, k, 0, TRUE)

LoadRules(r, t) ==
  Fetch(r, <<"rules", t>>, <<"rules", t>>, committed[<<"rules", t>>], FALSE) /\ UNCHANGED cacheFaults
LoadProfile(r, c) ==
  Fetch(r, <<"profile", c>>, <<"profile", c>>, committed[<<"profile", c>>], FALSE)
    /\ UNCHANGED cacheFaults

(* SETEX under one key after the other; a Redis failure ends it. *)
Entry(r) == [policy |-> load[r].policy, value |-> load[r].value, age |-> 0,
             blind |-> load[r].blind, raced |-> load[r].raced]

Save(r) ==
  /\ load[r].at = "save"
  /\ \/ /\ cache' = [cache EXCEPT ![Head(load[r].left)] = Entry(r)]
        /\ load' = [load EXCEPT ![r] = IF Len(load[r].left) = 1 THEN NoLoad
                                       ELSE [load[r] EXCEPT !.left = Tail(@)]]
        /\ undeleted' = undeleted \ {Head(load[r].left)}
        /\ UNCHANGED cacheFaults
     \/ CacheFault /\ load' = [load EXCEPT ![r] = NoLoad] /\ UNCHANGED <<cache, undeleted>>
  /\ UNCHANGED <<committed, write, failures, changes, since, overwritten>>

(* Time: a request is through within one tick. *)
Sliding(e) == e
Aged(e) == IF e = NoEntry \/ e.age + 1 = TTL THEN NoEntry ELSE [e EXCEPT !.age = @ + 1]

PolicyTick ==
  /\ \A r \in Loads : load[r].at = "save" => ~load[r].aged
  /\ load' = [r \in Loads |-> IF load[r].at = "save" THEN [load[r] EXCEPT !.aged = TRUE]
                              ELSE load[r]]
  /\ cache' = [k \in Keys |-> Aged(cache[k])]
  /\ since' = [p \in Policies |-> [n \in Numbers |->
                 IF n = committed[p] \/ since[p][n] > TTL THEN since[p][n] ELSE since[p][n] + 1]]
  /\ UNCHANGED <<committed, write, failures, changes, cacheFaults, undeleted, overwritten>>

PolicyNext ==
  \/ \E m \in Models : SetModel(m) \/ PatchStatus(m) \/ SetLimit(m)
  \/ \E t \in Teams : SetRules(t)
  \/ \E c \in Clients : SetProfile(c)
  \/ DeleteKey \/ CommitWrite \/ AbortWrite \/ PolicyTick
  \/ \E k \in Keys : RetryDeletion(k)
  \/ \E r \in Loads :
       \/ \E k \in Keys : ResolveModel(r, k)
       \/ \E m \in Models : LoadLimits(r, m)
       \/ \E t \in Teams : LoadRules(r, t)
       \/ \E c \in Clients : LoadProfile(r, c)
       \/ Save(r)

PolicySpec == PolicyInit /\ [][PolicyNext]_policyVars

----------------------------------------------------------------------------
PolicyTypeOK ==
  /\ committed \in [Policies -> Numbers] /\ changes \in Numbers
  /\ \A k \in Keys : cache[k] # NoEntry =>
       /\ cache[k].policy \in Policies /\ cache[k].value \in Numbers
       /\ cache[k].age \in 0..(TTL - 1)
  /\ failures \subseteq Keys /\ undeleted \subseteq Keys
  /\ cacheFaults \in 0..MaxCacheFaults

(* Whatever deletion fails, is forgotten or comes at the wrong moment, and under
   whatever key a policy is cached: the gateway acts on a value that was the
   committed one within the last TTL (and a request), or on the limit it takes
   a failed query for, which it forgets as soon. *)
BoundedStaleness ==
  \A k \in Keys : cache[k] # NoEntry /\ ~cache[k].blind =>
    since[cache[k].policy][cache[k].value] <= cache[k].age + 1

(* Under its own key a policy is what the admin set last, unless a load raced
   the transaction, its deletion failed, a query for it failed, or another
   model's limit has replaced it. *)
StalePolicyHasCause ==
  \A p \in Policies :
    (/\ cache[p] # NoEntry /\ ~cache[p].blind /\ ~cache[p].raced
     /\ p \notin undeleted \cup overwritten)
      => cache[p].value = committed[p]
=============================================================================
