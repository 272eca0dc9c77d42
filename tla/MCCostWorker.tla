--------------------------- MODULE MCCostWorker ---------------------------
(***************************************************************************)
(* Instances for TLC of workers and caches that share no state, of which a *)
(* behaviour moves one: the cost recorder worker (two replicas, one        *)
(* stream); the notification worker (three events, one of them malformed,  *)
(* for two people, one of whom has both roles); and the cached policies of *)
(* one kind, since policies of different kinds share no key (two loads;    *)
(* two aliases of one provider model, the first of which has a limit).     *)
(***************************************************************************)
EXTENDS CostWorker, Notification, PolicyCaches, TLC

CONSTANTS w1, w2, n1, n2, n3, e1, e2, e3, p1, p2, m1, m2, i1

OneModel == m1 :> i1 @@ m2 :> i1
OwnNames == (w1 :> n1) @@ (w2 :> n2)

MCHolders ==
  e1 :> ("affected" :> {p1} @@ "admin" :> {p1, p2})
    @@ e2 :> ("affected" :> {} @@ "admin" :> {p2})
    @@ e3 :> ("affected" :> {} @@ "admin" :> {})
BothRoles == [enabled |-> TRUE, roles |-> <<"affected", "admin">>]
MCConfigs == {BothRoles, [enabled |-> FALSE, roles |-> <<"affected">>]}

Kinds == {"model", "limit", "rules", "profile"}

VARIABLE part
mcVars == <<wvars, notifyVars, policyVars, part>>

MCInit ==
  /\ StreamInit /\ WorkerInit /\ NotifyInit /\ PolicyInit
  /\ part \in {"worker", "notify"} \cup Kinds

WorkerOrPublish == WorkerNext \/ \E r \in Requests : Publish(r)

MCNext ==
  /\ UNCHANGED part
  /\ \/ part = "worker" /\ WorkerOrPublish /\ UNCHANGED <<notifyVars, policyVars>>
     \/ part = "notify" /\ NotifyNext /\ UNCHANGED <<wvars, policyVars>>
     \/ part \in Kinds /\ PolicyNext /\ UNCHANGED <<wvars, notifyVars>>
        /\ \A some \in {write'} \cup {load'[r] : r \in Loads} :
             some \in {NoWrite, NoLoad} \/ some.policy[1] = part

MCSpec == MCInit /\ [][MCNext]_mcVars
===========================================================================
