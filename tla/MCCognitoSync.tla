---------------------------- MODULE MCCognitoSync ----------------------------
(* The instance of CognitoSync that TLC explores: a group with a team, one    *)
(* whose department cannot be placed, and an administrators' group.  The      *)
(* emails are interchangeable, so that one way to give them out is enough.    *)
EXTENDS CognitoSync

CONSTANTS g1, g2, ga, s1, e1

MCGroupOrder  == <<g2, g1, ga>>
MCMemberships == {{g1}, {g2, ga}}

MCInit ==
  /\ SyncInit
  /\ \A s \in Subs : pool[s] # NoAccount => (pool[s].email = e1) = (s = s1)

MCSpec == MCInit /\ [][SyncNext]_syncVars
=============================================================================
