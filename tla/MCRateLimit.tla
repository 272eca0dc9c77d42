---------------------------- MODULE MCRateLimit ----------------------------
(***************************************************************************)
(* Instances for TLC of two things a request passes on its way to a model, *)
(* which share no state; a behaviour moves one.  The rate limits: two      *)
(* requests of one user and team, r1 falls back to a second model, r2 is   *)
(* throttled.  The credential brokers: three requests, by profiles that    *)
(* share a role and differ in region or in external id; "mantle" and       *)
(* "native" are the two kinds of provider that a behaviour calls.          *)
(***************************************************************************)
EXTENDS RateLimit, AccountCredentials, TLC

CONSTANTS r1, r2, user, team, model1, model2

MCKeys == {<<user, model1>>, <<team, model1>>, <<user, model2>>}
MCUserKeys == {k \in MCKeys : k[1] = user}
MCChain ==
  (r1 :> << << <<user, model1>>, <<team, model1>> >>, << <<user, model2>> >> >>)
  @@ (r2 :> << << <<user, model1>>, <<team, model1>> >> >>)
MCPayers == (r1 :> <<user, team>>) @@ (r2 :> <<user, team>>)
MCRpmLimit == [k \in MCKeys |-> IF k = <<user, model1>> THEN 2 ELSE 0]
MCTpmLimit == [k \in MCKeys |-> IF k = <<user, model1>> THEN 0 ELSE 3]
MCCpmLimit == (user :> 4) @@ (team :> 0)
MCCphLimit == (user :> 0) @@ (team :> 3)
MCUsages == {[tokens |-> 1, cost |-> 1]}

Profile(backend, role, region, ext, model) ==
  [backend |-> backend, role |-> role, region |-> region, ext |-> ext,
   model |-> model]
MCProfiles ==
  {Profile("mantle", "team", "ohio", 1, TRUE),
   Profile("invoke", "team", "tokyo", 1, FALSE),
   Profile("invoke", "team", "tokyo", 2, FALSE),
   Profile("invoke", "own", "tokyo", 1, FALSE)}

VARIABLE part
mcVars == <<vars, credVars, part>>

MCInit == RateInit /\ CredentialsInit /\ part \in {"limits", "mantle", "native"}

MCNext ==
  /\ UNCHANGED part
  /\ \/ part = "limits" /\ RateNext /\ UNCHANGED credVars
     \/ part \in {"mantle", "native"} /\ CredentialsNext
        /\ \A a \in Adapters : use'[a].via \in {"bedrock", part}
        /\ UNCHANGED vars

MCSpec == MCInit /\ [][MCNext]_mcVars
===========================================================================
