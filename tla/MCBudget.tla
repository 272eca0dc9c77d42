----------------------------- MODULE MCBudget -----------------------------
(* What one gateway worker decides with its stores: budgets (two users of one
   team, one of whom works through an app), the seeding of a user's spend, the
   degradation level, and the breaker with its stand-in (three requests of two
   users).  They share no state, so a behaviour moves one of the four. *)
EXTENDS Budget, SeedSpent, Degradation, EvalBreaker, TLC

CONSTANTS r1, r2, r3, r4, alice, bob, team, app, c1, c2, c3

MCScopesOf == r1 :> <<alice, team, app>> @@ r2 :> <<alice, team>>
                @@ r3 :> <<bob, team>> @@ r4 :> <<alice, team, app>>
MCLimit == alice :> 2 @@ bob :> 1 @@ team :> 1 @@ app :> 1
MCPolicy == alice :> "soft_warning" @@ bob :> "throttle"
              @@ team :> "hard_block" @@ app :> "hard_block"
MCCost == r1 :> 2 @@ r2 :> 1 @@ r3 :> 1 @@ r4 :> 2

MCCallerOf == c1 :> alice @@ c2 :> alice @@ c3 :> bob
MCWindowLimit == alice :> 1 @@ bob :> 2 @@ "team" :> 2 @@ "global" :> 2

VARIABLE part
mcVars == <<vars, seedVars, levelVars, evalVars, part>>

MCInit ==
  /\ BudgetInit /\ SeedInit /\ LevelInit /\ EvalInit
  /\ part \in {"budget", "seed", "level", "eval"}

MCNext ==
  /\ UNCHANGED part
  /\ \/ part = "budget" /\ BudgetNext /\ UNCHANGED <<seedVars, levelVars, evalVars>>
     \/ part = "seed" /\ SeedNext /\ UNCHANGED <<vars, levelVars, evalVars>>
     \/ part = "level" /\ LevelNext /\ UNCHANGED <<vars, seedVars, evalVars>>
     \/ part = "eval" /\ EvalNext /\ UNCHANGED <<vars, seedVars, levelVars>>

(* LevelFairness and EvalFairness, over the whole state. *)
LevelStep(A) == part = "level" /\ A /\ UNCHANGED <<vars, seedVars, evalVars, part>>
EvalStep(A) == part = "eval" /\ A /\ UNCHANGED <<vars, seedVars, levelVars, part>>

MCFairness ==
  /\ WF_mcVars(LevelStep(BeginRound)) /\ WF_mcVars(LevelStep(EndSpoolDrain))
  /\ \A s \in Sources : WF_mcVars(LevelStep(CheckSource(s)))
  /\ \A c \in Evals : WF_mcVars(EvalStep(GuardEval(c))) /\ WF_mcVars(EvalStep(EvalEnds(c)))
  /\ WF_mcVars(EvalStep(BreakerTick))

MCSpec == MCInit /\ [][MCNext]_mcVars /\ MCFairness
===========================================================================
