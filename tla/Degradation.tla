---------------------------- MODULE Degradation ----------------------------
(* The degradation level of one gateway worker.  The health checker pings the
   database and Redis side by side, round after round, and the manager counts:
   a source degrades after FailThreshold failures, each success taking one
   back, and recovers after SuccessThreshold successes in a row.
   A level is the set of the sources that are degraded. *)
EXTENDS Naturals, FiniteSetsExt

CONSTANTS FailThreshold, SuccessThreshold

ASSUME DegradationAssumption ==
  FailThreshold \in Nat \ {0} /\ SuccessThreshold \in Nat \ {0}

Sources == {"db", "redis"}

VARIABLES
  healthy,    \* per source, whether a check of it succeeds (environment)
  round,      \* what the round under way still has to do
  level,      \* the sources that are degraded
  failCount,  \* per source, up to FailThreshold: beyond it nothing changes
  okCount     \* per source, up to SuccessThreshold

levelVars == <<healthy, round, level, failCount, okCount>>

LevelTypeOK ==
  /\ healthy \in [Sources -> BOOLEAN]
  /\ round \subseteq Sources \cup {"drain"} /\ level \subseteq Sources
  /\ failCount \in [Sources -> 0..FailThreshold]
  /\ okCount \in [Sources -> 0..SuccessThreshold]

LevelInit ==
  /\ healthy = [s \in Sources |-> TRUE]
  /\ round = {} /\ level = {}
  /\ failCount = [s \in Sources |-> 0]
  /\ okCount = [s \in Sources |-> 0]

(* The environment: a source fails or comes back. *)
Flip(s) ==
  /\ healthy' = [healthy EXCEPT ![s] = ~@]
  /\ UNCHANGED <<round, level, failCount, okCount>>

(* gather starts both checks; the next round waits for all of this one. *)
BeginRound ==
  /\ round = {}
  /\ round' = Sources
  /\ UNCHANGED <<healthy, level, failCount, okCount>>

(* From HEALTHY, or from the other source's level to BOTH_DEGRADED. *)
FirstOnly(s) == IF level = {} THEN {s} ELSE level

Degraded(s) == level \cup {s}

Decay(n) == IF n = 0 THEN 0 ELSE n - 1

ReportSuccess(s) ==
  /\ okCount' = [okCount EXCEPT ![s] = Min({@ + 1, SuccessThreshold})]
  /\ failCount' = [failCount EXCEPT ![s] = IF s \in level THEN 0 ELSE Decay(@)]
  /\ level' = IF okCount'[s] = SuccessThreshold THEN level \ {s} ELSE level

ReportFailure(s) ==
  /\ okCount' = [okCount EXCEPT ![s] = 0]
  /\ failCount' = [failCount EXCEPT ![s] = Min({@ + 1, FailThreshold})]
  /\ level' = IF failCount'[s] = FailThreshold THEN Degraded(s) ELSE level

(* A healthy ping of Redis goes on to drain the cost spool (CostRecorder). *)
CheckSource(s) ==
  /\ s \in round
  /\ IF healthy[s] THEN ReportSuccess(s) ELSE ReportFailure(s)
  /\ round' = (round \ {s}) \cup (IF s = "redis" /\ healthy[s] THEN {"drain"} ELSE {})
  /\ UNCHANGED healthy

(* It ends with an empty spool or at its first failed XADD. *)
EndSpoolDrain ==
  /\ "drain" \in round
  /\ round' = round \ {"drain"}
  /\ UNCHANGED <<healthy, level, failCount, okCount>>

LevelNext ==
  \/ \E s \in Sources : Flip(s) \/ CheckSource(s)
  \/ BeginRound \/ EndSpoolDrain

(* The loop never ends, and every ping and XADD has a timeout. *)
LevelFairness ==
  /\ WF_levelVars(BeginRound)
  /\ \A s \in Sources : WF_levelVars(CheckSource(s))
  /\ WF_levelVars(EndSpoolDrain)

LevelSpec == LevelInit /\ [][LevelNext]_levelVars /\ LevelFairness

----------------------------------------------------------------------------
(* What /health answers, and /health/ready while the pool has a free slot. *)
Health == CASE level = Sources -> "unhealthy" [] level = {} -> "healthy"
            [] OTHER -> "degraded"
Ready == Health = "healthy"

(* The level follows the sources: one that stays down is degraded in the end
   and one that stays up is not, whatever the other does and whatever level
   the failure or the recovery finds; with both up the worker gets ready. *)
LevelFollowsHealth ==
  /\ \A s \in Sources : /\ <>[](~healthy[s]) => <>[](s \in level)
                        /\ <>[](healthy[s]) => <>[](s \notin level)
  /\ <>[](\A s \in Sources : healthy[s]) => <>[]Ready
============================================================================
