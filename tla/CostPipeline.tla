--------------------------- MODULE CostPipeline ---------------------------
(***************************************************************************)
(* The cost pipeline end to end: the gateway of CostRecorder publishes to  *)
(* the stream the workers of CostWorker consume. The only state they share *)
(* is the stream and its consumer group.                                   *)
(***************************************************************************)
EXTENDS CostRecorder, CostWorker

pvars == <<streamVars, recorderVars, workerVars>>

PipelineInit == RecorderInit /\ WorkerInit

PipelineNext ==
  \/ RecorderNext /\ UNCHANGED workerVars
  \/ WorkerNext /\ UNCHANGED recorderVars

PipelineSpec == PipelineInit /\ [][PipelineNext]_pvars

\* The fairness of the two parts, over the whole state.
PipelineFairness ==
  /\ \A r \in Requests : WF_pvars(XAddOk(r) /\ UNCHANGED workerVars)
  /\ WF_pvars(DrainPop /\ UNCHANGED workerVars)
  /\ WF_pvars(DrainOk /\ UNCHANGED workerVars)
  /\ WF_pvars(EndDrain /\ UNCHANGED workerVars)
  /\ WF_pvars(FinishShutdown /\ UNCHANGED workerVars)
  /\ WF_pvars(Restart /\ UNCHANGED workerVars)
  /\ \A w \in Workers : WF_pvars(Step(w) /\ UNCHANGED recorderVars)

FairPipelineSpec == PipelineSpec /\ PipelineFairness
---------------------------------------------------------------------------
\* A copy of the record some part of the pipeline may still turn into a row.
CopyAlive(i) ==
  \/ i > trimmed /\ (i > delivered \/ \E n \in Names : i \in pel[n])
  \/ \E w \in Workers : i \in entries[w]

Alive(r) ==
  \/ pc[r] \in {"serving", "xadd"}
  \/ r \in Range(Waiting)
  \/ \E i \in Copies(r) : CopyAlive(i)

RecordOf(r) ==
  IF r \in usageLogs THEN "recorded" ELSE IF Alive(r) THEN "open" ELSE "lost"

\* The pipeline implements the ledger: a record nothing can revive is never
\* written later, and a row that is written stays (cost_recorder.py,
\* stream_consumer.py and batch_flusher.py together).
Ledger == INSTANCE UsageLedger WITH record <- [r \in Requests |-> RecordOf(r)]
ImplementsLedger == Ledger!Spec

\* A record is lost only for a reason the code names: evicted from the spool,
\* in the memory of a gateway that ended, trimmed from the stream, rejected by
\* the schema, or given up by the per-row fallback.
LossHasCause ==
  \A r \in Requests :
    RecordOf(r) = "lost" =>
      \/ r \in evicted \cup lost \cup Rejected
      \/ \E i \in Copies(r) : i \in skipped \/ i <= trimmed

\* What makes LossHasCause provable: an entry that was handed out is pending
\* under some name until it is acknowledged.
Tracked ==
  \A i \in 1..delivered :
    i <= trimmed \/ i \in acked \/ \E n \in Names : i \in pel[n]

\* Whatever fails, a record does not stay where nobody takes it up: a spooled
\* one is published, dropped or lost with its process, a published one is
\* recorded, given up or trimmed (health_checker.py drains on a healthy ping,
\* stream_consumer.py reads its backlog first).
NothingWaitsForever == EventuallySettled /\ EventuallyRecorded
===========================================================================
