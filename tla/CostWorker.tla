---------------------------- MODULE CostWorker ----------------------------
(***************************************************************************)
(* The cost recorder worker: StreamConsumer reads cost:stream through the  *)
(* consumer group, BatchFlusher writes each batch to the database and to   *)
(* the daily counters, and the batch is acknowledged last. TaskSupervisor  *)
(* restarts the consumer after an exception; the orchestrator restarts or  *)
(* replaces the process.                                                   *)
(*                                                                         *)
(* Several workers share the group. A worker reads under a consumer name:  *)
(* "worker-1" for all of them by default, the pod's name in the chart.     *)
(***************************************************************************)
EXTENDS CostStream

CONSTANTS
  Workers,
  NameOf,      \* the consumer name each worker starts with
  SpareNames,  \* the names pods that replace a worker may get
  Rejected,    \* requests whose payload the worker's schema rejects
  Orphans,     \* requests whose user or team is deleted before any flush
  BatchMax,    \* batch_max_size
  MaxStops,    \* bound: times a worker process ends
  MaxCopies,   \* bound: entries per request, when the producers are free
  MaxDbFaults  \* bound: statements and commits that fail, Redis calls too

ASSUME WorkerAssumption ==
  /\ NameOf \in [Workers -> Names]
  /\ SpareNames \subseteq Names
  /\ BatchMax \in Nat \ {0}
  /\ MaxStops \in Nat
  /\ MaxCopies \in Nat
  /\ MaxDbFaults \in Nat

VARIABLES
  wpc,         \* per worker: where run() is
  name,        \* the consumer name of each worker
  spare,       \* names no pod has had yet
  ids,         \* the ids of the batch in hand
  entries,     \* those whose payload was decoded
  rows,        \* entries the per-row fallback has still to write
  usageLogs,   \* requests with a row in usage.usage_logs
  charged,     \* how often each request's cost is in budget.budget_usages
  counted,     \* how often it is in the usage:daily:* counters
  skipped,     \* history: ids the per-row fallback gave up
  stops,
  dbFaults

batchVars == <<ids, entries, rows>>
dbVars == <<usageLogs, charged, skipped>>
workerVars == <<wpc, name, spare, batchVars, dbVars, counted, stops, dbFaults>>

\* "backlog" and "live" read; "commit" to "counters" are one flush(); "ack"
\* is the XACK after it. The phase a flush came from tells where run() goes on.
Phases == {"backlog", "live"}
Stages == {"commit", "perrow", "counters", "ack"}
At(stage, phase) == <<stage, phase>>
Reading(phase) == <<"read", phase>>
Off == <<"off", "backlog">>

WorkerTypeOK ==
  /\ StreamTypeOK
  /\ wpc \in [Workers -> (Stages \cup {"read", "off"}) \X Phases]
  /\ name \in [Workers -> Names]
  /\ spare \subseteq SpareNames
  /\ ids \in [Workers -> SUBSET Ids]
  /\ entries \in [Workers -> SUBSET Ids]
  /\ rows \in [Workers -> SUBSET Ids]
  /\ usageLogs \subseteq Requests
  /\ charged \in [Requests -> Nat]
  /\ counted \in [Requests -> Nat]
  /\ skipped \subseteq Ids
  /\ stops \in 0..MaxStops
  /\ dbFaults \in 0..MaxDbFaults

WorkerInit ==
  /\ StreamInit
  /\ wpc = [w \in Workers |-> Off]
  /\ name = NameOf
  /\ spare = SpareNames
  /\ ids = [w \in Workers |-> {}]
  /\ entries = [w \in Workers |-> {}]
  /\ rows = [w \in Workers |-> {}]
  /\ usageLogs = {}
  /\ charged = [r \in Requests |-> 0]
  /\ counted = [r \in Requests |-> 0]
  /\ skipped = {}
  /\ stops = 0
  /\ dbFaults = 0
---------------------------------------------------------------------------
Goto(w, p) == wpc' = [wpc EXCEPT ![w] = p]
SetBatch(w, I, E) ==
  /\ ids' = [ids EXCEPT ![w] = I]
  /\ entries' = [entries EXCEPT ![w] = E]

\* _decode: the payload is there and the schema accepts it.
Decodable(i) == i > trimmed /\ stream[i] \notin Rejected

\* How many of the entries in S belong to request r.
Times(S, r) == Cardinality({i \in S : stream[i] = r})
Add(counter, S) == [r \in Requests |-> counter[r] + Times(S, r)]

StartLive(w) ==  \* mutant: run() without _drain_backlog
  /\ wpc[w] = Off
  /\ Goto(w, Reading("live"))
  /\ UNCHANGED <<streamVars, name, spare, batchVars, dbVars, counted, stops,
                 dbFaults>>

\* run(): ensure_group, then the backlog.
Start(w) ==
  /\ wpc[w] = Off
  /\ Goto(w, Reading("backlog"))
  /\ UNCHANGED <<streamVars, name, spare, batchVars, dbVars, counted, stops,
                 dbFaults>>

ReadBacklogOfGroup(w) ==  \* mutant: takes over what is pending under any name
  LET I == UNION {PendingIds(n, BatchMax) : n \in Names}
      E == {i \in I : Decodable(i)}
  IN /\ wpc[w] = Reading("backlog")
     /\ E # {}
     /\ SetBatch(w, I, E)
     /\ Goto(w, At("commit", "backlog"))
     /\ UNCHANGED <<streamVars, name, spare, rows, dbVars, counted, stops,
                    dbFaults>>

\* _drain_backlog: the oldest pending entries of this name, decoded.
ReadBacklog(w) ==
  LET I == PendingIds(name[w], BatchMax)
      E == {i \in I : Decodable(i)}
  IN /\ wpc[w] = Reading("backlog")
     /\ E # {}
     /\ SetBatch(w, I, E)
     /\ Goto(w, At("commit", "backlog"))
     /\ UNCHANGED <<streamVars, name, spare, rows, dbVars, counted, stops,
                    dbFaults>>

\* None pending, or a whole batch that does not decode: it is acknowledged and
\* the drain ends, whatever is pending behind it.
EndBacklog(w) ==
  LET I == PendingIds(name[w], BatchMax)
  IN /\ wpc[w] = Reading("backlog")
     /\ \A i \in I : ~Decodable(i)
     /\ XAck(I)
     /\ Goto(w, Reading("live"))
     /\ UNCHANGED <<name, spare, batchVars, dbVars, counted, stops, dbFaults>>

\* _consume_live: one XREADGROUP ">" adds to the batch in hand.
ReadLive(w) ==
  LET room == BatchMax - Cardinality(entries[w])
  IN /\ wpc[w] = Reading("live")
     /\ Cardinality(entries[w]) < BatchMax
     /\ XReadNew(name[w], room)
     /\ SetBatch(w, ids[w] \cup NewIds(room),
                 entries[w] \cup {i \in NewIds(room) : Decodable(i)})
     /\ UNCHANGED <<wpc, name, spare, rows, dbVars, counted, stops, dbFaults>>

\* The batch is full, or the read times out with something decoded.
FlushLive(w) ==
  /\ wpc[w] = Reading("live")
  /\ entries[w] # {}
  /\ Cardinality(entries[w]) >= BatchMax \/ NewIds(BatchMax) = {}
  /\ Goto(w, At("commit", "live"))
  /\ UNCHANGED <<streamVars, name, spare, batchVars, dbVars, counted, stops,
                 dbFaults>>

\* The read times out with nothing decoded: the batch starts afresh, and the
\* ids that did not decode are forgotten, neither flushed nor acknowledged.
ForgetLive(w) ==
  /\ wpc[w] = Reading("live")
  /\ entries[w] = {} /\ ids[w] # {}
  /\ NewIds(BatchMax) = {}
  /\ SetBatch(w, {}, {})
  /\ UNCHANGED <<streamVars, wpc, name, spare, rows, dbVars, counted, stops,
                 dbFaults>>
---------------------------------------------------------------------------
TransactionInTwo(S) ==  \* mutant: a commit between the two statements
  /\ usageLogs' = usageLogs \cup {stream[i] : i \in S}
  /\ charged' \in {charged, Add(charged, S)}

\* One transaction: INSERT ... ON CONFLICT (request_id) DO NOTHING into
\* usage_logs, and the costs of all the entries added to budget_usages.
Transaction(S) ==
  /\ usageLogs' = usageLogs \cup {stream[i] : i \in S}
  /\ charged' = Add(charged, S)

Violates(S) == \E i \in S : stream[i] \in Orphans

Commit(w) ==
  /\ wpc[w][1] = "commit"
  /\ ~Violates(entries[w])
  /\ Transaction(entries[w])
  /\ Goto(w, At("counters", wpc[w][2]))
  /\ UNCHANGED <<streamVars, name, spare, batchVars, skipped, counted, stops,
                 dbFaults>>

DropOnViolation(w) ==  \* mutant: logs the integrity error and carries on
  /\ wpc[w][1] = "commit"
  /\ Violates(entries[w])
  /\ Goto(w, At("counters", wpc[w][2]))
  /\ UNCHANGED <<streamVars, name, spare, batchVars, dbVars, counted, stops,
                 dbFaults>>

\* IntegrityError: the transaction is rolled back and every entry gets one of
\* its own.
FallBackPerRow(w) ==
  /\ wpc[w][1] = "commit"
  /\ Violates(entries[w])
  /\ rows' = [rows EXCEPT ![w] = entries[w]]
  /\ Goto(w, At("perrow", wpc[w][2]))
  /\ UNCHANGED <<streamVars, name, spare, ids, entries, dbVars, counted, stops,
                 dbFaults>>

NextRow(w, i) ==
  /\ wpc[w][1] = "perrow"
  /\ i \in rows[w]
  /\ \A j \in rows[w] : i <= j
  /\ rows' = [rows EXCEPT ![w] = @ \ {i}]
  /\ UNCHANGED <<streamVars, wpc, name, spare, ids, entries, counted, stops>>

WriteRow(w, i) ==
  /\ NextRow(w, i)
  /\ ~Violates({i})
  /\ Transaction({i})
  /\ UNCHANGED <<skipped, dbFaults>>

SkipRowRollback(w, i) ==  \* mutant: the rows share one transaction
  /\ NextRow(w, i)
  /\ Violates({i})
  /\ skipped' = skipped \cup {i}
  /\ usageLogs' = usageLogs \ {stream[j] : j \in entries[w]}
  /\ UNCHANGED <<charged, dbFaults>>

SkipRow(w, i) ==
  /\ NextRow(w, i)
  /\ Violates({i})
  /\ skipped' = skipped \cup {i}
  /\ UNCHANGED <<usageLogs, charged, dbFaults>>

\* Any other exception skips the row too; its commit may have been applied.
FailRow(w, i) ==
  /\ NextRow(w, i)
  /\ dbFaults < MaxDbFaults
  /\ dbFaults' = dbFaults + 1
  /\ skipped' = skipped \cup {i}
  /\ \/ UNCHANGED <<usageLogs, charged>>
     \/ ~Violates({i}) /\ Transaction({i})

EndRows(w) ==
  /\ wpc[w][1] = "perrow"
  /\ rows[w] = {}
  /\ Goto(w, At("counters", wpc[w][2]))
  /\ UNCHANGED <<streamVars, name, spare, batchVars, dbVars, counted, stops,
                 dbFaults>>

\* _bump_daily_counters, a MULTI/EXEC whose failure is logged and ignored.
BumpCounters(w) ==
  /\ wpc[w][1] = "counters"
  /\ \/ /\ counted' = Add(counted, entries[w])
        /\ UNCHANGED dbFaults
     \/ /\ dbFaults < MaxDbFaults
        /\ dbFaults' = dbFaults + 1
        /\ counted' \in {counted, Add(counted, entries[w])}
  /\ Goto(w, At("ack", wpc[w][2]))
  /\ UNCHANGED <<streamVars, name, spare, batchVars, dbVars, stops>>

\* XACK of the whole batch, undecodable and skipped entries included.
Ack(w) ==
  /\ wpc[w][1] = "ack"
  /\ XAck(ids[w])
  /\ SetBatch(w, {}, {})
  /\ Goto(w, Reading(wpc[w][2]))
  /\ UNCHANGED <<name, spare, rows, dbVars, counted, stops, dbFaults>>
---------------------------------------------------------------------------
\* The batch in hand is only in memory.
DropBatch(w) ==
  /\ SetBatch(w, {}, {})
  /\ rows' = [rows EXCEPT ![w] = {}]
  /\ Goto(w, Off)

\* An exception leaves run(): the database or Redis failed. The transaction,
\* XREADGROUP or XACK that was being awaited may have been applied.
Fail(w) ==
  /\ wpc[w][1] \notin {"off", "perrow", "counters"}
  /\ dbFaults < MaxDbFaults
  /\ dbFaults' = dbFaults + 1
  /\ DropBatch(w)
  /\ \/ UNCHANGED <<streamVars, dbVars>>
     \/ /\ wpc[w][1] = "commit" /\ ~Violates(entries[w])
        /\ Transaction(entries[w])
        /\ UNCHANGED <<streamVars, skipped>>
     \/ /\ wpc[w] = Reading("live")
        /\ Cardinality(entries[w]) < BatchMax
        /\ XReadNew(name[w], BatchMax - Cardinality(entries[w]))
        /\ UNCHANGED dbVars
     \/ /\ wpc[w][1] = "ack"
        /\ XAck(ids[w])
        /\ UNCHANGED dbVars
  /\ UNCHANGED <<name, spare, counted, stops>>

\* The process ends, and what takes over has the same name (a container
\* restarted in its pod) or a new one (a pod replaced by its Deployment).
Stop(w) ==
  /\ wpc[w] # Off
  /\ stops < MaxStops
  /\ stops' = stops + 1
  /\ DropBatch(w)
  /\ \/ UNCHANGED <<name, spare>>
     \/ \E n \in spare : /\ name' = [name EXCEPT ![w] = n]
                         /\ spare' = spare \ {n}
  /\ UNCHANGED <<streamVars, dbVars, counted, dbFaults>>
---------------------------------------------------------------------------
Read(w) == ReadBacklog(w) \/ EndBacklog(w) \/ ReadLive(w)
Flush(w) ==
  \/ Commit(w) \/ FallBackPerRow(w)
  \/ (\E i \in Ids : WriteRow(w, i) \/ SkipRow(w, i))
  \/ EndRows(w) \/ BumpCounters(w)

Step(w) == Start(w) \/ Read(w) \/ FlushLive(w) \/ ForgetLive(w) \/ Flush(w) \/ Ack(w)
Mishap(w) == Fail(w) \/ Stop(w) \/ (\E i \in Ids : FailRow(w, i))

WorkerNext == \E w \in Workers : Step(w) \/ Mishap(w)
\* The gateways, when CostRecorder does not describe them: any request, at
\* most MaxCopies times (CostRecorder shows how a second copy comes about).
Publish(r) ==
  /\ Cardinality(Copies(r)) < MaxCopies
  /\ XAdd(r)
  /\ UNCHANGED workerVars

wvars == <<streamVars, workerVars>>

WorkerSpec ==
  /\ WorkerInit
  /\ [][WorkerNext \/ \E r \in Requests : Publish(r)]_wvars

\* The event loop runs the consumer, TaskSupervisor restarts it after an
\* exception and the orchestrator after an exit; no mishap is fair.
WorkerFairness == \A w \in Workers : WF_wvars(Step(w))

FairWorkerSpec == WorkerSpec /\ WorkerFairness
---------------------------------------------------------------------------
\* Nothing is left to do for an entry: its request is in usage_logs, or its
\* row was given up, its payload does not decode, or it was trimmed.
Settled(i) ==
  \/ stream[i] \in usageLogs \cup Rejected
  \/ i \in skipped
  \/ i <= trimmed

\* At least once: an entry is acknowledged only when it is settled, across
\* crashes, restarts and failed transactions (batch_flusher.py: XACK only
\* after everything committed).
AckedIsSettled == \A i \in acked : Settled(i)

\* The log row and the charge of a request stand or fall together, whatever
\* crashes or rolls back: one is there exactly when the other is.
ChargedIffLogged == \A r \in Requests : r \in usageLogs <=> charged[r] >= 1

\* Redis hands an entry to one worker at a time: no two workers hold the same
\* entry, provided they read under names of their own.
NoOverlap ==
  \A v, w \in Workers : v # w => ids[v] \cap ids[w] = {}

\* Every entry the schema accepts is recorded in the end, given up by the
\* per-row fallback, or trimmed: crashes delay it, they do not lose it.
EventuallyRecorded ==
  \A r \in Requests \ Rejected :
    Copies(r) # {} ~>
      \/ r \in usageLogs
      \/ \E i \in Copies(r) : i \in skipped \/ i <= trimmed
---------------------------------------------------------------------------
\* What makes AckedIsSettled inductive: how far the flush of a batch has got.
BatchOK(w) ==
  /\ entries[w] \subseteq ids[w]
  /\ \A i \in ids[w] \ entries[w] : stream[i] \in Rejected \/ i <= trimmed
  /\ wpc[w][1] = "perrow" =>
       /\ rows[w] \subseteq entries[w]
       /\ \A i \in entries[w] \ rows[w] : Settled(i)
  /\ wpc[w][1] \in {"counters", "ack"} => \A i \in entries[w] : Settled(i)

\* The flush of every batch is on course and the books agree, in every state
\* between the awaits of consumer and flusher.
FlushInv ==
  /\ \A w \in Workers : BatchOK(w)
  /\ AckedIsSettled
  /\ ChargedIffLogged

\* Every worker, and every pod that may replace it, has a name of its own.
DistinctNames ==
  /\ \A v, w \in Workers : NameOf[v] = NameOf[w] => v = w
  /\ \A w \in Workers : NameOf[w] \notin SpareNames

\* What makes NoOverlap inductive: a batch is pending under its worker's name
\* only, nothing is pending that was not delivered, and a worker comes to its
\* backlog with empty hands.
HeldInv ==
  /\ \A w \in Workers : wpc[w] \in {Off, Reading("backlog")} => ids[w] = {}
  /\ \A v, w \in Workers : name[v] = name[w] => v = w
  /\ \A w \in Workers : name[w] \notin spare
  /\ \A m, n \in Names : m # n => pel[m] \cap pel[n] = {}
  /\ \A n \in Names : pel[n] \subseteq 1..delivered
  /\ \A w \in Workers : ids[w] \subseteq pel[name[w]]
===========================================================================
