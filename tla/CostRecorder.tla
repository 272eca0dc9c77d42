--------------------------- MODULE CostRecorder ---------------------------
(***************************************************************************)
(* The gateway's side of the cost pipeline: the XADD that ends             *)
(* CostRecorder.finalize, with the Redis client's own retry, the           *)
(* dead-letter spool that takes the payload when that XADD fails, and the  *)
(* drain of the spool by the health checker and at shutdown.               *)
(*                                                                         *)
(* One gateway process: asyncio runs one coroutine between two awaits, so  *)
(* every step below is one such run. An XADD that fails at the client may  *)
(* have been applied by the server: the reply was lost.                    *)
(***************************************************************************)
EXTENDS CostStream, Functions

CONSTANTS
  SpoolMax,    \* usage_buffer_max
  Retries,     \* redis_retries: attempts the client adds to one XADD
  MaxFaults,   \* bound: failed XADD attempts in a behaviour
  MaxExits     \* bound: times the gateway process ends

ASSUME RecorderAssumption ==
  /\ SpoolMax \in Nat \ {0}
  /\ Retries \in Nat
  /\ MaxFaults \in Nat
  /\ MaxExits \in Nat

VARIABLES
  gateway,     \* "up", "draining" (shutdown drain), "closing", "down"
  pc,          \* per request: "serving", "xadd" (in finalize), "done"
  tries,       \* attempts that failed in the XADD of a request
  spool,       \* CostStreamSpool._buf
  held,        \* the payload drain() holds while it awaits XADD: <<>> or <<r>>
  heldTries,   \* attempts that failed in that XADD
  evicted,     \* history: dropped as oldest, and counted (_dropped)
  lost,        \* history: in memory when the process ended
  faults,
  exits

recorderVars ==
  <<gateway, pc, tries, spool, held, heldTries, evicted, lost, faults, exits>>

\* All that waits to be published again, oldest first.
Waiting == held \o spool

RecorderTypeOK ==
  /\ gateway \in {"up", "draining", "closing", "down"}
  /\ pc \in [Requests -> {"serving", "xadd", "done"}]
  /\ tries \in [Requests -> 0..Retries]
  /\ spool \in Seq(Requests)
  /\ held \in Seq(Requests) /\ Len(held) <= 1
  /\ heldTries \in 0..Retries
  /\ evicted \subseteq Requests
  /\ lost \subseteq Requests
  /\ faults \in 0..MaxFaults
  /\ exits \in 0..MaxExits

RecorderInit ==
  /\ StreamInit
  /\ gateway = "up"
  /\ pc = [r \in Requests |-> "serving"]
  /\ tries = [r \in Requests |-> 0]
  /\ spool = <<>>
  /\ held = <<>>
  /\ heldTries = 0
  /\ evicted = {}
  /\ lost = {}
  /\ faults = 0
  /\ exits = 0
---------------------------------------------------------------------------
\* CostStreamSpool.enqueue: evict from the head until there is room, append.
Overflow == IF Len(spool) >= SpoolMax THEN Len(spool) - SpoolMax + 1 ELSE 0

Enqueue(r) ==
  /\ spool' = Append(SubSeq(spool, Overflow + 1, Len(spool)), r)
  /\ evicted' = evicted \cup {spool[i] : i \in 1..Overflow}

\* finalize has deducted and settled; it serializes the entry and calls XADD.
StartXAdd(r) ==
  /\ gateway # "down"
  /\ pc[r] = "serving"
  /\ pc' = [pc EXCEPT ![r] = "xadd"]
  /\ UNCHANGED <<streamVars, gateway, tries, spool, held, heldTries, evicted,
                 lost, faults, exits>>

XAddOk(r) ==
  /\ pc[r] = "xadd"
  /\ XAdd(r)
  /\ pc' = [pc EXCEPT ![r] = "done"]
  /\ UNCHANGED <<gateway, tries, spool, held, heldTries, evicted, lost,
                 faults, exits>>

\* An attempt fails, before or after the server applied it. The client tries
\* again Retries times; then finalize spools the payload and returns.
XAddFail(r) ==
  /\ pc[r] = "xadd"
  /\ faults < MaxFaults
  /\ faults' = faults + 1
  /\ XAdd(r) \/ UNCHANGED streamVars
  /\ \/ /\ tries[r] < Retries
        /\ tries' = [tries EXCEPT ![r] = @ + 1]
        /\ UNCHANGED <<pc, spool, evicted>>
     \/ /\ tries[r] = Retries
        /\ Enqueue(r)
        /\ pc' = [pc EXCEPT ![r] = "done"]
        /\ UNCHANGED tries
  /\ UNCHANGED <<gateway, held, heldTries, lost, exits>>
---------------------------------------------------------------------------
\* drain(): pop the head into a local and await its XADD. The lock admits one
\* drain at a time; the health checker starts one on each healthy ping.
DrainPop ==
  /\ gateway \in {"up", "draining"}
  /\ held = <<>>
  /\ spool # <<>>
  /\ held' = <<Head(spool)>>
  /\ spool' = Tail(spool)
  /\ heldTries' = 0
  /\ UNCHANGED <<streamVars, gateway, pc, tries, evicted, lost, faults, exits>>

DrainOk ==
  /\ held # <<>>
  /\ XAdd(Head(held))
  /\ held' = <<>>
  /\ UNCHANGED <<gateway, pc, tries, spool, heldTries, evicted, lost, faults,
                 exits>>

PutBackLosing ==  \* mutant: no finally, the local goes out of scope
  /\ held' = <<>>
  /\ UNCHANGED spool

PutBackAtTail ==  \* mutant: append for appendleft
  /\ spool' = spool \o held
  /\ held' = <<>>

\* appendleft in the finally clause.
PutBack ==
  /\ spool' = held \o spool
  /\ held' = <<>>

\* After the last attempt the payload goes back and the drain stops: the next
\* healthy ping starts another, but the shutdown drain is the last one.
DrainFail ==
  /\ held # <<>>
  /\ faults < MaxFaults
  /\ faults' = faults + 1
  /\ XAdd(Head(held)) \/ UNCHANGED streamVars
  /\ \/ /\ heldTries < Retries
        /\ heldTries' = heldTries + 1
        /\ UNCHANGED <<gateway, spool, held>>
     \/ /\ heldTries = Retries
        /\ PutBack
        /\ gateway' = IF gateway = "draining" THEN "closing" ELSE gateway
        /\ UNCHANGED heldTries
  /\ UNCHANGED <<pc, tries, evicted, lost, exits>>
---------------------------------------------------------------------------
\* lifespan shutdown: the health checker's task is cancelled, with the drain
\* it may be awaiting, whose XADD the server may still apply.
BeginShutdown ==
  /\ gateway = "up"
  /\ exits < MaxExits
  /\ gateway' = "draining"
  /\ PutBack
  /\ \/ UNCHANGED streamVars
     \/ held # <<>> /\ XAdd(Head(held))
  /\ UNCHANGED <<pc, tries, heldTries, evicted, lost, faults, exits>>

EndDrain ==
  /\ gateway = "draining"
  /\ held = <<>> /\ spool = <<>>
  /\ gateway' = "closing"
  /\ UNCHANGED <<streamVars, pc, tries, spool, held, heldTries, evicted, lost,
                 faults, exits>>

\* The process ends, orderly or not: what was only in memory is gone.
InMemory == Range(Waiting) \cup {r \in Requests : pc[r] = "xadd"}

Exit ==
  /\ gateway # "down"
  /\ exits < MaxExits
  /\ exits' = exits + 1
  /\ gateway' = "down"
  /\ lost' = lost \cup InMemory
  /\ pc' = [r \in Requests |-> IF pc[r] = "xadd" THEN "done" ELSE pc[r]]
  /\ spool' = <<>>
  /\ held' = <<>>
  /\ UNCHANGED <<streamVars, tries, heldTries, evicted, faults>>

\* The orderly end: nothing is awaited any more.
FinishShutdown == gateway = "closing" /\ Exit

Restart ==
  /\ gateway = "down"
  /\ gateway' = "up"
  /\ UNCHANGED <<streamVars, pc, tries, spool, held, heldTries, evicted, lost,
                 faults, exits>>
---------------------------------------------------------------------------
RecorderNext ==
  \/ \E r \in Requests : StartXAdd(r) \/ XAddOk(r) \/ XAddFail(r)
  \/ DrainPop \/ DrainOk \/ DrainFail
  \/ BeginShutdown \/ EndDrain \/ Exit \/ Restart

rvars == <<streamVars, recorderVars>>

RecorderSpec == RecorderInit /\ [][RecorderNext]_rvars

\* The event loop runs every coroutine that is ready, the health checker ticks
\* for ever, and the orchestrator restarts the process; no fault is fair.
RecorderFairness ==
  /\ \A r \in Requests : WF_rvars(XAddOk(r))
  /\ WF_rvars(DrainPop) /\ WF_rvars(DrainOk)
  /\ WF_rvars(EndDrain)
  /\ WF_rvars(FinishShutdown) /\ WF_rvars(Restart)

FairRecorderSpec == RecorderSpec /\ RecorderFairness
---------------------------------------------------------------------------
\* Where the record of a request may be once finalize has handed it over.
Accounted(r) ==
  \/ r \in Range(stream) \cup Range(Waiting)
  \/ r \in evicted \cup lost

\* A record finalize is done with is never silently gone: it is in the
\* stream, waits to be published again, was evicted and counted, or was in
\* the memory of a process that ended (cost_stream_spool.py, drain's finally).
NoSilentLoss == \A r \in Requests : pc[r] = "done" => Accounted(r)

\* The spool never holds more than one payload above its bound, whatever is
\* enqueued while a drain holds the head (appendleft ignores the bound).
SpoolBounded == Len(Waiting) <= SpoolMax + 1

\* A payload waits at most once, and not while its own XADD is being tried:
\* pop-and-hold never leaves a second copy behind.
WaitingOnce ==
  /\ IsInjective(Waiting)
  /\ \A r \in Range(Waiting) : pc[r] = "done"

\* What the spool promises its caller, see DeadLetterQueue.
DLQ == INSTANCE DeadLetterQueue
         WITH Items <- Requests, Capacity <- SpoolMax, queue <- Waiting,
              out <- Range(stream), dropped <- evicted, gone <- lost
ImplementsDLQ == DLQ!Spec

\* A record that reached its XADD ends in the stream, counted as evicted, or
\* lost with its process: none waits for ever once Redis answers again.
EventuallySettled ==
  \A r \in Requests :
    pc[r] = "xadd" ~> r \in Range(stream) \cup evicted \cup lost
===========================================================================
