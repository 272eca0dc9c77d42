--------------------------- MODULE CircuitBreaker ---------------------------
(***************************************************************************)
(* The circuit breaker the gateways share in Redis: per model a window of  *)
(* recorded outcomes, an open flag and the slot of the half-open probe.    *)
(* The flag, the slot and the outcomes leave Redis by their TTL, at any    *)
(* time as far as these definitions go.                                    *)
(***************************************************************************)
EXTENDS Naturals

CONSTANTS
  Models,
  MinCalls,      \* min_calls
  RatePct,       \* error_rate, in percent
  OpenBefore     \* which circuits earlier calls may have left open

ASSUME BreakerAssumption ==
  MinCalls \in Nat \ {0} /\ RatePct \in 1..100 /\ OpenBefore \subseteq SUBSET Models

VARIABLES
  open,          \* models whose cb:{pmid}:open exists
  slot,          \* models whose cb:{pmid}:halfopen exists
  window         \* per model: [ok, fail] outcomes recorded in the window

breaker == <<open, slot, window>>

BreakerInit ==
  /\ open \in OpenBefore /\ slot = {}
  /\ window = [m \in Models |-> [ok |-> 0, fail |-> 0]]

BreakerTypeOK ==
  /\ open \subseteq Models /\ slot \subseteq Models
  /\ window \in [Models -> [ok : Nat, fail : Nat]]

\* The script counts nothing while the circuit is open; else it counts the
\* outcome and opens the circuit when the window calls for it.
Tripped(w) ==
  /\ w.ok + w.fail >= MinCalls
  /\ 100 * w.fail >= RatePct * (w.ok + w.fail)

Record(m, failed) ==
  LET w == IF failed THEN [window[m] EXCEPT !.fail = @ + 1]
           ELSE [window[m] EXCEPT !.ok = @ + 1]
  IN /\ window' = IF m \in open THEN window ELSE [window EXCEPT ![m] = w]
     /\ open' = IF m \notin open /\ Tripped(w) THEN open \cup {m} ELSE open
     /\ UNCHANGED slot

\* The DEL of record_success, a call of its own after the script.
CloseCircuit(m) ==
  /\ open' = open \ {m}
  /\ UNCHANGED <<slot, window>>

TakeSlot(m) ==
  /\ slot' = slot \cup {m}
  /\ UNCHANGED <<open, window>>

\* TTLs: PX of the two keys, EXPIRE of the buckets.
FlagLapses(m) == m \in open /\ open' = open \ {m} /\ UNCHANGED <<slot, window>>

SlotLapses(m) == m \in slot /\ slot' = slot \ {m} /\ UNCHANGED <<open, window>>

OutcomesLapse(m) ==
  \E k \in DOMAIN window[m] :
    /\ window[m][k] > 0
    /\ window' = [window EXCEPT ![m][k] = @ - 1]
    /\ UNCHANGED <<open, slot>>

Lapse == \E m \in Models : FlagLapses(m) \/ SlotLapses(m) \/ OutcomesLapse(m)
=============================================================================
