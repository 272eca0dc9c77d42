---------------------------- MODULE CostStream ----------------------------
(***************************************************************************)
(* The Redis stream "cost:stream" and its consumer group, as the gateway   *)
(* (XADD with MAXLEN ~) and the cost recorder worker (XGROUP CREATE with   *)
(* id 0, XREADGROUP with ">" and "0", XACK) use them.                      *)
(*                                                                         *)
(* The stream is kept as the sequence of every entry ever appended: the    *)
(* index of an entry is its id, and trimming moves a low-water mark.       *)
(***************************************************************************)
EXTENDS Integers, Sequences, FiniteSets

CONSTANTS
  Requests,    \* the requests whose cost is recorded (request_id)
  Names,       \* the consumer names of the group
  StreamMax    \* COST_STREAM_MAXLEN

ASSUME StreamAssumption == StreamMax \in Nat \ {0}

VARIABLES
  stream,      \* every entry ever appended; the payload is its request
  trimmed,     \* the entries 1..trimmed have been trimmed away
  delivered,   \* last-delivered-id of the consumer group
  pel,         \* pending entries list: ids delivered to a name and not acked
  acked        \* history: the ids acknowledged so far

streamVars == <<stream, trimmed, delivered, pel, acked>>

StreamTypeOK ==
  /\ stream \in Seq(Requests)
  /\ trimmed \in 0..Len(stream)
  /\ delivered \in 0..Len(stream)
  /\ pel \in [Names -> SUBSET (1..Len(stream))]
  /\ acked \subseteq 1..Len(stream)

StreamInit ==
  /\ stream = <<>>
  /\ trimmed = 0
  /\ delivered = 0
  /\ pel = [n \in Names |-> {}]
  /\ acked = {}

Ids == 1..Len(stream)

\* The entries a request has in the stream, trimmed ones included.
Copies(r) == {i \in Ids : stream[i] = r}

\* XADD ... MAXLEN ~ StreamMax: trimming is approximate, it drops whole
\* nodes and may keep more than StreamMax entries, never fewer.
XAdd(r) ==
  /\ stream' = Append(stream, r)
  /\ trimmed' \in {t \in trimmed..Len(stream) :
                     t = trimmed \/ Len(stream) + 1 - t >= StreamMax}
  /\ UNCHANGED <<delivered, pel, acked>>

\* What XREADGROUP ">" COUNT count hands out next: ids nobody was given yet
\* and that are still there.
Horizon == IF delivered >= trimmed THEN delivered ELSE trimmed
LastNew(count) ==
  IF Horizon + count <= Len(stream) THEN Horizon + count ELSE Len(stream)
NewIds(count) == Horizon + 1 .. LastNew(count)

XReadNew(n, count) ==
  /\ NewIds(count) # {}
  /\ delivered' = LastNew(count)
  /\ pel' = [pel EXCEPT ![n] = @ \cup NewIds(count)]
  /\ UNCHANGED <<stream, trimmed, acked>>

\* XREADGROUP "0" COUNT count: the oldest pending entries of n, which stay
\* pending; an entry trimmed meanwhile comes back without its payload.
PendingIds(n, count) ==
  {i \in pel[n] : Cardinality({j \in pel[n] : j < i}) < count}

\* XACK: the group will never hand these entries out again.
XAck(S) ==
  /\ pel' = [n \in Names |-> pel[n] \ S]
  /\ acked' = acked \cup S
  /\ UNCHANGED <<stream, trimmed, delivered>>
============================================================================
