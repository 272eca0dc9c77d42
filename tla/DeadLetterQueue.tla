-------------------------- MODULE DeadLetterQueue --------------------------
(***************************************************************************)
(* What the dead-letter spool promises: a first-in first-out queue in      *)
(* front of an outlet that may report a failure for what it has let        *)
(* through. An accepted item leaves only through the outlet, as a counted  *)
(* eviction made when the queue is full, or with the whole process.        *)
(***************************************************************************)
EXTENDS Integers, Sequences, Functions

CONSTANTS Items, Capacity

VARIABLES
  queue,     \* accepted and not known to be out, oldest first
  out,       \* let through the outlet at least once
  dropped,   \* evicted
  gone       \* lost with the process

vars == <<queue, out, dropped, gone>>

Init == queue = <<>> /\ out = {} /\ dropped = {} /\ gone = {}

\* An item goes straight out, reported as out or not.
Pass(x) ==
  /\ out' = out \cup {x}
  /\ UNCHANGED <<queue, dropped, gone>>

\* An item the outlet reported as failed is accepted. A full queue makes room
\* by dropping its oldest items, but for the head when the outlet is busy
\* with it.
Accept(x) ==
  \E busy \in 0..1, n \in 0..Len(queue) :
    /\ n > 0 => Len(queue) >= Capacity
    /\ busy + n <= Len(queue)
    /\ queue' = Append(SubSeq(queue, 1, busy)
                         \o SubSeq(queue, busy + n + 1, Len(queue)), x)
    /\ Len(queue') <= Capacity + 1
    /\ dropped' = dropped \cup {queue[i] : i \in busy + 1 .. busy + n}
    /\ out' \in {out, out \cup {x}}
    /\ UNCHANGED gone

\* The oldest item goes out; the report may say that it did not.
Release ==
  /\ queue # <<>>
  /\ out' = out \cup {Head(queue)}
  /\ queue' \in {queue, Tail(queue)}
  /\ UNCHANGED <<dropped, gone>>

\* The process ends.
Lose ==
  /\ queue' = <<>>
  /\ \E S \in SUBSET Items : gone' = gone \cup S \cup Range(queue)
  /\ UNCHANGED <<out, dropped>>

Next == (\E x \in Items : Pass(x) \/ Accept(x)) \/ Release \/ Lose

Spec == Init /\ [][Next]_vars
============================================================================
