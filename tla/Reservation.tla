---------------------------- MODULE Reservation ----------------------------
(***************************************************************************)
(* What a request may do with the tokens and the cost it reserves: hold at *)
(* most one reservation at a time, give it back unused or settle it with   *)
(* the one report of its usage, and reserve nothing more once it reported. *)
(***************************************************************************)
EXTENDS FiniteSets

CONSTANT Requests

VARIABLES held, reported

vars == <<held, reported>>

Init == held = {} /\ reported = {}

Reserve(r) ==
  /\ r \notin held \cup reported
  /\ held' = held \cup {r} /\ UNCHANGED reported

GiveBack(r) ==
  /\ r \in held
  /\ held' = held \ {r} /\ UNCHANGED reported

\* The report settles what is held, which may be nothing.
Report(r) ==
  /\ r \notin reported
  /\ held' = held \ {r} /\ reported' = reported \cup {r}

Next == \E r \in Requests : Reserve(r) \/ GiveBack(r) \/ Report(r)

Spec == Init /\ [][Next]_vars
=============================================================================
