--------------------------- MODULE UsageLedger ---------------------------
(***************************************************************************)
(* What the cost pipeline promises about one record: it is open while the  *)
(* gateway, the stream or a worker may still bring it to usage_logs; then  *)
(* it is recorded or lost, and either is final.                            *)
(***************************************************************************)
CONSTANT Requests

VARIABLE record

Init == record = [r \in Requests |-> "open"]

Close(S, outcome) ==
  /\ \A r \in S : record[r] = "open"
  /\ record' = [r \in Requests |-> IF r \in S THEN outcome ELSE record[r]]

Next == \E S \in SUBSET Requests, outcome \in {"recorded", "lost"} :
          Close(S, outcome)

Spec == Init /\ [][Next]_record
==========================================================================
