----------------------------- MODULE MCServing -----------------------------
(***************************************************************************)
(* An instance of Serving for TLC: r1 may fall back from m1 to m2, by way  *)
(* of a model of another provider; the chain is a cycle. r2 names m2, by   *)
(* any route.                                                              *)
(***************************************************************************)
EXTENDS Serving, TLC

CONSTANTS r1, r2, m1, m2, m3

MCRouters == (r1 :> {"messages"}) @@ (r2 :> {"messages", "chat", "raw", "count"})
MCOriginal == (r1 :> m1) @@ (r2 :> m2)
MCChainTo == (m1 :> m3) @@ (m3 :> m2) @@ (m2 :> m3)
MCProviderOf == (m1 :> "BEDROCK") @@ (m2 :> "BEDROCK") @@ (m3 :> "OPENMODEL")
MCOpenBefore == {{m2}}
MCAllowedSets == {{}, {m1}}
=============================================================================
