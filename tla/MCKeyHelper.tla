---------------------------- MODULE MCKeyHelper ----------------------------
(* The instance of KeyHelper that TLC explores: its helpers are
   interchangeable, and so are its users. *)
EXTENDS KeyHelper, TLC

MCSymmetry == Permutations(Helpers) \cup Permutations(Users)
============================================================================
