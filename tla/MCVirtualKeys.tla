---------------------------- MODULE MCVirtualKeys ----------------------------
(* The instance of VirtualKeys that TLC explores: the two admin-api requests *)
(* in progress are interchangeable, and so are the teams.                    *)
EXTENDS VirtualKeys, TLC

MCSymmetry == Permutations(Sessions) \cup Permutations(Teams)
=============================================================================
