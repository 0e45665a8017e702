------------------------- MODULE MCCapabilitySync -------------------------
(* Small instances of CapabilitySync for TLC.                              *)
EXTENDS CapabilitySync, TLC

Symmetry == Permutations(Runs) \union Permutations(Names)
              \union Permutations(Syncs)
=============================================================================
