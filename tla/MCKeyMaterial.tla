---------------------------- MODULE MCKeyMaterial ----------------------------
(* Small instances of KeyMaterial for TLC.                                 *)
EXTENDS KeyMaterial, TLC

MCSymmetry == Permutations(Signers) \cup Permutations(Verifiers) \cup Permutations(Keys)
=============================================================================
