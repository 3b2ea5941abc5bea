---------------------------- MODULE MCAttestation ----------------------------
(* Small instances of Attestation for TLC.                                 *)
EXTENDS Attestation, TLC

MCSymmetry == Permutations(Agents) \cup Permutations(Logins) \cup Permutations(SoftKeys)
=============================================================================
