----------------------------- MODULE MCSessions -----------------------------
(* Small instances of Sessions for TLC.                                    *)
EXTENDS Sessions, TLC

MCSymmetry == Permutations(Logins) \cup Permutations(Accesses) \cup Permutations(Commands)
              \cup Permutations(Devices)
=============================================================================
