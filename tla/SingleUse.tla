----------------------------- MODULE SingleUse -----------------------------
(***************************************************************************)
(* What the nonces of this system are for, whoever issues them: a signed   *)
(* answer is accepted once.  TokenBinding implements it for the proofs a   *)
(* client makes for each request, Attestation for the challenges that the  *)
(* Identity Provider issues for a login.                                   *)
(***************************************************************************)
VARIABLE uses   \* who has used what, a set of pairs

Init == uses = {}

\* Somebody uses what nobody has used before.
Use ==
    \E u \in uses' :
        /\ uses' = uses \cup {u}
        /\ \A v \in uses : v[2] # u[2]

Spec == Init /\ [][Use]_uses
=============================================================================
