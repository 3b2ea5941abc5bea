---------------------------- MODULE TokenBinding ----------------------------
(***************************************************************************)
(* Proof of possession at the Gateway (common/token_binding.py), as the    *)
(* handler threads of gateway/gateway_server.py run it.                    *)
(*                                                                         *)
(* A bound token is accepted only with a proof signed by the device key    *)
(* pinned in its cnf claim.  The Gateway refuses a proof that is too old   *)
(* or too far in the future, and remembers every nonce it has seen so that *)
(* a proof cannot be used twice inside its freshness window.               *)
(*                                                                         *)
(* verify_proof reads the clock once, and takes the lock of the nonce      *)
(* cache only afterwards: another thread may prune the cache in between    *)
(* with a later reading.  Each read or write of shared state is a step.    *)
(***************************************************************************)
EXTENDS Integers

CONSTANTS
    Requests,   \* requests that reach the Gateway, one handler thread each
    Nonces,     \* what clients draw from os.urandom; no value is drawn twice
    Tokens,     \* a bound token together with the method and path it is used on
    Keys,       \* device keys
    Pinned,     \* the thumbprint in the token's cnf claim
    MaxAge,     \* PROOF_MAX_AGE_SECONDS
    Slack,      \* the seconds a nonce is kept beyond MaxAge (the code's 5)
    TokenTTL,   \* every token expires at this time
    Skew,       \* how far a client's clock may be from the Gateway's
    Stall,      \* longest a thread sleeps between its clock read and the lock
    MaxTime,    \* bound on the clock
    MaxLives    \* bound on the number of Gateway processes, one after the other

ASSUME TokenBindingAssumption ==
    /\ Pinned \in [Tokens -> Keys]
    /\ {MaxAge, Slack, TokenTTL, Skew, Stall, MaxTime, MaxLives} \subseteq Nat

VARIABLES
    now,        \* the Gateway's clock
    life,       \* which Gateway process is running
    seen,       \* _seen_nonces: nonce and the time it may be forgotten
    record,     \* the device's registry record, written by other processes
    proofs,     \* every proof a client has signed; any may arrive at any time
    req         \* what each handler thread has reached

vars == <<now, life, seen, record, proofs, req>>

Statuses == {"pending", "approved", "revoked"}
Proof    == [nonce : Nonces, ts : Int, token : Tokens, key : Keys]
NoProof  == [nonce |-> "none"]      \* a missing or malformed proof header
Idle     == [pc |-> "idle"]
Request  == [pc : {"timed", "fresh", "accepted"}, token : Tokens,
             proof : Proof, at : Nat, life : Nat]
Refused  == [pc |-> "refused"]      \* the ProofError carries no state

TypeOK ==
    /\ now \in Nat /\ life \in Nat
    /\ seen \subseteq [nonce : Nonces, exp : Int]
    /\ record \in [status : Statuses, key : Keys]
    /\ proofs \subseteq Proof
    /\ req \in [Requests -> Request \cup {Idle, Refused}]

Init ==
    /\ now = 0 /\ life = 1
    /\ seen = {} /\ proofs = {}
    /\ record \in [status : {"approved"}, key : Keys]
    /\ req = [r \in Requests |-> Idle]

(***************************************************************************)
(* Clients and the administrator.                                          *)
(***************************************************************************)

\* agent/client_agent.py builds a proof with its own clock and a new nonce.
Sign(n, t, k, d) ==
    /\ \A p \in proofs : p.nonce # n
    /\ proofs' = proofs \cup {[nonce |-> n, ts |-> now + d, token |-> t, key |-> k]}
    /\ UNCHANGED <<now, life, seen, record, req>>

\* Mutated: a status that no reader of the registry knows.
NewStatusUnknown == "enrolled"

\* Enrolling another key puts the device back in line for approval.
NewStatus == "pending"

\* The IdP and manage_devices change the record under the Gateway's feet.
Enroll(k) ==
    /\ k # record.key
    /\ record' = [status |-> NewStatus, key |-> k]
    /\ UNCHANGED <<now, life, seen, proofs, req>>

Decide(s) ==
    /\ s # record.status
    /\ record' = [record EXCEPT !.status = s]
    /\ UNCHANGED <<now, life, seen, proofs, req>>

(***************************************************************************)
(* One handler thread: verify_token's expiry check and verify_proof.       *)
(***************************************************************************)

\* The age check refuses a proof from the future like one from the past.
Fresh(p) == now - p.ts \in (-MaxAge) .. MaxAge

\* Up to the clock read.  Nothing shared is written, so a refusal leaves no trace.
Arrive(r, t, p) ==
    /\ req[r] = Idle
    /\ req' = [req EXCEPT ![r] =
                 IF now <= TokenTTL /\ p # NoProof /\ p.token = t /\ Fresh(p)
                 THEN [pc |-> "timed", token |-> t, proof |-> p, at |-> now,
                       life |-> life]
                 ELSE Refused]
    /\ UNCHANGED <<now, life, seen, record, proofs>>

\* Mutated: an entry is pruned at its last useful instant.
KeptTooShort(t) == {e \in seen : e.exp > t}

\* _prune_nonces, called with a thread's clock reading.
Kept(t) == {e \in seen : e.exp >= t}

\* Mutated: the nonce is kept for the length of the freshness window only.
RetainedForWindow(t) == t + MaxAge

\* When the nonce of a proof checked at t may be forgotten.
RetainedUntil(t) == t + MaxAge + Slack

\* The nonce is spent here, before the device and the signature are checked.
Remember(r) ==
    /\ req[r].pc = "timed"
    /\ LET q    == req[r]
           kept == Kept(q.at)
           new  == \A e \in kept : e.nonce # q.proof.nonce
       IN  IF new
           THEN /\ seen' = kept \cup {[nonce |-> q.proof.nonce,
                                       exp   |-> RetainedUntil(q.at)]}
                /\ req' = [req EXCEPT ![r].pc = "fresh"]
           ELSE /\ seen' = kept
                /\ req' = [req EXCEPT ![r] = Refused]
    /\ UNCHANGED <<now, life, record, proofs>>

\* Mutated: any approved key will do.
ApprovedDeviceProves(q) == record.status = "approved" /\ q.proof.key = record.key

\* The record is read once; status, thumbprint and signature are checked on it.
DeviceProves(q) ==
    /\ record.status = "approved"
    /\ record.key = Pinned[q.token]
    /\ q.proof.key = record.key

CheckDevice(r) ==
    /\ req[r].pc = "fresh"
    /\ IF DeviceProves(req[r])
       THEN req' = [req EXCEPT ![r].pc = "accepted"]
       ELSE req' = [req EXCEPT ![r] = Refused]
    /\ UNCHANGED <<now, life, seen, record, proofs>>

\* The cache is process memory: a restart empties it and cuts off its threads.
Restart ==
    /\ life < MaxLives
    /\ life' = life + 1
    /\ seen' = {}
    /\ req' = [r \in Requests |->
                 IF req[r].pc \in {"timed", "fresh"} THEN Refused ELSE req[r]]
    /\ UNCHANGED <<now, record, proofs>>

Tick ==
    /\ now < MaxTime
    /\ \A r \in Requests : req[r].pc = "timed" => now - req[r].at < Stall
    /\ now' = now + 1
    /\ UNCHANGED <<life, seen, record, proofs, req>>

Handle(r) ==
    \/ \E t \in Tokens, p \in proofs \cup {NoProof} : Arrive(r, t, p)
    \/ Remember(r)
    \/ CheckDevice(r)

Next ==
    \/ \E n \in Nonces, t \in Tokens, k \in Keys, d \in (-Skew) .. Skew : Sign(n, t, k, d)
    \/ \E k \in Keys : Enroll(k)
    \/ \E s \in {"approved", "revoked"} : Decide(s)
    \/ \E r \in Requests : Handle(r)
    \/ Restart
    \/ Tick

Spec == Init /\ [][Next]_vars

(***************************************************************************)
(* Properties.                                                             *)
(***************************************************************************)

\* A request whose nonce this process has written into its cache.
Spent(r) == req[r].pc \in {"fresh", "accepted"}

\* One Gateway process never lets the same proof through twice, however late the
\* proof is presented again and however the handler threads interleave
\* (common/token_binding.py: "a proof cannot be replayed even within" its window).
ProofSingleUse ==
    \A r, s \in Requests :
        /\ r # s /\ req[r].pc = "accepted" /\ req[s].pc = "accepted"
        /\ req[r].life = req[s].life
        => req[r].proof # req[s].proof

\* Each acceptance as a use of the proof in one Gateway process: the code implements
\* SingleUse (THEOREM ImplementsSingleUse).
Accepted == {r \in Requests : req[r].pc = "accepted"}
Uses == {<<r, <<req[r].life, req[r].proof>>>> : r \in Accepted}
Once == INSTANCE SingleUse WITH uses <- Uses

\* An accepted request was signed for this very token by the key the token was
\* issued to, also when the device has since enrolled another key and that key
\* has been approved (the cross-check of cnf.jkt against the registry).
AcceptedKeyIsPinned ==
    \A r \in Requests : req[r].pc = "accepted" =>
        /\ req[r].proof.token = req[r].token
        /\ req[r].proof.key = Pinned[req[r].token]

\* The cache forgets a nonce only when no thread, not even one that read the
\* clock earlier and sleeps before the lock, can still take a proof carrying it
\* (the comment on _seen_nonces: useful as long as a proof could be accepted).
StillUsable(p) ==
    \/ now <= p.ts + MaxAge
    \/ \E r \in Requests : req[r].pc = "timed" /\ req[r].proof = p

ForgottenOnlyWhenUseless ==
    [][\A e \in seen \ seen', p \in proofs :
           life' = life /\ p.nonce = e.nonce => ~StillUsable(p)']_vars
=============================================================================
