----------------------------- MODULE KeyMaterial -----------------------------
(***************************************************************************)
(* The key pair that signs and verifies tokens: two files that            *)
(* ensure_jwt_keypair (common/rsa_utils.py) makes whenever one of them is  *)
(* missing.  It is called before each use of a key, in every thread of the *)
(* Identity Provider and of the Gateway and in tools/provision_certs.py,   *)
(* with no lock; tools/rotate_keys.py moves the files away meanwhile.      *)
(*                                                                         *)
(* On one host the services share the two files.  In a multi-host          *)
(* deployment each host starts from the bundle that provision_certs wrote. *)
(***************************************************************************)
EXTENDS Integers, FiniteSets

CONSTANTS
    Signers,        \* logins at the Identity Provider: issue_token
    Verifiers,      \* requests at the Gateway: verify_token
    Provisions,     \* runs of provision_certs
    Keys,           \* what rsa.generate_private_key returns
    PerHost         \* TRUE: the Gateway has a host of its own

\* A thread does one thing, and a key can be told from a file that holds none.
ASSUME KeyMaterialAssumption ==
    /\ PerHost \in BOOLEAN
    /\ Signers \cap Verifiers = {} /\ Signers \cap Provisions = {}
    /\ Verifiers \cap Provisions = {}
    /\ {"missing", "empty"} \cap Keys = {}

VARIABLES
    private,    \* jwt_private.pem of each host
    public,     \* jwt_public.pem of each host
    worker,     \* how far each thread has come
    rotation,   \* how far rotate_keys --what jwt has come
    archived,   \* the keys that are in certs/archive
    tangled     \* history: see Overlaps and LeavesBoth

vars == <<private, public, worker, rotation, archived, tangled>>

Hosts   == IF PerHost THEN {"idp", "gateway"} ELSE {"idp"}
Threads == Signers \cup Verifiers \cup Provisions
Host(t) == IF PerHost /\ t \in Verifiers THEN "gateway" ELSE "idp"

Missing == "missing"
Empty   == "empty"
File    == Keys \cup {Missing, Empty}

Idle == [pc |-> "idle"]
Making == {"making", "privateOpen", "half", "publicOpen"}
\* key: the key it has made, and at the end the key it has used; token: the key that
\* signed the token it verifies; seen: how far the rotation was when it began.
WorkerState == [pc : Making \cup {"ready", "done", "accepted", "rejected", "failed"},
                key : File, token : File,
                seen : {"none", "half", "done"}]

TypeOK ==
    /\ private \in [Hosts -> File] /\ public \in [Hosts -> File]
    /\ worker \in [Threads -> WorkerState \cup {Idle}]
    /\ rotation \in {"none", "half", "done"}
    /\ archived \subseteq Keys
    /\ tangled \in BOOLEAN

\* A new installation has no keys; a bundle has the private key for the IdP only.
Init ==
    /\ \E k \in Keys \cup {Missing} :
           /\ public = [h \in Hosts |-> k]
           /\ private = [h \in Hosts |-> IF h = "idp" THEN k ELSE Missing]
    /\ worker = [t \in Threads |-> Idle]
    /\ rotation = "none"
    /\ archived = {}
    /\ tangled = FALSE

Makers(h) == {t \in Threads : worker[t].pc \in Making /\ Host(t) = h}

\* A thread that begins to make a pair is not alone.
Overlaps(h) == Makers(h) # {} \/ rotation = "half"

(***************************************************************************)
(* ensure_jwt_keypair.                                                     *)
(***************************************************************************)

Used == {private[h] : h \in Hosts} \cup {public[h] : h \in Hosts} \cup archived
            \cup {worker[t].key : t \in {u \in Threads : worker[u] # Idle}}

\* The token a request brings, if it is a request of the Gateway.
Tokens(t) == IF t \in Verifiers THEN {worker[s].key : s \in {u \in Signers : worker[u].pc = "done"}}
             ELSE {Missing}

\* Mutated: every call makes a new pair.
CompleteNever(h) == FALSE

\* Mutated: one file is enough.
CompleteWithPrivate(h) == private[h] # Missing

Complete(h) == private[h] # Missing /\ public[h] # Missing

Begin(t, pc, key) ==
    /\ worker[t] = Idle
    /\ \E token \in Tokens(t) :
           worker' = [worker EXCEPT ![t] =
                        [pc |-> pc, key |-> key, token |-> token, seen |-> rotation]]

\* Both files are there: the thread goes on to read one of them.
FindPair(t) ==
    /\ Complete(Host(t))
    /\ Begin(t, "ready", Missing)
    /\ UNCHANGED <<private, public, rotation, archived, tangled>>

Generate(t, k) ==
    /\ ~Complete(Host(t))
    /\ k \notin Used
    /\ Begin(t, "making", k)
    /\ tangled' = (tangled \/ Overlaps(Host(t)))
    /\ UNCHANGED <<private, public, rotation, archived>>

Moves(t, from, to) ==
    /\ worker[t].pc = from
    /\ worker' = [worker EXCEPT ![t].pc = to]

\* open(..., "wb") leaves an empty file until the key is written.
OpenPrivate(t) ==
    /\ Moves(t, "making", "privateOpen")
    /\ private' = [private EXCEPT ![Host(t)] = Empty]
    /\ UNCHANGED <<public, rotation, archived, tangled>>

WritePrivate(t) ==
    /\ Moves(t, "privateOpen", "half")
    /\ private' = [private EXCEPT ![Host(t)] = worker[t].key]
    /\ UNCHANGED <<public, rotation, archived, tangled>>

OpenPublic(t) ==
    /\ Moves(t, "half", "publicOpen")
    /\ public' = [public EXCEPT ![Host(t)] = Empty]
    /\ UNCHANGED <<private, rotation, archived, tangled>>

WritePublic(t) ==
    /\ Moves(t, "publicOpen", "ready")
    /\ public' = [public EXCEPT ![Host(t)] = worker[t].key]
    /\ UNCHANGED <<private, rotation, archived, tangled>>

\* The process dies, or the disk is full.  Files that both exist are not made again.
LeavesBoth(t) == /\ worker[t].pc # "making"
                 /\ Missing \notin {private[Host(t)], public[Host(t)]}

Fail(t) ==
    /\ worker[t].pc \in Making
    /\ worker' = [worker EXCEPT ![t].pc = "failed"]
    /\ tangled' = (tangled \/ LeavesBoth(t))
    /\ UNCHANGED <<private, public, rotation, archived>>

(***************************************************************************)
(* What the key is for.  It is read again from the file.                   *)
(***************************************************************************)

Ends(t, pc, key) ==
    /\ worker[t].pc = "ready"
    /\ worker' = [worker EXCEPT ![t].pc = pc, ![t].key = key]
    /\ UNCHANGED <<private, public, rotation, archived, tangled>>

\* issue_token: jwt.encode fails without a key.
SignToken(t) ==
    LET f == private[Host(t)] IN
    t \in Signers /\ Ends(t, IF f \in Keys THEN "done" ELSE "failed", f)

\* verify_token: a key that cannot be read denies access, too.
VerifyToken(t) ==
    LET f == public[Host(t)] IN
    t \in Verifiers /\ Ends(t, IF f = worker[t].token THEN "accepted" ELSE "rejected", f)

\* provision_certs only makes sure that there is a pair.
Provision(t) == t \in Provisions /\ Ends(t, "done", Missing)

(***************************************************************************)
(* rotate_keys --what jwt.  It ends there: _reprovision calls              *)
(* provision_certs.main without its required arguments, which exits.       *)
(***************************************************************************)

\* Mutated: the files are copied to the archive.
AfterCopy(f) == f

AfterMove(f) == Missing

\* Mutated: the archive is said to hold what was not there.
MovedUnchecked(f) == {f}

\* A file that does not exist is not moved; an empty one holds no key.
Moved(f) == {f} \cap Keys

MovePrivate ==
    /\ rotation = "none"
    /\ rotation' = "half"
    /\ private' = [private EXCEPT !["idp"] = AfterMove(private["idp"])]
    /\ archived' = archived \cup Moved(private["idp"])
    /\ tangled' = (tangled \/ Makers("idp") # {})
    /\ UNCHANGED <<public, worker>>

MovePublic ==
    /\ rotation = "half"
    /\ rotation' = "done"
    /\ public' = [public EXCEPT !["idp"] = AfterMove(public["idp"])]
    /\ archived' = archived \cup Moved(public["idp"])
    /\ tangled' = (tangled \/ Makers("idp") # {})
    /\ UNCHANGED <<private, worker>>

(***************************************************************************)
(* The specification.                                                      *)
(***************************************************************************)

Work(t) ==
    \/ FindPair(t) \/ \E k \in Keys : Generate(t, k)
    \/ OpenPrivate(t) \/ WritePrivate(t) \/ OpenPublic(t) \/ WritePublic(t)
    \/ Fail(t)
    \/ SignToken(t) \/ VerifyToken(t) \/ Provision(t)

Next ==
    \/ \E t \in Threads : Work(t)
    \/ MovePrivate \/ MovePublic

Spec == Init /\ [][Next]_vars

(***************************************************************************)
(* Properties.                                                             *)
(***************************************************************************)

\* Who has called ensure_jwt_keypair finds two files of one key, also after a call
\* that ended half-way (common/rsa_utils.py: "Idempotent -- safe to call from every
\* service on startup").  Not so while a pair is being made, when a rotation came
\* after the call, and once two of these have overlapped or a call has ended with
\* both files there: nothing repairs that.
EnsuredPairMatches ==
    \A t \in Threads :
        LET h == Host(t) IN
        worker[t].pc = "ready" /\ worker[t].seen = rotation /\ Makers(h) = {} /\ ~tangled
            => private[h] \in Keys /\ public[h] = private[h]

\* The Gateway turns a token away for its signature only when the key that signed it
\* has been archived, when the call that was making that key has not brought it to an
\* end, or when the files have been mixed up (common/jwt_utils.py: verify_token).
RejectionHasCause ==
    \A t \in Verifiers :
        worker[t].pc = "rejected" /\ worker[t].key \in Keys =>
            \/ worker[t].token \in archived \/ tangled
            \/ \E u \in Threads : worker[u].pc = "failed" /\ worker[u].key = worker[t].token

\* A request that begins after the rotation is not granted with an archived key
\* (tools/rotate_keys.py: "every currently-issued access token becomes invalid
\* immediately"), though the services go on and make keys while the files move.
RetiredKeysStayRetired ==
    \A t \in Verifiers :
        worker[t].pc = "accepted" /\ worker[t].seen = "done"
            => worker[t].token \notin archived \/ tangled

\* The Gateway's host never holds a signing key (tools/provision_certs.py: "the
\* Gateway never receives the JWT private key").
GatewayCannotSign == PerHost => private["gateway"] \notin Keys
=============================================================================
