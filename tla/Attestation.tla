----------------------------- MODULE Attestation -----------------------------
(***************************************************************************)
(* Device attestation at login, from the endpoint (agent/client_agent.py,  *)
(* agent/device_attestation.py) to the Identity Provider                   *)
(* (idp/idp_server.py, idp/device_registry.py).                            *)
(*                                                                         *)
(* An agent makes sure that the device has a key, in the TPM or else in a  *)
(* file, enrolls it, asks for a challenge, signs it and logs in.  The IdP  *)
(* keeps one outstanding challenge for a device, in process memory: runs   *)
(* of the agent on the same device share it, and share the key.  A request *)
(* from elsewhere that names the device takes its challenge, or enrolls    *)
(* another key for it.                                                     *)
(*                                                                         *)
(* One device.  Its record shares a file with those of other devices:      *)
(* here a change of its own is one step, a change of another's two, for    *)
(* the file may change between them.  DeviceRegistry has the details.      *)
(***************************************************************************)
EXTENDS Integers, FiniteSets

CONSTANTS
    Agents,     \* runs of the agent on the device; each asks for one challenge
    Logins,     \* /login requests that carry a signature; more of them than
                \* agents: a signature may be sent again
    SoftKeys,   \* what rsa.generate_private_key returns
    Others,     \* changes of other devices' records, by the IdP or manage_devices.py
    Strangers,  \* requests from elsewhere that name the device
    HasTpm,     \* Windows with PowerShell
    TTL,        \* CHALLENGE_TTL_SECONDS
    MaxEvents   \* bound on the seconds that pass, the IdP's processes, and what
                \* Others and Strangers do, together

ASSUME AttestationAssumption ==
    /\ IsFiniteSet(Agents)
    /\ Agents \cap (Strangers \cup SoftKeys \cup {"tpm"}) = {}
    /\ "waiting" \notin Agents \cup Strangers \cup SoftKeys
    /\ HasTpm \in BOOLEAN /\ {TTL, MaxEvents} \subseteq Nat

VARIABLES
    now,        \* the IdP's clock
    life,       \* which IdP process is running
    softKey,    \* the key file of the software fallback
    record,     \* the device's registry record
    challenge,  \* _CHALLENGES: the nonce that is outstanding, and until when
    agent,      \* how far each run of the agent has come
    login,      \* how far each handle_login has come
    other,      \* how far each change of another device's record has come
    stranger,   \* whose challenge each request from elsewhere has taken, or the key
                \* it has enrolled
    trusted,    \* history: the keys an administrator has approved
    misread     \* history: the logins that could not read the registry

elsewhere == <<other, stranger>>
history == <<trusted, misread>>
vars == <<now, life, softKey, record, challenge, agent, login, elsewhere, history>>

TpmKey == "tpm"
NoKey  == "none"
Keys   == SoftKeys \cup {TpmKey}

NoRecord    == [status |-> "absent"]
Record      == [status : {"pending", "approved", "revoked"}, key : Keys]
\* A nonce has the name of the run, or of the request from elsewhere, that asked for it.
NoChallenge == [nonce |-> "none"]
Challenge   == [nonce : Agents \cup Strangers, exp : Nat]

Idle    == [pc |-> "idle"]
Failed  == [pc |-> "failed"]
\* hardware, key: what ensure_enrolled reported; signed: the key that signed;
\* turn: the place of its challenge in the order of issue.
AgentState == [pc : {"making", "made", "keyed", "enrolled", "challenged", "signed", "unsigned"},
               hardware : BOOLEAN, key : Keys \cup {NoKey},
               signed : Keys \cup {NoKey}, turn : Nat]
\* of: whose signature it carries; popped: the challenge it took; seen: the record.
LoginState == [pc : {"popped", "timely", "attested", "unattested"}, of : Agents,
               popped : Challenge \cup {NoChallenge}, at : Nat,
               seen : Record \cup {NoRecord}]
\* copy: the device's record, as it is in the file that will replace the registry.
OtherState == [pc : {"loaded"}, copy : Record \cup {NoRecord}]
\* The file that replaced the registry had the record, or did not.
Kept    == [pc |-> "kept"]
Dropped == [pc |-> "dropped"]

TypeOK ==
    /\ now \in Nat /\ life \in Nat
    /\ softKey \in SoftKeys \cup {NoKey}
    /\ record \in Record \cup {NoRecord}
    /\ challenge \in Challenge \cup {NoChallenge}
    /\ agent \in [Agents -> AgentState \cup {Idle}]
    /\ login \in [Logins -> LoginState \cup {Idle, Failed}]
    /\ other \in [Others -> OtherState \cup {Idle, Kept, Dropped}]
    /\ stranger \in [Strangers -> Agents \cup Strangers \cup Keys \cup {"waiting", "none"}]
    /\ trusted \subseteq Keys /\ misread \subseteq Logins

Init ==
    /\ now = 0 /\ life = 1
    /\ softKey = NoKey /\ record = NoRecord /\ challenge = NoChallenge
    /\ agent = [a \in Agents |-> Idle]
    /\ login = [l \in Logins |-> Idle]
    /\ other = [o \in Others |-> Idle]
    /\ stranger = [s \in Strangers |-> "waiting"]
    /\ trusted = {} /\ misread = {}

\* What store.get returns of the device: FileBackend._load has nothing of a file that
\* it cannot read.
Reads == {record, NoRecord}

Events ==
    now + life + Cardinality({s \in Strangers : stranger[s] # "waiting"})
               + Cardinality({o \in Others : other[o] # Idle})

(***************************************************************************)
(* The agent.                                                              *)
(***************************************************************************)

Started(pc, hardware, key) ==
    [pc |-> pc, hardware |-> hardware, key |-> key, signed |-> NoKey, turn |-> 0]

\* ensure_enrolled: the TPM's key, or else the software key, if there is one.
\* PowerShell may fail at one time and work at another.
FindKey(a) ==
    /\ agent[a] = Idle
    /\ \/ HasTpm /\ agent' = [agent EXCEPT ![a] = Started("keyed", TRUE, TpmKey)]
       \/ agent' = [agent EXCEPT ![a] =
                      IF softKey = NoKey THEN Started("making", FALSE, NoKey)
                      ELSE Started("keyed", FALSE, softKey)]
    /\ UNCHANGED <<now, life, softKey, record, challenge, login, elsewhere, history>>

Running == {a \in Agents : agent[a] # Idle}

NewKey(k) ==
    k \notin {softKey} \cup {agent[b].key : b \in Running} \cup {stranger[s] : s \in Strangers}

\* _fallback_ensure_key saw no file: it writes a new key ...
MakeKey(a, k) ==
    /\ agent[a].pc = "making" /\ NewKey(k)
    /\ softKey' = k
    /\ agent' = [agent EXCEPT ![a].pc = "made"]
    /\ UNCHANGED <<now, life, record, challenge, login, elsewhere, history>>

\* ... and _fallback_load_key reads what is in the file then.
LoadKey(a) ==
    /\ agent[a].pc = "made"
    /\ agent' = [agent EXCEPT ![a] = Started("keyed", FALSE, softKey)]
    /\ UNCHANGED <<now, life, softKey, record, challenge, login, elsewhere, history>>

\* Mutated: a device that comes back with another key keeps its status.
EnrolledAsBefore(old, k) ==
    IF old # NoRecord THEN [old EXCEPT !.key = k]
    ELSE [status |-> "pending", key |-> k]

\* Mutated: the record gets the status of the answer.
EnrolledAsAnswered(old, k) ==
    IF old # NoRecord /\ old.key = k THEN old
    ELSE [status |-> "pending_approval", key |-> k]

\* register_device
Enrolled(old, k) ==
    IF old # NoRecord /\ old.key = k THEN old
    ELSE [status |-> "pending", key |-> k]

\* POST /enroll.  The agent goes on when the device is approved; it logs in without
\* a signature when it is told that the device is not, or gets no answer in time.
Enroll(a) ==
    /\ agent[a].pc = "keyed"
    /\ \E old \in Reads, next \in {"enrolled", "unsigned"} :
           /\ record' = Enrolled(old, agent[a].key)
           /\ next = "enrolled" => record'.status = "approved"
           /\ agent' = [agent EXCEPT ![a].pc = next]
    /\ UNCHANGED <<now, life, softKey, challenge, login, elsewhere, history>>

\* The enrollment fails, before the registry is written or after, and the answer is a
\* 500: the agent goes on, for it stops at a 202 only.
EnrollFails(a) ==
    /\ agent[a].pc = "keyed"
    /\ \/ UNCHANGED record
       \/ \E old \in Reads : record' = Enrolled(old, agent[a].key)
    /\ agent' = [agent EXCEPT ![a].pc = "enrolled"]
    /\ UNCHANGED <<now, life, softKey, challenge, login, elsewhere, history>>

Turns == Cardinality({b \in Running : agent[b].turn > 0})

\* POST /challenge: issue_challenge replaces the challenge that is outstanding.
\* The answer may be lost here, too.
AskChallenge(a) ==
    /\ agent[a].pc = "enrolled" /\ record # NoRecord
    /\ challenge' = [nonce |-> a, exp |-> now + TTL]
    /\ \E next \in {"challenged", "unsigned"} :
           agent' = [agent EXCEPT ![a].pc = next, ![a].turn = Turns + 1]
    /\ UNCHANGED <<now, life, softKey, record, login, elsewhere, history>>

\* is_enrolled finds no record, or cannot read it: a 404.
ChallengeRefused(a) ==
    /\ agent[a].pc = "enrolled"
    /\ agent' = [agent EXCEPT ![a].pc = "unsigned"]
    /\ UNCHANGED <<now, life, softKey, record, challenge, login, elsewhere, history>>

\* Mutated: the TPM signs where there is one, whatever was enrolled.
SigningKeyOfHost(a) == IF HasTpm THEN TpmKey ELSE softKey

SigningKey(a) == IF agent[a].hardware THEN TpmKey ELSE softKey

\* sign_nonce uses the store that ensure_enrolled reported.  The TPM may refuse;
\* the key file is read again.
Sign(a) ==
    /\ agent[a].pc = "challenged"
    /\ \/ agent' = [agent EXCEPT ![a].pc = "signed", ![a].signed = SigningKey(a)]
       \/ agent[a].hardware /\ agent' = [agent EXCEPT ![a].pc = "unsigned"]
    /\ UNCHANGED <<now, life, softKey, record, challenge, login, elsewhere, history>>

(***************************************************************************)
(* verify_and_consume, in the threads of handle_login.                     *)
(***************************************************************************)

\* A login that carries a's signature pops the device's challenge.
Consume(l, a) ==
    /\ login[l] = Idle
    /\ agent[a].pc = "signed"
    /\ challenge' = NoChallenge
    /\ login' = [login EXCEPT ![l] =
                   [pc |-> IF challenge = NoChallenge THEN "unattested" ELSE "popped",
                    of |-> a, popped |-> challenge, at |-> 0, seen |-> NoRecord]]
    /\ UNCHANGED <<now, life, softKey, record, agent, elsewhere, history>>

Expired(l) == login[l].at > login[l].popped.exp

\* The clock is read once, after the pop.
CheckExpiry(l) ==
    /\ login[l].pc = "popped"
    /\ login' = [login EXCEPT ![l] =
                   [login[l] EXCEPT !.at = now,
                        !.pc = IF now > login[l].popped.exp THEN "unattested" ELSE "timely"]]
    /\ UNCHANGED <<now, life, softKey, record, challenge, agent, elsewhere, history>>

\* Mutated: any signature of the key will do, whichever nonce it covers.
SignatureOfKey(l, seen) ==
    seen # NoRecord /\ seen.status = "approved" /\ agent[login[l].of].signed = seen.key

\* There is a record, it says approved, and its key has signed the nonce that was popped.
Verifies(l, seen) ==
    /\ seen # NoRecord /\ seen.status = "approved"
    /\ agent[login[l].of].signed = seen.key
    /\ login[l].of = login[l].popped.nonce

CheckSignature(l) ==
    /\ login[l].pc = "timely"
    /\ \E seen \in Reads :
           /\ misread' = IF seen = record THEN misread ELSE misread \cup {l}
           /\ login' = [login EXCEPT ![l] =
                          [login[l] EXCEPT !.seen = seen,
                               !.pc = IF Verifies(l, seen) THEN "attested" ELSE "unattested"]]
    /\ UNCHANGED <<now, life, softKey, record, challenge, agent, elsewhere, trusted>>

(***************************************************************************)
(* What others do with the device's challenge and record.                  *)
(***************************************************************************)

\* A /challenge that names the device, or a /login that does with any signature.
Intrude(s) ==
    /\ stranger[s] = "waiting" /\ Events < MaxEvents
    /\ stranger' = [stranger EXCEPT ![s] = challenge.nonce]
    /\ \/ record # NoRecord /\ challenge' = [nonce |-> s, exp |-> now + TTL]
       \/ challenge' = NoChallenge
    /\ UNCHANGED <<now, life, softKey, record, agent, login, other, history>>

\* An /enroll that names the device, with a key of its own.
EnrollElsewhere(s) ==
    /\ stranger[s] = "waiting" /\ Events < MaxEvents
    /\ \E k \in SoftKeys, old \in Reads :
           /\ NewKey(k)
           /\ record' = Enrolled(old, k)
           /\ stranger' = [stranger EXCEPT ![s] = k]
    /\ UNCHANGED <<now, life, softKey, challenge, agent, login, other, history>>

\* FileBackend.set for another device loads the file, or takes it for empty ...
OtherLoads(o) ==
    /\ other[o] = Idle /\ Events < MaxEvents
    /\ \E copy \in Reads : other' = [other EXCEPT ![o] = [pc |-> "loaded", copy |-> copy]]
    /\ UNCHANGED <<now, life, softKey, record, challenge, agent, login, stranger, history>>

\* ... and replaces it: this device's record is what it was then.
OtherSaves(o) ==
    /\ other[o].pc = "loaded"
    /\ record' = other[o].copy
    /\ other' = [other EXCEPT ![o] = IF other[o].copy = NoRecord THEN Dropped ELSE Kept]
    /\ UNCHANGED <<now, life, softKey, challenge, agent, login, stranger, history>>

(***************************************************************************)
(* The administrator, restarts and time.                                   *)
(***************************************************************************)

Approve ==
    /\ record # NoRecord /\ record.status # "approved"
    /\ record' = [record EXCEPT !.status = "approved"]
    /\ trusted' = trusted \cup {record.key}
    /\ UNCHANGED <<now, life, softKey, challenge, agent, login, elsewhere, misread>>

Revoke ==
    /\ record # NoRecord /\ record.status # "revoked"
    /\ record' = [record EXCEPT !.status = "revoked"]
    /\ UNCHANGED <<now, life, softKey, challenge, agent, login, elsewhere, history>>

\* The challenges are process memory; the logins in progress are cut off.
Restart ==
    /\ Events < MaxEvents
    /\ life' = life + 1
    /\ challenge' = NoChallenge
    /\ login' = [l \in Logins |-> IF login[l].pc \in {"popped", "timely"}
                                  THEN Failed ELSE login[l]]
    /\ UNCHANGED <<now, softKey, record, agent, elsewhere, history>>

Tick ==
    /\ Events < MaxEvents
    /\ now' = now + 1
    /\ UNCHANGED <<life, softKey, record, challenge, agent, login, elsewhere, history>>

(***************************************************************************)
(* The specification.                                                      *)
(***************************************************************************)

Run(a) ==
    \/ FindKey(a) \/ LoadKey(a) \/ Enroll(a) \/ EnrollFails(a)
    \/ AskChallenge(a) \/ ChallengeRefused(a) \/ Sign(a)
    \/ \E k \in SoftKeys : MakeKey(a, k)

Login(l) ==
    \/ \E a \in Agents : Consume(l, a)
    \/ CheckExpiry(l) \/ CheckSignature(l)

Next ==
    \/ \E a \in Agents : Run(a)
    \/ \E l \in Logins : Login(l)
    \/ \E s \in Strangers : Intrude(s) \/ EnrollElsewhere(s)
    \/ \E o \in Others : OtherLoads(o) \/ OtherSaves(o)
    \/ Approve \/ Revoke \/ Restart \/ Tick

Spec == Init /\ [][Next]_vars

(***************************************************************************)
(* Properties.                                                             *)
(***************************************************************************)

Attested == {l \in Logins : login[l].pc = "attested"}

\* A signature attests at most one login, also when it is sent again, when several
\* runs of the agent share the device and when the IdP restarts
\* (idp/device_registry.py: verify_and_consume pops the nonce, and checks this one).
Once == INSTANCE SingleUse WITH uses <- {<<l, login[l].of>> : l \in Attested}

ChallengeSingleUse == Once!Spec

\* An attested login was signed by a key that an administrator has approved,
\* though a run of the agent may enroll another key at any time, and the TPM and
\* the key file may take turns (idp/device_registry.py: a new key is pending again).
AttestedByApprovedKey == \A l \in Attested : agent[login[l].of].signed \in trusted

\* Another run that saw no key file has replaced the one that a has enrolled.
FileReplaced(a) ==
    agent[a].signed # agent[a].key /\ {agent[a].signed, agent[a].key} \subseteq SoftKeys

\* A signed login that is not attested has a cause: a later run's challenge replaced the
\* one it signed, another login used it up, a request from elsewhere took it, the IdP was
\* restarted, it ran out; the login could not read the registry, a writer for another
\* device had dropped the record, or the record was not (any more) approved; another run
\* or a request from elsewhere has enrolled another key, or a run that saw no key file has
\* replaced it (agent/device_attestation.py: "signing uses the SAME key material that was
\* actually enrolled").
UnattestedHasCause ==
    \A l \in Logins : login[l].pc = "unattested" =>
        LET a == login[l].of IN
        \/ \E b \in Running : agent[b].turn > agent[a].turn
        \/ \E m \in Logins \ {l} :
               login[m] \notin {Idle, Failed} /\ login[m].popped.nonce = a
        \/ \E s \in Strangers : stranger[s] = a
        \/ life > 1
        \/ login[l].popped # NoChallenge /\ Expired(l)
        \/ l \in misread
        \/ \E o \in Others : other[o] = Dropped
        \/ login[l].seen # NoRecord /\ login[l].seen.status # "approved"
        \/ /\ login[l].seen # NoRecord /\ login[l].seen.key # agent[a].key
           /\ login[l].seen.key \in {agent[b].key : b \in Running}
                                  \cup {stranger[s] : s \in Strangers}
        \/ FileReplaced(a)
=============================================================================
