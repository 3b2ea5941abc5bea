------------------------------ MODULE Sessions ------------------------------
(***************************************************************************)
(* The life of a session: a login that has passed its credential checks    *)
(* (idp/idp_server.py), the token it is issued (common/jwt_utils.py and    *)
(* common/token_store.py), the requests that carry the token               *)
(* (gateway/gateway_server.py) and the administrator's commands that end   *)
(* it (tools/revoke_token.py, tools/manage_devices.py and                  *)
(* common/revocation.py).                                                  *)
(*                                                                         *)
(* The IdP, the Gateway and each command are separate processes that share *)
(* three files: the device registry, the issued-token store and the        *)
(* revocation list.  Each read or write of one of them is a step.  Of the  *)
(* registry only the approvals matter here: DeviceRegistry has the rest of *)
(* it, and TokenBinding the rest of the proof.                             *)
(***************************************************************************)
EXTENDS Integers, FiniteSets

CONSTANTS
    Logins,     \* login requests; a login's name is also its token's jti
    Accesses,   \* requests at the Gateway
    Commands,   \* runs of the administrator's tools
    Users, Devices,
    TTL,        \* TOKEN_TTL_SECONDS
    MaxTime,    \* bound on the clock
    MaxMisreads \* bound on the size of misread

ASSUME SessionsAssumption == TTL \in Nat /\ MaxTime \in Nat /\ MaxMisreads \in Nat

VARIABLES
    now,        \* one clock: all processes run on one host
    approved,   \* the registry: the devices it has as approved
    login,      \* how far each handle_login has come
    issued,     \* issued_tokens.json: the jtis on record
    revoked,    \* revoked_tokens.json: the jtis revoked
    command,    \* how far each command has come
    access,     \* how far each handle_access has come
    raced,      \* history: the commands that saved an entry while another command
                \* was between its load of the list and its save
    overtaken,  \* history: the logins whose device lost its approval between their
                \* two reads of the registry
    misread     \* history: who went on with which file although it could not be read

history == <<raced, overtaken, misread>>
vars == <<now, approved, login, issued, revoked, command, access, history>>

Files == {"devices", "issued", "revoked"}

None == "none"
LoginState == [pc : {"attested", "bound", "minted", "issued"},
               user : Users, device : Devices,
               attested : BOOLEAN, bound : BOOLEAN, exp : Int]
\* found: what the command read in the store; todo: what is left to revoke;
\* jti and file: the entry being added and the list it was loaded from.
CommandState == [pc : {"sweep", "revoke", "save", "done", "failed"},
                 target : Users \cup Devices \cup Logins \cup {None},
                 found : SUBSET Logins, todo : SUBSET Logins,
                 jti : Logins \cup {None}, file : SUBSET Logins]
\* after: the commands that had finished when the request arrived.
AccessState == [pc : {"verified", "unrevoked", "granted"},
                jti : Logins, after : SUBSET Commands]
Idle == [pc |-> "idle"]
Refused == [pc |-> "refused"]
Failed == [pc |-> "failed"]

TypeOK ==
    /\ now \in Nat
    /\ approved \subseteq Devices
    /\ login \in [Logins -> LoginState \cup {Idle, Failed}]
    /\ issued \subseteq Logins
    /\ revoked \subseteq Logins
    /\ command \in [Commands -> CommandState \cup {Idle}]
    /\ \A c \in Commands : command[c].pc = "save" => command[c].jti \in Logins
    /\ access \in [Accesses -> AccessState \cup {Idle, Refused}]
    /\ raced \subseteq Commands
    /\ overtaken \subseteq Logins
    /\ misread \subseteq (Logins \cup Accesses \cup Commands) \X Files

Init ==
    /\ now = 0
    /\ approved \in SUBSET Devices
    /\ login = [l \in Logins |-> Idle]
    /\ issued = {} /\ revoked = {}
    /\ command = [c \in Commands |-> Idle]
    /\ access = [x \in Accesses |-> Idle]
    /\ raced = {} /\ overtaken = {} /\ misread = {}

(***************************************************************************)
(* Each _load returns nothing when it cannot read its file.                *)
(***************************************************************************)

Loads(content) == {content, {}}

\* a goes on with what it has loaded of the file.
Trusts(a, file, content, loaded) ==
    \/ loaded = content /\ UNCHANGED misread
    \/ /\ loaded # content /\ Cardinality(misread) < MaxMisreads
       /\ misread' = misread \cup {<<a, file>>}

(***************************************************************************)
(* handle_login, once password, code and posture are accepted.             *)
(***************************************************************************)

\* Mutated: attestation does not ask whether the device is approved.
AttestsUnapproved(d, signed) == signed

\* signed: the body carries a valid signature over an outstanding challenge.  To find
\* the registry unreadable has the effect of a signature that is not.
Attests(d, signed) == signed /\ d \in approved

\* verify_and_consume reads the registry ...
Attest(l, u, d, signed) ==
    /\ login[l] = Idle
    /\ login' = [login EXCEPT ![l] =
                   [pc |-> "attested", user |-> u, device |-> d,
                    attested |-> Attests(d, signed), bound |-> FALSE, exp |-> 0]]
    /\ UNCHANGED <<now, approved, issued, revoked, command, access, history>>

\* ... and the choice of the cnf claim reads it again.
Bind(l) ==
    /\ login[l].pc = "attested"
    /\ \E devices \in Loads(approved) :
           /\ Trusts(l, "devices", approved, devices)
           /\ login' = [login EXCEPT ![l] =
                          [@ EXCEPT !.pc = "bound", !.bound = login[l].device \in devices]]
    /\ UNCHANGED <<now, approved, issued, revoked, command, access, raced, overtaken>>

\* issue_token signs the claims: the token exists, but nobody has it.
Mint(l) ==
    /\ login[l].pc = "bound"
    /\ login' = [login EXCEPT ![l] = [@ EXCEPT !.pc = "minted", !.exp = now + TTL]]
    /\ UNCHANGED <<now, approved, issued, revoked, command, access, history>>

\* Mutated: a record is dropped in the second before its token expires.
UnexpiredTooStrict(l) == login[l].exp > now + 1

\* What record_issued keeps, and load_all and active_jtis_for_user return.
Unexpired(l) == login[l].exp > now

\* record_issued prunes and appends under the IdP's lock; then the token is sent.
Record(l) ==
    /\ login[l].pc = "minted"
    /\ \E records \in Loads(issued) :
           /\ Trusts(l, "issued", issued, records)
           /\ issued' = {m \in records : Unexpired(m)} \cup {l}
    /\ login' = [login EXCEPT ![l].pc = "issued"]
    /\ UNCHANGED <<now, approved, revoked, command, access, raced, overtaken>>

\* Signing fails, or atomic_write_json gives up: the request ends in a 500 and the
\* token, if there is one, is neither recorded nor sent.
IssueFails(l) ==
    /\ login[l].pc \in {"bound", "minted"}
    /\ login' = [login EXCEPT ![l] = Failed]
    /\ UNCHANGED <<now, approved, issued, revoked, command, access, history>>

(***************************************************************************)
(* handle_access up to the policy decision.                                *)
(***************************************************************************)

Done == {c \in Commands : command[c].pc = "done"}

\* verify_token: PyJWT accepts a token until exp, that instant included.
Receive(x, l) ==
    /\ access[x] = Idle
    /\ login[l].pc = "issued" /\ now <= login[l].exp
    /\ access' = [access EXCEPT ![x] = [pc |-> "verified", jti |-> l, after |-> Done]]
    /\ UNCHANGED <<now, approved, login, issued, revoked, command, history>>

CheckRevoked(x) ==
    /\ access[x].pc = "verified"
    /\ \E list \in Loads(revoked) :
           /\ Trusts(x, "revoked", revoked, list)
           /\ access' = [access EXCEPT ![x] =
                           IF access[x].jti \in list THEN Refused
                           ELSE IF login[access[x].jti].bound
                                THEN [@ EXCEPT !.pc = "unrevoked"]
                           ELSE [@ EXCEPT !.pc = "granted"]]
    /\ UNCHANGED <<now, approved, login, issued, revoked, command, raced, overtaken>>

\* verify_proof needs the device's approval and, which TokenBinding has, the key the
\* token is bound to: a proof it refuses for its key looks like an unread registry.
CheckProof(x) ==
    /\ access[x].pc = "unrevoked"
    /\ \E devices \in Loads(approved) :
           access' = [access EXCEPT ![x] =
                        IF login[access[x].jti].device \in devices
                        THEN [@ EXCEPT !.pc = "granted"] ELSE Refused]
    /\ UNCHANGED <<now, approved, login, issued, revoked, command, history>>

(***************************************************************************)
(* The approvals, as every writer of the registry changes them.            *)
(***************************************************************************)

\* d is no longer approved: an attested login that has yet to bind is overtaken.
TakesApproval(d) ==
    /\ approved' = approved \ {d}
    /\ overtaken' = overtaken \cup
           {l \in Logins : /\ login[l].pc = "attested" /\ login[l].attested
                          /\ login[l].device = d}

\* manage_devices --approve
Approve(d) ==
    /\ approved' = approved \cup {d}
    /\ UNCHANGED <<now, login, issued, revoked, command, access, history>>

\* handle_enroll with another key: register_device makes an approved device pending.
Enroll(d) ==
    /\ d \in approved
    /\ TakesApproval(d)
    /\ UNCHANGED <<now, login, issued, revoked, command, access, raced, misread>>

\* What a writer for another device leaves of d's record when it misread the registry
\* or read it before d's last change, as DeviceRegistry has it: the approval is lost,
\* or one that d had lost is back.
Overwrite(d) ==
    /\ \/ d \in approved /\ TakesApproval(d)
       \/ d \notin approved /\ approved' = approved \cup {d} /\ UNCHANGED overtaken
    /\ UNCHANGED <<now, login, issued, revoked, command, access, raced, misread>>

(***************************************************************************)
(* The administrator's commands.                                           *)
(***************************************************************************)

Begun(pc, target, found) ==
    [pc |-> pc, target |-> target, found |-> found, todo |-> found,
     jti |-> None, file |-> {}]

\* manage_devices --revoke: first the registry ...
RevokeDevice(c, d) ==
    /\ command[c] = Idle
    /\ TakesApproval(d)
    /\ command' = [command EXCEPT ![c] = Begun("sweep", d, {})]
    /\ UNCHANGED <<now, login, issued, revoked, access, raced, misread>>

\* ... then load_all: the device's tokens on record, as of this instant.
Sweep(c) ==
    /\ command[c].pc = "sweep"
    /\ \E records \in Loads(issued) :
           LET found == {l \in records : Unexpired(l) /\ login[l].device = command[c].target}
           IN  command' = [command EXCEPT ![c] =
                             [@ EXCEPT !.pc = "revoke", !.found = found, !.todo = found]]
    /\ UNCHANGED <<now, approved, login, issued, revoked, access, history>>

\* revoke_token --user: active_jtis_for_user.
RevokeUser(c, u) ==
    /\ command[c] = Idle
    /\ \E records \in Loads(issued) :
           LET found == {l \in records : Unexpired(l) /\ login[l].user = u}
           IN  command' = [command EXCEPT ![c] = Begun("revoke", u, found)]
    /\ UNCHANGED <<now, approved, login, issued, revoked, access, history>>

\* revoke_token --jti, for a token somebody has seen.
RevokeToken(c, l) ==
    /\ command[c] = Idle /\ login[l].pc = "issued"
    /\ command' = [command EXCEPT ![c] = Begun("revoke", l, {l})]
    /\ UNCHANGED <<now, approved, login, issued, revoked, access, history>>

\* revocation.revoke, once for each token: load the list ...
LoadList(c, l) ==
    /\ command[c].pc = "revoke" /\ l \in command[c].todo
    /\ \E list \in Loads(revoked) :
           /\ Trusts(c, "revoked", revoked, list)
           /\ command' = [command EXCEPT ![c] =
                            [@ EXCEPT !.pc = "save", !.jti = l, !.file = list]]
    /\ UNCHANGED <<now, approved, login, issued, revoked, access, raced, overtaken>>

\* Mutated: the command's argument is written instead of the jti it stands for.
NewListOfTarget(c) == command[c].file \cup {command[c].target}

\* Mutated: the list is replaced by the new entry.
NewListForgetful(c) == {command[c].jti}

NewList(c) == command[c].file \cup {command[c].jti}

\* Another command has loaded the list and will replace it.
Races(c) == \E b \in Commands \ {c} : command[b].pc = "save"

\* ... and replace it by the list with the entry added.
SaveList(c) ==
    /\ command[c].pc = "save"
    /\ revoked' = NewList(c)
    /\ raced' = IF Races(c) THEN raced \cup {c} ELSE raced
    /\ command' = [command EXCEPT ![c] =
                     [@ EXCEPT !.pc = "revoke", !.jti = None, !.file = {},
                               !.todo = command[c].todo \ {command[c].jti}]]
    /\ UNCHANGED <<now, approved, login, issued, access, overtaken, misread>>

\* atomic_write_json gives up: the command reports it and stops half-way.
SaveFails(c) ==
    /\ command[c].pc = "save"
    /\ command' = [command EXCEPT ![c] = Begun("failed", None, {})]
    /\ UNCHANGED <<now, approved, login, issued, revoked, access, history>>

Finish(c) ==
    /\ command[c].pc = "revoke" /\ command[c].todo = {}
    /\ command' = [command EXCEPT ![c] = [@ EXCEPT !.pc = "done", !.target = None]]
    /\ UNCHANGED <<now, approved, login, issued, revoked, access, history>>

Tick ==
    /\ now < MaxTime
    /\ now' = now + 1
    /\ UNCHANGED <<approved, login, issued, revoked, command, access, history>>

(***************************************************************************)
(* The specification.                                                      *)
(***************************************************************************)

Login(l) ==
    \/ \E u \in Users, d \in Devices, signed \in BOOLEAN : Attest(l, u, d, signed)
    \/ Bind(l) \/ Mint(l) \/ Record(l) \/ IssueFails(l)

Access(x) ==
    \/ \E l \in Logins : Receive(x, l)
    \/ CheckRevoked(x) \/ CheckProof(x)

Command(c) ==
    \/ \E d \in Devices : RevokeDevice(c, d)
    \/ \E u \in Users : RevokeUser(c, u)
    \/ \E l \in Logins : RevokeToken(c, l) \/ LoadList(c, l)
    \/ Sweep(c) \/ SaveList(c) \/ SaveFails(c) \/ Finish(c)

Next ==
    \/ \E l \in Logins : Login(l)
    \/ \E x \in Accesses : Access(x)
    \/ \E c \in Commands : Command(c)
    \/ \E d \in Devices : Approve(d) \/ Enroll(d) \/ Overwrite(d)
    \/ Tick

Spec == Init /\ [][Next]_vars

(***************************************************************************)
(* Properties.                                                             *)
(***************************************************************************)

Granted(x) == access[x].pc = "granted"

\* Once a command has finished, no request that arrives later is granted with a
\* token the command found, whatever else runs (tools/revoke_token.py: "a revoked
\* session is cut off on its very next call"), but for three causes: the command saved
\* an entry while another one was about to overwrite it, some command extended a list
\* it could not read, or the request was checked against such a list.
FoundTokensStayCutOff ==
    \A x \in Accesses : Granted(x) =>
        \A c \in access[x].after :
            access[x].jti \in command[c].found =>
                c \in raced \/ \E a \in {x} \cup Commands : <<a, "revoked">> \in misread

\* A token that a client holds and that has not expired is on record, so that a
\* command reading the store now would find it: it is recorded before it is sent,
\* and pruning other tokens never drops it (common/token_store.py).  Only a login
\* that could not read the store, and began a new one, takes others off it.
LiveTokensAreRecorded ==
    \A l \in Logins :
        login[l].pc = "issued" /\ now < login[l].exp =>
            l \in issued \/ \E m \in Logins : <<m, "issued">> \in misread

\* An attested token is bound to its device's key, and so good for nothing without a
\* proof (common/token_binding.py, "Honest scope"), but for two causes: the device lost
\* its approval between the two registry reads of the login (idp_server.py:148, 161),
\* to a revocation, to an enrollment with another key or to a writer that overwrote its
\* record; or the second read failed.
AttestedUnboundHasCause ==
    \A l \in Logins :
        /\ login[l].pc \in {"bound", "minted", "issued"}
        /\ login[l].attested /\ ~login[l].bound
        => l \in overtaken \/ <<l, "devices">> \in misread
=============================================================================
