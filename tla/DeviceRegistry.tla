--------------------------- MODULE DeviceRegistry ---------------------------
(***************************************************************************)
(* The device registry (idp/device_registry.py): devices enroll at the     *)
(* IdP, and an administrator approves or revokes them with                 *)
(* tools/manage_devices.py, which is another process.  The registry is one *)
(* JSON file (common/storage.py, FileBackend).                             *)
(*                                                                         *)
(* Every change reads the device's record, loads the whole file, and       *)
(* replaces the file.  device_registry._lock holds within the IdP only:    *)
(* the steps of different processes interleave freely.  Any of these reads *)
(* can find the file unreadable, and then takes it for empty.              *)
(***************************************************************************)
EXTENDS Integers, FiniteSets

CONSTANTS
    Enrollments,      \* requests to the IdP's /enroll
    Commands,         \* runs of tools/manage_devices.py
    Devices, Keys,
    ApprovalRequired, \* REQUIRE_DEVICE_APPROVAL
    MaxMisreads       \* bound on the size of misread

ASSUME RegistryAssumption ==
    /\ ApprovalRequired \in BOOLEAN
    /\ MaxMisreads \in Nat
    /\ Enrollments \cap Commands = {}

VARIABLES
    registry,   \* the file: each device's record
    writer,     \* how far each enrollment and each command has come
    trusted,    \* history: the keys that approve_device has approved
    misread     \* history: the writers that took the file they replace for empty

vars == <<registry, writer, trusted, misread>>

Writers  == Enrollments \cup Commands
Statuses == {"pending", "approved", "revoked"}
NoRecord == [status |-> "absent"]
Record   == [status : Statuses, key : Keys]
Registry == [Devices -> Record \cup {NoRecord}]
Empty    == [d \in Devices |-> NoRecord]

Idle   == [pc |-> "idle"]
Failed == [pc |-> "failed"]
\* key: what an enrollment brings, or what a command showed the administrator;
\* record and file: what the writer has read so far;
\* before, over: history, the writers that were done when it read and when it saved.
WriterState ==
    [pc : {"shown", "read", "loaded", "done"},
     kind : {"enroll", "approve", "revoke"},
     device : Devices, key : Keys,
     record : Record \cup {NoRecord}, file : Registry \cup {NoRecord},
     before : SUBSET Writers, over : SUBSET Writers]

TypeOK ==
    /\ registry \in Registry
    /\ writer \in [Writers -> WriterState \cup {Idle, Failed}]
    /\ \A w \in Writers :
           /\ writer[w].pc = "loaded" => writer[w].file \in Registry
           /\ writer[w].pc \in {"read", "loaded"} /\ writer[w].kind # "enroll"
                  => writer[w].record \in Record
    /\ trusted \subseteq Devices \X Keys
    /\ misread \subseteq Writers

Approved(reg) == {<<d, reg[d].key>> : d \in {e \in Devices : reg[e].status = "approved"}}

Init ==
    /\ registry \in Registry
    /\ writer = [w \in Writers |-> Idle]
    /\ trusted = Approved(registry)
    /\ misread = {}

Done == {w \in Writers : writer[w].pc = "done"}

Begun(kind, pc, d, k) ==
    [kind |-> kind, pc |-> pc, device |-> d, key |-> k, record |-> NoRecord,
     file |-> NoRecord, before |-> {}, over |-> {}]

\* What store.get returns of d: FileBackend._load has nothing of a file it cannot read.
Reads(d) == {registry[d], NoRecord}

(***************************************************************************)
(* How a change begins.                                                    *)
(***************************************************************************)

Holding(e) == writer[e].pc \in {"read", "loaded"}

\* register_device takes the IdP's lock and reads the device's record.
Enroll(e, d, k) ==
    /\ writer[e] = Idle
    /\ ~\E o \in Enrollments : Holding(o)
    /\ \E found \in Reads(d) :
           writer' = [writer EXCEPT ![e] =
                        [Begun("enroll", "read", d, k) EXCEPT !.record = found,
                                                              !.before = Done]]
    /\ UNCHANGED <<registry, trusted, misread>>

\* cmd_approve looks the device up and shows its thumbprint; cmd_revoke looks it up.
\* A device that it does not find, or finds approved already, ends the command.
Show(c, kind, d) ==
    /\ writer[c] = Idle
    /\ registry[d] # NoRecord
    /\ kind = "approve" => registry[d].status # "approved"
    /\ writer' = [writer EXCEPT ![c] = Begun(kind, "shown", d, registry[d].key)]
    /\ UNCHANGED <<registry, trusted, misread>>

\* The administrator does not confirm the thumbprint.
Abort(c) ==
    /\ writer[c].pc = "shown" /\ writer[c].kind = "approve"
    /\ writer' = [writer EXCEPT ![c] = Failed]
    /\ UNCHANGED <<registry, trusted, misread>>

\* Confirmed, or a revocation: approve_device and revoke_device read the record
\* again, and give up when they do not find it.
Reread(c) ==
    /\ writer[c].pc = "shown"
    /\ \E found \in Reads(writer[c].device) :
           writer' = [writer EXCEPT ![c] =
                        IF found = NoRecord THEN Failed
                        ELSE [@ EXCEPT !.pc = "read", !.record = found, !.before = Done]]
    /\ UNCHANGED <<registry, trusted, misread>>

(***************************************************************************)
(* FileBackend.set: load the namespace, replace it.                        *)
(***************************************************************************)

Load(w) ==
    /\ writer[w].pc = "read"
    /\ \E file \in {registry, Empty} :
           /\ writer' = [writer EXCEPT ![w] = [@ EXCEPT !.pc = "loaded", !.file = file]]
           /\ \/ file = registry /\ UNCHANGED misread
              \/ /\ file # registry /\ Cardinality(misread) < MaxMisreads
                 /\ misread' = misread \cup {w}
    /\ UNCHANGED <<registry, trusted>>

\* Mutated: a device that changes its key keeps its status.
FirstStatusKept(old) == IF old = NoRecord THEN "pending" ELSE old.status

\* Mutated: a status that no reader of the registry knows.
FirstStatusUnknown(old) == "enrolled"

\* The status of a device that is new, or brings another key than the old record's.
FirstStatus(old) == IF ApprovalRequired THEN "pending" ELSE "approved"

\* Mutated: a device that comes back with its key is approved again.
EnrolledReapproves(old, k) ==
    [status |-> IF old # NoRecord /\ old.key = k THEN "approved" ELSE FirstStatus(old),
     key |-> k]

Enrolled(old, k) ==
    IF old # NoRecord /\ old.key = k THEN old ELSE [status |-> FirstStatus(old), key |-> k]

Decided(old, kind) ==
    [old EXCEPT !.status = IF kind = "approve" THEN "approved" ELSE "revoked"]

NewRecord(w) ==
    IF writer[w].kind = "enroll" THEN Enrolled(writer[w].record, writer[w].key)
    ELSE Decided(writer[w].record, writer[w].kind)

\* Mutated: the namespace is replaced by the one record.
ReplacedFile(w) ==
    [d \in Devices |-> IF d = writer[w].device THEN NewRecord(w) ELSE NoRecord]

NewFile(w) == [writer[w].file EXCEPT ![writer[w].device] = NewRecord(w)]

Save(w) ==
    /\ writer[w].pc = "loaded"
    /\ registry' = NewFile(w)
    /\ trusted' = IF writer[w].kind = "approve"
                  THEN trusted \cup {<<writer[w].device, writer[w].record.key>>}
                  ELSE trusted
    /\ writer' = [writer EXCEPT ![w] =
                    [@ EXCEPT !.pc = "done", !.record = NoRecord, !.file = NoRecord,
                              !.over = Done]]
    /\ UNCHANGED misread

\* atomic_write_json gives up: the request or the command fails.
SaveFails(w) ==
    /\ writer[w].pc = "loaded"
    /\ writer' = [writer EXCEPT ![w] = Failed]
    /\ UNCHANGED <<registry, trusted, misread>>

(***************************************************************************)
(* The specification.                                                      *)
(***************************************************************************)

Next ==
    \/ \E e \in Enrollments, d \in Devices, k \in Keys : Enroll(e, d, k)
    \/ \E c \in Commands, d \in Devices, kind \in {"approve", "revoke"} : Show(c, kind, d)
    \/ \E c \in Commands : Abort(c) \/ Reread(c)
    \/ \E w \in Writers : Load(w) \/ Save(w) \/ SaveFails(w)

Spec == Init /\ [][Next]_vars

(***************************************************************************)
(* Properties.                                                             *)
(***************************************************************************)

\* An approval belongs to a key: however enrollments and commands interleave, a
\* device is approved only with a key that approve_device read and approved
\* (idp/device_registry.py: otherwise "device rotation would be a free bypass").
ApprovalBelongsToKey ==
    ApprovalRequired => Approved(registry) \subseteq trusted

\* w read the registry before c was done and replaced it afterwards.
Overwrites(w, c) == w \in Done /\ c \in writer[w].over \ writer[w].before

Follows(w, c) == w \in Done /\ c \in writer[w].before

Revokes(c, d) == c \in Done /\ writer[c].kind = "revoke" /\ writer[c].device = d

ApprovedAfter(c, d) ==
    \E w \in Done : Follows(w, c) /\ writer[w].kind = "approve" /\ writer[w].device = d

\* A revocation that was written stays in force until a later approval of the
\* device; the one thing that can undo it is a writer that was under way when it
\* was written.
RevocationStands ==
    ApprovalRequired =>
        \A d \in Devices, c \in Done :
            Revokes(c, d) /\ registry[d].status = "approved"
            => ApprovedAfter(c, d) \/ \E w \in Done : Overwrites(w, c)

\* An enrollment that was acknowledged is in the registry, with its key, until the
\* device enrolls another one, unless a writer under way at the time replaced it, or a
\* writer for another device took the file it replaces for empty (common/storage.py,
\* _load: a "security-relevant degradation").
EnrollmentStands ==
    \A e \in Done :
        LET d == writer[e].device
            k == writer[e].key
        IN  writer[e].kind = "enroll" =>
            \/ registry[d] # NoRecord /\ registry[d].key = k
            \/ \E w \in Done : Overwrites(w, e)
            \/ \E w \in Done : Follows(w, e) /\ writer[w].kind = "enroll"
                               /\ writer[w].device = d /\ writer[w].key # k
            \/ \E w \in misread : Follows(w, e) /\ writer[w].device # d
=============================================================================
