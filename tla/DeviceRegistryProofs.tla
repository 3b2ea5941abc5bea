------------------------ MODULE DeviceRegistryProofs ------------------------
(***************************************************************************)
(* Theorems about DeviceRegistry, for any number of enrollments, commands, *)
(* devices and keys, and every interleaving of the processes.              *)
(***************************************************************************)
EXTENDS DeviceRegistry, TLAPS

\* A writer that has started has a well-formed state, and what it has read is there.
LEMMA Started ==
    ASSUME TypeOK
    PROVE  \A w \in Writers :
               /\ writer[w].pc \notin {"idle", "failed"} => writer[w] \in WriterState
               /\ writer[w].pc = "loaded" => writer[w].file \in Registry
               /\ writer[w].pc \in {"read", "loaded"} /\ writer[w].kind # "enroll"
                      => writer[w].record \in Record
BY DEF TypeOK, Idle, Failed

\* What a writer puts in the place of the old record is a record.
LEMMA NewRecordType ==
    ASSUME TypeOK, NEW w \in Writers, writer[w].pc = "loaded"
    PROVE  NewRecord(w) \in Record
<1>1. writer[w] \in WriterState
  BY Started
<1>2. CASE writer[w].kind = "enroll"
  BY <1>1, <1>2 DEF NewRecord, Enrolled, FirstStatus, WriterState, Record, NoRecord, Statuses
<1>3. CASE writer[w].kind # "enroll"
  <2>1. writer[w].record \in Record
    BY <1>3, Started
  <2> QED BY <1>3, <2>1 DEF NewRecord, Decided, Record, Statuses
<1> QED BY <1>2, <1>3

LEMMA DoneType == Done \subseteq Writers
BY DEF Done

\* The steps that begin a change.
LEMMA BeginTypes ==
    ASSUME TypeOK,
           \/ \E e \in Enrollments, d \in Devices, k \in Keys : Enroll(e, d, k)
           \/ \E c \in Commands, d \in Devices, kind \in {"approve", "revoke"} :
                  Show(c, kind, d)
           \/ \E c \in Commands : Abort(c) \/ Reread(c)
    PROVE  TypeOK'
<1> USE DEF TypeOK, Writers
<1>1. ASSUME NEW e \in Enrollments, NEW d \in Devices, NEW k \in Keys, Enroll(e, d, k)
      PROVE  TypeOK'
  <2>0. PICK found \in Reads(d) :
            writer' = [writer EXCEPT ![e] =
                         [Begun("enroll", "read", d, k) EXCEPT !.record = found,
                                                               !.before = Done]]
    BY <1>1 DEF Enroll
  <2> DEFINE new == [Begun("enroll", "read", d, k) EXCEPT !.record = found,
                                                          !.before = Done]
  <2>1. new \in WriterState /\ new.pc = "read" /\ new.kind = "enroll"
    BY DoneType DEF Begun, WriterState, Registry, Reads
  <2>2. writer' = [writer EXCEPT ![e] = new] /\ UNCHANGED <<registry, trusted, misread>>
    BY <1>1, <2>0 DEF Enroll
  <2> HIDE DEF new
  <2> QED BY <2>1, <2>2
<1>2. ASSUME NEW c \in Commands, NEW d \in Devices, NEW kind \in {"approve", "revoke"},
             Show(c, kind, d)
      PROVE  TypeOK'
  <2> DEFINE new == Begun(kind, "shown", d, registry[d].key)
  <2>1. registry[d].key \in Keys
    BY <1>2 DEF Show, Registry, Record
  <2>2. new \in WriterState /\ new.pc = "shown"
    BY <2>1 DEF Begun, WriterState
  <2>3. writer' = [writer EXCEPT ![c] = new] /\ UNCHANGED <<registry, trusted, misread>>
    BY <1>2 DEF Show
  <2> HIDE DEF new
  <2> QED BY <2>2, <2>3
<1>3. ASSUME NEW c \in Commands, Abort(c) PROVE TypeOK'
  BY <1>3 DEF Abort, Failed
<1>4. ASSUME NEW c \in Commands, Reread(c) PROVE TypeOK'
  <2>0. PICK found \in Reads(writer[c].device) :
            writer' = [writer EXCEPT ![c] =
                         IF found = NoRecord THEN Failed
                         ELSE [@ EXCEPT !.pc = "read", !.record = found, !.before = Done]]
    BY <1>4 DEF Reread
  <2> DEFINE new == [writer[c] EXCEPT !.pc = "read", !.record = found, !.before = Done]
  <2>1. writer[c] \in WriterState
    BY <1>4, Started DEF Reread
  <2>2. found \in Record \cup {NoRecord}
    BY <2>1 DEF WriterState, Registry, Reads
  <2>3. found # NoRecord => new \in WriterState /\ new.pc = "read" /\ new.record \in Record
    BY <2>1, <2>2, DoneType DEF WriterState
  <2>4. /\ writer' = [writer EXCEPT ![c] = IF found = NoRecord THEN Failed ELSE new]
        /\ UNCHANGED <<registry, trusted, misread>>
    BY <1>4, <2>0 DEF Reread
  <2> HIDE DEF new
  <2> QED BY <2>3, <2>4 DEF Failed
<1> QED BY <1>1, <1>2, <1>3, <1>4

\* The steps of FileBackend.set.
LEMMA SetTypes ==
    ASSUME TypeOK, NEW w \in Writers, Load(w) \/ Save(w) \/ SaveFails(w)
    PROVE  TypeOK'
<1> USE DEF TypeOK
<1>1. writer[w] \in WriterState
  BY Started DEF Load, Save, SaveFails
<1>2. CASE Load(w)
  <2>0. PICK file \in {registry, Empty} :
            writer' = [writer EXCEPT ![w] = [@ EXCEPT !.pc = "loaded", !.file = file]]
    BY <1>2 DEF Load
  <2> DEFINE new == [writer[w] EXCEPT !.pc = "loaded", !.file = file]
  <2>f. file \in Registry
    BY DEF Registry, Empty
  <2>1. /\ new \in WriterState /\ new.pc = "loaded" /\ new.file \in Registry
        /\ new.kind # "enroll" => new.record \in Record
    BY <1>1, <1>2, <2>f, Started DEF Load, WriterState
  <2>2. writer' = [writer EXCEPT ![w] = new] /\ UNCHANGED <<registry, trusted>>
    BY <1>2, <2>0 DEF Load
  <2>3. misread' \subseteq Writers
    BY <1>2 DEF Load
  <2> HIDE DEF new
  <2> QED BY <2>1, <2>2, <2>3
<1>3. CASE Save(w)
  <2> DEFINE new == [writer[w] EXCEPT !.pc = "done", !.record = NoRecord, !.file = NoRecord,
                                      !.over = Done]
  <2>1. new \in WriterState /\ new.pc = "done"
    BY <1>1, DoneType DEF WriterState
  <2>2. writer' = [writer EXCEPT ![w] = new] /\ UNCHANGED misread
    BY <1>3 DEF Save
  <2>3. registry' \in Registry
    BY <1>1, <1>3, NewRecordType, Started DEF Save, NewFile, Registry, WriterState
  <2>4. trusted' \subseteq Devices \X Keys
    <3>1. writer[w].kind = "approve" => writer[w].record.key \in Keys
      BY <1>3, Started DEF Save, Record
    <3> QED BY <1>1, <1>3, <3>1 DEF Save, WriterState
  <2> HIDE DEF new
  <2> QED BY <2>1, <2>2, <2>3, <2>4
<1>4. CASE SaveFails(w)
  BY <1>4 DEF SaveFails, Failed
<1> QED BY <1>2, <1>3, <1>4

\* Type correctness.
THEOREM TypeCorrect == Spec => []TypeOK
<1>1. Init => TypeOK
  BY DEF Init, TypeOK, Idle, Approved, Registry, Record, NoRecord
<1>2. TypeOK /\ [Next]_vars => TypeOK'
  BY BeginTypes, SetTypes DEF Next, vars, TypeOK
<1> QED BY <1>1, <1>2, PTL DEF Spec

(***************************************************************************)
(* An approval belongs to a key.                                           *)
(***************************************************************************)

\* Every copy of an approved record that a writer holds is as good as the file's.
TrustedRecord(w) ==
    writer[w].pc \in {"read", "loaded"} /\ writer[w].record.status = "approved"
    => <<writer[w].device, writer[w].record.key>> \in trusted

TrustedFile(w) == writer[w].pc = "loaded" => Approved(writer[w].file) \subseteq trusted

TrustInv ==
    /\ Approved(registry) \subseteq trusted
    /\ \A w \in Writers : TrustedRecord(w) /\ TrustedFile(w)

\* A step of one writer that leaves the file alone.
LEMMA ReaderTrust ==
    ASSUME TrustInv, NEW w \in Writers, UNCHANGED <<registry, trusted>>,
           \A v \in Writers : v # w => writer'[v] = writer[v],
           TrustedRecord(w)', TrustedFile(w)'
    PROVE  TrustInv'
BY DEF TrustInv, TrustedRecord, TrustedFile, Approved

\* A writer that takes its record from the file.
LEMMA ReadTrust ==
    ASSUME TypeOK, TrustInv, NEW w \in Writers, UNCHANGED <<registry, trusted>>,
           \A v \in Writers : v # w => writer'[v] = writer[v],
           writer'[w].pc \in {"read", "failed"},
           writer'[w].pc = "read" => /\ writer'[w].device \in Devices
                                     /\ writer'[w].record \in Reads(writer'[w].device)
    PROVE  TrustInv'
<1>1. TrustedRecord(w)'
  BY DEF TrustInv, Approved, TrustedRecord, Reads, NoRecord
<1> QED BY <1>1, ReaderTrust DEF TrustedFile

LEMMA SaveTrust ==
    ASSUME ApprovalRequired, TypeOK, TrustInv, NEW w \in Writers, Save(w)
    PROVE  TrustInv'
<1> DEFINE d == writer[w].device
<1>1. /\ writer[w] \in WriterState /\ writer[w].file \in Registry
      /\ writer[w].pc = "loaded" /\ writer'[w].pc = "done"
  BY Started DEF Save, TypeOK
<1>2. \A v \in Writers : v # w => writer'[v] = writer[v]
  BY DEF Save, TypeOK
<1>3. trusted \subseteq trusted'
  BY DEF Save
<1>4. NewRecord(w).status = "approved" => <<d, NewRecord(w).key>> \in trusted'
  <2>1. CASE writer[w].kind = "enroll"
    BY <1>1, <1>3, <2>1
       DEF NewRecord, Enrolled, FirstStatus, TrustInv, TrustedRecord
  <2>2. CASE writer[w].kind = "approve"
    <3>1. writer[w].record \in Record
      BY <1>1, <2>2, Started
    <3> QED BY <2>2, <3>1 DEF NewRecord, Decided, Record, Save
  <2>3. CASE writer[w].kind = "revoke"
    <3>1. writer[w].record \in Record
      BY <1>1, <2>3, Started
    <3> QED BY <2>3, <3>1 DEF NewRecord, Decided, Record
  <2> QED BY <1>1, <2>1, <2>2, <2>3 DEF WriterState
<1>5. Approved(registry') \subseteq trusted'
  <2>1. /\ registry'[d] = NewRecord(w)
        /\ \A e \in Devices : e # d => registry'[e] = writer[w].file[e]
    BY <1>1 DEF Save, NewFile, Registry, WriterState
  <2>2. Approved(writer[w].file) \subseteq trusted'
    BY <1>1, <1>3 DEF TrustInv, TrustedFile
  <2> QED BY <1>4, <2>1, <2>2 DEF Approved
<1>6. \A v \in Writers : TrustedRecord(v)' /\ TrustedFile(v)'
  BY <1>1, <1>2, <1>3 DEF TrustInv, TrustedRecord, TrustedFile, Approved
<1> QED BY <1>5, <1>6 DEF TrustInv, Approved

LEMMA TrustStep ==
    ASSUME ApprovalRequired, TypeOK, TrustInv, [Next]_vars
    PROVE  TrustInv'
<1> USE DEF Writers
<1>1. ASSUME NEW e \in Enrollments, NEW d \in Devices, NEW k \in Keys, Enroll(e, d, k)
      PROVE  TrustInv'
  <2>1. PICK found \in Reads(d) :
            writer'[e] = [Begun("enroll", "read", d, k) EXCEPT !.record = found,
                                                               !.before = Done]
    BY <1>1 DEF Enroll, TypeOK
  <2>2. writer'[e].pc = "read" /\ writer'[e].device = d /\ writer'[e].record \in Reads(d)
    BY <2>1 DEF Begun
  <2> QED BY <1>1, <2>2, ReadTrust DEF Enroll, TypeOK
<1>2. ASSUME NEW c \in Commands, NEW d \in Devices, NEW kind \in {"approve", "revoke"},
             Show(c, kind, d)
      PROVE  TrustInv'
  BY <1>2, ReaderTrust DEF Show, Begun, TypeOK, TrustedRecord, TrustedFile
<1>3. ASSUME NEW c \in Commands, Abort(c) PROVE TrustInv'
  BY <1>3, ReaderTrust DEF Abort, TypeOK, Failed, TrustedRecord, TrustedFile
<1>4. ASSUME NEW c \in Commands, Reread(c) PROVE TrustInv'
  <2>1. writer[c] \in WriterState
    BY <1>4, Started DEF Reread
  <2>2. PICK found \in Reads(writer[c].device) :
            writer'[c] = IF found = NoRecord THEN Failed
                         ELSE [writer[c] EXCEPT !.pc = "read", !.record = found,
                                                !.before = Done]
    BY <1>4 DEF Reread, TypeOK
  <2>3. /\ writer'[c].pc \in {"read", "failed"}
        /\ writer'[c].pc = "read" => /\ writer'[c].device = writer[c].device
                                     /\ writer'[c].record \in Reads(writer[c].device)
    BY <2>1, <2>2 DEF WriterState, Failed
  <2> QED BY <1>4, <2>1, <2>3, ReadTrust DEF Reread, TypeOK, WriterState
<1>5. ASSUME NEW w \in Writers, Load(w) PROVE TrustInv'
  <2>1. writer[w] \in WriterState
    BY <1>5, Started DEF Load
  <2>2. PICK file \in {registry, Empty} :
            writer'[w] = [writer[w] EXCEPT !.pc = "loaded", !.file = file]
    BY <1>5 DEF Load, TypeOK
  <2>3. Approved(file) \subseteq trusted
    BY DEF TrustInv, Approved, Empty, NoRecord
  <2>4. /\ writer'[w].device = writer[w].device /\ writer'[w].record = writer[w].record
        /\ writer'[w].file = file
    BY <2>1, <2>2 DEF WriterState
  <2>5. TrustedRecord(w)'
    BY <1>5, <2>4 DEF Load, TrustInv, TrustedRecord
  <2>6. TrustedFile(w)'
    BY <1>5, <2>3, <2>4 DEF Load, TrustedFile, Approved
  <2> QED BY <1>5, <2>5, <2>6, ReaderTrust DEF Load, TypeOK
<1>6. ASSUME NEW w \in Writers, Save(w) PROVE TrustInv'
  BY <1>6, SaveTrust
<1>7. ASSUME NEW w \in Writers, SaveFails(w) PROVE TrustInv'
  BY <1>7, ReaderTrust DEF SaveFails, TypeOK, Failed, TrustedRecord, TrustedFile
<1>8. CASE UNCHANGED vars
  BY <1>8 DEF vars, TrustInv, TrustedRecord, TrustedFile, Approved
<1> QED BY <1>1, <1>2, <1>3, <1>4, <1>5, <1>6, <1>7, <1>8 DEF Next

\* A device is approved only with a key that an administrator's command read and
\* approved, although no lock spans the IdP and the tools: approval and key are
\* written as one record, so a lost update may lose an approval but never moves it.
THEOREM ApprovalIsForTheKey == Spec => []ApprovalBelongsToKey
<1>1. CASE ~ApprovalRequired
  BY <1>1, PTL DEF ApprovalBelongsToKey
<1>2. CASE ApprovalRequired
  <2>1. Init => TrustInv
    BY DEF Init, TrustInv, TrustedRecord, TrustedFile, Idle
  <2>2. TypeOK /\ TrustInv /\ [Next]_vars => TrustInv'
    BY <1>2, TrustStep
  <2>3. TrustInv => ApprovalBelongsToKey
    BY DEF TrustInv, ApprovalBelongsToKey
  <2> QED BY <2>1, <2>2, <2>3, TypeCorrect, PTL DEF Spec
<1> QED BY <1>1, <1>2

(***************************************************************************)
(* What was written stands.                                                *)
(***************************************************************************)

\* rec, a record of c's device, is as c left it in what c is about: not approved
\* after a revocation, with its key after an enrollment.
Reflects(c, rec) ==
    /\ ApprovalRequired /\ writer[c].kind = "revoke" => rec.status # "approved"
    /\ writer[c].kind = "enroll" => rec # NoRecord /\ rec.key = writer[c].key

\* A later writer decided otherwise, knowing what c wrote.
Supersedes(w, c) ==
    /\ Follows(w, c) /\ writer[w].device = writer[c].device
    /\ \/ writer[c].kind = "revoke" /\ writer[w].kind = "approve"
       \/ writer[c].kind = "enroll" /\ writer[w].kind = "enroll"
                                    /\ writer[w].key # writer[c].key

\* A later writer, for another device, dropped what c enrolled with the rest of a file
\* it could not read.
Forgets(w, c) ==
    /\ w \in misread /\ Follows(w, c)
    /\ writer[c].kind = "enroll" /\ writer[w].device # writer[c].device

Excused(c) == \E w \in Done : Overwrites(w, c) \/ Supersedes(w, c) \/ Forgets(w, c)

\* A writer that read after c was done holds what c wrote, or could not read it.
Aware(w, c) ==
    writer[w].pc \in {"read", "loaded"} /\ c \in writer[w].before =>
        \/ Excused(c)
        \/ /\ writer[w].device = writer[c].device =>
                  Reflects(c, writer[w].record) \/ writer[w].record = NoRecord
           /\ writer[w].pc = "loaded" =>
                  \/ Reflects(c, writer[w].file[writer[c].device])
                  \/ writer[c].kind = "enroll" /\ w \in misread

StandsAt(c) == Excused(c) \/ Reflects(c, registry[writer[c].device])

StandInv ==
    /\ \A w \in Writers :
           writer[w].pc \notin {"idle", "failed"} => writer[w].before \subseteq Done
    /\ \A c \in Done : StandsAt(c) /\ \A w \in Writers : Aware(w, c)

\* Whoever is done stays as it is.
LEMMA DoneForGood ==
    ASSUME TypeOK, [Next]_vars, NEW c \in Done
    PROVE  writer'[c] = writer[c] /\ c \in Done'
<1>1. c \in Writers /\ writer[c].pc = "done" /\ writer[c] # Idle
  BY DEF Done, Idle
<1>2. writer'[c] = writer[c]
  BY <1>1 DEF Next, vars, Enroll, Show, Abort, Reread, Load, Save, SaveFails, TypeOK
<1> QED BY <1>1, <1>2 DEF Done

LEMMA MisreadForGood ==
    ASSUME [Next]_vars
    PROVE  misread \subseteq misread'
BY DEF Next, vars, Enroll, Show, Abort, Reread, Load, Save, SaveFails

\* So an excuse holds for good.
LEMMA ExcusedStays ==
    ASSUME TypeOK, [Next]_vars
    PROVE  \A c \in Done : Excused(c) => Excused(c)'
<1> SUFFICES ASSUME NEW c \in Done, NEW w \in Done,
                    Overwrites(w, c) \/ Supersedes(w, c) \/ Forgets(w, c)
             PROVE  w \in Done' /\ (Overwrites(w, c)' \/ Supersedes(w, c)' \/ Forgets(w, c)')
  BY DEF Excused
<1>1. writer'[c] = writer[c] /\ writer'[w] = writer[w] /\ w \in Done'
  BY DoneForGood
<1>2. Overwrites(w, c) => Overwrites(w, c)'
  BY <1>1 DEF Overwrites
<1>3. Supersedes(w, c) => Supersedes(w, c)'
  BY <1>1 DEF Supersedes, Follows
<1>4. Forgets(w, c) => Forgets(w, c)'
  BY <1>1, MisreadForGood DEF Forgets, Follows
<1> QED BY <1>1, <1>2, <1>3, <1>4

\* A step of one writer that leaves the file alone and completes nothing.
LEMMA ReaderStands ==
    ASSUME TypeOK, StandInv, [Next]_vars, NEW w \in Writers, UNCHANGED registry,
           \A v \in Writers : v # w => writer'[v] = writer[v],
           writer[w].pc # "done", writer'[w].pc # "done",
           writer'[w].pc # "failed" => writer'[w].before \subseteq Done,
           \A c \in Done : Aware(w, c)'
    PROVE  StandInv'
<1>1. Done' = Done /\ \A c \in Done : writer'[c] = writer[c]
  BY DEF Done
<1>2. ASSUME NEW v \in Writers, writer'[v].pc \notin {"idle", "failed"}
      PROVE  writer'[v].before \subseteq Done'
  BY <1>1, <1>2 DEF StandInv
<1>3. ASSUME NEW c \in Done PROVE StandsAt(c)'
  <2>1. StandsAt(c)
    BY DEF StandInv
  <2> QED BY <1>1, <2>1, ExcusedStays DEF StandsAt, Reflects
<1>4. ASSUME NEW c \in Done, NEW v \in Writers PROVE Aware(v, c)'
  <2>1. CASE v = w
    BY <2>1
  <2>2. CASE v # w
    <3>1. Aware(v, c) /\ writer'[v] = writer[v]
      BY <2>2 DEF StandInv
    <3> QED BY <1>1, <3>1, ExcusedStays, MisreadForGood DEF Aware, Reflects
  <2> QED BY <2>1, <2>2
<1> QED BY <1>1, <1>2, <1>3, <1>4 DEF StandInv

\* What a writer takes from the file is as the writers that are done left it.
LEMMA ReadStands ==
    ASSUME TypeOK, StandInv, [Next]_vars, NEW w \in Writers, UNCHANGED registry,
           \A v \in Writers : v # w => writer'[v] = writer[v],
           writer[w].pc # "done", writer'[w].pc \in {"read", "failed"},
           writer'[w].pc = "read" => /\ writer'[w].before = Done
                                     /\ writer'[w].record \in Reads(writer'[w].device)
    PROVE  StandInv'
<1>1. \A c \in Done : writer'[c] = writer[c]
  BY DEF Done
<1>2. ASSUME NEW c \in Done PROVE Aware(w, c)'
  <2>1. StandsAt(c)
    BY DEF StandInv
  <2> QED BY <1>1, <2>1, ExcusedStays DEF StandsAt, Aware, Reflects, Reads
<1> QED BY <1>2, ReaderStands

\* Enrolling leaves the key that is brought; the status of another key starts over.
LEMMA SavedRecord ==
    ASSUME TypeOK, NEW w \in Writers, writer[w].pc = "loaded"
    PROVE  /\ NewRecord(w) # NoRecord
           /\ writer[w].kind = "enroll" => NewRecord(w).key = writer[w].key
           /\ writer[w].kind # "enroll" => NewRecord(w).key = writer[w].record.key
           /\ writer[w].kind = "revoke" => NewRecord(w).status = "revoked"
           /\ ApprovalRequired /\ writer[w].kind = "enroll" =>
                  NewRecord(w).status = "pending" \/ NewRecord(w) = writer[w].record
<1>1. NewRecord(w) # NoRecord
  BY NewRecordType DEF Record, NoRecord
<1>2. CASE writer[w].kind = "enroll"
  <2>1. NewRecord(w) = Enrolled(writer[w].record, writer[w].key)
    BY <1>2 DEF NewRecord
  <2>2. NewRecord(w).key = writer[w].key
    BY <2>1 DEF Enrolled
  <2>3. ApprovalRequired =>
            NewRecord(w).status = "pending" \/ NewRecord(w) = writer[w].record
    BY <2>1 DEF Enrolled, FirstStatus
  <2> QED BY <1>1, <1>2, <2>2, <2>3
<1>3. CASE writer[w].kind # "enroll"
  <2>1. writer[w].record \in Record
    BY <1>3, Started
  <2>2. NewRecord(w) = Decided(writer[w].record, writer[w].kind)
    BY <1>3 DEF NewRecord
  <2> QED BY <1>1, <1>3, <2>1, <2>2 DEF Decided, Record
<1> QED BY <1>2, <1>3

\* What a save leaves of a writer c that was done before: either the saving writer
\* had not seen c, and overwrites it, or it supersedes it, or c still stands.
LEMMA SaveStandsAt ==
    ASSUME TypeOK, StandInv, [Next]_vars, NEW w \in Writers, Save(w), NEW c \in Done
    PROVE  StandsAt(c)'
<1> DEFINE d == writer[c].device
<1>1. /\ writer[w] \in WriterState /\ writer[w].file \in Registry
      /\ writer[w].pc = "loaded" /\ w # c
      /\ c \in Writers /\ writer[c] \in WriterState
  BY Started DEF Save, Done
<1>2. /\ writer'[w].pc = "done" /\ writer'[w].over = Done
      /\ writer'[w].before = writer[w].before /\ writer'[w].kind = writer[w].kind
      /\ writer'[w].device = writer[w].device /\ writer'[w].key = writer[w].key
  <2>1. writer'[w] = [writer[w] EXCEPT !.pc = "done", !.record = NoRecord,
                                       !.file = NoRecord, !.over = Done]
    BY DEF Save, TypeOK
  <2> QED BY <1>1, <2>1 DEF WriterState
<1>3. writer'[c] = writer[c] /\ w \in Done'
  BY <1>1, <1>2, DoneForGood DEF Done
<1>4. /\ registry'[writer[w].device] = NewRecord(w)
      /\ d # writer[w].device => registry'[d] = writer[w].file[d]
  BY <1>1 DEF Save, NewFile, Registry, WriterState
<1>5. CASE c \notin writer[w].before
  <2>1. Overwrites(w, c)'
    BY <1>2, <1>3, <1>5 DEF Overwrites
  <2> QED BY <1>3, <2>1 DEF StandsAt, Excused
<1>6. CASE c \in writer[w].before /\ Excused(c)
  BY <1>6, ExcusedStays DEF StandsAt
<1>7. CASE c \in writer[w].before /\ ~Excused(c)
  <2>1. /\ writer[w].device = d => Reflects(c, writer[w].record) \/ writer[w].record = NoRecord
        /\ Reflects(c, writer[w].file[d]) \/ (writer[c].kind = "enroll" /\ w \in misread)
    BY <1>1, <1>7 DEF StandInv, Aware
  <2>2. CASE writer[w].device # d
    <3>1. CASE Reflects(c, writer[w].file[d])
      BY <1>3, <1>4, <2>2, <3>1 DEF StandsAt, Reflects
    <3>2. CASE writer[c].kind = "enroll" /\ w \in misread
      <4>1. Forgets(w, c)'
        BY <1>2, <1>3, <1>7, <2>2, <3>2, MisreadForGood DEF Forgets, Follows
      <4> QED BY <1>3, <4>1 DEF StandsAt, Excused
    <3> QED BY <2>1, <3>1, <3>2
  <2>3. CASE writer[w].device = d
    <3>1. Follows(w, c)'
      BY <1>2, <1>3, <1>7 DEF Follows
    <3>2. CASE /\ writer[c].kind = "revoke" => writer[w].kind # "approve"
               /\ writer[c].kind = "enroll" /\ writer[w].kind = "enroll" =>
                      writer[w].key = writer[c].key
      <4>1. writer[w].kind \in {"enroll", "approve", "revoke"}
        BY <1>1 DEF WriterState
      <4>2. writer[w].kind # "enroll" => Reflects(c, writer[w].record)
        BY <1>1, <2>1, <2>3, Started DEF Record, NoRecord
      <4>3. Reflects(c, NewRecord(w))
        BY <1>1, <2>1, <2>3, <3>2, <4>1, <4>2, SavedRecord DEF Reflects, NoRecord
      <4> QED BY <1>3, <1>4, <2>3, <4>3 DEF StandsAt, Reflects
    <3>3. ASSUME Supersedes(w, c)' PROVE StandsAt(c)'
      BY <1>3, <3>3 DEF StandsAt, Excused
    <3> QED BY <1>2, <1>3, <2>3, <3>1, <3>2, <3>3 DEF Supersedes
  <2> QED BY <2>2, <2>3
<1> QED BY <1>5, <1>6, <1>7

LEMMA SaveStands ==
    ASSUME TypeOK, StandInv, [Next]_vars, NEW w \in Writers, Save(w)
    PROVE  StandInv'
<1>1. /\ writer[w] \in WriterState /\ writer[w].pc = "loaded"
      /\ writer[w].file \in Registry
  BY Started DEF Save
<1>2. /\ writer'[w].pc = "done" /\ writer'[w].before = writer[w].before
      /\ writer'[w].device = writer[w].device /\ writer'[w].key = writer[w].key
      /\ writer'[w].kind = writer[w].kind
  <2>1. writer'[w] = [writer[w] EXCEPT !.pc = "done", !.record = NoRecord,
                                       !.file = NoRecord, !.over = Done]
    BY DEF Save, TypeOK
  <2> QED BY <1>1, <2>1 DEF WriterState
<1>3. /\ \A v \in Writers : v # w => writer'[v] = writer[v]
      /\ Done' = Done \cup {w}
  BY <1>2 DEF Save, Done, TypeOK
<1>4. ASSUME NEW v \in Writers, writer'[v].pc \notin {"idle", "failed"}
      PROVE  writer'[v].before \subseteq Done'
  BY <1>1, <1>2, <1>3, <1>4 DEF StandInv
<1>5. StandsAt(w)'
  <2>1. registry'[writer[w].device] = NewRecord(w)
    BY <1>1 DEF Save, NewFile, Registry, WriterState
  <2>2. /\ writer[w].kind = "revoke" => NewRecord(w).status = "revoked"
        /\ writer[w].kind = "enroll" => NewRecord(w) # NoRecord
                                        /\ NewRecord(w).key = writer[w].key
    BY <1>1, SavedRecord
  <2> QED BY <1>2, <2>1, <2>2 DEF StandsAt, Reflects
<1>6. ASSUME NEW c \in Done PROVE StandsAt(c)'
  BY SaveStandsAt
<1>7. ASSUME NEW v \in Writers PROVE Aware(v, w)'
  <2>1. w \notin Done
    BY <1>1 DEF Done
  <2>2. v # w => writer'[v] = writer[v]
    BY <1>3
  <2>3. writer[v].pc \notin {"idle", "failed"} => w \notin writer[v].before
    BY <2>1 DEF StandInv
  <2> QED BY <1>2, <2>2, <2>3 DEF Aware
<1>8. ASSUME NEW c \in Done, NEW v \in Writers PROVE Aware(v, c)'
  <2>1. CASE v = w
    BY <1>2, <2>1 DEF Aware
  <2>2. CASE v # w
    <3>1. Aware(v, c) /\ writer'[v] = writer[v] /\ writer'[c] = writer[c]
      BY <1>3, <2>2, DoneForGood DEF StandInv
    <3> QED BY <3>1, ExcusedStays, MisreadForGood DEF Aware, Reflects
  <2> QED BY <2>1, <2>2
<1> QED BY <1>3, <1>4, <1>5, <1>6, <1>7, <1>8 DEF StandInv

LEMMA StandStep ==
    ASSUME TypeOK, StandInv, [Next]_vars
    PROVE  StandInv'
<1> USE DEF Writers
<1>1. ASSUME NEW e \in Enrollments, NEW d \in Devices, NEW k \in Keys, Enroll(e, d, k)
      PROVE  StandInv'
  <2>1. PICK found \in Reads(d) :
            writer'[e] = [Begun("enroll", "read", d, k) EXCEPT !.record = found,
                                                               !.before = Done]
    BY <1>1 DEF Enroll, TypeOK
  <2>2. /\ writer'[e].pc = "read" /\ writer'[e].before = Done
        /\ writer'[e].device = d /\ writer'[e].record \in Reads(d)
    BY <2>1 DEF Begun
  <2> QED BY <1>1, <2>2, ReadStands DEF Enroll, Idle, TypeOK
<1>2. ASSUME NEW c \in Commands, NEW d \in Devices, NEW kind \in {"approve", "revoke"},
             Show(c, kind, d)
      PROVE  StandInv'
  <2>1. writer'[c] = Begun(kind, "shown", d, registry[d].key)
    BY <1>2 DEF Show, TypeOK
  <2>2. \A b \in Done : Aware(c, b)'
    BY <2>1 DEF Aware, Begun
  <2> QED BY <1>2, <2>1, <2>2, ReaderStands DEF Show, Begun, Idle, TypeOK
<1>3. ASSUME NEW c \in Commands, Abort(c) PROVE StandInv'
  <2>1. writer[c].pc = "shown" /\ writer'[c].pc = "failed"
    BY <1>3 DEF Abort, TypeOK, Failed
  <2>2. \A b \in Done : Aware(c, b)'
    BY <2>1 DEF Aware
  <2> QED BY <1>3, <2>1, <2>2, ReaderStands DEF Abort, TypeOK
<1>4. ASSUME NEW c \in Commands, Reread(c) PROVE StandInv'
  <2>1. writer[c] \in WriterState /\ writer[c].pc = "shown"
    BY <1>4, Started DEF Reread
  <2>2. PICK found \in Reads(writer[c].device) :
            writer'[c] = IF found = NoRecord THEN Failed
                         ELSE [writer[c] EXCEPT !.pc = "read", !.record = found,
                                                !.before = Done]
    BY <1>4 DEF Reread, TypeOK
  <2>3. /\ writer'[c].pc \in {"read", "failed"}
        /\ writer'[c].pc = "read" => /\ writer'[c].before = Done
                                     /\ writer'[c].device = writer[c].device
                                     /\ writer'[c].record \in Reads(writer[c].device)
    BY <2>1, <2>2 DEF WriterState, Failed
  <2> QED BY <1>4, <2>1, <2>3, ReadStands DEF Reread, TypeOK
<1>5. ASSUME NEW w \in Writers, Load(w) PROVE StandInv'
  <2>1. writer[w] \in WriterState /\ writer[w].pc = "read"
    BY <1>5, Started DEF Load
  <2>2. PICK file \in {registry, Empty} :
            /\ writer'[w] = [writer[w] EXCEPT !.pc = "loaded", !.file = file]
            /\ file = registry \/ w \in misread'
    BY <1>5 DEF Load, TypeOK
  <2>3. /\ writer'[w].pc = "loaded" /\ writer'[w].before = writer[w].before
        /\ writer'[w].device = writer[w].device /\ writer'[w].record = writer[w].record
        /\ writer'[w].file = file
    BY <2>1, <2>2 DEF WriterState
  <2>4. ASSUME NEW b \in Done PROVE Aware(w, b)'
    <3>1. Aware(w, b) /\ StandsAt(b) /\ writer'[b] = writer[b]
      BY DoneForGood DEF StandInv
    <3>2. b \in Writers /\ writer[b].device \in Devices
      BY Started DEF Done, WriterState
    <3>3. ASSUME ~Excused(b)
          PROVE  Reflects(b, file[writer[b].device])
                 \/ (writer[b].kind = "enroll" /\ w \in misread')
      <4>1. CASE file = registry
        BY <3>1, <3>3, <4>1 DEF StandsAt
      <4>2. CASE file = Empty /\ w \in misread'
        BY <3>2, <4>2 DEF Empty, NoRecord, Reflects
      <4> QED BY <2>2, <4>1, <4>2
    <3> QED BY <2>1, <2>3, <3>1, <3>3, ExcusedStays DEF Aware, Reflects
  <2>5. writer[w].before \subseteq Done
    BY <2>1 DEF StandInv
  <2> QED BY <1>5, <2>1, <2>3, <2>4, <2>5, ReaderStands DEF Load, TypeOK
<1>6. ASSUME NEW w \in Writers, Save(w) PROVE StandInv'
  BY <1>6, SaveStands
<1>7. ASSUME NEW w \in Writers, SaveFails(w) PROVE StandInv'
  <2>1. writer[w] \in WriterState /\ writer[w].pc = "loaded"
    BY <1>7, Started DEF SaveFails
  <2>2. writer'[w].pc = "failed"
    BY <1>7 DEF SaveFails, TypeOK, Failed
  <2>3. \A b \in Done : Aware(w, b)'
    BY <2>2 DEF Aware
  <2>5. UNCHANGED registry /\ \A v \in Writers : v # w => writer'[v] = writer[v]
    BY <1>7 DEF SaveFails, TypeOK
  <2> QED BY <2>1, <2>2, <2>3, <2>5, ReaderStands
<1>8. CASE UNCHANGED vars
  <2>1. registry' = registry /\ writer' = writer /\ misread' = misread
    BY <1>8 DEF vars
  <2>2. Done' = Done
    BY <2>1 DEF Done
  <2>3. \A c \in Done : Excused(c)' <=> Excused(c)
    BY <2>1, <2>2 DEF Excused, Overwrites, Supersedes, Forgets, Follows
  <2>4. \A c \in Done : StandsAt(c)' <=> StandsAt(c)
    BY <2>1, <2>3 DEF StandsAt, Reflects
  <2>5. \A c \in Done, w \in Writers : Aware(w, c)' <=> Aware(w, c)
    BY <2>1, <2>3 DEF Aware, Reflects
  <2> QED BY <2>1, <2>2, <2>4, <2>5 DEF StandInv
<1> QED BY <1>1, <1>2, <1>3, <1>4, <1>5, <1>6, <1>7, <1>8 DEF Next

\* At every moment, the file and every copy of it that is under way to be written
\* agree with each writer that was done when they were read, or it is excused, or the
\* copy is of a file that could not be read.
THEOREM WritesStand == Spec => []StandInv
<1>1. Init => StandInv
  BY DEF Init, StandInv, Done, Idle
<1>2. TypeOK /\ StandInv /\ [Next]_vars => StandInv'
  BY StandStep
<1> QED BY <1>1, <1>2, TypeCorrect, PTL DEF Spec

\* A device whose revocation was written is approved again only by an approval that
\* saw the revocation, or by a writer that was under way when it was written.
THEOREM RevocationsStand == Spec => []RevocationStands
<1>1. StandInv => RevocationStands
  <2> SUFFICES ASSUME StandInv, ApprovalRequired, NEW d \in Devices, NEW c \in Done,
                      Revokes(c, d), registry[d].status = "approved"
               PROVE  ApprovedAfter(c, d) \/ \E w \in Done : Overwrites(w, c)
    BY DEF RevocationStands
  <2>1. writer[c].kind = "revoke" /\ writer[c].device = d
    BY DEF Revokes
  <2>2. StandsAt(c)
    BY DEF StandInv
  <2>3. PICK w \in Done : Overwrites(w, c) \/ Supersedes(w, c)
    BY <2>1, <2>2 DEF StandsAt, Reflects, Excused, Forgets
  <2> QED BY <2>1, <2>3 DEF Supersedes, ApprovedAfter
<1> QED BY <1>1, WritesStand, PTL

\* An acknowledged enrollment keeps its key in the registry until the device enrolls
\* another, or a writer that was under way when it was written replaces the file, or one
\* for another device that could not read the file.
THEOREM EnrollmentsStand == Spec => []EnrollmentStands
<1>1. StandInv => EnrollmentStands
  <2> SUFFICES ASSUME StandInv, NEW e \in Done, writer[e].kind = "enroll"
               PROVE  \/ /\ registry[writer[e].device] # NoRecord
                         /\ registry[writer[e].device].key = writer[e].key
                      \/ \E w \in Done : Overwrites(w, e)
                      \/ \E w \in Done : /\ Follows(w, e) /\ writer[w].kind = "enroll"
                                         /\ writer[w].device = writer[e].device
                                         /\ writer[w].key # writer[e].key
                      \/ \E w \in misread : /\ Follows(w, e)
                                            /\ writer[w].device # writer[e].device
    BY DEF EnrollmentStands
  <2>1. StandsAt(e)
    BY DEF StandInv
  <2> QED BY <2>1 DEF StandsAt, Reflects, Excused, Supersedes, Forgets
<1> QED BY <1>1, WritesStand, PTL
=============================================================================
