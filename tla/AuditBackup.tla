---------------------------- MODULE AuditBackup ----------------------------
(***************************************************************************)
(* Backup and restore of the audit log (tools/backup_audit_log.py), while  *)
(* the services go on logging: the tool takes no lock.                     *)
(*                                                                         *)
(* One command at a time.  A copy of the log, or over the log, is one      *)
(* step; what a restore writes may end early, when it is killed or the     *)
(* disk is full.                                                           *)
(***************************************************************************)
EXTENDS AuditLog

CONSTANT MaxCommands    \* bound on the backups and restores

ASSUME BackupAssumption == MaxCommands \in Nat

VARIABLES
    backup,     \* the latest backup file that has a manifest: its lines
    tool,       \* how far the command has come
    commands,   \* how many have begun
    kept,       \* the events that can be read in some copy of the log
    unkept,     \* history: events logged between the two copies of a restore
    stale       \* history: events whose log_event read a log since overwritten

toolVars   == <<backup, tool, commands, kept, unkept, stale>>
backupVars == <<vars, toolVars>>

NoBackup == [kind |-> "none"]
File == [kind : {"file"}, lines : Seq(Text), open : BOOLEAN]
NoCommand == [pc |-> "none"]

BackupTypeOK ==
    /\ TypeOK
    /\ backup \in File \cup {NoBackup}
    /\ tool \in [pc : {"read"}, count : Nat] \cup [pc : {"checked"}]
                    \cup [pc : {"preserved"}, had : SUBSET Events] \cup {NoCommand}
    /\ commands \in Nat
    /\ kept \subseteq Events /\ unkept \subseteq Events /\ stale \subseteq Events

BackupInit ==
    /\ Init
    /\ backup = NoBackup /\ tool = NoCommand /\ commands = 0
    /\ kept = {} /\ unkept = {} /\ stale = {}

\* The events that can be read in a file.
EventsIn(lines) == {lines[i].event : i \in {j \in DOMAIN lines : Parses(lines[j])}}

Begins(pc) ==
    /\ tool = NoCommand /\ commands < MaxCommands
    /\ commands' = commands + 1
    /\ tool' = pc

(***************************************************************************)
(* cmd_backup.                                                             *)
(***************************************************************************)

\* It reads the events and checks the chain; a broken one is backed up on demand.
ReadEvents ==
    /\ log # << >>
    /\ Begins([pc |-> "read", count |-> Len(Readable(log))])
    /\ UNCHANGED <<vars, backup, kept, unkept, stale>>

\* The log is copied and the copy is counted: when the log has grown since, the copy
\* is removed as a bad one.
Copy ==
    /\ tool.pc = "read"
    /\ tool' = NoCommand
    /\ IF Len(Readable(log)) = tool.count
       THEN /\ backup' = [kind |-> "file", lines |-> log, open |-> open]
            /\ kept' = kept \cup EventsIn(log)
       ELSE UNCHANGED <<backup, kept>>
    /\ UNCHANGED <<vars, commands, unkept, stale>>

(***************************************************************************)
(* cmd_restore.                                                            *)
(***************************************************************************)

\* Without --force: the backup's chain is intact, and the log is not the longer one.
Acceptable ==
    LET lines == Readable(backup.lines) IN Intact(lines) /\ Len(Readable(log)) <= Len(lines)

CheckBackup(force) ==
    /\ backup # NoBackup
    /\ force \/ Acceptable
    /\ Begins([pc |-> "checked"])
    /\ UNCHANGED <<vars, backup, kept, unkept, stale>>

\* Mutated: it is the backup that is copied aside once more.
PreservedBackup == EventsIn(backup.lines)

Preserved == EventsIn(log)

\* The current log is copied aside.
Preserve ==
    /\ tool.pc = "checked"
    /\ tool' = [pc |-> "preserved", had |-> Logged]
    /\ kept' = kept \cup Preserved
    /\ UNCHANGED <<vars, backup, commands, unkept, stale>>

\* The backup is copied over the log, all of it or its first lines, and the one after
\* them in part.  Threads that have read the last hash do not read it again.
Overwrite ==
    /\ tool.pc = "preserved"
    /\ \/ log' = backup.lines /\ open' = backup.open
       \/ \E n \in 0 .. Len(backup.lines) - 1 :
              \/ log' = SubSeq(backup.lines, 1, n) /\ open' = FALSE
              \/ /\ log' = Append(SubSeq(backup.lines, 1, n), Garbage(Of(backup.lines[n + 1])))
                 /\ open' = TRUE
    /\ tool' = NoCommand
    /\ tears' = IF open' THEN tears + 1 ELSE tears
    /\ stale' = stale \cup {e \in Events : thread[e].pc = "read"}
    /\ unkept' = unkept \cup (Logged \ tool.had)
    /\ UNCHANGED <<thread, backup, commands, kept>>

BackupNext ==
    \/ Next /\ UNCHANGED toolVars
    \/ ReadEvents \/ Copy
    \/ \E force \in BOOLEAN : CheckBackup(force)
    \/ Preserve \/ Overwrite

BackupSpec == BackupInit /\ [][BackupNext]_backupVars

(***************************************************************************)
(* Properties.                                                             *)
(***************************************************************************)

\* The chain breaks only where two processes meet, or where a restore came between the
\* two halves of a log_event: a line that does not continue the last one that parses
\* follows text of another process, or was begun on a log that has been overwritten,
\* whatever was cut short before.  So one process never breaks its own chain (_lock).
BreaksHaveCause ==
    \A i \in DOMAIN log :
        Parses(log[i]) =>
            \/ log[i].prev = HashBefore(log, i)
            \/ i > 1 /\ \E e \in Of(log[i - 1]) : Home[e] # Home[log[i].event]
            \/ log[i].event \in stale

\* An event whose log_event has returned can be read, in the log or in a copy of it: a
\* line left unfinished costs at most the event written next, and a restore only what
\* was logged between its two copies (tools/backup_audit_log.py: a restore must not
\* "destroy audit records that exist only in the current log").
NothingIsLost == Cardinality(Logged \ (EventsIn(log) \cup kept \cup unkept)) <= tears
=============================================================================
