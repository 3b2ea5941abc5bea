------------------------------ MODULE AuditLog ------------------------------
(***************************************************************************)
(* The hash-chained audit log (common/audit_log.py): handler threads of    *)
(* the IdP and the Gateway append events to one file.                      *)
(*                                                                         *)
(* log_event looks for the last hash in the file and appends a line that   *)
(* continues the chain.  Its lock belongs to the process: threads of two   *)
(* processes may read the same last hash.  An append that is cut short (a  *)
(* kill, a full disk) leaves a line without its newline, and the next      *)
(* append continues that line.                                             *)
(***************************************************************************)
EXTENDS Integers, Sequences, FiniteSets, FiniteSetsExt

CONSTANTS
    Events,     \* what is logged, each by a handler thread of its own
    Processes,  \* the services that run on the host
    Home,       \* the process whose thread logs an event
    MaxTears    \* bound on the appends that are cut short

ASSUME AuditAssumption == Home \in [Events -> Processes] /\ MaxTears \in Nat

VARIABLES
    log,     \* the lines of the file
    open,    \* whether the last line still lacks its newline
    thread,  \* how far each log_event has come
    tears    \* history: how often the last line was left unfinished

vars == <<log, open, thread, tears>>

\* SHA-256 has no collisions here: a hash is the sequence of the events it covers.
Genesis == << >>

\* Mutated: a hash that does not cover the chain before the line.
HashOfEvent(prev, event) == event

Hash(prev, event) == Append(prev, event)

Line(prev, event) == [event |-> event, prev |-> prev, hash |-> Hash(prev, event)]
\* Text that json.loads refuses; of: the events that were meant to be in it.
Garbage(of) == [of |-> of]
Parses(line) == "hash" \in DOMAIN line
Of(line) == IF Parses(line) THEN {line.event} ELSE line.of

Idle == [pc |-> "idle"]

Lines == [event : Events, prev : Seq(Events), hash : Seq(Events)]
Text  == Lines \cup [of : SUBSET Events]

TypeOK ==
    /\ log \in Seq(Text)
    /\ open \in BOOLEAN
    /\ thread \in [Events -> [pc : {"read", "logged", "failed"}, last : Seq(Events)]
                             \cup {Idle}]
    /\ tears \in Nat

Init ==
    /\ log = << >> /\ open = FALSE
    /\ thread = [e \in Events |-> Idle]
    /\ tears = 0

(***************************************************************************)
(* log_event.                                                              *)
(***************************************************************************)

\* read_events goes through the lines and skips those that do not parse.
Readable(lines) ==
    LET upTo[n \in 0 .. Len(lines)] ==
            IF n = 0 THEN << >>
            ELSE IF Parses(lines[n]) THEN Append(upTo[n - 1], lines[n])
            ELSE upTo[n - 1]
    IN  upTo[Len(lines)]

\* Mutated: the search ends at the first line that does not parse.
LastHashBeforeGarbage ==
    LET n == Cardinality({i \in DOMAIN log : \A j \in 1 .. i : Parses(log[j])})
    IN  IF n = 0 THEN Genesis ELSE log[n].hash

\* The hash of the last line before i that parses.
HashBefore(lines, i) ==
    LET parsing == {j \in 1 .. i - 1 : Parses(lines[j])}
    IN  IF parsing = {} THEN Genesis ELSE lines[Max(parsing)].hash

\* _read_last_hash
LastHash == HashBefore(log, Len(log) + 1)

Appending(p) == {e \in Events : Home[e] = p /\ thread[e].pc = "read"}

Read(e) ==
    /\ thread[e] = Idle
    /\ Appending(Home[e]) = {}
    /\ thread' = [thread EXCEPT ![e] = [pc |-> "read", last |-> LastHash]]
    /\ UNCHANGED <<log, open, tears>>

\* The file with a line added: a new line, or more text on an unfinished one.
Extended(line) ==
    IF open THEN [log EXCEPT ![Len(log)] = Garbage(Of(@) \cup Of(line))]
    ELSE Append(log, line)

Write(e) ==
    /\ thread[e].pc = "read"
    /\ log' = Extended(Line(thread[e].last, e))
    /\ open' = FALSE
    /\ thread' = [thread EXCEPT ![e].pc = "logged"]
    /\ UNCHANGED tears

\* Part of the line is written, or all of it but the newline.
Tear(e) ==
    /\ thread[e].pc = "read" /\ tears < MaxTears
    /\ \E part \in {Garbage({e}), Line(thread[e].last, e)} : log' = Extended(part)
    /\ open' = TRUE
    /\ thread' = [thread EXCEPT ![e].pc = "failed"]
    /\ tears' = tears + 1

\* The thread dies, or the file cannot be opened, before anything is written.
Fail(e) ==
    /\ thread[e].pc = "read"
    /\ thread' = [thread EXCEPT ![e].pc = "failed"]
    /\ UNCHANGED <<log, open, tears>>

Next == \E e \in Events : Read(e) \/ Write(e) \/ Tear(e) \/ Fail(e)

Spec == Init /\ [][Next]_vars

(***************************************************************************)
(* verify_events_chain.                                                    *)
(***************************************************************************)

\* The hash the line at i has to continue.
Expected(lines, i) == IF i = 1 THEN Genesis ELSE lines[i - 1].hash

\* Mutated: each line is checked against the prev_hash it carries itself.
IntactByLine(lines) == \A i \in DOMAIN lines : lines[i].hash = Hash(lines[i].prev, lines[i].event)

Intact(lines) ==
    \A i \in DOMAIN lines :
        /\ lines[i].prev = Expected(lines, i)
        /\ lines[i].hash = Hash(Expected(lines, i), lines[i].event)

(***************************************************************************)
(* Properties.                                                             *)
(***************************************************************************)

Logged == {e \in Events : thread[e].pc = "logged"}

Removed(lines, i) == SubSeq(lines, 1, i - 1) \o SubSeq(lines, i + 1, Len(lines))
Edited(lines, i, e) == [lines EXCEPT ![i] = [@ EXCEPT !.event = e]]
Swapped(lines, i) == [lines EXCEPT ![i] = lines[i + 1], ![i + 1] = lines[i]]

ShowsTampering(lines) ==
    /\ \A i \in 1 .. Len(lines) - 1 :
           ~Intact(Removed(lines, i)) /\ ~Intact(Swapped(lines, i))
    /\ \A i \in DOMAIN lines, e \in Events :
           e # lines[i].event => ~Intact(Edited(lines, i, e))

\* Removing a line other than the last, editing one or exchanging two breaks a
\* chain that was intact (common/audit_log.py: "SILENT, PARTIAL tampering" is
\* detectable; cutting off the end is not).
TamperingShows == Intact(Readable(log)) => ShowsTampering(Readable(log))
=============================================================================
