--------------------------- MODULE AuditLogProofs ---------------------------
(***************************************************************************)
(* Theorems about the audit log, its backup and its restore, for any       *)
(* number of events, processes, torn appends and commands, and what        *)
(* verify_events_chain detects in chains of any length.                    *)
(*                                                                         *)
(* A hash is the sequence of the events it covers: it grows by one with    *)
(* each line, and its last element is the line's event.                    *)
(***************************************************************************)
EXTENDS AuditBackup, FiniteSetTheorems, TLAPS

(***************************************************************************)
(* Induction on numbers, with a set of numbers for the claim.              *)
(***************************************************************************)

Below == {p \in Nat \X Nat : p[1] < p[2]}

\* A set of numbers has a least one.
LEMMA LeastNumber ==
    ASSUME NEW S \in SUBSET Nat, S # {}
    PROVE  \E n \in S : \A m \in S : n <= m
<1>1. IsWellFoundedOn(Below, Nat)
  BY NatLessThanWellFounded DEF OpToRel, Below
<1>2. PICK n \in S : \A m \in S : <<m, n>> \notin Below
  BY <1>1, WFMin
<1>3. \A m \in S : ~(m < n)
  BY <1>2 DEF Below
<1> QED BY <1>3

\* A set that holds 0, and n + 1 with n, holds every number.
LEMMA Induction ==
    ASSUME NEW S, 0 \in S, \A n \in Nat : n \in S => n + 1 \in S
    PROVE  Nat \subseteq S
<1> SUFFICES ASSUME Nat \ S # {} PROVE FALSE
  OBVIOUS
<1>1. PICK n \in Nat \ S : \A m \in Nat \ S : n <= m
  BY LeastNumber
<1>2. n - 1 \in Nat /\ n - 1 \in S
  BY <1>1
<1> QED BY <1>1, <1>2

(***************************************************************************)
(* The lines of a file.                                                    *)
(***************************************************************************)

LEMMA TextFacts ==
    ASSUME NEW line \in Text
    PROVE  /\ Parses(line) => line \in Lines /\ Of(line) = {line.event}
           /\ ~Parses(line) => Of(line) = line.of /\ line.of \subseteq Events
           /\ Of(line) \subseteq Events
BY DEF Text, Lines, Parses, Of

LEMMA LineFacts ==
    ASSUME NEW prev \in Seq(Events), NEW e \in Events
    PROVE  /\ Line(prev, e) \in Text /\ Parses(Line(prev, e)) /\ Of(Line(prev, e)) = {e}
           /\ Line(prev, e).event = e /\ Line(prev, e).prev = prev
           /\ Line(prev, e).hash = Hash(prev, e)
<1>1. Hash(prev, e) \in Seq(Events)
  BY DEF Hash
<1> QED BY <1>1 DEF Line, Text, Lines, Parses, Of

LEMMA GarbageFacts ==
    ASSUME NEW of \in SUBSET Events
    PROVE  Garbage(of) \in Text /\ ~Parses(Garbage(of)) /\ Of(Garbage(of)) = of
BY DEF Garbage, Text, Parses, Of

\* Numbers that do not exceed a bound have a last one.
LEMMA LastNumber ==
    ASSUME NEW P \in SUBSET Int, P # {}, NEW n \in Int, \A j \in P : j <= n
    PROVE  Max(P) \in P /\ \A j \in P : j <= Max(P)
<1> DEFINE S == {m \in Nat : n - m \in P}
<1>1. S \in SUBSET Nat /\ S # {}
  <2>1. PICK j \in P : TRUE
    OBVIOUS
  <2>2. n - j \in S
    BY <2>1
  <2> QED BY <2>2
<1>2. PICK m \in S : \A k \in S : m <= k
  <2> HIDE DEF S
  <2> QED BY <1>1, LeastNumber
<1>3. ASSUME NEW j \in P PROVE j <= n - m
  <2>1. n - j \in S
    BY <1>3
  <2>2. m <= n - j
    BY <1>2, <2>1
  <2>3. m \in Nat /\ j \in Int
    BY <1>2
  <2> QED BY <2>2, <2>3
<1>4. n - m \in P
  BY <1>2
<1>5. \E x \in P : \A y \in P : x >= y
  BY <1>3, <1>4
<1>6. Max(P) \in P /\ \A y \in P : Max(P) >= y
  BY <1>5 DEF Max
<1> QED BY <1>6

\* What is found before a line depends on the lines before it only.
LEMMA HashBeforeAgrees ==
    ASSUME NEW lines, NEW other, NEW i \in Int, \A j \in 1 .. i - 1 : lines[j] = other[j]
    PROVE  HashBefore(lines, i) = HashBefore(other, i)
<1> DEFINE P == {j \in 1 .. i - 1 : Parses(lines[j])}
           Q == {j \in 1 .. i - 1 : Parses(other[j])}
<1>1. P = Q
  OBVIOUS
<1>2. P # {} => Max(P) \in P
  <2>1. P \in SUBSET Int /\ i - 1 \in Int /\ \A j \in P : j <= i - 1
    OBVIOUS
  <2> HIDE DEF P
  <2> QED BY <2>1, LastNumber
<1> HIDE DEF P, Q
<1>3. P # {} => lines[Max(P)] = other[Max(Q)]
  BY <1>1, <1>2 DEF P
<1> QED BY <1>1, <1>3 DEF HashBefore, P, Q

LEMMA HashBeforeNext ==
    ASSUME NEW lines, NEW i \in Nat \ {0}
    PROVE  HashBefore(lines, i + 1) = IF Parses(lines[i]) THEN lines[i].hash ELSE HashBefore(lines, i)
<1> DEFINE P == {j \in 1 .. i - 1 : Parses(lines[j])}
           Q == {j \in 1 .. i : Parses(lines[j])}
<1>1. HashBefore(lines, i + 1) = IF Q = {} THEN Genesis ELSE lines[Max(Q)].hash
  <2>1. i + 1 - 1 = i
    OBVIOUS
  <2> QED BY <2>1 DEF HashBefore
<1>2. CASE Parses(lines[i])
  <2>1. i \in Q /\ \A j \in Q : i >= j
    BY <1>2
  <2>2. Max(Q) = i
    BY <2>1 DEF Max
  <2> QED BY <1>1, <1>2, <2>1, <2>2
<1>3. CASE ~Parses(lines[i])
  <2>1. Q = P
    BY <1>3
  <2> QED BY <1>1, <1>3, <2>1 DEF HashBefore
<1> QED BY <1>2, <1>3

(***************************************************************************)
(* read_events.                                                            *)
(***************************************************************************)

\* One turn of its loop.
ReadStep(lines, g, n) ==
    IF n = 0 THEN << >>
    ELSE IF Parses(lines[n]) THEN Append(g[n - 1], lines[n]) ELSE g[n - 1]

\* The loop comes to an end.
LEMMA LoopEnds ==
    ASSUME NEW lines, NEW n \in Nat
    PROVE  \E g : g = [k \in 0 .. n |-> ReadStep(lines, g, k)]
<1> DEFINE S == {m \in Nat : \E g : g = [k \in 0 .. m |-> ReadStep(lines, g, k)]}
<1>1. 0 \in S
  <2> DEFINE g == [k \in 0 .. 0 |-> << >>]
  <2>1. g = [k \in 0 .. 0 |-> ReadStep(lines, g, k)]
    BY DEF ReadStep
  <2> QED BY <2>1
<1>2. ASSUME NEW m \in Nat, m \in S PROVE m + 1 \in S
  <2>1. PICK g : g = [k \in 0 .. m |-> ReadStep(lines, g, k)]
    BY <1>2
  <2> DEFINE h == [k \in 0 .. m + 1 |-> IF k <= m THEN g[k] ELSE ReadStep(lines, g, m + 1)]
  <2>2. \A k \in 0 .. m + 1 : h[k] = ReadStep(lines, h, k)
    <3> SUFFICES ASSUME NEW k \in 0 .. m + 1 PROVE h[k] = ReadStep(lines, h, k)
      OBVIOUS
    <3>1. k # 0 => k - 1 \in 0 .. m /\ h[k - 1] = g[k - 1]
      OBVIOUS
    <3>2. CASE k <= m
      <4>1. k \in 0 .. m /\ h[k] = g[k]
        BY <3>2
      <4>2. g[k] = ReadStep(lines, g, k)
        BY <2>1, <4>1
      <4>3. ReadStep(lines, g, k) = ReadStep(lines, h, k)
        BY <3>1 DEF ReadStep
      <4> QED BY <4>1, <4>2, <4>3
    <3>3. CASE k = m + 1
      <4>1. h[k] = ReadStep(lines, g, k)
        BY <3>3
      <4>2. ReadStep(lines, g, k) = ReadStep(lines, h, k)
        BY <3>1 DEF ReadStep
      <4> QED BY <4>1, <4>2
    <3> QED BY <3>2, <3>3
  <2>3. h = [k \in 0 .. m + 1 |-> h[k]]
    OBVIOUS
  <2> HIDE DEF h
  <2>4. h = [k \in 0 .. m + 1 |-> ReadStep(lines, h, k)]
    BY <2>2, <2>3
  <2> QED BY <2>4
<1> HIDE DEF S
<1>3. n \in S
  BY <1>1, <1>2, Induction
<1> QED BY <1>3 DEF S

LEMMA ReadableDef ==
    ASSUME NEW lines, Len(lines) \in Nat
    PROVE  \E g : /\ g = [k \in 0 .. Len(lines) |-> ReadStep(lines, g, k)]
                  /\ Readable(lines) = g[Len(lines)]
<1> DEFINE f == CHOOSE g : g = [k \in 0 .. Len(lines) |-> ReadStep(lines, g, k)]
<1>1. f = [k \in 0 .. Len(lines) |-> ReadStep(lines, f, k)]
  BY LoopEnds
<1>2. Readable(lines) = f[Len(lines)]
  BY DEF Readable, ReadStep
<1> QED BY <1>1, <1>2

(***************************************************************************)
(* verify_events_chain.                                                    *)
(***************************************************************************)

\* A line's hash is never the hash it continues, and depends on the event.
LEMMA HashFacts ==
    ASSUME NEW prev \in Seq(Events), NEW e \in Events, NEW f \in Events
    PROVE  /\ Hash(prev, e) # prev
           /\ Hash(prev, e) = Hash(prev, f) => e = f
<1>1. Len(Hash(prev, e)) = Len(prev) + 1 /\ Hash(prev, e)[Len(prev) + 1] = e
  BY DEF Hash
<1>2. Len(Hash(prev, f)) = Len(prev) + 1 /\ Hash(prev, f)[Len(prev) + 1] = f
  BY DEF Hash
<1> QED BY <1>1, <1>2

\* Lines and their parts.
LEMMA LineType ==
    ASSUME NEW lines \in Seq(Lines), NEW i \in DOMAIN lines
    PROVE  /\ lines[i] \in Lines
           /\ lines[i].event \in Events
           /\ lines[i].hash \in Seq(Events)
<1>1. lines[i] \in Lines
  OBVIOUS
<1> DEFINE line == lines[i]
<1>2. line \in [event : Events, prev : Seq(Events), hash : Seq(Events)]
  BY <1>1 DEF Lines
<1> HIDE DEF line
<1>3. line.event \in Events /\ line.hash \in Seq(Events)
  BY <1>2
<1> QED BY <1>1, <1>3 DEF line

\* What a line has to continue is a hash.
LEMMA ExpectedType ==
    ASSUME NEW lines \in Seq(Lines), NEW i \in DOMAIN lines
    PROVE  Expected(lines, i) \in Seq(Events)
<1>1. CASE i = 1
  BY <1>1 DEF Expected, Genesis
<1>2. CASE i # 1
  <2>1. i - 1 \in DOMAIN lines
    BY <1>2
  <2> QED BY <1>2, <2>1, LineType DEF Expected
<1> QED BY <1>1, <1>2

\* A line of an intact chain does not fit in the place of the one before it.
LEMMA LineDoesNotMoveUp ==
    ASSUME NEW lines \in Seq(Lines), Intact(lines), NEW i \in 1 .. Len(lines) - 1
    PROVE  lines[i + 1].prev # Expected(lines, i)
<1>1. i \in DOMAIN lines /\ i + 1 \in DOMAIN lines
  OBVIOUS
<1>2. lines[i + 1].prev = lines[i].hash
  BY <1>1 DEF Intact, Expected
<1>3. lines[i].hash = Hash(Expected(lines, i), lines[i].event)
  BY <1>1 DEF Intact
<1>4. lines[i].event \in Events
  BY <1>1, LineType
<1>5. Hash(Expected(lines, i), lines[i].event) # Expected(lines, i)
  BY <1>1, <1>4, ExpectedType, HashFacts
<1> QED BY <1>2, <1>3, <1>5

\* A chain with a line that does not continue what is before it is not intact.
LEMMA MisfitBreaks ==
    ASSUME NEW lines, NEW i \in DOMAIN lines,
           \/ lines[i].prev # Expected(lines, i)
           \/ lines[i].hash # Hash(Expected(lines, i), lines[i].event)
    PROVE  ~Intact(lines)
BY DEF Intact

\* In a chain of any length, removing a line other than the last, exchanging two
\* neighbours or editing a line is detected by verify_events_chain.
THEOREM TamperingIsDetected ==
    ASSUME NEW lines \in Seq(Lines), Intact(lines)
    PROVE  ShowsTampering(lines)
<1>1. ASSUME NEW i \in 1 .. Len(lines) - 1 PROVE ~Intact(Removed(lines, i))
  <2> DEFINE a == SubSeq(lines, 1, i - 1)
             b == SubSeq(lines, i + 1, Len(lines))
             r == a \o b
  <2>1. a \in Seq(Lines) /\ Len(a) = i - 1 /\ \A j \in 1 .. i - 1 : a[j] = lines[j]
    OBVIOUS
  <2>2. b \in Seq(Lines) /\ Len(b) = Len(lines) - i /\ b[1] = lines[i + 1]
    OBVIOUS
  <2> HIDE DEF a, b
  <2>3. /\ i \in DOMAIN r /\ r[i] = lines[i + 1]
        /\ \A j \in 1 .. i - 1 : r[j] = lines[j]
    BY <2>1, <2>2
  <2> HIDE DEF r
  <2>4. Expected(r, i) = Expected(lines, i)
    BY <2>3 DEF Expected
  <2>5. r[i].prev # Expected(r, i)
    BY <2>3, <2>4, LineDoesNotMoveUp
  <2>6. ~Intact(r)
    BY <2>3, <2>5, MisfitBreaks
  <2> QED BY <2>6 DEF Removed, r, a, b
<1>2. ASSUME NEW i \in 1 .. Len(lines) - 1 PROVE ~Intact(Swapped(lines, i))
  <2> DEFINE s == Swapped(lines, i)
  <2>1. /\ i \in DOMAIN s /\ s[i] = lines[i + 1]
        /\ i # 1 => s[i - 1] = lines[i - 1]
    BY DEF Swapped
  <2> HIDE DEF s
  <2>2. Expected(s, i) = Expected(lines, i)
    BY <2>1 DEF Expected
  <2>3. s[i].prev # Expected(s, i)
    BY <2>1, <2>2, LineDoesNotMoveUp
  <2>4. ~Intact(s)
    BY <2>1, <2>3, MisfitBreaks
  <2> QED BY <2>4 DEF s
<1>3. ASSUME NEW i \in DOMAIN lines, NEW e \in Events, e # lines[i].event
      PROVE  ~Intact(Edited(lines, i, e))
  <2> DEFINE t == Edited(lines, i, e)
             line == lines[i]
  <2>1. line \in Lines /\ line.hash = Hash(Expected(lines, i), line.event)
    BY LineType DEF Intact
  <2>2. i \in DOMAIN t /\ t[i] = [line EXCEPT !.event = e]
    BY DEF Edited
  <2>3. i # 1 => t[i - 1] = lines[i - 1]
    BY DEF Edited
  <2> HIDE DEF t
  <2>4. Expected(t, i) = Expected(lines, i)
    BY <2>3 DEF Expected
  <2>5. Hash(Expected(lines, i), e) # line.hash
    BY <1>3, <2>1, LineType, ExpectedType, HashFacts
  <2> HIDE DEF line
  <2>6. t[i].event = e /\ t[i].hash = line.hash
    BY <2>1, <2>2 DEF Lines
  <2>7. ~Intact(t)
    BY <2>2, <2>4, <2>5, <2>6, MisfitBreaks
  <2> QED BY <2>7 DEF t
<1> QED BY <1>1, <1>2, <1>3 DEF ShowsTampering

(***************************************************************************)
(* Types.                                                                  *)
(***************************************************************************)

Threads == [pc : {"read", "logged", "failed"}, last : Seq(Events)] \cup {Idle}

\* What a file and a command need besides their types: there is a line to be continued,
\* and a backup to be restored.
Sound ==
    /\ BackupTypeOK
    /\ open => log # << >>
    /\ backup # NoBackup /\ backup.open => backup.lines # << >>
    /\ tool.pc \in {"checked", "preserved"} => backup # NoBackup

LEMMA ReadableLines ==
    ASSUME NEW lines \in Seq(Text)
    PROVE  Readable(lines) \in Seq(Lines)
<1>1. PICK g : /\ g = [k \in 0 .. Len(lines) |-> ReadStep(lines, g, k)]
               /\ Readable(lines) = g[Len(lines)]
  BY ReadableDef
<1> DEFINE S == {n \in Nat : n <= Len(lines) => g[n] \in Seq(Lines)}
<1>2. 0 \in S
  <2>1. g[0] = ReadStep(lines, g, 0)
    BY <1>1
  <2>2. g[0] = << >>
    BY <2>1 DEF ReadStep
  <2>3. << >> \in Seq(Lines)
    OBVIOUS
  <2> QED BY <2>2, <2>3
<1>3. ASSUME NEW n \in Nat, n \in S PROVE n + 1 \in S
  <2> SUFFICES ASSUME n + 1 <= Len(lines) PROVE g[n + 1] \in Seq(Lines)
    OBVIOUS
  <2>1. g[n + 1] = ReadStep(lines, g, n + 1)
    BY <1>1
  <2>2. g[n + 1] = IF Parses(lines[n + 1]) THEN Append(g[n], lines[n + 1]) ELSE g[n]
    BY <2>1 DEF ReadStep
  <2>3. g[n] \in Seq(Lines)
    BY <1>3
  <2>4. lines[n + 1] \in Text
    OBVIOUS
  <2>5. Parses(lines[n + 1]) => lines[n + 1] \in Lines
    BY <2>4, TextFacts
  <2> QED BY <2>2, <2>3, <2>5
<1> HIDE DEF S
<1>4. Len(lines) \in S
  BY <1>2, <1>3, Induction
<1> QED BY <1>1, <1>4 DEF S

LEMMA HashBeforeType ==
    ASSUME NEW lines \in Seq(Text), NEW i \in 1 .. Len(lines) + 1
    PROVE  HashBefore(lines, i) \in Seq(Events)
<1> DEFINE P == {j \in 1 .. i - 1 : Parses(lines[j])}
<1>1. CASE P = {}
  BY <1>1 DEF HashBefore, Genesis
<1>2. CASE P # {}
  <2>1. P \in SUBSET Int /\ i - 1 \in Int /\ \A j \in P : j <= i - 1
    OBVIOUS
  <2>2. Max(P) \in P
    <3> HIDE DEF P
    <3> QED BY <1>2, <2>1, LastNumber
  <2>3. lines[Max(P)] \in Text /\ Parses(lines[Max(P)])
    BY <2>2
  <2>4. lines[Max(P)].hash \in Seq(Events)
    BY <2>3, TextFacts DEF Lines
  <2> QED BY <1>2, <2>4 DEF HashBefore
<1> QED BY <1>1, <1>2

\* An append changes the last line, and leaves a line that parses only if it began one.
LEMMA ExtendedFacts ==
    ASSUME Sound, NEW line \in Text
    PROVE  \E n \in 1 .. Len(log) + 1 :
               /\ Extended(line) \in Seq(Text) /\ Len(Extended(line)) = n
               /\ n = IF open THEN Len(log) ELSE Len(log) + 1
               /\ \A j \in 1 .. n - 1 : Extended(line)[j] = log[j]
               /\ Of(line) \subseteq Of(Extended(line)[n])
               /\ Parses(Extended(line)[n]) => ~open
               /\ ~open => Extended(line)[n] = line
<1>1. log \in Seq(Text) /\ Of(line) \subseteq Events
  BY TextFacts DEF Sound, BackupTypeOK, TypeOK
<1>2. CASE open
  <2> DEFINE n == Len(log)
             new == Garbage(Of(log[n]) \cup Of(line))
  <2>1. n \in 1 .. Len(log) /\ log[n] \in Text
    BY <1>1, <1>2 DEF Sound
  <2>2. Of(log[n]) \cup Of(line) \in SUBSET Events
    BY <1>1, <2>1, TextFacts
  <2>3. new \in Text /\ ~Parses(new) /\ Of(new) = Of(log[n]) \cup Of(line)
    BY <2>2, GarbageFacts
  <2>4. Extended(line) = [log EXCEPT ![n] = new]
    BY <1>2 DEF Extended
  <2> HIDE DEF new
  <2>5. /\ Extended(line) \in Seq(Text) /\ Len(Extended(line)) = n
        /\ Extended(line)[n] = new /\ \A j \in 1 .. n - 1 : Extended(line)[j] = log[j]
    BY <1>1, <2>1, <2>3, <2>4
  <2> QED BY <1>2, <2>1, <2>3, <2>5
<1>3. CASE ~open
  <2>1. Extended(line) = Append(log, line)
    BY <1>3 DEF Extended
  <2>2. /\ Extended(line) \in Seq(Text) /\ Len(Extended(line)) = Len(log) + 1
        /\ Extended(line)[Len(log) + 1] = line
        /\ \A j \in 1 .. Len(log) : Extended(line)[j] = log[j]
    BY <1>1, <2>1
  <2>3. Len(log) + 1 \in 1 .. Len(log) + 1 /\ Len(log) + 1 - 1 = Len(log)
    BY <1>1
  <2> QED BY <1>3, <2>2, <2>3
<1> QED BY <1>2, <1>3

\* A thread that has read the last hash ends in one of two ways.
Ended(t, pc) == [t EXCEPT !.pc = pc]

LEMMA EndedFacts ==
    ASSUME NEW t \in Threads, t.pc = "read", NEW pc \in {"logged", "failed"}
    PROVE  t.last \in Seq(Events) /\ Ended(t, pc) \in Threads /\ Ended(t, pc).pc = pc
BY DEF Threads, Ended, Idle

LEMMA ThreadSteps ==
    ASSUME TypeOK, NEW e \in Events
    PROVE  /\ thread[e] \in Threads
           /\ Read(e) => /\ thread[e].pc = "idle" /\ thread'[e].pc = "read"
                         /\ thread'[e].last = LastHash
           /\ Write(e) => thread[e].pc = "read" /\ thread'[e].pc = "logged"
           /\ Tear(e) \/ Fail(e) => thread[e].pc = "read" /\ thread'[e].pc = "failed"
           /\ Read(e) \/ Write(e) \/ Tear(e) \/ Fail(e) =>
                  /\ thread' \in [Events -> Threads]
                  /\ \A f \in Events : f # e => thread'[f] = thread[f]
<1>1. thread \in [Events -> Threads] /\ thread[e] \in Threads
  BY DEF TypeOK, Threads
<1>2. ASSUME Read(e)
      PROVE  /\ thread[e].pc = "idle" /\ thread'[e].pc = "read" /\ thread'[e].last = LastHash
             /\ thread' \in [Events -> Threads]
             /\ \A f \in Events : f # e => thread'[f] = thread[f]
  <2> DEFINE new == [pc |-> "read", last |-> LastHash]
  <2>1. LastHash \in Seq(Events)
    BY HashBeforeType DEF LastHash, TypeOK
  <2>2. new \in Threads /\ new.pc = "read" /\ new.last = LastHash
    BY <2>1 DEF Threads
  <2>3. thread[e].pc = "idle" /\ thread' = [thread EXCEPT ![e] = new]
    BY <1>2 DEF Read, Idle
  <2> HIDE DEF new
  <2> QED BY <1>1, <2>2, <2>3
<1>3. ASSUME NEW pc \in {"logged", "failed"}, thread[e].pc = "read",
             thread' = [thread EXCEPT ![e].pc = pc]
      PROVE  /\ thread'[e].pc = pc
             /\ thread' \in [Events -> Threads]
             /\ \A f \in Events : f # e => thread'[f] = thread[f]
  <2>1. thread'[e] = Ended(thread[e], pc) /\ \A f \in Events : f # e => thread'[f] = thread[f]
    BY <1>1, <1>3 DEF Ended
  <2>2. thread'[e] \in Threads /\ thread'[e].pc = pc
    BY <1>1, <1>3, <2>1, EndedFacts
  <2> QED BY <1>1, <1>3, <2>1, <2>2
<1>4. ASSUME Write(e)
      PROVE  thread[e].pc = "read" /\ thread' = [thread EXCEPT ![e].pc = "logged"]
  BY <1>4 DEF Write
<1>5. ASSUME Tear(e) \/ Fail(e)
      PROVE  thread[e].pc = "read" /\ thread' = [thread EXCEPT ![e].pc = "failed"]
  BY <1>5 DEF Tear, Fail
<1> QED BY <1>1, <1>2, <1>3, <1>4, <1>5

\* What an append does to the file, cut short or not.
LEMMA AppendSteps ==
    ASSUME Sound, NEW e \in Events, Write(e) \/ Tear(e)
    PROVE  /\ thread[e].last \in Seq(Events)
           /\ log' \in Seq(Text) /\ Len(log') \in Nat \ {0}
           /\ Len(log') = IF open THEN Len(log) ELSE Len(log) + 1
           /\ \A j \in 1 .. Len(log') - 1 : log'[j] = log[j]
           /\ e \in Of(log'[Len(log')])
           /\ Parses(log'[Len(log')]) =>
                  ~open /\ log'[Len(log')] = Line(thread[e].last, e)
           /\ Write(e) /\ ~open => Parses(log'[Len(log')])
<1>1. TypeOK
  BY DEF Sound, BackupTypeOK
<1>2. thread[e].last \in Seq(Events)
  <2>1. thread[e] \in Threads /\ thread[e].pc = "read"
    BY <1>1, ThreadSteps
  <2> QED BY <2>1, EndedFacts
<1>3. PICK line \in {Garbage({e}), Line(thread[e].last, e)} :
          log' = Extended(line) /\ (Write(e) => line = Line(thread[e].last, e))
  <2>1. CASE Write(e)
    BY <2>1 DEF Write
  <2>2. CASE Tear(e)
    <3>1. ~Write(e)
      BY <1>1, <2>2, ThreadSteps
    <3>2. \E part \in {Garbage({e}), Line(thread[e].last, e)} : log' = Extended(part)
      BY <2>2 DEF Tear
    <3> QED BY <3>1, <3>2
  <2> QED BY <2>1, <2>2
<1>4. /\ line \in Text /\ Of(line) = {e}
      /\ Parses(line) => line = Line(thread[e].last, e)
      /\ Write(e) => Parses(line)
  BY <1>2, <1>3, LineFacts, GarbageFacts
<1>5. PICK n \in 1 .. Len(log) + 1 :
               /\ Extended(line) \in Seq(Text) /\ Len(Extended(line)) = n
               /\ n = IF open THEN Len(log) ELSE Len(log) + 1
               /\ \A j \in 1 .. n - 1 : Extended(line)[j] = log[j]
               /\ Of(line) \subseteq Of(Extended(line)[n])
               /\ Parses(Extended(line)[n]) => ~open
               /\ ~open => Extended(line)[n] = line
  BY <1>4, ExtendedFacts
<1>6. n \in Nat \ {0}
  BY <1>1 DEF TypeOK
<1> QED BY <1>2, <1>3, <1>4, <1>5, <1>6

\* What a restore does to it.
LEMMA OverwriteSteps ==
    ASSUME Sound, Overwrite
    PROVE  /\ backup \in File /\ tool.pc = "preserved"
           /\ log' \in Seq(Text) /\ open' \in BOOLEAN /\ (open' => log' # << >>)
           /\ Len(log') <= Len(backup.lines)
           /\ \A i \in 1 .. Len(log') :
                  Parses(log'[i]) => \A j \in 1 .. i : log'[j] = backup.lines[j]
<1> DEFINE lines == backup.lines
<1>1. tool.pc = "preserved" /\ backup \in File
  BY DEF Overwrite, Sound, BackupTypeOK
<1>2. lines \in Seq(Text) /\ backup.open \in BOOLEAN /\ (backup.open => lines # << >>)
  BY <1>1 DEF File, Sound, NoBackup
<1> HIDE DEF lines
<1>3. CASE log' = lines /\ open' = backup.open
  BY <1>1, <1>2, <1>3 DEF lines
<1>4. ASSUME NEW n \in 0 .. Len(lines) - 1, log' = SubSeq(lines, 1, n), open' = FALSE
      PROVE  /\ log' \in Seq(Text) /\ open' \in BOOLEAN /\ (open' => log' # << >>)
             /\ Len(log') <= Len(lines) /\ \A j \in 1 .. Len(log') : log'[j] = lines[j]
  <2>1. SubSeq(lines, 1, n) \in Seq(Text) /\ Len(SubSeq(lines, 1, n)) = n
        /\ \A j \in 1 .. n : SubSeq(lines, 1, n)[j] = lines[j]
    BY <1>2
  <2>2. Len(lines) \in Nat
    BY <1>2
  <2>3. /\ log' \in Seq(Text) /\ Len(log') = n /\ n \in Nat /\ n <= Len(lines)
        /\ \A j \in 1 .. n : log'[j] = lines[j]
    BY <1>4, <2>1, <2>2
  <2>4. open' \in BOOLEAN /\ ~open'
    BY <1>4
  <2> QED BY <2>3, <2>4
<1>5. ASSUME NEW n \in 0 .. Len(lines) - 1,
             log' = Append(SubSeq(lines, 1, n), Garbage(Of(lines[n + 1]))), open' = TRUE
      PROVE  /\ log' \in Seq(Text) /\ open' \in BOOLEAN /\ (open' => log' # << >>)
             /\ Len(log') <= Len(lines)
             /\ \A i \in 1 .. Len(log') :
                    Parses(log'[i]) => \A j \in 1 .. i : log'[j] = lines[j]
  <2> DEFINE part == SubSeq(lines, 1, n)
             last == Garbage(Of(lines[n + 1]))
  <2>1. part \in Seq(Text) /\ Len(part) = n /\ \A j \in 1 .. n : part[j] = lines[j]
    BY <1>2
  <2>2. last \in Text /\ ~Parses(last)
    <3>1. lines[n + 1] \in Text
      BY <1>2
    <3>2. Of(lines[n + 1]) \in SUBSET Events
      BY <3>1, TextFacts
    <3> QED BY <3>2, GarbageFacts
  <2>3. log' = Append(part, last)
    BY <1>5
  <2> HIDE DEF part, last
  <2>4. /\ log' \in Seq(Text) /\ Len(log') = n + 1 /\ log'[n + 1] = last
        /\ \A j \in 1 .. n : log'[j] = lines[j]
    BY <2>1, <2>2, <2>3
  <2>5. n \in Nat /\ n + 1 <= Len(lines)
    BY <1>2
  <2>6. ASSUME NEW i \in 1 .. Len(log'), Parses(log'[i]), NEW j \in 1 .. i
        PROVE  log'[j] = lines[j]
    <3>1. i # n + 1
      BY <2>2, <2>4, <2>6
    <3>2. j \in 1 .. n
      BY <2>4, <2>5, <2>6, <3>1
    <3> QED BY <2>4, <3>2
  <2>7. open' \in BOOLEAN /\ log' # << >> /\ Len(log') <= Len(lines)
    BY <1>5, <2>4, <2>5
  <2> QED BY <2>4, <2>6, <2>7
<1>6. \/ log' = lines /\ open' = backup.open
      \/ \E n \in 0 .. Len(lines) - 1 : log' = SubSeq(lines, 1, n) /\ open' = FALSE
      \/ \E n \in 0 .. Len(lines) - 1 :
             log' = Append(SubSeq(lines, 1, n), Garbage(Of(lines[n + 1]))) /\ open' = TRUE
  BY DEF Overwrite, lines
<1>7. CASE \E n \in 0 .. Len(lines) - 1 : log' = SubSeq(lines, 1, n) /\ open' = FALSE
  <2>1. /\ log' \in Seq(Text) /\ open' \in BOOLEAN /\ (open' => log' # << >>)
        /\ Len(log') <= Len(lines) /\ \A j \in 1 .. Len(log') : log'[j] = lines[j]
    BY <1>4, <1>7
  <2>2. \A i \in 1 .. Len(log') : 1 .. i \subseteq 1 .. Len(log')
    BY <2>1
  <2> QED BY <1>1, <2>1, <2>2 DEF lines
<1>8. CASE \E n \in 0 .. Len(lines) - 1 :
              log' = Append(SubSeq(lines, 1, n), Garbage(Of(lines[n + 1]))) /\ open' = TRUE
  BY <1>1, <1>5, <1>8 DEF lines
<1> QED BY <1>3, <1>6, <1>7, <1>8

LEMMA EventsInType ==
    ASSUME NEW lines \in Seq(Text)
    PROVE  EventsIn(lines) \subseteq Events
<1>1. \A i \in DOMAIN lines : lines[i] \in Text
  OBVIOUS
<1>2. \A i \in DOMAIN lines : Parses(lines[i]) => lines[i].event \in Events
  BY <1>1, TextFacts DEF Lines
<1> QED BY <1>2 DEF EventsIn

LEMMA LoggingIsSound ==
    ASSUME Sound, NEW e \in Events, Read(e) \/ Write(e) \/ Tear(e) \/ Fail(e), UNCHANGED toolVars
    PROVE  Sound'
<1>1. TypeOK /\ thread' \in [Events -> Threads]
  <2>1. TypeOK
    BY DEF Sound, BackupTypeOK
  <2> QED BY <2>1, ThreadSteps
<1>2. TypeOK' /\ (open' => log' # << >>)
  <2>1. CASE Read(e) \/ Fail(e)
    BY <1>1, <2>1 DEF Read, Fail, TypeOK, Threads, Sound
  <2>2. CASE Write(e) \/ Tear(e)
    <3>1. log' \in Seq(Text) /\ log' # << >>
      BY <2>2, AppendSteps
    <3>2. open' \in BOOLEAN /\ tears' \in {tears, tears + 1}
      BY <2>2 DEF Write, Tear
    <3>3. tears \in Nat
      BY <1>1 DEF TypeOK
    <3>4. tears' \in Nat
      BY <3>2, <3>3
    <3> QED BY <1>1, <3>1, <3>2, <3>4 DEF TypeOK, Threads
  <2> QED BY <2>1, <2>2
<1> QED BY <1>2 DEF Sound, BackupTypeOK, toolVars

LEMMA ToolIsSound ==
    ASSUME Sound, \/ ReadEvents \/ Copy \/ Preserve \/ Overwrite
                  \/ \E force \in BOOLEAN : CheckBackup(force)
    PROVE  Sound'
<1>1. TypeOK /\ log \in Seq(Text) /\ open \in BOOLEAN /\ tears \in Nat
  BY DEF Sound, BackupTypeOK, TypeOK
<1>2. EventsIn(log) \subseteq Events /\ Len(Readable(log)) \in Nat
  <2>1. Readable(log) \in Seq(Lines)
    BY <1>1, ReadableLines
  <2> QED BY <1>1, <2>1, EventsInType
<1>3. CASE ReadEvents
  <2>1. /\ TypeOK' /\ UNCHANGED <<log, open, backup, kept, unkept, stale>>
        /\ commands' = commands + 1 /\ tool' = [pc |-> "read", count |-> Len(Readable(log))]
    BY <1>1, <1>3 DEF ReadEvents, Begins, vars, TypeOK
  <2>2. tool' \in [pc : {"read"}, count : Nat] /\ tool'.pc = "read"
    BY <1>2, <2>1
  <2> QED BY <2>1, <2>2 DEF Sound, BackupTypeOK
<1>4. CASE Copy
  <2>1. TypeOK' /\ UNCHANGED <<log, open, commands, unkept, stale>> /\ tool' = NoCommand
    BY <1>1, <1>4 DEF Copy, vars, TypeOK
  <2>2. CASE UNCHANGED <<backup, kept>>
    BY <2>1, <2>2 DEF Sound, BackupTypeOK, NoCommand
  <2>3. CASE /\ backup' = [kind |-> "file", lines |-> log, open |-> open]
             /\ kept' = kept \cup EventsIn(log)
    <3>1. backup' \in File /\ backup'.open = open /\ backup'.lines = log
      BY <1>1, <2>3 DEF File
    <3> QED BY <1>2, <2>1, <2>3, <3>1 DEF Sound, BackupTypeOK, NoCommand
  <2> QED BY <1>4, <2>2, <2>3 DEF Copy
<1>5. CASE \E force \in BOOLEAN : CheckBackup(force)
  <2>1. /\ TypeOK' /\ UNCHANGED <<log, open, backup, kept, unkept, stale>>
        /\ backup # NoBackup /\ commands' = commands + 1 /\ tool' = [pc |-> "checked"]
    BY <1>1, <1>5 DEF CheckBackup, Begins, vars, TypeOK
  <2>2. tool' \in [pc : {"checked"}]
    BY <2>1
  <2> QED BY <2>1, <2>2 DEF Sound, BackupTypeOK
<1>6. CASE Preserve
  <2>1. /\ TypeOK' /\ UNCHANGED <<log, open, backup, commands, unkept, stale>>
        /\ tool.pc = "checked" /\ tool' = [pc |-> "preserved", had |-> Logged]
        /\ kept' = kept \cup EventsIn(log)
    BY <1>1, <1>6 DEF Preserve, Preserved, vars, TypeOK
  <2>2. tool' \in [pc : {"preserved"}, had : SUBSET Events]
    BY <2>1 DEF Logged
  <2> QED BY <1>2, <2>1, <2>2 DEF Sound, BackupTypeOK
<1>7. CASE Overwrite
  <2>1. log' \in Seq(Text) /\ open' \in BOOLEAN /\ (open' => log' # << >>)
    BY <1>7, OverwriteSteps
  <2>2. /\ UNCHANGED <<thread, backup, commands, kept>> /\ tool' = NoCommand
        /\ tears' = (IF open' THEN tears + 1 ELSE tears)
        /\ stale' = stale \cup {e \in Events : thread[e].pc = "read"}
        /\ unkept' = unkept \cup (Logged \ tool.had)
    BY <1>7 DEF Overwrite
  <2>3. tears' \in Nat
    BY <1>1, <2>2
  <2>4. TypeOK'
    BY <1>1, <2>1, <2>2, <2>3 DEF TypeOK
  <2> QED BY <2>1, <2>2, <2>4 DEF Sound, BackupTypeOK, NoCommand, Logged
<1> QED BY <1>3, <1>4, <1>5, <1>6, <1>7

\* Types, and that there always is a line to be continued and a backup to be restored.
THEOREM FilesAreSound == BackupSpec => []Sound
<1>1. BackupInit => Sound
  <2> SUFFICES ASSUME BackupInit PROVE Sound
    OBVIOUS
  <2>1. TypeOK
    <3>1. log = << >> /\ open = FALSE /\ thread = [e \in Events |-> Idle] /\ tears = 0
      BY DEF BackupInit, Init
    <3>2. << >> \in Seq(Text)
      OBVIOUS
    <3>3. thread \in [Events -> [pc : {"read", "logged", "failed"}, last : Seq(Events)]
                                 \cup {Idle}]
      BY <3>1
    <3> QED BY <3>1, <3>2, <3>3 DEF TypeOK
  <2>2. ~open /\ backup = NoBackup /\ tool = NoCommand /\ tool.pc = "none"
    BY DEF BackupInit, Init, NoCommand
  <2> QED BY <2>1, <2>2 DEF BackupInit, Sound, BackupTypeOK
<1>2. Sound /\ [BackupNext]_backupVars => Sound'
  <2>1. ASSUME Sound, UNCHANGED backupVars PROVE Sound'
    BY <2>1 DEF backupVars, vars, toolVars, Sound, BackupTypeOK, TypeOK
  <2> QED BY <2>1, LoggingIsSound, ToolIsSound DEF BackupNext, Next
<1> QED BY <1>1, <1>2, PTL DEF BackupSpec

\* Type correctness of the log, the threads, the backup and the command.
THEOREM TypesAreCorrect == BackupSpec => []BackupTypeOK
<1>1. Sound => BackupTypeOK
  BY DEF Sound
<1> QED BY <1>1, FilesAreSound, PTL

\* Whatever has happened to the file: if verify_events_chain finds its chain intact, it
\* would find any of those changes.
THEOREM TamperingWouldShow == BackupSpec => []TamperingShows
<1>1. Sound => TamperingShows
  <2> SUFFICES ASSUME Sound, Intact(Readable(log)) PROVE ShowsTampering(Readable(log))
    BY DEF TamperingShows
  <2>1. Readable(log) \in Seq(Lines)
    BY ReadableLines DEF Sound, BackupTypeOK, TypeOK
  <2> QED BY <2>1, TamperingIsDetected
<1> QED BY <1>1, FilesAreSound, PTL

(***************************************************************************)
(* What is lost.                                                           *)
(***************************************************************************)

\* Logged events that can be read nowhere, and those a restore under way may make so.
Lost   == Logged \ (EventsIn(log) \cup kept \cup unkept)
Spared == tool.had \ (kept \cup unkept)

\* A line that lacks its newline costs the event that is written next, and nothing else:
\* if it parses, its own event was not logged, or can be read elsewhere.
LastLineIsSpare ==
    open /\ Parses(log[Len(log)]) =>
        thread[log[Len(log)].event].pc = "failed" \/ log[Len(log)].event \in kept

LossInv ==
    /\ LastLineIsSpare
    /\ backup # NoBackup => EventsIn(backup.lines) \subseteq kept
    /\ IsFiniteSet(Lost) /\ Cardinality(Lost) + (IF open THEN 1 ELSE 0) <= tears
    /\ tool.pc = "preserved" => IsFiniteSet(Spared) /\ Cardinality(Spared) <= tears

LEMMA Fewer ==
    ASSUME NEW S, IsFiniteSet(S), NEW T, T \subseteq S
    PROVE  /\ IsFiniteSet(T) /\ Cardinality(T) <= Cardinality(S)
           /\ Cardinality(T) \in Nat /\ Cardinality(S) \in Nat
BY FS_Subset, FS_CardinalityType

LEMMA OneMore ==
    ASSUME NEW S, IsFiniteSet(S), NEW x, NEW T, T \subseteq S \cup {x}
    PROVE  /\ IsFiniteSet(T) /\ Cardinality(T) <= Cardinality(S) + 1
           /\ Cardinality(T) \in Nat /\ Cardinality(S) \in Nat
<1>1. IsFiniteSet(S \cup {x}) /\ Cardinality(S \cup {x}) <= Cardinality(S) + 1
  <2>1. IsFiniteSet(S \cup {x})
        /\ Cardinality(S \cup {x}) = IF x \in S THEN Cardinality(S) ELSE Cardinality(S) + 1
    BY FS_AddElement
  <2>2. Cardinality(S) \in Nat
    BY FS_CardinalityType
  <2> QED BY <2>1, <2>2
<1>2. /\ IsFiniteSet(T) /\ Cardinality(T) <= Cardinality(S \cup {x})
      /\ Cardinality(T) \in Nat /\ Cardinality(S \cup {x}) \in Nat
  BY <1>1, Fewer
<1>3. Cardinality(S) \in Nat
  BY FS_CardinalityType
<1> QED BY <1>1, <1>2, <1>3

\* An append hides at most the last line, and only one that lacks its newline.
LEMMA AppendHides ==
    ASSUME Sound, NEW e \in Events, Write(e) \/ Tear(e)
    PROVE  /\ \A x \in EventsIn(log) :
                  \/ x \in EventsIn(log')
                  \/ open /\ Parses(log[Len(log)]) /\ x = log[Len(log)].event
           /\ Write(e) /\ ~open => e \in EventsIn(log')
<1>1. /\ log \in Seq(Text) /\ log' \in Seq(Text) /\ Len(log') \in Nat \ {0}
      /\ Len(log') = IF open THEN Len(log) ELSE Len(log) + 1
      /\ \A j \in 1 .. Len(log') - 1 : log'[j] = log[j]
  BY AppendSteps DEF Sound, BackupTypeOK, TypeOK
<1>2. ASSUME NEW x \in EventsIn(log)
      PROVE  \/ x \in EventsIn(log')
             \/ open /\ Parses(log[Len(log)]) /\ x = log[Len(log)].event
  <2>1. PICK i \in DOMAIN log : Parses(log[i]) /\ x = log[i].event
    BY <1>2 DEF EventsIn
  <2>2. CASE i \in 1 .. Len(log') - 1
    <3>1. i \in DOMAIN log' /\ log'[i] = log[i]
      BY <1>1, <2>2
    <3> QED BY <2>1, <3>1 DEF EventsIn
  <2>3. CASE i \notin 1 .. Len(log') - 1
    <3>1. open /\ i = Len(log)
      BY <1>1, <2>1, <2>3
    <3> QED BY <2>1, <3>1
  <2> QED BY <2>2, <2>3
<1>3. ASSUME Write(e), ~open PROVE e \in EventsIn(log')
  <2>1. /\ log'[Len(log')] = Line(thread[e].last, e) /\ Parses(log'[Len(log')])
        /\ thread[e].last \in Seq(Events)
    BY <1>3, AppendSteps
  <2>2. log'[Len(log')].event = e
    BY <2>1, LineFacts
  <2>3. Len(log') \in DOMAIN log'
    BY <1>1
  <2> QED BY <2>1, <2>2, <2>3 DEF EventsIn
<1> QED BY <1>2, <1>3

LEMMA LoggingLosesLittle ==
    ASSUME Sound, LossInv, NEW e \in Events, Read(e) \/ Write(e) \/ Tear(e) \/ Fail(e),
           UNCHANGED toolVars
    PROVE  LossInv'
<1>1. /\ TypeOK /\ tears \in Nat
      /\ UNCHANGED <<backup, tool, kept, unkept, stale>> /\ Spared' = Spared
  BY DEF Sound, BackupTypeOK, TypeOK, toolVars, Spared
<1>2. /\ \A f \in Events : thread[f].pc = "failed" => thread'[f].pc = "failed"
      /\ Logged \subseteq Logged' /\ Logged' \subseteq Logged \cup {e}
      /\ ~Write(e) => Logged' = Logged
  BY <1>1, ThreadSteps DEF Logged
<1>3. CASE Read(e) \/ Fail(e)
  <2>1. UNCHANGED <<log, open, tears>> /\ ~Write(e)
    BY <1>1, <1>3, ThreadSteps DEF Read, Fail
  <2>2. Lost' = Lost
    BY <1>1, <1>2, <2>1 DEF Lost, EventsIn
  <2>3. LastLineIsSpare'
    <3>1. open /\ Parses(log[Len(log)]) => log[Len(log)].event \in Events
      BY TextFacts DEF Sound, BackupTypeOK, TypeOK, Lines
    <3> QED BY <1>1, <1>2, <2>1, <3>1 DEF LossInv, LastLineIsSpare
  <2> QED BY <1>1, <2>1, <2>2, <2>3 DEF LossInv
<1>4. CASE Write(e)
  <2>1. open' = FALSE /\ tears' = tears
    BY <1>4 DEF Write
  <2>2. IsFiniteSet(Lost') /\ Cardinality(Lost') <= tears
    <3>1. CASE open
      <4>1. \A x \in EventsIn(log) \cap Logged : x \in EventsIn(log') \/ x \in kept
        BY <1>4, AppendHides DEF LossInv, LastLineIsSpare, Logged
      <4>2. Lost' \subseteq Lost \cup {e}
        BY <1>1, <1>2, <4>1 DEF Lost
      <4>3. IsFiniteSet(Lost) /\ Cardinality(Lost) + 1 <= tears
        BY <3>1 DEF LossInv
      <4> HIDE DEF Lost
      <4> QED BY <1>1, <4>2, <4>3, OneMore
    <3>2. CASE ~open
      <4>1. EventsIn(log) \subseteq EventsIn(log') /\ e \in EventsIn(log')
        BY <1>4, <3>2, AppendHides
      <4>2. Lost' \subseteq Lost
        BY <1>1, <1>2, <4>1 DEF Lost
      <4>3. IsFiniteSet(Lost) /\ Cardinality(Lost) + 0 <= tears
        BY <3>2 DEF LossInv
      <4> QED BY <1>1, <4>2, <4>3, Fewer
    <3> QED BY <3>1, <3>2
  <2>3. LastLineIsSpare'
    BY <2>1 DEF LastLineIsSpare
  <2>4. Cardinality(Lost') \in Nat
    BY <2>2, FS_CardinalityType
  <2> QED BY <1>1, <2>1, <2>2, <2>3, <2>4 DEF LossInv
<1>5. CASE Tear(e)
  <2>1. open' = TRUE /\ tears' = tears + 1 /\ ~Write(e) /\ thread'[e].pc = "failed"
    BY <1>1, <1>5, ThreadSteps DEF Tear
  <2>2. \A x \in EventsIn(log) \cap Logged : x \in EventsIn(log') \/ x \in kept
    BY <1>5, AppendHides DEF LossInv, LastLineIsSpare, Logged
  <2>3. Lost' \subseteq Lost
    BY <1>1, <1>2, <2>1, <2>2 DEF Lost
  <2>4. IsFiniteSet(Lost) /\ Cardinality(Lost) + (IF open THEN 1 ELSE 0) <= tears
    BY DEF LossInv
  <2>5. IsFiniteSet(Lost') /\ Cardinality(Lost') <= tears /\ Cardinality(Lost') \in Nat
    BY <1>1, <2>3, <2>4, Fewer
  <2>6. LastLineIsSpare'
    <3>1. Parses(log'[Len(log')]) => log'[Len(log')].event = e
      BY <1>5, AppendSteps, LineFacts
    <3> QED BY <2>1, <3>1 DEF LastLineIsSpare
  <2>7. Cardinality(Lost') + 1 <= tears'
    BY <1>1, <2>1, <2>5
  <2>8. tool.pc = "preserved" => IsFiniteSet(Spared) /\ Cardinality(Spared) <= tears'
    <3>1. tool.pc = "preserved" => IsFiniteSet(Spared) /\ Cardinality(Spared) <= tears
      BY DEF LossInv
    <3>2. IsFiniteSet(Spared) => Cardinality(Spared) \in Nat
      BY FS_CardinalityType
    <3> QED BY <1>1, <2>1, <3>1, <3>2
  <2> QED BY <1>1, <2>1, <2>5, <2>6, <2>7, <2>8 DEF LossInv
<1> QED BY <1>3, <1>4, <1>5

LEMMA ToolLosesLittle ==
    ASSUME Sound, LossInv, \/ ReadEvents \/ Copy \/ Preserve \/ Overwrite
                           \/ \E force \in BOOLEAN : CheckBackup(force)
    PROVE  LossInv'
<1>1. /\ IsFiniteSet(Lost) /\ Cardinality(Lost) \in Nat /\ tears \in Nat
      /\ Cardinality(Lost) + (IF open THEN 1 ELSE 0) <= tears /\ Cardinality(Lost) <= tears
  <2>1. IsFiniteSet(Lost) /\ Cardinality(Lost) + (IF open THEN 1 ELSE 0) <= tears
    BY DEF LossInv
  <2>2. Cardinality(Lost) \in Nat /\ tears \in Nat
    BY <2>1, FS_CardinalityType DEF Sound, BackupTypeOK, TypeOK
  <2> QED BY <2>1, <2>2
<1>2. ASSUME UNCHANGED vars, kept \subseteq kept', UNCHANGED unkept
      PROVE  /\ LastLineIsSpare' /\ IsFiniteSet(Lost')
             /\ Cardinality(Lost') + (IF open' THEN 1 ELSE 0) <= tears'
  <2>1. UNCHANGED <<log, open, thread, tears>>
    BY <1>2 DEF vars
  <2>2. Lost' \subseteq Lost
    BY <1>2, <2>1 DEF Lost, Logged, EventsIn
  <2>3. IsFiniteSet(Lost') /\ Cardinality(Lost') <= Cardinality(Lost) /\ Cardinality(Lost') \in Nat
    BY <1>1, <2>2, Fewer
  <2> QED BY <1>1, <1>2, <2>1, <2>3 DEF LossInv, LastLineIsSpare
<1>3. CASE ReadEvents \/ \E force \in BOOLEAN : CheckBackup(force)
  <2>1. UNCHANGED <<vars, backup, kept, unkept>> /\ tool'.pc # "preserved"
    BY <1>3 DEF ReadEvents, CheckBackup, Begins
  <2> QED BY <1>2, <2>1 DEF LossInv, EventsIn
<1>4. CASE Copy
  <2>1. UNCHANGED vars /\ kept \subseteq kept' /\ UNCHANGED unkept /\ tool'.pc # "preserved"
    BY <1>4 DEF Copy, NoCommand
  <2>2. CASE UNCHANGED <<backup, kept>>
    BY <1>2, <2>1, <2>2 DEF LossInv, EventsIn
  <2>3. CASE /\ backup' = [kind |-> "file", lines |-> log, open |-> open]
             /\ kept' = kept \cup EventsIn(log)
    <3>1. backup'.lines = log
      BY <2>3
    <3>2. EventsIn(backup'.lines) \subseteq kept'
      BY <2>3, <3>1
    <3> QED BY <1>2, <2>1, <3>2 DEF LossInv, EventsIn
  <2> QED BY <1>4, <2>2, <2>3 DEF Copy
<1>5. CASE Preserve
  <2>1. /\ UNCHANGED <<vars, backup, unkept>> /\ kept' = kept \cup EventsIn(log)
        /\ tool' = [pc |-> "preserved", had |-> Logged]
    BY <1>5 DEF Preserve, Preserved, vars
  <2>2. Spared' = Lost
    BY <2>1 DEF Spared, Lost, Logged
  <2>3. IsFiniteSet(Spared') /\ Cardinality(Spared') <= tears'
    BY <1>1, <2>1, <2>2 DEF vars
  <2> QED BY <1>2, <2>1, <2>3 DEF LossInv, EventsIn
<1>6. CASE Overwrite
  <2>1. /\ UNCHANGED <<thread, backup, commands, kept>> /\ tool' = NoCommand
        /\ tears' = (IF open' THEN tears + 1 ELSE tears)
        /\ unkept' = unkept \cup (Logged \ tool.had)
    BY <1>6 DEF Overwrite
  <2>2. /\ backup \in File /\ tool.pc = "preserved" /\ log' \in Seq(Text)
        /\ (open' => log' # << >>) /\ Len(log') <= Len(backup.lines)
        /\ \A i \in 1 .. Len(log') :
               Parses(log'[i]) => \A j \in 1 .. i : log'[j] = backup.lines[j]
    BY <1>6, OverwriteSteps
  <2>3. EventsIn(backup.lines) \subseteq kept
    BY <2>2 DEF LossInv, File, NoBackup
  <2>4. LastLineIsSpare'
    <3> SUFFICES ASSUME open', Parses(log'[Len(log')]) PROVE log'[Len(log')].event \in kept
      BY <2>1 DEF LastLineIsSpare
    <3> DEFINE n == Len(log')
    <3>1. n \in 1 .. Len(log') /\ backup.lines \in Seq(Text)
      BY <2>2 DEF File
    <3>2. log'[n] = backup.lines[n] /\ n \in DOMAIN backup.lines
      BY <2>2, <3>1
    <3>3. log'[n].event \in EventsIn(backup.lines)
      BY <3>2 DEF EventsIn
    <3> QED BY <2>3, <3>3
  <2>5. IsFiniteSet(Spared) /\ Cardinality(Spared) <= tears
    BY <2>2 DEF LossInv
  <2>6. Lost' \subseteq Spared
    BY <2>1 DEF Lost, Spared, Logged
  <2>7. IsFiniteSet(Lost') /\ Cardinality(Lost') <= Cardinality(Spared)
        /\ Cardinality(Lost') \in Nat /\ Cardinality(Spared) \in Nat
    BY <2>5, <2>6, Fewer
  <2>8. Cardinality(Lost') + (IF open' THEN 1 ELSE 0) <= tears'
    BY <1>1, <2>1, <2>5, <2>7
  <2>9. EventsIn(backup'.lines) \subseteq kept' /\ tool'.pc # "preserved"
    BY <2>1, <2>3 DEF NoCommand
  <2> QED BY <2>4, <2>7, <2>8, <2>9 DEF LossInv, EventsIn
<1> QED BY <1>3, <1>4, <1>5, <1>6

\* Of the events whose log_event has returned, no more than one for each line that was
\* left without its newline can be read nowhere, apart from those logged between the two
\* copies of a restore: so for any number of events, tears and restores.
THEOREM LossesAreBounded == BackupSpec => []NothingIsLost
<1>1. BackupInit => LossInv
  <2> SUFFICES ASSUME BackupInit PROVE LossInv
    OBVIOUS
  <2>1. /\ open = FALSE /\ tears = 0 /\ backup = NoBackup /\ tool.pc = "none"
        /\ thread = [e \in Events |-> Idle]
    BY DEF BackupInit, Init, NoCommand
  <2>2. Lost = {}
    BY <2>1 DEF Lost, Logged, Idle
  <2> QED BY <2>1, <2>2, FS_EmptySet DEF LossInv, LastLineIsSpare
<1>2. Sound /\ LossInv /\ [BackupNext]_backupVars => LossInv'
  <2>1. ASSUME LossInv, UNCHANGED backupVars PROVE LossInv'
    BY <2>1 DEF backupVars, vars, toolVars, LossInv, LastLineIsSpare, Lost, Spared, Logged, EventsIn
  <2> QED BY <2>1, LoggingLosesLittle, ToolLosesLittle DEF BackupNext, Next
<1>3. Sound /\ LossInv => NothingIsLost
  <2> SUFFICES ASSUME Sound, LossInv PROVE Cardinality(Lost) <= tears
    BY DEF NothingIsLost, Lost
  <2>1. IsFiniteSet(Lost) /\ Cardinality(Lost) + (IF open THEN 1 ELSE 0) <= tears
    BY DEF LossInv
  <2>2. Cardinality(Lost) \in Nat /\ tears \in Nat
    BY <2>1, FS_CardinalityType DEF Sound, BackupTypeOK, TypeOK
  <2> QED BY <2>1, <2>2
<1> QED BY <1>1, <1>2, <1>3, FilesAreSound, PTL DEF BackupSpec

(***************************************************************************)
(* Where the chain breaks.                                                 *)
(***************************************************************************)

\* The causes a line may have for not continuing the chain; exempt: events whose
\* log_event read a log that has been overwritten since.
Follows(lines, i, exempt) ==
    \/ lines[i].prev = HashBefore(lines, i)
    \/ i > 1 /\ \E e \in Of(lines[i - 1]) : Home[e] # Home[lines[i].event]
    \/ lines[i].event \in exempt

Sealed(line) == line.hash = Hash(line.prev, line.event)

Chained(lines, exempt) ==
    \A i \in DOMAIN lines :
        Parses(lines[i]) => Follows(lines, i, exempt) /\ Sealed(lines[i])

LEMMA FollowsAgrees ==
    ASSUME NEW lines, NEW other, NEW i \in Nat \ {0}, \A j \in 1 .. i : other[j] = lines[j],
           NEW exempt, NEW more, exempt \subseteq more, Follows(lines, i, exempt)
    PROVE  Follows(other, i, more)
<1>1. HashBefore(other, i) = HashBefore(lines, i)
  BY HashBeforeAgrees
<1>2. other[i] = lines[i] /\ (i > 1 => other[i - 1] = lines[i - 1])
  OBVIOUS
<1> QED BY <1>1, <1>2 DEF Follows

LEMMA ChainedPart ==
    ASSUME NEW lines \in Seq(Text), NEW other \in Seq(Text), Len(other) <= Len(lines),
           \A i \in 1 .. Len(other) :
               Parses(other[i]) => \A j \in 1 .. i : other[j] = lines[j],
           NEW exempt, NEW more, exempt \subseteq more, Chained(lines, exempt)
    PROVE  Chained(other, more)
<1> SUFFICES ASSUME NEW i \in DOMAIN other, Parses(other[i])
             PROVE  Follows(other, i, more) /\ Sealed(other[i])
  BY DEF Chained
<1>1. i \in Nat \ {0} /\ i \in DOMAIN lines /\ \A j \in 1 .. i : other[j] = lines[j]
  OBVIOUS
<1>2. other[i] = lines[i]
  BY <1>1
<1>3. Follows(lines, i, exempt) /\ Sealed(lines[i])
  BY <1>1, <1>2 DEF Chained
<1> QED BY <1>1, <1>2, <1>3, FollowsAgrees

\* What a thread has read is what its line must continue, or has a cause.  _lock lets
\* one thread of a process read and append at a time.
KnownInv ==
    \A e \in Events : thread[e].pc = "read" =>
        /\ \/ e \in stale
           \/ thread[e].last = LastHash
           \/ log # << >> /\ \E f \in Of(log[Len(log)]) : Home[f] # Home[e]
        /\ \A f \in Events : thread[f].pc = "read" /\ Home[f] = Home[e] => f = e

ChainInv ==
    /\ Chained(log, stale)
    /\ backup # NoBackup => Chained(backup.lines, stale)
    /\ KnownInv

LEMMA AppendIsChained ==
    ASSUME Sound, ChainInv, NEW e \in Events, Write(e) \/ Tear(e)
    PROVE  Chained(log', stale)
<1> DEFINE n == Len(log')
<1>1. /\ thread[e].last \in Seq(Events) /\ n \in Nat \ {0} /\ log' \in Seq(Text)
      /\ n = IF open THEN Len(log) ELSE Len(log) + 1
      /\ \A j \in 1 .. n - 1 : log'[j] = log[j]
      /\ Parses(log'[n]) => ~open /\ log'[n] = Line(thread[e].last, e)
  BY AppendSteps
<1>2. log \in Seq(Text) /\ thread[e].pc = "read"
  BY ThreadSteps DEF Sound, BackupTypeOK, TypeOK
<1>3. ASSUME Parses(log'[n]) PROVE Follows(log', n, stale) /\ Sealed(log'[n])
  <2>1. /\ log'[n].prev = thread[e].last /\ log'[n].event = e
        /\ log'[n].hash = Hash(thread[e].last, e)
    BY <1>1, <1>3, LineFacts
  <2>2. n = Len(log) + 1
    BY <1>1, <1>3
  <2>3. LastHash = HashBefore(log', n)
    <3>1. \A j \in 1 .. n - 1 : log[j] = log'[j]
      BY <1>1
    <3>2. HashBefore(log, n) = HashBefore(log', n)
      BY <1>1, <3>1, HashBeforeAgrees
    <3> QED BY <2>2, <3>2 DEF LastHash
  <2>4. log # << >> => n > 1 /\ log'[n - 1] = log[Len(log)]
    BY <1>1, <1>2, <2>2
  <2>5. \/ e \in stale
        \/ thread[e].last = LastHash
        \/ log # << >> /\ \E f \in Of(log[Len(log)]) : Home[f] # Home[e]
    BY <1>2 DEF ChainInv, KnownInv
  <2> QED BY <2>1, <2>3, <2>4, <2>5 DEF Follows, Sealed
<1>4. ASSUME NEW i \in 1 .. n - 1, Parses(log'[i]) PROVE Follows(log', i, stale) /\ Sealed(log'[i])
  <2>1. /\ i \in Nat \ {0} /\ i \in DOMAIN log /\ log'[i] = log[i]
        /\ \A j \in 1 .. i : log'[j] = log[j]
    BY <1>1, <1>2
  <2>2. Follows(log, i, stale) /\ Sealed(log[i])
    BY <1>4, <2>1 DEF ChainInv, Chained
  <2> QED BY <2>1, <2>2, FollowsAgrees
<1>5. \A i \in DOMAIN log' : i \in 1 .. n - 1 \/ i = n
  BY <1>1
<1> HIDE DEF n
<1> QED BY <1>3, <1>4, <1>5 DEF Chained

LEMMA LoggingChains ==
    ASSUME Sound, ChainInv, NEW e \in Events, Read(e) \/ Write(e) \/ Tear(e) \/ Fail(e),
           UNCHANGED toolVars
    PROVE  ChainInv'
<1>1. TypeOK /\ UNCHANGED <<backup, stale>>
  BY DEF Sound, BackupTypeOK, toolVars
<1>2. \A f \in Events : f # e => thread'[f] = thread[f]
  BY <1>1, ThreadSteps
<1>3. CASE Read(e)
  <2>1. UNCHANGED log /\ Appending(Home[e]) = {} /\ thread'[e].last = LastHash
    BY <1>1, <1>3, ThreadSteps DEF Read
  <2>2. \A f \in Events : thread[f].pc = "read" => Home[f] # Home[e]
    BY <2>1 DEF Appending
  <2>3. LastHash' = LastHash
    BY <2>1 DEF LastHash
  <2>4. KnownInv'
    BY <1>1, <1>2, <2>1, <2>2, <2>3 DEF ChainInv, KnownInv
  <2> QED BY <1>1, <2>1, <2>4 DEF ChainInv
<1>4. CASE Fail(e)
  <2>1. UNCHANGED log /\ thread'[e].pc # "read"
    BY <1>1, <1>4, ThreadSteps DEF Fail
  <2>2. LastHash' = LastHash
    BY <2>1 DEF LastHash
  <2>3. KnownInv'
    BY <1>1, <1>2, <2>1, <2>2 DEF ChainInv, KnownInv
  <2> QED BY <1>1, <2>1, <2>3 DEF ChainInv
<1>5. CASE Write(e) \/ Tear(e)
  <2>1. thread[e].pc = "read" /\ thread'[e].pc # "read"
    BY <1>1, <1>5, ThreadSteps
  <2>2. log' # << >> /\ e \in Of(log'[Len(log')])
    BY <1>5, AppendSteps
  <2>3. \A f \in Events : thread'[f].pc = "read" => thread[f].pc = "read" /\ Home[f] # Home[e]
    BY <1>2, <2>1 DEF ChainInv, KnownInv
  <2>4. KnownInv'
    BY <1>2, <2>1, <2>2, <2>3 DEF ChainInv, KnownInv
  <2> QED BY <1>1, <1>5, <2>4, AppendIsChained DEF ChainInv
<1> QED BY <1>3, <1>4, <1>5

LEMMA ToolChains ==
    ASSUME Sound, ChainInv, \/ ReadEvents \/ Copy \/ Preserve \/ Overwrite
                            \/ \E force \in BOOLEAN : CheckBackup(force)
    PROVE  ChainInv'
<1>1. CASE ReadEvents \/ Preserve \/ \E force \in BOOLEAN : CheckBackup(force)
  <2>1. UNCHANGED <<log, thread, backup, stale>>
    BY <1>1 DEF ReadEvents, Preserve, CheckBackup, vars
  <2> QED BY <2>1 DEF ChainInv, KnownInv, LastHash
<1>2. CASE Copy
  <2>1. UNCHANGED <<log, thread, stale>> /\ (backup' = backup \/ backup'.lines = log)
    BY <1>2 DEF Copy, vars
  <2>2. Chained(log, stale) /\ (backup # NoBackup => Chained(backup.lines, stale))
    BY DEF ChainInv
  <2>3. backup' # NoBackup => Chained(backup'.lines, stale)
    BY <2>1, <2>2
  <2> QED BY <2>1, <2>2, <2>3 DEF ChainInv, KnownInv, LastHash
<1>3. CASE Overwrite
  <2>1. /\ UNCHANGED <<thread, backup>>
        /\ stale' = stale \cup {e \in Events : thread[e].pc = "read"}
    BY <1>3 DEF Overwrite
  <2>2. /\ backup \in File /\ log' \in Seq(Text) /\ Len(log') <= Len(backup.lines)
        /\ \A i \in 1 .. Len(log') :
               Parses(log'[i]) => \A j \in 1 .. i : log'[j] = backup.lines[j]
    BY <1>3, OverwriteSteps
  <2>3. backup # NoBackup /\ backup.lines \in Seq(Text)
    BY <2>2 DEF File, NoBackup
  <2>4. Chained(backup.lines, stale) /\ stale \subseteq stale'
    BY <2>1, <2>3 DEF ChainInv
  <2>5. Chained(log', stale')
    BY <2>2, <2>3, <2>4, ChainedPart
  <2>6. Chained(backup.lines, stale')
    <3>1. \A i \in 1 .. Len(backup.lines) : Parses(backup.lines[i]) =>
              \A j \in 1 .. i : backup.lines[j] = backup.lines[j]
      OBVIOUS
    <3>2. Len(backup.lines) <= Len(backup.lines)
      BY <2>3
    <3> QED BY <2>3, <2>4, <3>1, <3>2, ChainedPart
  <2>7. KnownInv'
    BY <2>1 DEF ChainInv, KnownInv
  <2> QED BY <2>1, <2>5, <2>6, <2>7 DEF ChainInv
<1> QED BY <1>1, <1>2, <1>3

LEMMA ChainsHold == BackupSpec => [](Sound /\ ChainInv)
<1>1. BackupInit => ChainInv
  <2> SUFFICES ASSUME BackupInit PROVE ChainInv
    OBVIOUS
  <2>1. log = << >> /\ backup = NoBackup /\ thread = [e \in Events |-> Idle]
    BY DEF BackupInit, Init
  <2>2. \A e \in Events : thread[e].pc = "idle"
    BY <2>1 DEF Idle
  <2> QED BY <2>1, <2>2 DEF ChainInv, KnownInv, Chained
<1>2. Sound /\ ChainInv /\ [BackupNext]_backupVars => ChainInv'
  <2>1. ASSUME ChainInv, UNCHANGED backupVars PROVE ChainInv'
    BY <2>1 DEF backupVars, vars, toolVars, ChainInv, KnownInv, LastHash
  <2> QED BY <2>1, LoggingChains, ToolChains DEF BackupNext, Next
<1> QED BY <1>1, <1>2, FilesAreSound, PTL DEF BackupSpec

\* A line that does not continue the last one that parses follows text of another
\* process, or was begun before a restore: so for any number of processes, events,
\* torn appends and restores.
THEOREM BreaksAreCaused == BackupSpec => []BreaksHaveCause
<1>1. ChainInv => BreaksHaveCause
  BY DEF ChainInv, Chained, Follows, BreaksHaveCause
<1> QED BY <1>1, ChainsHold, PTL

\* The last hash of what read_events returns is the one that log_event continues.
HashOf(read) == IF read = << >> THEN Genesis ELSE read[Len(read)].hash

LEMMA AppendIntact ==
    ASSUME NEW read \in Seq(Lines), Intact(read), NEW line \in Lines, Sealed(line),
           line.prev = HashOf(read)
    PROVE  Intact(Append(read, line)) /\ HashOf(Append(read, line)) = line.hash
<1> DEFINE more == Append(read, line)
<1>1. /\ more \in Seq(Lines) /\ Len(more) = Len(read) + 1 /\ more[Len(read) + 1] = line
      /\ \A i \in 1 .. Len(read) : more[i] = read[i]
  OBVIOUS
<1> HIDE DEF more
<1>2. Len(read) \in Nat /\ more # << >> /\ (read = << >> <=> Len(read) = 0)
  BY <1>1
<1>3. HashOf(more) = line.hash
  BY <1>1, <1>2 DEF HashOf
<1>4. Expected(more, Len(read) + 1) = HashOf(read)
  BY <1>1, <1>2 DEF Expected, HashOf
<1>5. \A i \in 1 .. Len(read) : Expected(more, i) = Expected(read, i)
  BY <1>1, <1>2 DEF Expected
<1>6. ASSUME NEW i \in DOMAIN more
      PROVE  more[i].prev = Expected(more, i) /\ more[i].hash = Hash(Expected(more, i), more[i].event)
  <2>1. CASE i = Len(read) + 1
    BY <1>1, <1>4, <2>1 DEF Sealed
  <2>2. CASE i # Len(read) + 1
    <3>1. i \in 1 .. Len(read) /\ i \in DOMAIN read
      BY <1>1, <1>2, <2>2
    <3> QED BY <1>1, <1>5, <3>1 DEF Intact
  <2> QED BY <2>1, <2>2
<1>7. Intact(more)
  BY <1>6 DEF Intact
<1> QED BY <1>3, <1>7 DEF more

\* Lines that each continue the one before them that parses are read as an intact chain.
LEMMA ReadableIntact ==
    ASSUME NEW lines \in Seq(Text),
           \A i \in DOMAIN lines :
               Parses(lines[i]) => lines[i].prev = HashBefore(lines, i) /\ Sealed(lines[i])
    PROVE  Intact(Readable(lines)) /\ HashOf(Readable(lines)) = HashBefore(lines, Len(lines) + 1)
<1>1. PICK g : /\ g = [k \in 0 .. Len(lines) |-> ReadStep(lines, g, k)]
               /\ Readable(lines) = g[Len(lines)]
  BY ReadableDef
<1> DEFINE Good(n) == /\ g[n] \in Seq(Lines) /\ Intact(g[n])
                      /\ HashOf(g[n]) = HashBefore(lines, n + 1)
           S == {n \in Nat : n <= Len(lines) => Good(n)}
<1>2. 0 \in S
  <2>1. g[0] = ReadStep(lines, g, 0)
    BY <1>1
  <2>2. g[0] = << >>
    BY <2>1 DEF ReadStep
  <2>3. << >> \in Seq(Lines) /\ Intact(<< >>) /\ HashOf(<< >>) = Genesis
    BY DEF Intact, HashOf
  <2>4. HashBefore(lines, 0 + 1) = Genesis
    <3>1. 1 .. 0 + 1 - 1 = {}
      OBVIOUS
    <3> QED BY <3>1 DEF HashBefore
  <2> QED BY <2>2, <2>3, <2>4
<1>3. ASSUME NEW n \in Nat, n \in S PROVE n + 1 \in S
  <2> SUFFICES ASSUME n + 1 <= Len(lines) PROVE Good(n + 1)
    OBVIOUS
  <2>1. g[n + 1] = ReadStep(lines, g, n + 1)
    BY <1>1
  <2>2. g[n + 1] = IF Parses(lines[n + 1]) THEN Append(g[n], lines[n + 1]) ELSE g[n]
    BY <2>1 DEF ReadStep
  <2>3. Good(n)
    BY <1>3
  <2>4. n + 1 \in DOMAIN lines /\ lines[n + 1] \in Text /\ n + 1 \in Nat \ {0}
    OBVIOUS
  <2>5. HashBefore(lines, n + 1 + 1) =
            IF Parses(lines[n + 1]) THEN lines[n + 1].hash ELSE HashBefore(lines, n + 1)
    BY <2>4, HashBeforeNext
  <2>6. CASE Parses(lines[n + 1])
    <3>1. lines[n + 1] \in Lines
      BY <2>4, <2>6, TextFacts
    <3>2. lines[n + 1].prev = HashOf(g[n]) /\ Sealed(lines[n + 1])
      BY <2>3, <2>4, <2>6
    <3>3. Append(g[n], lines[n + 1]) \in Seq(Lines)
      BY <2>3, <3>1
    <3>4. /\ Intact(Append(g[n], lines[n + 1]))
          /\ HashOf(Append(g[n], lines[n + 1])) = lines[n + 1].hash
      BY <2>3, <3>1, <3>2, AppendIntact
    <3> QED BY <2>2, <2>5, <2>6, <3>3, <3>4
  <2>7. CASE ~Parses(lines[n + 1])
    BY <2>2, <2>3, <2>5, <2>7
  <2> QED BY <2>6, <2>7
<1> HIDE DEF S
<1>4. Len(lines) \in S
  BY <1>2, <1>3, Induction
<1> QED BY <1>1, <1>4 DEF S

\* While one process logs and no restore comes in between, verify_events_chain finds the
\* chain intact, however many appends are cut short.
THEOREM OneProcessKeepsTheChain ==
    ASSUME \A e, f \in Events : Home[e] = Home[f]
    PROVE  BackupSpec => [](stale = {} => Intact(Readable(log)))
<1>1. Sound /\ ChainInv => (stale = {} => Intact(Readable(log)))
  <2> SUFFICES ASSUME Sound, ChainInv, stale = {} PROVE Intact(Readable(log))
    OBVIOUS
  <2>1. log \in Seq(Text)
    BY DEF Sound, BackupTypeOK, TypeOK
  <2>2. ASSUME NEW i \in DOMAIN log, Parses(log[i])
        PROVE  log[i].prev = HashBefore(log, i) /\ Sealed(log[i])
    <3>1. Follows(log, i, {}) /\ Sealed(log[i])
      BY <2>2 DEF ChainInv, Chained
    <3>2. log[i] \in Text /\ (i > 1 => log[i - 1] \in Text)
      BY <2>1
    <3>3. log[i].event \in Events /\ (i > 1 => Of(log[i - 1]) \subseteq Events)
      BY <2>2, <3>2, TextFacts DEF Lines
    <3> QED BY <3>1, <3>3 DEF Follows
  <2> QED BY <2>1, <2>2, ReadableIntact
<1> QED BY <1>1, ChainsHold, PTL

=============================================================================
