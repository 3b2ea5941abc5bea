-------------------------- MODULE AttestationProofs --------------------------
(***************************************************************************)
(* Theorems about Attestation, for any number of runs of the agent, logins *)
(* and software keys, with and without a TPM, and every lifetime of a      *)
(* challenge.                                                              *)
(***************************************************************************)
EXTENDS Attestation, FiniteSetTheorems, TLAPS

LEMMA Numbers == TTL \in Nat /\ IsFiniteSet(Agents)
BY AttestationAssumption DEF AttestationAssumption

LEMMA Names ==
    /\ Agents \cap Strangers = {}
    /\ "waiting" \notin Agents /\ "waiting" \notin Strangers /\ "waiting" \notin Keys
BY AttestationAssumption DEF AttestationAssumption, Keys, TpmKey

(***************************************************************************)
(* What each kind of step leaves alone.                                    *)
(***************************************************************************)

Enrolls(a) == Enroll(a) \/ EnrollFails(a)

LEMMA RunQuiet ==
    ASSUME NEW a \in Agents, Run(a)
    PROVE  /\ UNCHANGED <<now, life, login, other, stranger, trusted, misread>>
           /\ ~AskChallenge(a) => challenge' = challenge
           /\ ~Enrolls(a) => record' = record
BY DEF Run, FindKey, MakeKey, LoadKey, Enroll, EnrollFails, AskChallenge, ChallengeRefused,
       Sign, Enrolls, elsewhere, history

LEMMA LoginQuiet ==
    ASSUME NEW l \in Logins, Login(l)
    PROVE  UNCHANGED <<now, life, softKey, record, agent, other, stranger, trusted>>
BY DEF Login, Consume, CheckExpiry, CheckSignature, elsewhere, history

\* A request from elsewhere, or a change of another device's record.
FromElsewhere ==
    \/ \E s \in Strangers : Intrude(s) \/ EnrollElsewhere(s)
    \/ \E o \in Others : OtherLoads(o) \/ OtherSaves(o)

LEMMA FromElsewhereQuiet ==
    ASSUME FromElsewhere
    PROVE  UNCHANGED <<now, life, softKey, agent, login, trusted, misread>>
BY DEF FromElsewhere, Intrude, EnrollElsewhere, OtherLoads, OtherSaves, history

LEMMA AdminQuiet ==
    ASSUME Approve \/ Revoke
    PROVE  UNCHANGED <<now, life, softKey, challenge, agent, login, other, stranger, misread>>
BY DEF Approve, Revoke, elsewhere, history

LEMMA RestartQuiet ==
    ASSUME Restart
    PROVE  UNCHANGED <<now, softKey, record, agent, other, stranger, trusted, misread>>
BY DEF Restart, elsewhere, history

LEMMA TickQuiet ==
    ASSUME Tick \/ UNCHANGED vars
    PROVE  UNCHANGED <<life, softKey, record, challenge, agent, login, other, stranger,
                       trusted, misread>>
BY DEF Tick, vars, elsewhere, history

\* Every step is one of these.
LEMMA StepKinds ==
    ASSUME [Next]_vars
    PROVE  \/ \E a \in Agents : Run(a)
           \/ \E l \in Logins : Login(l)
           \/ FromElsewhere
           \/ Approve \/ Revoke
           \/ Restart
           \/ Tick \/ UNCHANGED vars
BY DEF Next, FromElsewhere

(***************************************************************************)
(* Types.  That a key is a key needs to be known of every place it is      *)
(* copied from.                                                            *)
(***************************************************************************)

Keyed == {"keyed", "enrolled", "challenged", "signed", "unsigned"}

\* k is of the kind that an agent in state s uses.
Suits(s, k) == IF s.hardware THEN k = TpmKey ELSE k \in SoftKeys /\ softKey \in SoftKeys

KeysInv ==
    \A a \in Agents :
        /\ agent[a].pc = "made" => softKey \in SoftKeys
        /\ agent[a].pc \in Keyed => Suits(agent[a], agent[a].key)
        /\ agent[a].pc = "signed" => Suits(agent[a], agent[a].signed)

\* A login has begun, and was not cut off.
Carried(l) == login[l] # Idle /\ login[l] # Failed

\* An agent, a login or a writer that has begun has a well-formed state.
LEMMA Begun ==
    ASSUME TypeOK
    PROVE  /\ \A a \in Agents : agent[a] # Idle => agent[a] \in AgentState
           /\ \A a \in Agents : agent[a].pc # "idle" => agent[a] \in AgentState
           /\ \A l \in Logins : Carried(l) => login[l] \in LoginState
           /\ \A l \in Logins : login[l].pc \notin {"idle", "failed"}
                                    => login[l] \in LoginState /\ Carried(l)
           /\ \A o \in Others : other[o].pc = "loaded" => other[o] \in OtherState
BY DEF TypeOK, Idle, Failed, Kept, Dropped, Carried

LEMMA StartedType ==
    ASSUME NEW pc \in {"making", "made", "keyed", "enrolled", "challenged", "signed", "unsigned"},
           NEW h \in BOOLEAN, NEW k \in Keys \cup {NoKey}
    PROVE  Started(pc, h, k) \in AgentState
BY DEF Started, AgentState

\* A step that gives one agent a new state and leaves the key file alone.
LEMMA AgentMoves ==
    ASSUME TypeOK, KeysInv, NEW a \in Agents, NEW s \in AgentState,
           agent' = [agent EXCEPT ![a] = s], softKey' = softKey,
           s.pc = "made" => softKey \in SoftKeys,
           s.pc \in Keyed => Suits(s, s.key),
           s.pc = "signed" => Suits(s, s.signed)
    PROVE  agent' \in [Agents -> AgentState \cup {Idle}] /\ KeysInv'
<1>1. agent' \in [Agents -> AgentState \cup {Idle}]
  BY DEF TypeOK
<1>2. agent'[a] = s /\ \A b \in Agents \ {a} : agent'[b] = agent[b]
  BY DEF TypeOK
<1> QED BY <1>1, <1>2 DEF KeysInv, Suits

\* The agents' steps.
LEMMA RunTypes ==
    ASSUME TypeOK, KeysInv, NEW a \in Agents, Run(a)
    PROVE  TypeOK' /\ KeysInv'
<1> USE Numbers, Begun
<1>1. CASE FindKey(a)
  <2>1. PICK s \in {Started("keyed", TRUE, TpmKey), Started("making", FALSE, NoKey),
                    Started("keyed", FALSE, softKey)} :
            /\ agent' = [agent EXCEPT ![a] = s]
            /\ s = Started("keyed", FALSE, softKey) => softKey # NoKey
    BY <1>1 DEF FindKey, Started
  <2>2. s \in AgentState /\ s.pc # "signed" /\ s.pc # "made"
    <3>1. /\ Started("keyed", TRUE, TpmKey) \in AgentState
          /\ Started("making", FALSE, NoKey) \in AgentState
      BY StartedType DEF Keys
    <3>2. Started("keyed", FALSE, softKey) \in AgentState
      BY StartedType DEF Keys, TypeOK
    <3>3. s.pc \in {"keyed", "making"}
      BY DEF Started
    <3> QED BY <2>1, <3>1, <3>2, <3>3
  <2>3. s.pc \in Keyed => Suits(s, s.key)
    BY <2>1 DEF Started, Suits, Keyed, TypeOK
  <2> QED BY <1>1, <2>1, <2>2, <2>3, AgentMoves, RunQuiet DEF FindKey, TypeOK
<1>2. ASSUME NEW k \in SoftKeys, MakeKey(a, k) PROVE TypeOK' /\ KeysInv'
  <2>1. agent[a] \in AgentState
    BY <1>2 DEF MakeKey
  <2>2. [agent[a] EXCEPT !.pc = "made"] \in AgentState
    BY <2>1 DEF AgentState
  <2>3. agent' \in [Agents -> AgentState \cup {Idle}] /\ softKey' \in SoftKeys
    BY <1>2, <2>2 DEF MakeKey, TypeOK
  <2>4. agent'[a].pc = "made" /\ \A b \in Agents \ {a} : agent'[b] = agent[b]
    BY <1>2, <2>1 DEF MakeKey, TypeOK, AgentState
  <2>5. KeysInv'
    BY <2>3, <2>4 DEF KeysInv, Suits, Keyed
  <2> QED BY <1>2, <2>3, <2>5, RunQuiet DEF MakeKey, TypeOK
<1>3. CASE LoadKey(a)
  <2>1. softKey \in SoftKeys
    BY <1>3 DEF LoadKey, KeysInv
  <2>2. Started("keyed", FALSE, softKey) \in AgentState
    BY <2>1, StartedType DEF Keys
  <2>3. Suits(Started("keyed", FALSE, softKey), softKey)
    BY <2>1 DEF Started, Suits
  <2> QED BY <1>3, <2>2, <2>3, AgentMoves, RunQuiet DEF LoadKey, TypeOK, Started
<1>4. ASSUME NEW next \in {"enrolled", "unsigned"},
             agent[a].pc \in {"keyed", "enrolled"}, agent' = [agent EXCEPT ![a].pc = next],
             softKey' = softKey
      PROVE  agent' \in [Agents -> AgentState \cup {Idle}] /\ KeysInv'
  <2>1. agent[a] \in AgentState /\ Suits(agent[a], agent[a].key)
    BY <1>4 DEF KeysInv, Keyed
  <2> DEFINE s == [agent[a] EXCEPT !.pc = next]
  <2>2. s \in AgentState /\ s.pc = next /\ s.key = agent[a].key /\ s.hardware = agent[a].hardware
    BY <2>1 DEF AgentState
  <2>3. Suits(s, s.key)
    BY <2>1, <2>2 DEF Suits
  <2>4. agent' = [agent EXCEPT ![a] = s]
    BY <1>4
  <2> HIDE DEF s
  <2> QED BY <1>4, <2>2, <2>3, <2>4, AgentMoves
<1>5. CASE Enrolls(a)
  <2>1. agent[a].pc = "keyed" /\ softKey' = softKey
    BY <1>5 DEF Enrolls, Enroll, EnrollFails
  <2>2. PICK next \in {"enrolled", "unsigned"} : agent' = [agent EXCEPT ![a].pc = next]
    BY <1>5 DEF Enrolls, Enroll, EnrollFails
  <2>3. agent[a] \in AgentState /\ agent[a].key \in Keys
    BY <2>1 DEF KeysInv, Keyed, Suits, Keys
  <2>4. \A old \in Reads : Enrolled(old, agent[a].key) \in Record \cup {NoRecord}
    BY <2>3 DEF Enrolled, Record, TypeOK, Reads
  <2>5. record' \in Record \cup {NoRecord}
    <3>1. record' = record \/ \E old \in Reads : record' = Enrolled(old, agent[a].key)
      BY <1>5 DEF Enrolls, Enroll, EnrollFails
    <3> QED BY <2>4, <3>1 DEF TypeOK
  <2>6. agent' \in [Agents -> AgentState \cup {Idle}] /\ KeysInv'
    BY <1>4, <2>1, <2>2
  <2>7. challenge' = challenge
    BY <1>5 DEF Enrolls, Enroll, EnrollFails
  <2> QED BY <2>1, <2>5, <2>6, <2>7, RunQuiet DEF TypeOK
<1>6. CASE ChallengeRefused(a)
  <2>1. agent' \in [Agents -> AgentState \cup {Idle}] /\ KeysInv'
    BY <1>4, <1>6 DEF ChallengeRefused
  <2> QED BY <1>6, <2>1, RunQuiet DEF ChallengeRefused, TypeOK
<1>7. CASE AskChallenge(a)
  <2>1. PICK next \in {"challenged", "unsigned"} :
            agent' = [agent EXCEPT ![a].pc = next, ![a].turn = Turns + 1]
    BY <1>7 DEF AskChallenge
  <2>2. agent[a] \in AgentState /\ Suits(agent[a], agent[a].key)
    BY <1>7 DEF AskChallenge, KeysInv, Keyed
  <2>3. Turns \in Nat
    <3>1. IsFiniteSet({b \in Running : agent[b].turn > 0})
      BY FS_Subset DEF Running
    <3> QED BY <3>1, FS_CardinalityType DEF Turns
  <2> DEFINE s == [agent[a] EXCEPT !.pc = next, !.turn = Turns + 1]
  <2>4. agent' = [agent EXCEPT ![a] = s]
    BY <2>1
  <2>5. s \in AgentState /\ s.pc = next /\ s.key = agent[a].key /\ s.hardware = agent[a].hardware
    <3>1. PICK r \in AgentState, n \in Nat : r = agent[a] /\ n = Turns + 1
      BY <2>2, <2>3
    <3> DEFINE t == [r EXCEPT !.pc = next, !.turn = n]
    <3>2. t \in AgentState /\ t.pc = next /\ t.key = r.key /\ t.hardware = r.hardware
      BY DEF AgentState
    <3>3. s = t
      BY <3>1
    <3> QED BY <3>1, <3>2, <3>3
  <2>6. s.pc # "made" /\ s.pc # "signed" /\ Suits(s, s.key)
    BY <2>2, <2>5 DEF Suits
  <2>7. challenge' \in Challenge \cup {NoChallenge}
    BY <1>7 DEF AskChallenge, Challenge, TypeOK
  <2> HIDE DEF s
  <2> QED BY <1>7, <2>4, <2>5, <2>6, <2>7, AgentMoves, RunQuiet DEF AskChallenge, TypeOK
<1>8. CASE Sign(a)
  <2>1. agent[a] \in AgentState /\ Suits(agent[a], agent[a].key)
    BY <1>8 DEF Sign, KeysInv, Keyed
  <2>2. Suits(agent[a], SigningKey(a)) /\ SigningKey(a) \in Keys
    BY <2>1 DEF Suits, SigningKey, Keys
  <2>3. PICK s \in {[agent[a] EXCEPT !.pc = "signed", !.signed = SigningKey(a)],
                    [agent[a] EXCEPT !.pc = "unsigned"]} :
            agent' = [agent EXCEPT ![a] = s]
    BY <1>8 DEF Sign
  <2>4. /\ s \in AgentState /\ s.pc # "made"
        /\ s.key = agent[a].key /\ s.hardware = agent[a].hardware
        /\ s.pc = "signed" => s.signed = SigningKey(a)
    BY <2>1, <2>2 DEF AgentState
  <2>5. Suits(s, s.key) /\ (s.pc = "signed" => Suits(s, s.signed))
    BY <2>1, <2>2, <2>4 DEF Suits
  <2> QED BY <1>8, <2>3, <2>4, <2>5, AgentMoves, RunQuiet DEF Sign, TypeOK
<1> QED BY <1>1, <1>2, <1>3, <1>5, <1>6, <1>7, <1>8 DEF Run, Enrolls

\* The logins' steps.
LEMMA LoginTypes ==
    ASSUME TypeOK, NEW l \in Logins, Login(l)
    PROVE  TypeOK'
<1> USE Begun
<1>0. UNCHANGED <<now, life, softKey, record, agent, other, stranger, trusted>>
  BY LoginQuiet
<1>1. ASSUME NEW a \in Agents, Consume(l, a) PROVE TypeOK'
  <2>1. [pc |-> IF challenge = NoChallenge THEN "unattested" ELSE "popped",
         of |-> a, popped |-> challenge, at |-> 0, seen |-> NoRecord] \in LoginState
    BY DEF TypeOK, LoginState
  <2>2. misread' = misread
    BY <1>1 DEF Consume, history
  <2> QED BY <1>0, <1>1, <2>1, <2>2 DEF Consume, TypeOK
<1>2. CASE CheckExpiry(l)
  <2>1. login[l] \in LoginState
    BY <1>2 DEF CheckExpiry
  <2>2. [login[l] EXCEPT !.at = now,
             !.pc = IF now > login[l].popped.exp THEN "unattested" ELSE "timely"] \in LoginState
    BY <2>1 DEF TypeOK, LoginState
  <2>3. misread' = misread
    BY <1>2 DEF CheckExpiry, history
  <2> QED BY <1>0, <1>2, <2>2, <2>3 DEF CheckExpiry, TypeOK
<1>3. CASE CheckSignature(l)
  <2>1. login[l] \in LoginState
    BY <1>3 DEF CheckSignature
  <2>2. PICK seen \in Reads :
            /\ misread' = IF seen = record THEN misread ELSE misread \cup {l}
            /\ login' = [login EXCEPT ![l] =
                            [login[l] EXCEPT !.seen = seen,
                                 !.pc = IF Verifies(l, seen) THEN "attested" ELSE "unattested"]]
    BY <1>3 DEF CheckSignature
  <2>3. [login[l] EXCEPT !.seen = seen,
             !.pc = IF Verifies(l, seen) THEN "attested" ELSE "unattested"] \in LoginState
    BY <2>1 DEF TypeOK, LoginState, Reads
  <2> QED BY <1>0, <1>3, <2>2, <2>3 DEF CheckSignature, TypeOK
<1> QED BY <1>1, <1>2, <1>3 DEF Login

\* The steps from elsewhere, of the administrator, the process and the clock.
LEMMA FromElsewhereTypes ==
    ASSUME TypeOK, FromElsewhere
    PROVE  TypeOK'
<1>1. ASSUME NEW s \in Strangers, Intrude(s) PROVE TypeOK'
  <2>1. challenge.nonce \in Agents \cup Strangers \cup {"waiting", "none"}
    BY DEF TypeOK, Challenge, NoChallenge
  <2>2. stranger' \in [Strangers -> Agents \cup Strangers \cup Keys \cup {"waiting", "none"}]
    BY <1>1, <2>1 DEF Intrude, TypeOK
  <2>3. challenge' \in Challenge \cup {NoChallenge}
    BY <1>1, Numbers DEF Intrude, TypeOK, Challenge
  <2>4. record' = record /\ other' = other
    BY <1>1 DEF Intrude
  <2> QED BY <2>2, <2>3, <2>4, FromElsewhereQuiet DEF TypeOK
<1>2. ASSUME NEW o \in Others, OtherLoads(o) PROVE TypeOK'
  <2>1. PICK copy \in Reads : other' = [other EXCEPT ![o] = [pc |-> "loaded", copy |-> copy]]
    BY <1>2 DEF OtherLoads
  <2>2. [pc |-> "loaded", copy |-> copy] \in OtherState
    BY DEF OtherState, Reads, TypeOK
  <2>3. record' = record /\ challenge' = challenge /\ stranger' = stranger
    BY <1>2 DEF OtherLoads
  <2> QED BY <2>1, <2>2, <2>3, FromElsewhereQuiet DEF TypeOK
<1>3. ASSUME NEW o \in Others, OtherSaves(o) PROVE TypeOK'
  <2>1. other[o] \in OtherState
    BY <1>3, Begun DEF OtherSaves
  <2>2. record' \in Record \cup {NoRecord}
    BY <1>3, <2>1 DEF OtherSaves, OtherState
  <2>3. other' \in [Others -> OtherState \cup {Idle, Kept, Dropped}]
    BY <1>3 DEF OtherSaves, TypeOK
  <2>4. challenge' = challenge /\ stranger' = stranger
    BY <1>3 DEF OtherSaves
  <2> QED BY <2>2, <2>3, <2>4, FromElsewhereQuiet DEF TypeOK
<1>4. ASSUME NEW s \in Strangers, EnrollElsewhere(s) PROVE TypeOK'
  <2>1. PICK k \in Keys, old \in Reads :
            record' = Enrolled(old, k) /\ stranger' = [stranger EXCEPT ![s] = k]
    BY <1>4 DEF EnrollElsewhere, Keys
  <2>2. record' \in Record \cup {NoRecord}
    BY <2>1 DEF Enrolled, Reads, Record, TypeOK
  <2>3. stranger' \in [Strangers -> Agents \cup Strangers \cup Keys \cup {"waiting", "none"}]
    BY <2>1 DEF TypeOK
  <2>4. challenge' = challenge /\ other' = other
    BY <1>4 DEF EnrollElsewhere
  <2> QED BY <2>2, <2>3, <2>4, FromElsewhereQuiet DEF TypeOK
<1> QED BY <1>1, <1>2, <1>3, <1>4 DEF FromElsewhere

LEMMA WorldTypes ==
    ASSUME TypeOK, Approve \/ Revoke \/ Restart \/ Tick
    PROVE  TypeOK'
<1>1. CASE Approve
  <2>1. record \in Record
    BY <1>1 DEF Approve, TypeOK
  <2>2. record' \in Record /\ trusted' \subseteq Keys
    BY <1>1, <2>1 DEF Approve, TypeOK, Record
  <2> QED BY <1>1, <2>2, AdminQuiet DEF TypeOK
<1>2. CASE Revoke
  <2>1. record \in Record
    BY <1>2 DEF Revoke, TypeOK
  <2>2. record' \in Record /\ trusted' = trusted
    BY <1>2, <2>1 DEF Revoke, TypeOK, Record, history
  <2> QED BY <1>2, <2>2, AdminQuiet DEF TypeOK
<1>3. CASE Restart
  <2>1. login' \in [Logins -> LoginState \cup {Idle, Failed}]
    BY <1>3 DEF Restart, TypeOK
  <2>2. life' \in Nat /\ challenge' = NoChallenge
    BY <1>3 DEF Restart, TypeOK
  <2> QED BY <1>3, <2>1, <2>2, RestartQuiet DEF TypeOK
<1>4. CASE Tick
  <2>1. now' \in Nat
    BY <1>4 DEF Tick, TypeOK
  <2> QED BY <1>4, <2>1, TickQuiet DEF TypeOK
<1> QED BY <1>1, <1>2, <1>3, <1>4

LEMMA TypeStep == TypeOK /\ KeysInv /\ [Next]_vars => TypeOK' /\ KeysInv'
<1> SUFFICES ASSUME TypeOK, KeysInv, [Next]_vars PROVE TypeOK' /\ KeysInv'
  OBVIOUS
<1>1. ASSUME UNCHANGED <<agent, softKey>> PROVE KeysInv'
  BY <1>1 DEF KeysInv, Suits
<1>2. ASSUME NEW l \in Logins, Login(l) PROVE TypeOK' /\ KeysInv'
  BY <1>1, <1>2, LoginQuiet, LoginTypes
<1>3. CASE FromElsewhere
  BY <1>1, <1>3, FromElsewhereQuiet, FromElsewhereTypes
<1>4. CASE Approve \/ Revoke \/ Restart \/ Tick
  BY <1>1, <1>4, AdminQuiet, RestartQuiet, TickQuiet, WorldTypes
<1>5. CASE UNCHANGED vars
  BY <1>1, <1>5, TickQuiet DEF vars, TypeOK
<1> QED BY <1>2, <1>3, <1>4, <1>5, RunTypes, StepKinds

LEMMA TypeInvariant == Spec => [](TypeOK /\ KeysInv)
<1>1. Init => TypeOK /\ KeysInv
  BY DEF Init, TypeOK, KeysInv, Keyed, Idle
<1> QED BY <1>1, TypeStep, PTL DEF Spec

\* Type correctness: every key, record, challenge and state has the form it is given.
THEOREM TypeCorrect == Spec => []TypeOK
BY TypeInvariant, PTL

(***************************************************************************)
(* How an agent and a login move.                                          *)
(***************************************************************************)

Before == {"making", "made", "keyed", "enrolled"}

\* One agent moves; it keeps its key, and its turn but for asking; to sign it must have asked.
LEMMA Moves ==
    ASSUME TypeOK, NEW b \in Agents, Run(b)
    PROVE  /\ \A c \in Agents \ {b} : agent'[c] = agent[c]
           /\ agent[b].pc # "signed" /\ agent'[b].pc # "idle"
           /\ agent[b].pc \in Keyed => agent'[b].pc \in Keyed /\ agent'[b].key = agent[b].key
           /\ AskChallenge(b) => /\ agent[b].pc = "enrolled" /\ agent'[b].turn = Turns + 1
                                 /\ agent'[b].pc \in {"challenged", "unsigned"}
           /\ ~AskChallenge(b) =>
                 /\ agent'[b].turn = IF agent[b].pc \in {"idle", "made"} THEN 0
                                     ELSE agent[b].turn
                 /\ agent'[b].pc \in Before => agent[b].pc \in Before \cup {"idle"}
                 /\ agent'[b].pc \in {"challenged", "signed"} => agent[b].pc = "challenged"
<1> USE Begun DEF Keyed, Before
<1> DEFINE Moved ==
             /\ \A c \in Agents \ {b} : agent'[c] = agent[c]
             /\ agent[b].pc # "signed" /\ agent'[b].pc # "idle"
             /\ agent[b].pc \in Keyed => agent'[b].pc \in Keyed /\ agent'[b].key = agent[b].key
             /\ AskChallenge(b) => /\ agent[b].pc = "enrolled" /\ agent'[b].turn = Turns + 1
                                   /\ agent'[b].pc \in {"challenged", "unsigned"}
             /\ ~AskChallenge(b) =>
                   /\ agent'[b].turn = IF agent[b].pc \in {"idle", "made"} THEN 0
                                       ELSE agent[b].turn
                   /\ agent'[b].pc \in Before => agent[b].pc \in Before \cup {"idle"}
                   /\ agent'[b].pc \in {"challenged", "signed"} => agent[b].pc = "challenged"
<1> SUFFICES Moved
  OBVIOUS
<1>1. CASE FindKey(b)
  <2>1. /\ agent[b].pc = "idle" /\ agent'[b].pc \in {"making", "keyed"} /\ agent'[b].turn = 0
        /\ \A c \in Agents \ {b} : agent'[c] = agent[c]
    BY <1>1 DEF FindKey, TypeOK, Started, Idle
  <2>2. ~AskChallenge(b)
    BY <2>1 DEF AskChallenge
  <2> QED BY <2>1, <2>2
<1>2. ASSUME NEW k \in SoftKeys, MakeKey(b, k) PROVE Moved
  <2>1. agent[b] \in AgentState /\ agent[b].pc = "making"
    BY <1>2 DEF MakeKey
  <2>2. ~AskChallenge(b)
    BY <2>1 DEF AskChallenge
  <2>3. /\ agent'[b].pc = "made" /\ agent'[b].turn = agent[b].turn
        /\ \A c \in Agents \ {b} : agent'[c] = agent[c]
    BY <1>2, <2>1 DEF MakeKey, TypeOK, AgentState
  <2> QED BY <2>1, <2>2, <2>3
<1>3. CASE LoadKey(b)
  <2>1. /\ agent[b].pc = "made" /\ agent'[b].pc = "keyed" /\ agent'[b].turn = 0
        /\ \A c \in Agents \ {b} : agent'[c] = agent[c]
    BY <1>3 DEF LoadKey, TypeOK, Started
  <2>2. ~AskChallenge(b)
    BY <2>1 DEF AskChallenge
  <2> QED BY <2>1, <2>2
<1>4. CASE Enrolls(b)
  <2>1. agent[b] \in AgentState /\ agent[b].pc = "keyed"
    BY <1>4 DEF Enrolls, Enroll, EnrollFails
  <2>2. PICK next \in {"enrolled", "unsigned"} : agent' = [agent EXCEPT ![b].pc = next]
    BY <1>4 DEF Enrolls, Enroll, EnrollFails
  <2>3. /\ agent'[b].pc = next /\ agent'[b].turn = agent[b].turn /\ agent'[b].key = agent[b].key
        /\ \A c \in Agents \ {b} : agent'[c] = agent[c]
    BY <2>1, <2>2 DEF TypeOK, AgentState
  <2>4. ~AskChallenge(b)
    BY <2>1 DEF AskChallenge
  <2> QED BY <2>1, <2>3, <2>4
<1>5. CASE AskChallenge(b)
  <2>1. agent[b] \in AgentState /\ agent[b].pc = "enrolled"
    BY <1>5 DEF AskChallenge
  <2>2. PICK next \in {"challenged", "unsigned"} :
            agent' = [agent EXCEPT ![b].pc = next, ![b].turn = Turns + 1]
    BY <1>5 DEF AskChallenge
  <2>3. /\ agent'[b].pc = next /\ agent'[b].turn = Turns + 1 /\ agent'[b].key = agent[b].key
        /\ \A c \in Agents \ {b} : agent'[c] = agent[c]
    BY <2>1, <2>2 DEF TypeOK, AgentState
  <2> QED BY <1>5, <2>1, <2>3
<1>6. CASE ChallengeRefused(b) /\ ~AskChallenge(b)
  <2>1. agent[b] \in AgentState /\ agent[b].pc = "enrolled"
    BY <1>6 DEF ChallengeRefused
  <2>2. /\ agent'[b].pc = "unsigned" /\ agent'[b].turn = agent[b].turn
        /\ agent'[b].key = agent[b].key /\ \A c \in Agents \ {b} : agent'[c] = agent[c]
    BY <1>6, <2>1 DEF ChallengeRefused, TypeOK, AgentState
  <2> QED BY <1>6, <2>1, <2>2
<1>7. CASE Sign(b)
  <2>1. agent[b] \in AgentState /\ agent[b].pc = "challenged"
    BY <1>7 DEF Sign
  <2>2. /\ agent'[b].pc \in {"signed", "unsigned"} /\ agent'[b].turn = agent[b].turn
        /\ agent'[b].key = agent[b].key /\ \A c \in Agents \ {b} : agent'[c] = agent[c]
    BY <1>7, <2>1 DEF Sign, TypeOK, AgentState
  <2>3. ~AskChallenge(b)
    BY <2>1 DEF AskChallenge
  <2> QED BY <2>1, <2>2, <2>3
<1> HIDE DEF Moved
<1> QED BY <1>1, <1>2, <1>3, <1>4, <1>5, <1>6, <1>7 DEF Run, Enrolls

\* A step that is nobody's run leaves the agents alone.
LEMMA AgentsQuiet ==
    ASSUME [Next]_vars
    PROVE  agent' = agent \/ \E b \in Agents : Run(b)
BY StepKinds, LoginQuiet, FromElsewhereQuiet, AdminQuiet, RestartQuiet, TickQuiet

\* Once it has a key an agent keeps it, once it has signed it stops.
LEMMA AgentsKeep ==
    ASSUME TypeOK, [Next]_vars, NEW a \in Agents
    PROVE  /\ agent[a] # Idle => agent'[a] # Idle
           /\ agent[a].pc \in Keyed => agent'[a].pc \in Keyed /\ agent'[a].key = agent[a].key
           /\ agent[a].pc = "signed" => agent'[a] = agent[a]
<1>1. CASE agent' = agent
  BY <1>1
<1>2. ASSUME NEW b \in Agents, Run(b)
      PROVE  /\ agent[a] # Idle => agent'[a] # Idle
             /\ agent[a].pc \in Keyed => agent'[a].pc \in Keyed /\ agent'[a].key = agent[a].key
             /\ agent[a].pc = "signed" => agent'[a] = agent[a]
  <2>1. CASE a = b
    BY <1>2, <2>1, Moves DEF Idle
  <2>2. CASE a # b
    BY <1>2, <2>2, Moves
  <2> QED BY <2>1, <2>2
<1> QED BY <1>1, <1>2, AgentsQuiet

\* The steps of a login, one by one.
LEMMA LoginMoves ==
    ASSUME TypeOK, NEW l \in Logins, Login(l)
    PROVE  /\ \A m \in Logins \ {l} : login'[m] = login[m]
           /\ Carried(l)'
           /\ \/ /\ login[l] = Idle /\ \E a \in Agents : Consume(l, a) /\ login'[l].of = a
                 /\ login'[l].popped = challenge /\ challenge' = NoChallenge
                 /\ login'[l].pc = IF challenge = NoChallenge THEN "unattested" ELSE "popped"
              \/ /\ CheckExpiry(l) /\ login[l].pc = "popped" /\ Carried(l)
                 /\ login'[l].of = login[l].of /\ login'[l].popped = login[l].popped
                 /\ login'[l].seen = login[l].seen /\ login'[l].at = now
                 /\ login'[l].pc = IF now > login[l].popped.exp THEN "unattested" ELSE "timely"
                 /\ challenge' = challenge /\ misread' = misread
              \/ /\ CheckSignature(l) /\ login[l].pc = "timely" /\ Carried(l)
                 /\ login'[l].of = login[l].of /\ login'[l].popped = login[l].popped
                 /\ login'[l].seen \in Reads /\ (login'[l].seen = record \/ l \in misread')
                 /\ login'[l].pc = IF Verifies(l, login'[l].seen) THEN "attested"
                                   ELSE "unattested"
                 /\ challenge' = challenge /\ misread \subseteq misread'
<1>1. ASSUME NEW a \in Agents, Consume(l, a)
      PROVE  /\ \A m \in Logins \ {l} : login'[m] = login[m]
             /\ login[l] = Idle /\ login'[l].of = a
             /\ login'[l].popped = challenge /\ challenge' = NoChallenge
             /\ login'[l].pc = IF challenge = NoChallenge THEN "unattested" ELSE "popped"
  BY <1>1 DEF Consume, TypeOK
<1>2. CASE CheckExpiry(l)
  <2>1. login[l] \in LoginState /\ login[l].pc = "popped" /\ Carried(l)
    BY <1>2, Begun DEF CheckExpiry
  <2>2. /\ \A m \in Logins \ {l} : login'[m] = login[m]
        /\ login'[l].of = login[l].of /\ login'[l].popped = login[l].popped
        /\ login'[l].seen = login[l].seen /\ login'[l].at = now
        /\ login'[l].pc = IF now > login[l].popped.exp THEN "unattested" ELSE "timely"
    BY <1>2, <2>1 DEF CheckExpiry, TypeOK, LoginState
  <2>3. challenge' = challenge /\ misread' = misread
    BY <1>2 DEF CheckExpiry, history
  <2>4. Carried(l)'
    BY <2>2 DEF Carried, Idle, Failed
  <2> QED BY <1>2, <2>1, <2>2, <2>3, <2>4
<1>3. CASE CheckSignature(l)
  <2>1. login[l] \in LoginState /\ login[l].pc = "timely" /\ Carried(l)
    BY <1>3, Begun DEF CheckSignature
  <2>2. PICK seen \in Reads :
            /\ misread' = IF seen = record THEN misread ELSE misread \cup {l}
            /\ login' = [login EXCEPT ![l] =
                            [login[l] EXCEPT !.seen = seen,
                                 !.pc = IF Verifies(l, seen) THEN "attested" ELSE "unattested"]]
    BY <1>3 DEF CheckSignature
  <2>3. /\ \A m \in Logins \ {l} : login'[m] = login[m]
        /\ login'[l].of = login[l].of /\ login'[l].popped = login[l].popped
        /\ login'[l].seen = seen
        /\ login'[l].pc = IF Verifies(l, seen) THEN "attested" ELSE "unattested"
    BY <2>1, <2>2 DEF TypeOK, LoginState
  <2>4. challenge' = challenge
    BY <1>3 DEF CheckSignature
  <2>5. Carried(l)'
    BY <2>3 DEF Carried, Idle, Failed
  <2> QED BY <1>3, <2>1, <2>2, <2>3, <2>4, <2>5
<1>4. ASSUME NEW a \in Agents, Consume(l, a) PROVE Carried(l)'
  BY <1>1, <1>4 DEF Carried, Idle, Failed
<1> QED BY <1>1, <1>2, <1>3, <1>4 DEF Login

\* Those cut off by a restart.
LEMMA RestartMoves ==
    ASSUME TypeOK, Restart, NEW l \in Logins
    PROVE  login'[l] = IF login[l].pc \in {"popped", "timely"} THEN Failed ELSE login[l]
BY DEF Restart

\* A step that is no login's, nor a restart, leaves the logins alone.
LEMMA LoginsQuiet ==
    ASSUME [Next]_vars
    PROVE  login' = login \/ Restart \/ \E l \in Logins : Login(l)
BY StepKinds, RunQuiet, FromElsewhereQuiet, AdminQuiet, TickQuiet

\* A login keeps what it carries and took, until a restart cuts it off, and its outcome.
LEMMA LoginsKeep ==
    ASSUME TypeOK, [Next]_vars, NEW l \in Logins
    PROVE  /\ Carried(l) => \/ Restart /\ login'[l] = Failed
                            \/ /\ Carried(l)'
                               /\ login'[l].of = login[l].of
                               /\ login'[l].popped = login[l].popped
           /\ login[l] = Failed => login'[l] = Failed
           /\ login[l].pc \in {"attested", "unattested"} => login'[l] = login[l]
<1>1. CASE login' = login
  BY <1>1 DEF Carried
<1>2. CASE Restart
  BY <1>2, RestartMoves DEF Carried, Failed
<1>3. ASSUME NEW m \in Logins, Login(m)
      PROVE  /\ Carried(l) => /\ Carried(l)'
                              /\ login'[l].of = login[l].of
                              /\ login'[l].popped = login[l].popped
             /\ login[l] = Failed => login'[l] = Failed
             /\ login[l].pc \in {"attested", "unattested"} => login'[l] = login[l]
  <2>1. CASE l = m
    <3>1. Carried(l) \/ login[l] = Idle
      BY <1>3, <2>1, LoginMoves
    <3>2. login[l] = Idle => login[l].pc = "idle" /\ ~Carried(l)
      BY DEF Idle, Carried
    <3>3. login[l] # Failed
      BY <3>1 DEF Carried, Idle, Failed
    <3> QED BY <1>3, <2>1, <3>2, <3>3, LoginMoves
  <2>2. CASE l # m
    BY <1>3, <2>2, LoginMoves DEF Carried
  <2> QED BY <2>1, <2>2
<1> QED BY <1>1, <1>2, <1>3, LoginsQuiet

\* A login that is carried had begun, or begins.
LEMMA CarriedBefore ==
    ASSUME TypeOK, [Next]_vars, NEW l \in Logins, Carried(l)'
    PROVE  \/ Carried(l)
           \/ login[l] = Idle /\ \E a \in Agents : Consume(l, a) /\ login'[l].of = a
<1>1. CASE login' = login
  BY <1>1 DEF Carried
<1>2. CASE Restart
  <2>1. login'[l] = Failed \/ login'[l] = login[l]
    BY <1>2, RestartMoves
  <2> QED BY <2>1 DEF Carried, Idle, Failed
<1>3. ASSUME NEW m \in Logins, Login(m)
      PROVE  \/ Carried(l)
             \/ login[l] = Idle /\ \E a \in Agents : Consume(l, a) /\ login'[l].of = a
  <2>1. CASE l = m
    BY <1>3, <2>1, LoginMoves
  <2>2. CASE l # m
    <3>1. login'[l] = login[l]
      BY <1>3, <2>2, LoginMoves
    <3> QED BY <3>1 DEF Carried, Idle, Failed
  <2> QED BY <2>1, <2>2
<1> QED BY <1>1, <1>2, <1>3, LoginsQuiet

(***************************************************************************)
(* Whose signature counts.                                                 *)
(***************************************************************************)

\* A record that says approved has an approved key.
Trusted(r) == r # NoRecord /\ r.status = "approved" => r.key \in trusted

TrustInv ==
    /\ Trusted(record)
    /\ \A o \in Others : other[o].pc = "loaded" => Trusted(other[o].copy)
    /\ \A l \in Logins : Carried(l) => agent[login[l].of].pc = "signed"
    /\ AttestedByApprovedKey

\* An approved record keeps its key until it loses its approval, also in a writer's copy.
LEMMA RecordTrust ==
    ASSUME TypeOK, TrustInv, [Next]_vars
    PROVE  /\ Trusted(record)'
           /\ \A o \in Others : other'[o].pc = "loaded" => Trusted(other[o].copy)'
           /\ trusted \subseteq trusted'
<1>1. CASE UNCHANGED <<other, record, trusted>>
  BY <1>1 DEF TrustInv, Trusted
<1>2. ASSUME NEW a \in Agents, Enrolls(a)
      PROVE  Trusted(record)' /\ UNCHANGED <<other, trusted>>
  <2>1. UNCHANGED <<other, trusted>>
    BY <1>2, RunQuiet DEF Enrolls, Run
  <2>2. PICK old \in Reads : record' = record \/ record' = Enrolled(old, agent[a].key)
    BY <1>2 DEF Enrolls, Enroll, EnrollFails, Reads
  <2>3. Trusted(record)'
    BY <2>1, <2>2 DEF Enrolled, TrustInv, Trusted, Reads
  <2> QED BY <2>1, <2>3
<1>3. ASSUME NEW a \in Agents, Run(a), ~Enrolls(a) PROVE UNCHANGED <<other, record, trusted>>
  BY <1>3, RunQuiet
<1>4. ASSUME NEW o \in Others, OtherLoads(o)
      PROVE  /\ UNCHANGED <<record, trusted>>
             /\ \A q \in Others : other'[q].pc = "loaded" => Trusted(other[q].copy)'
  <2>1. UNCHANGED <<record, trusted>>
    BY <1>4 DEF OtherLoads, history
  <2>2. PICK copy \in Reads : other' = [other EXCEPT ![o] = [pc |-> "loaded", copy |-> copy]]
    BY <1>4 DEF OtherLoads
  <2>3. other'[o].copy = copy /\ \A q \in Others \ {o} : other'[q] = other[q]
    BY <2>2 DEF TypeOK
  <2> QED BY <2>1, <2>3 DEF TrustInv, Trusted, Reads
<1>5. ASSUME NEW o \in Others, OtherSaves(o)
      PROVE  /\ Trusted(record)' /\ trusted' = trusted
             /\ \A q \in Others : other'[q].pc = "loaded" => Trusted(other[q].copy)'
  <2>1. trusted' = trusted /\ record' = other[o].copy /\ other[o].pc = "loaded"
    BY <1>5 DEF OtherSaves, history
  <2>2. other'[o].pc # "loaded" /\ \A q \in Others \ {o} : other'[q] = other[q]
    BY <1>5 DEF OtherSaves, TypeOK, Kept, Dropped
  <2> QED BY <2>1, <2>2 DEF TrustInv, Trusted
<1>6. ASSUME NEW s \in Strangers, Intrude(s) PROVE UNCHANGED <<other, record, trusted>>
  BY <1>6 DEF Intrude, history
<1>7. ASSUME NEW s \in Strangers, EnrollElsewhere(s)
      PROVE  Trusted(record)' /\ UNCHANGED <<other, trusted>>
  <2>1. UNCHANGED <<other, trusted>>
    BY <1>7 DEF EnrollElsewhere, history
  <2>2. PICK k \in SoftKeys, old \in Reads : record' = Enrolled(old, k)
    BY <1>7 DEF EnrollElsewhere
  <2>3. Trusted(record)'
    BY <2>1, <2>2 DEF Enrolled, TrustInv, Trusted, Reads
  <2> QED BY <2>1, <2>3
<1>8. CASE Approve \/ Revoke
  <2>1. record \in Record /\ other' = other
    BY <1>8, AdminQuiet DEF Approve, Revoke, TypeOK
  <2>2. trusted \subseteq trusted' /\ Trusted(record)'
    BY <1>8, <2>1 DEF Approve, Revoke, Record, Trusted, history
  <2> QED BY <2>1, <2>2 DEF TrustInv, Trusted
<1> DEFINE Goal == /\ Trusted(record)'
                   /\ \A o \in Others : other'[o].pc = "loaded" => Trusted(other[o].copy)'
                   /\ trusted \subseteq trusted'
<1>9. ASSUME NEW a \in Agents, Enrolls(a) PROVE Goal
  BY <1>2, <1>9 DEF TrustInv, Trusted
<1>10. CASE FromElsewhere
  <2>1. ASSUME NEW o \in Others, OtherLoads(o) PROVE Goal
    BY <1>4, <2>1 DEF TrustInv, Trusted
  <2>2. ASSUME NEW o \in Others, OtherSaves(o) PROVE Goal
    BY <1>5, <2>2
  <2>3. ASSUME NEW s \in Strangers, EnrollElsewhere(s) PROVE Goal
    BY <1>7, <2>3 DEF TrustInv, Trusted
  <2> QED BY <1>1, <1>6, <1>10, <2>1, <2>2, <2>3 DEF FromElsewhere
<1>11. ASSUME NEW l \in Logins, Login(l) PROVE UNCHANGED <<other, record, trusted>>
  BY <1>11, LoginQuiet
<1>12. ASSUME Restart \/ Tick \/ UNCHANGED vars PROVE UNCHANGED <<other, record, trusted>>
  BY <1>12, RestartQuiet, TickQuiet
<1> QED BY <1>1, <1>3, <1>8, <1>9, <1>10, <1>11, <1>12, StepKinds

\* A login that begins carries the signature of an agent that has signed.
LEMMA LoginTrust ==
    ASSUME TypeOK, TrustInv, [Next]_vars, NEW l \in Logins, Carried(l)'
    PROVE  agent'[login'[l].of].pc = "signed"
<1>1. CASE Carried(l)
  <2>1. login'[l].of = login[l].of
    <3>1. login'[l] # Failed
      BY DEF Carried, Failed
    <3> QED BY <1>1, <3>1, LoginsKeep
  <2>2. login[l].of \in Agents /\ agent[login[l].of].pc = "signed"
    BY <1>1, Begun DEF TrustInv, LoginState
  <2> QED BY <2>1, <2>2, AgentsKeep
<1>2. CASE ~Carried(l)
  <2>1. PICK a \in Agents : Consume(l, a) /\ login'[l].of = a
    BY <1>2, CarriedBefore
  <2>2. agent[a].pc = "signed"
    BY <2>1 DEF Consume
  <2> QED BY <2>1, <2>2, AgentsKeep
<1> QED BY <1>1, <1>2

\* Only CheckSignature attests a login, having read the record.
LEMMA NewlyAttested ==
    ASSUME TypeOK, [Next]_vars, NEW l \in Attested', l \notin Attested
    PROVE  /\ CheckSignature(l) /\ login[l].pc = "timely" /\ Carried(l)
           /\ Verifies(l, login'[l].seen) /\ login'[l].seen = record
<1>1. ASSUME NEW m \in Logins, Login(m) PROVE l = m
  BY <1>1, LoginMoves DEF Attested
<1>2. ASSUME Restart PROVE FALSE
  <2>1. login'[l] = Failed \/ login'[l] = login[l]
    BY <1>2, RestartMoves DEF Attested
  <2> QED BY <2>1 DEF Attested, Failed
<1>3. Login(l)
  BY <1>1, <1>2, LoginsQuiet DEF Attested
<1>4. l \in Logins /\ login'[l].pc = "attested"
  BY DEF Attested
<1>5. /\ CheckSignature(l) /\ login[l].pc = "timely" /\ Carried(l)
      /\ Verifies(l, login'[l].seen) /\ login'[l].seen \in Reads
  BY <1>3, <1>4, LoginMoves
<1>6. login'[l].seen # NoRecord
  BY <1>5 DEF Verifies
<1> QED BY <1>5, <1>6 DEF Reads

LEMMA TrustStep == TypeOK /\ TrustInv /\ [Next]_vars => TrustInv'
<1> SUFFICES ASSUME TypeOK, TrustInv, [Next]_vars PROVE TrustInv'
  OBVIOUS
<1>1. ASSUME NEW l \in Attested' PROVE agent'[login'[l].of].signed \in trusted'
  <2>1. l \in Logins /\ Carried(l) /\ login[l].pc # "idle"
    <3>1. l \in Attested \/ CheckSignature(l)
      BY <1>1, NewlyAttested
    <3>2. l \in Logins /\ login[l].pc \in {"attested", "timely"}
      BY <1>1, <3>1 DEF Attested, CheckSignature
    <3> QED BY <3>2, Begun
  <2>2. /\ login'[l].of = login[l].of
        /\ agent[login[l].of].pc = "signed" /\ login[l].of \in Agents
    <3>1. login'[l] # Failed
      BY <1>1 DEF Attested, Failed
    <3> QED BY <2>1, <3>1, LoginsKeep, Begun DEF TrustInv, LoginState
  <2>3. agent'[login[l].of] = agent[login[l].of]
    BY <2>2, AgentsKeep
  <2>4. CASE l \in Attested
    BY <2>2, <2>3, <2>4, RecordTrust DEF TrustInv, AttestedByApprovedKey
  <2>5. CASE l \notin Attested
    <3>1. Verifies(l, record)
      BY <1>1, <2>5, NewlyAttested
    <3>2. agent[login[l].of].signed \in trusted
      BY <3>1 DEF Verifies, TrustInv, Trusted
    <3> QED BY <2>2, <2>3, <3>2, RecordTrust
  <2> QED BY <2>4, <2>5
<1>2. AttestedByApprovedKey'
  BY <1>1 DEF AttestedByApprovedKey
<1> QED BY <1>2, RecordTrust, LoginTrust DEF TrustInv

\* An attested login was signed by a key that an administrator has approved, whatever
\* keys the runs of the agent make and enroll (register_device: a new key is pending).
THEOREM AttestationIsApproved == Spec => []AttestedByApprovedKey
<1>1. Init => TrustInv
  BY DEF Init, TrustInv, Trusted, AttestedByApprovedKey, Attested, Carried, Idle
<1>2. TrustInv => AttestedByApprovedKey
  BY DEF TrustInv
<1> QED BY <1>1, <1>2, TrustStep, TypeCorrect, PTL DEF Spec

(***************************************************************************)
(* A challenge is taken once.                                              *)
(***************************************************************************)

Asked(a) == agent[a] # Idle /\ agent[a].turn > 0
TurnInv  == \A a \in Agents : agent[a].pc \in Before => agent[a].turn = 0

\* An agent asks for one challenge, and keeps its turn.
LEMMA TurnStep ==
    ASSUME TypeOK, TurnInv, [Next]_vars
    PROVE  /\ TurnInv'
           /\ \A a \in Agents : Asked(a) => Asked(a)' /\ agent'[a].turn = agent[a].turn
<1>1. CASE agent' = agent
  BY <1>1 DEF TurnInv, Asked
<1>2. ASSUME NEW b \in Agents, Run(b)
      PROVE  /\ \A c \in Agents \ {b} : agent'[c] = agent[c]
             /\ agent'[b] # Idle
             /\ agent'[b].pc \in Before => agent'[b].turn = 0
             /\ Asked(b) => agent'[b].turn = agent[b].turn
  <2>1. agent[b].pc \in Before => agent[b].turn = 0
    BY DEF TurnInv
  <2>2. agent[b] # Idle => agent[b].pc # "idle"
    BY Begun DEF AgentState
  <2>3. agent'[b] # Idle
    BY <1>2, Moves DEF Idle
  <2>4. CASE AskChallenge(b)
    BY <1>2, <2>1, <2>3, <2>4, Moves DEF Before, Asked
  <2>5. CASE ~AskChallenge(b)
    BY <1>2, <2>1, <2>2, <2>3, <2>5, Moves DEF Before, Asked
  <2> QED BY <2>4, <2>5
<1>3. ASSUME NEW b \in Agents, Run(b)
      PROVE  /\ TurnInv'
             /\ \A a \in Agents : Asked(a) => Asked(a)' /\ agent'[a].turn = agent[a].turn
  BY <1>2, <1>3 DEF TurnInv, Asked
<1> QED BY <1>1, <1>3, AgentsQuiet

\* A nonce that has been issued, to an agent or elsewhere.
Issued(n) == (n \in Agents /\ Asked(n)) \/ (n \in Strangers /\ stranger[n] # "waiting")

\* A request from elsewhere is served once.
LEMMA StrangersKeep ==
    ASSUME TypeOK, [Next]_vars
    PROVE  \A s \in Strangers : stranger[s] # "waiting" => stranger'[s] = stranger[s]
<1>1. CASE stranger' = stranger
  BY <1>1
<1>2. ASSUME NEW x \in Strangers, Intrude(x) \/ EnrollElsewhere(x)
      PROVE  \A s \in Strangers : stranger[s] # "waiting" => stranger'[s] = stranger[s]
  BY <1>2 DEF Intrude, EnrollElsewhere, TypeOK
<1>3. FromElsewhere => \/ stranger' = stranger
                       \/ \E x \in Strangers : Intrude(x) \/ EnrollElsewhere(x)
  BY DEF FromElsewhere, OtherLoads, OtherSaves
<1> QED BY <1>1, <1>2, <1>3, StepKinds, RunQuiet, LoginQuiet, AdminQuiet, RestartQuiet, TickQuiet

\* A nonce that has been issued was.
LEMMA IssuedKept ==
    ASSUME TypeOK, TurnInv, [Next]_vars
    PROVE  \A n : Issued(n) => Issued(n)'
<1>1. \A a \in Agents : Asked(a) => Asked(a)'
  BY TurnStep
<1> QED BY <1>1, StrangersKeep DEF Issued

\* The logins that have taken a challenge.
Took == {l \in Logins : Carried(l) /\ login[l].popped # NoChallenge}

TakenOnce ==
    /\ challenge # NoChallenge => Issued(challenge.nonce)
    /\ \A l \in Took : Issued(login[l].popped.nonce)
    /\ challenge # NoChallenge => \A l \in Took : login[l].popped.nonce # challenge.nonce
    /\ \A l, m \in Took : l # m => login[l].popped.nonce # login[m].popped.nonce
    /\ \A l \in Logins : login[l].pc \in {"popped", "timely"} => l \in Took
    /\ \A l \in Attested : l \in Took /\ login[l].of = login[l].popped.nonce

UseInv == TurnInv /\ TakenOnce

LEMMA TookType ==
    ASSUME TypeOK, NEW l \in Took
    PROVE  login[l] \in LoginState /\ login[l].popped \in Challenge
BY Begun DEF Took, LoginState

\* What a login has taken stays the same while it goes on.
LEMMA TookKept ==
    ASSUME TypeOK, [Next]_vars, NEW l \in Took, Carried(l)'
    PROVE  l \in Took' /\ login'[l].popped = login[l].popped /\ login'[l].of = login[l].of
<1>1. login'[l] # Failed
  BY DEF Carried, Failed
<1>2. login'[l].popped = login[l].popped /\ login'[l].of = login[l].of
  BY <1>1, LoginsKeep DEF Took
<1> QED BY <1>2 DEF Took

\* A step in which no login begins and no challenge is issued.
LEMMA TakenKept ==
    ASSUME TypeOK, UseInv, [Next]_vars,
           challenge' = challenge \/ challenge' = NoChallenge,
           \A l \in Logins : Carried(l)' => Carried(l),
           \A l \in Logins : login'[l].pc \in {"popped", "timely"}
                                => login[l].pc \in {"popped", "timely"}
    PROVE  TakenOnce'
<1>1. \A n : Issued(n) => Issued(n)'
  BY IssuedKept DEF UseInv
<1>2. ASSUME NEW l \in Took' PROVE l \in Took /\ login'[l].popped = login[l].popped
  <2>1. Carried(l)' /\ Carried(l) /\ l \in Logins
    BY DEF Took
  <2>2. login'[l] # Failed
    BY <2>1 DEF Carried, Failed
  <2>3. login'[l].popped = login[l].popped
    BY <2>1, <2>2, LoginsKeep
  <2> QED BY <2>1, <2>3 DEF Took
<1>3. ASSUME NEW l \in Logins, login'[l].pc \in {"popped", "timely"} PROVE l \in Took'
  <2>1. l \in Took
    BY <1>3 DEF UseInv, TakenOnce
  <2>2. Carried(l)'
    BY <1>3 DEF Carried, Idle, Failed
  <2> QED BY <2>1, <2>2, TookKept
<1>4. ASSUME NEW l \in Attested' PROVE l \in Took' /\ login'[l].of = login'[l].popped.nonce
  <2>1. l \in Took /\ login[l].of = login[l].popped.nonce
    <3>1. CASE l \in Attested
      BY <3>1 DEF UseInv, TakenOnce
    <3>2. CASE l \notin Attested
      BY <1>4, <3>2, NewlyAttested DEF Verifies, UseInv, TakenOnce, Attested
    <3> QED BY <3>1, <3>2
  <2>2. Carried(l)'
    BY <1>4 DEF Attested, Carried, Idle, Failed
  <2> QED BY <2>1, <2>2, TookKept
<1>5. challenge' # NoChallenge => Issued(challenge.nonce)' /\ challenge' = challenge
  BY <1>1 DEF UseInv, TakenOnce, Issued, Asked
<1>6. \A l \in Took' : Issued(login[l].popped.nonce)'
  BY <1>1, <1>2 DEF UseInv, TakenOnce, Issued, Asked
<1>7. challenge' # NoChallenge => \A l \in Took' : login'[l].popped.nonce # challenge'.nonce
  BY <1>2, <1>5 DEF UseInv, TakenOnce
<1>8. \A l, m \in Took' : l # m => login'[l].popped.nonce # login'[m].popped.nonce
  BY <1>2 DEF UseInv, TakenOnce
<1> QED BY <1>3, <1>4, <1>5, <1>6, <1>7, <1>8 DEF TakenOnce

\* A challenge is issued that was not before.
LEMMA IssueTakes ==
    ASSUME TypeOK, UseInv, [Next]_vars, NEW n, ~Issued(n), Issued(n)',
           challenge' = [nonce |-> n, exp |-> now + TTL], login' = login
    PROVE  TakenOnce'
<1>1. \A k : Issued(k) => Issued(k)'
  BY IssuedKept DEF UseInv
<1>2. Took' = Took /\ Attested' = Attested
  BY DEF Took, Attested, Carried
<1>3. \A l \in Took : login'[l].popped.nonce # n /\ Issued(login[l].popped.nonce)'
  BY <1>1 DEF UseInv, TakenOnce, Issued, Asked
<1>4. challenge'.nonce = n
  OBVIOUS
<1>5. Issued(challenge.nonce)'
  BY <1>4 DEF Issued, Asked
<1> QED BY <1>2, <1>3, <1>4, <1>5 DEF UseInv, TakenOnce

LEMMA TurnsType ==
    ASSUME TypeOK
    PROVE  Turns \in Nat
<1>1. IsFiniteSet({b \in Running : agent[b].turn > 0})
  BY Numbers, FS_Subset DEF Running
<1> QED BY <1>1, FS_CardinalityType DEF Turns

LEMMA NewlyAsks ==
    ASSUME TypeOK, TurnInv, NEW a \in Agents, AskChallenge(a)
    PROVE  Asked(a)' /\ ~Asked(a) /\ agent'[a].turn = Turns + 1
<1>1. agent[a].turn = 0
  BY DEF AskChallenge, TurnInv, Before
<1>2. agent'[a].pc # "idle" /\ agent'[a].turn = Turns + 1
  BY Moves DEF Run
<1> QED BY <1>1, <1>2, TurnsType DEF Asked, Idle

LEMMA ConsumeTakes ==
    ASSUME TypeOK, UseInv, [Next]_vars, NEW l \in Logins, NEW a \in Agents, Consume(l, a)
    PROVE  TakenOnce'
<1>1. challenge' = NoChallenge /\ login[l] = Idle
  BY DEF Consume
<1>2. \A m \in Logins \ {l} : login'[m] = login[m]
  BY DEF Consume, TypeOK
<1>3. /\ login'[l].popped = challenge
      /\ login'[l].pc = IF challenge = NoChallenge THEN "unattested" ELSE "popped"
  BY DEF Consume, TypeOK
<1>4. Carried(l)' /\ ~Carried(l) /\ login'[l].pc \notin {"attested", "timely"}
  BY <1>1, <1>3 DEF Idle, Failed, Carried
<1>5. l \notin Took
  BY <1>4 DEF Took
<1>6. Took' = IF challenge = NoChallenge THEN Took ELSE Took \cup {l}
  BY <1>2, <1>3, <1>4 DEF Took, Carried
<1>7. Attested' = Attested \ {l}
  BY <1>1, <1>2, <1>4 DEF Attested, Idle
<1>8. \A m \in Took : login'[m] = login[m]
  BY <1>2, <1>5 DEF Took
<1>9. \A m \in Logins : login'[m].pc \in {"popped", "timely"} => m \in Took'
  BY <1>2, <1>3, <1>6 DEF UseInv, TakenOnce
<1>10. \A n : Issued(n) => Issued(n)'
  BY IssuedKept DEF UseInv
<1>11. ASSUME NEW m \in Took' PROVE Issued(login[m].popped.nonce)'
  <2>1. CASE m = l
    <3>1. login'[m].popped = challenge /\ Issued(challenge.nonce)
      BY <1>3, <1>5, <1>6, <1>11, <2>1 DEF UseInv, TakenOnce
    <3> QED BY <1>10, <3>1 DEF Issued, Asked
  <2>2. CASE m # l
    <3>1. m \in Took /\ login'[m].popped = login[m].popped
      BY <1>6, <1>8, <1>11, <2>2
    <3> QED BY <1>10, <3>1 DEF UseInv, TakenOnce, Issued, Asked
  <2> QED BY <2>1, <2>2
<1> QED BY <1>1, <1>3, <1>5, <1>6, <1>7, <1>8, <1>9, <1>11 DEF UseInv, TakenOnce

LEMMA UseStep == TypeOK /\ UseInv /\ [Next]_vars => UseInv'
<1> SUFFICES ASSUME TypeOK, UseInv, [Next]_vars PROVE TakenOnce'
  BY TurnStep DEF UseInv
<1>1. CASE login' = login /\ (challenge' = challenge \/ challenge' = NoChallenge)
  <2>1. \A l \in Logins : Carried(l)' => Carried(l)
    BY <1>1 DEF Carried
  <2> QED BY <1>1, <2>1, TakenKept
<1>2. ASSUME NEW a \in Agents, Run(a) PROVE TakenOnce'
  <2>1. CASE AskChallenge(a)
    <3>1. ~Issued(a) /\ Issued(a)'
      BY <2>1, Names, NewlyAsks DEF Issued, UseInv
    <3>2. challenge' = [nonce |-> a, exp |-> now + TTL] /\ login' = login
      BY <2>1 DEF AskChallenge
    <3> QED BY <3>1, <3>2, IssueTakes
  <2> QED BY <1>1, <1>2, <2>1, RunQuiet
<1>3. ASSUME NEW l \in Logins, Login(l) PROVE TakenOnce'
  <2>1. CASE \E a \in Agents : Consume(l, a)
    BY <2>1, ConsumeTakes
  <2>2. CASE CheckExpiry(l) \/ CheckSignature(l)
    <3>1. login[l].pc \in {"popped", "timely"} /\ Carried(l) /\ challenge' = challenge
      BY <2>2, Begun DEF CheckExpiry, CheckSignature
    <3>2. \A m \in Logins \ {l} : login'[m] = login[m]
      BY <1>3, LoginMoves
    <3>3. \A m \in Logins : Carried(m)' => Carried(m)
      BY <3>1, <3>2 DEF Carried
    <3> QED BY <3>1, <3>2, <3>3, TakenKept
  <2> QED BY <1>3, <2>1, <2>2 DEF Login
<1>4. CASE FromElsewhere
  <2>1. ASSUME NEW s \in Strangers, Intrude(s) PROVE TakenOnce'
    <3>1. challenge' = [nonce |-> s, exp |-> now + TTL] \/ challenge' = NoChallenge
      BY <2>1 DEF Intrude
    <3>2. login' = login
      BY <2>1 DEF Intrude
    <3>3. ~Issued(s)
      BY <2>1, Names DEF Intrude, Issued
    <3>4. Issued(s)'
      <4>1. challenge.nonce # "waiting"
        BY Names DEF TypeOK, Challenge, NoChallenge
      <4> QED BY <2>1, <4>1 DEF Intrude, TypeOK, Issued
    <3> QED BY <1>1, <3>1, <3>2, <3>3, <3>4, IssueTakes
  <2>2. ASSUME NEW o \in Others, OtherLoads(o) \/ OtherSaves(o)
        PROVE  login' = login /\ challenge' = challenge
    BY <2>2 DEF OtherLoads, OtherSaves
  <2>3. ASSUME NEW s \in Strangers, EnrollElsewhere(s)
        PROVE  login' = login /\ challenge' = challenge
    BY <2>3 DEF EnrollElsewhere
  <2> QED BY <1>1, <1>4, <2>1, <2>2, <2>3 DEF FromElsewhere
<1>5. CASE Restart
  <2>1. \A l \in Logins : login'[l] = Failed \/ (/\ login'[l] = login[l]
                                                 /\ login[l].pc \notin {"popped", "timely"})
    BY <1>5, RestartMoves
  <2>2. \A l \in Logins : Carried(l)' => Carried(l)
    BY <2>1 DEF Carried
  <2>3. \A l \in Logins : login'[l].pc \notin {"popped", "timely"}
    BY <2>1 DEF Failed
  <2>4. challenge' = NoChallenge
    BY <1>5 DEF Restart
  <2> QED BY <2>2, <2>3, <2>4, TakenKept
<1>6. CASE (Approve \/ Revoke) \/ (Tick \/ UNCHANGED vars)
  BY <1>1, <1>6, AdminQuiet, TickQuiet
<1> QED BY <1>2, <1>3, <1>4, <1>5, <1>6, StepKinds

LEMMA UseInvariant == Spec => [](TypeOK /\ UseInv)
<1>1. Init => UseInv
  BY DEF Init, UseInv, TurnInv, Before, TakenOnce, Took, Attested, Carried, Idle
<1> QED BY <1>1, UseStep, TypeCorrect, PTL DEF Spec

\* An attestation is a use of a signature that has not been used.
LEMMA OnceStep ==
    ASSUME TypeOK, UseInv, UseInv', [Next]_vars
    PROVE  [Once!Use]_{<<l, login[l].of>> : l \in Attested}
<1> DEFINE Uses == {<<l, login[l].of>> : l \in Attested}
<1>1. \A l \in Attested : l \in Attested' /\ login'[l].of = login[l].of
  BY LoginsKeep DEF Attested
<1>2. CASE Attested' = Attested
  <2>1. Uses' = Uses
    BY <1>1, <1>2
  <2> QED BY <2>1
<1>3. ASSUME NEW l \in Attested', l \notin Attested
      PROVE  Once!Use
  <2>1. CheckSignature(l)
    BY <1>3, NewlyAttested
  <2>2. Attested' = Attested \cup {l}
    BY <1>1, <1>3, <2>1 DEF CheckSignature, TypeOK, Attested
  <2> DEFINE u == <<l, login'[l].of>>
  <2>3. Uses' = Uses \cup {u}
    BY <1>1, <2>2
  <2>4. ASSUME NEW v \in Uses PROVE v[2] # u[2]
    <3>1. PICK m \in Attested : v = <<m, login[m].of>>
      BY <2>4
    <3>2. m \in Took' /\ l \in Took' /\ m # l
      BY <1>1, <1>3, <2>2, <3>1 DEF UseInv, TakenOnce
    <3>3. /\ login'[m].of = login'[m].popped.nonce /\ login'[l].of = login'[l].popped.nonce
          /\ login'[m].popped.nonce # login'[l].popped.nonce
      BY <1>1, <1>3, <3>1, <3>2 DEF UseInv, TakenOnce
    <3> QED BY <1>1, <3>1, <3>3
  <2> QED BY <2>3, <2>4 DEF Once!Use
<1> QED BY <1>1, <1>2, <1>3

\* The challenges of a device implement SingleUse: a signature attests one login,
\* also when it is sent again, when several runs of the agent share the device, when
\* requests come from elsewhere and when the IdP restarts (verify_and_consume pops the
\* nonce before it looks at it).
THEOREM ImplementsSingleUse == Spec => ChallengeSingleUse
<1>1. Init => Once!Init
  BY DEF Init, Once!Init, Attested, Idle
<1> QED BY <1>1, OnceStep, UseInvariant, PTL DEF Spec, Once!Spec, ChallengeSingleUse

(***************************************************************************)
(* Why a signed login is not attested.                                     *)
(***************************************************************************)

\* A later run has asked for a challenge.
Passed(a) == \E b \in Running : agent[b].turn > agent[a].turn

\* A request from elsewhere has taken a's challenge.
Robbed(a) == \E s \in Strangers : stranger[s] = a

\* A writer for another device has left a registry without the record.
Lost == \E o \in Others : other[o] = Dropped

\* Turns are given out in their order, to those who then sign.
TurnsInv ==
    /\ life >= 1
    /\ \A a \in Agents : Asked(a) => agent[a].turn <= Turns
    /\ \A a \in Agents : agent[a].pc \in {"challenged", "signed"} => Asked(a)

\* The record, also in a writer's copy, has a key that a run has or a request from
\* elsewhere has enrolled; a run that was given a challenge had a record, which is lost
\* or there.
Held(k)  == \/ \E b \in Agents : agent[b].pc \in Keyed /\ agent[b].key = k
            \/ k \in Keys /\ \E s \in Strangers : stranger[s] = k
Owned(r) == r # NoRecord => Held(r.key)
RecordInv ==
    /\ Owned(record)
    /\ \A o \in Others : other[o].pc = "loaded" => Owned(other[o].copy)
    /\ \A a \in Agents : agent[a].pc \in {"challenged", "signed"} => record # NoRecord \/ Lost

\* A challenge that was issued is outstanding, or somebody has it, or it is lost.
IssuedInv ==
    \A a \in Agents : Asked(a) =>
        \/ life > 1 \/ Passed(a) \/ Robbed(a)
        \/ challenge # NoChallenge /\ challenge.nonce = a
        \/ \E l \in Took : login[l].popped.nonce = a

\* A login took its own challenge, or it was lost.
Missed(l) ==
    \/ life > 1 \/ Passed(login[l].of) \/ Robbed(login[l].of)
    \/ \E m \in Logins \ {l} : Carried(m) /\ login[m].popped.nonce = login[l].of
TookOwn(l) == l \in Took /\ login[l].popped.nonce = login[l].of
MissedInv  == \A l \in Logins : Carried(l) => TookOwn(l) \/ Missed(l)

\* What UnattestedHasCause says, with a run that keeps the other key.
OtherKey(a, k) == k # agent[a].key /\ Held(k)
Reason(l) ==
    \/ Missed(l)
    \/ login[l].popped # NoChallenge /\ Expired(l)
    \/ l \in misread
    \/ Lost
    \/ login[l].seen # NoRecord /\ login[l].seen.status # "approved"
    \/ login[l].seen # NoRecord /\ OtherKey(login[l].of, login[l].seen.key)
    \/ FileReplaced(login[l].of)
ReasonInv == \A l \in Logins : login[l].pc = "unattested" => Reason(l)

CauseInv == TurnsInv /\ RecordInv /\ IssuedInv /\ MissedInv /\ ReasonInv

\* What is proved above.
Known == TypeOK /\ KeysInv /\ TrustInv /\ UseInv

\* What has happened stays so.
LEMMA CausesStay ==
    ASSUME TypeOK, UseInv, [Next]_vars
    PROVE  /\ life' >= life /\ (Restart => life' = life + 1)
           /\ misread \subseteq misread'
           /\ Lost => Lost'
           /\ \A a \in Agents : Robbed(a) => Robbed(a)'
<1>1. life' >= life /\ (Restart => life' = life + 1)
  BY StepKinds, RunQuiet, LoginQuiet, FromElsewhereQuiet, AdminQuiet, TickQuiet
     DEF Restart, TypeOK
<1>2. misread \subseteq misread'
  <2>1. ASSUME NEW l \in Logins, Login(l) PROVE misread \subseteq misread'
    BY <2>1 DEF Login, Consume, CheckExpiry, CheckSignature, history
  <2> QED BY <2>1, StepKinds, RunQuiet, FromElsewhereQuiet, AdminQuiet, RestartQuiet, TickQuiet
<1>3. Lost => Lost'
  <2>1. CASE other' = other
    BY <2>1 DEF Lost
  <2>2. ASSUME NEW o \in Others, OtherLoads(o) \/ OtherSaves(o) PROVE Lost => Lost'
    <3>1. \A q \in Others \ {o} : other'[q] = other[q]
      BY <2>2 DEF OtherLoads, OtherSaves, TypeOK
    <3>2. other[o] # Dropped
      BY <2>2 DEF OtherLoads, OtherSaves, Idle, Dropped
    <3> QED BY <3>1, <3>2 DEF Lost
  <2>3. FromElsewhere => other' = other \/ \E o \in Others : OtherLoads(o) \/ OtherSaves(o)
    BY DEF FromElsewhere, Intrude, EnrollElsewhere
  <2> QED BY <2>1, <2>2, <2>3, StepKinds, RunQuiet, LoginQuiet, AdminQuiet, RestartQuiet, TickQuiet
<1>4. ASSUME NEW a \in Agents, Robbed(a) PROVE Robbed(a)'
  <2>1. PICK s \in Strangers : stranger[s] = a
    BY <1>4 DEF Robbed
  <2>2. stranger'[s] = stranger[s]
    BY <2>1, Names, StrangersKeep
  <2> QED BY <2>1, <2>2 DEF Robbed
<1> QED BY <1>1, <1>2, <1>3, <1>4

\* Who has just asked, and has the highest turn.
LEMMA NewlyAsked ==
    ASSUME TypeOK, UseInv, [Next]_vars, NEW a \in Agents, Asked(a)', ~Asked(a)
    PROVE  AskChallenge(a) /\ agent'[a].turn = Turns + 1
<1>1. ASSUME agent' = agent PROVE FALSE
  BY <1>1 DEF Asked
<1>2. PICK b \in Agents : Run(b)
  BY <1>1, AgentsQuiet
<1>3. a = b
  BY <1>2, Moves DEF Asked
<1>4. agent[a].turn = 0 \/ agent[a].pc = "idle"
  <2>1. CASE agent[a] = Idle
    BY <2>1 DEF Idle
  <2>2. CASE agent[a] # Idle
    BY <2>2, Begun DEF Asked, AgentState
  <2> QED BY <2>1, <2>2
<1>5. agent'[a].turn > 0
  BY DEF Asked
<1>6. AskChallenge(a)
  BY <1>2, <1>3, <1>4, <1>5, Moves
<1> QED BY <1>6, NewlyAsks DEF UseInv

AskedSet == {a \in Running : agent[a].turn > 0}

\* The number of turns grows with them.
LEMMA TurnsGrow ==
    ASSUME TypeOK, UseInv, [Next]_vars
    PROVE  /\ Turns \in Nat /\ Turns' \in Nat /\ Turns <= Turns'
           /\ \A a \in Agents : Asked(a)' /\ ~Asked(a) => Turns + 1 <= Turns'
<1>1. AskedSet = {a \in Agents : Asked(a)} /\ AskedSet' = {a \in Agents : Asked(a)'}
  BY DEF AskedSet, Running, Asked
<1>2. IsFiniteSet(AskedSet) /\ IsFiniteSet(AskedSet') /\ AskedSet \subseteq AskedSet'
  BY <1>1, Numbers, FS_Subset, TurnStep DEF UseInv
<1>3. Turns = Cardinality(AskedSet) /\ Turns' = Cardinality(AskedSet')
  BY DEF Turns, AskedSet
<1>4. Turns \in Nat /\ Turns' \in Nat /\ Turns <= Turns'
  BY <1>2, <1>3, FS_CardinalityType, FS_Subset
<1>5. ASSUME NEW a \in Agents, Asked(a)', ~Asked(a) PROVE Turns + 1 <= Turns'
  <2>1. a \notin AskedSet /\ AskedSet \cup {a} \subseteq AskedSet'
    BY <1>1, <1>2, <1>5
  <2>2. IsFiniteSet(AskedSet \cup {a}) /\ Cardinality(AskedSet \cup {a}) = Cardinality(AskedSet) + 1
    BY <1>2, <2>1, FS_AddElement
  <2>3. Cardinality(AskedSet \cup {a}) <= Cardinality(AskedSet')
    BY <1>2, <2>1, FS_Subset
  <2> QED BY <1>3, <2>2, <2>3
<1> QED BY <1>4, <1>5

LEMMA AskedTurn ==
    ASSUME TypeOK, NEW a \in Agents, Asked(a)
    PROVE  agent[a].turn \in Nat /\ agent[a].turn > 0
BY Begun DEF Asked, AgentState

\* A run that asked stays behind those it is behind.
LEMMA PassedKept ==
    ASSUME TypeOK, TypeOK', UseInv, [Next]_vars, NEW a \in Agents, Asked(a), Passed(a)
    PROVE  Passed(a)'
<1>1. PICK b \in Agents : agent[b] # Idle /\ agent[b].turn > agent[a].turn
  BY DEF Passed, Running
<1>2. Asked(b)
  <2>1. agent[b].turn \in Nat
    BY <1>1, Begun DEF AgentState
  <2> QED BY <1>1, <2>1, AskedTurn DEF Asked
<1>3. /\ agent'[a].turn = agent[a].turn /\ agent'[b].turn = agent[b].turn
      /\ Asked(b)'
  BY <1>2, TurnStep DEF UseInv
<1> QED BY <1>1, <1>3 DEF Passed, Running, Asked

\* A run that has a challenge, or a signature of it, had one before or has just asked.
LEMMA SignersAsked ==
    ASSUME TypeOK, UseInv, [Next]_vars, NEW a \in Agents,
           agent'[a].pc \in {"challenged", "signed"}
    PROVE  AskChallenge(a) \/ agent[a].pc \in {"challenged", "signed"}
<1>1. CASE agent'[a] = agent[a]
  BY <1>1
<1>2. CASE agent'[a] # agent[a]
  <2>1. Run(a)
    BY <1>2, AgentsQuiet, Moves
  <2> QED BY <2>1, Moves
<1> QED BY <1>1, <1>2

LEMMA TurnsStep ==
    ASSUME TypeOK, TypeOK', UseInv, TurnsInv, [Next]_vars
    PROVE  TurnsInv'
<1>1. ASSUME NEW a \in Agents, Asked(a)' PROVE agent'[a].turn <= Turns'
  <2>1. CASE Asked(a)
    <3>1. agent'[a].turn = agent[a].turn /\ agent[a].turn <= Turns
      BY <2>1, TurnStep DEF UseInv, TurnsInv
    <3> QED BY <2>1, <3>1, TurnsGrow, AskedTurn
  <2>2. CASE ~Asked(a)
    BY <1>1, <2>2, TurnsGrow, NewlyAsked
  <2> QED BY <2>1, <2>2
<1>2. ASSUME NEW a \in Agents, agent'[a].pc \in {"challenged", "signed"} PROVE Asked(a)'
  BY <1>2, SignersAsked, NewlyAsks, TurnStep DEF UseInv, TurnsInv
<1>3. life' >= 1
  BY CausesStay DEF TurnsInv, TypeOK
<1> QED BY <1>1, <1>2, <1>3 DEF TurnsInv

\* A challenge leaves _CHALLENGES only to a login, to a request from elsewhere, to a
\* later challenge or with the process.
LEMMA IssuedStep ==
    ASSUME Known, TypeOK', TurnsInv, IssuedInv, [Next]_vars
    PROVE  IssuedInv'
<1> USE DEF Known
<1> DEFINE Goal(a) == \/ life' > 1 \/ Passed(a)' \/ Robbed(a)'
                      \/ challenge' # NoChallenge /\ challenge'.nonce = a
                      \/ \E l \in Took' : login'[l].popped.nonce = a
<1>1. ASSUME NEW a \in Agents, Asked(a), \E l \in Took : login[l].popped.nonce = a PROVE Goal(a)
  <2>1. PICK l \in Took : login[l].popped.nonce = a
    BY <1>1
  <2>2. CASE Restart
    BY <2>2, CausesStay DEF TurnsInv, TypeOK
  <2>3. CASE ~Restart
    <3>1. Carried(l)'
      BY <2>3, LoginsKeep DEF Took
    <3>2. l \in Took' /\ login'[l].popped.nonce = a
      BY <2>1, <3>1, TookKept
    <3> QED BY <3>2
  <2> QED BY <2>2, <2>3
<1>2. ASSUME NEW a \in Agents, Asked(a), life > 1 \/ Passed(a) \/ Robbed(a) PROVE Goal(a)
  BY <1>2, PassedKept, CausesStay DEF TypeOK
<1>3. ASSUME NEW a \in Agents, Asked(a), challenge # NoChallenge, challenge.nonce = a PROVE Goal(a)
  <2>1. CASE challenge' = challenge
    BY <1>3, <2>1
  <2>2. ASSUME NEW b \in Agents, AskChallenge(b) PROVE Goal(a)
    <3>1. Asked(b)' /\ ~Asked(b) /\ agent'[b].turn = Turns + 1
      BY <2>2, NewlyAsks DEF UseInv
    <3>2. agent'[a].turn = agent[a].turn
      BY <1>3, TurnStep DEF UseInv
    <3>3. agent'[b].turn > agent'[a].turn
      BY <1>3, <3>1, <3>2, TurnsGrow, AskedTurn DEF TurnsInv
    <3> QED BY <3>1, <3>3 DEF Passed, Running, Asked
  <2>3. ASSUME NEW l \in Logins, Login(l), challenge' # challenge PROVE Goal(a)
    <3>1. login'[l].popped = challenge /\ Carried(l)'
      BY <2>3, LoginMoves
    <3>2. l \in Took'
      BY <1>3, <3>1 DEF Took
    <3> QED BY <1>3, <3>1, <3>2
  <2>4. ASSUME NEW s \in Strangers, Intrude(s) PROVE Goal(a)
    <3>1. stranger'[s] = a
      BY <1>3, <2>4 DEF Intrude, TypeOK
    <3> QED BY <3>1 DEF Robbed
  <2>5. CASE Restart
    BY <2>5, CausesStay DEF TurnsInv, TypeOK
  <2>6. FromElsewhere => challenge' = challenge \/ \E s \in Strangers : Intrude(s)
    BY DEF FromElsewhere, EnrollElsewhere, OtherLoads, OtherSaves
  <2> HIDE DEF Goal
  <2> QED BY <2>1, <2>2, <2>3, <2>4, <2>5, <2>6, StepKinds, RunQuiet, AdminQuiet, TickQuiet
<1>4. ASSUME NEW a \in Agents, Asked(a)', ~Asked(a) PROVE Goal(a)
  <2>1. AskChallenge(a)
    BY <1>4, NewlyAsked
  <2>2. challenge' = [nonce |-> a, exp |-> now + TTL]
    BY <2>1 DEF AskChallenge
  <2> QED BY <2>2 DEF NoChallenge
<1> QED BY <1>1, <1>2, <1>3, <1>4 DEF IssuedInv

\* Somebody who has a key keeps it.
HeldThen(k) == \/ \E b \in Agents : agent'[b].pc \in Keyed /\ agent'[b].key = k
               \/ k \in Keys /\ \E s \in Strangers : stranger'[s] = k

LEMMA HeldKept ==
    ASSUME TypeOK, [Next]_vars, NEW k, Held(k)
    PROVE  HeldThen(k)
<1>1. ASSUME NEW b \in Agents, agent[b].pc \in Keyed, agent[b].key = k PROVE HeldThen(k)
  <2>1. agent'[b].pc \in Keyed /\ agent'[b].key = k
    BY <1>1, AgentsKeep
  <2> QED BY <2>1 DEF HeldThen
<1>2. ASSUME k \in Keys, NEW s \in Strangers, stranger[s] = k PROVE HeldThen(k)
  <2>1. stranger'[s] = k
    BY <1>2, Names, StrangersKeep
  <2> QED BY <1>2, <2>1 DEF HeldThen
<1> QED BY <1>1, <1>2 DEF Held

\* A registry without the record has never had it, or a writer has dropped it.
LEMMA RecordStays ==
    ASSUME TypeOK, UseInv, [Next]_vars, record # NoRecord \/ Lost
    PROVE  record' # NoRecord \/ Lost'
<1>1. CASE record' = record \/ Lost
  BY <1>1, CausesStay
<1>2. ASSUME NEW a \in Agents, Enrolls(a) PROVE record' = record \/ record' # NoRecord
  <2>1. PICK old \in Reads : record' = record \/ record' = Enrolled(old, agent[a].key)
    BY <1>2 DEF Enrolls, Enroll, EnrollFails, Reads
  <2>2. [status |-> "pending", key |-> agent[a].key] # NoRecord
    BY DEF NoRecord
  <2> QED BY <2>1, <2>2 DEF Enrolled
<1>3. ASSUME NEW o \in Others, OtherSaves(o) PROVE record' # NoRecord \/ Lost'
  <2>1. other[o].copy = NoRecord => other'[o] = Dropped
    BY <1>3 DEF OtherSaves, TypeOK
  <2> QED BY <1>3, <2>1 DEF OtherSaves, Lost
<1>4. ASSUME Approve \/ Revoke PROVE record' # NoRecord
  <2>1. record \in Record
    BY <1>4 DEF Approve, Revoke, TypeOK
  <2>2. record'.status \in {"approved", "revoked"}
    BY <1>4, <2>1 DEF Approve, Revoke, Record
  <2> QED BY <2>2 DEF NoRecord
<1>5. ASSUME NEW s \in Strangers, EnrollElsewhere(s) PROVE record' # NoRecord
  <2>1. PICK k \in SoftKeys, old \in Reads : record' = Enrolled(old, k)
    BY <1>5 DEF EnrollElsewhere
  <2>2. [status |-> "pending", key |-> k] # NoRecord
    BY DEF NoRecord
  <2> QED BY <2>1, <2>2 DEF Enrolled
<1>6. FromElsewhere => \/ record' = record
                       \/ \E s \in Strangers : EnrollElsewhere(s)
                       \/ \E o \in Others : OtherSaves(o)
  BY DEF FromElsewhere, Intrude, OtherLoads
<1> QED BY <1>1, <1>2, <1>3, <1>4, <1>5, <1>6, StepKinds, RunQuiet, LoginQuiet, RestartQuiet, TickQuiet

\* A record has the key of the run, or of the request, that enrolled it.
LEMMA OwnedStep ==
    ASSUME TypeOK, RecordInv, [Next]_vars
    PROVE  /\ Owned(record)'
           /\ \A o \in Others : other'[o].pc = "loaded" => Owned(other[o].copy)'
<1> DEFINE OwnedThen(r) == r # NoRecord => HeldThen(r.key)
<1>1. \A r : Owned(r) => OwnedThen(r)
  BY HeldKept DEF Owned
<1>2. OwnedThen(NoRecord)
  OBVIOUS
<1>3. OwnedThen(record')
  <2>1. CASE record' = record
    BY <1>1, <2>1 DEF RecordInv
  <2>2. ASSUME NEW a \in Agents, Enrolls(a) PROVE OwnedThen(record')
    <3>1. PICK old \in Reads : record' = record \/ record' = Enrolled(old, agent[a].key)
      BY <2>2 DEF Enrolls, Enroll, EnrollFails, Reads
    <3>2. Held(agent[a].key)
      BY <2>2 DEF Enrolls, Enroll, EnrollFails, Held, Keyed
    <3>3. OwnedThen([status |-> "pending", key |-> agent[a].key])
      BY <3>2, HeldKept
    <3>4. OwnedThen(old)
      BY <1>1, <1>2 DEF RecordInv, Reads
    <3> HIDE DEF OwnedThen
    <3> QED BY <2>1, <3>1, <3>3, <3>4 DEF Enrolled
  <2>3. ASSUME NEW o \in Others, OtherSaves(o) PROVE OwnedThen(record')
    BY <1>1, <2>3 DEF OtherSaves, RecordInv
  <2>4. CASE Approve \/ Revoke
    <3>1. record \in Record /\ record # NoRecord
      BY <2>4 DEF Approve, Revoke, TypeOK
    <3>2. record'.key = record.key
      BY <2>4, <3>1 DEF Approve, Revoke, Record
    <3> QED BY <1>1, <3>1, <3>2 DEF RecordInv
  <2>5. ASSUME NEW s \in Strangers, EnrollElsewhere(s) PROVE OwnedThen(record')
    <3>1. PICK k \in Keys, old \in Reads : record' = Enrolled(old, k) /\ stranger'[s] = k
      BY <2>5 DEF EnrollElsewhere, Keys, TypeOK
    <3>2. OwnedThen([status |-> "pending", key |-> k])
      BY <3>1 DEF HeldThen
    <3>3. OwnedThen(old)
      BY <1>1, <1>2 DEF RecordInv, Reads
    <3> HIDE DEF OwnedThen
    <3> QED BY <3>1, <3>2, <3>3 DEF Enrolled
  <2>6. FromElsewhere => \/ record' = record
                         \/ \E s \in Strangers : EnrollElsewhere(s)
                         \/ \E o \in Others : OtherSaves(o)
    BY DEF FromElsewhere, Intrude, OtherLoads
  <2> HIDE DEF OwnedThen
  <2> QED BY <2>1, <2>2, <2>3, <2>4, <2>5, <2>6, StepKinds, RunQuiet, LoginQuiet, RestartQuiet, TickQuiet
<1>4. ASSUME NEW o \in Others, other'[o].pc = "loaded" PROVE OwnedThen(other'[o].copy)
  <2>1. CASE other'[o] = other[o]
    BY <1>1, <1>4, <2>1 DEF RecordInv
  <2>2. ASSUME NEW q \in Others, OtherLoads(q) PROVE OwnedThen(other'[o].copy)
    <3>1. PICK copy \in Reads : other' = [other EXCEPT ![q] = [pc |-> "loaded", copy |-> copy]]
      BY <2>2 DEF OtherLoads
    <3>2. CASE o = q
      <4>1. other'[o].copy = copy
        BY <3>1, <3>2 DEF TypeOK
      <4> QED BY <1>1, <1>2, <4>1 DEF RecordInv, Reads
    <3>3. CASE o # q
      <4>1. other'[o] = other[o]
        BY <3>1, <3>3 DEF TypeOK
      <4> QED BY <2>1, <4>1
    <3> QED BY <3>2, <3>3
  <2>3. ASSUME NEW q \in Others, OtherSaves(q) PROVE other'[o] = other[o]
    BY <1>4, <2>3 DEF OtherSaves, TypeOK, Kept, Dropped
  <2>4. FromElsewhere => \/ other' = other
                         \/ \E q \in Others : OtherLoads(q) \/ OtherSaves(q)
    BY DEF FromElsewhere, Intrude, EnrollElsewhere
  <2> HIDE DEF OwnedThen
  <2> QED BY <2>1, <2>2, <2>3, <2>4, StepKinds, RunQuiet, LoginQuiet, AdminQuiet, RestartQuiet, TickQuiet
<1> QED BY <1>3, <1>4 DEF Owned, Held, HeldThen

LEMMA RecordStep ==
    ASSUME TypeOK, UseInv, RecordInv, [Next]_vars
    PROVE  RecordInv'
<1>1. ASSUME NEW a \in Agents, agent'[a].pc \in {"challenged", "signed"}
      PROVE  record' # NoRecord \/ Lost'
  <2>1. record # NoRecord \/ Lost
    BY <1>1, SignersAsked DEF AskChallenge, RecordInv
  <2> QED BY <2>1, RecordStays
<1> QED BY <1>1, OwnedStep DEF RecordInv

\* Whose signature a login carries; the agent has stopped.
LEMMA Signer ==
    ASSUME Known, TurnsInv, [Next]_vars, NEW l \in Logins, Carried(l), Carried(l)'
    PROVE  /\ login[l].of \in Agents /\ agent[login[l].of].pc = "signed" /\ Asked(login[l].of)
           /\ agent'[login[l].of] = agent[login[l].of]
           /\ login'[l].of = login[l].of /\ login'[l].popped = login[l].popped
<1>1. login[l].of \in Agents /\ agent[login[l].of].pc = "signed"
  BY Begun DEF Known, TrustInv, LoginState
<1>2. login'[l] # Failed
  BY DEF Carried, Failed
<1> QED BY <1>1, <1>2, LoginsKeep, AgentsKeep DEF Known, TurnsInv

\* What was lost stays lost.
LEMMA MissedKept ==
    ASSUME Known, TypeOK', TurnsInv, [Next]_vars,
           NEW l \in Logins, Carried(l), Carried(l)', Missed(l)
    PROVE  Missed(l)'
<1>0. PICK a \in Agents : a = login[l].of /\ login'[l].of = a /\ Asked(a)
  BY Signer
<1>1. CASE Passed(a)
  <2>1. Passed(a)'
    BY <1>0, <1>1, PassedKept DEF Known
  <2> QED BY <1>0, <2>1 DEF Missed, Passed, Running
<1>2. CASE Robbed(a)
  <2>1. Robbed(a)'
    BY <1>2, CausesStay DEF Known
  <2> QED BY <1>0, <2>1 DEF Missed, Robbed
<1>3. CASE life > 1 \/ Restart
  <2>1. life' > 1
    BY <1>3, CausesStay DEF Known, TypeOK, TurnsInv
  <2> QED BY <2>1 DEF Missed
<1>4. ASSUME NEW m \in Logins \ {l}, Carried(m), login[m].popped.nonce = a, ~Restart
      PROVE  Missed(l)'
  <2>1. Carried(m)' /\ login'[m].popped = login[m].popped
    BY <1>4, LoginsKeep DEF Known
  <2> QED BY <1>0, <1>4, <2>1 DEF Missed
<1> QED BY <1>0, <1>1, <1>2, <1>3, <1>4 DEF Missed

LEMMA MissedStep ==
    ASSUME Known, TypeOK', TurnsInv, IssuedInv, MissedInv, [Next]_vars
    PROVE  MissedInv'
<1> SUFFICES ASSUME NEW l \in Logins, Carried(l)' PROVE TookOwn(l)' \/ Missed(l)'
  BY DEF MissedInv
<1>1. CASE Carried(l)
  <2>1. CASE TookOwn(l)
    BY <2>1, TookKept DEF Known, TookOwn
  <2> QED BY <1>1, <2>1, MissedKept DEF MissedInv
<1>2. CASE ~Carried(l)
  <2>1. PICK a \in Agents : Consume(l, a) /\ login'[l].of = a
    BY <1>2, CarriedBefore DEF Known
  <2>2. /\ login'[l].popped = challenge
        /\ \A m \in Logins \ {l} : login'[m] = login[m]
    BY <2>1 DEF Consume, Known, TypeOK
  <2>3. agent' = agent /\ life' = life /\ stranger' = stranger
    BY <2>1, LoginQuiet DEF Login
  <2>4. Asked(a)
    BY <2>1 DEF Consume, TurnsInv
  <2>5. CASE life > 1 \/ Passed(a) \/ Robbed(a)
    BY <2>1, <2>3, <2>5 DEF Missed, Passed, Running, Robbed
  <2>6. CASE challenge # NoChallenge /\ challenge.nonce = a
    BY <2>1, <2>2, <2>6 DEF TookOwn, Took
  <2>7. CASE \E m \in Took : login[m].popped.nonce = a
    <3>1. PICK m \in Took : login[m].popped.nonce = a
      BY <2>7
    <3>2. m \in Logins \ {l} /\ Carried(m)
      BY <1>2 DEF Took
    <3>3. Carried(m)' /\ login'[m].popped.nonce = a
      BY <2>2, <3>1, <3>2 DEF Carried
    <3> QED BY <2>1, <3>2, <3>3 DEF Missed
  <2> QED BY <2>4, <2>5, <2>6, <2>7 DEF IssuedInv
<1> QED BY <1>1, <1>2

\* A reason stays one.
LEMMA ReasonKept ==
    ASSUME Known, TypeOK', TurnsInv, [Next]_vars,
           NEW l \in Logins, login[l].pc = "unattested", Reason(l)
    PROVE  Reason(l)'
<1>1. Carried(l) /\ Carried(l)' /\ login'[l] = login[l]
  <2>1. Carried(l) /\ login'[l] = login[l]
    BY Begun, LoginsKeep DEF Known
  <2> QED BY <2>1 DEF Carried
<1>2. agent'[login[l].of] = agent[login[l].of]
  BY <1>1, Signer
<1>3. CASE Missed(l)
  BY <1>1, <1>3, MissedKept DEF Reason
<1>4. CASE login[l].seen # NoRecord /\ OtherKey(login[l].of, login[l].seen.key)
  BY <1>1, <1>2, <1>4, HeldKept DEF Reason, OtherKey, Held, HeldThen, Known
<1>5. CASE l \in misread \/ Lost
  BY <1>5, CausesStay DEF Reason, Known
<1> QED BY <1>1, <1>2, <1>3, <1>4, <1>5 DEF Reason, Expired, FileReplaced

\* What CheckSignature finds wrong.
LEMMA RefusedSignature ==
    ASSUME Known, TypeOK', TurnsInv, RecordInv, MissedInv, MissedInv', [Next]_vars,
           NEW l \in Logins, CheckSignature(l), login'[l].pc = "unattested"
    PROVE  Reason(l)'
<1> DEFINE a    == login[l].of
           seen == login'[l].seen
<1>1. /\ login[l].pc = "timely" /\ Carried(l) /\ Carried(l)'
      /\ login'[l].of = a /\ login'[l].popped = login[l].popped
      /\ seen \in Reads /\ (seen = record \/ l \in misread')
      /\ ~Verifies(l, seen)
  <2>1. Login(l)
    BY DEF Login
  <2>2. login[l].pc = "timely"
    BY DEF CheckSignature
  <2>3. login[l] # Idle
    BY <2>2 DEF Idle
  <2> QED BY <2>1, <2>2, <2>3, LoginMoves DEF Known, CheckExpiry
<1>2. /\ agent' = agent /\ softKey' = softKey /\ life' = life /\ other' = other
      /\ stranger' = stranger /\ record' = record
  BY LoginQuiet DEF Login
<1>3. a \in Agents /\ agent[a].pc = "signed"
  BY <1>1, Signer
<1>4. CASE l \in misread'
  BY <1>4 DEF Reason
<1>5. CASE seen = NoRecord /\ seen = record
  <2>1. Lost
    BY <1>3, <1>5 DEF RecordInv
  <2> QED BY <2>1, <1>2 DEF Reason, Lost
<1>6. CASE seen # NoRecord /\ seen = record
  <2>1. CASE seen.status # "approved"
    BY <1>6, <2>1 DEF Reason
  <2>2. CASE agent[a].signed # seen.key
    <3>1. CASE seen.key # agent[a].key
      <4>1. Held(seen.key)
        BY <1>6 DEF RecordInv, Owned
      <4>2. /\ seen.key # agent'[a].key
            /\ HeldThen(seen.key)
        BY <1>2, <3>1, <4>1 DEF Held, HeldThen
      <4> QED BY <1>1, <1>6, <4>2 DEF Reason, OtherKey, Held, HeldThen
    <3>2. CASE seen.key = agent[a].key
      <4>1. Suits(agent[a], agent[a].key) /\ Suits(agent[a], agent[a].signed)
        BY <1>3 DEF Known, KeysInv, Keyed
      <4>2. {agent[a].signed, agent[a].key} \subseteq SoftKeys
        BY <2>2, <3>2, <4>1 DEF Suits
      <4> QED BY <1>1, <1>2, <2>2, <3>2, <4>2 DEF Reason, FileReplaced
    <3> QED BY <3>1, <3>2
  <2>3. CASE a # login[l].popped.nonce
    <3>1. Missed(l)'
      BY <1>1, <2>3 DEF MissedInv, TookOwn
    <3> QED BY <3>1 DEF Reason
  <2> QED BY <1>1, <1>6, <2>1, <2>2, <2>3 DEF Verifies
<1> QED BY <1>1, <1>4, <1>5, <1>6

\* A login is refused its attestation by one of three steps.
LEMMA NewlyRefused ==
    ASSUME TypeOK, [Next]_vars, NEW l \in Logins,
           login[l].pc # "unattested", login'[l].pc = "unattested"
    PROVE  Login(l)
<1>1. login' # login
  OBVIOUS
<1>2. ASSUME Restart PROVE FALSE
  <2>1. login'[l] = Failed \/ login'[l] = login[l]
    BY <1>2, RestartMoves
  <2> QED BY <2>1 DEF Failed
<1>3. ASSUME NEW m \in Logins, Login(m) PROVE l = m
  BY <1>3, LoginMoves
<1> QED BY <1>1, <1>2, <1>3, LoginsQuiet

LEMMA ReasonStep ==
    ASSUME Known, TypeOK', TurnsInv, RecordInv, MissedInv, MissedInv', ReasonInv, [Next]_vars
    PROVE  ReasonInv'
<1> SUFFICES ASSUME NEW l \in Logins, login'[l].pc = "unattested" PROVE Reason(l)'
  BY DEF ReasonInv
<1>1. CASE login[l].pc = "unattested"
  BY <1>1, ReasonKept DEF ReasonInv
<1>2. CASE login[l].pc # "unattested"
  <2>0. Login(l)
    BY <1>2, NewlyRefused DEF Known
  <2>1. ASSUME NEW a \in Agents, Consume(l, a) PROVE Reason(l)'
    <3>1. login'[l].popped = NoChallenge
      BY <2>1 DEF Consume, Known, TypeOK
    <3>2. Carried(l)'
      BY <2>0, LoginMoves DEF Known
    <3>3. Missed(l)'
      BY <3>1, <3>2 DEF MissedInv, TookOwn, Took
    <3> QED BY <3>3 DEF Reason
  <2>2. CASE CheckExpiry(l)
    <3>1. login[l] \in LoginState /\ l \in Took
      BY <2>2, Begun DEF CheckExpiry, Known, UseInv, TakenOnce
    <3>2. now > login[l].popped.exp /\ login'[l].at = now /\ login'[l].popped = login[l].popped
      BY <2>2, <3>1 DEF CheckExpiry, LoginState, Known, TypeOK
    <3> QED BY <3>1, <3>2 DEF Reason, Expired, Took
  <2>3. CASE CheckSignature(l)
    BY <2>3, RefusedSignature
  <2> QED BY <2>0, <2>1, <2>2, <2>3 DEF Login
<1> QED BY <1>1, <1>2

LEMMA CauseStep ==
    ASSUME Known, TypeOK', CauseInv, [Next]_vars
    PROVE  CauseInv'
<1>1. TurnsInv' /\ RecordInv' /\ IssuedInv' /\ MissedInv'
  BY TurnsStep, RecordStep, IssuedStep, MissedStep DEF CauseInv, Known
<1> QED BY <1>1, ReasonStep DEF CauseInv

\* A signed login that is not attested has a cause: the challenge ran out, was
\* replaced, used up, taken from elsewhere or lost with the process; the registry could
\* not be read, or had lost the record, or the device was not approved; or another run
\* or a request from elsewhere has changed the key (agent/device_attestation.py: sign_nonce uses the key that was
\* enrolled).
THEOREM RefusalHasCause == Spec => []UnattestedHasCause
<1>1. Init => CauseInv
  <2>1. ASSUME Init PROVE \A a \in Agents : agent[a] = Idle /\ agent[a].pc = "idle"
    BY <2>1 DEF Init, Idle
  <2>2. ASSUME Init PROVE \A l \in Logins : ~Carried(l) /\ login[l].pc = "idle"
    BY <2>2 DEF Init, Idle, Carried
  <2>3. ASSUME Init PROVE \A o \in Others : other[o].pc # "loaded"
    BY <2>3 DEF Init, Idle
  <2>4. ASSUME Init PROVE life = 1 /\ record = NoRecord
    BY <2>4 DEF Init
  <2> QED BY <2>1, <2>2, <2>3, <2>4
      DEF CauseInv, TurnsInv, RecordInv, Owned, IssuedInv, MissedInv, ReasonInv, Asked
<1>2. TypeOK /\ CauseInv => UnattestedHasCause
  <2> SUFFICES ASSUME TypeOK, CauseInv, NEW l \in Logins, login[l].pc = "unattested"
               PROVE  \/ \E b \in Running : agent[b].turn > agent[login[l].of].turn
                      \/ \E m \in Logins \ {l} :
                             /\ login[m] \notin {Idle, Failed}
                             /\ login[m].popped.nonce = login[l].of
                      \/ \E s \in Strangers : stranger[s] = login[l].of
                      \/ life > 1
                      \/ login[l].popped # NoChallenge /\ Expired(l)
                      \/ l \in misread
                      \/ \E o \in Others : other[o] = Dropped
                      \/ login[l].seen # NoRecord /\ login[l].seen.status # "approved"
                      \/ /\ login[l].seen # NoRecord
                         /\ login[l].seen.key # agent[login[l].of].key
                         /\ login[l].seen.key \in {agent[b].key : b \in Running}
                                                \cup {stranger[s] : s \in Strangers}
                      \/ FileReplaced(login[l].of)
    BY DEF UnattestedHasCause
  <2>1. Reason(l)
    BY DEF CauseInv, ReasonInv
  <2>2. \A b \in Agents : agent[b].pc \in Keyed => b \in Running
    BY DEF Keyed, Running, Idle
  <2> QED BY <2>1, <2>2 DEF Reason, Missed, Passed, Robbed, Lost, OtherKey, Held, Carried
<1>3. Known /\ TypeOK' /\ CauseInv /\ [Next]_vars => CauseInv'
  BY CauseStep
<1>4. Known <=> TypeOK /\ KeysInv /\ TrustInv /\ UseInv
  BY DEF Known
<1>5. Init => TrustInv
  BY DEF Init, TrustInv, Trusted, AttestedByApprovedKey, Attested, Carried, Idle
<1>6. Spec => []TrustInv
  BY <1>5, TrustStep, TypeCorrect, PTL DEF Spec
<1> QED BY <1>1, <1>2, <1>3, <1>4, <1>6, TypeInvariant, UseInvariant, PTL DEF Spec
=============================================================================
