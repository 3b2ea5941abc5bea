--------------------------- MODULE SessionsProofs ---------------------------
(***************************************************************************)
(* Theorems about Sessions, for any number of logins, requests, commands,  *)
(* users and devices and every token lifetime.                             *)
(***************************************************************************)
EXTENDS Sessions, TLAPS

\* A thread or a command that has started has a well-formed state.
LEMMA Started ==
    ASSUME TypeOK
    PROVE  /\ \A l \in Logins : login[l].pc \notin {"idle", "failed"} => login[l] \in LoginState
           /\ \A c \in Commands : command[c].pc # "idle" => command[c] \in CommandState
           /\ \A x \in Accesses : access[x].pc \notin {"idle", "refused"} =>
                                     access[x] \in AccessState
BY DEF TypeOK, Idle, Failed, Refused

\* Whoever reads a file gets all of it, or nothing and is on record for it.
LEMMA Trusted ==
    ASSUME NEW a, NEW file, NEW content, NEW loaded \in Loads(content),
           Trusts(a, file, content, loaded)
    PROVE  /\ loaded \subseteq content
           /\ misread \subseteq misread' /\ misread' \subseteq misread \cup {<<a, file>>}
           /\ loaded = content \/ <<a, file>> \in misread'
BY DEF Loads, Trusts

\* The steps of a login.
LEMMA LoginTypes ==
    ASSUME TypeOK, NEW l \in Logins, Login(l)
    PROVE  TypeOK'
<1> USE SessionsAssumption, Started DEF SessionsAssumption, TypeOK, history
<1>1. ASSUME NEW u \in Users, NEW d \in Devices, NEW signed \in BOOLEAN,
             Attest(l, u, d, signed)
      PROVE  TypeOK'
  <2>1. Attests(d, signed) \in BOOLEAN
    BY DEF Attests
  <2>2. [pc |-> "attested", user |-> u, device |-> d, attested |-> Attests(d, signed),
         bound |-> FALSE, exp |-> 0] \in LoginState
    BY <2>1 DEF LoginState
  <2> QED BY <1>1, <2>2 DEF Attest
<1>2. CASE Bind(l)
  <2>1. PICK devices \in Loads(approved) :
            /\ Trusts(l, "devices", approved, devices)
            /\ login' = [login EXCEPT ![l] =
                           [@ EXCEPT !.pc = "bound", !.bound = login[l].device \in devices]]
    BY <1>2 DEF Bind
  <2>2. login[l] \in LoginState
    BY <1>2 DEF Bind
  <2> DEFINE b == login[l].device \in devices
  <2>b. b \in BOOLEAN
    OBVIOUS
  <2>c. login' = [login EXCEPT ![l] = [@ EXCEPT !.pc = "bound", !.bound = b]]
    BY <2>1
  <2> HIDE DEF b
  <2>3. [login[l] EXCEPT !.pc = "bound", !.bound = b] \in LoginState
    BY <2>2, <2>b DEF LoginState
  <2>4. misread' \subseteq misread \cup {<<l, "devices">>}
    BY <2>1, Trusted
  <2> QED BY <1>2, <2>c, <2>3, <2>4 DEF Bind, Files
<1>3. CASE Mint(l)
  <2>1. login[l] \in LoginState /\ now + TTL \in Int
    BY <1>3 DEF Mint
  <2>2. [login[l] EXCEPT !.pc = "minted", !.exp = now + TTL] \in LoginState
    BY <2>1 DEF LoginState
  <2> QED BY <1>3, <2>2 DEF Mint
<1>4. CASE Record(l)
  <2>1. PICK records \in Loads(issued) :
            /\ Trusts(l, "issued", issued, records)
            /\ issued' = {m \in records : Unexpired(m)} \cup {l}
    BY <1>4 DEF Record
  <2>2. issued' \subseteq Logins /\ misread' \subseteq misread \cup {<<l, "issued">>}
    BY <2>1, Trusted
  <2> QED BY <1>4, <2>2 DEF Record, LoginState, Files
<1>5. CASE IssueFails(l)
  BY <1>5 DEF IssueFails
<1> QED BY <1>1, <1>2, <1>3, <1>4, <1>5 DEF Login

\* The steps of a request at the Gateway.
LEMMA AccessTypes ==
    ASSUME TypeOK, NEW x \in Accesses, Access(x)
    PROVE  TypeOK'
<1> USE Started DEF TypeOK, history
<1>1. ASSUME NEW l \in Logins, Receive(x, l) PROVE TypeOK'
  <2>1. Done \subseteq Commands
    BY DEF Done
  <2>2. [pc |-> "verified", jti |-> l, after |-> Done] \in AccessState
    BY <2>1 DEF AccessState
  <2> QED BY <1>1, <2>2 DEF Receive
<1>2. CASE CheckRevoked(x)
  <2>1. misread' \subseteq misread \cup {<<x, "revoked">>}
    BY <1>2, Trusted DEF CheckRevoked
  <2>2. access[x] \in AccessState
    BY <1>2 DEF CheckRevoked
  <2>3. access' \in [Accesses -> AccessState \cup {Idle, Refused}]
    <3>1. /\ [access[x] EXCEPT !.pc = "unrevoked"] \in AccessState
          /\ [access[x] EXCEPT !.pc = "granted"] \in AccessState
      BY <2>2 DEF AccessState
    <3>2. PICK s \in AccessState \cup {Refused} : access' = [access EXCEPT ![x] = s]
      BY <1>2, <3>1 DEF CheckRevoked
    <3> QED BY <3>2
  <2> QED BY <1>2, <2>1, <2>3 DEF CheckRevoked, Files
<1>3. CASE CheckProof(x)
  BY <1>3 DEF CheckProof, AccessState
<1> QED BY <1>1, <1>2, <1>3 DEF Access

\* A step that gives one command a new state.
LEMMA CommandMoves ==
    ASSUME TypeOK, NEW c \in Commands, NEW s \in CommandState,
           s.pc = "save" => s.jti \in Logins,
           command' = [command EXCEPT ![c] = s],
           UNCHANGED <<now, login, issued, access>>,
           approved' \subseteq Devices, revoked' \subseteq Logins,
           raced' \subseteq Commands, overtaken' \subseteq Logins, misread' \subseteq misread \cup {<<c, "revoked">>}
    PROVE  TypeOK'
<1>1. command' \in [Commands -> CommandState \cup {Idle}]
  BY DEF TypeOK
<1>2. ASSUME NEW b \in Commands, command'[b].pc = "save" PROVE command'[b].jti \in Logins
  BY <1>2 DEF TypeOK
<1> QED BY <1>1, <1>2 DEF TypeOK, Files

\* The steps of a command.
LEMMA CommandTypes ==
    ASSUME TypeOK, NEW c \in Commands, Command(c)
    PROVE  TypeOK'
<1>a. approved \subseteq Devices /\ revoked \subseteq Logins /\ issued \subseteq Logins
  BY DEF TypeOK
<1>b. command[c] # Idle => command[c] \in CommandState
  BY DEF TypeOK
<1>c. raced \subseteq Commands /\ overtaken \subseteq Logins
  BY DEF TypeOK
<1> USE <1>c, Started DEF history
<1>2. ASSUME NEW d \in Devices, RevokeDevice(c, d) PROVE TypeOK'
  <2>1. Begun("sweep", d, {}) \in CommandState
    BY DEF Begun, CommandState
  <2>2. approved' \subseteq Devices /\ overtaken' \subseteq Logins
    BY <1>a, <1>2 DEF RevokeDevice, TakesApproval
  <2> QED BY <1>a, <1>2, <2>1, <2>2, CommandMoves DEF RevokeDevice, Begun
<1>3. ASSUME NEW u \in Users, RevokeUser(c, u) PROVE TypeOK'
  <2>1. PICK found \in SUBSET Logins :
            command' = [command EXCEPT ![c] = Begun("revoke", u, found)]
    <3>1. PICK records \in Loads(issued) :
              LET found == {l \in records : Unexpired(l) /\ login[l].user = u}
              IN  command' = [command EXCEPT ![c] = Begun("revoke", u, found)]
      BY <1>3 DEF RevokeUser
    <3>2. {l \in records : Unexpired(l) /\ login[l].user = u} \in SUBSET Logins
      BY <1>a DEF Loads
    <3> QED BY <3>1, <3>2
  <2>2. Begun("revoke", u, found) \in CommandState
    BY DEF Begun, CommandState
  <2> QED BY <1>a, <1>3, <2>1, <2>2, CommandMoves DEF RevokeUser, Begun
<1>4. ASSUME NEW l \in Logins, RevokeToken(c, l) PROVE TypeOK'
  <2>1. Begun("revoke", l, {l}) \in CommandState
    BY DEF Begun, CommandState
  <2> QED BY <1>a, <1>4, <2>1, CommandMoves DEF RevokeToken, Begun
<1>5. ASSUME NEW l \in Logins, LoadList(c, l) PROVE TypeOK'
  <2>0. PICK list \in Loads(revoked) :
            /\ Trusts(c, "revoked", revoked, list)
            /\ command' = [command EXCEPT ![c] =
                             [@ EXCEPT !.pc = "save", !.jti = l, !.file = list]]
    BY <1>5 DEF LoadList
  <2> DEFINE s == [command[c] EXCEPT !.pc = "save", !.jti = l, !.file = list]
  <2>1. command[c] \in CommandState
    BY <1>b, <1>5 DEF LoadList
  <2>2. list \subseteq Logins /\ misread' \subseteq misread \cup {<<c, "revoked">>}
    BY <1>a, <2>0, Trusted
  <2>3. s \in CommandState /\ s.jti = l
    BY <2>1, <2>2 DEF CommandState
  <2>4. command' = [command EXCEPT ![c] = s]
    BY <2>0
  <2> HIDE DEF s
  <2> QED BY <1>a, <1>5, <2>2, <2>3, <2>4, CommandMoves DEF LoadList
<1>6. CASE Sweep(c)
  <2>0. PICK records \in Loads(issued) :
            LET found == {l \in records : Unexpired(l) /\ login[l].device = command[c].target}
            IN  command' = [command EXCEPT ![c] =
                              [@ EXCEPT !.pc = "revoke", !.found = found, !.todo = found]]
    BY <1>6 DEF Sweep
  <2> DEFINE found == {l \in records : Unexpired(l) /\ login[l].device = command[c].target}
             s == [command[c] EXCEPT !.pc = "revoke", !.found = found, !.todo = found]
  <2>1. command[c] \in CommandState
    BY <1>b, <1>6 DEF Sweep
  <2>2. found \in SUBSET Logins
    BY <1>a DEF Loads
  <2>3. command' = [command EXCEPT ![c] = s]
    BY <2>0
  <2> HIDE DEF found
  <2>4. s \in CommandState /\ s.pc = "revoke"
    BY <2>1, <2>2 DEF CommandState
  <2> HIDE DEF s
  <2> QED BY <1>a, <1>6, <2>3, <2>4, CommandMoves DEF Sweep
<1>7. CASE SaveList(c)
  <2> DEFINE s == [command[c] EXCEPT !.pc = "revoke", !.jti = None, !.file = {},
                                     !.todo = command[c].todo \ {command[c].jti}]
  <2>1. command[c] \in CommandState /\ command[c].jti \in Logins
    BY <1>b, <1>7 DEF SaveList, TypeOK
  <2>2. revoked' \subseteq Logins
    BY <1>7, <2>1 DEF SaveList, NewList, CommandState
  <2>3. s \in CommandState /\ s.pc = "revoke"
    BY <2>1 DEF CommandState
  <2>4. command' = [command EXCEPT ![c] = s]
    BY <1>7 DEF SaveList
  <2>5. raced' \subseteq Commands /\ UNCHANGED misread
    BY <1>7 DEF SaveList
  <2> HIDE DEF s
  <2> QED BY <1>a, <1>7, <2>2, <2>3, <2>4, <2>5, CommandMoves DEF SaveList
<1>8. CASE SaveFails(c)
  <2>1. Begun("failed", None, {}) \in CommandState
    BY DEF Begun, CommandState
  <2> QED BY <1>a, <1>8, <2>1, CommandMoves DEF SaveFails, Begun
<1>9. CASE Finish(c)
  <2> DEFINE s == [command[c] EXCEPT !.pc = "done", !.target = None]
  <2>1. command[c] \in CommandState
    BY <1>b, <1>9 DEF Finish
  <2>2. s \in CommandState /\ s.pc = "done"
    BY <2>1 DEF CommandState
  <2>3. command' = [command EXCEPT ![c] = s]
    BY <1>9 DEF Finish
  <2> HIDE DEF s
  <2> QED BY <1>a, <1>9, <2>2, <2>3, CommandMoves DEF Finish
<1> QED BY <1>2, <1>3, <1>4, <1>5, <1>6, <1>7, <1>8, <1>9 DEF Command

\* The steps of the other writers of the registry.
RegistryStep == \E d \in Devices : Approve(d) \/ Enroll(d) \/ Overwrite(d)

LEMMA RegistryQuiet ==
    ASSUME RegistryStep
    PROVE  UNCHANGED <<now, login, issued, revoked, command, access, raced, misread>>
BY DEF RegistryStep, Approve, Enroll, Overwrite, history

LEMMA RegistryTypes ==
    ASSUME TypeOK, RegistryStep
    PROVE  TypeOK'
<1>1. approved' \subseteq Devices /\ overtaken' \subseteq Logins
  BY DEF RegistryStep, Approve, Enroll, Overwrite, TakesApproval, TypeOK, history
<1> QED BY <1>1, RegistryQuiet DEF TypeOK

\* Type correctness, for every interleaving of logins, requests and commands.
THEOREM TypeCorrect == Spec => []TypeOK
<1>1. Init => TypeOK
  BY SessionsAssumption DEF Init, TypeOK, Idle
<1>2. TypeOK /\ [Next]_vars => TypeOK'
  <2> SUFFICES ASSUME TypeOK, [Next]_vars PROVE TypeOK'
    OBVIOUS
  <2>1. CASE Tick
    BY <2>1 DEF Tick, TypeOK, history
  <2>2. CASE UNCHANGED vars
    BY <2>2 DEF vars, TypeOK, history
  <2> QED BY <2>1, <2>2, LoginTypes, AccessTypes, CommandTypes, RegistryTypes
         DEF Next, RegistryStep
<1> QED BY <1>1, <1>2, PTL DEF Spec

(***************************************************************************)
(* What a finished command found stays cut off.                            *)
(***************************************************************************)

\* What c has written into the list: a command that has failed answers for nothing.
Written(c) ==
    IF command[c].pc \in {"revoke", "save", "done"}
    THEN command[c].found \ command[c].todo ELSE {}

\* The entries of a command that did not race are in the list and in every copy
\* that will replace it, as long as no command has taken the list for empty.
KeptOf(c) ==
    /\ Written(c) \subseteq revoked
    /\ \A b \in Commands : command[b].pc = "save" => Written(c) \subseteq command[b].file

ListMisread == \E b \in Commands : <<b, "revoked">> \in misread

KeptInv == ListMisread \/ \A c \in Commands \ raced : KeptOf(c)

\* A command that is done has written all it found.
DoneInv == \A c \in Commands : command[c].pc = "done" => command[c].todo = {}

\* A request that has passed is_revoked carries no token an earlier command found,
\* or has a cause.
ScreenedAt(x) ==
    /\ access[x].pc \notin {"idle", "refused"} => access[x].after \subseteq Done
    /\ access[x].pc \in {"unrevoked", "granted"} =>
           \A c \in access[x].after :
               access[x].jti \in command[c].found =>
                   c \in raced \/ <<x, "revoked">> \in misread \/ ListMisread

Screened == \A x \in Accesses : ScreenedAt(x)

CutInv == KeptInv /\ DoneInv /\ Screened

\* Commands, and the list, are untouched by logins; a cause is never taken back.
LEMMA QuietStep ==
    ASSUME CutInv, UNCHANGED <<command, revoked, access, raced>>, misread \subseteq misread'
    PROVE  CutInv'
<1>1. KeptInv'
  BY DEF CutInv, KeptInv, KeptOf, Written, ListMisread
<1>2. DoneInv'
  BY DEF CutInv, DoneInv
<1>3. Screened'
  BY DEF CutInv, Screened, ScreenedAt, Done, ListMisread
<1> QED BY <1>1, <1>2, <1>3 DEF CutInv

LEMMA AccessCut ==
    ASSUME TypeOK, CutInv, NEW x \in Accesses, Access(x)
    PROVE  CutInv'
<1> USE Started DEF CutInv
<1>1. /\ UNCHANGED <<command, revoked, raced>> /\ misread \subseteq misread'
      /\ \A y \in Accesses : y # x => access'[y] = access[y]
  <2>1. CASE CheckRevoked(x)
    BY <2>1, Trusted DEF CheckRevoked, TypeOK
  <2>2. CASE CheckProof(x)
    BY <2>2 DEF CheckProof, TypeOK, history
  <2>3. ASSUME NEW l \in Logins, Receive(x, l)
        PROVE  /\ UNCHANGED <<command, revoked, raced>> /\ misread \subseteq misread'
               /\ \A y \in Accesses : y # x => access'[y] = access[y]
    BY <2>3 DEF Receive, TypeOK, history
  <2> QED BY <2>1, <2>2, <2>3 DEF Access
<1>2. KeptInv' /\ DoneInv'
  <2>1. KeptInv'
    BY <1>1 DEF KeptInv, KeptOf, Written, ListMisread
  <2> QED BY <1>1, <2>1 DEF DoneInv
<1>3. Done' = Done /\ (ScreenedAt(x)' => Screened')
  BY <1>1 DEF Done, Screened, ScreenedAt, ListMisread
<1>4. ASSUME NEW l \in Logins, Receive(x, l) PROVE Screened'
  <2>1. access'[x] = [pc |-> "verified", jti |-> l, after |-> Done]
    BY <1>4 DEF Receive, TypeOK
  <2> QED BY <1>1, <1>3, <2>1 DEF ScreenedAt
<1>5. CASE CheckRevoked(x)
  <2>1. access[x] \in AccessState /\ access[x].pc = "verified"
    BY <1>5 DEF CheckRevoked
  <2>2. PICK list \in Loads(revoked) :
            /\ Trusts(x, "revoked", revoked, list)
            /\ access' = [access EXCEPT ![x] =
                            IF access[x].jti \in list THEN Refused
                            ELSE IF login[access[x].jti].bound
                                 THEN [@ EXCEPT !.pc = "unrevoked"]
                            ELSE [@ EXCEPT !.pc = "granted"]]
    BY <1>5 DEF CheckRevoked
  <2>3. \/ access'[x].pc = "refused"
        \/ access'[x].jti = access[x].jti /\ access'[x].after = access[x].after
    BY <2>1, <2>2 DEF TypeOK, AccessState, Refused
  <2>4. access'[x].pc \in {"unrevoked", "granted"} => access[x].jti \notin list
    BY <2>1, <2>2 DEF TypeOK, AccessState, Refused
  <2>5. access[x].after \subseteq Done
    BY <2>1 DEF Screened, ScreenedAt
  <2>6. ASSUME NEW c \in access[x].after, access[x].jti \in command[c].found,
               access[x].jti \notin list, c \notin raced
        PROVE  <<x, "revoked">> \in misread' \/ ListMisread'
    <3>1. list = revoked \/ <<x, "revoked">> \in misread'
      BY <2>2, Trusted
    <3>2. c \in Commands /\ command[c].pc = "done" /\ command[c].todo = {}
      BY <2>5 DEF Done, DoneInv
    <3>3. CASE ~ListMisread
      <4>1. access[x].jti \in Written(c)
        BY <2>6, <3>2 DEF Written
      <4>2. access[x].jti \in revoked
        BY <2>6, <3>2, <3>3, <4>1 DEF KeptInv, KeptOf
      <4> QED BY <2>6, <3>1, <4>2
    <3> QED BY <1>1, <3>3 DEF ListMisread
  <2>7. ScreenedAt(x)'
    BY <1>1, <1>3, <2>1, <2>3, <2>4, <2>5, <2>6 DEF ScreenedAt
  <2> QED BY <1>2, <1>3, <2>7
<1>6. CASE CheckProof(x)
  <2>1. access[x] \in AccessState /\ access[x].pc = "unrevoked"
    BY <1>6 DEF CheckProof
  <2>2. \/ access'[x].pc = "refused"
        \/ access'[x].jti = access[x].jti /\ access'[x].after = access[x].after
    BY <1>6, <2>1 DEF CheckProof, TypeOK, AccessState, Refused
  <2>3. ScreenedAt(x)
    BY DEF Screened
  <2>4. ScreenedAt(x)'
    BY <1>1, <1>3, <2>1, <2>2, <2>3 DEF ScreenedAt, ListMisread
  <2> QED BY <1>2, <1>3, <2>4
<1> QED BY <1>2, <1>4, <1>5, <1>6 DEF Access

\* What the requests rely on: a step of a command that was not done changes none of
\* those that are.
LEMMA ScreenedStep ==
    ASSUME Screened, NEW c \in Commands, c \notin Done,
           \A b \in Commands : b # c => command'[b] = command[b],
           UNCHANGED access, raced \subseteq raced', misread \subseteq misread'
    PROVE  Screened'
<1> SUFFICES ASSUME NEW x \in Accesses PROVE ScreenedAt(x)'
  BY DEF Screened
<1>1. ScreenedAt(x) /\ access'[x] = access[x]
  BY DEF Screened
<1>2. access[x].pc \notin {"idle", "refused"} =>
          \A b \in access[x].after : b \in Done' /\ command'[b] = command[b]
  BY <1>1 DEF ScreenedAt, Done
<1>3. (access[x].pc \notin {"idle", "refused"} => access[x].after \subseteq Done)'
  BY <1>1, <1>2
<1>4. access[x].pc \in {"unrevoked", "granted"} =>
          \A b \in access[x].after :
              access[x].jti \in command'[b].found =>
                  b \in raced' \/ <<x, "revoked">> \in misread' \/ ListMisread'
  BY <1>1, <1>2 DEF ScreenedAt, ListMisread
<1> QED BY <1>1, <1>3, <1>4 DEF ScreenedAt

\* A step that writes nothing: c has nothing more written than before, and a copy
\* that it loads is the list, or counts as a misreading.
LEMMA ReadCut ==
    ASSUME CutInv, NEW c \in Commands, c \notin Done,
           \A b \in Commands : b # c => command'[b] = command[b],
           Written(c)' \subseteq Written(c),
           command'[c].pc = "save" =>
               command'[c].file = revoked \/ <<c, "revoked">> \in misread',
           command'[c].pc = "done" => command'[c].todo = {},
           UNCHANGED <<revoked, access, raced>>, misread \subseteq misread'
    PROVE  CutInv'
<1> USE DEF CutInv
<1>1. Screened'
  BY ScreenedStep
<1>2. DoneInv'
  BY DEF DoneInv
<1>3. KeptInv'
  <2> SUFFICES ASSUME ~ListMisread', NEW b \in Commands \ raced
               PROVE  KeptOf(b)'
    BY DEF KeptInv
  <2>1. KeptOf(b)
    BY DEF KeptInv, ListMisread
  <2>2. Written(b)' \subseteq Written(b)
    BY DEF Written
  <2>3. ASSUME NEW a \in Commands, command'[a].pc = "save"
        PROVE  Written(b)' \subseteq command'[a].file
    <3>1. CASE a = c
      BY <2>1, <2>2, <2>3, <3>1 DEF KeptOf, ListMisread
    <3>2. CASE a # c
      BY <2>1, <2>2, <2>3, <3>2 DEF KeptOf
    <3> QED BY <3>1, <3>2
  <2> QED BY <2>1, <2>2, <2>3 DEF KeptOf
<1> QED BY <1>1, <1>2, <1>3

\* The save: the copy holds what every command that did not race has written, and a
\* command that saves while another is about to has raced.
LEMMA SaveCut ==
    ASSUME TypeOK, CutInv, NEW c \in Commands, SaveList(c)
    PROVE  CutInv'
<1> USE Started DEF CutInv
<1>1. command[c] \in CommandState /\ command[c].pc = "save" /\ c \notin Done
  BY DEF SaveList, Done
<1>2. revoked' = command[c].file \cup {command[c].jti}
  BY DEF SaveList, NewList
<1>3. /\ command'[c].pc = "revoke" /\ command'[c].found = command[c].found
      /\ command'[c].todo = command[c].todo \ {command[c].jti}
  <2>1. command'[c] = [command[c] EXCEPT !.pc = "revoke", !.jti = None, !.file = {},
                                             !.todo = command[c].todo \ {command[c].jti}]
    BY DEF SaveList, TypeOK
  <2> QED BY <1>1, <2>1 DEF CommandState
<1>4. (\A b \in Commands : b # c => command'[b] = command[b]) /\ UNCHANGED <<access, misread>>
  BY DEF SaveList, TypeOK
<1>5. raced \subseteq raced' /\ (Races(c) => c \in raced')
  BY DEF SaveList
<1>6. Screened'
  BY <1>1, <1>4, <1>5, ScreenedStep
<1>7. DoneInv'
  BY <1>3, <1>4 DEF DoneInv
<1>8. KeptInv'
  <2> SUFFICES ASSUME ~ListMisread, NEW b \in Commands, b \notin raced'
               PROVE  KeptOf(b)'
    BY <1>4 DEF KeptInv, ListMisread
  <2>1. KeptOf(b)
    BY <1>5 DEF KeptInv
  <2>2. Written(b) \subseteq command[c].file
    BY <1>1, <2>1 DEF KeptOf
  <2>3. CASE b # c
    <3>1. Written(b)' = Written(b)
      BY <1>4, <2>3 DEF Written
    <3>2. \A a \in Commands : command'[a].pc = "save" => Written(b) \subseteq command'[a].file
      BY <1>3, <1>4, <2>1 DEF KeptOf
    <3> QED BY <1>2, <2>2, <3>1, <3>2 DEF KeptOf
  <2>4. CASE b = c
    <3>1. Written(c)' \subseteq Written(c) \cup {command[c].jti}
      BY <1>1, <1>3 DEF Written
    <3>2. \A a \in Commands : command'[a].pc # "save"
      BY <1>3, <1>4, <1>5, <2>4 DEF Races
    <3> QED BY <1>2, <2>2, <2>4, <3>1, <3>2 DEF KeptOf
  <2> QED BY <2>3, <2>4
<1> QED BY <1>6, <1>7, <1>8

LEMMA CommandCut ==
    ASSUME TypeOK, CutInv, NEW c \in Commands, Command(c)
    PROVE  CutInv'
<1> USE Started DEF history
<1>0. command[c] = Idle => Written(c) = {} /\ c \notin Done
  BY DEF Written, Idle, Done
<1>2. ASSUME NEW d \in Devices, RevokeDevice(c, d) PROVE CutInv'
  <2>1. command'[c] = Begun("sweep", d, {})
    BY <1>2 DEF RevokeDevice, TypeOK
  <2>2. command'[c].pc = "sweep" /\ Written(c)' = {}
    BY <2>1 DEF Begun, Written
  <2> QED BY <1>0, <1>2, <2>2, ReadCut DEF RevokeDevice, TypeOK
<1>3. ASSUME NEW u \in Users, RevokeUser(c, u) PROVE CutInv'
  <2>1. PICK found : command'[c] = Begun("revoke", u, found)
    BY <1>3 DEF RevokeUser, TypeOK
  <2>2. command'[c].pc = "revoke" /\ Written(c)' = {}
    BY <2>1 DEF Begun, Written
  <2> QED BY <1>0, <1>3, <2>2, ReadCut DEF RevokeUser, TypeOK
<1>4. ASSUME NEW l \in Logins, RevokeToken(c, l) PROVE CutInv'
  <2>1. command'[c] = Begun("revoke", l, {l})
    BY <1>4 DEF RevokeToken, TypeOK
  <2>2. command'[c].pc = "revoke" /\ Written(c)' = {}
    BY <2>1 DEF Begun, Written
  <2> QED BY <1>0, <1>4, <2>2, ReadCut DEF RevokeToken, TypeOK
<1>5. ASSUME NEW l \in Logins, LoadList(c, l) PROVE CutInv'
  <2>1. command[c] \in CommandState /\ command[c].pc = "revoke" /\ c \notin Done
    BY <1>5 DEF LoadList, Done
  <2>2. PICK list \in Loads(revoked) :
            /\ Trusts(c, "revoked", revoked, list)
            /\ command' = [command EXCEPT ![c] =
                             [@ EXCEPT !.pc = "save", !.jti = l, !.file = list]]
    BY <1>5 DEF LoadList
  <2>3. misread \subseteq misread' /\ (list = revoked \/ <<c, "revoked">> \in misread')
    BY <2>2, Trusted
  <2>4. /\ command'[c].pc = "save" /\ command'[c].file = list
        /\ command'[c].found = command[c].found /\ command'[c].todo = command[c].todo
    BY <2>1, <2>2 DEF TypeOK, CommandState
  <2>5. Written(c)' = Written(c)
    BY <2>1, <2>4 DEF Written
  <2> QED BY <1>5, <2>1, <2>3, <2>4, <2>5, ReadCut DEF LoadList, TypeOK
<1>6. CASE Sweep(c)
  <2>1. command[c] \in CommandState /\ command[c].pc = "sweep" /\ c \notin Done
    BY <1>6 DEF Sweep, Done
  <2>2. PICK found : command'[c] =
            [command[c] EXCEPT !.pc = "revoke", !.found = found, !.todo = found]
    BY <1>6 DEF Sweep, TypeOK
  <2>3. command'[c].pc = "revoke" /\ Written(c)' = {}
    BY <2>1, <2>2 DEF Written, CommandState
  <2> QED BY <1>6, <2>1, <2>3, ReadCut DEF Sweep, TypeOK
<1>7. CASE SaveList(c)
  BY <1>7, SaveCut
<1>8. CASE SaveFails(c)
  <2>1. command[c] \in CommandState /\ command[c].pc = "save" /\ c \notin Done
    BY <1>8 DEF SaveFails, Done
  <2>2. command'[c].pc = "failed"
    BY <1>8, <2>1 DEF SaveFails, TypeOK, Begun
  <2>3. Written(c)' = {}
    BY <2>2 DEF Written
  <2> QED BY <1>8, <2>1, <2>2, <2>3, ReadCut DEF SaveFails, TypeOK
<1>9. CASE Finish(c)
  <2>1. /\ command[c] \in CommandState /\ command[c].pc = "revoke" /\ c \notin Done
        /\ command[c].todo = {}
    BY <1>9 DEF Finish, Done
  <2>2. /\ command'[c].pc = "done" /\ command'[c].found = command[c].found
        /\ command'[c].todo = {}
    BY <1>9, <2>1 DEF Finish, TypeOK, CommandState
  <2>3. Written(c)' = Written(c)
    BY <2>1, <2>2 DEF Written
  <2> QED BY <1>9, <2>1, <2>2, <2>3, ReadCut DEF Finish, TypeOK
<1> QED BY <1>2, <1>3, <1>4, <1>5, <1>6, <1>7, <1>8, <1>9 DEF Command

\* A login leaves the commands and the requests alone.
LEMMA LoginQuiet ==
    ASSUME NEW l \in Logins, Login(l)
    PROVE  UNCHANGED <<command, revoked, access, raced>> /\ misread \subseteq misread'
<1>1. CASE Record(l)
  BY <1>1, Trusted DEF Record
<1>2. CASE Bind(l)
  BY <1>2, Trusted DEF Bind
<1>3. CASE ~Record(l) /\ ~Bind(l)
  BY <1>3 DEF Login, Attest, Mint, IssueFails, history
<1> QED BY <1>1, <1>2, <1>3

\* CutInv is inductive relative to TypeOK.
LEMMA CutStep == TypeOK /\ CutInv /\ [Next]_vars => CutInv'
<1> SUFFICES ASSUME TypeOK, CutInv, [Next]_vars PROVE CutInv'
  OBVIOUS
<1>1. CASE Tick \/ UNCHANGED vars
  BY <1>1, QuietStep DEF Tick, vars, history
<1>2. ASSUME NEW l \in Logins, Login(l) PROVE CutInv'
  BY <1>2, LoginQuiet, QuietStep
<1>3. CASE RegistryStep
  BY <1>3, RegistryQuiet, QuietStep
<1> QED BY <1>1, <1>2, <1>3, AccessCut, CommandCut DEF Next, RegistryStep

\* Nothing has been found, written or asked for yet.
LEMMA CutInit == Init => CutInv
BY DEF Init, CutInv, KeptInv, KeptOf, Written, DoneInv, Screened, ScreenedAt, Idle

\* A token that a finished command found is refused to every request that arrives
\* afterwards, however many logins, requests and commands run at the same time: unless
\* the command raced with another for the list, or the list could not be read.
THEOREM RevocationIsFinal == Spec => []FoundTokensStayCutOff
<1>1. TypeOK /\ CutInv /\ [Next]_vars => CutInv'
  BY CutStep
<1>2. CutInv => FoundTokensStayCutOff
  BY DEF CutInv, Screened, ScreenedAt, FoundTokensStayCutOff, Granted, ListMisread
<1> QED BY <1>1, <1>2, CutInit, TypeCorrect, PTL DEF Spec

\* No two commands are at work at the same time, and every file can be read.
Running == {c \in Commands : command[c].pc \in {"sweep", "revoke", "save"}}
OneAtATime == (\A b, c \in Running : b = c) /\ misread = {}

\* FoundTokensStayCutOff without its causes.
NoFoundTokenIsGranted ==
    \A x \in Accesses : Granted(x) =>
        \A c \in access[x].after : access[x].jti \notin command[c].found

NobodyRaced == raced = {}

\* Commands that run one at a time do not race.
LEMMA NoRaceAlone ==
    ASSUME NobodyRaced, OneAtATime, [Next]_vars
    PROVE  NobodyRaced'
<1> USE DEF NobodyRaced
<1>1. ASSUME NEW c \in Commands, SaveList(c) PROVE raced' = {}
  <2>1. ~Races(c)
    BY <1>1 DEF Races, SaveList, OneAtATime, Running
  <2> QED BY <1>1, <2>1 DEF SaveList
<1>2. ASSUME NEW c \in Commands, Command(c), ~SaveList(c) PROVE UNCHANGED raced
  BY <1>2 DEF Command, RevokeDevice, RevokeUser, RevokeToken, LoadList, Sweep,
              SaveFails, Finish, history
<1>3. ASSUME NEW x \in Accesses, Access(x) PROVE UNCHANGED raced
  BY <1>3 DEF Access, Receive, CheckRevoked, CheckProof, history
<1> QED BY <1>1, <1>2, <1>3, LoginQuiet, RegistryQuiet DEF Next, RegistryStep, Tick, vars, history

\* The administrators' way out: in every behaviour in which their commands run one at
\* a time and every file can be read, what a finished command found is refused for good.
THEOREM OneAtATimeSuffices == Spec /\ []OneAtATime => []NoFoundTokenIsGranted
<1>1. Init => NobodyRaced
  BY DEF Init, NobodyRaced
<1>2. NobodyRaced /\ OneAtATime /\ [Next]_vars => NobodyRaced'
  BY NoRaceAlone
<1>3. NobodyRaced /\ OneAtATime /\ FoundTokensStayCutOff => NoFoundTokenIsGranted
  BY DEF NobodyRaced, OneAtATime, FoundTokensStayCutOff, NoFoundTokenIsGranted
<1> QED BY <1>1, <1>2, <1>3, RevocationIsFinal, PTL DEF Spec

(***************************************************************************)
(* The issued-token store.                                                 *)
(***************************************************************************)

\* No step of the IdP takes a live token off the record: Record prunes only what
\* has expired, unless it cannot read the store, and it appends its own token in the
\* step that sends it.
LEMMA RecordKeepsLive ==
    ASSUME TypeOK, LiveTokensAreRecorded, NEW l \in Logins, Login(l)
    PROVE  LiveTokensAreRecorded'
<1> USE Started
<1>1. now' = now /\ \A m \in Logins : m # l => login'[m] = login[m]
  BY DEF Login, Attest, Bind, Mint, Record, IssueFails, TypeOK
<1>2. misread \subseteq misread'
  BY LoginQuiet
<1>3. CASE Record(l)
  <2>1. PICK records \in Loads(issued) :
            /\ Trusts(l, "issued", issued, records)
            /\ issued' = {m \in records : Unexpired(m)} \cup {l}
    BY <1>3 DEF Record
  <2>2. records = issued \/ <<l, "issued">> \in misread'
    BY <2>1, Trusted
  <2>3. CASE records = issued /\ \A m \in Logins : <<m, "issued">> \notin misread
    <3>1. \A m \in Logins : m # l /\ login[m].pc = "issued" /\ now < login[m].exp => m \in issued'
      BY <2>1, <2>3 DEF Unexpired, LiveTokensAreRecorded, TypeOK, LoginState
    <3> QED BY <1>1, <2>1, <3>1 DEF LiveTokensAreRecorded
  <2> QED BY <1>2, <2>2, <2>3 DEF LiveTokensAreRecorded
<1>4. ASSUME ~Record(l) PROVE LiveTokensAreRecorded'
  <2>1. issued' = issued
    BY <1>4 DEF Login, Attest, Bind, Mint, IssueFails
  <2>2. login'[l].pc # "issued"
    <3>1. CASE Bind(l)
      BY <3>1 DEF Bind, TypeOK, LoginState
    <3>2. CASE Mint(l)
      BY <3>2 DEF Mint, TypeOK, LoginState
    <3>3. CASE IssueFails(l)
      BY <3>3 DEF IssueFails, TypeOK, Failed
    <3> QED BY <1>4, <3>1, <3>2, <3>3 DEF Login, Attest, TypeOK
  <2> QED BY <1>1, <1>2, <2>1, <2>2 DEF LiveTokensAreRecorded
<1> QED BY <1>3, <1>4

\* Requests and commands leave the logins and their store alone.
LEMMA AccessQuiet ==
    ASSUME NEW x \in Accesses, Access(x)
    PROVE  UNCHANGED <<now, login, issued>> /\ misread \subseteq misread'
BY Trusted DEF Access, Receive, CheckRevoked, CheckProof, history

LEMMA CommandQuiet ==
    ASSUME NEW c \in Commands, Command(c)
    PROVE  UNCHANGED <<now, login, issued>> /\ misread \subseteq misread'
<1>1. ASSUME NEW l \in Logins, LoadList(c, l)
      PROVE  UNCHANGED <<now, login, issued>> /\ misread \subseteq misread'
  BY <1>1, Trusted DEF LoadList
<1>2. CASE \A l \in Logins : ~LoadList(c, l)
  BY <1>2 DEF Command, RevokeDevice, RevokeUser, RevokeToken, Sweep,
              SaveList, SaveFails, Finish, history
<1> QED BY <1>1, <1>2

\* A client never holds an unexpired token that is not on record, unless a login could
\* not read the store: a command that read it now would find the token, whoever else
\* logs in or out meanwhile.
THEOREM LiveTokensStayOnRecord == Spec => []LiveTokensAreRecorded
<1>1. Init => LiveTokensAreRecorded
  BY DEF Init, LiveTokensAreRecorded, Idle
<1>2. TypeOK /\ TypeOK' /\ LiveTokensAreRecorded /\ [Next]_vars => LiveTokensAreRecorded'
  <2> SUFFICES ASSUME TypeOK, TypeOK', LiveTokensAreRecorded, [Next]_vars
               PROVE  LiveTokensAreRecorded'
    OBVIOUS
  <2>1. ASSUME NEW l \in Logins, Login(l) PROVE LiveTokensAreRecorded'
    BY <2>1, RecordKeepsLive
  <2>2. CASE Tick
    <3>1. \A l \in Logins : login[l].pc = "issued" => login[l].exp \in Int
      BY Started DEF LoginState
    <3>2. now \in Nat /\ now' = now + 1 /\ UNCHANGED <<login, issued, misread>>
      BY <2>2 DEF Tick, TypeOK, history
    <3> QED BY <3>1, <3>2 DEF LiveTokensAreRecorded
  <2>3. CASE UNCHANGED <<now, login, issued>> /\ misread \subseteq misread'
    BY <2>3 DEF LiveTokensAreRecorded
  <2> QED BY <2>1, <2>2, <2>3, AccessQuiet, CommandQuiet, RegistryQuiet
         DEF Next, RegistryStep, vars, history
<1> QED BY <1>1, <1>2, TypeCorrect, PTL DEF Spec

(***************************************************************************)
(* The two registry reads of a login.                                      *)
(***************************************************************************)

\* An attested login is not bound because it has yet to choose, its device being
\* approved still, or because it was overtaken, or because it could not read the registry.
UnboundAt(l) ==
    /\ login[l].pc = "attested" => login[l].bound = FALSE
    /\ login[l].pc \notin {"idle", "failed"} /\ login[l].attested /\ ~login[l].bound =>
           \/ login[l].pc = "attested" /\ login[l].device \in approved
           \/ l \in overtaken
           \/ <<l, "devices">> \in misread

UnboundHasCause == \A l \in Logins : UnboundAt(l)

\* A step of the registry's writers: whoever loses the approval is on record for it.
LEMMA ApprovalStep ==
    ASSUME UnboundHasCause, UNCHANGED login, misread \subseteq misread',
           \/ approved \subseteq approved' /\ overtaken \subseteq overtaken'
           \/ \E d \in Devices : TakesApproval(d)
    PROVE  UnboundHasCause'
<1> SUFFICES ASSUME NEW l \in Logins PROVE UnboundAt(l)'
  BY DEF UnboundHasCause
<1>1. UnboundAt(l)
  BY DEF UnboundHasCause
<1>2. CASE approved \subseteq approved' /\ overtaken \subseteq overtaken'
  BY <1>1, <1>2 DEF UnboundAt
<1>3. ASSUME NEW d \in Devices, TakesApproval(d) PROVE UnboundAt(l)'
  BY <1>1, <1>3 DEF UnboundAt, TakesApproval
<1> QED BY <1>2, <1>3

\* The login's own steps: it attests to an approved device and binds to one.
LEMMA LoginUnbound ==
    ASSUME TypeOK, UnboundHasCause, NEW l \in Logins, Login(l)
    PROVE  UnboundHasCause'
<1> USE Started
<1>1. /\ UNCHANGED <<approved, overtaken>> /\ misread \subseteq misread'
      /\ \A m \in Logins : m # l => login'[m] = login[m]
  BY LoginQuiet DEF Login, Attest, Bind, Mint, Record, IssueFails, TypeOK, history
<1>3. UnboundAt(l)' => UnboundHasCause'
  BY <1>1 DEF UnboundHasCause, UnboundAt
<1>4. ASSUME NEW u \in Users, NEW d \in Devices, NEW signed \in BOOLEAN,
             Attest(l, u, d, signed)
      PROVE  UnboundHasCause'
  <2>1. login'[l] = [pc |-> "attested", user |-> u, device |-> d,
                     attested |-> Attests(d, signed), bound |-> FALSE, exp |-> 0]
    BY <1>4 DEF Attest, TypeOK
  <2>2. /\ login'[l].pc = "attested" /\ login'[l].device = d
        /\ login'[l].bound = FALSE /\ login'[l].attested = Attests(d, signed)
    BY <2>1
  <2>3. Attests(d, signed) => d \in approved
    BY DEF Attests
  <2>4. UnboundAt(l)'
    BY <1>1, <2>2, <2>3 DEF UnboundAt
  <2> QED BY <1>3, <2>4
<1>5. CASE Bind(l)
  <2>1. login[l] \in LoginState /\ login[l].pc = "attested"
    BY <1>5 DEF Bind
  <2>2. PICK devices \in Loads(approved) :
            /\ Trusts(l, "devices", approved, devices)
            /\ login' = [login EXCEPT ![l] =
                           [@ EXCEPT !.pc = "bound", !.bound = login[l].device \in devices]]
    BY <1>5 DEF Bind
  <2>3. /\ login'[l].pc = "bound" /\ login'[l].attested = login[l].attested
        /\ login'[l].bound = (login[l].device \in devices)
        /\ login'[l].device = login[l].device
    BY <2>1, <2>2 DEF LoginState, TypeOK
  <2>4. UnboundAt(l) /\ login[l].bound = FALSE
    BY <2>1 DEF UnboundAt, UnboundHasCause
  <2>5. devices = approved \/ <<l, "devices">> \in misread'
    BY <2>2, Trusted
  <2>6. ASSUME login[l].attested, login[l].device \notin devices
        PROVE  l \in overtaken' \/ <<l, "devices">> \in misread'
    BY <1>1, <2>1, <2>4, <2>5, <2>6 DEF UnboundAt
  <2>7. UnboundAt(l)'
    BY <2>3, <2>6 DEF UnboundAt
  <2> QED BY <1>3, <2>7
<1>6. CASE Mint(l) \/ Record(l)
  <2>1. login[l] \in LoginState /\ login[l].pc \in {"bound", "minted"}
    BY <1>6 DEF Mint, Record
  <2>2. /\ login'[l].attested = login[l].attested /\ login'[l].bound = login[l].bound
        /\ login'[l].device = login[l].device /\ login'[l].pc # "attested"
    <3>1. CASE Mint(l)
      BY <2>1, <3>1 DEF Mint, LoginState, TypeOK
    <3>2. CASE Record(l)
      BY <2>1, <3>2 DEF Record, LoginState, TypeOK
    <3> QED BY <1>6, <3>1, <3>2
  <2>3. UnboundAt(l)'
    BY <1>1, <2>1, <2>2 DEF UnboundAt, UnboundHasCause
  <2> QED BY <1>3, <2>3
<1>7. CASE IssueFails(l)
  <2>1. login'[l] = Failed
    BY <1>7 DEF IssueFails, TypeOK
  <2>2. UnboundAt(l)'
    BY <2>1 DEF UnboundAt, Failed
  <2> QED BY <1>3, <2>2
<1> QED BY <1>4, <1>5, <1>6, <1>7 DEF Login

\* Whoever takes an approval away between the two registry reads of a login, every
\* attested login ends up bound, its token good only with the device's key: unless it is
\* one of those overtaken, or could not read the registry.
THEOREM AttestationBinds == Spec => []AttestedUnboundHasCause
<1>1. Init => UnboundHasCause
  <2> SUFFICES ASSUME Init, NEW l \in Logins PROVE UnboundAt(l)
    BY DEF UnboundHasCause
  <2>1. login[l] = Idle
    BY DEF Init
  <2> QED BY <2>1 DEF UnboundAt, Idle
<1>2. TypeOK /\ UnboundHasCause /\ [Next]_vars => UnboundHasCause'
  <2> SUFFICES ASSUME TypeOK, UnboundHasCause, [Next]_vars PROVE UnboundHasCause'
    OBVIOUS
  <2>1. ASSUME NEW l \in Logins, Login(l) PROVE UnboundHasCause'
    BY <2>1, LoginUnbound
  <2>2. ASSUME NEW c \in Commands, Command(c) PROVE UnboundHasCause'
    <3>1. \/ UNCHANGED <<approved, overtaken>>
          \/ \E d \in Devices : TakesApproval(d)
      BY <2>2 DEF Command, RevokeDevice, RevokeUser, RevokeToken, LoadList, Sweep,
                  SaveList, SaveFails, Finish, history
    <3> QED BY <2>2, <3>1, CommandQuiet, ApprovalStep
  <2>3. CASE RegistryStep
    <3>1. \/ approved \subseteq approved' /\ overtaken \subseteq overtaken'
          \/ \E d \in Devices : TakesApproval(d)
      BY <2>3 DEF RegistryStep, Approve, Enroll, Overwrite, history
    <3> QED BY <2>3, <3>1, RegistryQuiet, ApprovalStep
  <2>4. ASSUME NEW x \in Accesses, Access(x) PROVE UnboundHasCause'
    <3>1. UNCHANGED <<approved, overtaken>>
      BY <2>4 DEF Access, Receive, CheckRevoked, CheckProof, history
    <3> QED BY <2>4, <3>1, AccessQuiet, ApprovalStep
  <2>5. CASE Tick \/ UNCHANGED vars
    BY <2>5, ApprovalStep DEF Tick, vars, history
  <2> QED BY <2>1, <2>2, <2>3, <2>4, <2>5 DEF Next, RegistryStep
<1>3. UnboundHasCause => AttestedUnboundHasCause
  BY DEF UnboundHasCause, UnboundAt, AttestedUnboundHasCause
<1> QED BY <1>1, <1>2, <1>3, TypeCorrect, PTL DEF Spec
=============================================================================
