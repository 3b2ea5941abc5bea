---------------------------- MODULE AccessProofs ----------------------------
(***************************************************************************)
(* Theorems about Access, for any number of requests, any defaults, any    *)
(* policy files and claims, and every interleaving of requests, edits and  *)
(* reloads.                                                                *)
(***************************************************************************)
EXTENDS Access, TLAPS

(***************************************************************************)
(* evaluate.                                                               *)
(***************************************************************************)

\* A set of checks has a first one.
LEMMA FirstCheck ==
    ASSUME NEW S \in SUBSET (1 .. 6), S # {}
    PROVE  \E i \in S : \A j \in S : i <= j
<1>1. CASE 1 \in S
  BY <1>1
<1>2. CASE 1 \notin S /\ 2 \in S
  BY <1>2
<1>3. CASE 1 \notin S /\ 2 \notin S /\ 3 \in S
  BY <1>3
<1>4. CASE 1 \notin S /\ 2 \notin S /\ 3 \notin S /\ 4 \in S
  BY <1>4
<1>5. CASE 1 \notin S /\ 2 \notin S /\ 3 \notin S /\ 4 \notin S /\ 5 \in S
  BY <1>5
<1>6. CASE 1 \notin S /\ 2 \notin S /\ 3 \notin S /\ 4 \notin S /\ 5 \notin S
  <2>1. \A j \in S : j = 6
    BY <1>6
  <2>2. 6 \in S
    BY <2>1
  <2> QED BY <2>1, <2>2
<1> QED BY <1>1, <1>2, <1>3, <1>4, <1>5, <1>6

\* evaluate always has a reason, and allows only what no check refuses.
LEMMA ReasonSound ==
    ASSUME NEW policy, NEW claims, NEW at, NEW hours
    PROVE  /\ Reason(policy, claims, at, hours) \in Reasons
           /\ Reason(policy, claims, at, hours) = "policy_match" =>
                  \A i \in 1 .. 6 : ~Refuses(Order[i], policy, claims, at, hours)
<1> DEFINE refusing == {i \in 1 .. 6 : Refuses(Order[i], policy, claims, at, hours)}
           first    == CHOOSE i \in refusing : \A j \in refusing : i <= j
<1>1. DOMAIN Order = 1 .. 6 /\ \A i \in 1 .. 6 : Order[i] \in Reasons \ {"policy_match"}
  BY DEF Order, Reasons
<1>2. Reason(policy, claims, at, hours) =
          IF refusing = {} THEN "policy_match" ELSE Order[first]
  BY <1>1 DEF Reason
<1>3. refusing # {} => first \in 1 .. 6
  <2>1. refusing \in SUBSET (1 .. 6)
    OBVIOUS
  <2> HIDE DEF refusing
  <2>2. refusing # {} => first \in refusing
    BY <2>1, FirstCheck
  <2> QED BY <2>1, <2>2
<1>4. refusing = {} => \A i \in 1 .. 6 : ~Refuses(Order[i], policy, claims, at, hours)
  OBVIOUS
<1>5. "policy_match" \in Reasons
  BY DEF Reasons
<1> HIDE DEF refusing, first
<1> QED BY <1>1, <1>2, <1>3, <1>4, <1>5

\* Whatever a request finds in the policies, its thresholds are numbers.
LEMMA MergedNumbers ==
    ASSUME NEW f \in Sources, NEW name \in DOMAIN Merged(f)
    PROVE  HasNumbers(Merged(f)[name])
<1>1. CASE ~IsDocument(f)
  BY <1>1, AccessAssumption DEF AccessAssumption, Merged
<1>2. CASE IsDocument(f)
  <2>0. f \in Files
    BY <1>2 DEF Sources, Unread, IsDocument
  <2>1. \A n \in DOMAIN f.resources : HasNumbers(f.resources[n])
    BY <1>2, <2>0, AccessAssumption DEF AccessAssumption, IsDocument
  <2>2. \A n \in DOMAIN Defaults : HasNumbers(Defaults[n])
    BY AccessAssumption DEF AccessAssumption
  <2>3. /\ name \in DOMAIN Defaults \cup DOMAIN f.resources
        /\ Merged(f)[name] = IF name \notin DOMAIN f.resources THEN Defaults[name]
                             ELSE IF name \notin DOMAIN Defaults THEN f.resources[name]
                             ELSE Over(f.resources[name], Defaults[name])
    BY <1>2 DEF Merged
  <2>4. ASSUME name \in DOMAIN f.resources, name \in DOMAIN Defaults
        PROVE  HasNumbers(Over(f.resources[name], Defaults[name]))
    BY <2>1, <2>2, <2>4 DEF HasNumbers, Over
  <2> QED BY <2>1, <2>2, <2>3, <2>4
<1> QED BY <1>1, <1>2

\* What evaluate allows with the policy and the hours of one file, the file permits.
LEMMA AllowedIsPermitted ==
    ASSUME NEW f \in Sources, NEW claims \in Claims, NEW name \in DOMAIN Merged(f), NEW at \in Nat,
           ~Raises(Merged(f)[name], claims),
           Reason(Merged(f)[name], claims, at, Hours(f)) = "policy_match"
    PROVE  Permits(f, name, claims, at)
<1> DEFINE p == Merged(f)[name]
<1>1. HasNumbers(p)
  BY MergedNumbers
<1>2. /\ claims.level \in Int /\ claims.trust \in Int
      /\ claims.auth_time \in Nat \cup {NoTime}
  BY AccessAssumption DEF AccessAssumption
<1>3. \A i \in 1 .. 6 : ~Refuses(Order[i], p, claims, at, Hours(f))
  BY ReasonSound
<1>4. /\ ~Refuses("insufficient_role", p, claims, at, Hours(f))
      /\ ~Refuses("insufficient_device_trust", p, claims, at, Hours(f))
      /\ ~Refuses("attestation_required", p, claims, at, Hours(f))
      /\ ~Refuses("step_up_required", p, claims, at, Hours(f))
      /\ ~Refuses("insufficient_auth_method", p, claims, at, Hours(f))
      /\ ~Refuses("outside_business_hours", p, claims, at, Hours(f))
  <2>1. /\ Order[1] = "insufficient_role" /\ Order[2] = "insufficient_device_trust"
        /\ Order[3] = "attestation_required" /\ Order[4] = "step_up_required"
        /\ Order[5] = "insufficient_auth_method" /\ Order[6] = "outside_business_hours"
    BY DEF Order
  <2> HIDE DEF p
  <2> QED BY <1>3, <2>1
<1>5. name \in DOMAIN Merged(f)
  OBVIOUS
<1> HIDE DEF p
<1>6. claims.level >= p.min_role_level /\ claims.trust >= p.min_device_trust
  <2>1. "min_role_level" \in DOMAIN p /\ p.min_role_level \in Nat
    BY <1>1 DEF p, Raises, HasNumbers, Thresholds
  <2>2. claims.level >= p.min_role_level
    BY <1>2, <1>4, <2>1 DEF Refuses, Get
  <2>3. "min_device_trust" \in DOMAIN p /\ p.min_device_trust \in Nat
    BY <1>1, <2>1, <2>2 DEF p, Raises, HasNumbers, Thresholds
  <2>4. claims.trust >= p.min_device_trust
    BY <1>2, <1>4, <2>3 DEF Refuses, Get
  <2> QED BY <2>2, <2>4
<1>7. Attestation(p) => claims.attested
  BY <1>4 DEF Refuses
<1>8. MaxAge(p) > 0 => claims.auth_time # NoTime /\ at <= claims.auth_time + MaxAge(p)
  <2>1. MaxAge(p) \in Nat
    BY <1>1 DEF MaxAge, Get, HasNumbers, Thresholds
  <2>2. ~Stale(p, claims, at)
    BY <1>4 DEF Refuses
  <2> QED BY <1>2, <2>1, <2>2 DEF Stale, NoTime
<1>9. \A m \in RequiredAmr(p) : m \in claims.amr
  BY <1>4 DEF Refuses
<1>10. HoursOnly(p) => WithinBusinessHours(Hours(f), at)
  BY <1>4 DEF Refuses
<1> QED BY <1>5, <1>6, <1>7, <1>8, <1>9, <1>10 DEF Permits, p

(***************************************************************************)
(* Types.                                                                  *)
(***************************************************************************)

LEMMA Started ==
    ASSUME TypeOK
    PROVE  \A r \in Requests : request[r].pc # "idle" => request[r] \in RequestState
BY DEF TypeOK, Idle

\* What the steps of one request leave alone: all but its state and the audit log.
LEMMA HandleFrame ==
    ASSUME TypeOK, NEW r \in Requests, Handle(r)
    PROVE  /\ UNCHANGED <<now, file, edits, gateway, policies, loading, reloads>>
           /\ \A q \in Requests : q # r => request'[q] = request[q]
           /\ \A q \in Requests, d \in Decisions : q # r => (<<q, d>> \in audit' <=> <<q, d>> \in audit)
BY DEF Handle, Lookup, Decide, Record, RecordOf, Refuse, NoAddress, Proxy, Answer, TypeOK

\* The states of a request, by what changes in them.
Answered(q, status)           == [q EXCEPT !.pc = "answered", !.status = status]
Recorded(q)                   == [q EXCEPT !.pc = "recorded"]
Decided(q, at, count, reason) == [q EXCEPT !.pc = "decided", !.at = at, !.reloads = count,
                                           !.reason = reason]
SameCase(q, p) == /\ q.claims = p.claims /\ q.name = p.name /\ q.from = p.from
                  /\ q.at = p.at /\ q.reloads = p.reloads /\ q.reason = p.reason

LEMMA StateChanges ==
    ASSUME NEW q \in RequestState
    PROVE  /\ q.pc \in {"found", "decided", "recorded", "answered"}
           /\ \A status \in Answers :
                  /\ Answered(q, status) \in RequestState
                  /\ Answered(q, status).pc = "answered" /\ Answered(q, status).status = status
                  /\ SameCase(Answered(q, status), q)
           /\ Recorded(q) \in RequestState
           /\ Recorded(q).pc = "recorded" /\ SameCase(Recorded(q), q)
BY DEF RequestState, Answered, Recorded, SameCase

LEMMA Decisive ==
    ASSUME NEW q \in RequestState, NEW at \in Nat, NEW count \in Nat, NEW reason \in Reasons
    PROVE  LET d == Decided(q, at, count, reason) IN
           /\ d \in RequestState
           /\ d.pc = "decided" /\ d.at = at /\ d.reloads = count /\ d.reason = reason
           /\ d.claims = q.claims /\ d.name = q.name /\ d.from = q.from
BY DEF RequestState, Decided

\* A request that is answered holds what it held.
LEMMA AnswerKeeps ==
    ASSUME TypeOK, NEW r \in Requests, request[r].pc # "idle"
    PROVE  \A status \in Answers : Answer(r, status) =>
               /\ request'[r] = Answered(request[r], status)
               /\ request'[r].pc = "answered" /\ request'[r].status = status
               /\ SameCase(request'[r], request[r])
               /\ request' \in [Requests -> RequestState \cup {Idle}]
<1> SUFFICES ASSUME NEW status \in Answers, Answer(r, status)
             PROVE  /\ request'[r] = Answered(request[r], status)
                    /\ request'[r].pc = "answered" /\ request'[r].status = status
                    /\ SameCase(request'[r], request[r])
                    /\ request' \in [Requests -> RequestState \cup {Idle}]
  OBVIOUS
<1>1. request'[r] = Answered(request[r], status)
  BY DEF Answer, Answered, TypeOK
<1>2. request[r] \in RequestState
  BY Started
<1>3. /\ request'[r].pc = "answered" /\ request'[r].status = status
      /\ request'[r] \in RequestState /\ SameCase(request'[r], request[r])
  BY <1>1, <1>2, StateChanges
<1> QED BY <1>1, <1>3 DEF Answer, TypeOK

\* A request that is written to the log, too.
LEMMA RecordKeeps ==
    ASSUME TypeOK, NEW r \in Requests, request[r].pc # "idle",
           request' = [request EXCEPT ![r].pc = "recorded"]
    PROVE  /\ request'[r].pc = "recorded" /\ SameCase(request'[r], request[r])
           /\ request' \in [Requests -> RequestState \cup {Idle}]
<1>1. request'[r] = Recorded(request[r])
  BY DEF Recorded, TypeOK
<1>2. request[r] \in RequestState
  BY Started
<1>3. /\ request'[r].pc = "recorded" /\ request'[r] \in RequestState
      /\ SameCase(request'[r], request[r])
  BY <1>1, <1>2, StateChanges
<1> QED BY <1>3 DEF TypeOK

\* The policy that a request is judged by.
Known(q)    == q.name \in DOMAIN Merged(q.from)
PolicyOf(q) == Merged(q.from)[q.name]

\* What a request has found is what the Gateway uses until a reload is finished.
Found(r) ==
    request[r].pc = "found" =>
        /\ request[r].reason = "none" /\ request[r].reloads <= reloads
        /\ request[r].reloads = reloads => policies = request[r].from

\* The decision: a 500, or a reason for what follows.
LEMMA DecideStep ==
    ASSUME TypeOK, NEW r \in Requests, Found(r), Decide(r)
    PROVE  /\ request' \in [Requests -> RequestState \cup {Idle}]
           /\ request[r] \in RequestState /\ request[r].pc = "found"
           /\ \/ /\ request'[r].pc = "answered" /\ request'[r].status = 500
                 /\ request'[r].reason = "none"
              \/ /\ request'[r].pc = "decided" /\ request'[r].at = now
                 /\ request'[r].claims = request[r].claims
                 /\ request'[r].name = request[r].name /\ request'[r].from = request[r].from
                 /\ request'[r].reloads = reloads - request[r].reloads
                 /\ Known(request[r]) =>
                        /\ ~Raises(PolicyOf(request[r]), request[r].claims)
                        /\ request'[r].reason = Reason(PolicyOf(request[r]), request[r].claims,
                                                       now, Hours(policies))
                 /\ ~Known(request[r]) => request'[r].reason = "unknown_resource"
<1> DEFINE q == request[r]
           reason == IF Known(q) THEN Reason(PolicyOf(q), q.claims, now, Hours(policies))
                     ELSE "unknown_resource"
           count == reloads - q.reloads
<1>1. q.pc = "found" /\ q \in RequestState /\ q.reloads <= reloads /\ q.reason = "none"
  BY Started DEF Decide, Found
<1>2. CASE Known(q) /\ Raises(PolicyOf(q), q.claims)
  <2>1. Answer(r, 500)
    BY <1>2 DEF Decide, Known, PolicyOf
  <2>2. 500 \in Answers /\ q.pc # "idle"
    BY <1>1 DEF Answers
  <2>3. /\ request'[r].pc = "answered" /\ request'[r].status = 500
        /\ SameCase(request'[r], q)
        /\ request' \in [Requests -> RequestState \cup {Idle}]
    BY <2>1, <2>2, AnswerKeeps
  <2>4. request'[r].reason = "none"
    BY <1>1, <2>3 DEF SameCase
  <2> QED BY <1>1, <2>3, <2>4
<1>3. CASE ~(Known(q) /\ Raises(PolicyOf(q), q.claims))
  <2>1. request' = [request EXCEPT ![r].pc = "decided", ![r].at = now,
                                   ![r].reloads = count, ![r].reason = reason]
    BY <1>3 DEF Decide, Known, PolicyOf
  <2>2. reason \in Reasons
    <3>1. Reason(PolicyOf(q), q.claims, now, Hours(policies)) \in Reasons
      BY ReasonSound
    <3> QED BY <3>1 DEF Reasons
  <2>3. count \in Nat /\ now \in Nat
    BY <1>1 DEF TypeOK, RequestState
  <2>4. Known(q) => reason = Reason(PolicyOf(q), q.claims, now, Hours(policies))
    OBVIOUS
  <2>5. ~Known(q) => reason = "unknown_resource"
    OBVIOUS
  <2>6. count = reloads - q.reloads
    OBVIOUS
  <2> HIDE DEF reason, count
  <2>7. request'[r] = Decided(q, now, count, reason)
    BY <2>1 DEF Decided, TypeOK
  <2>8. /\ request'[r] \in RequestState /\ request'[r].pc = "decided"
        /\ request'[r].at = now /\ request'[r].reloads = count /\ request'[r].reason = reason
        /\ request'[r].claims = q.claims /\ request'[r].name = q.name
        /\ request'[r].from = q.from
    BY <1>1, <2>2, <2>3, <2>7, Decisive
  <2>9. request' \in [Requests -> RequestState \cup {Idle}]
    BY <2>1, <2>8 DEF TypeOK
  <2> QED BY <1>1, <1>3, <2>4, <2>5, <2>6, <2>8, <2>9
<1> QED BY <1>2, <1>3

\* A request that has been decided keeps what it was decided on.
LEMMA DecidedKeeps ==
    ASSUME TypeOK, NEW r \in Requests, Record(r) \/ Refuse(r) \/ NoAddress(r) \/ Proxy(r)
    PROVE  /\ request[r].pc \in {"decided", "recorded"}
           /\ request'[r].pc \in {"recorded", "answered"}
           /\ SameCase(request'[r], request[r])
           /\ request' \in [Requests -> RequestState \cup {Idle}]
<1>1. request[r].pc \in {"decided", "recorded"}
  BY DEF Record, Refuse, NoAddress, Proxy
<1>2. \/ request' = [request EXCEPT ![r].pc = "recorded"]
      \/ \E status \in Answers : Answer(r, status)
  BY DEF Record, Refuse, NoAddress, Proxy, StatusOf, Answers
<1>3. CASE request' = [request EXCEPT ![r].pc = "recorded"]
  BY <1>1, <1>3, RecordKeeps
<1>4. CASE \E status \in Answers : Answer(r, status)
  <2>1. PICK status \in Answers : Answer(r, status)
    BY <1>4
  <2>2. request[r].pc # "idle"
    BY <1>1
  <2> QED BY <1>1, <2>1, <2>2, AnswerKeeps
<1> QED BY <1>2, <1>3, <1>4

\* The steps of a request preserve its types.
LEMMA HandleTypes ==
    ASSUME TypeOK, NEW r \in Requests, Found(r), Handle(r)
    PROVE  TypeOK'
<1> SUFFICES /\ request' \in [Requests -> RequestState \cup {Idle}]
             /\ audit' \subseteq Requests \X Decisions
  BY HandleFrame DEF TypeOK
<1>1. ASSUME NEW claims \in Claims, NEW name \in Names, Lookup(r, claims, name)
      PROVE  request' \in [Requests -> RequestState \cup {Idle}]
  <2> DEFINE new == [pc |-> "found", claims |-> claims, name |-> name, from |-> policies,
                     reloads |-> reloads, at |-> now, reason |-> "none", status |-> 0]
  <2>1. new \in RequestState
    BY DEF TypeOK, RequestState
  <2>2. request' = [request EXCEPT ![r] = new]
    BY <1>1 DEF Lookup
  <2> HIDE DEF new
  <2> QED BY <2>1, <2>2 DEF TypeOK
<1>2. CASE Decide(r)
  BY <1>2, DecideStep DEF Decide, TypeOK
<1>3. CASE Record(r) \/ Refuse(r) \/ NoAddress(r) \/ Proxy(r)
  <2>1. request' \in [Requests -> RequestState \cup {Idle}]
    BY <1>3, DecidedKeeps
  <2>2. audit' \subseteq Requests \X Decisions
    BY <1>3 DEF Record, RecordOf, Refuse, NoAddress, Proxy, Decisions, TypeOK
  <2> QED BY <2>1, <2>2
<1>4. ASSUME NEW claims \in Claims, NEW name \in Names, Lookup(r, claims, name)
      PROVE  UNCHANGED audit
  BY <1>4 DEF Lookup
<1> QED BY <1>1, <1>2, <1>3, <1>4 DEF Handle, TypeOK

\* The steps of the process, of the administrator and of the clock.
LEMMA OtherTypes ==
    ASSUME TypeOK, \/ Preflight \/ StartReload \/ FinishReload \/ Tick
                   \/ \E f \in Files : Edit(f)
                   \/ UNCHANGED vars
    PROVE  TypeOK' /\ UNCHANGED <<request, audit>>
BY DEF Preflight, StartReload, FinishReload, Tick, Edit, vars, TypeOK, Sources, Readings

(***************************************************************************)
(* The decision follows the policy.                                        *)
(***************************************************************************)

FoundInv == \A r \in Requests : Found(r)

LEMMA FoundStep ==
    ASSUME TypeOK, FoundInv, [Next]_vars
    PROVE  FoundInv'
<1>1. ASSUME NEW r \in Requests, Handle(r) PROVE FoundInv'
  <2>1. \A q \in Requests : q # r => Found(q)'
    BY <1>1, HandleFrame DEF FoundInv, Found
  <2>2. ASSUME NEW claims \in Claims, NEW name \in Names, Lookup(r, claims, name)
        PROVE  Found(r)'
    BY <2>2 DEF Lookup, Found, TypeOK
  <2>3. CASE Decide(r)
    <3>1. request'[r].pc # "found"
      BY <2>3, DecideStep DEF FoundInv, RequestState
    <3>2. Found(r)'
      BY <3>1 DEF Found
    <3> QED BY <2>1, <3>2 DEF FoundInv
  <2>4. CASE Record(r) \/ Refuse(r) \/ NoAddress(r) \/ Proxy(r)
    <3>1. request'[r].pc # "found"
      BY <2>4, DecidedKeeps
    <3>2. Found(r)'
      BY <3>1 DEF Found
    <3> QED BY <2>1, <3>2 DEF FoundInv
  <2> QED BY <1>1, <2>1, <2>2, <2>3, <2>4 DEF FoundInv, Handle
<1>2. CASE FinishReload
  <2>1. \A r \in Requests : request[r].pc = "found" => request[r].reloads \in Nat
    BY Started DEF RequestState
  <2> QED BY <1>2, <2>1 DEF FinishReload, FoundInv, Found, TypeOK
<1>3. CASE Preflight \/ StartReload \/ Tick \/ (\E f \in Files : Edit(f)) \/ UNCHANGED vars
  BY <1>3 DEF Preflight, StartReload, Tick, Edit, vars, FoundInv, Found
<1> QED BY <1>1, <1>2, <1>3 DEF Next

\* Types, and what a request has found.
THEOREM FindingsAreCurrent == Spec => [](TypeOK /\ FoundInv)
<1>1. Init => TypeOK /\ FoundInv
  BY AccessAssumption
  DEF AccessAssumption, Init, TypeOK, FoundInv, Found, Idle, Sources, Readings
<1>2. TypeOK /\ FoundInv /\ [Next]_vars => TypeOK' /\ FoundInv'
  BY HandleTypes, OtherTypes, FoundStep DEF Next, FoundInv
<1> QED BY <1>1, <1>2, PTL DEF Spec

\* Type correctness: a request is always in one of the handler's states, with one of
\* the reasons of evaluate and one of the handler's answers.
THEOREM TypeCorrect == Spec => []TypeOK
BY FindingsAreCurrent, PTL

\* The decision is made by one file's policy and, without a reload, its hours.
LEMMA DecideFollows ==
    ASSUME TypeOK, NEW r \in Requests, Found(r), Decide(r), Allowed(r)'
    PROVE  LET q == request'[r] IN
           Permits(q.from, q.name, q.claims, q.at) \/ q.reloads > 0
<1> DEFINE q == request[r]
<1>1. q \in RequestState /\ q.pc = "found" /\ q.reason = "none"
  BY DecideStep DEF Found
<1>2. request'[r].reason = "policy_match"
  BY DEF Allowed
<1>3. /\ request'[r].from = q.from /\ request'[r].name = q.name
      /\ request'[r].claims = q.claims /\ request'[r].at = now
      /\ request'[r].reloads = reloads - q.reloads
  BY <1>2, DecideStep
<1>4. /\ Known(q) => /\ ~Raises(PolicyOf(q), q.claims)
                     /\ request'[r].reason = Reason(PolicyOf(q), q.claims, now, Hours(policies))
      /\ ~Known(q) => request'[r].reason = "unknown_resource"
  BY <1>2, DecideStep
<1>5. /\ Known(q) /\ ~Raises(PolicyOf(q), q.claims)
      /\ Reason(PolicyOf(q), q.claims, now, Hours(policies)) = "policy_match"
  BY <1>2, <1>4
<1>6. CASE q.reloads = reloads
  <2>1. policies = q.from
    BY <1>1, <1>6 DEF Found
  <2>2. q.from \in Sources /\ q.claims \in Claims /\ now \in Nat
    BY <1>1 DEF RequestState, TypeOK
  <2>3. Permits(q.from, q.name, q.claims, now)
    BY <1>5, <2>1, <2>2, AllowedIsPermitted DEF Known, PolicyOf
  <2> QED BY <1>3, <2>3
<1>7. CASE q.reloads # reloads
  <2>1. q.reloads < reloads /\ q.reloads \in Nat /\ reloads \in Nat
    BY <1>1, <1>7 DEF Found, RequestState, TypeOK
  <2> QED BY <1>3, <2>1
<1> QED BY <1>6, <1>7

\* A request is allowed only when the policy of one file, with its thresholds, step-up,
\* methods and hours, permits it; a reload between lookup and decision is the one
\* exception.  So for all policy files, claims and requests at the same time.
THEOREM AllowsFollowPolicy == Spec => []AllowFollowsPolicy
<1>1. Init => AllowFollowsPolicy
  BY DEF Init, AllowFollowsPolicy, Allowed, Idle
<1>2. TypeOK /\ FoundInv /\ AllowFollowsPolicy /\ [Next]_vars => AllowFollowsPolicy'
  <2> SUFFICES ASSUME TypeOK, FoundInv, AllowFollowsPolicy, [Next]_vars,
                      NEW x \in Requests, Allowed(x)'
               PROVE  \/ Permits(request'[x].from, request'[x].name,
                                 request'[x].claims, request'[x].at)
                      \/ request'[x].reloads > 0
    BY DEF AllowFollowsPolicy, Permits
  <2>1. CASE request'[x] = request[x]
    BY <2>1 DEF AllowFollowsPolicy, Allowed
  <2>2. CASE Decide(x)
    BY <2>2, DecideFollows DEF FoundInv
  <2>3. CASE Record(x) \/ Refuse(x) \/ NoAddress(x) \/ Proxy(x)
    <3>1. request[x].pc # "idle" /\ Allowed(x)
      BY <2>3, DecidedKeeps DEF Allowed, SameCase
    <3> QED BY <2>3, <3>1, DecidedKeeps DEF AllowFollowsPolicy, SameCase
  <2>4. ASSUME NEW claims \in Claims, NEW name \in Names, Lookup(x, claims, name)
        PROVE  ~Allowed(x)'
    BY <2>4 DEF Lookup, Allowed, TypeOK
  <2>5. ASSUME NEW r \in Requests, Handle(r), r # x PROVE request'[x] = request[x]
    BY <2>5, HandleFrame
  <2> QED BY <2>1, <2>2, <2>3, <2>4, <2>5, OtherTypes DEF Next, Handle
<1> QED BY <1>1, <1>2, FindingsAreCurrent, PTL DEF Spec

(***************************************************************************)
(* The audit log.                                                          *)
(***************************************************************************)

Written(r) == {d \in Decisions : <<r, d>> \in audit}

\* What is in the log for a request that has come so far.
RecordedAt(r) ==
    /\ request[r].pc \in {"idle", "found", "decided"} => Written(r) = {}
    /\ request[r].pc = "recorded" => Written(r) = {IF Allowed(r) THEN "allow" ELSE "deny"}
    /\ request[r].pc = "answered" =>
           /\ request[r].status = Relayed => Written(r) = {"allow"}
           /\ request[r].status = 502 => Written(r) = {"allow", "error"}
           /\ request[r].status \in {401, 403} => Written(r) = {"deny"}

RecordedInv == \A r \in Requests : RecordedAt(r)

LEMMA RecordedStep ==
    ASSUME TypeOK, FoundInv, RecordedInv, NEW r \in Requests, Handle(r)
    PROVE  RecordedAt(r)'
<1> USE DEF RecordedInv
<1>1. ASSUME NEW claims \in Claims, NEW name \in Names, Lookup(r, claims, name)
      PROVE  RecordedAt(r)'
  <2>1. request[r].pc = "idle" /\ UNCHANGED audit
    BY <1>1 DEF Lookup, Idle
  <2>2. request'[r].pc = "found"
    BY <1>1 DEF Lookup, TypeOK
  <2> QED BY <2>1, <2>2 DEF RecordedAt, Written
<1>2. CASE Decide(r)
  <2>1. request[r].pc = "found" /\ UNCHANGED audit
    BY <1>2 DEF Decide
  <2>2. \/ request'[r].pc = "decided"
        \/ request'[r].pc = "answered" /\ request'[r].status = 500
    BY <1>2, DecideStep DEF FoundInv
  <2> QED BY <2>1, <2>2 DEF RecordedAt, Relayed, Written
<1>3. CASE Record(r)
  <2>1. request[r].pc = "decided" /\ Written(r) = {}
    BY <1>3 DEF Record, RecordedAt, Relayed
  <2>2. CASE Answer(r, 500)
    <3>1. request[r].pc # "idle" /\ 500 \in Answers
      BY <2>1 DEF Answers
    <3>2. request'[r].pc = "answered" /\ request'[r].status = 500
      BY <2>2, <3>1, AnswerKeeps
    <3> QED BY <3>2 DEF RecordedAt, Relayed
  <2>3. CASE /\ audit' = audit \cup RecordOf(r)
             /\ request' = [request EXCEPT ![r].pc = "recorded"]
    <3>1. request'[r].pc = "recorded" /\ request'[r].reason = request[r].reason
      BY <2>1, <2>3, RecordKeeps DEF SameCase
    <3>2. Allowed(r)' <=> Allowed(r)
      BY <2>1, <3>1 DEF Allowed
    <3>3. Written(r)' = {IF Allowed(r) THEN "allow" ELSE "deny"}
      BY <2>1, <2>3 DEF Written, RecordOf, Decisions
    <3> QED BY <3>1, <3>2, <3>3 DEF RecordedAt, Relayed
  <2> QED BY <1>3, <2>2, <2>3 DEF Record
<1>4. CASE Refuse(r)
  <2>1. Written(r) = {"deny"} /\ UNCHANGED audit
    BY <1>4 DEF Refuse, RecordedAt, Relayed
  <2>2. request[r].pc # "idle" /\ \E status \in {401, 403} : Answer(r, status)
    BY <1>4 DEF Refuse, StatusOf
  <2>3. {401, 403} \subseteq Answers
    BY DEF Answers
  <2>4. request'[r].pc = "answered" /\ request'[r].status \in {401, 403}
    BY <2>2, <2>3, AnswerKeeps
  <2> QED BY <2>1, <2>4 DEF RecordedAt, Relayed, Written
<1>5. CASE NoAddress(r)
  <2>1. request[r].pc # "idle" /\ 500 \in Answers /\ Answer(r, 500)
    BY <1>5 DEF NoAddress, Answers
  <2>2. request'[r].pc = "answered" /\ request'[r].status = 500
    BY <2>1, AnswerKeeps
  <2> QED BY <2>2 DEF RecordedAt, Relayed
<1>6. CASE Proxy(r)
  <2>1. request[r].pc = "recorded" /\ Written(r) = {"allow"}
    BY <1>6 DEF Proxy, RecordedAt, Relayed
  <2>2. \A status \in {Relayed, 500, 502} : Answer(r, status) =>
            request'[r].pc = "answered" /\ request'[r].status = status
    <3>1. request[r].pc # "idle" /\ {Relayed, 500, 502} \subseteq Answers
      BY <2>1 DEF Answers
    <3> QED BY <3>1, AnswerKeeps
  <2>3. \/ Answer(r, Relayed) /\ UNCHANGED audit
        \/ Answer(r, 502) /\ audit' = audit \cup {<<r, "error">>}
        \/ Answer(r, 500) /\ UNCHANGED audit
    BY <1>6 DEF Proxy
  <2>4. CASE Answer(r, Relayed) /\ UNCHANGED audit
    <3>1. request'[r].pc = "answered" /\ request'[r].status = Relayed
      BY <2>2, <2>4
    <3> QED BY <2>1, <2>4, <3>1 DEF RecordedAt, Relayed, Written
  <2>5. CASE Answer(r, 502) /\ audit' = audit \cup {<<r, "error">>}
    <3>1. request'[r].pc = "answered" /\ request'[r].status = 502
      BY <2>2, <2>5
    <3>2. Written(r)' = {"allow", "error"}
      BY <2>1, <2>5 DEF Written, Decisions
    <3> QED BY <3>1, <3>2 DEF RecordedAt, Relayed
  <2>6. CASE Answer(r, 500) /\ UNCHANGED audit
    <3>1. request'[r].pc = "answered" /\ request'[r].status = 500
      BY <2>2, <2>6
    <3> QED BY <3>1 DEF RecordedAt, Relayed
  <2> QED BY <2>3, <2>4, <2>5, <2>6
<1> QED BY <1>1, <1>2, <1>3, <1>4, <1>5, <1>6 DEF Handle

\* Every decision that is answered is in the audit log, as what it was and before the
\* resource was asked, for all requests at the same time and whatever fails.
THEOREM DecisionsAreOnRecord == Spec => []AnswersAreRecorded
<1>1. Init => RecordedInv
  <2> SUFFICES ASSUME Init, NEW r \in Requests PROVE RecordedAt(r)
    BY DEF RecordedInv
  <2>1. request[r] = Idle /\ audit = {}
    BY DEF Init
  <2>2. request[r].pc = "idle" /\ Written(r) = {}
    BY <2>1 DEF Idle, Written
  <2> QED BY <2>2 DEF RecordedAt
<1>2. TypeOK /\ FoundInv /\ RecordedInv /\ [Next]_vars => RecordedInv'
  <2> SUFFICES ASSUME TypeOK, FoundInv, RecordedInv, [Next]_vars, NEW x \in Requests
               PROVE  RecordedAt(x)'
    BY DEF RecordedInv
  <2>1. ASSUME NEW r \in Requests, Handle(r), r # x PROVE RecordedAt(x)'
    <3>1. request'[x] = request[x] /\ Written(x)' = Written(x)
      BY <2>1, HandleFrame DEF Written
    <3> QED BY <3>1 DEF RecordedInv, RecordedAt, Allowed
  <2>2. ASSUME Handle(x) PROVE RecordedAt(x)'
    BY <2>2, RecordedStep
  <2>3. CASE UNCHANGED <<request, audit>>
    BY <2>3 DEF RecordedInv, RecordedAt, Allowed, Written
  <2> QED BY <2>1, <2>2, <2>3, OtherTypes DEF Next
<1>3. RecordedInv => AnswersAreRecorded
  BY DEF RecordedInv, RecordedAt, AnswersAreRecorded, Written
<1> QED BY <1>1, <1>2, <1>3, FindingsAreCurrent, PTL DEF Spec

(***************************************************************************)
(* The defaults alone.                                                     *)
(***************************************************************************)

\* Until somebody changes the file, the Gateway holds it, or what a failed reading leaves,
\* and it passed preflight.
FallbackInv ==
    edits = 0 => /\ policies \in Readings /\ loading \in Readings \cup {NotLoading}
                 /\ gateway = "serving" => IsDocument(file)

\* A Gateway that serves with the defaults alone does so because its last reading of
\* policies.json failed, or because the file was changed after the import: preflight
\* lets no other file pass.
THEOREM FallbackIsCaused == Spec => []FallbackHasCause
<1>1. Init => FallbackInv
  BY DEF Init, FallbackInv, Readings
<1>2. TypeOK /\ FallbackInv /\ [Next]_vars => FallbackInv'
  <2> SUFFICES ASSUME TypeOK, FallbackInv, [Next]_vars PROVE FallbackInv'
    OBVIOUS
  <2>1. CASE \E r \in Requests : Handle(r)
    BY <2>1, HandleFrame DEF FallbackInv, IsDocument, Readings
  <2>2. CASE Preflight
    BY <2>2 DEF Preflight, FilePasses, FallbackInv, IsDocument, Readings, Unread
  <2>3. CASE StartReload \/ FinishReload \/ Tick \/ UNCHANGED vars
    BY <2>3 DEF StartReload, FinishReload, Tick, vars, FallbackInv, IsDocument, Readings
  <2>4. ASSUME NEW f \in Files, Edit(f) PROVE FallbackInv'
    BY <2>4 DEF Edit, FallbackInv, TypeOK
  <2> QED BY <2>1, <2>2, <2>3, <2>4 DEF Next
<1>3. TypeOK /\ FallbackInv => FallbackHasCause
  BY DEF TypeOK, FallbackInv, FallbackHasCause, Readings
<1> QED BY <1>1, <1>2, <1>3, TypeCorrect, PTL DEF Spec
=============================================================================
