------------------------- MODULE TokenBindingProofs -------------------------
(***************************************************************************)
(* Theorems about TokenBinding, for any number of requests, clients, keys  *)
(* and Gateway restarts and every value of the time constants.             *)
(***************************************************************************)
EXTENDS TokenBinding, TLAPS

Live == {"timed", "fresh", "accepted"}

\* A nonce is drawn once, and no clock is further ahead than Skew.
ProofsInv ==
    /\ \A p, q \in proofs : p.nonce = q.nonce => p = q
    /\ \A p \in proofs : p.ts <= now + Skew

\* What the age check and the bound on the pause leave true of a request.
Tracked(q) ==
    /\ q.proof \in proofs
    /\ q.life <= life
    /\ q.proof.ts <= q.at + Skew
    /\ q.at <= q.proof.ts + MaxAge
    /\ q.pc = "timed" => q.life = life /\ q.at <= now /\ now <= q.at + Stall

RequestsInv == \A r \in Requests : req[r].pc \in Live => Tracked(req[r])

\* No thread can take p any more, whatever the cache holds.
TooLate(p) == now > p.ts + MaxAge + Stall

Remembered(p) ==
    \E e \in seen : e.nonce = p.nonce /\ e.exp >= p.ts + MaxAge + Stall

\* A spent proof is in the cache for as long as a thread could still take it.
SpentInv ==
    \A r \in Requests : Spent(r) /\ req[r].life = life =>
        Remembered(req[r].proof) \/ TooLate(req[r].proof)

\* ProofSingleUse from the moment the nonce is spent.
SpentOnce ==
    \A r, s \in Requests :
        r # s /\ Spent(r) /\ Spent(s) /\ req[r].life = req[s].life
        => req[r].proof # req[s].proof

UseInv == ProofsInv /\ RequestsInv /\ SpentInv /\ SpentOnce

\* The constants have the types TokenBinding gives them.
LEMMA ConstantTypes ==
    /\ MaxAge \in Nat /\ Slack \in Nat /\ TokenTTL \in Nat /\ Skew \in Nat
    /\ Stall \in Nat /\ MaxTime \in Nat /\ MaxLives \in Nat
    /\ Pinned \in [Tokens -> Keys]
BY TokenBindingAssumption DEF TokenBindingAssumption

\* Every step keeps the state well-formed.
LEMMA TypeStep == TypeOK /\ [Next]_vars => TypeOK'
<1> USE ConstantTypes
<1> SUFFICES ASSUME TypeOK, [Next]_vars PROVE TypeOK'
  OBVIOUS
<1> USE DEF TypeOK
<1>1. ASSUME NEW n \in Nonces, NEW t \in Tokens, NEW k \in Keys,
             NEW d \in (-Skew) .. Skew, Sign(n, t, k, d)
      PROVE  TypeOK'
  BY <1>1 DEF Sign, Proof
<1>2. ASSUME NEW k \in Keys, Enroll(k) PROVE TypeOK'
  BY <1>2 DEF Enroll, NewStatus, Statuses
<1>3. ASSUME NEW s \in {"approved", "revoked"}, Decide(s) PROVE TypeOK'
  BY <1>3 DEF Decide, Statuses
<1>4. ASSUME NEW r \in Requests, NEW t \in Tokens, NEW p \in proofs \cup {NoProof},
             Arrive(r, t, p)
      PROVE  TypeOK'
  <2>1. CASE p # NoProof
    BY <1>4, <2>1 DEF Arrive, Request, Refused, Proof
  <2>2. CASE p = NoProof
    BY <1>4, <2>2 DEF Arrive, Refused
  <2> QED BY <2>1, <2>2
<1>5. ASSUME NEW r \in Requests, Remember(r) PROVE TypeOK'
  <2>1. req[r] \in Request
    BY <1>5 DEF Remember, Idle, Refused
  <2>2. RetainedUntil(req[r].at) \in Int
    BY <2>1 DEF RetainedUntil, Request
  <2>3. seen' \subseteq [nonce : Nonces, exp : Int]
    BY <1>5, <2>1, <2>2 DEF Remember, Kept, Request, Proof
  <2>4. req' \in [Requests -> Request \cup {Idle, Refused}]
    BY <1>5, <2>1 DEF Remember, Request
  <2> QED BY <1>5, <2>3, <2>4 DEF Remember
<1>6. ASSUME NEW r \in Requests, CheckDevice(r) PROVE TypeOK'
  <2>1. req[r] \in Request
    BY <1>6 DEF CheckDevice, Idle, Refused
  <2>2. [req[r] EXCEPT !.pc = "accepted"] \in Request
    BY <2>1 DEF Request
  <2> QED BY <1>6, <2>2 DEF CheckDevice
<1>7. CASE Restart
  BY <1>7 DEF Restart
<1>8. CASE Tick
  BY <1>8 DEF Tick
<1>9. CASE UNCHANGED vars
  BY <1>9 DEF vars
<1> QED BY <1>1, <1>2, <1>3, <1>4, <1>5, <1>6, <1>7, <1>8, <1>9 DEF Next, Handle

\* Type correctness: every step of a client, an administrator, a handler thread
\* or a restart keeps the cache, the record and the requests well-formed.
THEOREM TypeCorrect == Spec => []TypeOK
<1>1. Init => TypeOK
  BY ConstantTypes, SMT DEF Init, TypeOK, Statuses, Proof, Request, Idle
<1> QED BY <1>1, TypeStep, PTL DEF Spec

(***************************************************************************)
(* Single use.  UseInv is inductive when the clients' clocks and the       *)
(* threads' pauses together stay within Slack.                             *)
(***************************************************************************)

\* A live thread's request is a well-formed record.
LEMMA LiveRequest ==
    ASSUME TypeOK, NEW r \in Requests, req[r].pc \in Live
    PROVE  /\ req[r] \in Request
           /\ req[r].proof \in Proof /\ req[r].at \in Nat /\ req[r].life \in Nat
           /\ req[r].proof.ts \in Int /\ req[r].proof.nonce \in Nonces
BY DEF TypeOK, Live, Request, Idle, Refused, Proof

\* A step that leaves the clock, the process, the cache and the threads alone
\* and forgets no proof, such as a client's or an administrator's.
LEMMA OutsideStep ==
    ASSUME UseInv, UNCHANGED <<now, life, seen, req>>, proofs \subseteq proofs',
           ProofsInv'
    PROVE  UseInv'
BY DEF UseInv, RequestsInv, Tracked, SpentInv, Remembered, TooLate, SpentOnce, Spent

LEMMA SignStep ==
    ASSUME TypeOK, UseInv, NEW n \in Nonces, NEW t \in Tokens, NEW k \in Keys,
           NEW d \in (-Skew) .. Skew, Sign(n, t, k, d)
    PROVE  UseInv'
<1>1. ProofsInv'
  BY ConstantTypes DEF UseInv, ProofsInv, Sign, TypeOK, Proof
<1> QED BY <1>1, OutsideStep DEF Sign

LEMMA ArriveStep ==
    ASSUME TypeOK, UseInv, NEW r \in Requests, NEW t \in Tokens,
           NEW p \in proofs \cup {NoProof}, Arrive(r, t, p)
    PROVE  UseInv'
<1> USE ConstantTypes DEF UseInv, TypeOK
<1> DEFINE q == [pc |-> "timed", token |-> t, proof |-> p, at |-> now, life |-> life]
<1>1. \A s \in Requests : s # r => req'[s] = req[s]
  BY DEF Arrive
<1>2. req'[r] = Refused \/ (p \in proofs /\ Fresh(p) /\ req'[r] = q)
  BY DEF Arrive
<1>3. ~Spent(r)'
  BY <1>2 DEF Spent, Refused
<1>4. req'[r].pc \in Live => Tracked(req[r])'
  <2> SUFFICES ASSUME p \in proofs, Fresh(p), req'[r] = q PROVE Tracked(q)'
    BY <1>2 DEF Live, Refused, Tracked, Arrive
  <2>1. p.ts \in Int /\ p.ts <= now + Skew
    BY DEF ProofsInv, Proof
  <2>2. now <= p.ts + MaxAge
    BY <2>1 DEF Fresh
  <2> QED BY <2>1, <2>2 DEF Tracked, Arrive
<1>5. ProofsInv'
  BY DEF Arrive, ProofsInv
<1>6. RequestsInv'
  BY <1>1, <1>4 DEF RequestsInv, Tracked, Arrive
<1>7. SpentInv'
  BY <1>1, <1>3 DEF SpentInv, Spent, Remembered, TooLate, Arrive
<1>8. SpentOnce'
  BY <1>1, <1>3 DEF SpentOnce, Spent
<1> QED BY <1>5, <1>6, <1>7, <1>8

\* The heart of the argument: what pruning removes can no longer be presented,
\* and a proof that is not in the cache has not been spent by this process.
LEMMA RememberStep ==
    ASSUME Skew + Stall <= Slack, TypeOK, UseInv, NEW r \in Requests, Remember(r)
    PROVE  UseInv'
<1> USE ConstantTypes DEF UseInv
<1> DEFINE q == req[r]
           kept == Kept(q.at)
           new == [nonce |-> q.proof.nonce, exp |-> RetainedUntil(q.at)]
<1>1. q.pc \in Live /\ q.pc = "timed" /\ Tracked(q)
  BY DEF Remember, Live, RequestsInv
<1>2. q \in Request /\ q.proof.ts \in Int /\ q.at \in Nat /\ q.proof.nonce \in Nonces
  BY <1>1, LiveRequest
<1>3. now \in Nat /\ life \in Nat /\ \A e \in seen : e.exp \in Int
  BY DEF TypeOK
<1>4. q.at <= now /\ now <= q.at + Stall /\ q.life = life /\ q.proof \in proofs
  BY <1>1 DEF Tracked
<1>5. UNCHANGED <<now, life, proofs>>
  BY DEF Remember
<1>6. \A s \in Requests : s # r => req'[s] = req[s]
  BY DEF Remember, TypeOK
<1>7. kept \subseteq seen'
  BY DEF Remember
<1>8. ASSUME NEW s \in Requests, Spent(s), req[s].life = life
      PROVE  (\E e \in kept : e.nonce = req[s].proof.nonce
                              /\ e.exp >= req[s].proof.ts + MaxAge + Stall)
             \/ TooLate(req[s].proof)
  <2>1. req[s].proof.ts \in Int
    BY <1>8, LiveRequest DEF Spent, Live
  <2>2. CASE ~TooLate(req[s].proof)
    <3>1. PICK e \in seen : /\ e.nonce = req[s].proof.nonce
                            /\ e.exp >= req[s].proof.ts + MaxAge + Stall
      BY <1>8, <2>2 DEF SpentInv, Remembered
    <3>2. now <= req[s].proof.ts + MaxAge + Stall
      BY <1>3, <2>1, <2>2 DEF TooLate
    <3>3. e.exp >= q.at
      BY <1>2, <1>3, <1>4, <2>1, <3>1, <3>2
    <3> QED BY <3>1, <3>3 DEF Kept
  <2> QED BY <2>2
<1>9. ProofsInv'
  BY <1>5 DEF ProofsInv
<1>10. RequestsInv'
  <2>1. req'[r].pc \in Live => Tracked(req[r])'
    BY <1>1, <1>2, <1>5 DEF Remember, TypeOK, Tracked, Live, Refused, Request
  <2> QED BY <1>5, <1>6, <2>1 DEF RequestsInv, Tracked
<1>11. CASE \A e \in kept : e.nonce # q.proof.nonce
  <2>1. req' = [req EXCEPT ![r].pc = "fresh"] /\ seen' = kept \cup {new}
    BY <1>11 DEF Remember
  <2>2. req'[r].proof = q.proof /\ req'[r].life = q.life
    BY <2>1, <1>2 DEF TypeOK, Request
  <2>3. ~TooLate(q.proof)
    BY <1>1, <1>2, <1>3, <1>4 DEF TooLate, Tracked
  <2>4. \A s \in Requests : s # r /\ Spent(s) /\ req[s].life = life
                            => req[s].proof # q.proof
    BY <1>8, <1>11, <2>3
  <2>5. SpentOnce'
    BY <1>4, <1>5, <1>6, <2>2, <2>4 DEF SpentOnce, Spent
  <2>6. Remembered(q.proof)'
    <3>1. new.exp >= q.proof.ts + MaxAge + Stall
      BY <1>1, <1>2 DEF Tracked, RetainedUntil
    <3> QED BY <1>5, <2>1, <2>2, <3>1 DEF Remembered
  <2>7. SpentInv'
    BY <1>5, <1>6, <1>7, <1>8, <2>2, <2>6 DEF SpentInv, Spent, Remembered, TooLate
  <2> QED BY <1>9, <1>10, <2>5, <2>7
<1>12. CASE \E e \in kept : e.nonce = q.proof.nonce
  <2>1. ~Spent(r)'
    BY <1>12 DEF Remember, TypeOK, Spent, Refused
  <2>2. SpentInv'
    BY <1>5, <1>6, <1>7, <1>8, <2>1 DEF SpentInv, Spent, Remembered, TooLate
  <2>3. SpentOnce'
    BY <1>6, <2>1 DEF SpentOnce, Spent
  <2> QED BY <1>9, <1>10, <2>2, <2>3
<1> QED BY <1>11, <1>12

LEMMA CheckDeviceStep ==
    ASSUME TypeOK, UseInv, NEW r \in Requests, CheckDevice(r)
    PROVE  UseInv'
<1> USE DEF UseInv
<1>1. UNCHANGED <<now, life, seen, proofs>>
  BY DEF CheckDevice
<1>2. \A s \in Requests : s # r => req'[s] = req[s]
  BY DEF CheckDevice, TypeOK
<1>3. req[r] \in Request /\ Spent(r) /\ req[r].pc \in Live
  BY LiveRequest DEF CheckDevice, Spent, Live
<1>4. \/ req'[r] = Refused
      \/ /\ req'[r].pc = "accepted" /\ req'[r].proof = req[r].proof
         /\ req'[r].life = req[r].life /\ req'[r].at = req[r].at
  BY <1>3 DEF CheckDevice, TypeOK, Request
<1>5. ProofsInv'
  BY <1>1 DEF ProofsInv
<1>6. RequestsInv'
  BY <1>1, <1>2, <1>3, <1>4 DEF RequestsInv, Tracked, Live, Refused
<1>7. SpentInv'
  BY <1>1, <1>2, <1>3, <1>4 DEF SpentInv, Spent, Remembered, TooLate, Refused
<1>8. SpentOnce'
  BY <1>2, <1>3, <1>4 DEF SpentOnce, Spent, Refused
<1> QED BY <1>5, <1>6, <1>7, <1>8

\* A new process has spent nothing, and the old one's threads are gone.
LEMMA RestartStep ==
    ASSUME TypeOK, UseInv, Restart
    PROVE  UseInv'
<1> USE DEF UseInv
<1>1. \A s \in Requests : /\ req'[s] = Refused \/ req'[s] = req[s]
                          /\ req'[s].pc \in Live => req'[s].pc = "accepted"
  BY DEF Restart, Refused, Live
<1>2. \A s \in Requests : req'[s].pc \in Live => req'[s].life <= life /\ req[s].pc \in Live
  BY <1>1 DEF RequestsInv, Tracked, Live, Refused
<1>3. life \in Nat /\ life' = life + 1 /\ UNCHANGED <<now, proofs>>
  BY DEF TypeOK, Restart
<1>4. ProofsInv'
  BY <1>3 DEF ProofsInv
<1>5. \A s \in Requests : req'[s].pc \in Live => req'[s].life \in Nat
  BY <1>1, <1>2, LiveRequest DEF Live, Refused
<1>6. RequestsInv'
  BY <1>1, <1>2, <1>3, <1>5 DEF RequestsInv, Tracked, Live, Refused
<1>7. SpentInv'
  BY <1>2, <1>3, <1>5 DEF SpentInv, Spent, Live
<1>8. SpentOnce'
  BY <1>1 DEF SpentOnce, Spent, Refused
<1> QED BY <1>4, <1>6, <1>7, <1>8

LEMMA TickStep ==
    ASSUME TypeOK, UseInv, Tick
    PROVE  UseInv'
<1> USE ConstantTypes DEF UseInv, Tick
<1>1. now \in Nat /\ now' = now + 1 /\ UNCHANGED <<life, seen, proofs, req>>
  BY DEF TypeOK
<1>2. ProofsInv'
  BY <1>1 DEF ProofsInv, TypeOK, Proof
<1>3. RequestsInv'
  BY <1>1, LiveRequest DEF RequestsInv, Tracked, Live
<1>4. SpentInv'
  BY <1>1, LiveRequest DEF SpentInv, Spent, Remembered, TooLate, Live
<1>5. SpentOnce'
  BY <1>1 DEF SpentOnce, Spent
<1> QED BY <1>2, <1>3, <1>4, <1>5

\* UseInv is inductive relative to TypeOK.
LEMMA UseStep ==
    ASSUME Skew + Stall <= Slack, TypeOK, UseInv, [Next]_vars
    PROVE  UseInv'
<1>1. ASSUME NEW k \in Keys, Enroll(k) PROVE UseInv'
  BY <1>1, OutsideStep DEF Enroll, UseInv, ProofsInv
<1>2. ASSUME NEW s \in {"approved", "revoked"}, Decide(s) PROVE UseInv'
  BY <1>2, OutsideStep DEF Decide, UseInv, ProofsInv
<1>3. CASE UNCHANGED vars
  BY <1>3, OutsideStep DEF vars, UseInv, ProofsInv
<1> QED
  BY <1>1, <1>2, <1>3, SignStep, ArriveStep, RememberStep, CheckDeviceStep,
     RestartStep, TickStep
     DEF Next, Handle

\* Nothing has been signed, spent or received yet.
LEMMA UseInit == Init => UseInv
BY ConstantTypes
   DEF Init, UseInv, ProofsInv, RequestsInv, SpentInv, SpentOnce, Spent, Live, Idle

\* The invariant of the whole argument, for every behaviour of the Gateway whose
\* clients' clocks and threads' pauses stay within Slack.
LEMMA UseInvariant == (Skew + Stall <= Slack) => (Spec => [](TypeOK /\ UseInv))
<1> SUFFICES ASSUME Skew + Stall <= Slack PROVE Spec => [](TypeOK /\ UseInv)
  OBVIOUS
<1>1. TypeOK /\ UseInv /\ [Next]_vars => UseInv'
  BY UseStep
<1> QED BY <1>1, UseInit, TypeCorrect, PTL DEF Spec

\* One Gateway process accepts a proof at most once, whatever the clients replay
\* and however the threads interleave, if client clocks are ahead by at most Slack
\* less the longest pause between a thread's clock read and the cache's lock.
THEOREM SingleUse == (Skew + Stall <= Slack) => (Spec => []ProofSingleUse)
<1> SUFFICES ASSUME Skew + Stall <= Slack PROVE Spec => []ProofSingleUse
  OBVIOUS
<1>1. UseInv => ProofSingleUse
  BY DEF UseInv, SpentOnce, Spent, ProofSingleUse
<1> QED BY <1>1, UseInvariant, PTL

\* Only CheckDevice adds a use, and nothing takes one away.
LEMMA UsesStep ==
    ASSUME TypeOK, UseInv, UseInv', [Next]_vars
    PROVE  [Once!Use]_Uses
<1> USE DEF Uses, Accepted
<1>1. ASSUME NEW r \in Requests, CheckDevice(r) PROVE [Once!Use]_Uses
  <2>1. req[r] \in Request /\ req[r].pc = "fresh"
    BY <1>1, LiveRequest DEF CheckDevice, Live
  <2>2. \A s \in Requests : s # r => req'[s] = req[s]
    BY <1>1 DEF CheckDevice, TypeOK
  <2>3. CASE req'[r] = Refused
    <3>1. Accepted' = Accepted /\ r \notin Accepted
      BY <2>1, <2>2, <2>3 DEF Refused
    <3>2. Uses' = Uses
      BY <2>2, <3>1 DEF Uses
    <3> QED BY <3>2
  <2>4. CASE req'[r] = [req[r] EXCEPT !.pc = "accepted"]
    <3> DEFINE u == <<r, <<req[r].life, req[r].proof>>>>
    <3>1. req'[r].pc = "accepted" /\ req'[r].life = req[r].life /\ req'[r].proof = req[r].proof
      BY <2>1, <2>4 DEF Request
    <3>2. Accepted' = Accepted \cup {r} /\ r \notin Accepted
      BY <2>1, <2>2, <3>1
    <3>3. Uses' = Uses \cup {u}
      BY <2>2, <3>1, <3>2
    <3>4. ASSUME NEW v \in Uses PROVE v[2] # u[2]
      <4>1. PICK s \in Accepted : v = <<s, <<req[s].life, req[s].proof>>>>
        BY <3>4
      <4>2. req[s].life # req[r].life \/ req[s].proof # req[r].proof
        BY <2>1, <3>2, <4>1 DEF UseInv, SpentOnce, Spent
      <4> QED BY <4>1, <4>2
    <3> QED BY <3>3, <3>4 DEF Once!Use
  <2> QED BY <1>1, <2>3, <2>4 DEF CheckDevice, TypeOK
<1>2. ASSUME \A r \in Requests :
               /\ req'[r].pc = "accepted" <=> req[r].pc = "accepted"
               /\ req[r].pc = "accepted" => req'[r] = req[r]
      PROVE  [Once!Use]_Uses
  <2>1. Accepted' = Accepted
    BY <1>2
  <2>2. Uses' = Uses
    BY <1>2, <2>1 DEF Uses
  <2> QED BY <2>2
<1>3. ASSUME NEW r \in Requests, NEW t \in Tokens, NEW p \in proofs \cup {NoProof},
             Arrive(r, t, p)
      PROVE  [Once!Use]_Uses
  BY <1>2, <1>3 DEF Arrive, TypeOK, Idle, Refused
<1>4. ASSUME NEW r \in Requests, Remember(r) PROVE [Once!Use]_Uses
  <2>1. req[r] \in Request
    BY <1>4, LiveRequest DEF Remember, Live
  <2> QED BY <1>2, <1>4, <2>1 DEF Remember, TypeOK, Refused, Request
<1>5. CASE Restart
  BY <1>2, <1>5 DEF Restart, Refused
<1>6. CASE UNCHANGED req
  BY <1>2, <1>6
<1> QED
  BY <1>1, <1>3, <1>4, <1>5, <1>6 DEF Next, Handle, vars, Sign, Enroll, Decide, Tick

\* The Gateway implements the abstract promise: each acceptance is a use of a proof
\* that this process has not let through before, and every other step is a stutter.
THEOREM ImplementsSingleUse == (Skew + Stall <= Slack) => (Spec => Once!Spec)
<1> SUFFICES ASSUME Skew + Stall <= Slack PROVE Spec => Once!Spec
  OBVIOUS
<1>1. Init => Once!Init
  BY DEF Init, Once!Init, Uses, Accepted, Idle
<1> QED BY <1>1, UsesStep, UseInvariant, PTL DEF Spec, Once!Spec

(***************************************************************************)
(* Replays under any clock.  Nothing is assumed of the clients' clocks     *)
(* here, only that no thread pauses for longer than Slack.                 *)
(***************************************************************************)

\* Whatever the clients' clocks say, one Gateway process lets one proof through at most
\* twice: a wrong clock buys one replay, and not the "arbitrarily long replay window"
\* that verify_proof refuses proofs from the future for.
AcceptedAtMostTwice ==
    \A r, s, t \in Accepted :
        /\ r # s /\ s # t /\ r # t
        /\ req[r].life = req[s].life /\ req[s].life = req[t].life
        => ~(req[r].proof = req[s].proof /\ req[s].proof = req[t].proof)

\* What the age check and the bound on the pause leave true of a request, with
\* the proof's date on either side of the reading.
InWindow(q) ==
    /\ q.proof.ts - MaxAge <= q.at /\ q.at <= q.proof.ts + MaxAge
    /\ q.life <= life
    /\ q.pc = "timed" => q.life = life /\ q.at <= now /\ now <= q.at + Stall

WindowInv == \A r \in Requests : req[r].pc \in Live => InWindow(req[r])

\* The entry that q made, or one that outlasts it, is in the cache until it expires.
Held(q) ==
    \/ \E e \in seen : e.nonce = q.proof.nonce /\ e.exp >= RetainedUntil(q.at)
    \/ now > RetainedUntil(q.at)

HeldInv == \A r \in Requests : Spent(r) /\ req[r].life = life => Held(req[r])

\* A proof that is spent twice is spent again only after more than MaxAge.
Apart(q1, q2) == q1.at > q2.at + MaxAge \/ q2.at > q1.at + MaxAge

ApartInv ==
    \A r, s \in Requests :
        /\ r # s /\ Spent(r) /\ Spent(s)
        /\ req[r].life = req[s].life /\ req[r].proof = req[s].proof
        => Apart(req[r], req[s])

ReplayInv == WindowInv /\ HeldInv /\ ApartInv

\* A step that leaves the clock, the process, the cache and the threads alone.
LEMMA ReplayOutside ==
    ASSUME ReplayInv, UNCHANGED <<now, life, seen, req>>
    PROVE  ReplayInv'
BY DEF ReplayInv, WindowInv, InWindow, HeldInv, Held, ApartInv, Apart, Spent

LEMMA ReplayArrive ==
    ASSUME TypeOK, ReplayInv, NEW r \in Requests, NEW t \in Tokens,
           NEW p \in proofs \cup {NoProof}, Arrive(r, t, p)
    PROVE  ReplayInv'
<1> USE ConstantTypes DEF ReplayInv, TypeOK
<1> DEFINE q == [pc |-> "timed", token |-> t, proof |-> p, at |-> now, life |-> life]
<1>1. UNCHANGED <<now, life, seen>> /\ \A s \in Requests : s # r => req'[s] = req[s]
  BY DEF Arrive
<1>2. req'[r] = Refused \/ (p \in proofs /\ Fresh(p) /\ req'[r] = q)
  BY DEF Arrive
<1>3. ~Spent(r)'
  BY <1>2 DEF Spent, Refused
<1>4. req'[r].pc \in Live => InWindow(req[r])'
  <2> SUFFICES ASSUME p \in proofs, Fresh(p), req'[r] = q PROVE InWindow(req[r])'
    BY <1>2 DEF Live, Refused
  <2>1. p.ts \in Int
    BY DEF Proof
  <2>2. p.ts - MaxAge <= now /\ now <= p.ts + MaxAge
    BY <2>1 DEF Fresh
  <2> QED BY <1>1, <2>2 DEF InWindow
<1>5. WindowInv'
  BY <1>1, <1>4 DEF WindowInv, InWindow
<1>6. HeldInv'
  BY <1>1, <1>3 DEF HeldInv, Spent, Held
<1>7. ApartInv'
  BY <1>1, <1>3 DEF ApartInv, Apart, Spent
<1> QED BY <1>5, <1>6, <1>7

\* Whoever spends a proof again finds that the entry of its last use has run out,
\* and a thread's reading is at most Slack behind the clock.
LEMMA ReplayRemember ==
    ASSUME Stall <= Slack, TypeOK, ReplayInv, NEW r \in Requests, Remember(r)
    PROVE  ReplayInv'
<1> USE ConstantTypes DEF ReplayInv
<1> DEFINE q == req[r]
           kept == Kept(q.at)
           new == [nonce |-> q.proof.nonce, exp |-> RetainedUntil(q.at)]
<1>1. q.pc = "timed" /\ InWindow(q) /\ q \in Request /\ q.at \in Nat
  BY LiveRequest DEF Remember, Live, WindowInv
<1>2. now \in Nat /\ life \in Nat /\ \A e \in seen : e.exp \in Int
  BY DEF TypeOK
<1>3. q.at <= now /\ now <= q.at + Stall /\ q.life = life
  BY <1>1 DEF InWindow
<1>4. UNCHANGED <<now, life>> /\ kept \subseteq seen'
  BY DEF Remember
<1>5. \A s \in Requests : s # r => req'[s] = req[s]
  BY DEF Remember, TypeOK
<1>6. \A s \in Requests : Spent(s) => req[s].at \in Nat /\ RetainedUntil(req[s].at) \in Int
  BY LiveRequest DEF Spent, Live, RetainedUntil
<1>7. ASSUME NEW s \in Requests, Spent(s), req[s].life = life
      PROVE  \/ \E e \in kept : e.nonce = req[s].proof.nonce
                                /\ e.exp >= RetainedUntil(req[s].at)
             \/ now > RetainedUntil(req[s].at)
  <2>1. CASE ~(now > RetainedUntil(req[s].at))
    <3>1. PICK e \in seen : /\ e.nonce = req[s].proof.nonce
                            /\ e.exp >= RetainedUntil(req[s].at)
      BY <1>7, <2>1 DEF HeldInv, Held
    <3>2. CASE e \in kept
      BY <3>1, <3>2
    <3>3. CASE e \notin kept
      BY <1>1, <1>2, <1>3, <1>6, <1>7, <2>1, <3>1, <3>3 DEF Kept
    <3> QED BY <3>2, <3>3
  <2> QED BY <2>1
<1>8. \/ req'[r] = Refused
      \/ /\ req'[r].pc = "fresh" /\ req'[r].at = q.at
         /\ req'[r].proof = q.proof /\ req'[r].life = q.life
  BY <1>1 DEF Remember, TypeOK, Request
<1>9. WindowInv'
  <2>1. req'[r].pc \in Live => InWindow(req[r])'
    BY <1>1, <1>4, <1>8 DEF InWindow, Live, Refused
  <2> QED BY <1>4, <1>5, <2>1 DEF WindowInv, InWindow
<1>10. \A s \in Requests : s # r /\ Spent(s) /\ req[s].life = life => Held(req[s])'
  BY <1>4, <1>5, <1>7 DEF Held, RetainedUntil
<1>11. CASE \A e \in kept : e.nonce # q.proof.nonce
  <2>1. /\ new \in seen' /\ req'[r].pc = "fresh" /\ req'[r].at = q.at
        /\ req'[r].proof = q.proof /\ req'[r].life = q.life
    BY <1>1, <1>8, <1>11 DEF Remember, TypeOK, Refused
  <2>2. RetainedUntil(q.at) \in Int
    BY <1>1 DEF RetainedUntil
  <2>3. Held(req[r])'
    BY <2>1, <2>2 DEF Held, RetainedUntil
  <2>4. HeldInv'
    BY <1>4, <1>5, <1>10, <2>3 DEF HeldInv, Spent
  <2>5. ASSUME NEW s \in Requests, s # r, Spent(s), req[s].life = life,
               req[s].proof = q.proof
        PROVE  q.at > req[s].at + MaxAge
    <3>1. now > RetainedUntil(req[s].at)
      BY <1>7, <1>11, <2>5
    <3>2. now <= q.at + Slack
      BY <1>1, <1>2, <1>3
    <3> QED BY <1>1, <1>2, <1>6, <2>5, <3>1, <3>2 DEF RetainedUntil
  <2>6. ApartInv'
    BY <1>3, <1>5, <2>1, <2>5 DEF ApartInv, Apart, Spent
  <2> QED BY <1>9, <2>4, <2>6
<1>12. CASE ~\A e \in kept : e.nonce # q.proof.nonce
  <2>1. ~Spent(r)'
    BY <1>12 DEF Remember, TypeOK, Spent, Refused
  <2>2. HeldInv'
    BY <1>4, <1>5, <1>10, <2>1 DEF HeldInv, Spent
  <2>3. ApartInv'
    BY <1>5, <2>1 DEF ApartInv, Apart, Spent
  <2> QED BY <1>9, <2>2, <2>3
<1> QED BY <1>11, <1>12

LEMMA ReplayCheckDevice ==
    ASSUME TypeOK, ReplayInv, NEW r \in Requests, CheckDevice(r)
    PROVE  ReplayInv'
<1> USE DEF ReplayInv
<1>1. UNCHANGED <<now, life, seen>>
  BY DEF CheckDevice
<1>2. \A s \in Requests : s # r => req'[s] = req[s]
  BY DEF CheckDevice, TypeOK
<1>3. req[r] \in Request /\ Spent(r) /\ req[r].pc \in Live
  BY LiveRequest DEF CheckDevice, Spent, Live
<1>4. \/ req'[r] = Refused
      \/ /\ req'[r].pc = "accepted" /\ req'[r].proof = req[r].proof
         /\ req'[r].life = req[r].life /\ req'[r].at = req[r].at
  BY <1>3 DEF CheckDevice, TypeOK, Request
<1>5. \A s \in Requests : /\ req'[s].pc \in Live => req[s].pc \in Live
                          /\ Spent(s)' => Spent(s)
                          /\ req'[s].pc = "timed" => req[s].pc = "timed"
                          /\ req'[s].pc \in Live =>
                               /\ req'[s].proof = req[s].proof
                               /\ req'[s].life = req[s].life /\ req'[s].at = req[s].at
  BY <1>2, <1>3, <1>4 DEF Spent, Live, Refused
<1>6. \A s \in Requests : Spent(s)' => req'[s].pc \in Live
  BY DEF Spent, Live
<1>7. WindowInv'
  BY <1>1, <1>5 DEF WindowInv, InWindow
<1>8. HeldInv'
  BY <1>1, <1>5, <1>6 DEF HeldInv, Held
<1>9. ApartInv'
  BY <1>5, <1>6 DEF ApartInv, Apart
<1> QED BY <1>7, <1>8, <1>9

\* The old process's threads are gone and the new one has spent nothing.
LEMMA ReplayRestart ==
    ASSUME TypeOK, ReplayInv, Restart
    PROVE  ReplayInv'
<1> USE DEF ReplayInv
<1>1. \A s \in Requests : req'[s].pc \in Live => req'[s] = req[s] /\ req[s].pc = "accepted"
  BY DEF Restart, Refused, Live
<1>2. life \in Nat /\ life' = life + 1 /\ UNCHANGED now
  BY DEF TypeOK, Restart
<1>3. \A s \in Requests : req'[s].pc \in Live => req'[s].life \in Nat /\ req'[s].life <= life
  BY <1>1, LiveRequest DEF WindowInv, InWindow, Live
<1>4. \A s \in Requests : Spent(s)' => req'[s].pc \in Live
  BY DEF Spent, Live
<1>5. WindowInv'
  BY <1>1, <1>2, <1>3 DEF WindowInv, InWindow, Live
<1>6. HeldInv'
  BY <1>2, <1>3, <1>4 DEF HeldInv
<1>7. ApartInv'
  BY <1>1, <1>4 DEF ApartInv, Apart, Spent
<1> QED BY <1>5, <1>6, <1>7

LEMMA ReplayTick ==
    ASSUME TypeOK, ReplayInv, Tick
    PROVE  ReplayInv'
<1> USE ConstantTypes DEF ReplayInv
<1>1. now \in Nat /\ now' = now + 1 /\ UNCHANGED <<life, seen, req>>
  BY DEF Tick, TypeOK
<1>2. \A s \in Requests : req[s].pc = "timed" => now - req[s].at < Stall
  BY DEF Tick
<1>3. \A s \in Requests : req[s].pc \in Live =>
          req[s].at \in Nat /\ RetainedUntil(req[s].at) \in Int
  BY LiveRequest DEF RetainedUntil
<1>4. ASSUME NEW s \in Requests, req[s].pc \in Live PROVE InWindow(req[s])'
  <2>1. InWindow(req[s])
    BY <1>4 DEF WindowInv
  <2> QED BY <1>1, <1>2, <1>3, <1>4, <2>1 DEF InWindow
<1>5. WindowInv'
  BY <1>1, <1>4 DEF WindowInv
<1>6. ASSUME NEW s \in Requests, Spent(s), Held(req[s]) PROVE Held(req[s])'
  <2>1. now > RetainedUntil(req[s].at) => now' > RetainedUntil(req[s].at)
    BY <1>1, <1>3, <1>6 DEF Spent, Live
  <2> QED BY <1>1, <1>6, <2>1 DEF Held, RetainedUntil
<1>7. HeldInv'
  BY <1>1, <1>6 DEF HeldInv, Spent
<1>8. ApartInv'
  BY <1>1 DEF ApartInv, Apart, Spent
<1> QED BY <1>5, <1>7, <1>8

\* ReplayInv is inductive relative to TypeOK.
LEMMA ReplayStep ==
    ASSUME Stall <= Slack, TypeOK, ReplayInv, [Next]_vars
    PROVE  ReplayInv'
<1>1. ASSUME UNCHANGED <<now, life, seen, req>> PROVE ReplayInv'
  BY <1>1, ReplayOutside
<1> QED
  BY <1>1, ReplayArrive, ReplayRemember, ReplayCheckDevice, ReplayRestart, ReplayTick
     DEF Next, Handle, vars, Sign, Enroll, Decide

\* Two uses of a proof are more than MaxAge apart and both within MaxAge of its date,
\* so there is no room for a third.
LEMMA NoRoomForThird ==
    ASSUME TypeOK, WindowInv, ApartInv
    PROVE  AcceptedAtMostTwice
<1> SUFFICES ASSUME NEW r \in Accepted, NEW s \in Accepted, NEW t \in Accepted,
                    r # s, s # t, r # t,
                    req[r].life = req[s].life, req[s].life = req[t].life,
                    req[r].proof = req[s].proof, req[s].proof = req[t].proof
             PROVE  FALSE
  BY DEF AcceptedAtMostTwice
<1> DEFINE ts == req[r].proof.ts
<1>1. \A u \in {r, s, t} : u \in Requests /\ Spent(u) /\ req[u].pc \in Live
  BY DEF Accepted, Spent, Live
<1>2. ts \in Int /\ \A u \in {r, s, t} : req[u].at \in Nat
  BY <1>1, LiveRequest
<1>3. \A u \in {r, s, t} : ts - MaxAge <= req[u].at /\ req[u].at <= ts + MaxAge
  BY <1>1 DEF WindowInv, InWindow
<1>4. Apart(req[r], req[s]) /\ Apart(req[s], req[t]) /\ Apart(req[r], req[t])
  BY <1>1 DEF ApartInv
<1> QED BY <1>2, <1>3, <1>4, ConstantTypes DEF Apart

\* Whatever the clients' clocks say, one Gateway process accepts a proof at most twice,
\* if no thread pauses between its clock reading and the lock for longer than Slack.
THEOREM ReplayedAtMostOnce == (Stall <= Slack) => (Spec => []AcceptedAtMostTwice)
<1> SUFFICES ASSUME Stall <= Slack PROVE Spec => []AcceptedAtMostTwice
  OBVIOUS
<1>1. Init => ReplayInv
  BY DEF Init, ReplayInv, WindowInv, HeldInv, ApartInv, Spent, Live, Idle
<1>2. TypeOK /\ ReplayInv /\ [Next]_vars => ReplayInv'
  BY ReplayStep
<1>3. TypeOK /\ ReplayInv => AcceptedAtMostTwice
  BY NoRoomForThird DEF ReplayInv
<1> QED BY <1>1, <1>2, <1>3, TypeCorrect, PTL DEF Spec

(***************************************************************************)
(* What the cache forgets, and the key of an accepted proof.               *)
(***************************************************************************)

\* Every entry belongs to a signed proof and outlives its window and any pause.
CacheInv ==
    \A e \in seen : \E p \in proofs :
        p.nonce = e.nonce /\ e.exp >= p.ts + MaxAge + Stall

\* Only Remember adds an entry, for a proof it has just checked the age of.
LEMMA CacheStep ==
    ASSUME Skew + Stall <= Slack, TypeOK, UseInv, CacheInv, [Next]_vars
    PROVE  CacheInv'
<1> USE ConstantTypes DEF CacheInv
<1>1. ASSUME NEW r \in Requests, Remember(r) PROVE CacheInv'
  <2>1. req[r].pc \in Live /\ Tracked(req[r])
    BY <1>1 DEF Remember, Live, UseInv, RequestsInv
  <2>2. req[r].proof.ts \in Int /\ req[r].at \in Nat
    BY <2>1, LiveRequest
  <2>3. /\ req[r].proof \in proofs
        /\ RetainedUntil(req[r].at) >= req[r].proof.ts + MaxAge + Stall
    BY <2>1, <2>2 DEF Tracked, RetainedUntil
  <2> QED BY <1>1, <2>3 DEF Remember, Kept
<1>2. CASE seen' \in {seen, {}} /\ proofs \subseteq proofs'
  BY <1>2
<1> QED
  BY <1>1, <1>2 DEF Next, Handle, vars, Sign, Enroll, Decide, Arrive, CheckDevice,
                    Restart, Tick

\* A nonce is dropped from the cache only when no thread, not even one asleep
\* between its clock read and the lock, can still take a proof that carries it.
THEOREM ForgetsOnlyUseless == (Skew + Stall <= Slack) => (Spec => ForgottenOnlyWhenUseless)
<1> SUFFICES ASSUME Skew + Stall <= Slack PROVE Spec => ForgottenOnlyWhenUseless
  OBVIOUS
<1> DEFINE Step == \A e \in seen \ seen', p \in proofs :
                     life' = life /\ p.nonce = e.nonce => ~StillUsable(p)'
<1>1. Init => CacheInv
  BY DEF Init, CacheInv
<1>2. TypeOK /\ UseInv /\ CacheInv /\ [Next]_vars => CacheInv'
  BY CacheStep
<1>3. TypeOK /\ UseInv /\ CacheInv /\ [Next]_vars => [Step]_vars
  <2> SUFFICES ASSUME TypeOK, UseInv, CacheInv, [Next]_vars,
                      NEW e \in seen \ seen', NEW p \in proofs,
                      life' = life, p.nonce = e.nonce
               PROVE  ~StillUsable(p)'
    OBVIOUS
  <2> USE ConstantTypes
  <2>0. life \in Nat
    BY DEF TypeOK
  <2>1. PICK r \in Requests : Remember(r)
    BY <2>0 DEF Next, Handle, vars, Sign, Enroll, Decide, Arrive, CheckDevice,
                Restart, Tick
  <2>2. req[r].pc = "timed" /\ e \notin Kept(req[r].at) /\ now' = now
    BY <2>1 DEF Remember
  <2>3. req[r].at \in Nat /\ req[r].at <= now
    BY <2>2, LiveRequest DEF Live, UseInv, RequestsInv, Tracked
  <2>4. now \in Nat /\ e.exp \in Int /\ p.ts \in Int
    BY DEF TypeOK, Proof
  <2>5. e.exp >= p.ts + MaxAge + Stall
    BY DEF CacheInv, UseInv, ProofsInv
  <2>6. p.ts + MaxAge + Stall < now
    BY <2>2, <2>3, <2>4, <2>5 DEF Kept
  <2>7. ASSUME NEW s \in Requests, req'[s].pc = "timed", req'[s].proof = p PROVE FALSE
    <3>1. req[s] = req'[s] /\ req[s].pc \in Live
      BY <2>1, <2>2, <2>7 DEF Remember, TypeOK, Refused, Live, Request, Idle
    <3>2. req[s].at \in Nat /\ req[s].at <= p.ts + MaxAge /\ now <= req[s].at + Stall
      BY <2>7, <3>1, LiveRequest DEF UseInv, RequestsInv, Tracked
    <3> QED BY <2>4, <2>6, <3>2
  <2> QED BY <2>2, <2>4, <2>6, <2>7 DEF StillUsable
<1> QED BY <1>1, <1>2, <1>3, UseInvariant, PTL DEF Spec, ForgottenOnlyWhenUseless

\* The request's proof is for its token from the start; the key is checked last.
KeyInv ==
    \A r \in Requests :
        /\ req[r].pc \in Live => req[r].proof.token = req[r].token
        /\ req[r].pc = "accepted" => req[r].proof.key = Pinned[req[r].token]

\* A request is accepted only with a proof for its own token, signed with the key
\* that token was issued to, through every re-enrolment and approval.
THEOREM PinnedKey == Spec => []AcceptedKeyIsPinned
<1>1. Init => KeyInv
  <2> SUFFICES ASSUME Init, NEW r \in Requests PROVE req[r].pc \notin Live
    BY DEF KeyInv, Live
  <2>1. req[r] = Idle
    BY DEF Init
  <2> QED BY <2>1 DEF Idle, Live
<1>2. ASSUME TypeOK, KeyInv, [Next]_vars PROVE KeyInv'
  <2> USE <1>2 DEF KeyInv
  <2>1. ASSUME NEW r \in Requests, NEW t \in Tokens, NEW p \in proofs \cup {NoProof},
               Arrive(r, t, p)
        PROVE  KeyInv'
    BY <2>1 DEF Arrive, TypeOK, Live, Refused
  <2>2. ASSUME NEW r \in Requests, Remember(r) \/ CheckDevice(r) PROVE KeyInv'
    <3>1. req[r] \in Request /\ req[r].pc \in {"timed", "fresh"}
      BY <2>2, LiveRequest DEF Remember, CheckDevice, Live
    <3>2. \A s \in Requests : s # r => req'[s] = req[s]
      BY <2>2 DEF Remember, CheckDevice, TypeOK
    <3>3. \/ req'[r] = Refused
          \/ /\ req'[r].proof = req[r].proof /\ req'[r].token = req[r].token
             /\ \/ req'[r].pc = "fresh"
                \/ req'[r].pc = "accepted" /\ DeviceProves(req[r])
      BY <2>2, <3>1 DEF Remember, CheckDevice, TypeOK, Request
    <3> QED BY <3>1, <3>2, <3>3 DEF Live, Refused, DeviceProves
  <2>3. CASE Restart
    BY <2>3 DEF Restart, Live, Refused
  <2>4. CASE UNCHANGED req
    BY <2>4
  <2> QED
    BY <1>2, <2>1, <2>2, <2>3, <2>4 DEF Next, Handle, vars, Sign, Enroll, Decide, Tick
<1>3. KeyInv => AcceptedKeyIsPinned
  BY DEF KeyInv, AcceptedKeyIsPinned, Live
<1> QED BY <1>1, <1>2, <1>3, TypeCorrect, PTL DEF Spec
=============================================================================
