---------------------------- MODULE HostProofs ----------------------------
(***************************************************************************)
(* What the processes of a host rest on, in three parts: the key files     *)
(* that they share (KeyMaterial), the way each of them accepts connections *)
(* and stops (ServiceLifecycle), and the certificates that they show each  *)
(* other (Certificates).                                                   *)
(*                                                                         *)
(* The invariants of the key files and of the certificates say what is so  *)
(* unless files have been mixed up (tangled, mixedUp).                     *)
(***************************************************************************)
EXTENDS KeyMaterial, ServiceLifecycle, Certificates, FiniteSetTheorems, SequenceTheorems, TLAPS

LEMMA Assumed ==
    /\ PerHost \in BOOLEAN
    /\ Signers \cap Verifiers = {} /\ Signers \cap Provisions = {}
    /\ Verifiers \cap Provisions = {}
    /\ Missing \notin Keys /\ Empty \notin Keys /\ Missing # Empty
BY KeyMaterialAssumption DEF KeyMaterialAssumption, Missing, Empty

\* Every thread has its files on a host, and "idp" is one.
LEMMA HostsOfThreads ==
    /\ "idp" \in Hosts /\ \A t \in Threads : Host(t) \in Hosts
    /\ ~PerHost => Hosts = {"idp"} /\ \A t \in Threads : Host(t) = "idp"
BY Assumed DEF Hosts, Host

\* What a thread that has begun is.
LEMMA Begun ==
    ASSUME TypeOK, NEW t \in Threads, worker[t] # Idle
    PROVE  worker[t] \in WorkerState
BY DEF TypeOK

LEMMA NotBegun ==
    ASSUME TypeOK, NEW t \in Threads
    PROVE  /\ worker[t] = Idle <=> worker[t].pc = "idle"
           /\ worker[t].pc \in Making => worker[t] # Idle
BY DEF TypeOK, WorkerState, Idle, Making

LEMMA BeginsAt ==
    ASSUME TypeOK, NEW t \in Threads, NEW pc \in {"making", "ready"}, NEW key \in File,
           Begin(t, pc, key)
    PROVE  /\ worker[t] = Idle /\ worker'[t] \in WorkerState
           /\ worker'[t].pc = pc /\ worker'[t].key = key
           /\ worker'[t].seen = rotation /\ worker'[t].token \in Tokens(t)
<1>1. PICK token \in Tokens(t) :
          worker' = [worker EXCEPT ![t] =
                       [pc |-> pc, key |-> key, token |-> token, seen |-> rotation]]
  BY DEF Begin
<1>2. token \in File
  <2>1. \A s \in Signers : worker[s].pc = "done" => worker[s].key \in File
    <3> SUFFICES ASSUME NEW s \in Signers, worker[s].pc = "done" PROVE worker[s].key \in File
      OBVIOUS
    <3>1. s \in Threads /\ worker[s] \in WorkerState \cup {Idle} /\ worker[s] # Idle
      BY DEF TypeOK, Threads, Idle
    <3> QED BY <3>1 DEF WorkerState
  <2> QED BY <1>1, <2>1 DEF Tokens, File
<1> QED BY <1>1, <1>2 DEF Begin, TypeOK, WorkerState, Making

\* The steps of a thread change no other thread and not the rotation.
LEMMA OneWorks ==
    ASSUME TypeOK, NEW t \in Threads, Work(t)
    PROVE  /\ \A u \in Threads : u # t => worker'[u] = worker[u]
           /\ rotation' = rotation /\ archived' = archived
           /\ tangled => tangled'
<1>1. ASSUME NEW pc, NEW key, Begin(t, pc, key)
      PROVE  \A u \in Threads : u # t => worker'[u] = worker[u]
  BY <1>1 DEF Begin, TypeOK
<1>2. ASSUME NEW from, NEW to, Moves(t, from, to)
      PROVE  \A u \in Threads : u # t => worker'[u] = worker[u]
  BY <1>2 DEF Moves, TypeOK
<1>3. ASSUME NEW pc, NEW key, Ends(t, pc, key)
      PROVE  /\ \A u \in Threads : u # t => worker'[u] = worker[u]
             /\ rotation' = rotation /\ archived' = archived /\ tangled' = tangled
  BY <1>3 DEF Ends, TypeOK
<1>4. CASE FindPair(t)
  BY <1>1, <1>4 DEF FindPair
<1>8. ASSUME NEW k \in Keys, Generate(t, k)
      PROVE  /\ \A u \in Threads : u # t => worker'[u] = worker[u]
             /\ rotation' = rotation /\ archived' = archived
             /\ tangled => tangled'
  BY <1>1, <1>8 DEF Generate
<1>5. CASE OpenPrivate(t) \/ WritePrivate(t) \/ OpenPublic(t) \/ WritePublic(t)
  BY <1>2, <1>5 DEF OpenPrivate, WritePrivate, OpenPublic, WritePublic
<1>6. CASE Fail(t)
  BY <1>6 DEF Fail, TypeOK
<1>7. CASE SignToken(t) \/ VerifyToken(t) \/ Provision(t)
  BY <1>3, <1>7 DEF SignToken, VerifyToken, Provision
<1> QED BY <1>4, <1>5, <1>6, <1>7, <1>8 DEF Work

\* What a step makes of its thread, and of the files of its host.
LEMMA Finds ==
    ASSUME TypeOK, NEW t \in Threads, FindPair(t)
    PROVE  /\ worker[t] = Idle /\ worker'[t] \in WorkerState /\ worker'[t].pc = "ready"
           /\ worker'[t].seen = rotation /\ worker'[t].token \in Tokens(t)
           /\ Complete(Host(t)) /\ UNCHANGED <<private, public, tangled>>
BY BeginsAt, Assumed DEF FindPair, File

LEMMA Generates ==
    ASSUME TypeOK, NEW t \in Threads, NEW k \in Keys, Generate(t, k)
    PROVE  /\ worker[t] = Idle /\ worker'[t] \in WorkerState /\ worker'[t].pc = "making"
           /\ worker'[t].key = k /\ k \notin Used
           /\ worker'[t].seen = rotation /\ worker'[t].token \in Tokens(t)
           /\ ~Complete(Host(t)) /\ UNCHANGED <<private, public>>
           /\ tangled' = (tangled \/ Overlaps(Host(t)))
BY BeginsAt DEF Generate, File, Making

LEMMA Advances ==
    ASSUME TypeOK, NEW t \in Threads, NEW from \in Making,
           NEW to \in Making \cup {"ready"}, Moves(t, from, to)
    PROVE  /\ worker[t].pc = from /\ worker[t] \in WorkerState
           /\ worker'[t] = [worker[t] EXCEPT !.pc = to] /\ worker'[t] \in WorkerState
           /\ worker'[t].pc = to /\ worker'[t].key = worker[t].key
           /\ worker'[t].seen = worker[t].seen /\ worker'[t].token = worker[t].token
BY NotBegun DEF Moves, TypeOK, WorkerState, Making

LEMMA Fails ==
    ASSUME TypeOK, NEW t \in Threads, Fail(t)
    PROVE  /\ worker[t].pc \in Making /\ worker[t] \in WorkerState
           /\ worker'[t] \in WorkerState
           /\ worker'[t].pc = "failed" /\ worker'[t].key = worker[t].key
           /\ worker'[t].seen = worker[t].seen /\ worker'[t].token = worker[t].token
           /\ UNCHANGED <<private, public>> /\ tangled' = (tangled \/ LeavesBoth(t))
BY NotBegun DEF Fail, TypeOK, WorkerState, Making

LEMMA EndsAs ==
    ASSUME TypeOK, NEW t \in Threads, NEW pc \in {"done", "accepted", "rejected", "failed"},
           NEW key \in File, Ends(t, pc, key)
    PROVE  /\ worker[t].pc = "ready" /\ worker[t] \in WorkerState
           /\ worker'[t] \in WorkerState
           /\ worker'[t].pc = pc /\ worker'[t].key = key
           /\ worker'[t].seen = worker[t].seen /\ worker'[t].token = worker[t].token
           /\ UNCHANGED <<private, public, tangled>>
<1>1. worker[t].pc = "ready" /\ worker[t] \in WorkerState
  BY NotBegun DEF Ends, TypeOK, Idle
<1>2. worker'[t] = [worker[t] EXCEPT !.pc = pc, !.key = key]
  BY DEF Ends, TypeOK
<1>3. worker'[t] \in WorkerState /\ worker'[t].pc = pc /\ worker'[t].key = key
  BY <1>1, <1>2 DEF WorkerState
<1>4. worker'[t].seen = worker[t].seen /\ worker'[t].token = worker[t].token
  BY <1>1, <1>2 DEF WorkerState
<1> QED BY <1>1, <1>3, <1>4 DEF Ends

\* The last step of a thread.
LEMMA Using ==
    ASSUME TypeOK, NEW t \in Threads, SignToken(t) \/ VerifyToken(t) \/ Provision(t)
    PROVE  /\ worker[t].pc = "ready" /\ worker[t] \in WorkerState
           /\ worker'[t] \in WorkerState
           /\ worker'[t].pc \in {"done", "accepted", "rejected", "failed"}
           /\ worker'[t].seen = worker[t].seen /\ worker'[t].token = worker[t].token
           /\ UNCHANGED <<private, public, tangled>>
<1>1. private[Host(t)] \in File /\ public[Host(t)] \in File /\ Missing \in File
  BY HostsOfThreads DEF TypeOK, File
<1>2. CASE SignToken(t)
  BY <1>1, <1>2, EndsAs DEF SignToken
<1>3. CASE VerifyToken(t)
  BY <1>1, <1>3, EndsAs DEF VerifyToken
<1>4. CASE Provision(t)
  BY <1>1, <1>4, EndsAs DEF Provision
<1> QED BY <1>2, <1>3, <1>4

\* The steps that make a pair, each with what it does to the files.
LEMMA Makes ==
    ASSUME TypeOK, NEW t \in Threads,
           OpenPrivate(t) \/ WritePrivate(t) \/ OpenPublic(t) \/ WritePublic(t)
    PROVE  /\ worker[t].pc \in Making /\ worker[t] \in WorkerState
           /\ worker'[t].pc \in {"privateOpen", "half", "publicOpen", "ready"}
           /\ worker'[t] \in WorkerState /\ worker'[t].key = worker[t].key
           /\ worker'[t].seen = worker[t].seen /\ worker'[t].token = worker[t].token
           /\ tangled' = tangled
           /\ \A h \in Hosts : h # Host(t) => private'[h] = private[h] /\ public'[h] = public[h]
           /\ \/ /\ worker[t].pc = "making" /\ worker'[t].pc = "privateOpen"
                 /\ private'[Host(t)] = Empty /\ public' = public
              \/ /\ worker[t].pc = "privateOpen" /\ worker'[t].pc = "half"
                 /\ private'[Host(t)] = worker[t].key /\ public' = public
              \/ /\ worker[t].pc = "half" /\ worker'[t].pc = "publicOpen"
                 /\ public'[Host(t)] = Empty /\ private' = private
              \/ /\ worker[t].pc = "publicOpen" /\ worker'[t].pc = "ready"
                 /\ public'[Host(t)] = worker[t].key /\ private' = private
<1> USE HostsOfThreads
<1>1. CASE OpenPrivate(t)
  BY <1>1, Advances DEF OpenPrivate, Making, TypeOK
<1>2. CASE WritePrivate(t)
  BY <1>2, Advances DEF WritePrivate, Making, TypeOK
<1>3. CASE OpenPublic(t)
  BY <1>3, Advances DEF OpenPublic, Making, TypeOK
<1>4. CASE WritePublic(t)
  BY <1>4, Advances DEF WritePublic, Making, TypeOK
<1> QED BY <1>1, <1>2, <1>3, <1>4

\* Type correctness of KeyMaterial.
THEOREM TypeCorrect == Spec => []TypeOK
<1>1. Init => TypeOK
  BY DEF Init, TypeOK, File
<1>2. TypeOK /\ [Next]_vars => TypeOK'
  <2> SUFFICES ASSUME TypeOK, [Next]_vars PROVE TypeOK'
    OBVIOUS
  <2>1. ASSUME NEW t \in Threads, Work(t) PROVE TypeOK'
    <3>1. worker'[t] \in WorkerState
      BY <2>1, Finds, Generates, Makes, Fails, Using DEF Work
    <3>2. worker' = [worker EXCEPT ![t] = worker'[t]]
      BY <2>1 DEF Work, FindPair, Generate, Begin, OpenPrivate, WritePrivate, OpenPublic,
                  WritePublic, Moves, Fail, SignToken, VerifyToken, Provision, Ends, TypeOK
    <3>3. worker' \in [Threads -> WorkerState \cup {Idle}]
      BY <3>1, <3>2 DEF TypeOK
    <3>4. private' \in [Hosts -> File] /\ public' \in [Hosts -> File]
      <4>1. worker[t].pc \in Making => worker[t].key \in File
        BY NotBegun, Begun DEF WorkerState
      <4>2. Empty \in File
        BY DEF File
      <4>3. CASE OpenPrivate(t) \/ WritePrivate(t) \/ OpenPublic(t) \/ WritePublic(t)
        BY <4>1, <4>2, <4>3 DEF OpenPrivate, WritePrivate, OpenPublic, WritePublic, Moves,
                               Making, TypeOK
      <4> QED BY <2>1, <4>3, Finds, Generates, Fails, Using DEF Work, TypeOK
    <3>5. tangled' \in BOOLEAN
      BY <2>1 DEF Work, FindPair, Generate, OpenPrivate, WritePrivate, OpenPublic, WritePublic,
                  Fail, SignToken, VerifyToken, Provision, Ends, TypeOK
    <3> QED BY <2>1, <3>3, <3>4, <3>5, OneWorks DEF TypeOK
  <2>2. CASE MovePrivate
    BY <2>2 DEF MovePrivate, AfterMove, Moved, TypeOK, File
  <2>3. CASE MovePublic
    BY <2>3 DEF MovePublic, AfterMove, Moved, TypeOK, File
  <2> QED BY <2>1, <2>2, <2>3 DEF Next, vars, TypeOK
<1> QED BY <1>1, <1>2, PTL DEF Spec

(***************************************************************************)
(* What is ensured is one pair.                                            *)
(***************************************************************************)

\* How far the rotation was when a thread began is not later than where it is.
SeenInv ==
    \A t \in Threads : worker[t] # Idle =>
        /\ rotation = "none" => worker[t].seen = "none"
        /\ rotation = "half" => worker[t].seen # "done"

\* What the files of its host hold while a thread makes them.
FilesWhile(t) ==
    LET h == Host(t) IN
    /\ worker[t].key \in Keys
    /\ worker[t].pc = "making" => ~Complete(h)
    /\ worker[t].pc = "privateOpen" => private[h] = Empty
    /\ worker[t].pc \in {"half", "publicOpen"} => private[h] = worker[t].key
    /\ worker[t].pc = "publicOpen" => public[h] = Empty

\* Unless something has gone wrong, one thread of a host makes a pair at a time; when
\* nobody does, either a file is missing or the two are of one key; and nobody is ready
\* for files that are not there.
PairInv ==
    ~tangled =>
        /\ \A t, u \in Threads : {t, u} \subseteq Makers(Host(t)) => t = u
        /\ \A t \in Threads : worker[t].pc \in Making => FilesWhile(t)
        /\ \A h \in Hosts : Makers(h) = {} /\ Complete(h) =>
                                private[h] \in Keys /\ public[h] = private[h]
        /\ \A t \in Threads : worker[t].pc = "ready" /\ worker[t].seen = rotation
                                  => Complete(Host(t))

LEMMA SeenStep ==
    ASSUME TypeOK, SeenInv, [Next]_vars
    PROVE  SeenInv'
<1>1. ASSUME NEW t \in Threads, Work(t) PROVE SeenInv'
  <2>1. \/ worker'[t].seen = rotation
        \/ worker[t] # Idle /\ worker'[t].seen = worker[t].seen
    BY <1>1, Finds, Generates, Makes, Fails, Using, NotBegun DEF Work, Idle
  <2> QED BY <1>1, <2>1, OneWorks DEF SeenInv
<1>2. CASE MovePrivate
  BY <1>2 DEF MovePrivate, SeenInv
<1>3. CASE MovePublic
  BY <1>3 DEF MovePublic, SeenInv
<1>4. CASE UNCHANGED vars
  BY <1>4 DEF vars, SeenInv
<1> QED BY <1>1, <1>2, <1>3, <1>4 DEF Next

\* Who is at work on a host after a step of one thread.
LEMMA MakersAfter ==
    ASSUME TypeOK, NEW t \in Threads, Work(t), NEW h \in Hosts
    PROVE  /\ \A u \in Threads : u # t => (u \in Makers(h)' <=> u \in Makers(h))
           /\ t \in Makers(h)' <=> worker'[t].pc \in Making /\ Host(t) = h
BY OneWorks DEF Makers

LEMMA PairWork ==
    ASSUME TypeOK, PairInv, NEW t \in Threads, Work(t)
    PROVE  PairInv'
<1> SUFFICES ASSUME ~tangled' PROVE PairInv'
  BY DEF PairInv
<1> DEFINE h == Host(t)
<1>1. /\ \A u \in Threads : u # t => worker'[u] = worker[u]
      /\ rotation' = rotation /\ ~tangled /\ h \in Hosts
      /\ \A u \in Threads : Host(u) \in Hosts
  BY OneWorks, HostsOfThreads
<1>2. /\ \A v, u \in Threads : {v, u} \subseteq Makers(Host(v)) => v = u
      /\ \A u \in Threads : worker[u].pc \in Making => FilesWhile(u)
      /\ \A g \in Hosts : Makers(g) = {} /\ Complete(g) =>
                              private[g] \in Keys /\ public[g] = private[g]
      /\ \A u \in Threads : worker[u].pc = "ready" /\ worker[u].seen = rotation
                                => Complete(Host(u))
  BY <1>1 DEF PairInv
\* Steps that leave the files and who makes them.
<1>3. ASSUME UNCHANGED <<private, public>>, worker'[t].pc \notin Making, worker[t].pc \notin Making,
             worker'[t].pc = "ready" => Complete(h)
      PROVE  PairInv'
  <2>1. \A g \in Hosts : Makers(g)' = Makers(g)
    BY <1>1, <1>3, MakersAfter DEF Makers
  <2>2. \A u \in Threads : worker'[u].pc \in Making => FilesWhile(u)'
    BY <1>1, <1>2, <1>3 DEF FilesWhile, Complete
  <2>3. \A u \in Threads : worker'[u].pc = "ready" /\ worker'[u].seen = rotation'
                                => Complete(Host(u))'
    BY <1>1, <1>2, <1>3 DEF Complete
  <2>4. \A g \in Hosts : (Makers(g) = {} /\ Complete(g))' =>
                              private'[g] \in Keys /\ public'[g] = private'[g]
    BY <1>2, <1>3, <2>1 DEF Complete
  <2>5. \A v, u \in Threads : {v, u} \subseteq Makers(Host(v))' => v = u
    BY <1>1, <1>2, <2>1
  <2> QED BY <2>2, <2>3, <2>4, <2>5 DEF PairInv
<1>4. CASE FindPair(t)
  BY <1>3, <1>4, Finds, NotBegun DEF Making
<1>5. CASE SignToken(t) \/ VerifyToken(t) \/ Provision(t)
  <2>1. /\ UNCHANGED <<private, public>> /\ worker[t].pc = "ready"
        /\ worker'[t].pc \in {"done", "accepted", "rejected", "failed"}
    BY <1>5, Using
  <2> QED BY <1>3, <2>1 DEF Making
\* It begins alone.
<1>6. ASSUME NEW k \in Keys, Generate(t, k) PROVE PairInv'
  <2>1. /\ worker'[t].pc = "making" /\ worker'[t].key = k /\ ~Complete(h)
        /\ UNCHANGED <<private, public>> /\ Makers(h) = {}
    BY <1>6, Generates DEF Overlaps
  <2>2. \A u \in Threads : worker'[u].pc \in Making => FilesWhile(u)'
    BY <1>1, <1>2, <2>1 DEF FilesWhile, Complete
  <2>3. \A u \in Threads : worker'[u].pc = "ready" /\ worker'[u].seen = rotation'
                                => Complete(Host(u))'
    BY <1>1, <1>2, <2>1 DEF Complete
  <2>4. \A g \in Hosts : (Makers(g) = {} /\ Complete(g))' =>
                              private'[g] \in Keys /\ public'[g] = private'[g]
    <3> SUFFICES ASSUME NEW g \in Hosts, (Makers(g) = {} /\ Complete(g))'
                 PROVE  private'[g] \in Keys /\ public'[g] = private'[g]
      OBVIOUS
    <3>1. Makers(g) = {} /\ Complete(g)
      BY <1>1, <2>1, MakersAfter DEF Makers, Complete, Making
    <3> QED BY <1>2, <2>1, <3>1
  <2>5. \A v, u \in Threads : {v, u} \subseteq Makers(Host(v))' => v = u
    BY <1>1, <1>2, <2>1, MakersAfter DEF Makers
  <2> QED BY <2>2, <2>3, <2>4, <2>5 DEF PairInv
\* It ends half-way.
<1>7. CASE Fail(t)
  <2>1. /\ worker[t].pc \in Making /\ worker'[t].pc = "failed"
        /\ UNCHANGED <<private, public>> /\ ~LeavesBoth(t)
    BY <1>7, Fails
  <2>2. \A u \in Threads : worker'[u].pc \in Making => FilesWhile(u)'
    BY <1>1, <1>2, <2>1 DEF FilesWhile, Complete, Making
  <2>3. \A u \in Threads : worker'[u].pc = "ready" /\ worker'[u].seen = rotation'
                                => Complete(Host(u))'
    BY <1>1, <1>2, <2>1 DEF Complete
  <2>4. ~Complete(h)
    BY <1>2, <2>1 DEF LeavesBoth, Complete, FilesWhile
  <2>5. \A g \in Hosts : (Makers(g) = {} /\ Complete(g))' =>
                              private'[g] \in Keys /\ public'[g] = private'[g]
    <3> SUFFICES ASSUME NEW g \in Hosts, (Makers(g) = {} /\ Complete(g))'
                 PROVE  private'[g] \in Keys /\ public'[g] = private'[g]
      OBVIOUS
    <3>1. Complete(g) /\ g # h
      BY <2>1, <2>4 DEF Complete
    <3>2. Makers(g) = {}
      BY <3>1, MakersAfter DEF Makers
    <3> QED BY <1>2, <2>1, <3>1, <3>2
  <2>6. \A v, u \in Threads : {v, u} \subseteq Makers(Host(v))' => v = u
    BY <1>1, <1>2, <2>1, MakersAfter DEF Makers, Making
  <2> QED BY <2>2, <2>3, <2>5, <2>6 DEF PairInv
\* It goes on.
<1>8. CASE OpenPrivate(t) \/ WritePrivate(t) \/ OpenPublic(t) \/ WritePublic(t)
  <2>1. /\ worker[t].pc \in Making /\ worker'[t].key = worker[t].key
        /\ worker'[t].seen = worker[t].seen
        /\ \A g \in Hosts : g # h => private'[g] = private[g] /\ public'[g] = public[g]
        /\ FilesWhile(t) /\ worker[t].key \in Keys
    BY <1>2, <1>8, Makes DEF FilesWhile
  <2>2. \A u \in Threads : u # t /\ worker[u].pc \in Making => Host(u) # h
    BY <1>2, <2>1 DEF Makers
  <2>3. FilesWhile(t)'
    BY <1>8, <2>1, Makes DEF FilesWhile, Complete
  <2>4. \A u \in Threads : worker'[u].pc \in Making => FilesWhile(u)'
    BY <1>1, <1>2, <2>1, <2>2, <2>3 DEF FilesWhile, Complete
  <2>5. (Complete(h) \/ worker'[t].pc = "ready") => Complete(h)'
    BY <1>8, <2>1, Makes, Assumed DEF Complete, FilesWhile
  <2>6. \A u \in Threads : worker'[u].pc = "ready" /\ worker'[u].seen = rotation'
                                => Complete(Host(u))'
    BY <1>1, <1>2, <2>1, <2>5 DEF Complete
  <2>7. \A g \in Hosts : (Makers(g) = {} /\ Complete(g))' =>
                              private'[g] \in Keys /\ public'[g] = private'[g]
    <3> SUFFICES ASSUME NEW g \in Hosts, (Makers(g) = {} /\ Complete(g))'
                 PROVE  private'[g] \in Keys /\ public'[g] = private'[g]
      OBVIOUS
    <3>1. CASE g = h
      <4>1. worker'[t].pc \notin Making
        BY <3>1, MakersAfter
      <4> QED BY <1>8, <2>1, <3>1, <4>1, Makes DEF FilesWhile, Making
    <3>2. CASE g # h
      <4>1. Makers(g) = {}
        BY <3>2, MakersAfter DEF Makers
      <4> QED BY <1>2, <2>1, <3>2, <4>1 DEF Complete
    <3> QED BY <3>1, <3>2
  <2>8. \A v, u \in Threads : {v, u} \subseteq Makers(Host(v))' => v = u
    BY <1>1, <1>2, <2>1, <2>2, MakersAfter DEF Makers
  <2> QED BY <2>4, <2>6, <2>7, <2>8 DEF PairInv
<1> QED BY <1>4, <1>5, <1>6, <1>7, <1>8 DEF Work

\* A move finds nobody at work on the host; whoever is ready has begun before it.
LEMMA PairMove ==
    ASSUME TypeOK, SeenInv, PairInv, MovePrivate \/ MovePublic
    PROVE  PairInv'
<1> SUFFICES ASSUME ~tangled' PROVE PairInv'
  BY DEF PairInv
<1>1. /\ worker' = worker /\ ~tangled /\ Makers("idp") = {} /\ "idp" \in Hosts
      /\ \A h \in Hosts : h # "idp" => private'[h] = private[h] /\ public'[h] = public[h]
      /\ \A t \in Threads : Host(t) \in Hosts
  BY HostsOfThreads DEF MovePrivate, MovePublic, TypeOK
<1>2. private'["idp"] = Missing \/ public'["idp"] = Missing
  BY <1>1 DEF MovePrivate, MovePublic, AfterMove, TypeOK
<1>3. \A t \in Threads : worker[t].pc = "ready" => worker[t].seen # rotation'
  BY NotBegun DEF MovePrivate, MovePublic, SeenInv
<1>4. \A h \in Hosts : Makers(h)' = Makers(h)
  BY <1>1 DEF Makers
<1>5. \A t \in Threads : worker[t].pc \in Making => Host(t) # "idp"
  BY <1>1 DEF Makers
<1>6. \A t \in Threads : worker'[t].pc \in Making => FilesWhile(t)'
  BY <1>1, <1>5 DEF PairInv, FilesWhile, Complete
<1>7. \A h \in Hosts : (Makers(h) = {} /\ Complete(h))' =>
                            private'[h] \in Keys /\ public'[h] = private'[h]
  BY <1>1, <1>2, <1>4 DEF PairInv, Complete
<1>8. \A t, u \in Threads : {t, u} \subseteq Makers(Host(t))' => t = u
  BY <1>1, <1>4 DEF PairInv
<1> QED BY <1>1, <1>3, <1>6, <1>7, <1>8 DEF PairInv

THEOREM FilesArePaired == Spec => [](TypeOK /\ SeenInv /\ PairInv)
<1>1. Init => SeenInv /\ PairInv
  <2> SUFFICES ASSUME Init PROVE SeenInv /\ PairInv
    OBVIOUS
  <2>1. \A t \in Threads : worker[t] = Idle
    BY DEF Init
  <2>2. \A h \in Hosts : Complete(h) => private[h] \in Keys /\ public[h] = private[h]
    BY DEF Init, Complete
  <2> QED BY <2>1, <2>2 DEF SeenInv, PairInv, Makers, Making, Idle
<1>2. TypeOK /\ SeenInv /\ PairInv /\ [Next]_vars => SeenInv' /\ PairInv'
  <2> SUFFICES ASSUME TypeOK, SeenInv, PairInv, [Next]_vars PROVE PairInv'
    BY SeenStep
  <2>1. CASE UNCHANGED vars
    BY <2>1 DEF vars, PairInv, FilesWhile, Makers, Complete
  <2> QED BY <2>1, PairWork, PairMove DEF Next
<1> QED BY <1>1, <1>2, TypeCorrect, PTL DEF Spec

\* Who has called ensure_jwt_keypair finds two files of one key, on one host or two.
THEOREM EnsuredIsOnePair == Spec => []EnsuredPairMatches
<1>1. PairInv => EnsuredPairMatches
  BY HostsOfThreads DEF PairInv, EnsuredPairMatches
<1> QED BY <1>1, FilesArePaired, PTL

(***************************************************************************)
(* One host: what becomes of a key that has signed a token.                *)
(***************************************************************************)

Priv == private["idp"]
Pub  == public["idp"]

\* k is the key of the pair in the files, or of the pair that is being made.
Current(k) ==
    /\ Priv = k
    /\ \/ Pub = k
       \/ \E u \in Threads : worker[u].pc \in {"half", "publicOpen"} /\ worker[u].key = k
Abandoned(k) == \E u \in Threads : worker[u].pc = "failed" /\ worker[u].key = k
Explained(k) == k \in archived \/ Abandoned(k) \/ Current(k)

\* A pair is made, and moved, private key first; nobody makes one while the files move.
FileInv ==
    ~tangled =>
        /\ \A t \in Threads : worker[t].pc \in {"making", "privateOpen", "half"} => Pub = Missing
        /\ rotation # "half" /\ Pub # Missing => Priv # Missing
        /\ rotation = "half" => Priv = Missing /\ \A t \in Threads : worker[t].pc \notin Making

\* A key with which a token was signed, or can be, is current or explains itself.
Signs(k) == Priv = k \/ \E s \in Signers : worker[s].pc = "done" /\ worker[s].key = k

IssuedInv == ~tangled => \A k \in Keys : Signs(k) => Explained(k)

\* A request brings a token of a login.
TokenInv ==
    /\ \A s \in Signers : worker[s].pc = "done" => worker[s].key \in Keys
    /\ \A v \in Verifiers : worker[v] # Idle =>
           \E s \in Signers : worker[s].pc = "done" /\ worker[s].key = worker[v].token

\* After the rotation no archived key comes back.
RetiredInv ==
    ~tangled /\ rotation = "done" =>
        /\ Priv \notin archived /\ Pub \notin archived
        /\ \A t \in Threads : worker[t].pc \in Making => worker[t].key \notin archived

\* What is done stays as it is.
LEMMA EndedForGood ==
    ASSUME TypeOK, [Next]_vars, NEW t \in Threads,
           worker[t].pc \in {"done", "accepted", "rejected", "failed"}
    PROVE  worker'[t] = worker[t]
<1>1. ASSUME NEW u \in Threads, Work(u) PROVE worker'[t] = worker[t]
  <2>1. worker[u] = Idle \/ worker[u].pc \in Making \cup {"ready"}
    BY <1>1, Finds, Generates, Makes, Fails, Using DEF Work
  <2>2. u # t
    BY <2>1 DEF Idle, Making
  <2> QED BY <1>1, <2>2, OneWorks
<1> QED BY <1>1 DEF Next, vars, MovePrivate, MovePublic

LEMMA HistoryGrows ==
    ASSUME TypeOK, [Next]_vars
    PROVE  archived \subseteq archived' /\ (tangled => tangled')
<1>1. ASSUME NEW u \in Threads, Work(u) PROVE archived' = archived /\ (tangled => tangled')
  BY <1>1, OneWorks
<1>2. CASE MovePrivate \/ MovePublic
  BY <1>2 DEF MovePrivate, MovePublic
<1>3. CASE UNCHANGED vars
  BY <1>3 DEF vars
<1> QED BY <1>1, <1>2, <1>3 DEF Next

LEMMA AbandonedForGood ==
    ASSUME TypeOK, [Next]_vars, NEW k, Abandoned(k)
    PROVE  Abandoned(k)'
BY EndedForGood DEF Abandoned

\* The last step of a thread, with the key it has used.
LEMMA Ended ==
    ASSUME TypeOK, NEW t \in Threads, SignToken(t) \/ VerifyToken(t) \/ Provision(t)
    PROVE  /\ t \in Signers => /\ SignToken(t) /\ worker'[t].key = private[Host(t)]
                               /\ worker'[t].pc = "done" => worker'[t].key \in Keys
           /\ t \in Verifiers => /\ VerifyToken(t) /\ worker'[t].key = public[Host(t)]
                                 /\ worker'[t].pc = "accepted"
                                        => worker'[t].key = worker[t].token
                                 /\ worker'[t].pc # "accepted"
                                        => worker'[t].key # worker[t].token
<1>1. private[Host(t)] \in File /\ public[Host(t)] \in File
  BY HostsOfThreads DEF TypeOK
<1>2. CASE t \in Signers
  <2>1. SignToken(t) /\ t \notin Verifiers
    BY <1>2, Assumed DEF VerifyToken, Provision
  <2> QED BY <1>1, <2>1, EndsAs DEF SignToken
<1>3. CASE t \in Verifiers
  <2>1. VerifyToken(t) /\ t \notin Signers
    BY <1>3, Assumed DEF SignToken, Provision
  <2> QED BY <1>1, <2>1, EndsAs DEF VerifyToken
<1> QED BY <1>2, <1>3

\* A thread that is at work, or has just begun, has not ended.
LEMMA NotEnded ==
    ASSUME TypeOK, NEW t \in Threads, Work(t),
           ~(SignToken(t) \/ VerifyToken(t) \/ Provision(t))
    PROVE  worker'[t].pc \in Making \cup {"ready", "failed"}
BY Finds, Generates, Makes, Fails DEF Work, Making

LEMMA TokenStep ==
    ASSUME TypeOK, TokenInv, [Next]_vars
    PROVE  TokenInv'
<1>1. ASSUME NEW t \in Threads, Work(t) PROVE TokenInv'
  <2>1. ASSUME NEW s \in Signers, worker'[s].pc = "done" PROVE worker'[s].key \in Keys
    <3>1. CASE s = t
      BY <1>1, <2>1, <3>1, NotEnded, Ended DEF Making
    <3>2. CASE s # t
      BY <1>1, <2>1, <3>2, OneWorks DEF TokenInv, Threads
    <3> QED BY <3>1, <3>2
  <2>2. \A s \in Signers : worker[s].pc = "done" => worker'[s] = worker[s]
    BY <1>1, EndedForGood DEF Next, Threads
  <2>3. ASSUME NEW v \in Verifiers, worker'[v] # Idle
        PROVE  \E s \in Signers : worker'[s].pc = "done" /\ worker'[s].key = worker'[v].token
    <3>1. CASE v = t /\ worker[v] = Idle
      <4>1. worker'[v].token \in Tokens(v)
        BY <1>1, <3>1, Finds, Generates, Makes, Fails, Using DEF Work, WorkerState, Idle
      <4>2. \E s \in Signers : worker[s].pc = "done" /\ worker[s].key = worker'[v].token
        BY <4>1 DEF Tokens
      <4> QED BY <4>2, <2>2
    <3>2. CASE v # t \/ worker[v] # Idle
      <4>1. worker[v] # Idle /\ worker'[v].token = worker[v].token
        BY <1>1, <2>3, <3>2, OneWorks, Finds, Generates, Makes, Fails, Using DEF Work, Threads
      <4> QED BY <4>1, <2>2 DEF TokenInv
    <3> QED BY <3>1, <3>2
  <2> QED BY <2>1, <2>3 DEF TokenInv
<1>2. CASE UNCHANGED worker
  BY <1>2 DEF TokenInv
<1> QED BY <1>1, <1>2 DEF Next, vars, MovePrivate, MovePublic

LEMMA FileStep ==
    ASSUME ~PerHost, TypeOK, PairInv, FileInv, [Next]_vars
    PROVE  FileInv'
<1> SUFFICES ASSUME ~tangled' PROVE FileInv'
  BY DEF FileInv
<1>1. /\ ~tangled /\ "idp" \in Hosts /\ \A t \in Threads : Host(t) = "idp"
      /\ \A t \in Threads : worker[t].pc \in {"making", "privateOpen", "half"} => Pub = Missing
      /\ rotation # "half" /\ Pub # Missing => Priv # Missing
      /\ rotation = "half" => Priv = Missing /\ \A t \in Threads : worker[t].pc \notin Making
  BY HistoryGrows, HostsOfThreads DEF FileInv
<1>2. ASSUME NEW t \in Threads, Work(t) PROVE FileInv'
  <2>1. /\ \A u \in Threads : u # t => worker'[u] = worker[u]
        /\ rotation' = rotation
    BY <1>2, OneWorks
  <2>2. ASSUME UNCHANGED <<private, public>>, worker'[t].pc \notin Making PROVE FileInv'
    BY <1>1, <2>1, <2>2 DEF FileInv, Priv, Pub, Making
  <2>3. CASE FindPair(t) \/ Fail(t) \/ SignToken(t) \/ VerifyToken(t) \/ Provision(t)
    BY <2>2, <2>3, Finds, Fails, Using DEF Making
  <2>4. ASSUME NEW k \in Keys, Generate(t, k) PROVE FileInv'
    <3>1. /\ worker'[t].pc = "making" /\ ~Complete("idp") /\ UNCHANGED <<private, public>>
          /\ rotation # "half"
      BY <1>1, <2>4, Generates DEF Overlaps
    <3>2. Pub = Missing
      BY <1>1, <3>1 DEF Complete, Priv, Pub
    <3> QED BY <1>1, <2>1, <3>1, <3>2 DEF FileInv, Priv, Pub
  <2>5. CASE OpenPrivate(t) \/ WritePrivate(t) \/ OpenPublic(t) \/ WritePublic(t)
    <3>1. worker[t].pc \in Making /\ rotation # "half"
      BY <1>1, <2>5, Makes
    <3>2. FilesWhile(t) /\ \A u \in Threads : u # t => worker[u].pc \notin Making
      BY <1>1, <3>1 DEF PairInv, Makers
    <3>3. worker'[t].pc \in {"making", "privateOpen", "half"} => Pub' = Missing
      BY <1>1, <2>5, Makes DEF Pub
    <3>4. Priv' # Missing
      BY <1>1, <2>5, <3>2, Makes, Assumed DEF Priv, FilesWhile
    <3> QED BY <2>1, <3>1, <3>2, <3>3, <3>4 DEF FileInv, Making
  <2> QED BY <1>2, <2>3, <2>4, <2>5 DEF Work
<1>3. CASE MovePrivate
  BY <1>1, <1>3 DEF MovePrivate, AfterMove, FileInv, Makers, Priv, Pub, TypeOK
<1>4. CASE MovePublic
  BY <1>1, <1>4 DEF MovePublic, AfterMove, FileInv, Makers, Priv, Pub, TypeOK, Making
<1>5. CASE UNCHANGED vars
  BY <1>5 DEF vars, FileInv, Priv, Pub
<1> QED BY <1>2, <1>3, <1>4, <1>5 DEF Next

\* A current key stays current, is archived, or is left behind by the call that made it.
LEMMA CurrentStep ==
    ASSUME ~PerHost, TypeOK, PairInv, FileInv, [Next]_vars, ~tangled', NEW k \in Keys, Current(k)
    PROVE  Explained(k)'
<1>1. /\ ~tangled /\ "idp" \in Hosts /\ \A t \in Threads : Host(t) = "idp"
      /\ k # Missing /\ k # Empty
  BY HistoryGrows, HostsOfThreads, Assumed
<1>2. ASSUME NEW t \in Threads, Work(t) PROVE Explained(k)'
  <2>1. \A u \in Threads : u # t => worker'[u] = worker[u]
    BY <1>2, OneWorks
  <2>2. ASSUME UNCHANGED <<private, public>>, worker[t].pc \notin Making PROVE Current(k)'
    BY <2>1, <2>2 DEF Current, Priv, Pub, Making
  <2>3. CASE FindPair(t) \/ SignToken(t) \/ VerifyToken(t) \/ Provision(t)
    <3>1. UNCHANGED <<private, public>> /\ worker[t].pc \notin Making
      BY <2>3, Finds, Using, NotBegun DEF Making
    <3> QED BY <2>2, <3>1 DEF Explained
  <2>4. ASSUME NEW j \in Keys, Generate(t, j) PROVE Explained(k)'
    <3>1. UNCHANGED <<private, public>> /\ worker[t].pc \notin Making
      BY <2>4, Generates, NotBegun DEF Making
    <3> QED BY <2>2, <3>1 DEF Explained
  <2>5. CASE Fail(t)
    <3>1. /\ UNCHANGED <<private, public>>
          /\ worker'[t].pc = "failed" /\ worker'[t].key = worker[t].key
      BY <2>5, Fails
    <3>2. Current(k)' \/ worker[t].key = k
      BY <2>1, <3>1 DEF Current, Priv, Pub
    <3> QED BY <3>1, <3>2 DEF Explained, Abandoned
  <2>6. CASE OpenPrivate(t) \/ WritePrivate(t) \/ OpenPublic(t) \/ WritePublic(t)
    <3>1. /\ worker[t].pc \in Making /\ worker'[t].key = worker[t].key
          /\ worker[t].pc \in {"making", "privateOpen", "half"} => Pub = Missing
      BY <1>1, <2>6, Makes DEF FileInv
    <3>2. FilesWhile(t) /\ \A u \in Threads : u # t => worker[u].pc \notin Making
      BY <1>1, <3>1 DEF PairInv, Makers
    <3>3. worker[t].pc \in {"half", "publicOpen"} /\ worker[t].key = k
      BY <1>1, <3>1, <3>2 DEF Current, FilesWhile, Priv, Making
    <3> QED BY <1>1, <2>6, <3>1, <3>3, Makes DEF Explained, Current, Priv, Pub
  <2> QED BY <1>2, <2>3, <2>4, <2>5, <2>6 DEF Work
<1>3. CASE MovePrivate
  <2>1. \A u \in Threads : worker[u].pc \notin Making
    BY <1>1, <1>3 DEF MovePrivate, Makers
  <2>2. Priv = k /\ k \in Moved(private["idp"])
    BY DEF Current, Priv, Moved
  <2> QED BY <1>3, <2>2 DEF MovePrivate, Explained
<1>4. CASE MovePublic
  BY <1>1, <1>4 DEF MovePublic, FileInv, Current
<1>5. CASE UNCHANGED vars
  BY <1>5 DEF vars, Current, Explained, Priv, Pub
<1> QED BY <1>2, <1>3, <1>4, <1>5 DEF Next

LEMMA IssuedStep ==
    ASSUME ~PerHost, TypeOK, PairInv, FileInv, TokenInv, IssuedInv, [Next]_vars
    PROVE  IssuedInv'
<1> SUFFICES ASSUME ~tangled' PROVE IssuedInv'
  BY DEF IssuedInv
<1>1. ~tangled /\ "idp" \in Hosts /\ \A t \in Threads : Host(t) = "idp"
  BY HistoryGrows, HostsOfThreads
<1>2. ASSUME NEW k \in Keys, Explained(k) PROVE Explained(k)'
  BY <1>2, CurrentStep, AbandonedForGood, HistoryGrows DEF Explained
<1>3. ASSUME NEW k \in Keys, Signs(k)', ~Signs(k) PROVE Current(k)'
  <2>1. Priv' # Priv
    <3>1. ASSUME Priv' = Priv PROVE FALSE
      <4>1. PICK s \in Signers :
                worker'[s].pc = "done" /\ worker'[s].key = k /\ worker[s].pc # "done"
        BY <1>3, <3>1, EndedForGood DEF Signs, Threads
      <4>2. PICK t \in Threads : Work(t)
        BY <4>1 DEF Next, vars, MovePrivate, MovePublic
      <4>3. t = s
        BY <4>1, <4>2, OneWorks DEF Threads
      <4>4. worker'[s].key = Priv
        BY <1>1, <4>1, <4>2, <4>3, NotEnded, Ended DEF Making, Priv
      <4> QED BY <1>3, <4>1, <4>4 DEF Signs
    <3> QED BY <3>1
  <2>2. Priv' = k
    <3>1. \A s \in Signers : worker'[s].pc = "done" => worker'[s] = worker[s]
      <4>1. ASSUME NEW t \in Threads, Work(t), worker'[t].pc = "done" PROVE Priv' = Priv
        BY <4>1, NotEnded, Using DEF Making, Priv
      <4> QED BY <2>1, <4>1, OneWorks DEF Next, vars, MovePrivate, MovePublic, Threads
    <3> QED BY <1>3, <3>1 DEF Signs
  <2>3. PICK t \in Threads : WritePrivate(t)
    <3>1. ~MovePrivate /\ ~MovePublic /\ ~UNCHANGED vars
      BY <1>1, <1>3, <2>1, <2>2, Assumed DEF MovePrivate, MovePublic, AfterMove, vars, Priv, TypeOK
    <3>2. ASSUME NEW t \in Threads, Work(t) PROVE WritePrivate(t)
      BY <1>1, <1>3, <2>1, <2>2, <3>2, Assumed, Finds, Generates, Fails, Using
         DEF Work, OpenPrivate, OpenPublic, WritePublic, TypeOK, Priv
    <3> QED BY <3>1, <3>2 DEF Next
  <2>4. worker'[t].pc = "half" /\ worker'[t].key = k
    BY <1>1, <2>2, <2>3, Advances, NotBegun DEF WritePrivate, Making, Priv, TypeOK
  <2> QED BY <2>2, <2>4 DEF Current
<1> QED BY <1>1, <1>2, <1>3 DEF IssuedInv, Explained

\* A request ends with what it reads, the token it came with in hand.
LEMMA RequestEnds ==
    ASSUME ~PerHost, TypeOK, [Next]_vars, NEW v \in Verifiers,
           worker'[v].pc \in {"accepted", "rejected"}, worker'[v] # worker[v]
    PROVE  /\ worker[v] # Idle /\ worker'[v].token = worker[v].token
           /\ worker'[v].seen = worker[v].seen /\ worker'[v].key = Pub
           /\ worker'[v].pc = "accepted" <=> Pub = worker[v].token
           /\ rotation' = rotation /\ archived' = archived /\ tangled' = tangled
<1>1. PICK t \in Threads : Work(t)
  BY DEF Next, vars, MovePrivate, MovePublic
<1>2. t = v
  BY <1>1, OneWorks DEF Threads
<1>3. SignToken(t) \/ VerifyToken(t) \/ Provision(t)
  BY <1>1, <1>2, NotEnded DEF Making
<1> QED BY <1>1, <1>2, <1>3, Using, Ended, OneWorks, NotBegun, HostsOfThreads DEF Pub, Making

\* A request that is turned away with a sound key explains itself.
LEMMA RejectedStep ==
    ASSUME ~PerHost, TypeOK, PairInv, FileInv, TokenInv, IssuedInv,
           RejectionHasCause, [Next]_vars
    PROVE  RejectionHasCause'
<1> SUFFICES ASSUME NEW v \in Verifiers, worker'[v].pc = "rejected", worker'[v].key \in Keys,
                    ~tangled'
             PROVE  \/ worker'[v].token \in archived'
                    \/ \E u \in Threads :
                           worker'[u].pc = "failed" /\ worker'[u].key = worker'[v].token
  BY DEF RejectionHasCause
<1>1. ~tangled /\ archived \subseteq archived' /\ v \in Threads
      /\ \A u \in Threads : worker[u].pc = "failed" => worker'[u] = worker[u]
  BY HistoryGrows, EndedForGood DEF Threads
<1>2. CASE worker'[v] = worker[v]
  BY <1>1, <1>2 DEF RejectionHasCause
<1>3. CASE worker'[v] # worker[v]
  <2>1. /\ worker[v] # Idle /\ worker'[v].token = worker[v].token
        /\ Pub \in Keys /\ Pub # worker[v].token
    BY <1>3, RequestEnds
  <2>2. Explained(worker[v].token)
    BY <1>1, <2>1 DEF TokenInv, IssuedInv, Signs
  <2>3. ~Current(worker[v].token)
    BY <1>1, <2>1, Assumed, HostsOfThreads DEF Current, FileInv, PairInv, FilesWhile, Making, Pub
  <2> QED BY <1>1, <2>1, <2>2, <2>3 DEF Explained, Abandoned
<1> QED BY <1>2, <1>3

LEMMA RetiredStep ==
    ASSUME ~PerHost, TypeOK, PairInv, FileInv, RetiredInv, [Next]_vars
    PROVE  RetiredInv'
<1> SUFFICES ASSUME ~tangled', rotation' = "done" PROVE RetiredInv'
  BY DEF RetiredInv
<1>1. ~tangled /\ "idp" \in Hosts /\ \A t \in Threads : Host(t) = "idp"
  BY HistoryGrows, HostsOfThreads
<1>2. Missing \notin archived /\ Empty \notin archived
  BY Assumed DEF TypeOK
<1>3. ASSUME NEW t \in Threads, Work(t) PROVE RetiredInv'
  <2>1. /\ \A u \in Threads : u # t => worker'[u] = worker[u]
        /\ rotation = "done" /\ archived' = archived
    BY <1>3, OneWorks
  <2>2. /\ Priv \notin archived /\ Pub \notin archived
        /\ \A u \in Threads : worker[u].pc \in Making => worker[u].key \notin archived
    BY <1>1, <2>1 DEF RetiredInv
  <2>3. ASSUME NEW k \in Keys, Generate(t, k) PROVE RetiredInv'
    BY <2>1, <2>2, <2>3, Generates DEF RetiredInv, Priv, Pub, Used
  <2>4. CASE OpenPrivate(t) \/ WritePrivate(t) \/ OpenPublic(t) \/ WritePublic(t)
    BY <1>1, <1>2, <2>1, <2>2, <2>4, Makes DEF RetiredInv, Priv, Pub
  <2>5. CASE FindPair(t) \/ Fail(t) \/ SignToken(t) \/ VerifyToken(t) \/ Provision(t)
    <3>1. UNCHANGED <<private, public>> /\ worker'[t].pc \notin Making
      BY <2>5, Finds, Fails, Using DEF Making
    <3> QED BY <2>1, <2>2, <3>1 DEF RetiredInv, Priv, Pub
  <2> QED BY <1>3, <2>3, <2>4, <2>5 DEF Work
<1>4. CASE MovePublic
  <2>1. /\ Priv' = Missing /\ Pub' = Missing /\ archived' \subseteq Keys
        /\ \A t \in Threads : worker'[t].pc \notin Making
    BY <1>1, <1>4 DEF MovePublic, AfterMove, Moved, FileInv, Priv, Pub, TypeOK
  <2> QED BY <2>1, Assumed DEF RetiredInv
<1>5. CASE UNCHANGED vars
  BY <1>1, <1>5 DEF vars, RetiredInv, Priv, Pub
<1> QED BY <1>3, <1>4, <1>5 DEF Next, MovePrivate

LEMMA AcceptedStep ==
    ASSUME ~PerHost, TypeOK, SeenInv, RetiredInv, RetiredKeysStayRetired, [Next]_vars
    PROVE  RetiredKeysStayRetired'
<1> SUFFICES ASSUME NEW v \in Verifiers, worker'[v].pc = "accepted", worker'[v].seen = "done",
                    ~tangled'
             PROVE  worker'[v].token \notin archived'
  BY DEF RetiredKeysStayRetired
<1>1. ~tangled /\ v \in Threads
  BY HistoryGrows DEF Threads
<1>2. CASE worker'[v] = worker[v]
  <2>1. rotation = "done"
    BY <1>1, <1>2, NotBegun DEF SeenInv, TypeOK
  <2>2. archived' = archived
    BY <2>1, OneWorks DEF Next, vars, MovePrivate, MovePublic
  <2> QED BY <1>1, <1>2, <2>2 DEF RetiredKeysStayRetired
<1>3. CASE worker'[v] # worker[v]
  <2>1. /\ worker[v] # Idle /\ worker[v].seen = "done" /\ worker'[v].token = Pub
        /\ archived' = archived
    BY <1>3, RequestEnds
  <2>2. rotation = "done"
    BY <1>1, <2>1 DEF SeenInv, TypeOK
  <2> QED BY <1>1, <2>1, <2>2 DEF RetiredInv
<1> QED BY <1>2, <1>3

OneHostInv == FileInv /\ TokenInv /\ IssuedInv /\ RejectionHasCause
                  /\ RetiredInv /\ RetiredKeysStayRetired

LEMMA OneHostHolds ==
    ASSUME ~PerHost
    PROVE  Spec => []OneHostInv
<1>1. Init => OneHostInv
  <2> SUFFICES ASSUME Init PROVE OneHostInv
    OBVIOUS
  <2>1. /\ \A t \in Threads : worker[t] = Idle
        /\ rotation = "none" /\ Pub = Priv
    BY HostsOfThreads DEF Init, Priv, Pub
  <2> QED BY <2>1 DEF OneHostInv, FileInv, TokenInv, IssuedInv, RejectionHasCause, RetiredInv,
                      RetiredKeysStayRetired, Signs, Explained, Current, Idle, Making, Threads
<1>2. TypeOK /\ SeenInv /\ PairInv /\ OneHostInv /\ [Next]_vars => OneHostInv'
  BY FileStep, TokenStep, IssuedStep, RejectedStep, RetiredStep, AcceptedStep DEF OneHostInv
<1> QED BY <1>1, <1>2, FilesArePaired, PTL DEF Spec

\* On one host, a token is turned away for its signature only for one of the causes
\* that the property names.
THEOREM RejectionsAreCaused == ASSUME ~PerHost PROVE Spec => []RejectionHasCause
<1>1. OneHostInv => RejectionHasCause
  BY DEF OneHostInv
<1> QED BY <1>1, OneHostHolds, PTL

\* On one host, no request that begins after a rotation is granted with an archived key.
THEOREM RotationRetires == ASSUME ~PerHost PROVE Spec => []RetiredKeysStayRetired
<1>1. OneHostInv => RetiredKeysStayRetired
  BY DEF OneHostInv
<1> QED BY <1>1, OneHostHolds, PTL

(***************************************************************************)
(* The service lifecycle, for any number of connections and any grace      *)
(* period.  The counter inflight is the number of threads between          *)
(* enter_request and exit_request; the rest follows from the order of the  *)
(* steps.                                                                  *)
(***************************************************************************)

\* The threads between enter_request and exit_request.
Counted == {c \in Conns : conn[c] \in {"counted", "handling", "replied"}}

CountInv == inflight = Cardinality(Counted)

\* The signal handler runs only in a service that drains.  Once it has stopped waiting
\* before the deadline nobody is at work, and once it has found nobody there is nobody.
DrainInv ==
    /\ handler # "none" => draining
    /\ DrainedMeansIdle
    /\ OnlyDeadlineAbandons

\* The accept loop has one handshake at a time, and none once it has ended.
MainInv ==
    /\ \A c, d \in Conns : conn[c] = "handshake" /\ conn[d] = "handshake" => c = d
    /\ \A c \in Conns : conn[c] = "handshake" => main = "handshake"

LEMMA ServiceAssumed == IsFiniteSet(Conns) /\ Grace \in Nat
BY LifecycleAssumption DEF LifecycleAssumption

\* Type correctness of ServiceLifecycle.
THEOREM ServiceTypeCorrect == ServiceSpec => []ServiceTypeOK
<1>1. ASSUME ServiceInit PROVE ServiceTypeOK
  <2>1. left \in 0 .. Grace
    BY <1>1, ServiceAssumed DEF ServiceInit
  <2>2. stop \in BOOLEAN /\ draining \in BOOLEAN
    BY <1>1 DEF ServiceInit
  <2> QED BY <1>1, <2>1, <2>2 DEF ServiceInit, ServiceTypeOK
<1>2. ServiceTypeOK /\ [ServiceNext]_serviceVars => ServiceTypeOK'
  <2> SUFFICES ASSUME ServiceTypeOK, [ServiceNext]_serviceVars PROVE ServiceTypeOK'
    OBVIOUS
  <2> USE ServiceAssumed DEF ServiceTypeOK, InThread
  <2>1. ASSUME NEW c \in Conns,
               \/ Connect(c) \/ Accept(c) \/ Shake(c) \/ Enter(c) \/ HangUp(c)
               \/ Dispatch(c) \/ Reply(c) \/ Leave(c)
        PROVE  ServiceTypeOK'
    BY <2>1 DEF Connect, Accept, Shake, Enter, HangUp, Dispatch, Reply, Leave, Becomes, OneFewer
  <2>2. CASE Poll \/ Close \/ Exit
    BY <2>2 DEF Poll, Close, Exit
  <2>3. CASE Signal
    <3>1. draining' \in BOOLEAN
      BY <2>3 DEF Signal
    <3> QED BY <2>3, <3>1 DEF Signal
  <2>4. CASE Tick
    <3>1. left' \in 0 .. Grace
      BY <2>4 DEF Tick
    <3> QED BY <2>4, <3>1 DEF Tick
  <2>5. CASE Shutdown
    <3>1. stop' \in BOOLEAN
      BY <2>5 DEF Shutdown
    <3> QED BY <2>5, <3>1 DEF Shutdown
  <2>6. CASE EndLoop \/ Report
    BY <2>6 DEF EndLoop, Report, Verdict
  <2>7. CASE UNCHANGED serviceVars
    BY <2>7 DEF serviceVars
  <2> QED BY <2>1, <2>2, <2>3, <2>4, <2>5, <2>6, <2>7 DEF ServiceNext
<1> QED BY <1>1, <1>2, PTL DEF ServiceSpec

\* A step of one connection's thread that enters or leaves the counted part.
LEMMA CountedChanges ==
    ASSUME ServiceTypeOK, NEW c \in Conns, NEW from, NEW to, Becomes(c, from, to)
    PROVE  LET C == {"counted", "handling", "replied"} IN
           /\ from \notin C /\ to \in C => c \notin Counted /\ Counted' = Counted \cup {c}
           /\ from \in C /\ to \notin C => c \in Counted /\ Counted' = Counted \ {c}
           /\ (from \in C <=> to \in C) => Counted' = Counted
BY DEF Becomes, Counted, ServiceTypeOK

LEMMA CountedFinite == ServiceTypeOK => IsFiniteSet(Counted)
BY ServiceAssumed, FS_Subset DEF Counted

\* The counter counts.
LEMMA CountStep == ServiceTypeOK /\ CountInv /\ [ServiceNext]_serviceVars => CountInv'
<1> SUFFICES ASSUME ServiceTypeOK, CountInv, [ServiceNext]_serviceVars PROVE CountInv'
  OBVIOUS
<1> USE CountedFinite DEF CountInv
<1>1. ASSUME NEW c \in Conns,
             Connect(c) \/ Accept(c) \/ Shake(c) \/ HangUp(c) \/ Dispatch(c) \/ Reply(c)
      PROVE  CountInv'
  <2>1. inflight' = inflight
    BY <1>1 DEF Connect, Accept, Shake, HangUp, Dispatch, Reply
  <2>2. Counted' = Counted
    BY <1>1, CountedChanges DEF Connect, Accept, Shake, HangUp, Dispatch, Reply
  <2> QED BY <2>1, <2>2
<1>2. ASSUME NEW c \in Conns, Enter(c) PROVE CountInv'
  <2>1. c \notin Counted /\ Counted' = Counted \cup {c}
    BY <1>2, CountedChanges DEF Enter
  <2>2. Cardinality(Counted') = Cardinality(Counted) + 1
    BY <2>1, FS_AddElement
  <2> QED BY <1>2, <2>2 DEF Enter
<1>3. ASSUME NEW c \in Conns, Leave(c) PROVE CountInv'
  <2>1. c \in Counted /\ Counted' = Counted \ {c}
    BY <1>3, CountedChanges DEF Leave
  <2>2. Cardinality(Counted') = Cardinality(Counted) - 1 /\ Cardinality(Counted) # 0
    BY <2>1, FS_RemoveElement, FS_EmptySet
  <2>3. inflight' = OneFewer(inflight) /\ inflight \in Nat
    BY <1>3 DEF Leave, ServiceTypeOK
  <2> QED BY <2>2, <2>3 DEF OneFewer
<1>4. CASE Close
  <2>1. Counted' = Counted
    BY <1>4 DEF Close, Counted, ServiceTypeOK
  <2> QED BY <1>4, <2>1 DEF Close
<1>5. CASE UNCHANGED <<inflight, conn>>
  BY <1>5 DEF Counted
<1> QED
  BY <1>1, <1>2, <1>3, <1>4, <1>5
  DEF ServiceNext, Poll, Exit, Signal, Tick, EndLoop, Report, Shutdown, serviceVars

\* A drain that found nobody in flight is not followed by work.
LEMMA DrainStep == ServiceTypeOK /\ CountInv /\ DrainInv /\ [ServiceNext]_serviceVars => DrainInv'
<1> SUFFICES ASSUME ServiceTypeOK, CountInv, DrainInv, [ServiceNext]_serviceVars PROVE DrainInv'
  OBVIOUS
<1> USE DEF DrainInv, DrainedMeansIdle, OnlyDeadlineAbandons, ServiceTypeOK
<1>c. inflight = 0 => \A c \in Conns : conn[c] # "handling"
  <2> SUFFICES ASSUME inflight = 0 PROVE Counted = {}
    BY DEF Counted
  <2> QED BY CountedFinite, FS_EmptySet DEF CountInv
<1>1. ASSUME NEW c \in Conns,
             \/ Connect(c) \/ Accept(c) \/ Shake(c) \/ Enter(c) \/ HangUp(c)
             \/ Dispatch(c) \/ Reply(c) \/ Leave(c)
      PROVE  DrainInv'
  BY <1>1 DEF Connect, Accept, Shake, Enter, HangUp, Dispatch, Reply, Leave, Becomes
<1>2. CASE Report
  BY <1>2, <1>c DEF Report, Verdict
<1>3. CASE Close
  BY <1>3 DEF Close
<1>4. CASE Poll \/ Exit \/ Signal \/ Tick \/ EndLoop \/ Shutdown
  BY <1>4, <1>c, ServiceAssumed DEF Poll, Exit, Signal, Tick, EndLoop, LoopOver, Shutdown
<1>5. CASE UNCHANGED serviceVars
  BY <1>5 DEF serviceVars
<1> QED BY <1>1, <1>2, <1>3, <1>4, <1>5 DEF ServiceNext

LEMMA DrainHolds == ServiceSpec => []DrainInv
<1>1. ServiceInit => CountInv /\ DrainInv
  <2> SUFFICES ASSUME ServiceInit PROVE CountInv /\ DrainInv
    OBVIOUS
  <2>1. Counted = {}
    BY DEF ServiceInit, Counted
  <2> QED
    BY <2>1, FS_EmptySet
    DEF ServiceInit, CountInv, DrainInv, DrainedMeansIdle, OnlyDeadlineAbandons
<1> QED BY <1>1, CountStep, DrainStep, ServiceTypeCorrect, PTL DEF ServiceSpec

\* When the service reports that it has drained, no handler is at work, and none
\* starts afterwards, for any number of connections and threads.
THEOREM DrainIsComplete == ServiceSpec => []DrainedMeansIdle
<1>1. DrainInv => DrainedMeansIdle
  BY DEF DrainInv
<1> QED BY <1>1, DrainHolds, PTL

\* A handler that is at work when the service has stopped waiting has been given the whole
\* grace period, for any number of connections that are counted late.
THEOREM DeadlineAlone == ServiceSpec => []OnlyDeadlineAbandons
<1>1. DrainInv => OnlyDeadlineAbandons
  BY DEF DrainInv
<1> QED BY <1>1, DrainHolds, PTL

LEMMA MainInit == ServiceInit => MainInv
BY DEF ServiceInit, MainInv

LEMMA MainStep == ServiceTypeOK /\ MainInv /\ [ServiceNext]_serviceVars => MainInv'
<1> SUFFICES ASSUME ServiceTypeOK, MainInv, [ServiceNext]_serviceVars PROVE MainInv'
  OBVIOUS
<1> USE DEF MainInv, ServiceTypeOK
<1>1. ASSUME NEW c \in Conns, Connect(c) \/ Accept(c) \/ Shake(c) PROVE MainInv'
  BY <1>1 DEF Connect, Accept, Shake, Becomes
<1>2. ASSUME NEW c \in Conns,
             Enter(c) \/ HangUp(c) \/ Dispatch(c) \/ Reply(c) \/ Leave(c)
      PROVE  MainInv'
  BY <1>2 DEF Enter, HangUp, Dispatch, Reply, Leave, Becomes
<1>3. CASE Poll \/ Close \/ Exit
  BY <1>3 DEF Poll, Close, Exit
<1>4. CASE Signal \/ Tick \/ EndLoop \/ Report \/ Shutdown
  BY <1>4 DEF Signal, Tick, EndLoop, Report, Shutdown
<1>5. CASE UNCHANGED serviceVars
  BY <1>5 DEF serviceVars
<1> QED BY <1>1, <1>2, <1>3, <1>4, <1>5 DEF ServiceNext

\* The stages of a drain, counted down to the closed socket.  The ticks of grace come
\* first; once the loop is asked to stop, one connection at most is still let in.
DrainRank ==
    IF handler = "waiting" THEN left + 6
    ELSE IF handler = "over" THEN 5
    ELSE IF ~stop THEN 4
    ELSE CASE main = "ready" -> 3 [] main = "handshake" -> 2 [] main = "select" -> 1
           [] OTHER -> 0

\* Nothing sets a drain back: no later signal, no connection that is still let in and
\* no request that is counted late.
DrainOnlyAdvances == [][draining => DrainRank' <= DrainRank]_serviceVars

\* What takes a drain to its next stage: time or the loop's condition, the report, the
\* thread that calls httpd.shutdown, and then the accept loop, which must be free, or
\* has let a client in whose handshake it waits for.
DrainCanGoOn ==
    \/ handler = "waiting" /\ (left > 0 \/ LoopOver)
    \/ handler = "over"
    \/ handler \in {"drained", "forced"} /\ ~stop
    \/ /\ stop /\ ~Interrupted
       /\ \/ main = "select"
          \/ main = "ready" /\ \E c \in Conns : conn[c] = "backlog"
          \/ main = "handshake" /\ \E c \in Conns : conn[c] = "handshake"

\* A drain is never stuck by the service's own doing: at each stage one of its parties, or
\* the one client that is in its handshake, can take it to the next, and none of them
\* waits for another that waits for it (httpd.shutdown waits for the accept loop, which
\* waits for the signal handler: so the handler must not wait for it).
DrainNeverStuck == draining /\ main \notin {"joining", "exited"} => DrainCanGoOn

\* What each party of a drain finds when its turn comes: the signal handler has the main
\* thread to itself until it has reported, the loop is asked to stop only afterwards,
\* and the accept loop is never at a connection that is not there.
StageInv ==
    /\ draining <=> handler # "none"
    /\ stop => handler \in {"drained", "forced"}
    /\ main = "ready" => \E c \in Conns : conn[c] = "backlog"
    /\ main = "handshake" => \E c \in Conns : conn[c] = "handshake"

LEMMA StageStep == ServiceTypeOK /\ MainInv /\ StageInv /\ [ServiceNext]_serviceVars => StageInv'
<1> SUFFICES ASSUME ServiceTypeOK, MainInv, StageInv, [ServiceNext]_serviceVars PROVE StageInv'
  OBVIOUS
<1> USE DEF StageInv, Interrupted
<1>1. ASSUME NEW c \in Conns, Connect(c) \/ Accept(c) \/ Shake(c) PROVE StageInv'
  <2>1. /\ main' = "ready" => \E d \in Conns : conn'[d] = "backlog"
        /\ main' = "handshake" => \E d \in Conns : conn'[d] = "handshake"
    BY <1>1 DEF Connect, Accept, Shake, Becomes, MainInv, ServiceTypeOK
  <2>2. UNCHANGED <<handler, stop, draining>>
    BY <1>1 DEF Connect, Accept, Shake
  <2> QED BY <2>1, <2>2
<1>2. ASSUME NEW c \in Conns,
             Enter(c) \/ HangUp(c) \/ Dispatch(c) \/ Reply(c) \/ Leave(c)
      PROVE  StageInv'
  <2>1. UNCHANGED <<main, handler, stop, draining>>
    BY <1>2 DEF Enter, HangUp, Dispatch, Reply, Leave
  <2>2. \A d \in Conns : conn[d] \in {"backlog", "handshake"} => conn'[d] = conn[d]
    BY <1>2 DEF Enter, HangUp, Dispatch, Reply, Leave, Becomes, ServiceTypeOK
  <2> QED BY <2>1, <2>2
<1>3. CASE Poll \/ Close \/ Exit
  BY <1>3 DEF Poll, Close, Exit
<1>4. CASE Signal \/ Tick \/ EndLoop \/ Report \/ Shutdown
  <2>1. UNCHANGED <<main, conn>>
    BY <1>4 DEF Signal, Tick, EndLoop, Report, Shutdown
  <2>2. CASE Signal
    <3>1. draining' /\ handler' = "waiting" /\ stop' = stop /\ ~stop
      BY <2>2 DEF Signal
    <3> QED BY <2>1, <3>1
  <2>3. CASE Tick \/ EndLoop \/ Report
    <3>1. /\ handler \in {"waiting", "over"} /\ handler' # "none"
          /\ UNCHANGED <<stop, draining>>
      BY <2>3 DEF Tick, EndLoop, Report, Verdict
    <3> QED BY <2>1, <3>1
  <2>4. CASE Shutdown
    <3>1. handler' \in {"drained", "forced"} /\ UNCHANGED <<handler, draining>>
      BY <2>4 DEF Shutdown
    <3> QED BY <2>1, <3>1
  <2> QED BY <1>4, <2>2, <2>3, <2>4
<1>5. CASE UNCHANGED serviceVars
  BY <1>5 DEF serviceVars
<1> QED BY <1>1, <1>2, <1>3, <1>4, <1>5 DEF ServiceNext

LEMMA StageHolds == ServiceSpec => [](ServiceTypeOK /\ MainInv /\ StageInv)
<1>1. ServiceInit => StageInv
  BY DEF ServiceInit, StageInv
<1> QED BY <1>1, MainInit, MainStep, StageStep, ServiceTypeCorrect, PTL DEF ServiceSpec

\* At every stage of a drain somebody can take it to the next: the main thread, the
\* signal handler on it and the thread that stops the loop never wait for one another.
\* Where it is a client's turn, to end its handshake, nothing makes the client take it.
THEOREM DrainIsNeverStuck == ServiceSpec => []DrainNeverStuck
<1>1. ServiceTypeOK /\ StageInv => DrainNeverStuck
  BY ServiceAssumed DEF ServiceTypeOK, StageInv, DrainNeverStuck, DrainCanGoOn, LoopOver, Interrupted
<1> QED BY <1>1, StageHolds, PTL

\* DrainRank, read off the stages.
RankTable ==
    /\ DrainRank \in Int
    /\ handler = "waiting" => DrainRank = left + 6 /\ DrainRank >= 6
    /\ handler = "over" => DrainRank = 5
    /\ ~Interrupted => DrainRank \in 0 .. 4
    /\ ~Interrupted /\ ~stop => DrainRank = 4
    /\ ~Interrupted /\ stop =>
           /\ DrainRank \in 0 .. 3
           /\ main = "ready" => DrainRank = 3
           /\ main = "handshake" => DrainRank = 2
           /\ main = "select" => DrainRank = 1
           /\ main \in {"joining", "exited"} => DrainRank = 0

LEMMA RankIs == ServiceTypeOK => RankTable
<1> SUFFICES ASSUME ServiceTypeOK PROVE RankTable
  OBVIOUS
<1>1. left \in Nat
  BY ServiceAssumed DEF ServiceTypeOK
<1> QED BY <1>1 DEF RankTable, DrainRank, Interrupted

LEMMA RankIsNext == ServiceTypeOK' => RankTable'
<1> SUFFICES ASSUME ServiceTypeOK' PROVE RankTable'
  OBVIOUS
<1>1. left' \in Nat
  BY ServiceAssumed DEF ServiceTypeOK
<1> QED BY <1>1 DEF RankTable, DrainRank, Interrupted

\* What may take a drain to its next stage, when DrainCanGoOn.
GoesOn ==
    \/ Tick \/ EndLoop \/ Report \/ Shutdown
    \/ stop /\ (Close \/ \E c \in Conns : Accept(c) \/ Shake(c))

LEMMA RankAfter ==
    ASSUME ServiceTypeOK, ServiceTypeOK', MainInv, StageInv, draining, GoesOn
    PROVE  DrainRank' < DrainRank
<1> USE RankIs, RankIsNext DEF Interrupted, RankTable
<1>1. CASE Tick
  <2>1. handler = "waiting" /\ handler' = "waiting" /\ left \in Nat /\ left' = left - 1
    BY <1>1, ServiceAssumed DEF Tick, ServiceTypeOK
  <2>2. DrainRank = left + 6 /\ DrainRank' = left' + 6
    BY <2>1
  <2> QED BY <2>1, <2>2
<1>2. CASE EndLoop
  BY <1>2 DEF EndLoop
<1>3. CASE Report
  BY <1>3 DEF Report, Verdict
<1>4. CASE Shutdown
  <2>1. ~Interrupted /\ ~stop /\ ~Interrupted' /\ stop'
    BY <1>4 DEF Shutdown
  <2> QED BY <2>1
<1>5. CASE stop /\ (Close \/ \E c \in Conns : Accept(c) \/ Shake(c))
  <2>1. ~Interrupted /\ UNCHANGED <<handler, stop>>
    BY <1>5 DEF Close, Accept, Shake
  <2>2. stop' /\ ~Interrupted'
    BY <1>5, <2>1
  <2>3. \/ main = "ready" /\ main' = "handshake"
        \/ main = "handshake" /\ main' = "select"
        \/ main = "select" /\ main' = "joining"
    BY <1>5 DEF Close, Accept, Shake, Becomes, MainInv
  <2> QED BY <1>5, <2>1, <2>2, <2>3
<1> QED BY <1>1, <1>2, <1>3, <1>4, <1>5 DEF GoesOn

LEMMA RankKept ==
    ASSUME UNCHANGED <<main, handler, left, stop>>
    PROVE  DrainRank' = DrainRank
BY DEF DrainRank

\* No step of a draining service raises the rank.
LEMMA RankFalls ==
    ASSUME ServiceTypeOK, ServiceTypeOK', MainInv, StageInv, draining,
           [ServiceNext]_serviceVars
    PROVE  DrainRank' <= DrainRank
<1>0. DrainRank \in Int /\ DrainRank' \in Int
  BY RankIs, RankIsNext DEF RankTable
<1>1. CASE GoesOn
  BY <1>0, <1>1, RankAfter
<1>2. ASSUME NEW c \in Conns,
             \/ Connect(c) \/ Enter(c) \/ HangUp(c) \/ Dispatch(c) \/ Reply(c) \/ Leave(c)
      PROVE  DrainRank' <= DrainRank
  <2>1. UNCHANGED <<main, handler, left, stop>>
    BY <1>2 DEF Connect, Enter, HangUp, Dispatch, Reply, Leave
  <2> QED BY <1>0, <2>1, RankKept
<1>3. CASE ~stop /\ (Close \/ Poll \/ \E c \in Conns : Accept(c) \/ Shake(c))
  <2>1. ~Interrupted /\ UNCHANGED <<handler, stop>>
    BY <1>3 DEF Close, Poll, Accept, Shake
  <2>2. ~stop' /\ ~Interrupted'
    BY <1>3, <2>1 DEF Interrupted
  <2> QED BY <1>3, <2>1, <2>2, RankIs, RankIsNext DEF RankTable
<1>4. CASE Exit
  <2>1. main \in {"joining", "exited"} /\ main' = "exited" /\ UNCHANGED <<handler, left, stop>>
    BY <1>4 DEF Exit
  <2>2. CASE stop /\ ~Interrupted
    <3>1. stop' /\ ~Interrupted'
      BY <2>1, <2>2 DEF Interrupted
    <3> QED BY <2>1, <2>2, <3>1, RankIs, RankIsNext DEF RankTable
  <2>3. CASE ~stop /\ ~Interrupted
    <3>1. ~stop' /\ ~Interrupted'
      BY <2>1, <2>3 DEF Interrupted
    <3> QED BY <2>3, <3>1, RankIs, RankIsNext DEF RankTable
  <2>4. CASE Interrupted
    <3>1. DrainRank' = DrainRank
      BY <2>1, <2>4, RankIs, RankIsNext DEF RankTable, Interrupted
    <3> QED BY <1>0, <3>1
  <2> QED BY <2>2, <2>3, <2>4
<1>5. ~Signal
  BY DEF Signal
<1>6. CASE UNCHANGED serviceVars
  BY <1>0, <1>6, RankKept DEF serviceVars
<1>7. stop \/ ~stop
  OBVIOUS
<1> QED BY <1>1, <1>2, <1>3, <1>4, <1>5, <1>6, <1>7 DEF ServiceNext, GoesOn, Poll

\* Nothing that clients, handlers or signals do sets a drain back.
THEOREM DrainsAdvance == ServiceSpec => DrainOnlyAdvances
<1>1. ServiceTypeOK /\ ServiceTypeOK' /\ MainInv /\ StageInv /\ [ServiceNext]_serviceVars
      => [draining => DrainRank' <= DrainRank]_serviceVars
  BY RankFalls
<1> QED BY <1>1, StageHolds, PTL DEF ServiceSpec, DrainOnlyAdvances

\* Each of the steps that DrainIsNeverStuck finds possible brings a drain nearer to its
\* end, so at most Grace + 6 of them separate the signal from the closed socket.
THEOREM DrainsProgress ==
    ServiceSpec => /\ [](DrainRank \in 0 .. Grace + 6)
                   /\ [][draining /\ GoesOn => DrainRank' < DrainRank]_serviceVars
<1>1. ServiceTypeOK => DrainRank \in 0 .. Grace + 6
  BY ServiceAssumed DEF ServiceTypeOK, DrainRank
<1>2. ServiceTypeOK /\ ServiceTypeOK' /\ MainInv /\ StageInv /\ [ServiceNext]_serviceVars
      => [draining /\ GoesOn => DrainRank' < DrainRank]_serviceVars
  BY RankAfter
<1> QED BY <1>1, <1>2, StageHolds, PTL DEF ServiceSpec

(***************************************************************************)
(* Certificates.                                                           *)
(***************************************************************************)

LEMMA CertAssumed ==
    /\ IsFiniteSet(Services) /\ Gateway \in Services /\ Services \subseteq Actors
    /\ Provisioner \notin Services /\ Rotate \notin Services /\ "ca" \notin Services
    /\ Provisioner # Rotate /\ Provisioner \in Actors /\ Rotate \in Actors
BY CertificatesAssumption DEF CertificatesAssumption, Provisioner, Rotate, Actors

\* The files are told apart by their names.
LEMMA FileNames ==
    /\ CaKey \in Files /\ CaCert \in Files /\ CaKey # CaCert
    /\ CaKey \in CaFiles /\ CaCert \in CaFiles
    /\ \A s \in Services :
          /\ KeyOf(s) \in LeafFiles /\ CertOf(s) \in LeafFiles /\ KeyOf(s) # CertOf(s)
          /\ KeyOf(s) \in Files /\ CertOf(s) \in Files
          /\ {KeyOf(s), CertOf(s)} \cap CaFiles = {}
          /\ \A x \in Services : x # s => {KeyOf(s), CertOf(s)} \cap {KeyOf(x), CertOf(x)} = {}
BY CertAssumed DEF CaKey, CaCert, CaFiles, LeafFiles, Files, KeyOf, CertOf

\* A file is one of these four.
LEMMA EachFile ==
    ASSUME NEW f \in Files
    PROVE  \/ f = CaKey \/ f = CaCert
           \/ \E s \in Services : f = KeyOf(s) \/ f = CertOf(s)
BY DEF CaKey, CaCert, CaFiles, LeafFiles, Files, KeyOf, CertOf

LEMMA FileKinds ==
    /\ CaKey[1] = "ca" /\ CaKey[2] = "key" /\ CaCert[1] = "ca" /\ CaCert[2] = "cert"
    /\ \A s \in Services : /\ KeyOf(s)[1] = s /\ KeyOf(s)[2] = "key"
                           /\ CertOf(s)[1] = s /\ CertOf(s)[2] = "cert"
BY DEF CaKey, CaCert, KeyOf, CertOf

\* What a task is can be told from its first field.
LEMMA TaskKinds ==
    ASSUME NEW k \in Tasks
    PROVE  /\ k.do \in {"trust", "preflight", "ca", "issue", "move"}
           /\ k.do = "trust" <=> k = Trust
           /\ k.do = "preflight" <=> k = Preflight
           /\ k.do = "ca" <=> k = Ensure
           /\ k.do = "issue" => k.leaf \in Services /\ k = Issue(k.leaf)
           /\ k.do = "move" => k.files \in SUBSET Files /\ k = Move(k.files)
BY DEF Tasks, Trust, Preflight, Ensure, Issue, Move

\* The list of services that provision_certs goes through.
LEMMA ServicesListed ==
    /\ Cardinality(Services) \in Nat
    /\ SetToSeq(Services) \in [1 .. Cardinality(Services) -> Services]
    /\ \A s \in Services : \E i \in 1 .. Cardinality(Services) : SetToSeq(Services)[i] = s
<1> DEFINE n == Cardinality(Services)
<1>1. n \in Nat /\ \E f : f \in Bijection(1 .. n, Services)
  BY CertAssumed, FS_CardinalityType DEF ExistsBijection
<1>2. PICK f : f \in Bijection(1 .. n, Services)
  BY <1>1
<1>3. f \in [1 .. n -> Services] /\ IsInjective(f)
  BY <1>2 DEF Bijection, Injection, IsInjective
<1>4. SetToSeq(Services) \in [1 .. n -> Services] /\ IsInjective(SetToSeq(Services))
  BY <1>3 DEF SetToSeq
<1>5. IsFiniteSet(1 .. n) /\ Cardinality(1 .. n) = n
  BY <1>1, FS_Interval
<1>6. SetToSeq(Services) \in Surjection(1 .. n, Services)
  <2>1. SetToSeq(Services) \in Injection(1 .. n, Services)
    BY <1>4 DEF Injection, IsInjective
  <2> QED BY <2>1, <1>5, CertAssumed, FS_Injection
<1> QED BY <1>1, <1>4, <1>6 DEF Surjection

(***************************************************************************)
(* Types.                                                                  *)
(***************************************************************************)

\* Key pairs are numbered as they are made.
NumbersInv ==
    /\ \A f \in Files : disk[f].pair <= made
    /\ \A a \in Actors : run[a].pair <= made

CertTyped == CertTypeOK /\ NumbersInv

LEMMA TaskTyped ==
    ASSUME CertTypeOK, NEW a \in Actors, Running(a)
    PROVE  Head(run[a].todo) \in Tasks /\ Tail(run[a].todo) \in Seq(Tasks)
           /\ Len(run[a].todo) \in Nat \ {0}
<1>1. run[a].todo \in Seq(Tasks) /\ run[a].todo # << >>
  BY DEF CertTypeOK, Running, RunState
<1> QED BY <1>1, HeadTailProperties

LEMMA BeginsAs ==
    ASSUME NEW todo \in Seq(Tasks), NEW at \in Nat
    PROVE  Begins(todo, at) \in RunState /\ Begins(todo, at).pair = 0
BY DEF Begins, RunState, Steps

LEMMA RestTyped == AtRest \in RunState /\ AtRest.pair = 0
<1>1. << >> \in Seq(Tasks)
  OBVIOUS
<1> QED BY <1>1, BeginsAs DEF AtRest

LEMMA FinishAs ==
    ASSUME CertTypeOK, NEW a \in Actors, Running(a), Finish(a)
    PROVE  /\ \A b \in Actors : b # a => run'[b] = run[b]
           /\ run'[a] = IF Len(run[a].todo) = 1 THEN AtRest
                       ELSE Begins(Tail(run[a].todo), run[a].at)
           /\ run' \in [Actors -> RunState] /\ run'[a].pair = 0
<1>1. AtRest \in RunState /\ AtRest.pair = 0
  BY RestTyped
<1>2. run[a].at \in Nat /\ run \in [Actors -> RunState]
  BY DEF CertTypeOK, RunState
<1> QED BY <1>1, <1>2, TaskTyped, BeginsAs DEF Finish

LEMMA GotoAs ==
    ASSUME CertTypeOK, NEW a \in Actors, NEW step \in Steps, Goto(a, step)
    PROVE  /\ \A b \in Actors : b # a => run'[b] = run[b]
           /\ run'[a] = [run[a] EXCEPT !.step = step]
           /\ run' \in [Actors -> RunState]
           /\ run'[a].pair = run[a].pair
BY DEF Goto, CertTypeOK, RunState

LEMMA ExitsAs ==
    ASSUME CertTypeOK, NEW a \in Actors, Exits(a)
    PROVE  /\ \A b \in Actors : b # a => run'[b] = run[b]
           /\ \A s \in Services : s # a => held'[s] = held[s]
           /\ run'[a] = AtRest
           /\ a \in Services => held'[a] = Nothing
           /\ run' \in [Actors -> RunState]
           /\ held' \in [Services -> [trust : Nat, leaf : Contents]]
<1>1. AtRest \in RunState
  BY RestTyped
<1>2. Nothing \in [trust : Nat, leaf : Contents]
  BY DEF Nothing, NoFile, Holds, Contents
<1> QED BY <1>1, <1>2 DEF Exits, Unload, CertTypeOK

LEMMA ThreeTasks ==
    ASSUME NEW S, NEW x \in S, NEW y \in S, NEW z \in S
    PROVE  <<x, y, z>> \in Seq(S)
OBVIOUS

\* provision_certs, with all its tasks ahead.
LEMMA PlansTyped ==
    ASSUME CertTypeOK, NEW a \in Actors, NEW plan \in Plans(a)
    PROVE  plan \in Seq(Tasks)
<1>1. CASE a = Gateway \/ a \notin {Provisioner, Rotate}
  <2>1. a \in Services
    BY <1>1, CertAssumed DEF Actors
  <2>2. Trust \in Tasks /\ Preflight \in Tasks /\ Issue(a) \in Tasks
    BY <2>1 DEF Tasks
  <2>3. plan \in {<<Trust, Issue(a), Preflight>>, <<Preflight, Issue(a), Trust>>}
    BY <1>1, CertAssumed DEF Plans
  <2> QED BY <2>2, <2>3, ThreeTasks
<1>2. CASE a = Provisioner
  <2> DEFINE n == Cardinality(Services)
             leaves == [i \in 1 .. n |-> Issue(SetToSeq(Services)[i])]
  <2>1. \A i \in 1 .. n : Issue(SetToSeq(Services)[i]) \in Tasks
    BY ServicesListed DEF Tasks
  <2>2. leaves \in Seq(Tasks)
    BY <2>1, ServicesListed
  <2>3. <<Ensure>> \in Seq(Tasks)
    BY DEF Tasks
  <2>4. plan = <<Ensure>> \o leaves
    BY <1>2, CertAssumed DEF Plans
  <2> QED BY <2>2, <2>3, <2>4, ConcatProperties
<1>3. CASE a = Rotate
  <2>1. PICK fs \in SUBSET Files : plan = <<Move(fs)>>
    BY <1>3, CertAssumed DEF Plans, Files
  <2> QED BY <2>1 DEF Tasks
<1> QED BY <1>1, <1>2, <1>3

\* What a disk is after one file has changed.
LEMMA DiskTyped ==
    ASSUME CertTyped, NEW f \in Files, NEW c \in Contents, disk' = [disk EXCEPT ![f] = c],
           c.pair <= made, made' = made
    PROVE  disk' \in [Files -> Contents] /\ \A g \in Files : disk'[g].pair <= made'
BY DEF CertTyped, CertTypeOK, NumbersInv, Contents

LEMMA FilesTyped ==
    /\ NoFile \in Contents /\ Blank \in Contents
    /\ NoFile.pair = 0 /\ Blank.pair = 0 /\ NoFile.at = 0 /\ Blank.at = 0 /\ NoFile # Blank
    /\ Nothing \in [trust : Nat, leaf : Contents]
    /\ Nothing.trust = 0 /\ Nothing.leaf = NoFile
BY DEF NoFile, Blank, Holds, Contents, Nothing

LEMMA ContentTyped ==
    ASSUME CertTyped, NEW a \in Actors, NEW f \in Files
    PROVE  Content(a, f) \in Contents /\ Content(a, f).pair = run[a].pair
BY DEF CertTyped, CertTypeOK, RunState, Content, Contents, Holds

LEMMA StepsTyped ==
    /\ <<"begin">> \in Steps /\ <<"ca">> \in Steps /\ <<"load">> \in Steps /\ <<"chain">> \in Steps
    /\ \A f \in Files : <<"open", f>> \in Steps /\ <<"write", f>> \in Steps
BY DEF Steps

LEMMA RunTyped ==
    ASSUME CertTypeOK, NEW a \in Actors
    PROVE  /\ run[a] \in RunState
           /\ run[a].at \in Nat /\ run[a].pair \in Nat /\ run[a].by \in Nat
BY DEF CertTypeOK, RunState

LEMMA RunChanges ==
    ASSUME CertTypeOK, NEW a \in Actors, NEW r \in RunState, run' = [run EXCEPT ![a] = r]
    PROVE  /\ run' \in [Actors -> RunState] /\ run'[a] = r
           /\ \A b \in Actors : b # a => run'[b] = run[b]
BY DEF CertTypeOK

LEMMA IssuedAs ==
    ASSUME CertTypeOK, NEW a \in Actors, Running(a), Issued(a)
    PROVE  /\ run' \in [Actors -> RunState] /\ run'[a].pair \in {0, run[a].pair}
           /\ \A b \in Actors : b # a => run'[b] = run[b]
<1>1. CASE a \in Services
  BY <1>1, GotoAs, StepsTyped DEF Issued
<1>2. CASE a \notin Services
  BY <1>2, FinishAs DEF Issued
<1> QED BY <1>1, <1>2

LEMMA InitTyped == CertInit => CertTyped
<1> SUFFICES ASSUME CertInit PROVE CertTyped
  OBVIOUS
<1>1. run \in [Actors -> RunState] /\ \A a \in Actors : run[a].pair = 0
  BY RestTyped DEF CertInit
<1>2. held \in [Services -> [trust : Nat, leaf : Contents]]
  BY FilesTyped DEF CertInit
<1>3. made \in Nat /\ disk \in [Files -> Contents] /\ \A f \in Files : disk[f].pair <= made
  <2>1. CASE disk = [f \in Files |-> NoFile] /\ made = 0
    BY <2>1, FilesTyped
  <2>2. CASE disk = Provisioned /\ made = Cardinality(Services) + 1
    <3> DEFINE n == Cardinality(Services)
               pair(f) == IF f \in CaFiles THEN 1
                          ELSE 1 + CHOOSE i \in 1 .. n : SetToSeq(Services)[i] = f[1]
               content(f) == CASE f[2] = "key"  -> Holds(pair(f), 0, 0)
                           [] f = CaCert    -> Holds(1, 1, 0)
                           [] OTHER         -> Holds(pair(f), 1, 1)
    <3>1. n \in Nat
      BY ServicesListed
    <3>2. \A f \in Files : pair(f) \in 1 .. n + 1
      <4> SUFFICES ASSUME NEW f \in Files PROVE pair(f) \in 1 .. n + 1
        OBVIOUS
      <4>1. CASE f \in CaFiles
        BY <4>1, <3>1
      <4>2. CASE f \notin CaFiles
        <5>1. f[1] \in Services
          BY <4>2 DEF Files, LeafFiles
        <5>2. \E i \in 1 .. n : SetToSeq(Services)[i] = f[1]
          BY <5>1, ServicesListed
        <5> QED BY <4>2, <5>2, <3>1
      <4> QED BY <4>1, <4>2
    <3> HIDE DEF pair, n
    <3>3. \A f \in Files : content(f) \in Contents /\ content(f).pair <= n + 1
      BY <3>1, <3>2 DEF Holds, Contents
    <3>4. disk = [f \in Files |-> content(f)]
      BY <2>2 DEF Provisioned, pair, n
    <3> QED BY <2>2, <3>1, <3>3, <3>4 DEF n
  <2> QED BY <2>1, <2>2 DEF CertInit
<1>4. \A a \in Actors : run[a].pair <= made
  BY <1>1, <1>3
<1> QED BY <1>1, <1>2, <1>3, <1>4 DEF CertInit, CertTyped, CertTypeOK, NumbersInv

\* What the steps have in common: one run changes.
LEMMA TypesFromParts ==
    ASSUME CertTyped, NEW a \in Actors,
           run' \in [Actors -> RunState], \A b \in Actors : b # a => run'[b] = run[b],
           made' \in Nat, made' >= made, run'[a].pair <= made',
           disk' \in [Files -> Contents], \A f \in Files : disk'[f].pair <= made',
           held' \in [Services -> [trust : Nat, leaf : Contents]],
           runs' \in Nat, address' \in Nat, mishaps' \in Nat,
           expired' \subseteq 1 .. made', retired' \subseteq 1 .. made',
           aged' \subseteq Services, mixedUp' \in BOOLEAN
    PROVE  CertTyped'
<1>1. \A b \in Actors : run'[b].pair <= made'
  <2> SUFFICES ASSUME NEW b \in Actors PROVE run'[b].pair <= made'
    OBVIOUS
  <2>1. run[b].pair <= made /\ run[b].pair \in Nat /\ made \in Nat
    BY RunTyped DEF CertTyped, NumbersInv, CertTypeOK
  <2>2. CASE b # a
    BY <2>1, <2>2
  <2> QED BY <2>2
<1> QED BY <1>1 DEF CertTyped, CertTypeOK, NumbersInv

LEMMA Unwritten ==
    ASSUME CertTyped, made' \in Nat, made' >= made, disk' = disk
    PROVE  /\ disk' \in [Files -> Contents] /\ \A f \in Files : disk'[f].pair <= made'
           /\ \A a \in Actors : run[a].pair <= made'
           /\ expired \subseteq 1 .. made' /\ retired \subseteq 1 .. made'
<1>1. \A f \in Files : disk[f].pair \in Nat /\ disk[f].pair <= made
  BY DEF CertTyped, CertTypeOK, NumbersInv, Contents
<1>2. \A a \in Actors : run[a].pair \in Nat /\ run[a].pair <= made
  BY RunTyped DEF CertTyped, NumbersInv
<1> QED BY <1>1, <1>2 DEF CertTyped, CertTypeOK

LEMMA TypeStep == CertTyped /\ [CertNext]_certVars => CertTyped'
<1> SUFFICES ASSUME CertTyped, [CertNext]_certVars PROVE CertTyped'
  OBVIOUS
<1> CertTypeOK
  BY DEF CertTyped
<1>t. /\ made \in Nat /\ runs \in Nat /\ runs + 1 \in Nat /\ address \in Nat /\ address + 1 \in Nat
      /\ mishaps \in Nat /\ mishaps + 1 \in Nat
      /\ expired \subseteq 1 .. made /\ retired \subseteq 1 .. made /\ aged \subseteq Services
      /\ mixedUp \in BOOLEAN /\ held \in [Services -> [trust : Nat, leaf : Contents]]
      /\ run \in [Actors -> RunState]
  BY DEF CertTypeOK
<1>1. ASSUME NEW a \in Actors, Start(a) PROVE CertTyped'
  <2>1. PICK plan \in Plans(a) : run' = [run EXCEPT ![a] = Begins(plan, address)]
    BY <1>1 DEF Start
  <2>2. plan \in Seq(Tasks)
    BY PlansTyped
  <2>3. run' \in [Actors -> RunState] /\ run'[a].pair = 0
        /\ \A b \in Actors : b # a => run'[b] = run[b]
    BY <2>1, <2>2, <1>t, BeginsAs
  <2> QED BY <1>1, <1>t, <2>3, Unwritten, TypesFromParts DEF Start
<1>2. ASSUME NEW a \in Actors, Kill(a) PROVE CertTyped'
  BY <1>2, <1>t, ExitsAs, RestTyped, Unwritten, TypesFromParts DEF Kill
<1>3. ASSUME NEW a \in Actors, FindLeaf(a) PROVE CertTyped'
  <2>1. /\ run' \in [Actors -> RunState] /\ run'[a].pair \in {0, run[a].pair}
        /\ \A b \in Actors : b # a => run'[b] = run[b]
    BY <1>3, IssuedAs, GotoAs, StepsTyped DEF FindLeaf, At
  <2> QED BY <1>3, <1>t, <2>1, Unwritten, TypesFromParts DEF FindLeaf
<1>4. ASSUME NEW a \in Actors, FindCA(a) PROVE CertTyped'
  <2>1. CASE HasCA
    <3>1. /\ run' \in [Actors -> RunState] /\ run'[a].pair \in {0, run[a].pair}
          /\ \A b \in Actors : b # a => run'[b] = run[b]
      BY <1>4, <2>1, FinishAs, GotoAs, StepsTyped DEF FindCA, At
    <3> QED BY <1>4, <1>t, <2>1, <3>1, Unwritten, TypesFromParts DEF FindCA
  <2>2. CASE ~HasCA
    <3>1. made' = made + 1 /\ run' = [run EXCEPT ![a] = [@ EXCEPT !.step = <<"open", CaKey>>, !.pair = made']]
      BY <1>4, <2>2 DEF FindCA
    <3>2. run' \in [Actors -> RunState] /\ run'[a].pair = made'
          /\ \A b \in Actors : b # a => run'[b] = run[b]
      <4>1. run[a] \in RunState /\ made' \in Nat
        BY <1>t, <3>1
      <4>4. <<"open", CaKey>> \in Steps
        BY StepsTyped, FileNames
      <4> DEFINE r == [run[a] EXCEPT !.step = <<"open", CaKey>>, !.pair = made']
      <4>2. r \in RunState /\ r.pair = made'
        BY <4>1, <4>4 DEF RunState
      <4>3. run' = [run EXCEPT ![a] = r]
        BY <3>1
      <4> HIDE DEF r
      <4> QED BY <4>2, <4>3, RunChanges
    <3> QED BY <1>4, <1>t, <3>1, <3>2, Unwritten, TypesFromParts DEF FindCA
  <2> QED BY <2>1, <2>2
<1>5. ASSUME NEW a \in Actors, LoadCA(a) PROVE CertTyped'
  <2>1. CASE disk[CaKey] \in {NoFile, Blank} \/ disk[CaCert] \in {NoFile, Blank}
    BY <1>5, <1>t, <2>1, ExitsAs, RestTyped, Unwritten, TypesFromParts DEF LoadCA
  <2>2. CASE ~(disk[CaKey] \in {NoFile, Blank} \/ disk[CaCert] \in {NoFile, Blank})
    <3>1. /\ made' = made + 1 /\ held' = held
          /\ run' = [run EXCEPT ![a] = [@ EXCEPT !.pair = made', !.by = disk[CaKey].pair,
                                          !.step = <<"open", KeyOf(Head(run[a].todo).leaf)>>]]
      BY <1>5, <2>2 DEF LoadCA
    <3>2. KeyOf(Head(run[a].todo).leaf) \in Files
      BY <1>5, TaskTyped, TaskKinds, FileNames DEF LoadCA, At
    <3>3. disk[CaKey].pair \in Nat
      BY FileNames DEF CertTypeOK, Contents
    <3>4. run' \in [Actors -> RunState] /\ run'[a].pair = made'
          /\ \A b \in Actors : b # a => run'[b] = run[b]
      <4> DEFINE step == <<"open", KeyOf(Head(run[a].todo).leaf)>>
                 r == [run[a] EXCEPT !.pair = made', !.by = disk[CaKey].pair, !.step = step]
      <4>1. run[a] \in RunState /\ made' \in Nat
        BY <1>t, <3>1
      <4>4. step \in Steps
        BY <3>2, StepsTyped
      <4>2. r \in RunState /\ r.pair = made'
        BY <3>3, <4>1, <4>4 DEF RunState
      <4>3. run' = [run EXCEPT ![a] = r]
        BY <3>1
      <4> HIDE DEF r
      <4> QED BY <4>2, <4>3, RunChanges
    <3> QED BY <1>5, <1>t, <3>1, <3>4, Unwritten, TypesFromParts DEF LoadCA
  <2> QED BY <2>1, <2>2
<1>6. ASSUME NEW a \in Actors, OpenFile(a) PROVE CertTyped'
  <2>1. PICK f \in Files :
          /\ Running(a) /\ disk' = [disk EXCEPT ![f] = Blank] /\ Goto(a, <<"write", f>>)
          /\ mixedUp' = (mixedUp \/ Disturbs(a, f))
          /\ UNCHANGED <<held, runs, made, address, expired, retired, aged, mishaps>>
    BY <1>6 DEF OpenFile
  <2>2. mixedUp' \in BOOLEAN
    BY <2>1, <1>t DEF Disturbs
  <2>3. disk' \in [Files -> Contents] /\ \A g \in Files : disk'[g].pair <= made'
    <3>1. Blank \in Contents /\ Blank.pair <= made
      BY <1>t, FilesTyped
    <3>2. disk' = [disk EXCEPT ![f] = Blank] /\ made' = made
      BY <2>1
    <3> QED BY <3>1, <3>2, DiskTyped
  <2>4. run' \in [Actors -> RunState] /\ run'[a].pair = run[a].pair
        /\ \A b \in Actors : b # a => run'[b] = run[b]
    BY <2>1, GotoAs, StepsTyped
  <2>5. run[a].pair <= made
    BY DEF CertTyped, NumbersInv
  <2> QED BY <1>t, <2>1, <2>2, <2>3, <2>4, <2>5, TypesFromParts
<1>7. ASSUME NEW a \in Actors, WriteFile(a) PROVE CertTyped'
  <2>1. PICK f \in Files :
          /\ Running(a) /\ run[a].step = <<"write", f>>
          /\ disk' = [disk EXCEPT ![f] = Content(a, f)]
          /\ \/ f[2] = "key" /\ Goto(a, <<"open", <<f[1], "cert">>>>)
             \/ f = CaCert /\ IF Head(run[a].todo) = Ensure THEN Finish(a) ELSE Goto(a, <<"load">>)
             \/ f[2] = "cert" /\ f # CaCert /\ Issued(a)
          /\ mixedUp' = (mixedUp \/ Disturbs(a, f))
          /\ UNCHANGED <<held, runs, made, address, expired, retired, aged, mishaps>>
    BY <1>7 DEF WriteFile
  <2>2. mixedUp' \in BOOLEAN
    BY <2>1, <1>t DEF Disturbs
  <2>3. run[a].pair <= made
    BY DEF CertTyped, NumbersInv
  <2>4. disk' \in [Files -> Contents] /\ \A g \in Files : disk'[g].pair <= made'
    BY <2>1, <2>3, <1>t, DiskTyped, ContentTyped
  <2>5. run' \in [Actors -> RunState] /\ run'[a].pair \in {0, run[a].pair}
        /\ \A b \in Actors : b # a => run'[b] = run[b]
    <3>1. CASE f[2] = "key" /\ Goto(a, <<"open", <<f[1], "cert">>>>)
      <4>1. <<f[1], "cert">> \in Files
        BY <3>1 DEF Files, LeafFiles, CaFiles, CaKey, CaCert
      <4>2. <<"open", <<f[1], "cert">>>> \in Steps
        BY <4>1, StepsTyped
      <4> QED BY <3>1, <4>2, GotoAs
    <3>2. CASE Finish(a)
      BY <2>1, <3>2, FinishAs
    <3>3. CASE Goto(a, <<"load">>)
      BY <3>3, GotoAs, StepsTyped
    <3>4. CASE Issued(a)
      BY <2>1, <3>4, IssuedAs
    <3> QED BY <2>1, <3>1, <3>2, <3>3, <3>4
  <2> QED BY <1>t, <2>1, <2>2, <2>3, <2>4, <2>5, TypesFromParts
<1>8. ASSUME NEW s \in Services, LoadTrust(s) PROVE CertTyped'
  <2>0. s \in Actors /\ Running(s)
    BY <1>8, CertAssumed DEF LoadTrust, At
  <2>1. CASE disk[CaCert] \in {NoFile, Blank}
    BY <1>8, <1>t, <2>0, <2>1, ExitsAs, RestTyped, Unwritten, TypesFromParts DEF LoadTrust
  <2>2. CASE disk[CaCert] \notin {NoFile, Blank}
    <3>1. Load(s, "trust", disk[CaCert].pair) /\ Finish(s)
      BY <1>8, <2>2 DEF LoadTrust
    <3>2. disk[CaCert].pair \in Nat
      BY FileNames DEF CertTypeOK, Contents
    <3>3. held' \in [Services -> [trust : Nat, leaf : Contents]]
      BY <3>1, <3>2, <1>t DEF Load
    <3> QED BY <1>8, <1>t, <2>0, <3>1, <3>3, FinishAs, Unwritten, TypesFromParts DEF LoadTrust
  <2> QED BY <2>1, <2>2
<1>9. ASSUME NEW s \in Services, CheckSound(s) PROVE CertTyped'
  <2>0. s \in Actors /\ Running(s)
    BY <1>9, CertAssumed DEF CheckSound, At
  <2>1. CASE ~Sound
    BY <1>9, <1>t, <2>0, <2>1, ExitsAs, RestTyped, Unwritten, TypesFromParts DEF CheckSound
  <2>2. CASE Sound
    BY <1>9, <1>t, <2>0, <2>2, FinishAs, Unwritten, TypesFromParts DEF CheckSound
  <2> QED BY <2>1, <2>2
<1>10. ASSUME NEW s \in Services, LoadChain(s) PROVE CertTyped'
  <2>0. s \in Actors /\ Running(s)
    BY <1>10, CertAssumed DEF LoadChain, At
  <2>1. CASE ~Matching(s)
    BY <1>10, <1>t, <2>0, <2>1, ExitsAs, RestTyped, Unwritten, TypesFromParts DEF LoadChain
  <2>2. CASE Matching(s)
    <3>1. Load(s, "leaf", disk[CertOf(s)]) /\ Finish(s)
      BY <1>10, <2>2 DEF LoadChain
    <3>2. disk[CertOf(s)] \in Contents
      BY FileNames DEF CertTypeOK
    <3>3. held' \in [Services -> [trust : Nat, leaf : Contents]]
      BY <3>1, <3>2, <1>t DEF Load
    <3> QED BY <1>10, <1>t, <2>0, <3>1, <3>3, FinishAs, Unwritten, TypesFromParts DEF LoadChain
  <2> QED BY <2>1, <2>2
<1>11. ASSUME NEW s \in Services, Stop(s) PROVE CertTyped'
  BY <1>11, <1>t, CertAssumed, ExitsAs, RestTyped, Unwritten, TypesFromParts DEF Stop
<1>12. ASSUME MoveFile PROVE CertTyped'
  <2> DEFINE fs == Head(run[Rotate].todo).files
  <2>0. Running(Rotate) /\ Rotate \in Actors /\ fs \in SUBSET Files
    BY <1>12, CertAssumed, TaskTyped, TaskKinds DEF MoveFile, At
  <2>1. CASE fs = {}
    BY <1>12, <1>t, <2>0, <2>1, FinishAs, Unwritten, TypesFromParts DEF MoveFile
  <2>2. CASE fs # {}
    <3>1. PICK f \in fs :
            /\ disk' = [disk EXCEPT ![f] = NoFile]
            /\ retired' = retired \cup Retires(f)
            /\ run' = [run EXCEPT ![Rotate].todo = <<Move(fs \ {f})>>]
            /\ mixedUp' = (mixedUp \/ Disturbs(Rotate, f))
      BY <1>12, <2>2 DEF MoveFile
    <3>2. mixedUp' \in BOOLEAN
      BY <3>1, <1>t DEF Disturbs
    <3>3. made' = made /\ UNCHANGED <<held, runs, address, expired, aged, mishaps>>
      BY <1>12 DEF MoveFile
    <3>4. disk' \in [Files -> Contents] /\ \A g \in Files : disk'[g].pair <= made'
      <4>1. NoFile \in Contents /\ NoFile.pair <= made /\ f \in Files
        BY <1>t, <2>0, FilesTyped
      <4>2. disk' = [disk EXCEPT ![f] = NoFile] /\ made' = made
        BY <3>1, <3>3
      <4> QED BY <4>1, <4>2, DiskTyped
    <3>5. Retires(f) \subseteq 1 .. made
      <4>1. disk[f].pair \in Nat /\ disk[f].pair <= made
        BY <2>0 DEF CertTyped, CertTypeOK, NumbersInv, Contents
      <4> QED BY <4>1, <1>t DEF Retires
    <3>6. <<Move(fs \ {f})>> \in Seq(Tasks)
      BY <2>0 DEF Tasks
    <3>7. run' \in [Actors -> RunState] /\ run'[Rotate].pair = run[Rotate].pair
          /\ \A b \in Actors : b # Rotate => run'[b] = run[b]
      BY <1>t, <2>0, <3>1, <3>6 DEF RunState
    <3>8. run[Rotate].pair <= made
      BY <2>0 DEF CertTyped, NumbersInv
    <3> QED BY <1>t, <2>0, <3>1, <3>2, <3>3, <3>4, <3>5, <3>7, <3>8, TypesFromParts
  <2> QED BY <2>1, <2>2
<1>13. ASSUME Readdress \/ Expire PROVE CertTyped'
  <2>1. \A b \in Actors : b # Gateway => run'[b] = run[b]
    BY <1>13 DEF Readdress, Expire
  <2>2. UNCHANGED <<disk, run, held, runs, made, retired, mixedUp>>
        /\ mishaps' = mishaps + 1 /\ address' \in {address, address + 1}
        /\ aged' = aged \cup Started
    BY <1>13 DEF Readdress, Expire
  <2>3. expired' \subseteq 1 .. made
    BY <1>13, <1>t DEF Readdress, Expire
  <2>4. Started \subseteq Services
    BY DEF Started
  <2>5. Gateway \in Actors
    BY CertAssumed
  <2> QED BY <1>t, <2>1, <2>2, <2>3, <2>4, <2>5, Unwritten, TypesFromParts
<1>14. CASE UNCHANGED certVars
  BY <1>14 DEF certVars, CertTyped, CertTypeOK, NumbersInv
<1> QED
  BY <1>1, <1>2, <1>3, <1>4, <1>5, <1>6, <1>7, <1>8, <1>9, <1>10, <1>11, <1>12, <1>13, <1>14
  DEF CertNext

\* Type correctness of Certificates.
THEOREM CertTypeCorrect == CertSpec => []CertTypeOK
<1>1. CertInit => CertTyped
  BY InitTyped
<1>2. CertTyped /\ [CertNext]_certVars => CertTyped'
  BY TypeStep
<1>3. CertTyped => CertTypeOK
  BY DEF CertTyped
<1> QED BY <1>1, <1>2, <1>3, PTL DEF CertSpec

(***************************************************************************)
(* What a run has before it, and how far it is.                            *)
(***************************************************************************)

\* The task a run is at; a file that is there and has been written to the end.
Task(a) == Head(run[a].todo)
Good(f) == disk[f] \notin {NoFile, Blank}

LeafSteps(s) == {"open", "write"} \X {KeyOf(s), CertOf(s)}
CaSteps      == {"open", "write"} \X CaFiles

\* What a service still has to do.
Todos(s) ==
    IF s = Gateway
    THEN {<<Trust, Issue(s), Preflight>>, <<Issue(s), Preflight>>, <<Preflight>>}
    ELSE {<<Preflight, Issue(s), Trust>>, <<Issue(s), Trust>>, <<Trust>>}

\* The services and rotate_keys keep to their plans; who works on a leaf issues it.
Fits(a) == Running(a) =>
    /\ a \in Services => run[a].todo \in Todos(a)
    /\ a = Rotate => run[a].step = <<"begin">> /\ \E fs \in SUBSET Files : run[a].todo = <<Move(fs)>>
    /\ \A s \in Services : run[a].step \in LeafSteps(s) => Task(a) = Issue(s) /\ run[a].by >= 1
    /\ run[a].step \in {"open", "write"} \X Files => run[a].pair >= 1
    /\ run[a].at \in 1 .. address

PlanInv == address >= 1 /\ \A a \in Actors : Fits(a)

\* A certificate that has been written says who signed it and what it covers.
ContentInv ==
    /\ \A f \in Files : Good(f) => disk[f].pair >= 1
    /\ \A s \in Services : Good(CertOf(s)) =>
           disk[CertOf(s)].by >= 1 /\ disk[CertOf(s)].at \in 1 .. address

LEMMA ShortSequences ==
    ASSUME NEW x, NEW y, NEW z
    PROVE  /\ Len(<<x, y, z>>) = 3 /\ Head(<<x, y, z>>) = x /\ Tail(<<x, y, z>>) = <<y, z>>
           /\ Len(<<y, z>>) = 2 /\ Head(<<y, z>>) = y /\ Tail(<<y, z>>) = <<z>>
           /\ Len(<<z>>) = 1 /\ Head(<<z>>) = z
OBVIOUS

LEMMA ServicePlan ==
    ASSUME NEW s \in Services, Running(s), Fits(s)
    PROVE  LET todo == run[s].todo IN
           /\ Len(todo) \in 1 .. 3
           /\ Len(todo) = 2 => Head(todo) = Issue(s)
           /\ s = Gateway  => /\ Len(todo) = 3 => Head(todo) = Trust
                              /\ Len(todo) = 1 => Head(todo) = Preflight
           /\ s # Gateway => /\ Len(todo) = 3 => Head(todo) = Preflight
                             /\ Len(todo) = 1 => Head(todo) = Trust
           /\ Len(todo) > 1 => Tail(todo) \in Todos(s) /\ Len(Tail(todo)) = Len(todo) - 1
<1> DEFINE todo == run[s].todo
           first == IF s = Gateway THEN Trust ELSE Preflight
           last  == IF s = Gateway THEN Preflight ELSE Trust
<1>1. Todos(s) = {<<first, Issue(s), last>>, <<Issue(s), last>>, <<last>>}
  BY DEF Todos
<1>2. todo \in Todos(s)
  BY CertAssumed DEF Fits
<1> HIDE DEF todo, first, last
<1>3. /\ Len(todo) \in 1 .. 3
      /\ Len(todo) = 3 => Head(todo) = first
      /\ Len(todo) = 2 => Head(todo) = Issue(s)
      /\ Len(todo) = 1 => Head(todo) = last
      /\ Len(todo) > 1 => Tail(todo) \in Todos(s) /\ Len(Tail(todo)) = Len(todo) - 1
  <2>1. CASE todo = <<first, Issue(s), last>>
    <3>1. Len(todo) = 3 /\ Head(todo) = first /\ Tail(todo) = <<Issue(s), last>> /\ Len(Tail(todo)) = 2
      BY <2>1, ShortSequences
    <3> QED BY <3>1, <1>1
  <2>2. CASE todo = <<Issue(s), last>>
    <3>1. Len(todo) = 2 /\ Head(todo) = Issue(s) /\ Tail(todo) = <<last>> /\ Len(Tail(todo)) = 1
      BY <2>2, ShortSequences
    <3> QED BY <3>1, <1>1
  <2>3. CASE todo = <<last>>
    <3>1. Len(todo) = 1 /\ Head(todo) = last
      BY <2>3, ShortSequences
    <3> QED BY <3>1
  <2> QED BY <1>1, <1>2, <2>1, <2>2, <2>3
<1> QED BY <1>3 DEF todo, first, last

LEMMA TodosLast == \A s : \A todo \in Todos(s) : todo # << >>
<1> SUFFICES ASSUME NEW s, NEW todo \in Todos(s) PROVE todo # << >>
  OBVIOUS
<1>1. CASE s = Gateway
  BY <1>1, ShortSequences DEF Todos
<1>2. CASE s # Gateway
  BY <1>2, ShortSequences DEF Todos
<1> QED BY <1>1, <1>2

LEMMA TaskNames ==
    /\ Trust.do = "trust" /\ Preflight.do = "preflight" /\ Ensure.do = "ca"
    /\ \A s : Issue(s).do = "issue" /\ Issue(s).leaf = s
    /\ \A fs : Move(fs).do = "move" /\ Move(fs).files = fs
BY DEF Trust, Preflight, Ensure, Issue, Move

\* Where a service is that does one of its tasks.
LEMMA ServiceAt ==
    ASSUME NEW s \in Services, Running(s), Fits(s)
    PROVE  /\ Task(s).do = "trust" => Len(run[s].todo) = IF s = Gateway THEN 3 ELSE 1
           /\ Task(s).do = "preflight" => Len(run[s].todo) = IF s = Gateway THEN 1 ELSE 3
           /\ Task(s).do = "issue" => Len(run[s].todo) = 2 /\ Task(s).leaf = s
           /\ Task(s).do \in {"trust", "preflight", "issue"}
<1> DEFINE n == Len(run[s].todo)
<1>1. n \in 1 .. 3 /\ (n = 2 => Task(s) = Issue(s))
  BY ServicePlan DEF Task
<1>2. CASE s = Gateway
  BY <1>1, <1>2, ServicePlan, TaskNames DEF Task
<1>3. CASE s # Gateway
  BY <1>1, <1>3, ServicePlan, TaskNames DEF Task
<1> QED BY <1>2, <1>3

LEMMA FitsStays ==
    ASSUME NEW a \in Actors, Fits(a), run'[a] = run[a], address' >= address,
           address \in Nat, address' \in Nat
    PROVE  Fits(a)'
BY DEF Fits, Running, Task

\* A step that goes on with its task, and one that ends it.
LEMMA FitsNext ==
    ASSUME CertTyped, NEW a \in Actors, Running(a), Fits(a), a # Rotate, address' = address,
           run'[a].todo = run[a].todo, run'[a].at = run[a].at,
           run'[a].step \in {"open", "write"} \X Files => run'[a].pair >= 1,
           \A s \in Services : run'[a].step \in LeafSteps(s) => Task(a) = Issue(s) /\ run'[a].by >= 1
    PROVE  Fits(a)'
BY DEF Fits, Running, Task

LEMMA NotAFileStep ==
    ASSUME NEW step \in {<<"begin">>, <<"ca">>, <<"load">>, <<"chain">>}
    PROVE  /\ step \notin {"open", "write"} \X Files
           /\ \A s \in Services : step \notin LeafSteps(s)
BY DEF LeafSteps

LEMMA FitsFinish ==
    ASSUME CertTyped, NEW a \in Actors, Running(a), Fits(a), a # Rotate, address' = address,
           Finish(a)
    PROVE  Fits(a)'
<1>1. run'[a] = IF Len(run[a].todo) = 1 THEN AtRest ELSE Begins(Tail(run[a].todo), run[a].at)
  BY FinishAs DEF CertTyped
<1>2. CASE Len(run[a].todo) = 1
  <2>1. ~Running(a)'
    BY <1>1, <1>2 DEF Running, AtRest, Begins
  <2> QED BY <2>1 DEF Fits
<1>3. CASE Len(run[a].todo) # 1
  <2>1. /\ run'[a].todo = Tail(run[a].todo) /\ run'[a].step = <<"begin">>
        /\ run'[a].at = run[a].at
    BY <1>1, <1>3 DEF Begins
  <2>2. ASSUME a \in Services PROVE run'[a].todo \in Todos(a)
    <3>1. Len(run[a].todo) \in 1 .. 3
          /\ (Len(run[a].todo) > 1 => Tail(run[a].todo) \in Todos(a))
      BY <2>2, ServicePlan
    <3>2. Len(run[a].todo) > 1
      BY <1>3, <3>1
    <3>3. Tail(run[a].todo) \in Todos(a)
      BY <3>1, <3>2
    <3> QED BY <2>1, <3>3
  <2> QED BY <2>1, <2>2, NotAFileStep DEF Fits
<1> QED BY <1>2, <1>3

LEMMA FinishBegins ==
    ASSUME CertTyped, NEW a \in Actors, Running(a), Finish(a)
    PROVE  /\ run'[a].step = <<"begin">> /\ \A b \in Actors : b # a => run'[b] = run[b]
           /\ Running(a)' => run'[a].at = run[a].at /\ run'[a].todo = Tail(run[a].todo)
<1>1. run'[a] = IF Len(run[a].todo) = 1 THEN AtRest ELSE Begins(Tail(run[a].todo), run[a].at)
  BY FinishAs DEF CertTyped
<1> QED BY <1>1, FinishAs DEF AtRest, Begins, Running, CertTyped

\* The effect of a step on the run that makes it.
LEMMA IssuedTo ==
    ASSUME CertTyped, NEW a \in Actors, Running(a), Issued(a)
    PROVE  \/ a \notin Services /\ Finish(a)
           \/ /\ a \in Services /\ run'[a].step = <<"chain">>
              /\ run'[a] = [run[a] EXCEPT !.step = <<"chain">>]
              /\ run'[a].todo = run[a].todo /\ run'[a].at = run[a].at
              /\ run'[a].pair = run[a].pair /\ run'[a].by = run[a].by
BY GotoAs, StepsTyped, RunTyped DEF Issued, CertTyped, RunState

LEMMA GoneTo ==
    ASSUME CertTyped, NEW a \in Actors, NEW step \in Steps, Goto(a, step)
    PROVE  /\ run'[a].step = step
           /\ run'[a].todo = run[a].todo /\ run'[a].at = run[a].at
           /\ run'[a].pair = run[a].pair /\ run'[a].by = run[a].by
           /\ \A b \in Actors : b # a => run'[b] = run[b]
<1>1. CertTypeOK
  BY DEF CertTyped
<1>2. /\ run'[a] = [run[a] EXCEPT !.step = step]
      /\ \A b \in Actors : b # a => run'[b] = run[b]
  BY <1>1, GotoAs
<1>3. run[a] \in RunState
  BY <1>1, RunTyped
<1> QED BY <1>2, <1>3 DEF RunState

\* A run that is started has its plan before it.
LEMMA StartFits ==
    ASSUME CertTyped, address >= 1, NEW a \in Actors, Start(a)
    PROVE  /\ Fits(a)' /\ run'[a].step = <<"begin">> /\ run'[a].at = address
           /\ \A b \in Actors : b # a => run'[b] = run[b]
           /\ a \in Services => Len(run'[a].todo) = 3 /\ Running(a)'
<1>1. PICK plan \in Plans(a) : run' = [run EXCEPT ![a] = Begins(plan, address)]
  BY DEF Start
<1>2. /\ run'[a].todo = plan /\ run'[a].step = <<"begin">> /\ run'[a].at = address
      /\ \A b \in Actors : b # a => run'[b] = run[b]
  BY <1>1 DEF CertTyped, CertTypeOK, Begins
<1>3. address' = address /\ address \in Nat
  BY DEF Start, CertTyped, CertTypeOK
<1>4. a = Rotate => \E fs \in SUBSET Files : plan = <<Move(fs)>>
  BY CertAssumed DEF Plans, Files
<1>5. a \in Services => plan \in Todos(a) /\ Len(plan) = 3 /\ plan # << >>
  BY CertAssumed, ShortSequences DEF Plans, Todos
<1> QED BY <1>2, <1>3, <1>4, <1>5, NotAFileStep DEF Fits, Running

LEMMA RotateMoves ==
    ASSUME Running(Rotate), Fits(Rotate)
    PROVE  /\ run[Rotate].step = <<"begin">> /\ Task(Rotate).do = "move"
           /\ Task(Rotate).files \in SUBSET Files
           /\ run[Rotate].todo = <<Move(Task(Rotate).files)>> /\ Len(run[Rotate].todo) = 1
<1>1. PICK fs \in SUBSET Files : run[Rotate].todo = <<Move(fs)>>
  BY DEF Fits
<1>2. Task(Rotate) = Move(fs) /\ Len(run[Rotate].todo) = 1
  BY <1>1, ShortSequences DEF Task
<1> QED BY <1>1, <1>2, TaskNames DEF Fits

\* What a thread that opens or writes a file does.
LEMMA Opening ==
    ASSUME CertTyped, NEW a \in Actors, OpenFile(a)
    PROVE  \E f \in Files :
              /\ Running(a) /\ run[a].step = <<"open", f>> /\ run'[a].step = <<"write", f>>
              /\ run'[a].todo = run[a].todo /\ run'[a].at = run[a].at
              /\ run'[a].pair = run[a].pair /\ run'[a].by = run[a].by
              /\ \A b \in Actors : b # a => run'[b] = run[b]
              /\ disk'[f] = Blank /\ \A g \in Files : g # f => disk'[g] = disk[g]
              /\ mixedUp' = (mixedUp \/ Disturbs(a, f))
<1>1. PICK f \in Files :
          /\ Running(a) /\ run[a].step = <<"open", f>>
          /\ disk' = [disk EXCEPT ![f] = Blank] /\ Goto(a, <<"write", f>>)
          /\ mixedUp' = (mixedUp \/ Disturbs(a, f))
  BY DEF OpenFile
<1>2. <<"write", f>> \in Steps
  BY StepsTyped
<1>3. disk \in [Files -> Contents]
  BY DEF CertTyped, CertTypeOK
<1> QED BY <1>1, <1>2, <1>3, GoneTo

LEMMA Writing ==
    ASSUME CertTyped, NEW a \in Actors, WriteFile(a)
    PROVE  \E f \in Files :
              /\ Running(a) /\ run[a].step = <<"write", f>>
              /\ \A b \in Actors : b # a => run'[b] = run[b]
              /\ \/ /\ f[2] = "key" /\ <<f[1], "cert">> \in Files
                    /\ run'[a].step = <<"open", <<f[1], "cert">>>>
                    /\ run'[a].todo = run[a].todo /\ run'[a].at = run[a].at
                    /\ run'[a].pair = run[a].pair /\ run'[a].by = run[a].by
                 \/ /\ f = CaCert /\ Task(a) # Ensure /\ run'[a].step = <<"load">>
                    /\ run'[a].todo = run[a].todo /\ run'[a].at = run[a].at
                 \/ f = CaCert /\ Task(a) = Ensure /\ Finish(a)
                 \/ f[2] = "cert" /\ f # CaCert /\ Issued(a)
              /\ disk'[f] = Content(a, f) /\ \A g \in Files : g # f => disk'[g] = disk[g]
              /\ mixedUp' = (mixedUp \/ Disturbs(a, f))
<1>1. PICK f \in Files :
          /\ Running(a) /\ run[a].step = <<"write", f>>
          /\ disk' = [disk EXCEPT ![f] = Content(a, f)]
          /\ \/ f[2] = "key" /\ Goto(a, <<"open", <<f[1], "cert">>>>)
             \/ f = CaCert /\ IF Head(run[a].todo) = Ensure THEN Finish(a) ELSE Goto(a, <<"load">>)
             \/ f[2] = "cert" /\ f # CaCert /\ Issued(a)
          /\ mixedUp' = (mixedUp \/ Disturbs(a, f))
  BY DEF WriteFile
<1>2. disk'[f] = Content(a, f) /\ \A g \in Files : g # f => disk'[g] = disk[g]
  BY <1>1 DEF CertTyped, CertTypeOK
<1>3. CASE f[2] = "key" /\ Goto(a, <<"open", <<f[1], "cert">>>>)
  <2>1. <<f[1], "cert">> \in Files
    BY <1>3 DEF Files, LeafFiles, CaFiles, CaKey, CaCert
  <2>2. <<"open", <<f[1], "cert">>>> \in Steps
    BY <2>1, StepsTyped
  <2> QED BY <1>1, <1>2, <1>3, <2>1, <2>2, GoneTo
<1>4. CASE f = CaCert /\ Finish(a) /\ Task(a) = Ensure
  <2>1. \A b \in Actors : b # a => run'[b] = run[b]
    BY <1>1, <1>4, FinishAs DEF CertTyped
  <2> QED BY <1>1, <1>2, <1>4, <2>1
<1>5. CASE f = CaCert /\ Goto(a, <<"load">>) /\ Task(a) # Ensure
  BY <1>1, <1>2, <1>5, GoneTo, StepsTyped
<1>6. CASE f[2] = "cert" /\ f # CaCert /\ Issued(a)
  <2>1. \A b \in Actors : b # a => run'[b] = run[b]
    BY <1>1, <1>6, IssuedAs DEF CertTyped
  <2> QED BY <1>1, <1>2, <1>6, <2>1
<1> QED BY <1>1, <1>3, <1>4, <1>5, <1>6 DEF Task

\* rotate_keys moves a file, or has none left.
LEMMA Moving ==
    ASSUME CertTyped, Fits(Rotate), MoveFile
    PROVE  /\ Running(Rotate) /\ \A b \in Actors : b # Rotate => run'[b] = run[b]
           /\ \/ /\ Task(Rotate).files = {} /\ run'[Rotate] = AtRest
                 /\ UNCHANGED <<disk, retired, mixedUp>>
              \/ \E f \in Task(Rotate).files :
                    /\ f \in Files
                    /\ CaCert \in Task(Rotate).files => f = CaCert
                    /\ CaKey \in Task(Rotate).files => f \in CaFiles
                    /\ disk'[f] = NoFile /\ \A g \in Files : g # f => disk'[g] = disk[g]
                    /\ retired' = retired \cup Retires(f)
                    /\ run'[Rotate].todo = <<Move(Task(Rotate).files \ {f})>>
                    /\ run'[Rotate].step = <<"begin">> /\ run'[Rotate].at = run[Rotate].at
                    /\ mixedUp' = (mixedUp \/ Disturbs(Rotate, f))
<1> DEFINE fs == Task(Rotate).files
<1>1. /\ Running(Rotate) /\ Rotate \in Actors /\ fs \in SUBSET Files
      /\ Len(run[Rotate].todo) = 1 /\ run[Rotate].step = <<"begin">>
  BY CertAssumed, RotateMoves DEF MoveFile, At
<1>2. CASE fs = {}
  BY <1>1, <1>2, FinishAs DEF MoveFile, Task, CertTyped
<1>3. CASE fs # {}
  <2>1. PICK f \in fs :
            /\ CaCert \in fs => f = CaCert
            /\ CaKey \in fs => f \in CaFiles
            /\ disk' = [disk EXCEPT ![f] = NoFile]
            /\ retired' = retired \cup Retires(f)
            /\ run' = [run EXCEPT ![Rotate].todo = <<Move(fs \ {f})>>]
            /\ mixedUp' = (mixedUp \/ Disturbs(Rotate, f))
    BY <1>3 DEF MoveFile, Task
  <2>2. run \in [Actors -> RunState] /\ disk \in [Files -> Contents]
    BY DEF CertTyped, CertTypeOK
  <2>3. /\ run'[Rotate].todo = <<Move(fs \ {f})>>
        /\ run'[Rotate].step = run[Rotate].step /\ run'[Rotate].at = run[Rotate].at
        /\ \A b \in Actors : b # Rotate => run'[b] = run[b]
    BY <1>1, <2>1, <2>2 DEF RunState
  <2> QED BY <1>1, <2>1, <2>2, <2>3
<1> QED BY <1>2, <1>3

\* A run at a task, and what makes of it an end, or a new key pair.
LEMMA AtTask ==
    ASSUME CertTyped, NEW a \in Actors, NEW step, NEW do \in {"issue", "ca"}, At(a, do, step),
           Fits(a)
    PROVE  /\ Running(a) /\ run[a].step = <<step>> /\ Task(a).do = do /\ a # Rotate
           /\ do = "issue" => Task(a).leaf \in Services /\ Task(a) = Issue(Task(a).leaf)
           /\ do = "ca" => Task(a) = Ensure /\ a \notin Services
<1>1. Running(a) /\ run[a].step = <<step>> /\ Task(a).do = do /\ Task(a) \in Tasks
  BY TaskTyped DEF At, Task, CertTyped
<1>2. a # Rotate
  BY <1>1, RotateMoves
<1>3. a \in Services => Task(a).do \in {"trust", "preflight", "issue"}
  BY <1>1, ServiceAt
<1> QED BY <1>1, <1>2, <1>3, TaskKinds

LEMMA Ending ==
    ASSUME CertTyped, NEW a \in Actors, Exits(a)
    PROVE  /\ ~Running(a)' /\ Fits(a)' /\ \A b \in Actors : b # a => run'[b] = run[b]
           /\ \A s \in Services : s # a => held'[s] = held[s]
           /\ a \in Services => held'[a] = Nothing
<1>1. ~Running(a)'
  BY ExitsAs DEF CertTyped, Running, AtRest, Begins
<1> QED BY <1>1, ExitsAs DEF CertTyped, Fits

LEMMA FindingCA ==
    ASSUME CertTyped, NEW a \in Actors, FindCA(a), Fits(a)
    PROVE  /\ Running(a) /\ a # Rotate /\ \A b \in Actors : b # a => run'[b] = run[b]
           /\ a \in Services => Task(a).do = "issue"
           /\ \/ HasCA /\ Task(a) = Ensure /\ Finish(a)
              \/ /\ run'[a].todo = run[a].todo /\ run'[a].at = run[a].at
                 /\ \/ HasCA /\ run'[a].step = <<"load">>
                    \/ ~HasCA /\ run'[a].step = <<"open", CaKey>> /\ run'[a].pair = made + 1
<1>0. /\ Running(a) /\ a # Rotate
      /\ a \in Services => Task(a).do = "issue"
      /\ At(a, "ca", "begin") => Task(a) = Ensure
  BY AtTask DEF FindCA
<1>1. CASE HasCA /\ At(a, "ca", "begin")
  BY <1>0, <1>1, FinishAs DEF FindCA, CertTyped
<1>2. CASE HasCA /\ ~At(a, "ca", "begin")
  BY <1>0, <1>2, GoneTo, StepsTyped DEF FindCA
<1>3. CASE ~HasCA
  <2>1. run' = [run EXCEPT ![a] = [@ EXCEPT !.step = <<"open", CaKey>>, !.pair = made + 1]]
    BY <1>3 DEF FindCA
  <2>2. run \in [Actors -> RunState]
    BY DEF CertTyped, CertTypeOK
  <2> QED BY <1>0, <1>3, <2>1, <2>2 DEF RunState
<1> QED BY <1>1, <1>2, <1>3

LEMMA LoadingCA ==
    ASSUME CertTyped, NEW a \in Actors, LoadCA(a), Fits(a)
    PROVE  /\ Running(a) /\ a # Rotate /\ run[a].step = <<"load">> /\ Task(a).do = "issue"
           /\ Task(a).leaf \in Services /\ Task(a) = Issue(Task(a).leaf)
           /\ \/ /\ ~(Good(CaKey) /\ Good(CaCert)) /\ Exits(a)
              \/ /\ Good(CaKey) /\ Good(CaCert) /\ held' = held
                 /\ \A b \in Actors : b # a => run'[b] = run[b]
                 /\ run'[a].todo = run[a].todo /\ run'[a].at = run[a].at
                 /\ run'[a].pair = made + 1 /\ run'[a].by = disk[CaKey].pair
                 /\ run'[a].step = <<"open", KeyOf(Task(a).leaf)>>
<1>0. /\ Running(a) /\ a # Rotate /\ run[a].step = <<"load">> /\ Task(a).do = "issue"
      /\ Task(a).leaf \in Services /\ Task(a) = Issue(Task(a).leaf)
  BY AtTask DEF LoadCA
<1>1. CASE ~(Good(CaKey) /\ Good(CaCert))
  BY <1>0, <1>1 DEF LoadCA, Good
<1>2. CASE Good(CaKey) /\ Good(CaCert)
  <2>1. /\ held' = held
        /\ run' = [run EXCEPT ![a] = [@ EXCEPT !.pair = made + 1, !.by = disk[CaKey].pair,
                                         !.step = <<"open", KeyOf(Task(a).leaf)>>]]
    BY <1>2 DEF LoadCA, Good, Task
  <2>2. run \in [Actors -> RunState]
    BY DEF CertTyped, CertTypeOK
  <2> QED BY <1>0, <1>2, <2>1, <2>2 DEF RunState
<1> QED BY <1>1, <1>2

LEMMA FindingLeaf ==
    ASSUME CertTyped, NEW a \in Actors, FindLeaf(a), Fits(a)
    PROVE  /\ Running(a) /\ a # Rotate /\ Task(a).do = "issue"
           /\ Task(a).leaf \in Services /\ Task(a) = Issue(Task(a).leaf)
           /\ \A b \in Actors : b # a => run'[b] = run[b]
           /\ \/ Reusable(Task(a).leaf, run[a].at) /\ Issued(a)
              \/ /\ run'[a].step = <<"ca">>
                 /\ run'[a].todo = run[a].todo /\ run'[a].at = run[a].at
<1>0. /\ Running(a) /\ a # Rotate /\ Task(a).do = "issue"
      /\ Task(a).leaf \in Services /\ Task(a) = Issue(Task(a).leaf)
  BY AtTask DEF FindLeaf
<1>1. CASE Reusable(Task(a).leaf, run[a].at)
  BY <1>0, <1>1, IssuedAs DEF FindLeaf, Task, CertTyped
<1>2. CASE ~Reusable(Task(a).leaf, run[a].at)
  BY <1>0, <1>2, GoneTo, StepsTyped DEF FindLeaf, Task
<1> QED BY <1>1, <1>2

\* The three tasks of a service.
LEMMA Loading ==
    ASSUME CertTyped, NEW s \in Services, Fits(s), LoadTrust(s) \/ CheckSound(s) \/ LoadChain(s)
    PROVE  /\ s \in Actors /\ s # Rotate /\ Running(s)
           /\ \/ Exits(s)
              \/ /\ Finish(s) /\ \A b \in Actors : b # s => run'[b] = run[b]
                 /\ \A x \in Services : x # s => held'[x] = held[x]
                 /\ \/ /\ Good(CaCert) /\ Len(run[s].todo) = IF s = Gateway THEN 3 ELSE 1
                       /\ held'[s] = [held[s] EXCEPT !.trust = disk[CaCert].pair]
                    \/ /\ Sound /\ Len(run[s].todo) = IF s = Gateway THEN 1 ELSE 3
                       /\ held'[s] = held[s]
                    \/ /\ Matching(s) /\ Len(run[s].todo) = 2 /\ run[s].step = <<"chain">>
                       /\ held'[s] = [held[s] EXCEPT !.leaf = disk[CertOf(s)]]
<1>0. s \in Actors /\ s # Rotate
  BY CertAssumed
<1>t. held \in [Services -> [trust : Nat, leaf : Contents]]
  BY DEF CertTyped, CertTypeOK
<1>1. CASE LoadTrust(s)
  <2>1. Running(s) /\ Len(run[s].todo) = IF s = Gateway THEN 3 ELSE 1
    BY <1>1, ServiceAt DEF LoadTrust, At, Task
  <2>2. CASE Good(CaCert)
    <3>1. Load(s, "trust", disk[CaCert].pair) /\ Finish(s)
      BY <1>1, <2>2 DEF LoadTrust, Good
    <3> QED BY <1>0, <1>t, <2>1, <2>2, <3>1, FinishAs DEF Load, CertTyped
  <2> QED BY <1>0, <1>1, <2>1, <2>2 DEF LoadTrust, Good
<1>2. CASE CheckSound(s)
  <2>1. Running(s) /\ Len(run[s].todo) = IF s = Gateway THEN 1 ELSE 3
    BY <1>2, ServiceAt DEF CheckSound, At, Task
  <2> QED BY <1>0, <1>2, <2>1, FinishAs DEF CheckSound, CertTyped
<1>3. CASE LoadChain(s)
  <2>1. Running(s) /\ Len(run[s].todo) = 2 /\ run[s].step = <<"chain">>
    BY <1>3, ServiceAt DEF LoadChain, At, Task
  <2>2. CASE Matching(s)
    <3>1. Load(s, "leaf", disk[CertOf(s)]) /\ Finish(s)
      BY <1>3, <2>2 DEF LoadChain
    <3> QED BY <1>0, <1>t, <2>1, <2>2, <3>1, FinishAs DEF Load, CertTyped
  <2> QED BY <1>0, <1>3, <2>1, <2>2 DEF LoadChain
<1> QED BY <1>1, <1>2, <1>3

LEMMA FileSteps ==
    ASSUME NEW f \in Files, NEW how \in {"open", "write"}
    PROVE  /\ <<how, f>> \in {"open", "write"} \X Files
           /\ <<how, f>> \in CaSteps <=> f \in CaFiles
           /\ \A s \in Services : <<how, f>> \in LeafSteps(s) <=> f \in {KeyOf(s), CertOf(s)}
BY DEF LeafSteps, CaSteps

LEMMA LeafStepNames ==
    \A s : /\ <<"open", KeyOf(s)>> \in LeafSteps(s) /\ <<"write", KeyOf(s)>> \in LeafSteps(s)
           /\ <<"open", CertOf(s)>> \in LeafSteps(s) /\ <<"write", CertOf(s)>> \in LeafSteps(s)
BY DEF LeafSteps

LEMMA PlanInit == CertInit => PlanInv /\ ContentInv
<1> SUFFICES ASSUME CertInit PROVE PlanInv /\ ContentInv
  OBVIOUS
<1>1. PlanInv
  BY DEF CertInit, PlanInv, Fits, Running, AtRest, Begins
<1>2. ContentInv
  <2>1. CASE disk = [f \in Files |-> NoFile]
    BY <2>1, FileNames DEF ContentInv, Good
  <2>2. CASE disk = Provisioned
    <3>1. \A f \in Files : disk[f].pair \in Nat
      BY InitTyped DEF CertTyped, CertTypeOK, Contents
    <3>2. ASSUME NEW f \in Files PROVE disk[f].pair >= 1
      <4> DEFINE n == Cardinality(Services)
      <4>1. CASE f \in CaFiles
        BY <2>2, <3>1, <4>1 DEF Provisioned, Holds
      <4>2. CASE f \notin CaFiles
        <5> DEFINE i == CHOOSE i \in 1 .. n : SetToSeq(Services)[i] = f[1]
        <5>1. f[1] \in Services
          BY <4>2 DEF Files, LeafFiles
        <5>2. i \in 1 .. n /\ n \in Nat
          BY <5>1, ServicesListed
        <5>3. disk[f].pair = 1 + i
          BY <2>2, <4>2 DEF Provisioned, Holds, CaFiles
        <5> HIDE DEF i, n
        <5> QED BY <5>2, <5>3
      <4> QED BY <4>1, <4>2
    <3>3. ASSUME NEW s \in Services PROVE disk[CertOf(s)].by = 1 /\ disk[CertOf(s)].at = 1
      BY <2>2, FileNames, FileKinds DEF Provisioned, Holds
    <3> QED BY <3>2, <3>3 DEF ContentInv, CertInit
  <2> QED BY <2>1, <2>2 DEF CertInit
<1> QED BY <1>1, <1>2

LEMMA PlanStep ==
    ASSUME CertTyped, PlanInv, ContentInv, CertNext
    PROVE  PlanInv'
<1>t. address \in Nat /\ address >= 1 /\ made \in Nat /\ \A a \in Actors : Fits(a)
  BY DEF CertTyped, CertTypeOK, PlanInv
<1>u. ASSUME NEW a \in Actors, Fits(a)', address' = address,
             \A b \in Actors : b # a => run'[b] = run[b]
      PROVE  PlanInv'
  BY <1>t, <1>u, FitsStays DEF PlanInv
<1>1. ASSUME NEW a \in Actors, Start(a) PROVE PlanInv'
  BY <1>1, <1>t, <1>u, StartFits DEF Start
<1>2. ASSUME NEW a \in Actors, Exits(a), address' = address PROVE PlanInv'
  BY <1>2, <1>u, Ending
<1>3. ASSUME NEW a \in Actors, Running(a), Issued(a), a # Rotate, address' = address,
             \A b \in Actors : b # a => run'[b] = run[b]
      PROVE  PlanInv'
  <2>1. CASE Finish(a)
    BY <1>3, <1>t, <1>u, <2>1, FitsFinish
  <2>2. CASE run'[a].step = <<"chain">> /\ run'[a].todo = run[a].todo /\ run'[a].at = run[a].at
    BY <1>3, <1>t, <1>u, <2>2, FitsNext, NotAFileStep
  <2> QED BY <1>3, <2>1, <2>2, IssuedTo
<1>4. ASSUME NEW a \in Actors, FindLeaf(a) PROVE PlanInv'
  <2>1. address' = address
    BY <1>4 DEF FindLeaf
  <2> QED BY <1>3, <1>4, <1>t, <1>u, <2>1, FindingLeaf, FitsNext, NotAFileStep
<1>5. ASSUME NEW a \in Actors, FindCA(a) PROVE PlanInv'
  <2>1. address' = address
    BY <1>5 DEF FindCA
  <2>2. \A s \in Services : <<"open", CaKey>> \notin LeafSteps(s)
    BY FileSteps, FileNames
  <2>3. CASE run'[a].step = <<"open", CaKey>> /\ run'[a].pair = made + 1
             /\ run'[a].todo = run[a].todo /\ run'[a].at = run[a].at
    BY <1>5, <1>t, <1>u, <2>1, <2>2, <2>3, FindingCA, FitsNext
  <2> QED BY <1>5, <1>t, <1>u, <2>1, <2>3, FindingCA, FitsNext, FitsFinish, NotAFileStep
<1>6. ASSUME NEW a \in Actors, LoadCA(a) PROVE PlanInv'
  <2>1. address' = address
    BY <1>6 DEF LoadCA
  <2>2. CASE Exits(a)
    BY <1>2, <2>1, <2>2
  <2>3. CASE /\ Good(CaKey) /\ \A b \in Actors : b # a => run'[b] = run[b]
             /\ run'[a].todo = run[a].todo /\ run'[a].at = run[a].at
             /\ run'[a].pair = made + 1 /\ run'[a].by = disk[CaKey].pair
             /\ run'[a].step = <<"open", KeyOf(Task(a).leaf)>>
    <3>1. /\ Running(a) /\ a # Rotate
          /\ Task(a).leaf \in Services /\ Task(a) = Issue(Task(a).leaf)
      BY <1>6, <1>t, LoadingCA
    <3>2. disk[CaKey].pair >= 1
      BY <2>3, FileNames DEF ContentInv
    <3>3. \A s \in Services : run'[a].step \in LeafSteps(s) => s = Task(a).leaf
      <4>1. KeyOf(Task(a).leaf) \in Files
        BY <3>1, FileNames
      <4>2. \A s \in Services : run'[a].step \in LeafSteps(s) =>
                KeyOf(Task(a).leaf) \in {KeyOf(s), CertOf(s)}
        BY <2>3, <4>1, FileSteps
      <4> QED BY <3>1, <4>2, FileNames
    <3> QED BY <1>t, <1>u, <2>1, <2>3, <3>1, <3>2, <3>3, FitsNext
  <2> QED BY <1>6, <1>t, <2>2, <2>3, LoadingCA
<1>7. ASSUME NEW a \in Actors, OpenFile(a) PROVE PlanInv'
  <2>1. address' = address
    BY <1>7 DEF OpenFile
  <2>2. PICK f \in Files :
          /\ Running(a) /\ run[a].step = <<"open", f>> /\ run'[a].step = <<"write", f>>
          /\ run'[a].todo = run[a].todo /\ run'[a].at = run[a].at
          /\ run'[a].pair = run[a].pair /\ run'[a].by = run[a].by
          /\ \A b \in Actors : b # a => run'[b] = run[b]
    BY <1>7, Opening
  <2>3. a # Rotate
    BY <1>t, <2>2, RotateMoves
  <2>4. run[a].pair >= 1
    BY <1>t, <2>2, FileSteps DEF Fits
  <2>5. \A s \in Services : run'[a].step \in LeafSteps(s) => Task(a) = Issue(s) /\ run'[a].by >= 1
    BY <1>t, <2>2, FileSteps DEF Fits
  <2> QED BY <1>t, <1>u, <2>1, <2>2, <2>3, <2>4, <2>5, FitsNext
<1>8. ASSUME NEW a \in Actors, WriteFile(a) PROVE PlanInv'
  <2>1. address' = address
    BY <1>8 DEF WriteFile
  <2>2. PICK f \in Files :
          /\ Running(a) /\ run[a].step = <<"write", f>>
          /\ \A b \in Actors : b # a => run'[b] = run[b]
          /\ \/ /\ f[2] = "key" /\ <<f[1], "cert">> \in Files
                /\ run'[a].step = <<"open", <<f[1], "cert">>>>
                /\ run'[a].todo = run[a].todo /\ run'[a].at = run[a].at
                /\ run'[a].pair = run[a].pair /\ run'[a].by = run[a].by
             \/ /\ f = CaCert /\ Task(a) # Ensure /\ run'[a].step = <<"load">>
                /\ run'[a].todo = run[a].todo /\ run'[a].at = run[a].at
             \/ f = CaCert /\ Task(a) = Ensure /\ Finish(a)
             \/ f[2] = "cert" /\ f # CaCert /\ Issued(a)
    BY <1>8, Writing
  <2>3. a # Rotate
    BY <1>t, <2>2, RotateMoves
  <2>4. CASE /\ f[2] = "key" /\ <<f[1], "cert">> \in Files
             /\ run'[a].step = <<"open", <<f[1], "cert">>>>
             /\ run'[a].todo = run[a].todo /\ run'[a].at = run[a].at
             /\ run'[a].pair = run[a].pair /\ run'[a].by = run[a].by
    <3>1. run[a].pair >= 1
      BY <1>t, <2>2, FileSteps DEF Fits
    <3>2. ASSUME NEW s \in Services, run'[a].step \in LeafSteps(s)
          PROVE  Task(a) = Issue(s) /\ run'[a].by >= 1
      <4>1. <<f[1], "cert">> \in {KeyOf(s), CertOf(s)}
        BY <2>4, <3>2, FileSteps
      <4>2. f = KeyOf(s)
        BY <2>4, <4>1, EachFile, FileKinds, FileNames, CertAssumed DEF KeyOf, CertOf
      <4>3. run[a].step \in LeafSteps(s)
        BY <2>2, <4>2, FileSteps
      <4> QED BY <1>t, <2>2, <2>4, <4>3 DEF Fits
    <3> QED BY <1>t, <1>u, <2>1, <2>2, <2>3, <2>4, <3>1, <3>2, FitsNext
  <2>5. CASE run'[a].step = <<"load">> /\ run'[a].todo = run[a].todo /\ run'[a].at = run[a].at
    BY <1>t, <1>u, <2>1, <2>2, <2>3, <2>5, FitsNext, NotAFileStep
  <2>6. CASE Finish(a)
    BY <1>t, <1>u, <2>1, <2>2, <2>3, <2>6, FitsFinish
  <2>7. CASE Issued(a)
    BY <1>3, <2>1, <2>2, <2>3, <2>7
  <2> QED BY <2>2, <2>4, <2>5, <2>6, <2>7
<1>9. ASSUME NEW s \in Services, LoadTrust(s) \/ CheckSound(s) \/ LoadChain(s) PROVE PlanInv'
  <2>1. address' = address
    BY <1>9 DEF LoadTrust, CheckSound, LoadChain
  <2> QED BY <1>2, <1>9, <1>t, <1>u, <2>1, CertAssumed, Loading, FitsFinish
<1>10. ASSUME MoveFile PROVE PlanInv'
  <2>1. address' = address /\ Rotate \in Actors
    BY <1>10, CertAssumed DEF MoveFile
  <2>2. CASE run'[Rotate] = AtRest
    BY <1>10, <1>t, <1>u, <2>1, <2>2, Moving DEF Fits, Running, AtRest, Begins
  <2>3. CASE \E f \in Task(Rotate).files :
               /\ run'[Rotate].todo = <<Move(Task(Rotate).files \ {f})>>
               /\ run'[Rotate].step = <<"begin">> /\ run'[Rotate].at = run[Rotate].at
    <3>1. Running(Rotate) /\ Task(Rotate).files \in SUBSET Files
      BY <1>10, <1>t, <2>1, Moving, RotateMoves
    <3>2. run[Rotate].at \in 1 .. address
      BY <1>t, <2>1, <3>1 DEF Fits
    <3>3. Fits(Rotate)'
      BY <1>t, <2>1, <2>3, <3>1, <3>2, CertAssumed, NotAFileStep DEF Fits
    <3> QED BY <1>10, <1>t, <1>u, <2>1, <3>3, Moving
  <2> QED BY <1>10, <1>t, <2>1, <2>2, <2>3, Moving
<1>11. ASSUME Readdress \/ Expire PROVE PlanInv'
  <2>1. run' = run /\ address' \in {address, address + 1}
    BY <1>11 DEF Readdress, Expire
  <2> QED BY <1>t, <2>1, FitsStays DEF PlanInv
<1> QED
  BY <1>1, <1>2, <1>4, <1>5, <1>6, <1>7, <1>8, <1>9, <1>10, <1>11, CertAssumed
  DEF CertNext, Kill, Stop

LEMMA ContentAs ==
    ASSUME NEW a \in Actors
    PROVE  /\ Content(a, CaKey) = Holds(run[a].pair, 0, 0)
           /\ Content(a, CaCert) = Holds(run[a].pair, run[a].pair, 0)
           /\ \A s \in Services :
                 /\ Content(a, KeyOf(s)) = Holds(run[a].pair, 0, 0)
                 /\ Content(a, CertOf(s)) = Holds(run[a].pair, run[a].by, run[a].at)
           /\ \A pair, by, at : /\ Holds(pair, by, at).pair = pair
                                /\ Holds(pair, by, at).by = by /\ Holds(pair, by, at).at = at
                                /\ pair >= 1 => Holds(pair, by, at) \notin {NoFile, Blank}
<1>1. \A pair, by, at : /\ Holds(pair, by, at).pair = pair
                        /\ Holds(pair, by, at).by = by /\ Holds(pair, by, at).at = at
                        /\ pair >= 1 => Holds(pair, by, at) \notin {NoFile, Blank}
  BY DEF Holds, NoFile, Blank
<1>2. /\ Content(a, CaKey) = Holds(run[a].pair, 0, 0)
      /\ Content(a, CaCert) = Holds(run[a].pair, run[a].pair, 0)
  BY FileKinds, FileNames DEF Content
<1>3. ASSUME NEW s \in Services
      PROVE  /\ Content(a, KeyOf(s)) = Holds(run[a].pair, 0, 0)
             /\ Content(a, CertOf(s)) = Holds(run[a].pair, run[a].by, run[a].at)
  BY FileKinds, FileNames DEF Content
<1> QED BY <1>1, <1>2, <1>3

LEMMA ContentStep ==
    ASSUME CertTyped, PlanInv, ContentInv, CertNext
    PROVE  ContentInv'
<1>t. /\ address \in Nat /\ address >= 1 /\ address' \in Nat /\ address' >= address
      /\ \A a \in Actors : Fits(a)
  <2>1. address' \in Nat
    BY TypeStep DEF CertTyped, CertTypeOK
  <2>2. address' \in {address, address + 1}
    BY DEF CertNext, Start, Kill, FindLeaf, FindCA, LoadCA, OpenFile, WriteFile, LoadTrust,
           CheckSound, LoadChain, Stop, MoveFile, Readdress, Expire
  <2>3. address \in Nat
    BY DEF CertTyped, CertTypeOK
  <2> QED BY <2>1, <2>2, <2>3 DEF PlanInv
\* It is enough to look at the files that have changed.
<1>u. ASSUME \A f \in Files : disk'[f] # disk[f] /\ Good(f)' => disk'[f].pair >= 1,
             \A s \in Services : disk'[CertOf(s)] # disk[CertOf(s)] /\ Good(CertOf(s))' =>
                 disk'[CertOf(s)].by >= 1 /\ disk'[CertOf(s)].at \in 1 .. address
      PROVE  ContentInv'
  <2>1. ASSUME NEW f \in Files, Good(f)' PROVE disk'[f].pair >= 1
    BY <1>u, <2>1 DEF ContentInv, Good
  <2>2. ASSUME NEW s \in Services, Good(CertOf(s))'
        PROVE  disk'[CertOf(s)].by >= 1 /\ disk'[CertOf(s)].at \in 1 .. address'
    BY <1>t, <1>u, <2>2 DEF ContentInv, Good
  <2> QED BY <2>1, <2>2 DEF ContentInv
<1>1. CASE disk' = disk
  BY <1>1, <1>u, FileNames
<1>2. ASSUME NEW a \in Actors, OpenFile(a) PROVE ContentInv'
  BY <1>2, <1>u, Opening, FileNames DEF Good
<1>3. ASSUME NEW a \in Actors, WriteFile(a) PROVE ContentInv'
  <2>1. PICK f \in Files :
          /\ Running(a) /\ run[a].step = <<"write", f>>
          /\ disk'[f] = Content(a, f) /\ \A g \in Files : g # f => disk'[g] = disk[g]
    BY <1>3, Writing
  <2>2. run[a].pair >= 1 /\ run[a].at \in 1 .. address
    BY <1>t, <2>1, FileSteps DEF Fits
  <2>3. Content(a, f).pair = run[a].pair
    BY ContentTyped
  <2>4. ASSUME NEW s \in Services, f = CertOf(s)
        PROVE  disk'[CertOf(s)].by >= 1 /\ disk'[CertOf(s)].at \in 1 .. address
    <3>1. run[a].by >= 1
      BY <1>t, <2>1, <2>4, FileSteps DEF Fits
    <3>2. disk'[CertOf(s)].by = run[a].by /\ disk'[CertOf(s)].at = run[a].at
      BY <2>1, <2>4, ContentAs
    <3> QED BY <2>2, <3>1, <3>2
  <2> QED BY <1>u, <2>1, <2>2, <2>3, <2>4, FileNames
<1>4. ASSUME MoveFile PROVE ContentInv'
  <2>1. CASE \E f \in Files : disk'[f] = NoFile /\ \A g \in Files : g # f => disk'[g] = disk[g]
    BY <1>u, <2>1, FileNames DEF Good
  <2> QED BY <1>1, <1>4, <1>t, <2>1, CertAssumed, Moving
<1> QED
  BY <1>1, <1>2, <1>3, <1>4 DEF CertNext, Start, Kill, FindLeaf, FindCA, LoadCA, LoadTrust,
         CheckSound, LoadChain, Stop, Readdress, Expire

\* What a service has loaded agrees with how far it is.
Loaded(s) ==
    IF Running(s)
    THEN /\ held[s].trust = 0 <=> s # Gateway \/ Len(run[s].todo) = 3
         /\ held[s].leaf = NoFile <=> Len(run[s].todo) > 1
    ELSE held[s] # Nothing => held[s].trust # 0 /\ held[s].leaf # NoFile

HeldInv == \A s \in Services : Loaded(s)

LEMMA LoadedStays ==
    ASSUME NEW s \in Services, Loaded(s), run'[s].todo = run[s].todo, held'[s] = held[s]
    PROVE  Loaded(s)'
BY DEF Loaded, Running

LEMMA LoadedEnds ==
    ASSUME NEW s \in Services, ~Running(s)', held'[s] = Nothing
    PROVE  Loaded(s)'
BY DEF Loaded

\* A service that ends a task has one less.
LEMMA FinishedTask ==
    ASSUME CertTyped, NEW s \in Services, Running(s), Fits(s), Finish(s)
    PROVE  /\ Len(run[s].todo) \in 1 .. 3
           /\ Len(run[s].todo) = 1 => ~Running(s)'
           /\ Len(run[s].todo) > 1 => /\ Running(s)' /\ Len(run'[s].todo) = Len(run[s].todo) - 1
                                      /\ run'[s].at = run[s].at
           /\ \A f \in Files : run'[s].step \notin {<<"open", f>>, <<"write", f>>}
           /\ run'[s].step \notin {<<"load">>, <<"chain">>}
<1>1. run'[s] = IF Len(run[s].todo) = 1 THEN AtRest ELSE Begins(Tail(run[s].todo), run[s].at)
  BY FinishAs, CertAssumed DEF CertTyped
<1>2. run'[s].step = <<"begin">>
  BY <1>1 DEF AtRest, Begins
<1>3. Len(run[s].todo) \in 1 .. 3
  BY ServicePlan
<1>4. Len(run[s].todo) = 1 => ~Running(s)'
  BY <1>1 DEF Running, AtRest, Begins
<1>5. ASSUME Len(run[s].todo) > 1
      PROVE  Running(s)' /\ Len(run'[s].todo) = Len(run[s].todo) - 1 /\ run'[s].at = run[s].at
  <2>1. run'[s].todo = Tail(run[s].todo) /\ run'[s].at = run[s].at
    BY <1>1, <1>5 DEF Begins
  <2>2. Len(Tail(run[s].todo)) = Len(run[s].todo) - 1
    BY <1>5, ServicePlan
  <2>4. run'[s].todo # << >>
    BY <1>5, <2>1, ServicePlan, TodosLast
  <2> QED BY <2>1, <2>2, <2>4 DEF Running
<1> QED BY <1>2, <1>3, <1>4, <1>5

LEMMA HeldStep ==
    ASSUME CertTyped, PlanInv, ContentInv, HeldInv, CertNext
    PROVE  HeldInv'
<1>t. /\ \A a \in Actors : Fits(a)
      /\ held \in [Services -> [trust : Nat, leaf : Contents]]
  BY DEF CertTyped, CertTypeOK, PlanInv
<1>u. ASSUME NEW a \in Actors, \A b \in Actors : b # a => run'[b] = run[b],
             \A s \in Services : s # a => held'[s] = held[s],
             a \in Services => Loaded(a)'
      PROVE  HeldInv'
  BY <1>u, LoadedStays, CertAssumed DEF HeldInv
<1>1. ASSUME NEW a \in Actors, Start(a) PROVE HeldInv'
  <2>1. ASSUME a \in Services PROVE Loaded(a)'
    <3>1. held'[a] = held[a] /\ ~Running(a) /\ ~Up(a)
      BY <1>1, <2>1 DEF Start
    <3>2. held'[a] = Nothing
      BY <3>1 DEF Up
    <3>3. Running(a)' /\ Len(run'[a].todo) = 3
      BY <1>1, <2>1, StartFits DEF PlanInv
    <3> QED BY <2>1, <3>2, <3>3, FilesTyped DEF Loaded
  <2> QED BY <1>1, <1>u, <2>1, StartFits DEF Start, PlanInv
<1>2. ASSUME NEW a \in Actors, Exits(a) PROVE HeldInv'
  BY <1>2, <1>u, Ending, LoadedEnds
<1>3. ASSUME NEW a \in Actors, FindLeaf(a) \/ FindCA(a) \/ OpenFile(a) \/ WriteFile(a), held' = held,
             \A b \in Actors : b # a => run'[b] = run[b],
             a \in Services => run'[a].todo = run[a].todo
      PROVE  HeldInv'
  BY <1>3, <1>u, LoadedStays DEF HeldInv
<1>4. ASSUME NEW a \in Actors, FindLeaf(a) PROVE HeldInv'
  <2>1. a \in Services => run'[a].todo = run[a].todo
    BY <1>4, <1>t, FindingLeaf, IssuedTo
  <2> QED BY <1>3, <1>4, <1>t, <2>1, FindingLeaf DEF FindLeaf
<1>5. ASSUME NEW a \in Actors, FindCA(a) PROVE HeldInv'
  <2>1. a \in Services => run'[a].todo = run[a].todo
    BY <1>5, <1>t, FindingCA, TaskNames
  <2> QED BY <1>3, <1>5, <1>t, <2>1, FindingCA DEF FindCA
<1>6. ASSUME NEW a \in Actors, LoadCA(a) PROVE HeldInv'
  BY <1>2, <1>6, <1>t, <1>u, LoadingCA, LoadedStays DEF HeldInv
<1>7. ASSUME NEW a \in Actors, OpenFile(a) PROVE HeldInv'
  BY <1>3, <1>7, Opening DEF OpenFile
<1>8. ASSUME NEW a \in Actors, WriteFile(a) PROVE HeldInv'
  <2>1. /\ Running(a) /\ \A b \in Actors : b # a => run'[b] = run[b]
        /\ \/ run'[a].todo = run[a].todo
           \/ Task(a) = Ensure
           \/ Issued(a)
    BY <1>8, Writing
  <2>2. ASSUME a \in Services PROVE run'[a].todo = run[a].todo
    BY <1>t, <2>1, <2>2, ServiceAt, TaskNames, IssuedTo
  <2> QED BY <1>3, <1>8, <2>1, <2>2 DEF WriteFile
<1>9. ASSUME NEW s \in Services, LoadTrust(s) \/ CheckSound(s) \/ LoadChain(s) PROVE HeldInv'
  <2>1. /\ s \in Actors /\ Running(s)
        /\ \/ Exits(s)
           \/ /\ Finish(s) /\ \A b \in Actors : b # s => run'[b] = run[b]
              /\ \A x \in Services : x # s => held'[x] = held[x]
              /\ \/ /\ Good(CaCert) /\ Len(run[s].todo) = IF s = Gateway THEN 3 ELSE 1
                    /\ held'[s] = [held[s] EXCEPT !.trust = disk[CaCert].pair]
                 \/ /\ Len(run[s].todo) = IF s = Gateway THEN 1 ELSE 3
                    /\ held'[s] = held[s]
                 \/ /\ Matching(s) /\ Len(run[s].todo) = 2
                    /\ held'[s] = [held[s] EXCEPT !.leaf = disk[CertOf(s)]]
    BY <1>9, <1>t, Loading, CertAssumed
  <2>2. CASE Exits(s)
    BY <1>2, <2>1, <2>2
  <2>3. CASE ~Exits(s)
    <3>1. Loaded(s) /\ held[s] \in [trust : Nat, leaf : Contents]
      BY <1>t DEF HeldInv
    <3>2. Good(CaCert) => disk[CaCert].pair # 0
      BY FileNames DEF ContentInv, CertTyped, CertTypeOK, Contents
    <3>3. Matching(s) => disk[CertOf(s)] # NoFile
      BY DEF Matching
    <3>4. /\ Len(run[s].todo) \in 1 .. 3
          /\ Len(run[s].todo) = 1 => ~Running(s)'
          /\ Len(run[s].todo) > 1 => Running(s)' /\ Len(run'[s].todo) = Len(run[s].todo) - 1
      BY <1>t, <2>1, <2>3, FinishedTask
    <3>5. Loaded(s)'
      <4>1. CASE held'[s] = [held[s] EXCEPT !.trust = disk[CaCert].pair] /\ Good(CaCert)
                 /\ Len(run[s].todo) = IF s = Gateway THEN 3 ELSE 1
        <5>1. held'[s].trust # 0 /\ held'[s].leaf = held[s].leaf
          BY <3>1, <3>2, <4>1
        <5>2. CASE Running(s)'
          <6>1. s = Gateway /\ Len(run[s].todo) = 3
            BY <3>4, <4>1, <5>2
          <6>2. Len(run'[s].todo) = 2
            BY <3>4, <6>1
          <6> QED BY <2>1, <3>1, <5>1, <5>2, <6>1, <6>2 DEF Loaded
        <5>3. CASE ~Running(s)'
          BY <2>1, <3>1, <3>4, <4>1, <5>1, <5>3 DEF Loaded
        <5> QED BY <5>2, <5>3
      <4>2. CASE held'[s] = held[s] /\ Len(run[s].todo) = IF s = Gateway THEN 1 ELSE 3
        BY <2>1, <3>1, <3>4, <4>2 DEF Loaded
      <4>3. CASE held'[s] = [held[s] EXCEPT !.leaf = disk[CertOf(s)]] /\ Matching(s)
                 /\ Len(run[s].todo) = 2
        <5>1. held'[s].trust = held[s].trust /\ held'[s].leaf # NoFile
          BY <3>1, <3>3, <4>3
        <5>2. Running(s)' /\ Len(run'[s].todo) = 1
          BY <3>4, <4>3
        <5> QED BY <2>1, <3>1, <4>3, <5>1, <5>2 DEF Loaded
      <4> QED BY <2>1, <2>3, <4>1, <4>2, <4>3
    <3> QED BY <1>u, <2>1, <2>3, <3>5
  <2> QED BY <2>2, <2>3
<1>10. ASSUME MoveFile PROVE HeldInv'
  BY <1>10, <1>t, <1>u, CertAssumed, Moving DEF MoveFile
<1>11. ASSUME Readdress \/ Expire PROVE HeldInv'
  BY <1>11, LoadedStays DEF HeldInv, Readdress, Expire
<1> QED
  BY <1>1, <1>2, <1>4, <1>5, <1>6, <1>7, <1>8, <1>9, <1>10, <1>11, CertAssumed
  DEF CertNext, Kill, Stop

\* What holds of every state, mixed up or not.
CertSane == CertTyped /\ PlanInv /\ ContentInv /\ HeldInv

LEMMA SaneInit == CertInit => CertSane
<1> SUFFICES ASSUME CertInit PROVE HeldInv
  BY InitTyped, PlanInit DEF CertSane
<1>1. \A s \in Services : run[s] = AtRest /\ held[s] = Nothing
  BY CertAssumed DEF CertInit
<1> QED BY <1>1 DEF HeldInv, Loaded, Running, AtRest, Begins

LEMMA SaneStep == CertSane /\ CertNext => CertSane'
BY TypeStep, PlanStep, ContentStep, HeldStep DEF CertSane

(***************************************************************************)
(* Files that have not been mixed up.                                      *)
(***************************************************************************)

\* Who writes a file that is not mixed up is alone with it.
LEMMA Alone ==
    ASSUME NEW a \in Actors, NEW f \in Files, mixedUp' = (mixedUp \/ Disturbs(a, f)), ~mixedUp'
    PROVE  \A b \in Actors : b # a /\ Running(b) => f \notin Uses(b)
BY DEF Disturbs

LEMMA UsesFiles ==
    /\ \A b \in Actors : CaKey \in Uses(b) /\ CaCert \in Uses(b)
    /\ \A b \in {Provisioner, Rotate} : Uses(b) = Files
    /\ \A s \in Services : /\ KeyOf(s) \in Uses(s) /\ CertOf(s) \in Uses(s)
                           /\ Uses(s) = CaFiles \cup {KeyOf(s), CertOf(s)}
<1>1. \A b \in {Provisioner, Rotate} : Uses(b) = Files
  BY CertAssumed DEF Uses, Files
<1>2. ASSUME NEW s \in Services PROVE Uses(s) = CaFiles \cup {KeyOf(s), CertOf(s)}
  <2>1. \A f \in LeafFiles : f[1] = s <=> f \in {KeyOf(s), CertOf(s)}
    BY DEF LeafFiles, KeyOf, CertOf
  <2> QED BY <2>1, FileNames DEF Uses
<1> QED BY <1>1, <1>2, FileNames DEF Uses

\* A run that makes a leaf uses its files.
LEMMA UsesLeaf ==
    ASSUME NEW a \in Actors, NEW s \in Services, Running(a), Fits(a), run[a].step \in LeafSteps(s)
    PROVE  /\ KeyOf(s) \in Uses(a) /\ CertOf(s) \in Uses(a) /\ a \in {s, Provisioner, Rotate}
           /\ Task(a) = Issue(s)
<1>1. Task(a) = Issue(s)
  BY DEF Fits
<1>2. a \in Services => a = s
  BY <1>1, ServiceAt, TaskNames
<1> QED BY <1>1, <1>2, UsesFiles, FileNames DEF Actors

\* The step of a run leaves the others alone, and the files they use.
LeavesAlone(a) ==
    /\ \A b \in Actors : b # a =>
           /\ run'[b] = run[b]
           /\ Running(b) => \A f \in Uses(b) : disk'[f] = disk[f]
    /\ \A s \in Services : s # a => held'[s] = held[s]

LEMMA UsesAreFiles == \A b \in Actors : Uses(b) \subseteq Files
BY DEF Uses, Files

LEMMA EachAlone ==
    ASSUME CertSane, CertNext, ~mixedUp', NEW a \in Actors
    PROVE  /\ Start(a) \/ Kill(a) \/ FindLeaf(a) \/ FindCA(a) \/ LoadCA(a) \/ OpenFile(a)
                  \/ WriteFile(a) => LeavesAlone(a)
           /\ a \in Services /\ (LoadTrust(a) \/ CheckSound(a) \/ LoadChain(a) \/ Stop(a)) =>
                  LeavesAlone(a)
           /\ a = Rotate /\ MoveFile => LeavesAlone(a)
<1>t. CertTyped /\ Fits(a) /\ address >= 1
  BY DEF CertSane, PlanInv
<1>u. ASSUME disk' = disk, \A b \in Actors : b # a => run'[b] = run[b],
             \A s \in Services : s # a => held'[s] = held[s]
      PROVE  LeavesAlone(a)
  BY <1>u DEF LeavesAlone
<1>v. ASSUME NEW f \in Files, \A g \in Files : g # f => disk'[g] = disk[g],
             mixedUp' = (mixedUp \/ Disturbs(a, f)),
             \A b \in Actors : b # a => run'[b] = run[b], held' = held
      PROVE  LeavesAlone(a)
  BY <1>v, Alone, UsesAreFiles DEF LeavesAlone
<1>1. ASSUME Start(a) PROVE LeavesAlone(a)
  BY <1>1, <1>t, <1>u, StartFits DEF Start
<1>2. ASSUME Exits(a), disk' = disk PROVE LeavesAlone(a)
  BY <1>2, <1>t, <1>u, Ending
<1>3. ASSUME FindLeaf(a) PROVE LeavesAlone(a)
  BY <1>3, <1>t, <1>u, FindingLeaf DEF FindLeaf
<1>4. ASSUME FindCA(a) PROVE LeavesAlone(a)
  BY <1>4, <1>t, <1>u, FindingCA DEF FindCA
<1>5. ASSUME LoadCA(a) PROVE LeavesAlone(a)
  BY <1>2, <1>5, <1>t, <1>u, LoadingCA DEF LoadCA
<1>6. ASSUME OpenFile(a) PROVE LeavesAlone(a)
  BY <1>6, <1>t, <1>v, Opening DEF OpenFile
<1>7. ASSUME WriteFile(a) PROVE LeavesAlone(a)
  BY <1>7, <1>t, <1>v, Writing DEF WriteFile
<1>8. ASSUME a \in Services, LoadTrust(a) \/ CheckSound(a) \/ LoadChain(a) PROVE LeavesAlone(a)
  BY <1>2, <1>8, <1>t, <1>u, Loading DEF LoadTrust, CheckSound, LoadChain
<1>9. ASSUME a = Rotate, MoveFile PROVE LeavesAlone(a)
  BY <1>9, <1>t, <1>u, <1>v, Moving DEF MoveFile
<1> QED
  BY <1>1, <1>2, <1>3, <1>4, <1>5, <1>6, <1>7, <1>8, <1>9 DEF Kill, Stop

\* What is not mixed up after a step was not before.
LEMMA NotBefore == CertSane /\ CertNext /\ ~mixedUp' => ~mixedUp
BY DEF CertNext, Start, Kill, FindLeaf, FindCA, LoadCA, OpenFile, WriteFile, LoadTrust,
       CheckSound, LoadChain, Stop, MoveFile, Readdress, Expire

\* The CA's files, for a run that makes them or is about to sign with them.
CaSide(a) == Running(a) =>
    /\ run[a].step \in {<<"open", CaKey>>, <<"write", CaKey>>, <<"open", CaCert>>} =>
           disk[CaCert] = NoFile
    /\ run[a].step = <<"write", CaCert>> => disk[CaCert] = Blank
    /\ run[a].step \in {<<"open", CaCert>>, <<"write", CaCert>>} =>
           disk[CaKey] = Holds(run[a].pair, 0, 0)
    /\ run[a].step = <<"load">> => disk[CaCert] # NoFile

\* A CA certificate has its key, and is unfinished only while its maker is at work.
CaFilesInv ==
    /\ disk[CaCert] # NoFile => Good(CaKey)
    /\ Good(CaCert) => disk[CaKey].pair = disk[CaCert].pair
    /\ disk[CaCert] = Blank => \E a \in Actors : Running(a) /\ run[a].step = <<"write", CaCert>>

\* rotate_keys moves the CA's certificate before its key, and all the leaves that there are.
RotateSide == Running(Rotate) =>
    /\ CaKey \in Task(Rotate).files => CaCert \in Task(Rotate).files \/ disk[CaCert] = NoFile
    /\ \A f \in LeafFiles : disk[f] # NoFile => f \in Task(Rotate).files

CaInv == CaFilesInv /\ RotateSide /\ \A a \in Actors : CaSide(a)

LEMMA CaOthers ==
    ASSUME CaInv, NEW a \in Actors, LeavesAlone(a), CaSide(a)'
    PROVE  \A b \in Actors : CaSide(b)'
<1> SUFFICES ASSUME NEW b \in Actors, b # a PROVE CaSide(b)'
  OBVIOUS
<1>1. run'[b] = run[b] /\ (Running(b) => disk'[CaKey] = disk[CaKey] /\ disk'[CaCert] = disk[CaCert])
  BY UsesFiles DEF LeavesAlone
<1> QED BY <1>1 DEF CaInv, CaSide, Running

LEMMA NoCaStep ==
    ASSUME NEW a \in Actors,
           run'[a].step \in {<<"begin">>, <<"ca">>, <<"chain">>}
              \/ \E s \in Services : run'[a].step \in LeafSteps(s)
    PROVE  CaSide(a)'
<1>1. ASSUME NEW s \in Services, run'[a].step \in LeafSteps(s)
      PROVE  run'[a].step \notin {<<"open", CaKey>>, <<"write", CaKey>>, <<"open", CaCert>>,
                                  <<"write", CaCert>>, <<"load">>}
  BY <1>1, FileNames DEF LeafSteps
<1> QED BY <1>1 DEF CaSide

\* A step that leaves the CA's files as they are.
LEMMA CaKept ==
    ASSUME CaInv, NEW a \in Actors, LeavesAlone(a), CaSide(a)', RotateSide',
           disk'[CaKey] = disk[CaKey], disk'[CaCert] = disk[CaCert],
           Running(a) => run[a].step # <<"write", CaCert>> \/ disk[CaCert] # Blank
    PROVE  CaInv'
<1>1. CaFilesInv'
  <2>1. ASSUME disk'[CaCert] = Blank
        PROVE  \E b \in Actors : Running(b)' /\ run'[b].step = <<"write", CaCert>>
    <3>1. PICK b \in Actors : Running(b) /\ run[b].step = <<"write", CaCert>>
      BY <2>1 DEF CaInv, CaFilesInv
    <3>2. b # a
      BY <2>1, <3>1
    <3> QED BY <3>1, <3>2 DEF LeavesAlone, Running
  <2> QED BY <2>1 DEF CaInv, CaFilesInv, Good
<1> QED BY <1>1, CaOthers DEF CaInv

LEMMA RotateKept ==
    ASSUME CertSane, CaInv, NEW a \in Actors, a # Rotate, LeavesAlone(a)
    PROVE  RotateSide'
<1>1. Rotate \in Actors /\ Uses(Rotate) = Files /\ CaCert \in Files /\ LeafFiles \subseteq Files
  BY CertAssumed, UsesFiles, FileNames DEF Files
<1> QED BY <1>1 DEF LeavesAlone, CaInv, RotateSide, Running, Task

LEMMA StepNames ==
    /\ <<"begin">> # <<"write", CaCert>> /\ <<"load">> # <<"write", CaCert>>
    /\ <<"ca">> # <<"write", CaCert>> /\ <<"chain">> # <<"write", CaCert>>
    /\ \A f, g : <<"open", f>> # <<"write", g>>
    /\ \A f, g : <<"write", f>> = <<"write", g>> <=> f = g
    /\ \A f, g : <<"open", f>> = <<"open", g>> <=> f = g
    /\ \A f : /\ <<"load">> # <<"open", f>> /\ <<"load">> # <<"write", f>>
              /\ <<"begin">> # <<"open", f>> /\ <<"begin">> # <<"write", f>>
              /\ <<"chain">> # <<"open", f>> /\ <<"chain">> # <<"write", f>>
              /\ <<"ca">> # <<"open", f>> /\ <<"ca">> # <<"write", f>>
    /\ <<"begin">> # <<"load">> /\ <<"ca">> # <<"load">> /\ <<"chain">> # <<"load">>
    /\ <<"begin">> # <<"chain">> /\ <<"ca">> # <<"chain">>
OBVIOUS

LEMMA CaStep ==
    ASSUME CertSane, CaInv, CertNext, ~mixedUp'
    PROVE  CaInv'
<1>t. CertTyped /\ PlanInv /\ \A a \in Actors : Fits(a)
  BY DEF CertSane, PlanInv
<1>f. CaKey \in Files /\ CaCert \in Files /\ \A s \in Services : {KeyOf(s), CertOf(s)} \cap CaFiles = {}
  BY FileNames
<1>1. ASSUME NEW a \in Actors, Start(a) PROVE CaInv'
  <2>1. LeavesAlone(a) /\ CaSide(a)' /\ disk' = disk /\ ~Running(a)
    BY <1>1, <1>t, EachAlone, StartFits, NoCaStep DEF Start, PlanInv
  <2>2. RotateSide'
    <3>1. CASE a # Rotate
      BY <2>1, <3>1, RotateKept
    <3>2. CASE a = Rotate
      <4> DEFINE leaves == {f \in LeafFiles : disk[f] # NoFile}
      <4>1. PICK plan \in Plans(a) : run' = [run EXCEPT ![a] = Begins(plan, address)]
        BY <1>1 DEF Start
      <4>2. plan = <<Move(leaves)>> \/ plan = <<Move(leaves \cup CaFiles)>>
        BY <3>2, CertAssumed DEF Plans
      <4>3. run'[Rotate].todo = plan
        BY <1>t, <3>2, <4>1 DEF CertTyped, CertTypeOK, Begins
      <4>4. Head(run'[Rotate].todo).files \in {leaves, leaves \cup CaFiles}
        BY <4>2, <4>3, ShortSequences, TaskNames
      <4>5. CaKey \notin LeafFiles
        BY CertAssumed DEF CaKey, LeafFiles
      <4>7. CaKey \notin leaves
        BY <4>5
      <4> HIDE DEF leaves
      <4>6. /\ CaKey \in Head(run'[Rotate].todo).files => CaCert \in Head(run'[Rotate].todo).files
            /\ leaves \subseteq Head(run'[Rotate].todo).files
        BY <4>4, <4>7, FileNames
      <4> QED BY <2>1, <4>6 DEF RotateSide, Task, leaves
    <3> QED BY <3>1, <3>2
  <2> QED BY <2>1, <2>2, CaKept
<1>2. ASSUME NEW a \in Actors, Exits(a), disk' = disk, LeavesAlone(a),
             Running(a) => run[a].step # <<"write", CaCert>> \/ disk[CaCert] # Blank
      PROVE  CaInv'
  <2>1. CaSide(a)'
    BY <1>2, <1>t, Ending DEF CaSide
  <2>2. RotateSide'
    BY <1>2, <1>t, RotateKept, Ending DEF RotateSide
  <2> QED BY <1>2, <2>1, <2>2, CaKept
<1>3. ASSUME NEW a \in Actors, Kill(a) PROVE CaInv'
  <2>1. disk[CaKey] = NoFile \/ disk[CaCert] # Blank
    BY <1>3 DEF Kill, LeavesMixture
  <2>2. disk[CaCert] # Blank
    BY <2>1, FilesTyped DEF CaInv, CaFilesInv, Good
  <2> QED BY <1>2, <1>3, <2>2, EachAlone DEF Kill
<1>4. ASSUME NEW s \in Services, LoadTrust(s) \/ CheckSound(s) \/ LoadChain(s) \/ Stop(s)
      PROVE  CaInv'
  <2>1. s \in Actors /\ LeavesAlone(s) /\ disk' = disk /\ s # Rotate
        /\ (Running(s) => run[s].step # <<"write", CaCert>>)
    BY <1>4, EachAlone, CertAssumed, StepNames
    DEF LoadTrust, CheckSound, LoadChain, Stop, At, Up
  <2>2. CASE Exits(s)
    BY <1>2, <2>1, <2>2
  <2>3. CASE Finish(s) /\ Running(s)
    <3>1. CaSide(s)'
      BY <1>t, <2>1, <2>3, FinishedTask, <1>f DEF CaSide
    <3> QED BY <2>1, <3>1, RotateKept, CaKept
  <2> QED BY <1>4, <1>t, <2>1, <2>2, <2>3, Loading DEF Stop
<1>5. ASSUME NEW a \in Actors, FindLeaf(a) PROVE CaInv'
  <2>1. LeavesAlone(a) /\ disk' = disk /\ a # Rotate /\ run[a].step = <<"begin">> /\ Running(a)
    BY <1>5, <1>t, EachAlone, FindingLeaf DEF FindLeaf, At
  <2>2. CaSide(a)'
    <3>1. CASE Finish(a)
      BY <1>t, <2>1, <3>1, FinishBegins, NoCaStep
    <3>2. CASE run'[a].step \in {<<"ca">>, <<"chain">>}
      BY <3>2, NoCaStep
    <3> QED BY <1>5, <1>t, <3>1, <3>2, FindingLeaf, IssuedTo
  <2> QED BY <2>1, <2>2, RotateKept, CaKept, StepNames
<1>6. ASSUME NEW a \in Actors, FindCA(a) PROVE CaInv'
  <2>1. /\ LeavesAlone(a) /\ disk' = disk /\ a # Rotate /\ Running(a)
        /\ run[a].step # <<"write", CaCert>>
    BY <1>6, <1>t, EachAlone, FindingCA, StepNames DEF FindCA, At
  <2>2. CaSide(a)'
    <3>1. CASE Finish(a)
      BY <1>t, <2>1, <3>1, FinishBegins, NoCaStep
    <3>2. CASE HasCA /\ run'[a].step = <<"load">>
      BY <2>1, <3>2, StepNames DEF CaSide, HasCA
    <3>3. CASE ~HasCA /\ run'[a].step = <<"open", CaKey>>
      <4>1. disk[CaCert] = NoFile
        BY <3>3, FilesTyped DEF HasCA, CaInv, CaFilesInv, Good
      <4> QED BY <2>1, <3>3, <4>1, StepNames, FileNames DEF CaSide
    <3> QED BY <1>6, <1>t, <3>1, <3>2, <3>3, FindingCA
  <2> QED BY <2>1, <2>2, RotateKept, CaKept
<1>7. ASSUME NEW a \in Actors, LoadCA(a) PROVE CaInv'
  <2>1. /\ LeavesAlone(a) /\ disk' = disk /\ a # Rotate /\ Running(a)
        /\ run[a].step # <<"write", CaCert>>
    BY <1>7, <1>t, EachAlone, LoadingCA, StepNames DEF LoadCA
  <2>2. CASE Exits(a)
    BY <1>2, <2>1, <2>2
  <2>3. CASE run'[a].step = <<"open", KeyOf(Task(a).leaf)>>
    <3>1. Task(a).leaf \in Services
      BY <1>7, <1>t, LoadingCA
    <3>2. KeyOf(Task(a).leaf) \in Files
      BY <3>1, FileNames
    <3>3. run'[a].step \in LeafSteps(Task(a).leaf)
      BY <2>3, <3>1, <3>2, FileSteps
    <3> QED BY <2>1, <3>1, <3>3, NoCaStep, RotateKept, CaKept
  <2> QED BY <1>7, <1>t, <2>2, <2>3, LoadingCA
<1>8. ASSUME NEW a \in Actors, OpenFile(a) PROVE CaInv'
  <2>1. PICK f \in Files :
          /\ Running(a) /\ run[a].step = <<"open", f>> /\ run'[a].step = <<"write", f>>
          /\ run'[a].pair = run[a].pair /\ run'[a].todo = run[a].todo
          /\ disk'[f] = Blank /\ \A g \in Files : g # f => disk'[g] = disk[g]
          /\ mixedUp' = (mixedUp \/ Disturbs(a, f))
    BY <1>8, <1>t, Opening
  <2>2. LeavesAlone(a) /\ a # Rotate
    BY <1>8, <1>t, <2>1, EachAlone, RotateMoves, StepNames
  <2>3. RotateSide'
    BY <2>2, RotateKept
  <2>4. CaSide(a)
    BY DEF CaInv
  <2>5. CASE f = CaKey
    <3>1. disk'[CaCert] = NoFile
      BY <1>f, <2>1, <2>4, <2>5, FileNames DEF CaSide
    <3>2. CaSide(a)'
      BY <2>1, <2>5, <3>1, StepNames, FileNames DEF CaSide
    <3>3. CaFilesInv'
      BY <3>1, FilesTyped DEF CaFilesInv, Good
    <3> QED BY <2>2, <2>3, <3>2, <3>3, CaOthers DEF CaInv
  <2>6. CASE f = CaCert
    <3>1. disk'[CaKey] = Holds(run[a].pair, 0, 0) /\ run[a].pair >= 1
      BY <1>f, <1>t, <2>1, <2>4, <2>6, FileNames, FileSteps DEF CaSide, Fits
    <3>2. CaSide(a)'
      BY <2>1, <2>6, <3>1, StepNames, FileNames DEF CaSide
    <3>3. Good(CaKey)'
      BY <3>1, ContentAs DEF Good
    <3>4. CaFilesInv'
      BY <2>1, <2>6, <3>3 DEF CaFilesInv, Good, Running
    <3> QED BY <2>2, <2>3, <3>2, <3>4, CaOthers DEF CaInv
  <2>7. ASSUME NEW s \in Services, f \in {KeyOf(s), CertOf(s)} PROVE CaInv'
    <3>1. CaSide(a)'
      BY <2>1, <2>7, FileSteps, NoCaStep
    <3>2. disk'[CaKey] = disk[CaKey] /\ disk'[CaCert] = disk[CaCert]
      BY <1>f, <2>1, <2>7, FileNames
    <3> QED BY <2>1, <2>2, <2>3, <3>1, <3>2, StepNames, CaKept
  <2> QED BY <2>5, <2>6, <2>7, EachFile
<1>9. ASSUME NEW a \in Actors, WriteFile(a) PROVE CaInv'
  <2>1. PICK f \in Files :
          /\ Running(a) /\ run[a].step = <<"write", f>>
          /\ \/ /\ f[2] = "key" /\ <<f[1], "cert">> \in Files
                /\ run'[a].step = <<"open", <<f[1], "cert">>>>
                /\ run'[a].pair = run[a].pair
             \/ f = CaCert /\ run'[a].step = <<"load">>
             \/ f = CaCert /\ Finish(a)
             \/ f[2] = "cert" /\ f # CaCert /\ Issued(a)
          /\ disk'[f] = Content(a, f) /\ \A g \in Files : g # f => disk'[g] = disk[g]
          /\ mixedUp' = (mixedUp \/ Disturbs(a, f))
    BY <1>9, <1>t, Writing
  <2>2. LeavesAlone(a) /\ a # Rotate
    BY <1>9, <1>t, <2>1, EachAlone, RotateMoves, StepNames
  <2>3. RotateSide'
    BY <2>2, RotateKept
  <2>4. CaSide(a) /\ run[a].pair >= 1
    BY <1>t, <2>1, FileSteps DEF CaInv, Fits
  <2>5. CASE f = CaKey
    <3>1. disk'[CaCert] = NoFile
      BY <1>f, <2>1, <2>4, <2>5, FileNames DEF CaSide
    <3>2. disk'[CaKey] = Holds(run'[a].pair, 0, 0) /\ run'[a].step = <<"open", CaCert>>
      BY <2>1, <2>5, ContentAs, FileKinds, FileNames DEF CaCert
    <3>3. CaSide(a)'
      BY <3>1, <3>2, StepNames, FileNames DEF CaSide
    <3>4. CaFilesInv'
      BY <3>1, FilesTyped DEF CaFilesInv, Good
    <3> QED BY <2>2, <2>3, <3>3, <3>4, CaOthers DEF CaInv
  <2>6. CASE f = CaCert
    <3>1. disk'[CaKey] = Holds(run[a].pair, 0, 0)
      BY <1>f, <2>1, <2>4, <2>6, FileNames DEF CaSide
    <3>2. disk'[CaCert] = Holds(run[a].pair, run[a].pair, 0)
      BY <2>1, <2>6, ContentAs
    <3>3. disk'[CaCert] \notin {NoFile, Blank} /\ disk'[CaKey] \notin {NoFile, Blank}
          /\ disk'[CaCert].pair = disk'[CaKey].pair
      BY <2>4, <3>1, <3>2, ContentAs
    <3>4. run'[a].step \in {<<"load">>, <<"begin">>}
      BY <1>t, <2>1, <2>6, FileKinds, FinishBegins
    <3>5. CaSide(a)'
      BY <3>3, <3>4, StepNames DEF CaSide
    <3>6. CaFilesInv'
      BY <3>3 DEF CaFilesInv, Good
    <3> QED BY <2>2, <2>3, <3>5, <3>6, CaOthers DEF CaInv
  <2>7. ASSUME NEW s \in Services, f = KeyOf(s) PROVE CaInv'
    <3>1. run'[a].step = <<"open", CertOf(s)>>
      BY <2>1, <2>7, FileKinds, FileNames DEF CertOf
    <3>2. CaSide(a)'
      <4>1. run'[a].step \in LeafSteps(s)
        BY <3>1, LeafStepNames
      <4> QED BY <4>1, NoCaStep
    <3>3. disk'[CaKey] = disk[CaKey] /\ disk'[CaCert] = disk[CaCert] /\ f # CaCert
      BY <1>f, <2>1, <2>7, FileNames
    <3> QED BY <2>1, <2>2, <2>3, <3>2, <3>3, StepNames, CaKept
  <2>8. ASSUME NEW s \in Services, f = CertOf(s) PROVE CaInv'
    <3>1. run'[a].step \in {<<"begin">>, <<"chain">>}
      BY <1>t, <2>1, <2>8, FileKinds, FileNames, IssuedTo, FinishBegins
    <3>2. CaSide(a)'
      BY <3>1, NoCaStep
    <3>3. disk'[CaKey] = disk[CaKey] /\ disk'[CaCert] = disk[CaCert] /\ f # CaCert
      BY <1>f, <2>1, <2>8, FileNames
    <3> QED BY <2>1, <2>2, <2>3, <3>2, <3>3, StepNames, CaKept
  <2> QED BY <2>5, <2>6, <2>7, <2>8, EachFile
<1>10. ASSUME MoveFile PROVE CaInv'
  <2> DEFINE fs == Task(Rotate).files
  <2>1. /\ Rotate \in Actors /\ Running(Rotate) /\ LeavesAlone(Rotate)
        /\ run[Rotate].step = <<"begin">>
    BY <1>10, <1>t, CertAssumed, EachAlone, Moving, RotateMoves
  <2>2. CASE run'[Rotate] = AtRest /\ disk' = disk
    <3>1. CaSide(Rotate)' /\ RotateSide'
      BY <2>2 DEF CaSide, RotateSide, Running, AtRest, Begins
    <3> QED BY <2>1, <2>2, <3>1, CaKept, StepNames
  <2>3. ASSUME NEW f \in fs, f \in Files, CaCert \in fs => f = CaCert, CaKey \in fs => f \in CaFiles,
               disk'[f] = NoFile, \A g \in Files : g # f => disk'[g] = disk[g],
               run'[Rotate].todo = <<Move(fs \ {f})>>, run'[Rotate].step = <<"begin">>
        PROVE  CaInv'
    <3>1. CaSide(Rotate)'
      BY <2>1, <2>3, NoCaStep
    <3>2. Task(Rotate)'.files = fs \ {f}
      BY <2>3, ShortSequences, TaskNames DEF Task
    <3>3. RotateSide
      BY DEF CaInv
    <3>4. ASSUME CaKey \in fs \ {f} PROVE CaCert \in fs \ {f} \/ disk'[CaCert] = NoFile
      BY <1>f, <2>1, <2>3, <3>3, <3>4 DEF RotateSide
    <3>5. ASSUME NEW g \in LeafFiles, disk'[g] # NoFile PROVE g \in fs \ {f}
      BY <2>1, <2>3, <3>3, <3>5 DEF RotateSide, Files
    <3>6. RotateSide'
      BY <3>2, <3>4, <3>5 DEF RotateSide
    <3>7. CASE f = CaCert
      BY <1>f, <2>1, <2>3, <3>1, <3>6, <3>7, FilesTyped, CaOthers DEF CaFilesInv, CaInv, Good
    <3>8. CASE f = CaKey
      <4>1. disk'[CaCert] = NoFile
        BY <1>f, <2>1, <2>3, <3>3, <3>8, FileNames DEF RotateSide
      <4> QED BY <2>1, <3>1, <3>6, <4>1, FilesTyped, CaOthers DEF CaFilesInv, CaInv, Good
    <3>9. CASE f \notin {CaCert, CaKey}
      <4>1. disk'[CaKey] = disk[CaKey] /\ disk'[CaCert] = disk[CaCert]
        BY <1>f, <2>3, <3>9
      <4> QED BY <2>1, <3>1, <3>6, <4>1, CaKept, StepNames
    <3> QED BY <3>7, <3>8, <3>9
  <2> QED BY <1>10, <1>t, <2>1, <2>2, <2>3, Moving
<1>11. ASSUME Readdress \/ Expire PROVE CaInv'
  BY <1>11 DEF Readdress, Expire, CaInv, CaFilesInv, RotateSide, CaSide, Good, Task, Running
<1> QED
  BY <1>1, <1>2, <1>3, <1>4, <1>5, <1>6, <1>7, <1>8, <1>9, <1>10, <1>11 DEF CertNext

LEMMA CaStart == CertInit => CaInv
<1> SUFFICES ASSUME CertInit PROVE CaInv
  OBVIOUS
<1>1. \A a \in Actors : ~Running(a)
  BY DEF CertInit, Running, AtRest, Begins
<1>2. CASE disk = [f \in Files |-> NoFile]
  BY <1>1, <1>2, CertAssumed, FileNames, FilesTyped DEF CaInv, CaFilesInv, RotateSide, CaSide, Good
<1>3. CASE disk = Provisioned
  <2>1. disk[CaCert] = Holds(1, 1, 0) /\ disk[CaKey] = Holds(1, 0, 0)
    BY <1>3, FileNames, FileKinds DEF Provisioned
  <2>2. Good(CaCert) /\ Good(CaKey) /\ disk[CaKey].pair = disk[CaCert].pair
    BY <2>1 DEF Good, NoFile, Blank, Holds
  <2> QED BY <1>1, <2>2, CertAssumed DEF CaInv, CaFilesInv, RotateSide, CaSide, Good
<1> QED BY <1>2, <1>3 DEF CertInit

\* The leaf's files, for a run that makes it or is about to load it.
LeafSide(a) == Running(a) =>
    /\ \A s \in Services :
          /\ run[a].step \in LeafSteps(s) => Good(CaCert) /\ run[a].by = disk[CaCert].pair
          /\ run[a].step \in {<<"open", CertOf(s)>>, <<"write", CertOf(s)>>} =>
                 disk[KeyOf(s)] = Holds(run[a].pair, 0, 0)
    /\ run[a].step = <<"chain">> => a \in Services /\ Reusable(a, run[a].at)

\* A run between the new key and the new certificate of a leaf.
Midway(s) == \E b \in Actors : Running(b) /\ run[b].step \in {<<"write", KeyOf(s)>>, <<"open", CertOf(s)>>}

\* The addresses for which a leaf may be used again.
Ats == {address} \cup {run[b].at : b \in {c \in Actors : Running(c)}}

\* A leaf that would be used again belongs to its key.
Whole(s) == \A at \in Ats : Reusable(s, at) =>
    disk[KeyOf(s)].pair = disk[CertOf(s)].pair \/ Midway(s)

LeafInv == (\A a \in Actors : LeafSide(a)) /\ \A s \in Services : Whole(s)

LEMMA LeafOthers ==
    ASSUME CertSane, LeafInv, NEW a \in Actors, LeavesAlone(a), LeafSide(a)'
    PROVE  \A b \in Actors : LeafSide(b)'
<1> SUFFICES ASSUME NEW b \in Actors, b # a, Running(b) PROVE LeafSide(b)'
  BY DEF LeavesAlone, LeafSide, Running
<1>1. run'[b] = run[b] /\ disk'[CaCert] = disk[CaCert]
  BY UsesFiles DEF LeavesAlone
<1>2. ASSUME NEW s \in Services, run[b].step \in LeafSteps(s)
      PROVE  disk'[KeyOf(s)] = disk[KeyOf(s)]
  <2>1. Fits(b)
    BY DEF CertSane, PlanInv
  <2> QED BY <1>2, <2>1, UsesLeaf DEF LeavesAlone
<1>3. ASSUME NEW s \in Services, run[b].step \in {<<"open", CertOf(s)>>, <<"write", CertOf(s)>>}
      PROVE  run[b].step \in LeafSteps(s)
  BY <1>3, LeafStepNames
<1>4. ASSUME b \in Services, Reusable(b, run[b].at) PROVE Reusable(b, run[b].at)'
  BY <1>1, <1>4, UsesFiles DEF LeavesAlone, Reusable
<1> QED BY <1>1, <1>2, <1>3, <1>4 DEF LeafInv, LeafSide, Good, Running

LEMMA NoLeafStep ==
    ASSUME NEW a \in Actors,
           run'[a].step \in {<<"begin">>, <<"ca">>, <<"load">>} \cup CaSteps
    PROVE  LeafSide(a)'
<1>1. run'[a].step # <<"chain">>
  BY StepNames DEF CaSteps
<1>2. \A s \in Services : run'[a].step \notin LeafSteps(s)
  BY FileNames DEF LeafSteps, CaSteps
<1>3. \A s \in Services : run'[a].step \notin {<<"open", CertOf(s)>>, <<"write", CertOf(s)>>}
  BY <1>2 DEF LeafSteps
<1> QED BY <1>1, <1>2, <1>3 DEF LeafSide

LEMMA AtsKept ==
    ASSUME NEW a \in Actors, address' = address, \A b \in Actors : b # a => run'[b] = run[b],
           Running(a)' => run'[a].at = address \/ (Running(a) /\ run'[a].at = run[a].at)
    PROVE  Ats' \subseteq Ats
BY DEF Ats, Running

LEMMA WholeKept ==
    ASSUME NEW s \in Services, Whole(s), NEW a \in Actors, LeavesAlone(a), Ats' \subseteq Ats,
           disk'[KeyOf(s)] = disk[KeyOf(s)], disk'[CertOf(s)] = disk[CertOf(s)],
           Running(a) => run[a].step \notin {<<"write", KeyOf(s)>>, <<"open", CertOf(s)>>}
    PROVE  Whole(s)'
<1>1. Midway(s) => Midway(s)'
  BY DEF Midway, LeavesAlone, Running
<1> QED BY <1>1 DEF Whole, Reusable

\* A step that leaves the leaves as they are.
LEMMA LeavesKept ==
    ASSUME CertSane, LeafInv, NEW a \in Actors, LeavesAlone(a), LeafSide(a)', address' = address,
           Running(a)' => run'[a].at = address \/ (Running(a) /\ run'[a].at = run[a].at),
           \A f \in LeafFiles : disk'[f] = disk[f],
           Running(a) => \A f \in LeafFiles : run[a].step \notin {<<"write", f>>, <<"open", f>>}
    PROVE  LeafInv'
<1>1. Ats' \subseteq Ats
  BY AtsKept DEF LeavesAlone
<1>2. \A s \in Services : Whole(s)'
  BY <1>1, WholeKept, FileNames DEF LeafInv
<1> QED BY <1>2, LeafOthers DEF LeafInv

LEMMA LeafStart == CertInit => LeafInv
<1> SUFFICES ASSUME CertInit PROVE LeafInv
  OBVIOUS
<1>1. \A a \in Actors : ~Running(a)
  BY DEF CertInit, Running, AtRest, Begins
<1>2. ASSUME NEW s \in Services PROVE Whole(s)
  <2>1. CASE disk = [f \in Files |-> NoFile]
    BY <2>1, FileNames DEF Whole, Reusable
  <2>2. CASE disk = Provisioned
    BY <2>2, FileNames, FileKinds, ContentAs DEF Whole, Provisioned, Holds
  <2> QED BY <2>1, <2>2 DEF CertInit
<1> QED BY <1>1, <1>2 DEF LeafInv, LeafSide

LEMMA LeafStep ==
    ASSUME CertSane, CaInv, LeafInv, CertNext, ~mixedUp'
    PROVE  LeafInv'
<1>t. /\ CertTyped /\ PlanInv /\ ContentInv /\ address \in Nat /\ address >= 1
      /\ \A a \in Actors : Fits(a) /\ LeafSide(a)
      /\ \A s \in Services : Whole(s)
  BY DEF CertSane, PlanInv, CertTyped, CertTypeOK, LeafInv
<1>f. /\ CaCert \in Files /\ CaFiles \subseteq Files /\ LeafFiles \subseteq Files
      /\ \A f \in LeafFiles : f # CaCert /\ f # CaKey
  BY CertAssumed, FileNames DEF LeafFiles, CaKey, CaCert, Files
<1>n. \A f : /\ <<"begin">> \notin {<<"write", f>>, <<"open", f>>}
             /\ <<"ca">> \notin {<<"write", f>>, <<"open", f>>}
             /\ <<"load">> \notin {<<"write", f>>, <<"open", f>>}
             /\ <<"chain">> \notin {<<"write", f>>, <<"open", f>>}
  BY StepNames
<1>1. ASSUME NEW a \in Actors, Start(a) PROVE LeafInv'
  <2>1. LeavesAlone(a) /\ run'[a].step = <<"begin">> /\ run'[a].at = address
    BY <1>1, <1>t, EachAlone, StartFits
  <2>2. disk' = disk /\ address' = address /\ ~Running(a)
    BY <1>1 DEF Start
  <2> QED BY <2>1, <2>2, NoLeafStep, LeavesKept
\* A run that ends, at a step that is not between two files of a leaf.
<1>2. ASSUME NEW a \in Actors, Exits(a), disk' = disk, address' = address, LeavesAlone(a),
             Running(a) => \A f \in LeafFiles : run[a].step \notin {<<"write", f>>, <<"open", f>>}
      PROVE  LeafInv'
  <2>1. ~Running(a)'
    BY <1>2, <1>t, Ending
  <2> QED BY <1>2, <2>1, LeavesKept DEF LeafSide
<1>3. ASSUME NEW a \in Actors, Kill(a) PROVE LeafInv'
  <2>1. ~Running(a)' /\ LeavesAlone(a) /\ disk' = disk /\ address' = address /\ ~LeavesMixture(a)
    BY <1>3, <1>t, Ending, EachAlone DEF Kill
  <2>2. Ats' \subseteq {address} \cup {run[b].at : b \in {c \in Actors \ {a} : Running(c)}}
    BY <2>1 DEF Ats, LeavesAlone, Running
  <2>3. \A s \in Services : Whole(s)'
    BY <2>1, <2>2 DEF LeavesMixture, Whole, Reusable
  <2>4. LeafSide(a)'
    BY <2>1 DEF LeafSide
  <2> QED BY <2>1, <2>3, <2>4, LeafOthers DEF LeafInv
<1>4. ASSUME NEW s \in Services, LoadTrust(s) \/ CheckSound(s) \/ LoadChain(s) \/ Stop(s)
      PROVE  LeafInv'
  <2>1. /\ s \in Actors /\ LeavesAlone(s) /\ disk' = disk /\ address' = address
        /\ Running(s) => run[s].step \in {<<"begin">>, <<"chain">>}
    BY <1>4, EachAlone, CertAssumed DEF LoadTrust, CheckSound, LoadChain, Stop, At, Up
  <2>2. CASE Exits(s)
    BY <1>2, <1>n, <2>1, <2>2
  <2>3. CASE Finish(s) /\ Running(s)
    BY <1>t, <1>n, <2>1, <2>3, FinishBegins, NoLeafStep, LeavesKept
  <2> QED BY <1>4, <1>t, <2>1, <2>2, <2>3, Loading DEF Stop
<1>5. ASSUME NEW a \in Actors, FindLeaf(a) PROVE LeafInv'
  <2>1. /\ LeavesAlone(a) /\ disk' = disk /\ address' = address /\ Running(a)
        /\ run[a].step = <<"begin">> /\ Task(a).leaf \in Services /\ Task(a).do = "issue"
    BY <1>5, <1>t, EachAlone, FindingLeaf DEF FindLeaf, At
  <2>2. CASE Finish(a)
    BY <1>t, <1>n, <2>1, <2>2, FinishBegins, NoLeafStep, LeavesKept
  <2>3. CASE run'[a].step = <<"ca">> /\ run'[a].at = run[a].at
    BY <1>n, <2>1, <2>3, NoLeafStep, LeavesKept
  <2>4. CASE /\ a \in Services /\ run'[a].step = <<"chain">> /\ run'[a].at = run[a].at
             /\ Reusable(Task(a).leaf, run[a].at)
    <3>1. Task(a).leaf = a
      BY <1>t, <2>1, <2>4, ServiceAt
    <3>2. LeafSide(a)'
      BY <1>n, <2>1, <2>4, <3>1, NotAFileStep DEF LeafSide, Reusable
    <3> QED BY <1>n, <2>1, <2>4, <3>2, LeavesKept
  <2> QED BY <1>5, <1>t, <2>1, <2>2, <2>3, <2>4, FindingLeaf, IssuedTo
<1>6. ASSUME NEW a \in Actors, FindCA(a) PROVE LeafInv'
  <2>1. /\ LeavesAlone(a) /\ disk' = disk /\ address' = address /\ Running(a)
        /\ run[a].step \in {<<"begin">>, <<"ca">>}
    BY <1>6, <1>t, EachAlone, FindingCA DEF FindCA, At
  <2>2. CASE Finish(a)
    BY <1>t, <1>n, <2>1, <2>2, FinishBegins, NoLeafStep, LeavesKept
  <2>3. CASE run'[a].step \in {<<"load">>, <<"open", CaKey>>} /\ run'[a].at = run[a].at
    <3>1. <<"open", CaKey>> \in CaSteps
      BY FileNames DEF CaSteps
    <3> QED BY <1>n, <2>1, <2>3, <3>1, NoLeafStep, LeavesKept
  <2> QED BY <1>6, <1>t, <2>2, <2>3, FindingCA
<1>7. ASSUME NEW a \in Actors, LoadCA(a) PROVE LeafInv'
  <2>1. /\ LeavesAlone(a) /\ disk' = disk /\ address' = address /\ Running(a)
        /\ run[a].step = <<"load">>
    BY <1>7, <1>t, EachAlone, LoadingCA DEF LoadCA
  <2>2. CASE Exits(a)
    BY <1>2, <1>n, <2>1, <2>2
  <2>3. CASE /\ Good(CaKey) /\ Good(CaCert) /\ run'[a].by = disk[CaKey].pair
             /\ run'[a].at = run[a].at /\ run'[a].step = <<"open", KeyOf(Task(a).leaf)>>
    <3>1. Good(CaCert)' /\ run'[a].by = disk'[CaCert].pair
      BY <2>1, <2>3 DEF Good, CaInv, CaFilesInv
    <3>2. \A s \in Services : run'[a].step \notin {<<"open", CertOf(s)>>, <<"write", CertOf(s)>>}
      BY <2>3 DEF KeyOf, CertOf
    <3>3. LeafSide(a)'
      BY <1>n, <2>3, <3>1, <3>2 DEF LeafSide
    <3> QED BY <1>n, <2>1, <2>3, <3>3, LeavesKept
  <2> QED BY <1>7, <1>t, <2>2, <2>3, LoadingCA
<1>8. ASSUME NEW a \in Actors, OpenFile(a) PROVE LeafInv'
  <2>1. PICK f \in Files :
          /\ Running(a) /\ run[a].step = <<"open", f>> /\ run'[a].step = <<"write", f>>
          /\ run'[a].todo = run[a].todo /\ run'[a].at = run[a].at
          /\ run'[a].pair = run[a].pair /\ run'[a].by = run[a].by
          /\ disk'[f] = Blank /\ \A g \in Files : g # f => disk'[g] = disk[g]
    BY <1>8, <1>t, Opening
  <2>2. LeavesAlone(a) /\ address' = address
    BY <1>8, EachAlone DEF OpenFile
  <2>3. CASE f \in CaFiles
    <3>1. run'[a].step \in CaSteps
      BY <2>1, <2>3 DEF CaSteps
    <3>2. \A g \in LeafFiles : g # f
      BY <1>f, <2>3 DEF CaFiles
    <3> QED BY <1>f, <2>1, <2>2, <2>3, <3>1, <3>2, NoLeafStep, LeavesKept, StepNames
  <2>4. ASSUME NEW s \in Services, f \in {KeyOf(s), CertOf(s)} PROVE LeafInv'
    <3>1. /\ disk'[CaCert] = disk[CaCert]
          /\ \A x \in Services : x # s => /\ disk'[KeyOf(x)] = disk[KeyOf(x)]
                                          /\ disk'[CertOf(x)] = disk[CertOf(x)]
                                          /\ f \notin {KeyOf(x), CertOf(x)}
      BY <1>f, <2>1, <2>4, FileNames
    <3>2. Ats' \subseteq Ats
      BY <2>1, <2>2, AtsKept DEF LeavesAlone
    <3>3. ASSUME NEW x \in Services, x # s PROVE Whole(x)'
      <4>1. run[a].step \notin {<<"write", KeyOf(x)>>, <<"open", CertOf(x)>>}
        BY <2>1, <3>1, <3>3, StepNames
      <4> QED BY <1>t, <2>2, <3>1, <3>2, <3>3, <4>1, WholeKept
    <3>4. Whole(s)'
      <4>1. CASE f = KeyOf(s)
        BY <2>1, <4>1 DEF Whole, Midway, Running
      <4>2. CASE f = CertOf(s)
        <5>1. \A at \in Ats : at # 0
          BY <1>t DEF Ats, Fits
        <5>2. disk'[CertOf(s)].at = 0
          BY <2>1, <4>2, FilesTyped
        <5> QED BY <3>2, <5>1, <5>2 DEF Whole, Reusable
      <4> QED BY <2>4, <4>1, <4>2
    <3>5. LeafSide(a)'
      <4>1. run[a].step \in LeafSteps(s)
        BY <2>1, <2>4, LeafStepNames
      <4>2. Good(CaCert) /\ run[a].by = disk[CaCert].pair
        BY <1>t, <2>1, <4>1 DEF LeafSide
      <4>3. \A x \in Services :
               run'[a].step \in {<<"open", CertOf(x)>>, <<"write", CertOf(x)>>} => x = s /\ f = CertOf(s)
        BY <2>1, <2>4, <3>1, StepNames
      <4>4. f = CertOf(s) => disk[KeyOf(s)] = Holds(run[a].pair, 0, 0)
        BY <1>t, <2>1 DEF LeafSide
      <4>5. f = CertOf(s) => disk'[KeyOf(s)] = Holds(run'[a].pair, 0, 0)
        BY <2>1, <4>4, FileNames
      <4> QED BY <1>n, <2>1, <3>1, <4>2, <4>3, <4>5 DEF LeafSide, Good
    <3> QED BY <2>2, <3>3, <3>4, <3>5, LeafOthers DEF LeafInv
  <2> QED BY <2>3, <2>4, EachFile, FileNames
<1>9. ASSUME NEW a \in Actors, WriteFile(a) PROVE LeafInv'
  <2>1. PICK f \in Files :
          /\ Running(a) /\ run[a].step = <<"write", f>>
          /\ \/ /\ f[2] = "key" /\ <<f[1], "cert">> \in Files
                /\ run'[a].step = <<"open", <<f[1], "cert">>>>
                /\ run'[a].todo = run[a].todo /\ run'[a].at = run[a].at
                /\ run'[a].pair = run[a].pair /\ run'[a].by = run[a].by
             \/ f = CaCert /\ run'[a].step = <<"load">> /\ run'[a].at = run[a].at
             \/ f = CaCert /\ Finish(a)
             \/ f[2] = "cert" /\ f # CaCert /\ Issued(a)
          /\ disk'[f] = Content(a, f) /\ \A g \in Files : g # f => disk'[g] = disk[g]
    BY <1>9, <1>t, Writing
  <2>2. LeavesAlone(a) /\ address' = address
    BY <1>9, EachAlone DEF WriteFile
  <2>3. CASE f \in CaFiles
    <3>1. run'[a].step \in {<<"load">>, <<"begin">>, <<"open", CaCert>>}
          /\ (Running(a)' => run'[a].at = run[a].at)
      <4>1. CASE f = CaKey
        BY <2>1, <4>1, FileKinds, FileNames DEF CaCert
      <4>2. CASE f = CaCert
        BY <1>t, <2>1, <4>2, FileKinds, FinishBegins
      <4> QED BY <2>3, <4>1, <4>2 DEF CaFiles
    <3>2. \A g \in LeafFiles : g # f
      BY <1>f, <2>3 DEF CaFiles
    <3>3. <<"open", CaCert>> \in CaSteps
      BY FileNames DEF CaSteps
    <3>4. LeafSide(a)'
      BY <3>1, <3>3, NoLeafStep
    <3> QED BY <1>f, <2>1, <2>2, <2>3, <3>1, <3>2, <3>4, LeavesKept, StepNames
  <2>4. ASSUME NEW s \in Services, f \in {KeyOf(s), CertOf(s)} PROVE LeafInv'
    <3>0. \/ f = KeyOf(s) /\ run'[a].step = <<"open", CertOf(s)>> /\ run'[a].at = run[a].at
               /\ run'[a].pair = run[a].pair /\ run'[a].by = run[a].by /\ Running(a)'
          \/ f = CertOf(s) /\ Issued(a)
      <4>1. CASE f = KeyOf(s)
        BY <2>1, <4>1, FileKinds, FileNames DEF CertOf, Running
      <4>2. CASE f = CertOf(s)
        BY <2>1, <4>2, FileKinds, FileNames
      <4> QED BY <2>4, <4>1, <4>2
    <3>1. /\ disk'[CaCert] = disk[CaCert]
          /\ \A x \in Services : x # s => /\ disk'[KeyOf(x)] = disk[KeyOf(x)]
                                          /\ disk'[CertOf(x)] = disk[CertOf(x)]
                                          /\ f \notin {KeyOf(x), CertOf(x)}
      BY <1>f, <2>1, <2>4, FileNames
    <3>2. Ats' \subseteq Ats
      <4>1. Running(a)' => run'[a].at = run[a].at
        BY <1>t, <2>1, <3>0, IssuedTo, FinishBegins
      <4> QED BY <2>1, <2>2, <4>1, AtsKept DEF LeavesAlone
    <3>3. ASSUME NEW x \in Services, x # s PROVE Whole(x)'
      <4>1. run[a].step \notin {<<"write", KeyOf(x)>>, <<"open", CertOf(x)>>}
        BY <2>1, <3>1, <3>3, StepNames
      <4> QED BY <1>t, <2>2, <3>1, <3>2, <3>3, <4>1, WholeKept
    <3>4. CASE f = KeyOf(s) /\ run'[a].step = <<"open", CertOf(s)>> /\ Running(a)'
               /\ run'[a].pair = run[a].pair /\ run'[a].by = run[a].by
      <4>1. Whole(s)'
        BY <3>4 DEF Whole, Midway
      <4>2. run[a].step \in LeafSteps(s)
        BY <2>1, <3>4, LeafStepNames
      <4>3. Good(CaCert) /\ run[a].by = disk[CaCert].pair
        BY <1>t, <2>1, <4>2 DEF LeafSide
      <4>4. \A x \in Services :
               run'[a].step \in {<<"open", CertOf(x)>>, <<"write", CertOf(x)>>} => x = s
        BY <3>4, StepNames DEF CertOf
      <4>5. disk'[KeyOf(s)] = Holds(run'[a].pair, 0, 0)
        BY <2>1, <3>4, ContentAs
      <4>6. LeafSide(a)'
        BY <1>n, <3>1, <3>4, <4>3, <4>4, <4>5 DEF LeafSide, Good
      <4> QED BY <2>2, <3>3, <4>1, <4>6, LeafOthers DEF LeafInv
    <3>5. CASE f = CertOf(s) /\ Issued(a)
      <4>1. disk'[KeyOf(s)] = Holds(run[a].pair, 0, 0)
        BY <1>t, <2>1, <3>5, FileNames DEF LeafSide
      <4>2. disk'[CertOf(s)] = Holds(run[a].pair, run[a].by, run[a].at)
        BY <2>1, <3>5, ContentAs
      <4>3. Whole(s)'
        BY <4>1, <4>2, ContentAs DEF Whole
      <4>4. LeafSide(a)'
        <5>1. CASE Finish(a)
          BY <1>t, <2>1, <5>1, FinishBegins, NoLeafStep
        <5>2. CASE a \in Services /\ run'[a].step = <<"chain">> /\ run'[a].at = run[a].at
          <6>1. run[a].step \in LeafSteps(s)
            BY <2>1, <3>5, LeafStepNames
          <6>2. a = s /\ run[a].pair >= 1
            BY <1>t, <2>1, <5>2, <6>1, UsesLeaf, CertAssumed, FileSteps DEF Fits
          <6>3. Reusable(a, run[a].at)'
            BY <4>1, <4>2, <5>2, <6>2, ContentAs DEF Reusable
          <6> QED BY <1>n, <5>2, <6>3, NotAFileStep DEF LeafSide
        <5> QED BY <1>t, <2>1, <3>5, <5>1, <5>2, IssuedTo
      <4> QED BY <2>2, <3>3, <4>3, <4>4, LeafOthers DEF LeafInv
    <3> QED BY <3>0, <3>4, <3>5
  <2> QED BY <2>3, <2>4, EachFile, FileNames
<1>10. ASSUME MoveFile PROVE LeafInv'
  <2>1. /\ Rotate \in Actors /\ Running(Rotate) /\ LeavesAlone(Rotate)
        /\ run[Rotate].step = <<"begin">> /\ address' = address
    BY <1>10, <1>t, CertAssumed, EachAlone, Moving, RotateMoves DEF MoveFile
  <2>2. CASE run'[Rotate] = AtRest /\ disk' = disk
    <3>1. LeafSide(Rotate)' /\ ~Running(Rotate)'
      BY <2>2 DEF LeafSide, Running, AtRest, Begins
    <3> QED BY <1>n, <2>1, <2>2, <3>1, LeavesKept
  <2>3. ASSUME NEW f \in Files, disk'[f] = NoFile, \A g \in Files : g # f => disk'[g] = disk[g],
               run'[Rotate].step = <<"begin">>, run'[Rotate].at = run[Rotate].at
        PROVE  LeafInv'
    <3>1. LeafSide(Rotate)'
      BY <2>1, <2>3, NoLeafStep
    <3>2. Ats' \subseteq Ats
      BY <2>1, <2>3, AtsKept DEF LeavesAlone
    <3>3. ASSUME NEW s \in Services PROVE Whole(s)'
      <4>1. CASE f \in {KeyOf(s), CertOf(s)}
        BY <2>3, <4>1 DEF Whole, Reusable
      <4>2. CASE f \notin {KeyOf(s), CertOf(s)}
        BY <1>n, <1>t, <2>1, <2>3, <3>2, <4>2, FileNames, WholeKept
      <4> QED BY <4>1, <4>2
    <3> QED BY <2>1, <3>1, <3>3, LeafOthers DEF LeafInv
  <2> QED BY <1>10, <1>t, <2>1, <2>2, <2>3, Moving
<1>11. ASSUME Readdress \/ Expire PROVE LeafInv'
  <2>1. disk' = disk /\ run' = run /\ address' \in {address, address + 1}
    BY <1>11 DEF Readdress, Expire
  <2>2. Ats' \subseteq Ats \cup {address + 1}
    BY <2>1 DEF Ats, Running
  <2>3. ASSUME NEW s \in Services PROVE Whole(s)'
    <3>1. disk[CertOf(s)].at # address + 1
      <4>1. CASE Good(CertOf(s))
        BY <1>t, <4>1 DEF ContentInv
      <4>2. CASE ~Good(CertOf(s))
        BY <1>t, <4>2, FilesTyped DEF Good
      <4> QED BY <4>1, <4>2
    <3>2. Midway(s) => Midway(s)'
      BY <2>1 DEF Midway, Running
    <3> QED BY <1>t, <2>1, <2>2, <3>1, <3>2 DEF Whole, Reusable
  <2>4. \A a \in Actors : LeafSide(a)'
    BY <1>t, <2>1 DEF LeafSide, Good, Reusable, Running
  <2> QED BY <2>3, <2>4 DEF LeafInv
<1> QED
  BY <1>1, <1>3, <1>4, <1>5, <1>6, <1>7, <1>8, <1>9, <1>10, <1>11 DEF CertNext

\* A leaf that is on disk was signed by the CA that is, or rotate_keys has just moved that.
Signed(s) == Good(CertOf(s)) =>
    \/ Good(CaCert) /\ disk[CertOf(s)].by = disk[CaCert].pair
    \/ Running(Rotate) /\ disk[CaCert] = NoFile /\ disk[CertOf(s)].by \in retired

SignedInv == \A s \in Services : Signed(s)

LEMMA SignedKept ==
    ASSUME NEW s \in Services, Signed(s), Running(Rotate) => Running(Rotate)', retired \subseteq retired',
           disk'[CaCert] = disk[CaCert], disk'[CertOf(s)] \in {disk[CertOf(s)], NoFile, Blank}
    PROVE  Signed(s)'
BY DEF Signed, Good

LEMMA SignedStart == CertInit => SignedInv
<1> SUFFICES ASSUME CertInit, NEW s \in Services PROVE Signed(s)
  BY DEF SignedInv
<1>1. CASE disk = [f \in Files |-> NoFile]
  BY <1>1, FileNames DEF Signed, Good
<1>2. CASE disk = Provisioned
  <2>1. disk[CaCert] = Holds(1, 1, 0) /\ disk[CertOf(s)].by = 1
    BY <1>2, FileNames, FileKinds DEF Provisioned, Holds
  <2>2. Good(CaCert) /\ disk[CaCert].pair = 1
    BY <2>1 DEF Good, NoFile, Blank, Holds
  <2> QED BY <2>1, <2>2 DEF Signed
<1> QED BY <1>1, <1>2 DEF CertInit

LEMMA SignedStep ==
    ASSUME CertSane, CaInv, LeafInv, SignedInv, CertNext, ~mixedUp'
    PROVE  SignedInv'
<1>t. /\ CertTyped /\ PlanInv /\ ContentInv
      /\ \A a \in Actors : Fits(a) /\ CaSide(a) /\ LeafSide(a)
      /\ \A s \in Services : Signed(s)
      /\ Rotate \in Actors /\ CaCert \in Files
      /\ \A s \in Services : CertOf(s) \in Files /\ CertOf(s) # CaCert
  BY CertAssumed, FileNames DEF CertSane, PlanInv, CaInv, LeafInv, SignedInv
<1>u. ASSUME disk' = disk, retired' = retired, Running(Rotate) => Running(Rotate)'
      PROVE  SignedInv'
  BY <1>t, <1>u, SignedKept DEF SignedInv
<1>1. ASSUME NEW a \in Actors, Start(a) PROVE SignedInv'
  BY <1>1, <1>t, <1>u, StartFits DEF Start, Running, PlanInv
<1>2. ASSUME NEW a \in Actors, a # Rotate, Exits(a), disk' = disk, retired' = retired PROVE SignedInv'
  BY <1>2, <1>t, <1>u, Ending DEF Running
<1>3. ASSUME NEW a \in Actors, Kill(a) PROVE SignedInv'
  <2>1. disk' = disk /\ retired' = retired /\ Exits(a) /\ ~LeavesMixture(a)
    BY <1>3 DEF Kill
  <2>2. CASE a = Rotate
    BY <1>t, <2>1, <2>2 DEF LeavesMixture, SignedInv, Signed, Good
  <2> QED BY <1>2, <2>1, <2>2
<1>4. ASSUME NEW s \in Services, LoadTrust(s) \/ CheckSound(s) \/ LoadChain(s) \/ Stop(s)
      PROVE  SignedInv'
  <2>1. s \in Actors /\ s # Rotate /\ disk' = disk /\ retired' = retired
    BY <1>4, CertAssumed DEF LoadTrust, CheckSound, LoadChain, Stop
  <2>2. CASE Exits(s)
    BY <1>2, <2>1, <2>2
  <2>3. CASE \A b \in Actors : b # s => run'[b] = run[b]
    BY <1>t, <1>u, <2>1, <2>3 DEF Running
  <2> QED BY <1>4, <1>t, <2>1, <2>2, <2>3, Loading DEF Stop
<1>5. ASSUME NEW a \in Actors, FindLeaf(a) \/ FindCA(a) PROVE SignedInv'
  <2>1. a # Rotate /\ (\A b \in Actors : b # a => run'[b] = run[b]) /\ disk' = disk /\ retired' = retired
    BY <1>5, <1>t, FindingLeaf, FindingCA DEF FindLeaf, FindCA
  <2> QED BY <1>t, <1>u, <2>1 DEF Running
<1>7. ASSUME NEW a \in Actors, LoadCA(a) PROVE SignedInv'
  <2>1. a # Rotate /\ disk' = disk /\ retired' = retired
        /\ (Exits(a) \/ \A b \in Actors : b # a => run'[b] = run[b])
    BY <1>7, <1>t, LoadingCA DEF LoadCA
  <2> QED BY <1>2, <1>t, <1>u, <2>1 DEF Running
<1>8. ASSUME NEW a \in Actors, OpenFile(a) \/ WriteFile(a) PROVE SignedInv'
  <2>1. PICK f \in Files :
          /\ Running(a) /\ \A b \in Actors : b # a => run'[b] = run[b]
          /\ \/ run[a].step = <<"open", f>> /\ disk'[f] = Blank
             \/ run[a].step = <<"write", f>> /\ disk'[f] = Content(a, f)
          /\ \A g \in Files : g # f => disk'[g] = disk[g]
          /\ mixedUp' = (mixedUp \/ Disturbs(a, f))
    <3>1. CASE OpenFile(a)
      BY <1>t, <3>1, Opening
    <3>2. CASE WriteFile(a)
      BY <1>t, <3>2, Writing
    <3> QED BY <1>8, <3>1, <3>2
  <2>2. a # Rotate /\ retired' = retired
    <3>1. a # Rotate
      BY <1>t, <2>1, RotateMoves, StepNames
    <3> QED BY <1>8, <3>1 DEF OpenFile, WriteFile
  <2>3. Running(Rotate) => Running(Rotate)'
    BY <1>t, <2>1, <2>2 DEF Running
  <2>4. CASE f = CaCert
    <3>1. ~Running(Rotate)
      BY <1>t, <2>1, <2>2, <2>4, Alone, UsesFiles
    <3>2. disk[CaCert] \in {NoFile, Blank}
      BY <1>t, <2>1, <2>4 DEF CaSide
    <3>3. \A s \in Services : ~Good(CertOf(s))
      BY <1>t, <3>1, <3>2, FilesTyped DEF Signed, Good
    <3> QED BY <1>t, <2>1, <2>4, <3>3 DEF SignedInv, Signed, Good
  <2>5. CASE f # CaCert
    <3> SUFFICES ASSUME NEW s \in Services PROVE Signed(s)'
      BY DEF SignedInv
    <3>1. CASE f = CertOf(s) /\ run[a].step = <<"write", f>> /\ disk'[f] = Content(a, f)
      <4>1. Good(CaCert) /\ run[a].by = disk[CaCert].pair
        BY <1>t, <2>1, <3>1, LeafStepNames DEF LeafSide
      <4>2. disk'[CertOf(s)].by = run[a].by
        BY <3>1, ContentAs
      <4> QED BY <1>t, <2>1, <2>5, <4>1, <4>2 DEF Signed, Good
    <3>2. CASE disk'[CertOf(s)] \in {disk[CertOf(s)], Blank}
      BY <1>t, <2>1, <2>2, <2>3, <2>5, <3>2, SignedKept
    <3> QED BY <1>t, <2>1, <3>1, <3>2
  <2> QED BY <2>4, <2>5
<1>10. ASSUME MoveFile PROVE SignedInv'
  <2> DEFINE fs == Task(Rotate).files
  <2>1. Running(Rotate) /\ run[Rotate].step = <<"begin">>
    BY <1>10, <1>t, Moving, RotateMoves
  <2>2. CASE fs = {} /\ disk' = disk
    BY <1>t, <2>1, <2>2, FileNames DEF CaInv, RotateSide, SignedInv, Signed, Good
  <2>3. ASSUME NEW f \in Files, disk'[f] = NoFile, \A g \in Files : g # f => disk'[g] = disk[g],
               retired' = retired \cup Retires(f), run'[Rotate].todo = <<Move(fs \ {f})>>
        PROVE  SignedInv'
    <3>0. Running(Rotate)'
      BY <2>3, ShortSequences DEF Running
    <3> SUFFICES ASSUME NEW s \in Services PROVE Signed(s)'
      BY DEF SignedInv
    <3>1. CASE f = CaCert
      <4>1. Good(CaCert) => disk[CaCert].pair \in retired'
        BY <1>t, <2>3, <3>1, FileNames DEF ContentInv, Retires
      <4> QED BY <1>t, <2>3, <3>0, <3>1, <4>1 DEF Signed, Good
    <3>2. CASE f # CaCert
      BY <1>t, <2>3, <3>0, <3>2, SignedKept
    <3> QED BY <3>1, <3>2
  <2> QED BY <1>10, <1>t, <2>2, <2>3, Moving
<1>11. ASSUME Readdress \/ Expire PROVE SignedInv'
  BY <1>11, <1>u DEF Readdress, Expire, Running
<1> QED
  BY <1>1, <1>3, <1>4, <1>5, <1>7, <1>8, <1>10, <1>11 DEF CertNext

\* What holds of the files and of the runs as long as nothing has been mixed up.
FilesInv == ~mixedUp => CaInv /\ LeafInv /\ SignedInv

LEMMA FilesStart == CertInit => FilesInv
BY CaStart, LeafStart, SignedStart DEF FilesInv

LEMMA FilesStep == CertSane /\ FilesInv /\ CertNext => FilesInv'
BY NotBefore, CaStep, LeafStep, SignedStep DEF FilesInv

\* An unfinished CA certificate is that of another, at work, and so is a rotation that has
\* moved the CA and not yet the leaves.
LEMMA Repaired == CertSane /\ FilesInv => FailedStartHasCause
<1> SUFFICES ASSUME CertSane, CaInv, LeafInv, SignedInv, NEW a \in Actors, ~Disturbs(a, CaCert),
                    Running(a), \A f : run[a].step # <<"write", f>> /\ run[a].step # <<"open", f>>
             PROVE  /\ disk[CaCert] # Blank
                    /\ a \in Services => disk[CaCert] # NoFile \/ Unprovisioned
                    /\ run[a].step = <<"load">>  => {disk[CaKey], disk[CaCert]} \cap {NoFile, Blank} = {}
                    /\ run[a].step = <<"chain">> => Matching(a)
  BY StepNames DEF FilesInv, FailedStartHasCause, At, Sound, HasExpired
<1>t. Fits(a) /\ CaSide(a) /\ LeafSide(a) /\ ContentInv /\ CaFilesInv
  BY DEF CertSane, PlanInv, CaInv, LeafInv
<1>0. \A b \in Actors : Running(b) => b = a
  BY UsesFiles DEF Disturbs
<1>1. disk[CaCert] # Blank
  BY <1>0, <1>t DEF CaFilesInv
<1>2. run[a].step = <<"load">> => {disk[CaKey], disk[CaCert]} \cap {NoFile, Blank} = {}
  BY <1>1, <1>t DEF CaSide, CaFilesInv, Good
<1>3. ASSUME run[a].step = <<"chain">> PROVE Matching(a)
  <2>1. a \in Services /\ Reusable(a, run[a].at)
    BY <1>3, <1>t DEF LeafSide
  <2>2. ~Midway(a)
    BY <1>0 DEF Midway
  <2>3. disk[KeyOf(a)].pair = disk[CertOf(a)].pair
    BY <2>1, <2>2 DEF LeafInv, Whole, Ats
  <2>4. run[a].at >= 1
    BY <1>t, RunTyped DEF Fits, CertSane, CertTyped
  <2>5. Good(CertOf(a)) /\ disk[CertOf(a)].pair >= 1
    BY <1>t, <2>1, <2>4, FilesTyped, FileNames DEF Reusable, Good, ContentInv
  <2>6. Good(KeyOf(a))
    BY <2>1, <2>3, <2>5, FilesTyped DEF Reusable, Good
  <2> QED BY <2>3, <2>5, <2>6 DEF Matching, Good
<1>4. ASSUME a \in Services, disk[CaCert] = NoFile PROVE Unprovisioned
  <2>1. ~Running(Rotate)
    BY <1>0, <1>4, CertAssumed
  <2>2. \A s \in Services : ~Good(CertOf(s))
    BY <1>4, <2>1 DEF SignedInv, Signed, Good
  <2> QED BY <1>4, <2>2 DEF Unprovisioned, Good
<1> QED BY <1>1, <1>2, <1>3, <1>4

LEMMA SaneStays == CertSane /\ UNCHANGED certVars => CertSane'
<1> SUFFICES ASSUME CertSane, UNCHANGED certVars PROVE CertSane'
  OBVIOUS
<1>1. CertTyped'
  BY TypeStep DEF CertSane
<1>2. PlanInv'
  BY DEF CertSane, certVars, PlanInv, Fits, Running, Task
<1>3. ContentInv' /\ HeldInv'
  BY DEF CertSane, certVars, ContentInv, HeldInv, Loaded, Good, Running
<1> QED BY <1>1, <1>2, <1>3 DEF CertSane

LEMMA FilesStay == FilesInv /\ UNCHANGED certVars => FilesInv'
<1> SUFFICES ASSUME FilesInv, ~mixedUp, UNCHANGED certVars PROVE CaInv' /\ LeafInv' /\ SignedInv'
  BY DEF FilesInv, certVars
<1>1. disk' = disk /\ run' = run /\ address' = address /\ retired' = retired
  BY DEF certVars
<1>2. CaInv'
  BY <1>1 DEF FilesInv, CaInv, CaFilesInv, RotateSide, CaSide, Good, Running, Task
<1>3. \A a \in Actors : LeafSide(a)'
  BY <1>1 DEF FilesInv, LeafInv, LeafSide, Good, Reusable, Running
<1>4. \A s \in Services : Whole(s)'
  BY <1>1 DEF FilesInv, LeafInv, Whole, Midway, Ats, Reusable, Running
<1>5. SignedInv'
  BY <1>1 DEF FilesInv, SignedInv, Signed, Good, Running
<1> QED BY <1>2, <1>3, <1>4, <1>5 DEF LeafInv

\* Whoever is at work alone fails only for want of the whole of what provision_certs makes,
\* or for an expired certificate, whatever runs ended half-way before, unless files have
\* been mixed up (issue_cert and ensure_ca are idempotent).
THEOREM FailedStartsHaveCause == CertSpec => []FailedStartHasCause
<1>1. CertInit => CertSane /\ FilesInv
  BY SaneInit, FilesStart
<1>2. CertSane /\ FilesInv /\ [CertNext]_certVars => (CertSane /\ FilesInv)'
  BY SaneStep, FilesStep, SaneStays, FilesStay
<1>3. CertSane /\ FilesInv => FailedStartHasCause
  BY Repaired
<1> QED BY <1>1, <1>2, <1>3, PTL DEF CertSpec

(***************************************************************************)
(* What the services have loaded.                                          *)
(***************************************************************************)

\* A service at work finds the CA made, and what it has loaded and checked is still there.
ServiceSide(s) == Running(s) =>
    /\ run[s].step # <<"begin">> => Len(run[s].todo) = 2
    /\ run[s].step \notin CaSteps
    /\ Len(run[s].todo) < 3 => disk[CaCert] # NoFile
    /\ held[s].trust # 0 => disk[CaCert].pair = held[s].trust
    /\ held[s].leaf # NoFile =>
           held[s].leaf = disk[CertOf(s)] /\ Good(CaCert) /\ held[s].leaf.by = disk[CaCert].pair
    /\ s \notin aged =>
           /\ run[s].at = address
           /\ held[s].leaf # NoFile => held[s].leaf.at = address
           /\ s # Gateway /\ Len(run[s].todo) < 3 =>
                 /\ {disk[CaCert].pair, disk[CertOf(s)].pair} \cap expired = {}
                 /\ run[s].step \in LeafSteps(s) => run[s].pair \notin expired

\* A service that is up trusts the CA that signed its own leaf.
UpSide(s) == Up(s) =>
    /\ held[s].leaf.by = held[s].trust
    /\ s \notin aged => /\ held[s].leaf.at = address
                        /\ {held[s].leaf.pair, held[s].trust} \cap expired = {}

\* What is trusted is the CA on disk, or one that rotate_keys has moved.
TrustSide(s) == held[s].trust # 0 => held[s].trust \in retired \/ disk[CaCert].pair = held[s].trust

ServiceInv == \A s \in Services : ServiceSide(s) /\ UpSide(s)
TrustInv   == \A s \in Services : TrustSide(s)
LoadedInv  == ~mixedUp => ServiceInv /\ TrustInv

\* The services that do not take the step.
LEMMA ServiceOthers ==
    ASSUME NEW a \in Actors, LeavesAlone(a), NEW s \in Services, s # a, ServiceSide(s), UpSide(s),
           aged \subseteq aged' \cup {a}, address' = address, expired' = expired
    PROVE  ServiceSide(s)' /\ UpSide(s)'
<1>1. run'[s] = run[s] /\ held'[s] = held[s] /\ (s \in aged => s \in aged')
  BY CertAssumed DEF LeavesAlone
<1>2. UpSide(s)'
  BY <1>1 DEF UpSide, Up, Running
<1>3. ASSUME Running(s) PROVE disk'[CaCert] = disk[CaCert] /\ disk'[CertOf(s)] = disk[CertOf(s)]
  BY <1>3, CertAssumed, UsesFiles DEF LeavesAlone
<1>4. ServiceSide(s)'
  BY <1>1, <1>3 DEF ServiceSide, Running, Good
<1> QED BY <1>2, <1>4

\* TrustSide does not depend on who is at work, only on the CA's certificate.
LEMMA TrustKept ==
    ASSUME NEW s \in Services, TrustSide(s), retired \subseteq retired',
           held'[s].trust \in {0, held[s].trust},
           \/ disk'[CaCert] = disk[CaCert]
           \/ disk[CaCert].pair \in {0} \cup retired'
    PROVE  TrustSide(s)'
BY DEF TrustSide

LEMMA TrustStep ==
    ASSUME CertSane, CaInv, CertNext, ~mixedUp', TrustInv
    PROVE  TrustInv'
<1>t. /\ CertTyped /\ held \in [Services -> [trust : Nat, leaf : Contents]]
      /\ \A a \in Actors : Fits(a) /\ CaSide(a)
      /\ CaCert \in Files /\ Rotate \in Actors
  BY CertAssumed, FileNames DEF CertSane, CertTyped, CertTypeOK, PlanInv, CaInv
<1>1. ASSUME NEW a \in Actors, Exits(a) \/ held' = held, disk' = disk, retired' = retired
      PROVE  TrustInv'
  <2>1. \A s \in Services : held'[s].trust \in {0, held[s].trust}
    BY <1>1, <1>t, Ending, FilesTyped
  <2> QED BY <1>1, <2>1, TrustKept DEF TrustInv
<1>2. ASSUME NEW a \in Actors, Start(a) \/ Kill(a) \/ FindLeaf(a) \/ FindCA(a)
      PROVE  TrustInv'
  BY <1>1, <1>2 DEF Start, Kill, FindLeaf, FindCA
<1>3. ASSUME NEW a \in Actors, LoadCA(a) PROVE TrustInv'
  <2>1. disk' = disk /\ retired' = retired /\ (Exits(a) \/ held' = held)
    BY <1>3, <1>t, LoadingCA DEF LoadCA
  <2> QED BY <1>1, <2>1
<1>4. ASSUME NEW s \in Services, LoadTrust(s) \/ CheckSound(s) \/ LoadChain(s) \/ Stop(s)
      PROVE  TrustInv'
  <2>1. disk' = disk /\ retired' = retired /\ s \in Actors
    BY <1>4, CertAssumed DEF LoadTrust, CheckSound, LoadChain, Stop
  <2>2. CASE Exits(s)
    BY <1>1, <2>1, <2>2
  <2>3. CASE /\ \A x \in Services : x # s => held'[x] = held[x]
             /\ held'[s].trust \in {held[s].trust, disk[CaCert].pair}
    BY <2>1, <2>3 DEF TrustInv, TrustSide
  <2>4. /\ [held[s] EXCEPT !.trust = disk[CaCert].pair].trust = disk[CaCert].pair
        /\ [held[s] EXCEPT !.leaf = disk[CertOf(s)]].trust = held[s].trust
    BY <1>t
  <2> QED BY <1>4, <1>t, <2>1, <2>2, <2>3, <2>4, Loading DEF Stop
<1>5. ASSUME NEW a \in Actors, OpenFile(a) \/ WriteFile(a) PROVE TrustInv'
  <2>1. PICK f \in Files :
          /\ Running(a) /\ run[a].step \in {<<"open", f>>, <<"write", f>>}
          /\ \A g \in Files : g # f => disk'[g] = disk[g]
    <3>1. CASE OpenFile(a)
      BY <1>t, <3>1, Opening
    <3>2. CASE WriteFile(a)
      BY <1>t, <3>2, Writing
    <3> QED BY <1>5, <3>1, <3>2
  <2>2. held' = held /\ retired' = retired
    BY <1>5 DEF OpenFile, WriteFile
  <2>3. f = CaCert => disk[CaCert].pair = 0
    BY <1>t, <2>1, FilesTyped DEF CaSide
  <2> QED BY <1>t, <2>1, <2>2, <2>3, TrustKept DEF TrustInv
<1>6. ASSUME MoveFile PROVE TrustInv'
  <2>1. held' = held
    BY <1>6 DEF MoveFile
  <2>2. CASE disk' = disk /\ retired' = retired
    BY <2>1, <2>2, TrustKept DEF TrustInv
  <2>3. ASSUME NEW f \in Files, retired' = retired \cup Retires(f), \A g \in Files : g # f => disk'[g] = disk[g]
        PROVE  TrustInv'
    <3>1. f = CaCert => disk[CaCert].pair \in {0} \cup retired'
      BY <2>3, FileNames DEF Retires
    <3> QED BY <1>t, <2>1, <2>3, <3>1, TrustKept DEF TrustInv
  <2> QED BY <1>6, <1>t, <2>2, <2>3, Moving
<1>7. ASSUME Readdress \/ Expire PROVE TrustInv'
  BY <1>7 DEF Readdress, Expire, TrustInv, TrustSide
<1> QED
  BY <1>2, <1>3, <1>4, <1>5, <1>6, <1>7 DEF CertNext

\* A service that goes on with the leaf it issues.
LEMMA ServiceGoesOn ==
    ASSUME NEW s \in Services, CertSane, Running(s), ServiceSide(s), Len(run[s].todo) = 2,
           run'[s].todo = run[s].todo, run'[s].at = run[s].at, held'[s] = held[s],
           run'[s].step \notin CaSteps,
           disk'[CaCert] = disk[CaCert],
           \/ disk'[CertOf(s)] = disk[CertOf(s)] \/ disk'[CertOf(s)].pair \notin expired
           \/ run[s].step \in LeafSteps(s) /\ disk'[CertOf(s)].pair = run[s].pair,
           run'[s].step \in LeafSteps(s) =>
               \/ run'[s].pair \notin expired
               \/ run[s].step \in LeafSteps(s) /\ run'[s].pair = run[s].pair,
           aged' = aged, address' = address, expired' = expired
    PROVE  ServiceSide(s)' /\ UpSide(s)'
<1>0. Loaded(s)
  BY DEF CertSane, HeldInv
<1>1. held[s].leaf = NoFile /\ Running(s)'
  <2>1. held[s].leaf = NoFile
    BY <1>0 DEF Loaded
  <2> QED BY <2>1 DEF Running
<1>2. UpSide(s)'
  BY <1>1 DEF UpSide, Up
<1>3. ServiceSide(s)'
  BY <1>1 DEF ServiceSide
<1> QED BY <1>2, <1>3

LEMMA ServiceStep ==
    ASSUME CertSane, CaInv, LeafInv, SignedInv, CertNext, ~mixedUp',
           ServiceInv
    PROVE  ServiceInv'
<1>t. /\ CertTyped /\ address >= 1 /\ expired \subseteq 1 .. made /\ made \in Nat
      /\ held \in [Services -> [trust : Nat, leaf : Contents]] /\ ContentInv
      /\ \A a \in Actors : Fits(a) /\ CaSide(a) /\ LeafSide(a)
      /\ \A s \in Services : s \in Actors /\ s # Rotate /\ Loaded(s) /\ Signed(s)
      /\ Rotate \in Actors /\ Rotate \notin Services /\ CaCert \in Files
      /\ \A s \in Services : CertOf(s) \in Files /\ CertOf(s) # CaCert
  BY CertAssumed, FileNames
  DEF CertSane, CertTyped, CertTypeOK, PlanInv, CaInv, LeafInv, SignedInv, HeldInv
<1>s. \A s \in Services : ServiceSide(s) /\ UpSide(s)
  BY DEF ServiceInv
<1>u. ASSUME NEW a \in Actors, LeavesAlone(a), aged \subseteq aged' \cup {a}, address' = address,
             expired' = expired, a \in Services => ServiceSide(a)' /\ UpSide(a)'
      PROVE  ServiceInv'
  BY <1>s, <1>u, ServiceOthers DEF ServiceInv
<1>n. \A step \in {<<"begin">>, <<"ca">>, <<"load">>, <<"chain">>} :
          step \notin CaSteps /\ \A s \in Services : step \notin LeafSteps(s)
  BY NotAFileStep DEF CaSteps
<1>m. \A s \in Services : \A f \in {KeyOf(s), CertOf(s)}, how \in {"open", "write"} :
          /\ <<how, f>> \notin CaSteps
          /\ \A x \in Services : <<how, f>> \in LeafSteps(x) => x = s
  <2> SUFFICES ASSUME NEW s \in Services, NEW f \in {KeyOf(s), CertOf(s)}, NEW how \in {"open", "write"}
               PROVE  /\ <<how, f>> \notin CaSteps
                      /\ \A x \in Services : <<how, f>> \in LeafSteps(x) => x = s
    OBVIOUS
  <2>1. f \notin CaFiles /\ f \in Files
    BY FileNames
  <2>2. \A x \in Services : f \in {KeyOf(x), CertOf(x)} => x = s
    BY FileNames
  <2> QED BY <2>1, <2>2, FileSteps
<1>1. ASSUME NEW a \in Actors, Start(a) PROVE ServiceInv'
  <2>1. /\ LeavesAlone(a) /\ aged' = aged \ {a} /\ address' = address /\ expired' = expired
        /\ held' = held /\ ~Running(a)
    BY <1>1, EachAlone DEF Start
  <2>2. ASSUME a \in Services PROVE ServiceSide(a)' /\ UpSide(a)'
    <3>1. held'[a] = Nothing
      BY <1>1, <2>1, <2>2 DEF Start, Up
    <3>2. Running(a)' /\ Len(run'[a].todo) = 3 /\ run'[a].step = <<"begin">> /\ run'[a].at = address
      BY <1>1, <1>t, <2>2, StartFits
    <3> QED BY <1>n, <2>1, <3>1, <3>2, FilesTyped DEF ServiceSide, UpSide, Up
  <2> QED BY <1>u, <2>1, <2>2
<1>2. ASSUME NEW a \in Actors, Exits(a), LeavesAlone(a), aged' = aged, address' = address,
             expired' = expired
      PROVE  ServiceInv'
  <2>1. a \in Services => ServiceSide(a)' /\ UpSide(a)'
    BY <1>2, <1>t, Ending DEF ServiceSide, UpSide, Up
  <2> QED BY <1>2, <1>u, <2>1
<1>3. ASSUME NEW a \in Actors, Kill(a) PROVE ServiceInv'
  BY <1>2, <1>3, EachAlone DEF Kill
<1>4. ASSUME NEW s \in Services, LoadTrust(s) \/ CheckSound(s) \/ LoadChain(s) \/ Stop(s)
      PROVE  ServiceInv'
  <2>1. /\ s \in Actors /\ LeavesAlone(s) /\ disk' = disk
        /\ aged' = aged /\ address' = address /\ expired' = expired
    BY <1>4, <1>t, EachAlone DEF LoadTrust, CheckSound, LoadChain, Stop
  <2>2. CASE Exits(s)
    BY <1>2, <2>1, <2>2
  <2>3. CASE Running(s) /\ Finish(s) /\ ~Exits(s)
    <3> SUFFICES ServiceSide(s)' /\ UpSide(s)'
      BY <1>u, <2>1
    <3> DEFINE n == Len(run[s].todo)
    <3>1. /\ n \in 1 .. 3 /\ (n = 1 => ~Running(s)')
          /\ n > 1 => Running(s)' /\ Len(run'[s].todo) = n - 1 /\ run'[s].at = run[s].at
          /\ run'[s].step = <<"begin">>
      BY <1>t, <2>3, FinishedTask, FinishBegins
    <3>2. /\ ServiceSide(s) /\ Loaded(s) /\ held[s] \in [trust : Nat, leaf : Contents]
      BY <1>s, <1>t
    <3>3. CASE /\ Good(CaCert) /\ n = (IF s = Gateway THEN 3 ELSE 1)
               /\ held'[s] = [held[s] EXCEPT !.trust = disk[CaCert].pair]
      <4>1. held'[s].trust = disk[CaCert].pair /\ held'[s].leaf = held[s].leaf
        BY <3>2, <3>3
      <4>2. CASE s = Gateway
        <5>1. Running(s)' /\ Len(run'[s].todo) = 2 /\ held[s].leaf = NoFile /\ n = 3
          BY <2>3, <3>1, <3>2, <3>3, <4>2 DEF Loaded
        <5>2. UpSide(s)'
          BY <5>1 DEF UpSide, Up
        <5>3. ServiceSide(s)'
          BY <1>n, <2>1, <2>3, <3>1, <3>2, <3>3, <4>1, <4>2, <5>1 DEF ServiceSide, Good
        <5> QED BY <5>2, <5>3
      <4>3. CASE s # Gateway
        <5>1. ~Running(s)' /\ held[s].leaf # NoFile /\ n = 1
          BY <2>3, <3>1, <3>2, <3>3, <4>3 DEF Loaded
        <5>2. held[s].leaf = disk[CertOf(s)] /\ held[s].leaf.by = disk[CaCert].pair
          BY <2>3, <3>2, <5>1 DEF ServiceSide
        <5>3. s \notin aged => /\ held[s].leaf.at = address
                               /\ {disk[CaCert].pair, disk[CertOf(s)].pair} \cap expired = {}
          BY <2>3, <3>2, <4>3, <5>1 DEF ServiceSide
        <5> QED BY <2>1, <4>1, <5>1, <5>2, <5>3 DEF ServiceSide, UpSide
      <4> QED BY <4>2, <4>3
    <3>4. CASE /\ Sound /\ n = (IF s = Gateway THEN 1 ELSE 3) /\ held'[s] = held[s]
      <4>0. disk[CaCert] # NoFile /\ {disk[CaCert].pair, disk[CertOf(s)].pair} \cap expired = {}
        BY <1>t, <3>4, FileKinds DEF Sound
      <4>1. CASE s = Gateway
        <5>1. ~Running(s)' /\ held[s].leaf # NoFile /\ held[s].trust # 0
          BY <2>3, <3>1, <3>2, <3>4, <4>1 DEF Loaded
        <5>2. /\ held[s].leaf = disk[CertOf(s)] /\ held[s].leaf.by = disk[CaCert].pair
              /\ held[s].trust = disk[CaCert].pair
              /\ s \notin aged => held[s].leaf.at = address
          BY <2>3, <3>2, <5>1 DEF ServiceSide
        <5> QED BY <2>1, <3>4, <4>0, <5>1, <5>2 DEF ServiceSide, UpSide
      <4>2. CASE s # Gateway
        <5>0. n = 3
          BY <3>4, <4>2
        <5>a. held[s].leaf = NoFile /\ held[s].trust = 0
          BY <2>3, <3>2, <5>0 DEF Loaded
        <5>1. /\ Running(s)' /\ Len(run'[s].todo) = 2 /\ held[s].leaf = NoFile /\ held[s].trust = 0
              /\ run'[s].at = run[s].at
          BY <3>1, <5>0, <5>a
        <5>2. UpSide(s)'
          BY <5>1 DEF UpSide, Up
        <5>3. s \notin aged => run[s].at = address
          BY <2>3, <3>2 DEF ServiceSide
        <5>4. ServiceSide(s)'
          BY <1>n, <2>1, <3>1, <3>4, <4>0, <5>1, <5>3 DEF ServiceSide
        <5> QED BY <5>2, <5>4
      <4> QED BY <4>1, <4>2
    <3>5. CASE /\ Matching(s) /\ n = 2 /\ run[s].step = <<"chain">>
               /\ held'[s] = [held[s] EXCEPT !.leaf = disk[CertOf(s)]]
      <4>1. held'[s].trust = held[s].trust /\ held'[s].leaf = disk[CertOf(s)]
        BY <3>2, <3>5
      <4>2. Running(s)' /\ Len(run'[s].todo) = 1 /\ run'[s].at = run[s].at
        BY <3>1, <3>5
      <4>3. disk[CaCert] # NoFile
        BY <2>3, <3>2, <3>5 DEF ServiceSide
      <4>4. Good(CaCert) /\ disk[CertOf(s)].by = disk[CaCert].pair
        BY <1>t, <3>5, <4>3 DEF Matching, Signed, Good
      <4>5. disk[CertOf(s)].at = run[s].at
        BY <1>t, <2>1, <2>3, <3>5 DEF LeafSide, Reusable
      <4>6. /\ s \notin aged => run[s].at = address
            /\ s \notin aged /\ s # Gateway =>
                   {disk[CaCert].pair, disk[CertOf(s)].pair} \cap expired = {}
            /\ held[s].trust # 0 => disk[CaCert].pair = held[s].trust
        BY <2>3, <3>2, <3>5 DEF ServiceSide
      <4>7. UpSide(s)'
        BY <4>2 DEF UpSide, Up
      <4>8. ServiceSide(s)'
        BY <1>n, <2>1, <3>1, <4>1, <4>2, <4>3, <4>4, <4>5, <4>6 DEF ServiceSide, Good
      <4> QED BY <4>7, <4>8
    <3> QED BY <1>4, <1>t, <2>3, <3>3, <3>4, <3>5, Loading DEF Stop, Up
  <2> QED BY <1>4, <1>t, <2>2, <2>3, Loading DEF Stop
<1>5. ASSUME NEW a \in Actors, FindLeaf(a) PROVE ServiceInv'
  <2>1. /\ LeavesAlone(a) /\ disk' = disk /\ held' = held /\ aged' = aged /\ address' = address /\ expired' = expired
    BY <1>5, EachAlone DEF FindLeaf
  <2>2. ASSUME a \in Services PROVE ServiceSide(a)' /\ UpSide(a)'
    <3>0. ServiceSide(a)
      BY <1>s, <2>2
    <3>1. /\ Running(a) /\ Len(run[a].todo) = 2 /\ run'[a].step \in {<<"ca">>, <<"chain">>}
          /\ run'[a].todo = run[a].todo /\ run'[a].at = run[a].at
      BY <1>5, <1>t, <2>2, FindingLeaf, IssuedTo, ServiceAt
    <3>2. run'[a].step \notin CaSteps /\ run'[a].step \notin LeafSteps(a)
      BY <1>n, <2>2, <3>1
    <3>3. held'[a] = held[a] /\ disk'[CaCert] = disk[CaCert] /\ disk'[CertOf(a)] = disk[CertOf(a)]
      BY <2>1
    <3> QED BY <2>1, <2>2, <3>0, <3>1, <3>2, <3>3, ServiceGoesOn
  <2> QED BY <1>u, <2>1, <2>2
<1>6. ASSUME NEW a \in Actors, FindCA(a) PROVE ServiceInv'
  <2>1. /\ LeavesAlone(a) /\ disk' = disk /\ held' = held /\ aged' = aged /\ address' = address /\ expired' = expired
    BY <1>6, EachAlone DEF FindCA
  <2>2. ASSUME a \in Services PROVE ServiceSide(a)' /\ UpSide(a)'
    <3>0. ServiceSide(a)
      BY <1>s, <2>2
    <3>1. Running(a) /\ Len(run[a].todo) = 2 /\ Task(a) # Ensure
      BY <1>6, <1>t, <2>2, FindingCA, ServiceAt, TaskNames
    <3>2. disk[CaCert] # NoFile
      BY <3>0, <3>1 DEF ServiceSide
    <3>3. HasCA
      BY <3>2 DEF HasCA, CaInv, CaFilesInv, Good
    <3>4. run'[a].step = <<"load">> /\ run'[a].todo = run[a].todo /\ run'[a].at = run[a].at
      BY <1>6, <1>t, <3>1, <3>3, FindingCA
    <3> QED BY <1>n, <1>t, <2>1, <2>2, <3>1, <3>4, <3>0, ServiceGoesOn
  <2> QED BY <1>u, <2>1, <2>2
<1>7. ASSUME NEW a \in Actors, LoadCA(a) PROVE ServiceInv'
  <2>1. LeavesAlone(a) /\ disk' = disk /\ aged' = aged /\ address' = address /\ expired' = expired
    BY <1>7, EachAlone DEF LoadCA
  <2>2. CASE Exits(a)
    BY <1>2, <2>1, <2>2
  <2>3. ASSUME ~Exits(a), a \in Services PROVE ServiceSide(a)' /\ UpSide(a)'
    <3>0. ServiceSide(a)
      BY <1>s, <2>3
    <3>1. /\ Running(a) /\ Len(run[a].todo) = 2 /\ held' = held
          /\ run'[a].todo = run[a].todo /\ run'[a].at = run[a].at /\ run'[a].pair = made + 1
          /\ run'[a].step = <<"open", KeyOf(Task(a).leaf)>> /\ Task(a).leaf = a
      BY <1>7, <1>t, <2>3, LoadingCA, ServiceAt
    <3>2. run'[a].pair \notin expired
      BY <1>t, <3>1
    <3>3. run'[a].step \notin CaSteps
      BY <1>m, <2>3, <3>1
    <3>4. disk'[CaCert] = disk[CaCert] /\ disk'[CertOf(a)] = disk[CertOf(a)] /\ held'[a] = held[a]
      BY <2>1, <3>1
    <3>5. /\ Running(a) /\ Len(run[a].todo) = 2
          /\ run'[a].todo = run[a].todo /\ run'[a].at = run[a].at
      BY <3>1
    <3> QED BY <2>1, <2>3, <3>0, <3>2, <3>3, <3>4, <3>5, ServiceGoesOn
  <2> QED BY <1>u, <2>1, <2>2, <2>3
<1>8. ASSUME NEW a \in Actors, OpenFile(a) PROVE ServiceInv'
  <2>1. LeavesAlone(a) /\ held' = held /\ aged' = aged /\ address' = address /\ expired' = expired
    BY <1>8, EachAlone DEF OpenFile
  <2>2. ASSUME a \in Services PROVE ServiceSide(a)' /\ UpSide(a)'
    <3>0. ServiceSide(a)
      BY <1>s, <2>2
    <3>1. PICK f \in Files :
            /\ Running(a) /\ run[a].step = <<"open", f>> /\ run'[a].step = <<"write", f>>
            /\ run'[a].todo = run[a].todo /\ run'[a].at = run[a].at /\ run'[a].pair = run[a].pair
            /\ disk'[f] = Blank /\ \A g \in Files : g # f => disk'[g] = disk[g]
      BY <1>8, <1>t, Opening
    <3>2. f \notin CaFiles /\ Len(run[a].todo) = 2
      <4>1. <<"open", f>> # <<"begin">>
        OBVIOUS
      <4>2. f \in CaFiles => <<"open", f>> \in CaSteps
        BY DEF CaSteps
      <4> QED BY <3>0, <3>1, <4>1, <4>2 DEF ServiceSide
    <3>3. disk'[CaCert] = disk[CaCert]
      BY <1>t, <3>1, <3>2, FileNames
    <3>4. disk'[CertOf(a)] = disk[CertOf(a)] \/ disk'[CertOf(a)].pair \notin expired
      BY <1>t, <2>2, <3>1, FilesTyped
    <3>5. run'[a].step \in LeafSteps(a) => run[a].step \in LeafSteps(a)
      BY <3>1 DEF LeafSteps
    <3>6. run'[a].step \notin CaSteps
      BY <3>1, <3>2, FileSteps
    <3> QED BY <2>1, <2>2, <3>1, <3>2, <3>3, <3>4, <3>5, <3>6, <3>0, ServiceGoesOn
  <2> QED BY <1>u, <2>1, <2>2
<1>9. ASSUME NEW a \in Actors, WriteFile(a) PROVE ServiceInv'
  <2>1. LeavesAlone(a) /\ held' = held /\ aged' = aged /\ address' = address /\ expired' = expired
    BY <1>9, EachAlone DEF WriteFile
  <2>2. ASSUME a \in Services PROVE ServiceSide(a)' /\ UpSide(a)'
    <3>0. ServiceSide(a)
      BY <1>s, <2>2
    <3>1. PICK f \in Files :
            /\ Running(a) /\ run[a].step = <<"write", f>>
            /\ \/ /\ f[2] = "key" /\ run'[a].step = <<"open", <<f[1], "cert">>>>
                  /\ run'[a].todo = run[a].todo /\ run'[a].at = run[a].at
                  /\ run'[a].pair = run[a].pair
               \/ f = CaCert
               \/ f[2] = "cert" /\ Issued(a)
            /\ disk'[f] = Content(a, f) /\ \A g \in Files : g # f => disk'[g] = disk[g]
      BY <1>9, <1>t, Writing
    <3>2. f \notin CaFiles /\ Len(run[a].todo) = 2
      <4>1. <<"write", f>> # <<"begin">>
        OBVIOUS
      <4>2. f \in CaFiles => <<"write", f>> \in CaSteps
        BY DEF CaSteps
      <4> QED BY <3>0, <3>1, <4>1, <4>2 DEF ServiceSide
    <3>3. disk'[CaCert] = disk[CaCert] /\ f # CaCert
      BY <1>t, <3>1, <3>2, FileNames
    <3>4. PICK s \in Services : f \in {KeyOf(s), CertOf(s)}
      BY <3>2, EachFile, FileNames
    <3>5. CASE f = KeyOf(s)
      <4>1. /\ run'[a].step = <<"open", CertOf(s)>> /\ run'[a].pair = run[a].pair
            /\ run'[a].todo = run[a].todo /\ run'[a].at = run[a].at
        BY <3>1, <3>3, <3>5, FileKinds DEF CertOf
      <4>2. disk'[CertOf(a)] = disk[CertOf(a)]
        BY <1>t, <2>2, <3>1, <3>5, FileKinds
      <4>3. run'[a].step \notin CaSteps
        BY <1>m, <4>1
      <4>4. run'[a].step \in LeafSteps(a) => run[a].step \in LeafSteps(a)
        <5>1. run'[a].step \in LeafSteps(a) => a = s
          BY <1>m, <2>2, <4>1
        <5>2. run[a].step \in LeafSteps(s)
          BY <3>1, <3>5, LeafStepNames
        <5> QED BY <5>1, <5>2
      <4> QED BY <2>1, <2>2, <3>1, <3>2, <3>3, <4>1, <4>2, <4>3, <4>4, <3>0, ServiceGoesOn
    <3>6. CASE f = CertOf(s)
      <4>1. /\ run'[a].step = <<"chain">>
            /\ run'[a].todo = run[a].todo /\ run'[a].at = run[a].at
        BY <1>t, <2>2, <3>1, <3>3, <3>6, IssuedTo, FileKinds
      <4>2. disk'[CertOf(a)] # disk[CertOf(a)] =>
                run[a].step \in LeafSteps(a) /\ disk'[CertOf(a)].pair = run[a].pair
        <5>1. disk'[CertOf(a)] # disk[CertOf(a)] => f = CertOf(a)
          BY <1>t, <2>2, <3>1
        <5>2. Content(a, f).pair = run[a].pair
          BY <1>t, ContentTyped
        <5> QED BY <3>1, <5>1, <5>2, LeafStepNames
      <4> QED BY <1>n, <2>1, <2>2, <3>1, <3>2, <3>3, <4>1, <4>2, <3>0, ServiceGoesOn
    <3> QED BY <3>4, <3>5, <3>6
  <2> QED BY <1>u, <2>1, <2>2
<1>10. ASSUME MoveFile PROVE ServiceInv'
  BY <1>10, <1>t, <1>u, EachAlone DEF MoveFile
<1>11. ASSUME Readdress \/ Expire PROVE ServiceInv'
  <2>1. disk' = disk /\ run' = run /\ held' = held /\ aged' = aged \cup Started
    BY <1>11 DEF Readdress, Expire
  <2> SUFFICES ASSUME NEW s \in Services PROVE ServiceSide(s)' /\ UpSide(s)'
    BY DEF ServiceInv
  <2>2. ServiceSide(s) /\ UpSide(s) /\ (Running(s) \/ Up(s) => s \in aged')
    BY <1>s, <2>1 DEF Started
  <2> QED BY <2>1, <2>2 DEF ServiceSide, UpSide, Up, Running, Good
<1> QED
  BY <1>1, <1>3, <1>4, <1>5, <1>6, <1>7, <1>8, <1>9, <1>10, <1>11 DEF CertNext

LEMMA LoadedStart == CertInit => LoadedInv
BY CertAssumed, FilesTyped
DEF CertInit, LoadedInv, ServiceInv, TrustInv, ServiceSide, UpSide, TrustSide, Up, Running, AtRest, Begins

LEMMA LoadedStep == CertSane /\ FilesInv /\ LoadedInv /\ CertNext => LoadedInv'
BY NotBefore, TrustStep, ServiceStep DEF FilesInv, LoadedInv

LEMMA LoadedStay == LoadedInv /\ UNCHANGED certVars => LoadedInv'
BY DEF LoadedInv, ServiceInv, TrustInv, certVars, ServiceSide, UpSide, TrustSide, Up, Running, Good

LEMMA CausesShown == CertSane /\ LoadedInv => HandshakeFailureHasCause
<1> SUFFICES ASSUME CertSane, ~mixedUp, \A s \in Services : UpSide(s) /\ TrustSide(s),
                    NEW s \in Services \ {Gateway}, Up(Gateway), Up(s), ~Shakes(Gateway, s),
                    s \notin aged, Gateway \notin aged,
                    {held[s].trust, held[Gateway].trust} \cap retired = {}
             PROVE  FALSE
  BY DEF LoadedInv, ServiceInv, TrustInv, HandshakeFailureHasCause
<1>1. Gateway \in Services /\ UpSide(Gateway) /\ TrustSide(Gateway) /\ UpSide(s) /\ TrustSide(s)
  BY CertAssumed
<1>2. held[s].trust # 0 /\ held[Gateway].trust # 0
  BY <1>1 DEF CertSane, HeldInv, Loaded, Up
<1>3. held[s].trust = disk[CaCert].pair /\ held[Gateway].trust = disk[CaCert].pair
  BY <1>1, <1>2 DEF TrustSide
<1> QED BY <1>1, <1>3 DEF UpSide, Shakes

\* Two services that are up shake hands (wrap_server_socket and build_client_ssl_context load
\* what ensure_ca and issue_cert left), except for one of the causes that the property names.
THEOREM HandshakeFailuresHaveCause == CertSpec => []HandshakeFailureHasCause
<1>1. CertInit => CertSane /\ FilesInv /\ LoadedInv
  BY SaneInit, FilesStart, LoadedStart
<1>2. CertSane /\ FilesInv /\ LoadedInv /\ [CertNext]_certVars => (CertSane /\ FilesInv /\ LoadedInv)'
  BY SaneStep, FilesStep, LoadedStep, SaneStays, FilesStay, LoadedStay
<1>3. CertSane /\ LoadedInv => HandshakeFailureHasCause
  BY CausesShown
<1> QED BY <1>1, <1>2, <1>3, PTL DEF CertSpec
=============================================================================
