---------------------------- MODULE LockoutProofs ----------------------------
(***************************************************************************)
(* Theorems about Lockout, for every threshold, window and lock time and   *)
(* any number of requests, at most InFlight of them being handled at once. *)
(***************************************************************************)
EXTENDS Lockout, FiniteSetTheorems, TLAPS

\* No lock reaches further into the future than a lock set now would.
LockInv ==
    /\ now \in Nat /\ resets \in Nat
    /\ lockedUntil \in Nat \cup {None}
    /\ lockedUntil <= now + LockFor

LEMMA Constants == LockFor \in Nat /\ LockFor > 0
BY LockoutAssumption DEF LockoutAssumption

LEMMA LockInvStep == LockInv /\ [Next]_vars => LockInv'
<1> SUFFICES ASSUME LockInv, [Next]_vars PROVE LockInv'
  OBVIOUS
<1> USE Constants DEF LockInv, None
<1>1. ASSUME NEW a \in Attempts, Fail(a) PROVE LockInv'
  <2>1. lockedUntil' \in {now + LockFor, lockedUntil} /\ UNCHANGED <<now, resets>>
    BY <1>1 DEF Fail, LockAfter
  <2> QED BY <2>1
<1>2. ASSUME NEW a \in Attempts, Admit(a) \/ Succeed(a) PROVE LockInv'
  BY <1>2 DEF Admit, Succeed
<1>3. ASSUME NEW a \in Attempts, Refuse(a) \/ LacksPosture(a) PROVE LockInv'
  BY <1>3 DEF Refuse, LacksPosture
<1>4. CASE Restart
  BY <1>4 DEF Restart
<1>5. CASE Tick
  BY <1>5 DEF Tick
<1>6. CASE UNCHANGED vars
  BY <1>6 DEF vars
<1> QED BY <1>1, <1>2, <1>3, <1>4, <1>5, <1>6 DEF Next

\* A lock in force ends early only by a success or a restart: whatever the
\* threads that were past the check record, they never shorten it.
THEOREM LocksAreKept == Spec => LocksHold
<1>1. Init => LockInv
  BY Constants DEF Init, LockInv, None
<1>2. LockInv /\ [Next]_vars =>
          [Locked /\ resets' = resets => lockedUntil' >= lockedUntil]_vars
  <2> SUFFICES ASSUME LockInv, Next, Locked, resets' = resets
               PROVE  lockedUntil' >= lockedUntil
    OBVIOUS
  <2> USE Constants DEF LockInv, Locked, None
  <2>1. lockedUntil \in Nat
    OBVIOUS
  <2>2. ASSUME NEW a \in Attempts, Fail(a) PROVE lockedUntil' >= lockedUntil
    <3>1. lockedUntil' \in {now + LockFor, lockedUntil}
      BY <2>2 DEF Fail, LockAfter
    <3> QED BY <3>1, <2>1
  <2>3. ASSUME NEW a \in Attempts, Refuse(a) \/ LacksPosture(a)
        PROVE  lockedUntil' >= lockedUntil
    BY <2>1, <2>3 DEF Refuse, LacksPosture
  <2>4. \A a \in Attempts : ~Admit(a)
    BY DEF Admit
  <2>5. resets' # resets \/ lockedUntil' >= lockedUntil
    <3>1. CASE Tick
      BY <2>1, <3>1 DEF Tick
    <3>2. CASE Restart \/ \E a \in Attempts : Succeed(a)
      BY <3>2 DEF Restart, Succeed
    <3> QED BY <2>2, <2>3, <2>4, <3>1, <3>2 DEF Next
  <2> QED BY <2>5
<1> QED BY <1>1, <1>2, LockInvStep, PTL DEF Spec, LocksHold

(***************************************************************************)
(* Sets of attempts and their sizes.                                       *)
(***************************************************************************)

LEMMA Parameters ==
    /\ MaxAttempts \in Nat /\ MaxAttempts > 0 /\ Window \in Nat /\ Window > 0
    /\ InFlight \in Nat /\ InFlight > 0 /\ MaxRequests \in Nat
    /\ Window <= LockFor /\ LockFor \in Nat
BY LockoutAssumption DEF LockoutAssumption

LEMMA Sizes ==
    /\ \A S \in SUBSET Attempts : IsFiniteSet(S) /\ Cardinality(S) \in Nat
    /\ \A S, T \in SUBSET Attempts : S \subseteq T => Cardinality(S) <= Cardinality(T)
    /\ Cardinality({}) = 0
<1>1. IsFiniteSet(Attempts)
  BY Parameters, FS_Interval DEF Attempts
<1>2. \A S \in SUBSET Attempts : IsFiniteSet(S) /\ Cardinality(S) \in Nat
  BY <1>1, FS_Subset, FS_CardinalityType
<1>3. \A S, T \in SUBSET Attempts : S \subseteq T => Cardinality(S) <= Cardinality(T)
  BY <1>2, FS_Subset
<1> QED BY <1>2, <1>3, FS_EmptySet

LEMMA SizeAdded ==
    \A S \in SUBSET Attempts, a \in Attempts :
        /\ Cardinality(S \cup {a}) <= Cardinality(S) + 1
        /\ a \in S => Cardinality(S \ {a}) = Cardinality(S) - 1
<1> SUFFICES ASSUME NEW S \in SUBSET Attempts, NEW a \in Attempts
             PROVE  /\ Cardinality(S \cup {a}) <= Cardinality(S) + 1
                    /\ a \in S => Cardinality(S \ {a}) = Cardinality(S) - 1
  OBVIOUS
<1>1. IsFiniteSet(S) /\ Cardinality(S) \in Nat
  BY Sizes
<1> QED BY <1>1, FS_AddElement, FS_RemoveElement

LEMMA SizeSplit ==
    \A S, T \in SUBSET Attempts : Cardinality(S) <= Cardinality(T) + Cardinality(S \ T)
<1> SUFFICES ASSUME NEW S \in SUBSET Attempts, NEW T \in SUBSET Attempts
             PROVE  Cardinality(S) <= Cardinality(T) + Cardinality(S \ T)
  OBVIOUS
<1>1. IsFiniteSet(T) /\ IsFiniteSet(S \ T)
  BY Sizes
<1>2. Cardinality(T \cup (S \ T)) = Cardinality(T) + Cardinality(S \ T) - Cardinality(T \cap (S \ T))
  BY <1>1, FS_Union
<1>3. T \cap (S \ T) = {} /\ T \cup (S \ T) = S \cup T
  OBVIOUS
<1>4. Cardinality(S) <= Cardinality(S \cup T)
  BY Sizes
<1>5. Cardinality(T) \in Nat /\ Cardinality(S \ T) \in Nat /\ Cardinality(S) \in Nat
      /\ Cardinality(S \cup T) \in Nat
  BY Sizes
<1> QED BY <1>2, <1>3, <1>4, <1>5, Sizes

(***************************************************************************)
(* Types.                                                                  *)
(***************************************************************************)

\* Besides the types: what failed did so by now, and the entry holds only failures
\* later than the last success or restart.
EntryInv ==
    /\ TypeOK
    /\ \A a \in Attempts : attempt[a].pc = "failed" => /\ attempt[a] \in Failure
                                                       /\ attempt[a].at <= now
                                                       /\ attempt[a].epoch <= resets
    /\ \A a \in failures : attempt[a].epoch = resets

\* Steps that leave the failures that were recorded as they are.
SameFailures ==
    \A a \in Attempts :
        /\ attempt'[a].pc = "failed" <=> attempt[a].pc = "failed"
        /\ attempt[a].pc = "failed" => attempt'[a] = attempt[a]

LEMMA PlainStep ==
    ASSUME EntryInv, NEW a \in Attempts, NEW pc, attempt[a].pc # "failed",
           pc \in {"checked", "refused", "no_posture", "passed", "cut_off"}, Enters(a, pc)
    PROVE  /\ SameFailures /\ attempt' \in [Attempts -> Plain \cup Failure]
           /\ attempt'[a] = [pc |-> pc]
           /\ \A b \in Attempts : b # a => attempt'[b] = attempt[b]
BY DEF EntryInv, TypeOK, Enters, SameFailures, Plain

\* What each step but Fail does to the recorded failures.
LEMMA OtherSteps ==
    ASSUME EntryInv, [Next]_vars
    PROVE  \/ \E a \in Handling : Fail(a)
           \/ /\ SameFailures
              /\ attempt' \in [Attempts -> Plain \cup Failure]
              /\ now' \in {now, now + 1} /\ resets' \in {resets, resets + 1}
              /\ failures' \in {failures, {}} /\ lockedUntil' \in {lockedUntil, None}
              /\ resets' # resets => failures' = {} /\ lockedUntil' = None
<1>1. ASSUME NEW a \in Attempts, Fail(a) PROVE \E b \in Handling : Fail(b)
  BY <1>1 DEF Fail
<1>2. ASSUME NEW a \in Attempts, Refuse(a) \/ Admit(a)
      PROVE  SameFailures /\ attempt' \in [Attempts -> Plain \cup Failure]
  <2>1. attempt[a].pc = "idle" /\ (Enters(a, "refused") \/ Enters(a, "checked"))
    BY <1>2 DEF Refuse, Admit, Arrives, Idle
  <2> QED BY <2>1, PlainStep
<1>3. ASSUME NEW a \in Attempts, LacksPosture(a) \/ Succeed(a)
      PROVE  SameFailures /\ attempt' \in [Attempts -> Plain \cup Failure]
  BY <1>3, PlainStep DEF LacksPosture, Succeed, Handling
<1>4. CASE Restart
  BY <1>4 DEF Restart, Handling, SameFailures, EntryInv, TypeOK, Plain
<1>5. ASSUME UNCHANGED attempt
      PROVE  SameFailures /\ attempt' \in [Attempts -> Plain \cup Failure]
  BY <1>5 DEF SameFailures, EntryInv, TypeOK
<1>6. CASE Tick
  BY <1>5, <1>6 DEF Tick
<1>7. CASE UNCHANGED vars
  BY <1>5, <1>7 DEF vars
<1>8. ASSUME NEW a \in Attempts, Refuse(a) \/ Admit(a) \/ LacksPosture(a) \/ Succeed(a)
      PROVE  /\ now' \in {now, now + 1} /\ resets' \in {resets, resets + 1}
             /\ failures' \in {failures, {}} /\ lockedUntil' \in {lockedUntil, None}
             /\ resets' # resets => failures' = {} /\ lockedUntil' = None
  BY <1>8 DEF Refuse, Admit, LacksPosture, Succeed
<1> QED BY <1>1, <1>2, <1>3, <1>4, <1>6, <1>7, <1>8 DEF Next, Restart, Tick, vars

\* What Fail does: the thread is done, and its failure is in the entry.
LEMMA FailStep ==
    ASSUME EntryInv, NEW a \in Handling, Fail(a)
    PROVE  /\ a \in Attempts /\ attempt[a].pc = "checked" /\ a \notin failures
           /\ UNCHANGED <<now, resets>>
           /\ attempt' \in [Attempts -> Plain \cup Failure]
           /\ attempt'[a] = [pc |-> "failed", at |-> now, epoch |-> resets]
           /\ \A b \in Attempts : b # a => attempt'[b] = attempt[b]
           /\ failures' = Recent \cup {a}
           /\ lockedUntil' = IF Cardinality(failures') >= MaxAttempts THEN now + LockFor
                             ELSE lockedUntil
<1>1. a \in Attempts /\ attempt[a].pc = "checked" /\ a \notin failures
  BY DEF Handling, EntryInv, TypeOK
<1>2. [pc |-> "failed", at |-> now, epoch |-> resets] \in Failure
  BY DEF EntryInv, TypeOK, Failure
<1> QED BY <1>1, <1>2 DEF Fail, LockAfter, TooMany, EntryInv, TypeOK

LEMMA EntryStep ==
    ASSUME EntryInv, [Next]_vars
    PROVE  EntryInv'
<1>1. ASSUME NEW a \in Handling, Fail(a) PROVE EntryInv'
  <2>1. attempt'[a] \in Failure /\ attempt'[a].pc = "failed" /\ attempt'[a].at = now
        /\ attempt'[a].epoch = resets
    BY <1>1, FailStep DEF Failure, EntryInv, TypeOK
  <2>2. lockedUntil' \in Nat \cup {None}
    BY <1>1, FailStep, Parameters DEF EntryInv, TypeOK
  <2>3. failures' \subseteq {b \in Attempts : attempt'[b].pc = "failed"}
    BY <1>1, <2>1, FailStep DEF Recent, EntryInv, TypeOK
  <2>4. \A b \in failures' : attempt'[b].epoch = resets
    BY <1>1, <2>1, FailStep DEF Recent, EntryInv, TypeOK
  <2> QED BY <1>1, <2>1, <2>2, <2>3, <2>4, FailStep DEF EntryInv, TypeOK
<1>2. ASSUME SameFailures, attempt' \in [Attempts -> Plain \cup Failure],
             now' \in {now, now + 1}, resets' \in {resets, resets + 1},
             failures' \in {failures, {}}, lockedUntil' \in {lockedUntil, None},
             resets' # resets => failures' = {} /\ lockedUntil' = None
      PROVE  EntryInv'
  <2>1. TypeOK'
    BY <1>2 DEF SameFailures, EntryInv, TypeOK
  <2>2. \A a \in Attempts : attempt'[a].pc = "failed" =>
            /\ attempt'[a] \in Failure /\ attempt'[a].at <= now' /\ attempt'[a].epoch <= resets'
    BY <1>2 DEF SameFailures, EntryInv, TypeOK, Failure
  <2>3. \A a \in failures' : attempt'[a].epoch = resets'
    BY <1>2 DEF SameFailures, EntryInv, TypeOK
  <2> QED BY <2>1, <2>2, <2>3 DEF EntryInv
<1> QED BY <1>1, <1>2, OtherSteps

THEOREM EntryIsWellFormed == Spec => []EntryInv
<1>1. Init => EntryInv
  BY DEF Init, EntryInv, TypeOK, Idle, Plain
<1>2. EntryInv /\ [Next]_vars => EntryInv'
  BY EntryStep
<1> QED BY <1>1, <1>2, PTL DEF Spec

\* Type correctness: the entry names only attempts that have failed, and a lock, if
\* there is one, ends at a point in time.
THEOREM TypeCorrect == Spec => []TypeOK
BY EntryIsWellFormed, PTL DEF EntryInv

(***************************************************************************)
(* Behind every lock there is a cause.                                     *)
(***************************************************************************)

\* The failures that are recorded stay recorded.
LEMMA FailuresStay ==
    ASSUME EntryInv, [Next]_vars, NEW a \in Attempts, attempt[a].pc = "failed"
    PROVE  attempt'[a] = attempt[a]
BY OtherSteps, FailStep DEF SameFailures

\* The failures of the window at whose end the lock was set.
Cause == FailedIn(lockedUntil - LockFor - Window + 1, lockedUntil - LockFor, resets)

LEMMA CauseSize ==
    /\ Cause \in SUBSET Attempts /\ Cause' \in SUBSET Attempts
    /\ Cardinality(Cause) \in Nat /\ Cardinality(Cause') \in Nat
    /\ \A S \in SUBSET Attempts : S \subseteq Cause' => Cardinality(S) <= Cardinality(Cause')
    /\ LocksHaveCause <=> (lockedUntil # None => Cardinality(Cause) >= MaxAttempts)
<1>1. Cause \in SUBSET Attempts /\ Cause' \in SUBSET Attempts
  BY DEF Cause, FailedIn
<1> QED BY <1>1, Sizes DEF LocksHaveCause, Cause

LEMMA CauseStep ==
    ASSUME EntryInv, LocksHaveCause, [Next]_vars
    PROVE  LocksHaveCause'
<1> SUFFICES ASSUME lockedUntil' # None PROVE Cardinality(Cause') >= MaxAttempts
  BY DEF LocksHaveCause, Cause
<1> USE Parameters
<1>1. ASSUME lockedUntil' = lockedUntil, resets' = resets
      PROVE  Cardinality(Cause') >= MaxAttempts
  <2>1. Cause \subseteq Cause'
    BY <1>1, FailuresStay DEF Cause, FailedIn
  <2>2. Cardinality(Cause) >= MaxAttempts
    BY <1>1, CauseSize
  <2> QED BY <2>1, <2>2, CauseSize
<1>2. ASSUME NEW a \in Handling, Fail(a), lockedUntil' = now + LockFor,
             Cardinality(failures') >= MaxAttempts
      PROVE  Cardinality(Cause') >= MaxAttempts
  <2>1. now \in Nat /\ resets' = resets /\ a \in Attempts
    BY <1>2, FailStep DEF EntryInv, TypeOK
  <2>2. Cause' = {b \in Attempts : /\ attempt'[b].pc = "failed" /\ attempt'[b].epoch = resets
                                   /\ attempt'[b].at \in now - Window + 1 .. now}
    BY <1>2, <2>1 DEF Cause, FailedIn
  <2>3. ASSUME NEW b \in Recent PROVE b \in Cause'
    <3>1. b \in failures /\ now - attempt[b].at < Window
      BY DEF Recent
    <3>2. b \in Attempts /\ attempt[b] \in Failure /\ attempt[b].pc = "failed"
          /\ attempt[b].epoch = resets /\ attempt[b].at <= now
      BY <3>1 DEF EntryInv, TypeOK
    <3>3. attempt'[b] = attempt[b]
      BY <3>2, FailuresStay
    <3>4. attempt[b].at \in now - Window + 1 .. now
      BY <2>1, <3>1, <3>2 DEF Failure
    <3> QED BY <2>2, <3>2, <3>3, <3>4
  <2>4. a \in Cause'
    <3>1. attempt'[a] = [pc |-> "failed", at |-> now, epoch |-> resets]
      BY <1>2, FailStep
    <3>2. now \in now - Window + 1 .. now
      BY <2>1
    <3> QED BY <2>1, <2>2, <3>1, <3>2
  <2>5. failures' \subseteq Cause'
    BY <1>2, <2>3, <2>4, FailStep
  <2>6. failures' \in SUBSET Attempts
    BY <2>5, CauseSize
  <2>7. Cardinality(failures') \in Nat
    BY <2>6, Sizes
  <2> QED BY <1>2, <2>5, <2>6, <2>7, CauseSize
<1>3. ASSUME NEW a \in Handling, Fail(a)
      PROVE  \/ lockedUntil' = lockedUntil /\ resets' = resets
             \/ lockedUntil' = now + LockFor /\ Cardinality(failures') >= MaxAttempts
  BY <1>3, FailStep
<1>4. CASE ~\E a \in Handling : Fail(a)
  <2>1. lockedUntil' = lockedUntil /\ resets' = resets
    BY <1>4, OtherSteps
  <2> QED BY <1>1, <2>1
<1> QED BY <1>1, <1>2, <1>3, <1>4

\* Nobody is locked out without cause: behind every lock there are MaxAttempts
\* failures of one window, later than the last success or restart, whatever the
\* threads that evaluate guesses at the same time record.
THEOREM LocksAreCaused == Spec => []LocksHaveCause
<1>1. Init => LocksHaveCause
  BY DEF Init, LocksHaveCause
<1>2. EntryInv /\ LocksHaveCause /\ [Next]_vars => LocksHaveCause'
  BY CauseStep
<1> QED BY <1>1, <1>2, EntryIsWellFormed, PTL DEF Spec

(***************************************************************************)
(* Wrong guesses are bounded.                                              *)
(***************************************************************************)

\* The failures since an instant, later than the last success or restart.
FailedSince(first) ==
    {a \in Attempts : /\ attempt[a].pc = "failed" /\ attempt[a].epoch = resets
                      /\ attempt[a].at >= first}

\* An open entry is below the threshold; once a lock is set, the entry grows only by
\* what the threads past the check still record, and only their failures can come
\* later than the lock.
CountInv ==
    /\ Cardinality(Handling) <= InFlight
    /\ lockedUntil = None => Cardinality(failures) < MaxAttempts
    /\ lockedUntil # None =>
           /\ Cardinality(failures) + Cardinality(Handling) <= MaxAttempts + InFlight - 1
           /\ Cardinality(FailedSince(lockedUntil - LockFor + 1)) + Cardinality(Handling)
                  <= InFlight - 1

\* Of the failures of a window that is not over, the entry has lost at most those of
\* the threads that were past the check at the lock that was lifted in it.
LostInv ==
    \A first \in Nat : first <= now /\ now < first + Window =>
        Cardinality(FailedSince(first) \ failures) <= InFlight - 1

GuessInv ==
    \A first, epoch \in Nat :
        Cardinality(FailedIn(first, first + Window - 1, epoch))
            <= MaxAttempts + 2 * (InFlight - 1)

\* The sets that are counted are sets of attempts.
LEMMA Counted ==
    ASSUME EntryInv
    PROVE  /\ Handling \in SUBSET Attempts /\ failures \in SUBSET Attempts
           /\ \A first \in Int : FailedSince(first) \in SUBSET Attempts
           /\ Cardinality(Handling) \in Nat /\ Cardinality(failures) \in Nat
           /\ \A first \in Int : Cardinality(FailedSince(first)) \in Nat
           /\ \A first \in Int : Cardinality(FailedSince(first) \ failures) \in Nat
<1>1. /\ Handling \in SUBSET Attempts /\ failures \in SUBSET Attempts
      /\ \A first \in Int : FailedSince(first) \in SUBSET Attempts
  BY DEF Handling, EntryInv, TypeOK, FailedSince
<1>2. \A first \in Int : FailedSince(first) \ failures \in SUBSET Attempts
  BY <1>1
<1> QED BY <1>1, <1>2, Sizes

LEMMA Clock ==
    ASSUME EntryInv
    PROVE  now \in Nat /\ resets \in Nat /\ lockedUntil \in Nat \cup {None}
BY DEF EntryInv, TypeOK

\* Fail moves a thread from those being handled to those that have failed.
LEMMA FailCounts ==
    ASSUME EntryInv, EntryInv', NEW a \in Handling, Fail(a)
    PROVE  /\ Cardinality(Handling') = Cardinality(Handling) - 1
           /\ Cardinality(failures') <= Cardinality(failures) + 1
           /\ \A first \in Int :
                  /\ Cardinality(FailedSince(first)') <= Cardinality(FailedSince(first)) + 1
                  /\ first > now => FailedSince(first)' = {}
           /\ \A first \in Nat : now < first + Window =>
                  FailedSince(first)' \ failures' \subseteq FailedSince(first) \ failures
<1> USE FailStep
<1>1. Handling' = Handling \ {a}
  BY DEF Handling
<1>2. Cardinality(Handling') = Cardinality(Handling) - 1
  BY <1>1, Counted, SizeAdded
<1>3. Cardinality(failures') <= Cardinality(failures) + 1
  <2>1. failures' \subseteq failures \cup {a} /\ failures \cup {a} \in SUBSET Attempts
    BY Counted DEF Recent
  <2>2. Cardinality(failures') <= Cardinality(failures \cup {a})
        /\ Cardinality(failures') \in Nat /\ Cardinality(failures \cup {a}) \in Nat
    BY <2>1, Sizes
  <2>3. Cardinality(failures \cup {a}) <= Cardinality(failures) + 1
    BY Counted, SizeAdded
  <2> QED BY <2>2, <2>3, Counted
<1>4. ASSUME NEW first \in Int
      PROVE  /\ Cardinality(FailedSince(first)') <= Cardinality(FailedSince(first)) + 1
             /\ first > now => FailedSince(first)' = {}
  <2>1. FailedSince(first)' \subseteq FailedSince(first) \cup {a}
    BY DEF FailedSince
  <2>2. FailedSince(first) \cup {a} \in SUBSET Attempts
    BY Counted
  <2>3. Cardinality(FailedSince(first)') <= Cardinality(FailedSince(first) \cup {a})
        /\ Cardinality(FailedSince(first)') \in Nat
        /\ Cardinality(FailedSince(first) \cup {a}) \in Nat
    BY <2>1, <2>2, Sizes
  <2>4. Cardinality(FailedSince(first) \cup {a}) <= Cardinality(FailedSince(first)) + 1
    BY Counted, SizeAdded
  <2>5. first > now => FailedSince(first)' = {}
    BY Clock DEF FailedSince, EntryInv, Failure
  <2> QED BY <2>3, <2>4, <2>5, Counted
<1>5. ASSUME NEW first \in Nat, now < first + Window
      PROVE  FailedSince(first)' \ failures' \subseteq FailedSince(first) \ failures
  <2> SUFFICES ASSUME NEW b \in FailedSince(first)', b \notin failures'
               PROVE  b \in FailedSince(first) \ failures
    OBVIOUS
  <2>1. b # a /\ b \in FailedSince(first)
    BY DEF FailedSince
  <2>2. attempt[b].at \in Nat /\ attempt[b].at >= first
    BY <2>1 DEF FailedSince, EntryInv, Failure
  <2>3. now - attempt[b].at < Window
    BY <1>5, <2>2, Clock, Parameters
  <2>4. b \notin failures
    BY <2>1, <2>3 DEF Recent
  <2> QED BY <2>1, <2>4
<1> QED BY <1>2, <1>3, <1>4, <1>5

\* A step that keeps the failures keeps them in every window and since every instant.
LEMMA SameCounts ==
    ASSUME SameFailures
    PROVE  /\ \A first, last \in Int, epoch \in Nat :
                  FailedIn(first, last, epoch)' = FailedIn(first, last, epoch)
           /\ resets' = resets =>
                  \A first \in Int : FailedSince(first)' = FailedSince(first)
BY DEF SameFailures, FailedIn, FailedSince

\* After a success or a restart, no failure counts.
LEMMA FreshCounts ==
    ASSUME EntryInv, SameFailures, resets' = resets + 1
    PROVE  \A first \in Int : FailedSince(first)' = {}
BY Clock DEF EntryInv, SameFailures, FailedSince, Failure

LEMMA FailCountInv ==
    ASSUME EntryInv, EntryInv', CountInv, LostInv, NEW a \in Handling, Fail(a)
    PROVE  CountInv' /\ LostInv'
<1>1. Cardinality(Handling') <= InFlight - 1
  BY FailCounts, Counted, Parameters DEF CountInv
<1>2. /\ Cardinality(failures') \in Nat /\ Cardinality(Handling') \in Nat
      /\ \A first \in Int : Cardinality(FailedSince(first)') \in Nat
  <2>1. failures' \in SUBSET Attempts
    BY DEF EntryInv, TypeOK
  <2>2. Handling' \in SUBSET Attempts /\ \A first \in Int : FailedSince(first)' \in SUBSET Attempts
    BY DEF Handling, FailedSince
  <2> QED BY <2>1, <2>2, Sizes
<1>3. ASSUME Cardinality(failures') >= MaxAttempts
      PROVE  CountInv'
  <2>1. PICK next \in Int : next = now + 1
    BY Clock
  <2>2. lockedUntil' = now + LockFor
    BY <1>3, FailStep
  <2>3. lockedUntil' # None /\ lockedUntil' - LockFor + 1 = next
    BY <2>1, <2>2, Clock, Parameters DEF None
  <2>4. FailedSince(next)' = {}
    BY <2>1, FailCounts, Clock
  <2>5. FailedSince(lockedUntil - LockFor + 1)' = {}
    BY <2>3, <2>4 DEF FailedSince
  <2>6. Cardinality(FailedSince(lockedUntil - LockFor + 1)') = 0
    BY <2>5, Sizes
  <2>7. Cardinality(Handling') <= InFlight
    BY <1>1, <1>2, Parameters
  <2>8. Cardinality(failures') + Cardinality(Handling') <= MaxAttempts + InFlight - 1
    <3>1. Cardinality(failures') <= Cardinality(failures) + 1
          /\ Cardinality(Handling') = Cardinality(Handling) - 1
      BY FailCounts
    <3>2. Cardinality(failures) + Cardinality(Handling) <= MaxAttempts + InFlight - 1
      <4>1. lockedUntil = None => Cardinality(failures) < MaxAttempts
        BY DEF CountInv
      <4>2. lockedUntil # None =>
                Cardinality(failures) + Cardinality(Handling) <= MaxAttempts + InFlight - 1
        BY DEF CountInv
      <4>3. Cardinality(Handling) <= InFlight
        BY DEF CountInv
      <4> QED BY <4>1, <4>2, <4>3, Counted, Parameters
    <3> QED BY <3>1, <3>2, <1>2, Counted, Parameters
  <2> QED BY <1>1, <1>2, <2>3, <2>6, <2>7, <2>8, Parameters DEF CountInv
<1>4. ASSUME Cardinality(failures') < MaxAttempts
      PROVE  CountInv'
  <2> USE Parameters, Clock, Counted, FailStep, FailCounts
  <2>1. lockedUntil' = lockedUntil
    BY <1>2, <1>4
  <2>2. CASE lockedUntil = None
    BY <1>1, <1>4, <2>1, <2>2 DEF CountInv
  <2>3. CASE lockedUntil # None
    <3>1. PICK first \in Int : first = lockedUntil - LockFor + 1
      BY <2>3
    <3>2. /\ Cardinality(failures) + Cardinality(Handling) <= MaxAttempts + InFlight - 1
          /\ Cardinality(FailedSince(first)) + Cardinality(Handling) <= InFlight - 1
      BY <2>3, <3>1 DEF CountInv
    <3>3. FailedSince(lockedUntil - LockFor + 1)' = FailedSince(first)'
      BY <2>1, <3>1 DEF FailedSince
    <3>4. Cardinality(FailedSince(first)') <= Cardinality(FailedSince(first)) + 1
      OBVIOUS
    <3>5. Cardinality(FailedSince(first)') + Cardinality(Handling') <= InFlight - 1
      BY <1>2, <3>2, <3>4
    <3>6. Cardinality(failures') + Cardinality(Handling') <= MaxAttempts + InFlight - 1
      BY <1>2, <3>2
    <3> QED BY <1>1, <1>2, <2>1, <2>3, <3>3, <3>5, <3>6 DEF CountInv
  <2> QED BY <2>2, <2>3
<1>5. LostInv'
  <2> SUFFICES ASSUME NEW first \in Nat, first <= now, now < first + Window
               PROVE  Cardinality(FailedSince(first)' \ failures') <= InFlight - 1
    BY FailStep DEF LostInv, FailedSince
  <2>1. FailedSince(first)' \ failures' \subseteq FailedSince(first) \ failures
    BY FailCounts
  <2>2. FailedSince(first) \ failures \in SUBSET Attempts
    BY DEF FailedSince
  <2>3. Cardinality(FailedSince(first)' \ failures') <= Cardinality(FailedSince(first) \ failures)
        /\ Cardinality(FailedSince(first)' \ failures') \in Nat
    BY <2>1, <2>2, Sizes
  <2>4. Cardinality(FailedSince(first) \ failures) <= InFlight - 1
        /\ Cardinality(FailedSince(first) \ failures) \in Nat
    <3>1. Cardinality(FailedSince(first) \ failures) <= InFlight - 1
      BY DEF LostInv
    <3> QED BY <2>2, <3>1, Sizes
  <2> QED BY <2>3, <2>4, Parameters
<1> QED BY <1>2, <1>3, <1>4, <1>5, Parameters

\* Admitting a thread, and lifting a lock that has run out.
LEMMA AdmitCountInv ==
    ASSUME EntryInv, CountInv, LostInv, NEW a \in Attempts, Admit(a)
    PROVE  CountInv' /\ LostInv'
<1> USE Parameters, Clock, Counted
<1>1. attempt[a].pc = "idle" /\ Enters(a, "checked") /\ UNCHANGED <<now, resets>>
      /\ Cardinality(Handling) < InFlight /\ lockedUntil' = None
      /\ (lockedUntil = None => failures' = failures)
      /\ (lockedUntil # None => failures' = {} /\ lockedUntil <= now)
  BY DEF Admit, Arrives, Idle, Locked
<1>2. SameFailures /\ Handling' = Handling \cup {a}
  <2>1. /\ SameFailures /\ attempt'[a] = [pc |-> "checked"]
        /\ \A b \in Attempts : b # a => attempt'[b] = attempt[b]
    BY <1>1, PlainStep
  <2> QED BY <2>1 DEF Handling
<1>3. Cardinality(Handling') <= InFlight
  <2>1. Cardinality(Handling') <= Cardinality(Handling) + 1 /\ Cardinality(Handling') \in Nat
    BY <1>2, SizeAdded, Sizes
  <2> QED BY <1>1, <2>1
<1>4. CountInv'
  BY <1>1, <1>3, Sizes DEF CountInv
<1>5. LostInv'
  <2> SUFFICES ASSUME NEW first \in Nat, first <= now, now < first + Window
               PROVE  Cardinality(FailedSince(first) \ failures') <= InFlight - 1
    <3>1. \A n \in Nat : FailedSince(n)' = FailedSince(n)
      BY <1>1, <1>2, SameCounts
    <3> QED BY <1>1, <3>1 DEF LostInv
  <2>1. CASE lockedUntil = None
    BY <1>1, <2>1 DEF LostInv
  <2>2. CASE lockedUntil # None
    <3> DEFINE late == lockedUntil - LockFor + 1
    <3>1. late \in Int /\ late <= first
      BY <1>1, <2>2
    <3>2. Cardinality(FailedSince(late)) <= InFlight - 1
      BY <2>2, <3>1 DEF CountInv
    <3> HIDE DEF late
    <3>3. FailedSince(first) \ failures' \subseteq FailedSince(late)
      <4>1. \A b \in Attempts : attempt[b].pc = "failed" => attempt[b].at \in Nat
        BY DEF EntryInv, Failure
      <4> QED BY <3>1, <4>1 DEF FailedSince
    <3>4. Cardinality(FailedSince(first) \ failures') <= Cardinality(FailedSince(late))
          /\ Cardinality(FailedSince(first) \ failures') \in Nat
      BY <3>1, <3>3, Sizes
    <3> QED BY <3>1, <3>2, <3>4
  <2> QED BY <2>1, <2>2
<1> QED BY <1>4, <1>5

\* A thread is done without recording anything, or time passes.
LEMMA IdleCountInv ==
    ASSUME EntryInv, EntryInv', CountInv, LostInv, SameFailures, Handling' \subseteq Handling,
           UNCHANGED <<failures, lockedUntil, resets>>, now' \in {now, now + 1}
    PROVE  CountInv' /\ LostInv'
<1> USE Parameters, Clock, Counted
<1>1. Cardinality(Handling') <= Cardinality(Handling) /\ Cardinality(Handling') \in Nat
  BY Sizes
<1>2. CountInv'
  <2>1. CASE lockedUntil = None
    BY <1>1, <2>1 DEF CountInv
  <2>2. CASE lockedUntil # None
    <3> DEFINE first == lockedUntil - LockFor + 1
    <3>1. first \in Int
      BY <2>2
    <3>2. FailedSince(lockedUntil - LockFor + 1)' = FailedSince(first)
      BY <3>1 DEF FailedSince, SameFailures
    <3> HIDE DEF first
    <3>3. Cardinality(FailedSince(first)) \in Nat
      BY <3>1
    <3>4. /\ Cardinality(failures) + Cardinality(Handling) <= MaxAttempts + InFlight - 1
          /\ Cardinality(FailedSince(first)) + Cardinality(Handling) <= InFlight - 1
      BY <2>2 DEF CountInv, first
    <3> QED BY <1>1, <2>2, <3>2, <3>3, <3>4 DEF CountInv
  <2> QED BY <2>1, <2>2
<1>3. LostInv'
  <2> SUFFICES ASSUME NEW first \in Nat, first <= now', now' < first + Window
               PROVE  Cardinality(FailedSince(first) \ failures) <= InFlight - 1
    <3>1. \A n \in Nat : FailedSince(n)' = FailedSince(n)
      BY SameCounts
    <3> QED BY <3>1 DEF LostInv
  <2>1. CASE first <= now
    BY <2>1 DEF LostInv
  <2>2. CASE first > now
    <3>1. FailedSince(first) \ failures = {}
      BY <2>2 DEF FailedSince, EntryInv, Failure
    <3> QED BY <3>1, Sizes
  <2> QED BY <2>1, <2>2
<1> QED BY <1>2, <1>3

\* A success or a restart.
LEMMA FreshCountInv ==
    ASSUME EntryInv, CountInv, SameFailures, Handling' \subseteq Handling,
           failures' = {}, lockedUntil' = None, resets' = resets + 1
    PROVE  CountInv' /\ LostInv'
<1> USE Parameters, Counted
<1>1. Cardinality(Handling') <= InFlight
  <2>1. Cardinality(Handling') <= Cardinality(Handling) /\ Cardinality(Handling') \in Nat
    BY Sizes
  <2> QED BY <2>1 DEF CountInv
<1>2. \A first \in Nat : FailedSince(first)' \ failures' = {}
  BY FreshCounts
<1>3. CountInv'
  <2>1. Cardinality(failures') = 0
    BY Sizes
  <2> QED BY <1>1, <2>1 DEF CountInv
<1>4. LostInv'
  BY <1>2, Sizes DEF LostInv
<1> QED BY <1>3, <1>4

LEMMA CountStep ==
    ASSUME EntryInv, EntryInv', CountInv, LostInv, [Next]_vars
    PROVE  CountInv' /\ LostInv'
<1>1. ASSUME NEW a \in Attempts, Fail(a) PROVE CountInv' /\ LostInv'
  BY <1>1, FailCountInv DEF Fail
<1>2. ASSUME NEW a \in Attempts, Admit(a) PROVE CountInv' /\ LostInv'
  BY <1>2, AdmitCountInv
<1>3. ASSUME NEW a \in Attempts, Refuse(a) PROVE CountInv' /\ LostInv'
  <2>1. attempt[a].pc = "idle" /\ Enters(a, "refused")
    BY <1>3 DEF Refuse, Arrives, Idle
  <2>2. SameFailures /\ Handling' \subseteq Handling
    <3>1. /\ SameFailures /\ attempt'[a] = [pc |-> "refused"]
          /\ \A b \in Attempts : b # a => attempt'[b] = attempt[b]
      BY <2>1, PlainStep
    <3> QED BY <3>1 DEF Handling
  <2> QED BY <1>3, <2>2, IdleCountInv DEF Refuse
<1>4. ASSUME NEW a \in Attempts, LacksPosture(a) PROVE CountInv' /\ LostInv'
  <2>1. SameFailures /\ Handling' \subseteq Handling
    BY <1>4, PlainStep DEF LacksPosture, Handling
  <2> QED BY <1>4, <2>1, IdleCountInv DEF LacksPosture
<1>5. ASSUME NEW a \in Attempts, Succeed(a) PROVE CountInv' /\ LostInv'
  <2>1. SameFailures /\ Handling' \subseteq Handling
    BY <1>5, PlainStep DEF Succeed, Handling
  <2> QED BY <1>5, <2>1, FreshCountInv DEF Succeed
<1>6. CASE Restart
  <2>1. SameFailures /\ Handling' \subseteq Handling
    BY <1>6 DEF Restart, Handling, SameFailures
  <2> QED BY <1>6, <2>1, FreshCountInv DEF Restart
<1>7. CASE Tick \/ UNCHANGED vars
  <2>1. SameFailures /\ Handling' = Handling
    BY <1>7 DEF Tick, vars, SameFailures, Handling
  <2> QED BY <1>7, <2>1, IdleCountInv DEF Tick, vars
<1> QED BY <1>1, <1>2, <1>3, <1>4, <1>5, <1>6, <1>7 DEF Next

\* The counts are right at all times.
THEOREM FailuresAreCounted == Spec => [](CountInv /\ LostInv)
<1>1. Init => CountInv /\ LostInv
  <2> SUFFICES ASSUME Init PROVE CountInv /\ LostInv
    OBVIOUS
  <2>1. \A a \in Attempts : attempt[a].pc = "idle"
    BY DEF Init, Idle
  <2>2. Handling = {} /\ \A first \in Nat : FailedSince(first) \ failures = {}
    BY <2>1 DEF Handling, FailedSince
  <2> QED BY <2>2, Sizes, Parameters DEF Init, CountInv, LostInv
<1>2. EntryInv /\ EntryInv' /\ CountInv /\ LostInv /\ [Next]_vars => CountInv' /\ LostInv'
  BY CountStep
<1> QED BY <1>1, <1>2, EntryIsWellFormed, PTL DEF Spec

\* The failures of a window that is not over: those in the entry, and those lost to it.
OpenBound ==
    \A first \in Nat : first <= now /\ now < first + Window =>
        Cardinality(FailedSince(first)) <= MaxAttempts + 2 * (InFlight - 1)

LEMMA OpenWindow == EntryInv /\ CountInv /\ LostInv => OpenBound
<1> SUFFICES ASSUME EntryInv, CountInv, LostInv, NEW first \in Nat,
                    first <= now, now < first + Window
             PROVE  Cardinality(FailedSince(first)) <= MaxAttempts + 2 * (InFlight - 1)
  BY DEF OpenBound
<1>1. Cardinality(failures) <= MaxAttempts + InFlight - 1
  BY Parameters, Counted DEF CountInv
<1>2. Cardinality(FailedSince(first) \ failures) <= InFlight - 1
  BY DEF LostInv
<1>3. FailedSince(first) \in SUBSET Attempts /\ failures \in SUBSET Attempts
  BY Counted
<1>4. Cardinality(FailedSince(first)) <=
          Cardinality(failures) + Cardinality(FailedSince(first) \ failures)
  BY <1>3, SizeSplit
<1> QED BY <1>1, <1>2, <1>4, Parameters, Counted

LEMMA GuessStep ==
    ASSUME EntryInv, OpenBound', GuessInv, [Next]_vars
    PROVE  GuessInv'
<1> USE Parameters
<1>1. ASSUME NEW a \in Handling, Fail(a), NEW first \in Nat, NEW epoch \in Nat
      PROVE  Cardinality(FailedIn(first, first + Window - 1, epoch)')
                 <= MaxAttempts + 2 * (InFlight - 1)
  <2> DEFINE last == first + Window - 1
  <2>1. CASE epoch = resets /\ now \in first .. last
    <3>1. FailedIn(first, last, epoch)' \subseteq FailedSince(first)'
      BY <1>1, <2>1, FailStep DEF FailedIn, FailedSince
    <3>2. Cardinality(FailedSince(first)') <= MaxAttempts + 2 * (InFlight - 1)
      <4>1. now' = now /\ first <= now' /\ now' < first + Window
        BY <1>1, <2>1, FailStep, Clock
      <4> QED BY <4>1 DEF OpenBound
    <3>3. FailedSince(first)' \in SUBSET Attempts /\ FailedIn(first, last, epoch)' \in SUBSET Attempts
      BY DEF FailedSince, FailedIn
    <3>4. /\ Cardinality(FailedIn(first, last, epoch)') <= Cardinality(FailedSince(first)')
          /\ Cardinality(FailedIn(first, last, epoch)') \in Nat
          /\ Cardinality(FailedSince(first)') \in Nat
      BY <3>1, <3>3, Sizes
    <3> QED BY <3>2, <3>4
  <2>2. CASE ~(epoch = resets /\ now \in first .. last)
    <3>1. FailedIn(first, last, epoch)' = FailedIn(first, last, epoch)
      BY <1>1, <2>2, FailStep DEF FailedIn
    <3> QED BY <3>1 DEF GuessInv
  <2> QED BY <2>1, <2>2
<1>2. CASE SameFailures
  BY <1>2, SameCounts DEF GuessInv
<1>3. CASE \E a \in Handling : Fail(a)
  BY <1>1, <1>3 DEF GuessInv
<1> QED BY <1>2, <1>3, OtherSteps

\* Within one window, and without a success or a restart, at most MaxAttempts wrong
\* guesses are evaluated and twice as many as there can be other requests in flight,
\* for every number of requests, threshold, window and lock that is not shorter.
THEOREM GuessingIsBounded == Spec => []GuessesAreBounded
<1>1. Init => GuessInv
  <2> SUFFICES ASSUME Init, NEW first \in Nat, NEW epoch \in Nat
               PROVE  Cardinality(FailedIn(first, first + Window - 1, epoch))
                          <= MaxAttempts + 2 * (InFlight - 1)
    BY DEF GuessInv
  <2>1. FailedIn(first, first + Window - 1, epoch) = {}
    BY DEF Init, Idle, FailedIn
  <2> QED BY <2>1, Sizes, Parameters
<1>2. EntryInv /\ OpenBound' /\ GuessInv /\ [Next]_vars => GuessInv'
  BY GuessStep
<1>3. EntryInv /\ GuessInv => GuessesAreBounded
  BY Clock DEF GuessInv, GuessesAreBounded
<1> QED BY <1>1, <1>2, <1>3, EntryIsWellFormed, FailuresAreCounted, OpenWindow, PTL DEF Spec
=============================================================================
