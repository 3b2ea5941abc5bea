------------------------------- MODULE Lockout -------------------------------
(***************************************************************************)
(* The IdP's lockout of an account (common/rate_limiter.py) as the handler *)
(* threads of handle_login use it (idp/idp_server.py).                     *)
(*                                                                         *)
(* A thread asks is_locked_out, then evaluates password and code without   *)
(* holding any lock, and only then records the outcome.  Between the two,  *)
(* other threads record theirs.  The limiter keeps one entry per username; *)
(* entries do not interact, so this is the entry of one account.           *)
(***************************************************************************)
EXTENDS Integers, FiniteSets

CONSTANTS
    MaxRequests,  \* bound on the login requests naming the account
    MaxAttempts,  \* LOGIN_MAX_ATTEMPTS
    Window,       \* LOGIN_WINDOW_SECONDS
    LockFor,      \* LOGIN_LOCKOUT_SECONDS
    InFlight,     \* bound on the requests being handled at one time
    MaxTime,      \* bound on the clock
    MaxResets     \* bound on successful logins and restarts together

ASSUME LockoutAssumption ==
    /\ {MaxAttempts, Window, LockFor, InFlight} \subseteq Nat \ {0}
    /\ Window <= LockFor
    /\ {MaxRequests, MaxTime, MaxResets} \subseteq Nat

\* The requests in the order of their calls of is_locked_out, a thread each.
Attempts == 1 .. MaxRequests

VARIABLES
    now,          \* the IdP's clock, read inside the limiter's lock
    failures,     \* the entry's failures, each named by the attempt that recorded it
    lockedUntil,  \* the entry's locked_until
    attempt,      \* how far each handler thread has come
    resets        \* history: how often a success or a restart wiped the entry

vars == <<now, failures, lockedUntil, attempt, resets>>

None == -1
Idle == [pc |-> "idle"]
Plain == [pc : {"idle", "checked", "refused", "no_posture", "passed", "cut_off"}]
\* at: the failure's timestamp; epoch: history, the value of resets then.
Failure == [pc : {"failed"}, at : Nat, epoch : Nat]

TypeOK ==
    /\ now \in Nat /\ resets \in Nat
    /\ lockedUntil \in Nat \cup {None}
    /\ attempt \in [Attempts -> Plain \cup Failure]
    /\ failures \subseteq {a \in Attempts : attempt[a].pc = "failed"}

Init ==
    /\ now = 0 /\ resets = 0
    /\ failures = {} /\ lockedUntil = None
    /\ attempt = [a \in Attempts |-> Idle]

Handling == {a \in Attempts : attempt[a].pc = "checked"}

Enters(a, pc) == attempt' = [attempt EXCEPT ![a] = [pc |-> pc]]

(***************************************************************************)
(* is_locked_out.                                                          *)
(***************************************************************************)

Arrives(a) == attempt[a] = Idle /\ \A b \in 1 .. a - 1 : attempt[b] # Idle

Locked == lockedUntil # None /\ now < lockedUntil

Refuse(a) ==
    /\ Arrives(a) /\ Locked
    /\ Enters(a, "refused")
    /\ UNCHANGED <<now, failures, lockedUntil, resets>>

\* A lock that has run out is lifted by the first attempt that finds it so.
Admit(a) ==
    /\ Arrives(a) /\ ~Locked
    /\ Cardinality(Handling) < InFlight
    /\ Enters(a, "checked")
    /\ lockedUntil' = None
    /\ failures' = IF lockedUntil # None THEN {} ELSE failures
    /\ UNCHANGED <<now, resets>>

(***************************************************************************)
(* The outcome of the credential checks.                                   *)
(***************************************************************************)

\* Mutated: failures are never forgotten.
RecentNever == failures

\* The failures that are still inside the window.
Recent == {a \in failures : now - attempt[a].at < Window}

TooMany(fs) == Cardinality(fs) >= MaxAttempts

\* Mutated: the time-out replaces the moment it ends.
LockAfterRelative(fs) == IF TooMany(fs) THEN -LockFor ELSE lockedUntil

LockAfter(fs) == IF TooMany(fs) THEN now + LockFor ELSE lockedUntil

\* Wrong password, unknown user or wrong code: record_failure, in one lock.
Fail(a) ==
    /\ a \in Handling
    /\ failures' = Recent \cup {a}
    /\ lockedUntil' = LockAfter(failures')
    /\ attempt' = [attempt EXCEPT ![a] = [pc |-> "failed", at |-> now, epoch |-> resets]]
    /\ UNCHANGED <<now, resets>>

\* Mutated: record_success comes before the posture check.
LacksPostureAfterSuccess(a) ==
    /\ a \in Handling
    /\ failures' = {} /\ lockedUntil' = None
    /\ Enters(a, "no_posture")
    /\ UNCHANGED <<now, resets>>

\* Right credentials but no numeric posture, or an error: nothing is recorded.
LacksPosture(a) ==
    /\ a \in Handling
    /\ Enters(a, "no_posture")
    /\ UNCHANGED <<now, failures, lockedUntil, resets>>

\* record_success: the entry is wiped, whatever other threads wrote meanwhile.
Succeed(a) ==
    /\ a \in Handling /\ resets < MaxResets
    /\ failures' = {} /\ lockedUntil' = None
    /\ resets' = resets + 1
    /\ Enters(a, "passed")
    /\ UNCHANGED now

\* The entries are process memory: a restart forgets them with its threads.
Restart ==
    /\ resets < MaxResets
    /\ failures' = {} /\ lockedUntil' = None
    /\ resets' = resets + 1
    /\ attempt' = [a \in Attempts |->
                     IF a \in Handling THEN [pc |-> "cut_off"] ELSE attempt[a]]
    /\ UNCHANGED now

Tick ==
    /\ now < MaxTime
    /\ now' = now + 1
    /\ UNCHANGED <<failures, lockedUntil, attempt, resets>>

Next ==
    \/ \E a \in Attempts :
           Refuse(a) \/ Admit(a) \/ Fail(a) \/ LacksPosture(a) \/ Succeed(a)
    \/ Restart
    \/ Tick

Spec == Init /\ [][Next]_vars

(***************************************************************************)
(* Properties.                                                             *)
(***************************************************************************)

FailedIn(first, last, epoch) ==
    {a \in Attempts : /\ attempt[a].pc = "failed" /\ attempt[a].epoch = epoch
                      /\ attempt[a].at \in first .. last}

\* Within one window, and without a success or a restart, no more wrong guesses
\* are evaluated than MaxAttempts and those of the threads that were already past
\* the check when an account was locked: the check and the record are not atomic,
\* but what that costs is bounded (docs/HARDENING.md, item 2).
GuessesAreBounded ==
    \A first \in 0 .. now, epoch \in 0 .. resets :
        Cardinality(FailedIn(first, first + Window - 1, epoch))
            <= MaxAttempts + 2 * (InFlight - 1)

\* Nobody is locked out without cause: behind every lock there are MaxAttempts
\* failures of one window, later than the last success.
LocksHaveCause ==
    lockedUntil # None =>
        LET set == lockedUntil - LockFor IN
        Cardinality(FailedIn(set - Window + 1, set, resets)) >= MaxAttempts

\* While an account is locked, a late failure of a thread that was past the check
\* may extend the lock but nothing short of a success or a restart ends it early.
LocksHold ==
    [][Locked /\ resets' = resets => lockedUntil' >= lockedUntil]_vars
=============================================================================
