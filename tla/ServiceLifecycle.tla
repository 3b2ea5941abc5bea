-------------------------- MODULE ServiceLifecycle --------------------------
(***************************************************************************)
(* How a service accepts connections and how it stops: serve() and the     *)
(* request handler of common/http_utils.py, on the standard library's      *)
(* ThreadingHTTPServer.                                                    *)
(*                                                                         *)
(* The main thread runs the accept loop.  The first SIGTERM or SIGINT      *)
(* drains the service: the signal handler waits for the requests in flight *)
(* and then has another thread stop the loop.  Python runs signal handlers *)
(* on the main thread, so nothing is accepted while the handler waits.     *)
(* Later signals find the service draining and change nothing.             *)
(*                                                                         *)
(* The names that every specification has begin with Service here, so that *)
(* a module about what a service does can extend this one too.             *)
(***************************************************************************)
EXTENDS Integers, FiniteSets

CONSTANTS
    Conns,    \* the connections that clients open
    Probes,   \* those that ask for /health or /ready and are answered by the dispatcher;
              \* a service that routes one of them itself refuses it like any request
    Hung,     \* those whose client, in its handshake or later, or whose handler may
              \* never come to an end
    Grace     \* SHUTDOWN_GRACE_SECONDS

ASSUME LifecycleAssumption ==
    /\ Probes \subseteq Conns /\ Hung \subseteq Conns
    /\ IsFiniteSet(Conns) /\ Grace \in Nat

VARIABLES
    main,      \* the main thread: accept loop, then server_close
    handler,   \* the signal handler that interrupts it
    left,      \* the time before the drain's deadline
    stop,      \* the server's shutdown request
    draining, inflight,   \* of _ServiceState
    conn       \* how far each connection has come

serviceVars == <<main, handler, left, stop, draining, inflight, conn>>

InThread == {"accepted", "counted", "handling", "replied"}

ServiceTypeOK ==
    /\ main \in {"select", "ready", "handshake", "joining", "exited"}
    /\ handler \in {"none", "waiting", "over", "drained", "forced"}
    /\ left \in 0 .. Grace
    /\ stop \in BOOLEAN /\ draining \in BOOLEAN
    /\ inflight \in Nat
    /\ conn \in [Conns -> {"new", "backlog", "handshake", "done", "lost"} \cup InThread]

ServiceInit ==
    /\ main = "select" /\ handler = "none" /\ left = Grace
    /\ stop = FALSE /\ draining = FALSE /\ inflight = 0
    /\ conn = [c \in Conns |-> "new"]

Becomes(c, from, to) == conn[c] = from /\ conn' = [conn EXCEPT ![c] = to]

(***************************************************************************)
(* The main thread.                                                        *)
(***************************************************************************)

\* The kernel queues connections for as long as the socket listens.
Connect(c) ==
    /\ main \notin {"joining", "exited"}
    /\ Becomes(c, "new", "backlog")
    /\ UNCHANGED <<main, handler, left, stop, draining, inflight>>

\* Mutated: the handler itself calls httpd.shutdown, which waits for the loop.
InterruptedForGood == handler # "none"

Interrupted == handler \in {"waiting", "over"}

\* The loop finds no shutdown request and a connection waiting ...
Poll ==
    /\ main = "select" /\ ~Interrupted /\ ~stop
    /\ \E c \in Conns : conn[c] = "backlog"
    /\ main' = "ready"
    /\ UNCHANGED <<handler, left, stop, draining, inflight, conn>>

\* ... accepts it, which on a TLS socket includes the handshake ...
Accept(c) ==
    /\ main = "ready" /\ ~Interrupted
    /\ Becomes(c, "backlog", "handshake")
    /\ main' = "handshake"
    /\ UNCHANGED <<handler, left, stop, draining, inflight>>

\* ... and starts a thread for it, unless the handshake failed.  There is no timeout: the
\* loop waits for the client.
Shake(c) ==
    /\ ~Interrupted
    /\ Becomes(c, "handshake", "accepted") \/ Becomes(c, "handshake", "done")
    /\ main' = "select"
    /\ UNCHANGED <<handler, left, stop, draining, inflight>>

\* The loop ends and server_close closes the socket: what is queued is reset.
Close ==
    /\ main = "select" /\ ~Interrupted /\ stop
    /\ main' = "joining"
    /\ conn' = [c \in Conns |-> IF conn[c] = "backlog" THEN "lost" ELSE conn[c]]
    /\ UNCHANGED <<handler, left, stop, draining, inflight>>

\* daemon_threads is off: server_close joins the threads.
ThreadsEnded == \A c \in Conns : conn[c] \notin InThread

Exit ==
    /\ main = "joining" /\ ThreadsEnded
    /\ main' = "exited"
    /\ UNCHANGED <<handler, left, stop, draining, inflight, conn>>

(***************************************************************************)
(* _drain_and_stop.                                                        *)
(***************************************************************************)

Signal ==
    /\ ~draining /\ main # "exited"
    /\ draining' = TRUE
    /\ handler' = "waiting"
    /\ UNCHANGED <<main, left, stop, inflight, conn>>

Tick ==
    /\ handler = "waiting" /\ left > 0
    /\ left' = left - 1
    /\ UNCHANGED <<main, handler, stop, draining, inflight, conn>>

\* Mutated: no deadline.
LoopOverWhenIdle == inflight = 0

LoopOver == inflight = 0 \/ left = 0

EndLoop ==
    /\ handler = "waiting" /\ LoopOver
    /\ handler' = "over"
    /\ UNCHANGED <<main, left, stop, draining, inflight, conn>>

\* Mutated: a verdict that is not one of the two.
VerdictUnnamed == "stopped"

\* inflight is read once more to tell which way the loop ended.
Verdict == IF inflight > 0 THEN "forced" ELSE "drained"

Report ==
    /\ handler = "over"
    /\ handler' = Verdict
    /\ UNCHANGED <<main, left, stop, draining, inflight, conn>>

\* The thread that calls httpd.shutdown.
Shutdown ==
    /\ handler \in {"drained", "forced"} /\ ~stop
    /\ stop' = TRUE
    /\ UNCHANGED <<main, handler, left, draining, inflight, conn>>

(***************************************************************************)
(* A connection's thread: _dispatch.                                       *)
(***************************************************************************)

\* The request line is read and enter_request called.
Enter(c) ==
    /\ Becomes(c, "accepted", "counted")
    /\ inflight' = inflight + 1
    /\ UNCHANGED <<main, handler, left, stop, draining>>

\* The client hangs up before it has sent a request.
HangUp(c) ==
    /\ Becomes(c, "accepted", "done")
    /\ UNCHANGED <<main, handler, left, stop, draining, inflight>>

\* Mutated: a request is not refused while draining.
DispatchAlways(c) ==
    /\ Becomes(c, "counted", IF c \in Probes THEN "replied" ELSE "handling")
    /\ UNCHANGED <<main, handler, left, stop, draining, inflight>>

\* A probe is answered, a request is refused while draining.
Dispatch(c) ==
    /\ Becomes(c, "counted", IF c \in Probes \/ draining THEN "replied" ELSE "handling")
    /\ UNCHANGED <<main, handler, left, stop, draining, inflight>>

\* The handler returns or raises, and the answer is sent or cannot be.
Reply(c) ==
    /\ Becomes(c, "handling", "replied")
    /\ UNCHANGED <<main, handler, left, stop, draining, inflight>>

\* Mutated: exit_request is called for the answer and again in the finally.
OneFewerTwice(n) == IF n > 1 THEN n - 2 ELSE 0

\* exit_request: max(0, inflight - 1)
OneFewer(n) == IF n > 0 THEN n - 1 ELSE 0

Leave(c) ==
    /\ Becomes(c, "replied", "done")
    /\ inflight' = OneFewer(inflight)
    /\ UNCHANGED <<main, handler, left, stop, draining>>

(***************************************************************************)
(* The specification.                                                      *)
(***************************************************************************)

ServiceNext ==
    \/ \E c \in Conns :
           \/ Connect(c) \/ Accept(c) \/ Shake(c)
           \/ Enter(c) \/ HangUp(c) \/ Dispatch(c) \/ Reply(c) \/ Leave(c)
    \/ Poll \/ Close \/ Exit
    \/ Signal \/ Tick \/ EndLoop \/ Report \/ Shutdown

ServiceSpec == ServiceInit /\ [][ServiceNext]_serviceVars

\* Threads that can run do run, and time passes.  A client that is not hung ends its
\* handshake, and sends its request or leaves.
Fairness ==
    /\ WF_serviceVars(Poll) /\ WF_serviceVars(\E c \in Conns : Accept(c))
    /\ WF_serviceVars(Close) /\ WF_serviceVars(Exit)
    /\ WF_serviceVars(Tick) /\ WF_serviceVars(EndLoop)
    /\ WF_serviceVars(Report) /\ WF_serviceVars(Shutdown)
    /\ \A c \in Conns : WF_serviceVars(Dispatch(c)) /\ WF_serviceVars(Leave(c))
    /\ \A c \in Conns \ Hung : /\ WF_serviceVars(Shake(c))
                              /\ WF_serviceVars(Enter(c) \/ HangUp(c))
                              /\ WF_serviceVars(Reply(c))

FairSpec == ServiceSpec /\ Fairness

(***************************************************************************)
(* Properties.                                                             *)
(***************************************************************************)

\* When the service reports that it has drained, no handler is at work and none
\* will be, not even for a connection whose thread had not been counted when the
\* loop looked: enter_request comes before the check of draining.
DrainedMeansIdle ==
    handler = "drained" => \A c \in Conns : conn[c] # "handling"

\* When the service stops waiting, only the deadline abandons a request that is being
\* handled: not the last answer to the others, and not a request that is counted late,
\* which has it report "shutdown_forced" too ("let in-flight requests finish, then exit").
OnlyDeadlineAbandons ==
    handler \in {"over", "forced"} /\ (\E c \in Conns : conn[c] = "handling") => left = 0

\* A drain ends with the socket closed, by the last request or by the deadline, whatever
\* the handlers do, unless a client stays in its handshake for ever: the accept loop
\* waits for that one, and the deadline has no part in it.
DrainEnds ==
    []<>(\A c \in Hung : conn[c] # "handshake") =>
        (draining ~> main \in {"joining", "exited"})

\* After a signal, and however many follow it, the process exits, unless a client in its
\* handshake, or a thread it has to join, hangs for ever.
OnlyTheHungDelayExit ==
    []<>(\A c \in Hung : conn[c] \notin {"handshake", "accepted", "handling"}) =>
        (draining ~> main = "exited")
=============================================================================
