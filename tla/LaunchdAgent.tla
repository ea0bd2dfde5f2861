------------------------------ MODULE LaunchdAgent ------------------------------
(***************************************************************************)
(* The life of the agent under launchd socket activation (main.go cmdRun): *)
(* launchd owns the socket and starts the agent when a client connects; an *)
(* idle timer or a signal closes the listener; the agent then drains the   *)
(* connections it has accepted and exits.  What a request does is module   *)
(* Agent; here a connection is only quiet or busy.                         *)
(*                                                                         *)
(* Left out: the -l mode (its own socket file, no idle timer), and start-  *)
(* up before the listener is open: a start that fails there has changed    *)
(* nothing, and launchd starts the agent again.                            *)
(***************************************************************************)
EXTENDS Naturals, FiniteSets

CONSTANTS
    Clients,        \* processes that connect to the agent's socket
    IdleTimeout,    \* launchdIdleTimeout
    ConnTimeout     \* connIdleTimeout

ASSUME LaunchdAssumption ==
    /\ IsFiniteSet(Clients)
    /\ IdleTimeout \in Nat \ {0}
    /\ ConnTimeout \in Nat \ {0}

VARIABLES
    job,            \* the agent process: down, killed, serving, draining
    listener,       \* whether the agent's copy of the socket is open
    handler,        \* whether the signal goroutine still waits for a signal
    timer,          \* whether the idle timer is armed
    sinceReset,     \* time since the timer was last reset, up to IdleTimeout
    wg,             \* the WaitGroup's counter
    conn,           \* per client: away, queued, quiet, busy, or forgotten: its
                    \* goroutine has ended and the connection is still open
    sinceRead,      \* time since the agent last read from it, up to ConnTimeout
    sinceUse        \* history: time since anything was accepted or asked for

process == <<job, listener, handler, timer, wg>>
vars    == <<process, sinceReset, conn, sinceRead, sinceUse>>

Running == job \in {"serving", "draining"}
Served(c) == conn[c] \in {"quiet", "busy"}

TypeOK ==
    /\ job \in {"down", "killed", "serving", "draining"}
    /\ listener \in BOOLEAN /\ handler \in BOOLEAN /\ timer \in BOOLEAN
    /\ sinceReset \in 0 .. IdleTimeout
    /\ wg \in 0 .. Cardinality(Clients)
    /\ conn \in [Clients -> {"away", "queued", "quiet", "busy", "forgotten"}]
    /\ sinceRead \in [Clients -> 0 .. ConnTimeout]
    /\ sinceUse \in 0 .. IdleTimeout

Init ==
    /\ job = "down"
    /\ listener = FALSE /\ handler = FALSE /\ timer = FALSE
    /\ sinceReset = 0
    /\ wg = 0
    /\ conn = [c \in Clients |-> "away"]
    /\ sinceRead = [c \in Clients |-> 0]
    /\ sinceUse = 0

(***************************************************************************)
(* The environment                                                         *)
(***************************************************************************)
UpTo(n, bound) == IF n < bound THEN n + 1 ELSE bound

Tick ==
    /\ sinceReset' = IF timer THEN UpTo(sinceReset, IdleTimeout) ELSE 0
    /\ sinceRead' = [c \in Clients |->
                       IF Served(c) THEN UpTo(sinceRead[c], ConnTimeout) ELSE 0]
    /\ sinceUse' = UpTo(sinceUse, IdleTimeout)
    /\ UNCHANGED <<process, conn>>

(* launchd's socket takes the connection whether or not the agent runs.    *)
Connect(c) ==
    /\ conn[c] = "away"
    /\ conn' = [conn EXCEPT ![c] = "queued"]
    /\ UNCHANGED <<process, sinceReset, sinceRead, sinceUse>>

(* The process is gone: the connections it had break.                      *)
Broken ==
    conn' = [c \in Clients |-> IF conn[c] = "queued" THEN "queued" ELSE "away"]

(* SIGKILL, a crash or the end of the session.                             *)
Kill ==
    /\ Running
    /\ job' = "killed"
    /\ listener' = FALSE /\ handler' = FALSE /\ timer' = FALSE
    /\ wg' = 0
    /\ Broken
    /\ UNCHANGED <<sinceReset, sinceRead, sinceUse>>

(* launchd runs one instance of the job, on demand.  The agent takes over  *)
(* the socket, installs its signal handler and arms the idle timer.        *)
Launch ==
    /\ ~Running
    /\ \E c \in Clients : conn[c] = "queued"
    /\ job' = "serving"
    /\ listener' = TRUE /\ handler' = TRUE /\ timer' = TRUE
    /\ sinceReset' = 0
    /\ sinceUse' = 0
    /\ UNCHANGED <<wg, conn, sinceRead>>

(***************************************************************************)
(* cmdRun                                                                  *)
(***************************************************************************)
(* Mutant: the goroutine is not counted.                                   *)
Accept_Uncounted(c) ==
    /\ job = "serving" /\ listener
    /\ conn[c] = "queued"
    /\ conn' = [conn EXCEPT ![c] = "quiet"]
    /\ sinceRead' = [sinceRead EXCEPT ![c] = 0]
    /\ sinceReset' = 0 /\ timer' = TRUE
    /\ sinceUse' = 0
    /\ UNCHANGED <<job, listener, handler, wg>>

(* Mutant: it is counted by the loop and again by itself.                  *)
Accept_CountedTwice(c) ==
    /\ job = "serving" /\ listener
    /\ conn[c] = "queued"
    /\ conn' = [conn EXCEPT ![c] = "quiet"]
    /\ sinceRead' = [sinceRead EXCEPT ![c] = 0]
    /\ sinceReset' = 0 /\ timer' = TRUE
    /\ wg' = wg + 2
    /\ sinceUse' = 0
    /\ UNCHANGED <<job, listener, handler>>

(* The accept loop: the idle timer is reset and a goroutine started, which *)
(* reads under a deadline.  (A timer that fires between Accept and Reset    *)
(* closes the listener all the same; re-arming it then does nothing more.) *)
Accept(c) ==
    /\ job = "serving" /\ listener
    /\ conn[c] = "queued"
    /\ conn' = [conn EXCEPT ![c] = "quiet"]
    /\ sinceRead' = [sinceRead EXCEPT ![c] = 0]
    /\ sinceReset' = 0 /\ timer' = TRUE
    /\ wg' = wg + 1
    /\ sinceUse' = 0
    /\ UNCHANGED <<job, listener, handler>>

(* The idle timer fires in a goroutine of its own.                         *)
TimerFires ==
    /\ Running
    /\ timer /\ sinceReset = IdleTimeout
    /\ timer' = FALSE
    /\ listener' = FALSE
    /\ UNCHANGED <<job, handler, wg, sinceReset, conn, sinceRead, sinceUse>>

(* SIGTERM or SIGINT: the first closes the listener and ends the handler;  *)
(* those after it, like every SIGHUP, change nothing.                      *)
Signal ==
    /\ handler
    /\ handler' = FALSE
    /\ listener' = FALSE
    /\ UNCHANGED <<job, timer, wg, sinceReset, conn, sinceRead, sinceUse>>

(* Accept fails with the listener open, as with too many open files: under *)
(* launchd any error ends the loop.                                        *)
AcceptFails ==
    /\ job = "serving" /\ listener
    /\ job' = "draining"
    /\ UNCHANGED <<listener, handler, timer, wg, sinceReset, conn, sinceRead,
                   sinceUse>>

(* Accept fails on the closed listener.                                    *)
LeaveLoop ==
    /\ job = "serving" /\ ~listener
    /\ job' = "draining"
    /\ UNCHANGED <<listener, handler, timer, wg, sinceReset, conn, sinceRead,
                   sinceUse>>

(* wg.Wait() returns, the audit log is closed, the process ends.           *)
Exit ==
    /\ job = "draining" /\ wg = 0
    /\ job' = "down"
    /\ listener' = FALSE /\ handler' = FALSE /\ timer' = FALSE
    /\ Broken
    /\ UNCHANGED <<wg, sinceReset, sinceRead, sinceUse>>

(***************************************************************************)
(* serveConn                                                               *)
(***************************************************************************)
(* A request arrives; reading it renews the deadline.                      *)
Request(c) ==
    /\ Running
    /\ conn[c] = "quiet" /\ sinceRead[c] < ConnTimeout
    /\ conn' = [conn EXCEPT ![c] = "busy"]
    /\ sinceRead' = [sinceRead EXCEPT ![c] = 0]
    /\ sinceUse' = 0
    /\ UNCHANGED <<process, sinceReset>>

(* The reply is written, and the next Read renews the deadline.            *)
Finish(c) ==
    /\ Running
    /\ conn[c] = "busy" /\ sinceRead[c] < ConnTimeout
    /\ conn' = [conn EXCEPT ![c] = "quiet"]
    /\ sinceRead' = [sinceRead EXCEPT ![c] = 0]
    /\ UNCHANGED <<process, sinceReset, sinceUse>>

(* The goroutine of a connection ends.                                     *)
Ends(c, from, to) ==
    /\ Running
    /\ conn[c] = from
    /\ conn' = [conn EXCEPT ![c] = to]
    /\ wg' = wg - 1
    /\ UNCHANGED <<job, listener, handler, timer, sinceReset, sinceRead, sinceUse>>

(* The client hangs up between requests.                                   *)
HangUp(c) == Ends(c, "quiet", "away")

(* The reply cannot be written, because the client has gone meanwhile or   *)
(* because the deadline its last Read armed has passed.                    *)
ReplyFails(c) ==
    \/ Ends(c, "busy", "away")
    \/ sinceRead[c] = ConnTimeout /\ Ends(c, "busy", "forgotten")

(* serveConn does not close what it leaves: the client or, one day, the    *)
(* garbage collector does.                                                 *)
Close(c) ==
    /\ conn[c] = "forgotten"
    /\ conn' = [conn EXCEPT ![c] = "away"]
    /\ UNCHANGED <<process, sinceReset, sinceRead, sinceUse>>

(* Mutant: connections are read without a deadline.                        *)
ReadTimesOut_Never(c) == FALSE /\ UNCHANGED vars

(* The client says nothing until the deadline of the pending Read passes.  *)
ReadTimesOut(c) == sinceRead[c] = ConnTimeout /\ Ends(c, "quiet", "forgotten")

Next == \/ Tick \/ Kill \/ Launch \/ TimerFires \/ Signal \/ AcceptFails
        \/ LeaveLoop \/ Exit
        \/ \E c \in Clients : \/ Connect(c) \/ Accept(c) \/ Request(c)
                              \/ Finish(c) \/ HangUp(c) \/ ReplyFails(c)
                              \/ ReadTimesOut(c) \/ Close(c)

Spec == Init /\ [][Next]_vars

(* Time passes, launchd starts a job that has connections waiting, and the *)
(* agent's goroutines and timers run; the accept queue is first in, first  *)
(* out and Accept does not fail for ever, so a connection that can be      *)
(* accepted again and again is.  Nothing is assumed of clients, of signals *)
(* or of how long a request takes.                                         *)
Fairness ==
    /\ WF_vars(Tick) /\ WF_vars(Launch) /\ WF_vars(LeaveLoop) /\ WF_vars(Exit)
    /\ WF_vars(TimerFires)
    /\ \A c \in Clients : SF_vars(Accept(c)) /\ WF_vars(ReadTimesOut(c))

FairSpec == Spec /\ Fairness

(***************************************************************************)
(* Properties                                                              *)
(***************************************************************************)
(* Shutting down, whether by signal or by the idle timer, never cuts off a *)
(* connection the agent has accepted (main.go:742).                        *)
NoClientCutOff ==
    [][job # "down" /\ job' = "down" => \A c \in Clients : ~Served(c)]_vars

(* No client is left waiting at launchd's socket for good, as long as      *)
(* clients stop asking in the end: connections that are merely held open   *)
(* time out, so an agent that drains does exit, and the next one is        *)
(* launched (docs/launchd.md:8).                                           *)
QueuedClientsAreAccepted ==
    (\A c \in Clients : <>[](conn[c] # "busy")) =>
        \A c \in Clients : conn[c] = "queued" ~> conn[c] # "queued"

(* "The agent exits after 10 minutes of inactivity" (main.go:60): the idle *)
(* timer only stops an agent nobody has used for that long.                *)
IdleMeansUnused ==
    [][timer /\ ~timer' /\ job' = job => sinceUse = IdleTimeout]_vars
=============================================================================
