------------------------------- MODULE SocketFile -------------------------------
(***************************************************************************)
(* Agents that listen on a socket file of their own (main.go cmdRun, -l),  *)
(* several on one path: each removes whatever is at the path before it     *)
(* listens, when it is told to stop, and when it exits.  launchd may own   *)
(* the same path (an old plist beside a new one), and -status looks at all *)
(* of them.  A client is a connection; what its requests do is module      *)
(* Agent, and who reaches launchd's socket is module LaunchdAgent.         *)
(*                                                                         *)
(* Left out: the second of sleep after an Accept that timed out, which     *)
(* changes nothing, and the mode bits of the file.                         *)
(***************************************************************************)
EXTENDS Naturals, FiniteSets

CONSTANTS
    Agents,         \* processes run as touchid-agent -l PATH, one PATH
    Clients,        \* connections
    Probe,          \* the connection of -status, which is one more
    Launchd,        \* launchd's own socket at the path
    Stale,          \* a socket file nobody listens on
    None

ASSUME SocketAssumption ==
    /\ Probe \notin Clients
    /\ Launchd \notin Agents /\ Stale \notin Agents /\ None \notin Agents
    /\ Launchd # Stale /\ Launchd # None /\ Stale # None

VARIABLES
    path,           \* who is reached through the file at the path, if anyone
    proc,           \* where each agent process is in cmdRun
    listening,      \* the agents whose listener is open
    handler,        \* the agents whose signal goroutine waits for a signal
    conn,           \* per connection: "away" if no agent has to do with it,
                    \* in a queue, or served
    at,             \* whose queue it is in, or who serves it
    status,         \* -status: idle, connected, answered, or "clean"
    alone,          \* history: the agent no other has run beside, if any
    refused,        \* history: the agents to which the file system refused to
                    \* remove or bind the path, beyond there being a file
    blind           \* history: while -status ran a process ended or launchd's
                    \* job was unloaded, or ps has failed

process == <<proc, listening, handler>>
clients == <<conn, at>>
history == <<alone, refused, blind>>
vars    == <<path, process, clients, status, history>>

Alive   == {a \in Agents : proc[a] \notin {"gone", "failed"}}
Conns   == Clients \cup {Probe}
Of(a)   == {c \in Conns : at[c] = a}
Served(a) == {c \in Of(a) : conn[c] = "served"}

(* A socket file leads to an open listener or is stale; a connection is    *)
(* queued at an open listener, or served by an agent that is still there.  *)
TypeOK ==
    /\ path \in listening \cup {Launchd, Stale, None}
    /\ proc \in [Agents -> {"gone", "failed", "starting", "removed", "serving",
                            "draining"}]
    /\ listening \cup handler
         \subseteq {a \in Agents : proc[a] \in {"serving", "draining"}}
    /\ conn \in [Conns -> {"away", "queued", "served"}]
    /\ at \in [Conns -> Agents \cup {Launchd, None}]
    /\ \A c \in Conns :
         CASE conn[c] = "away"   -> at[c] = None
           [] conn[c] = "queued" -> \/ at[c] \in listening
                                    \/ c = Probe /\ at[c] = Launchd
           [] conn[c] = "served" -> at[c] \in Alive
    /\ status \in {"idle", "connected", "answered", "clean"}
    /\ alone \subseteq Agents /\ refused \subseteq Agents
    /\ blind \in BOOLEAN

(* Whatever earlier agents have left at the path.                          *)
Init ==
    /\ path \in {Stale, None}
    /\ proc = [a \in Agents |-> "gone"]
    /\ listening = {} /\ handler = {}
    /\ conn = [c \in Conns |-> "away"]
    /\ at = [c \in Conns |-> None]
    /\ status = "idle"
    /\ alone = {} /\ refused = {}
    /\ blind = FALSE

Go(a, from, to) == proc[a] = from /\ proc' = [proc EXCEPT ![a] = to]

(* The connections that end when a listener is closed or a process ends.   *)
Dropped(cs) ==
    /\ conn' = [c \in Conns |-> IF c \in cs THEN "away" ELSE conn[c]]
    /\ at' = [c \in Conns |-> IF c \in cs THEN None ELSE at[c]]

InStatus == status \in {"connected", "answered"}

(* What the path is after an attempt to remove it, of which the error is   *)
(* ignored.                                                                *)
Unlinked == {None, path}

(* The process is gone, its listener with it: a file that led to it stays  *)
(* behind.                                                                 *)
Ends(a, to, file) ==
    /\ proc' = [proc EXCEPT ![a] = to]
    /\ listening' = listening \ {a}
    /\ handler' = handler \ {a}
    /\ path' = IF file = a THEN Stale ELSE file
    /\ Dropped(Of(a))
    /\ blind' = (blind \/ InStatus)

(***************************************************************************)
(* launchd, signals nobody handles, clients                                *)
(***************************************************************************)
(* launchctl load: launchd puts a socket of its own at the path.           *)
Load ==
    /\ path # Launchd
    /\ path' = Launchd
    /\ alone' = {}
    /\ UNCHANGED <<process, clients, status, refused, blind>>

(* A socket that leads nowhere may stay.  An agent launchd has started     *)
(* still serves the connections made.                                      *)
Unload ==
    /\ path = Launchd
    /\ path' \in {Stale, None}
    /\ status' = IF status = "clean" THEN "idle" ELSE status
    /\ blind' = (blind \/ InStatus)
    /\ UNCHANGED <<process, clients, alone, refused>>

(* SIGKILL, a crash, or a signal before the handler is installed.          *)
Kill(a) ==
    /\ a \in Alive
    /\ Ends(a, "gone", path)
    /\ UNCHANGED <<status, alone, refused>>

(* dial(2) works as soon as somebody listens, whether or not he accepts.   *)
Connect(c) ==
    /\ conn[c] = "away"
    /\ path \in listening
    /\ conn' = [conn EXCEPT ![c] = "queued"]
    /\ at' = [at EXCEPT ![c] = path]
    /\ UNCHANGED <<path, process, status, history>>

(* The client hangs up, or a read or a write passes its deadline and the   *)
(* agent leaves the connection.  Neither need ever happen: each read gives *)
(* a new deadline, and a request may wait for its prompt.                  *)
HangUp(c) ==
    /\ conn[c] = "served"
    /\ Dropped({c})
    /\ UNCHANGED <<path, process, status, history>>

(***************************************************************************)
(* cmdRun                                                                  *)
(***************************************************************************)
(* A process starts: the user's, or launchd's for an old plist.  It only   *)
(* warns that others may be running.                                       *)
Start(a) ==
    /\ proc[a] \in {"gone", "failed"}
    /\ proc' = [proc EXCEPT ![a] = "starting"]
    /\ alone' = IF Alive = {} THEN {a} ELSE {}
    /\ status' = IF status = "clean" THEN "idle" ELSE status
    /\ refused' = refused \ {a}
    /\ UNCHANGED <<path, listening, handler, clients, blind>>

(* The audit log, the rules or the directory cannot be opened: log.Fatal.  *)
GiveUp(a) ==
    /\ proc[a] \in {"starting", "removed"}
    /\ Ends(a, "gone", path)
    /\ UNCHANGED <<status, alone, refused>>

(* Mutant: the file is left to net.Listen.                                 *)
Remove_Skipped(a) ==
    /\ Go(a, "starting", "removed")
    /\ UNCHANGED <<path, listening, handler, clients, status, history>>

(* os.Remove(socketPath), whosever socket it is.  It may fail, as on a     *)
(* directory that is not the user's.                                       *)
Remove(a) ==
    /\ Go(a, "starting", "removed")
    /\ path' \in Unlinked
    /\ refused' = IF path' = None THEN refused ELSE refused \cup {a}
    /\ UNCHANGED <<listening, handler, clients, status, alone, blind>>

(* net.Listen binds the path, and the signal goroutine starts.             *)
Listen(a) ==
    /\ path = None
    /\ Go(a, "removed", "serving")
    /\ path' = a
    /\ listening' = listening \cup {a}
    /\ handler' = handler \cup {a}
    /\ UNCHANGED <<clients, status, history>>

(* "Failed to listen on UNIX socket": there is a file again, or the path   *)
(* cannot be bound, too long or not writable.                              *)
ListenFails(a) ==
    /\ proc[a] = "removed"
    /\ Ends(a, "failed", path)
    /\ refused' = IF path = None THEN refused \cup {a} ELSE refused
    /\ UNCHANGED <<status, alone>>

(* The loop accepts a connection and starts its goroutine.                 *)
Accept(c) ==
    /\ conn[c] = "queued" /\ at[c] \in Agents
    /\ proc[at[c]] = "serving"
    /\ conn' = [conn EXCEPT ![c] = "served"]
    /\ UNCHANGED <<path, process, at, status, history>>

(* Accept fails with an error that is not a timeout, such as too many open *)
(* files: the loop is left, the listener stays open.                       *)
AcceptFails(a) ==
    /\ a \in listening
    /\ Go(a, "serving", "draining")
    /\ UNCHANGED <<path, listening, handler, clients, status, history>>

(* SIGTERM or SIGINT: Close unlinks the path, be it still its own or not   *)
(* (a net.UnixListener does, and drops the error), and the queue is gone.  *)
Signal(a) ==
    /\ a \in handler
    /\ handler' = handler \ {a}
    /\ listening' = listening \ {a}
    /\ \E file \in Unlinked : path' = IF file = a THEN Stale ELSE file
    /\ Dropped({c \in Of(a) : conn[c] = "queued"})
    /\ UNCHANGED <<proc, status, history>>

(* Mutant: the loop returns instead of breaking.                           *)
LeaveLoop_Returns(a) ==
    /\ a \notin listening
    /\ Go(a, "serving", "gone")
    /\ UNCHANGED <<path, listening, handler, clients, status, history>>

LeaveLoop(a) ==
    /\ a \notin listening
    /\ Go(a, "serving", "draining")
    /\ UNCHANGED <<path, listening, handler, clients, status, history>>

(* Mutant: the WaitGroup counts the signal goroutine too.                  *)
Exit_WaitsForSignal(a) ==
    /\ proc[a] = "draining"
    /\ a \notin handler
    /\ Served(a) = {}
    /\ \E file \in Unlinked : Ends(a, "gone", file)
    /\ UNCHANGED <<status, alone, refused>>

(* wg.Wait returns; the path is removed once more, whosever it is by now.  *)
Exit(a) ==
    /\ proc[a] = "draining"
    /\ Served(a) = {}
    /\ \E file \in Unlinked : Ends(a, "gone", file)
    /\ UNCHANGED <<status, alone, refused>>

(***************************************************************************)
(* cmdStatus                                                               *)
(***************************************************************************)
(* net.DialTimeout: whoever the path leads to has the connection queued.   *)
Dial ==
    /\ ~InStatus
    /\ path \in listening \cup {Launchd}
    /\ conn' = [conn EXCEPT ![Probe] = "queued"]
    /\ at' = [at EXCEPT ![Probe] = path]
    /\ status' = "connected"
    /\ blind' = FALSE
    /\ UNCHANGED <<path, process, alone, refused>>

(* List is answered: by the agent that has accepted, draining or not, or   *)
(* by the agent launchd has started.                                       *)
Answer ==
    /\ status = "connected"
    /\ conn[Probe] = "served" \/ at[Probe] = Launchd
    /\ status' = "answered"
    /\ UNCHANGED <<path, process, clients, history>>

(* -status ends: the connection has been open up to here.                  *)
Concludes(result) ==
    /\ status' = result
    /\ Dropped({Probe})
    /\ UNCHANGED <<path, process, alone, refused>>

(* "Agent error", the connection broken or not; or -status is interrupted. *)
StatusFails ==
    /\ InStatus
    /\ Concludes("idle")
    /\ UNCHANGED blind

(* Mutant: only the agents that listen are looked for.                     *)
Scan_ListenersOnly ==
    /\ status = "answered"
    /\ Concludes(IF listening = {} THEN "clean" ELSE "idle")
    /\ UNCHANGED blind

(* Then ps is searched for -l processes on the same path: none, or a       *)
(* warning.                                                                *)
Scan ==
    /\ status = "answered"
    /\ Concludes(IF Alive = {} THEN "clean" ELSE "idle")
    /\ UNCHANGED blind

(* ps cannot be run: nothing is found, and there is no warning.            *)
ScanFails ==
    /\ status = "answered"
    /\ Concludes("clean")
    /\ blind' = TRUE

(***************************************************************************)
(* Specification                                                           *)
(***************************************************************************)
Run(a) == \/ Start(a) \/ GiveUp(a) \/ Remove(a) \/ Listen(a) \/ ListenFails(a)
          \/ AcceptFails(a) \/ Signal(a) \/ LeaveLoop(a) \/ Exit(a) \/ Kill(a)

Status == Dial \/ Answer \/ StatusFails \/ Scan \/ ScanFails

Next == \/ Load \/ Unload \/ Status
        \/ \E a \in Agents : Run(a)
        \/ \E c \in Conns : Accept(c)
        \/ \E c \in Clients : Connect(c) \/ HangUp(c)

Spec == Init /\ [][Next]_vars

(* The goroutines of an agent run, and its accept queue is first in, first *)
(* out: a connection it can accept again and again it does accept.         *)
(* Nothing is assumed of launchd, signals, clients or of who starts.       *)
Fairness ==
    /\ \A a \in Agents : WF_vars(LeaveLoop(a)) /\ WF_vars(Exit(a))
    /\ \A c \in Conns : SF_vars(Accept(c))

FairSpec == Spec /\ Fairness

(***************************************************************************)
(* Properties                                                              *)
(***************************************************************************)
(* An agent no other ran beside, and under which launchd put no socket,    *)
(* fails to listen only if the file system did not let it remove or bind   *)
(* the path, and is the one reached through the path as long as it         *)
(* listens: what killed or failed agents, launchd or overlapping ones have *)
(* left there before is no obstacle (os.Remove, main.go:672).  The         *)
(* reason docs/runbook.md:118 calls usual, a file left by SIGKILL, is none *)
(* unless that file cannot be removed.  Of agents that overlap it says     *)
(* nothing: they do take the path from one another.                        *)
AloneIsReachable ==
    \A a \in alone : /\ proc[a] = "failed" => a \in refused
                     /\ a \in listening => path = a

(* If -status is answered and finds no -l process (main.go:544), the path  *)
(* is launchd's and stays so until such a process is started or the job    *)
(* unloaded: nobody is left who would remove it.  Three things -status     *)
(* cannot see, and after them its silence says nothing: a process that     *)
(* ended between the connect and the search (its last step removes the     *)
(* path, while launchd's agent answers), the job unloaded in between, and  *)
(* a ps that failed (main.go:556).                                         *)
CleanStatusIsStable ==
    status = "clean" /\ ~blind => path = Launchd

(* Nobody waits for good in the queue of an agent, provided that every     *)
(* connection served ends some day: it is accepted, or the agent goes and  *)
(* the connection breaks, also if the accept loop has been left with the   *)
(* listener still open (main.go:724).  Without the proviso the code does   *)
(* not give this: a client that never stops asking, or a prompt nobody     *)
(* answers, then holds the queue as long as it holds the agent.            *)
ServedEnds ==
    \A c \in Conns : []<>(conn[c] # "served")

NobodyWaitsForGood ==
    ServedEnds => \A c \in Clients : conn[c] = "queued" ~> conn[c] # "queued"
=============================================================================
