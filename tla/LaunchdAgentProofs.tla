--------------------------- MODULE LaunchdAgentProofs ---------------------------
(***************************************************************************)
(* Proofs about LaunchdAgent, for any number of clients and any timeouts:  *)
(* the WaitGroup counts the connections served, so no shutdown cuts one    *)
(* off.                                                                    *)
(***************************************************************************)
EXTENDS LaunchdAgent, FiniteSetTheorems, TLAPS

ServedClients == {c \in Clients : Served(c)}

(* Between the actions of the goroutines the WaitGroup's counter is the    *)
(* number of connections, and an agent that has gone serves none.          *)
Counted ==
    /\ wg = Cardinality(ServedClients)
    /\ ~Running => ServedClients = {}

Inv == TypeOK /\ Counted

LEMMA ServedFinite ==
    /\ IsFiniteSet(ServedClients) /\ IsFiniteSet(ServedClients')
    /\ Cardinality(ServedClients) \in 0 .. Cardinality(Clients)
    /\ Cardinality(ServedClients') \in 0 .. Cardinality(Clients)
    /\ Cardinality(Clients) \in Nat
  <1>1. ServedClients \subseteq Clients /\ ServedClients' \subseteq Clients
    BY DEF ServedClients
  <1> QED
    BY <1>1, LaunchdAssumption, FS_Subset, FS_CardinalityType

LEMMA InvInit == Init => Inv
  <1> SUFFICES ASSUME Init PROVE Inv
    OBVIOUS
  <1>1. ServedClients = {}
    BY DEF Init, ServedClients, Served
  <1>2. Cardinality(ServedClients) = 0
    BY <1>1, FS_EmptySet
  <1>3. Counted
    BY <1>1, <1>2 DEF Init, Counted
  <1>4. TypeOK
    <2>1. /\ 0 \in 0 .. Cardinality(Clients) /\ 0 \in 0 .. IdleTimeout
          /\ 0 \in 0 .. ConnTimeout
      BY ServedFinite, LaunchdAssumption
    <2> QED
      BY <2>1 DEF Init, TypeOK
  <1> QED
    BY <1>3, <1>4 DEF Inv

ConnStates == {"away", "queued", "quiet", "busy", "forgotten"}

(* What a step of the agent or of one client does to a connection.         *)
LEMMA ConnStep ==
    ASSUME TypeOK, NEW c \in Clients, NEW state \in ConnStates,
           conn' = [conn EXCEPT ![c] = state]
    PROVE  /\ conn' \in [Clients -> ConnStates]
           /\ ServedClients' = IF state \in {"quiet", "busy"}
                               THEN ServedClients \cup {c} ELSE ServedClients \ {c}
  BY DEF TypeOK, ServedClients, Served, ConnStates

LEMMA InvStep == Inv /\ [Next]_vars => Inv'
  <1> SUFFICES ASSUME Inv, [Next]_vars PROVE Inv'
    OBVIOUS
  <1> USE LaunchdAssumption DEF Inv
  <1>1. CASE Tick
    <2>1. ServedClients' = ServedClients /\ (Running' <=> Running)
      BY <1>1 DEF Tick, process, ServedClients, Served, Running
    <2>2. Counted'
      BY <1>1, <2>1 DEF Tick, process, Counted
    <2>3. TypeOK'
      BY <1>1 DEF Tick, process, UpTo, TypeOK
    <2> QED
      BY <2>2, <2>3
  <1>2. CASE Kill
    <2>1. ServedClients' = {}
      BY <1>2 DEF Kill, Broken, ServedClients, Served, TypeOK
    <2>2. Cardinality(ServedClients') = 0
      BY <2>1, FS_EmptySet
    <2> QED
      BY <1>2, <2>1, <2>2, ServedFinite DEF Kill, Broken, TypeOK, Counted
  <1>3. CASE \/ Launch \/ TimerFires \/ Signal \/ AcceptFails \/ LeaveLoop
             \/ UNCHANGED vars
    <2>1. ServedClients' = ServedClients /\ wg' = wg /\ conn' = conn
      BY <1>3 DEF Launch, TimerFires, Signal, AcceptFails, LeaveLoop, vars, process,
         ServedClients, Served
    <2>2. Running => Running'
      BY <1>3 DEF Launch, TimerFires, Signal, AcceptFails, LeaveLoop, vars, process,
         Running
    <2>3. Counted'
      BY <2>1, <2>2 DEF Counted
    <2>4. TypeOK'
      <3>1. CASE Launch
        BY <2>1, <3>1 DEF Launch, TypeOK
      <3>2. CASE TimerFires \/ Signal
        BY <2>1, <3>2 DEF TimerFires, Signal, TypeOK
      <3>3. CASE AcceptFails \/ LeaveLoop \/ UNCHANGED vars
        BY <2>1, <3>3 DEF AcceptFails, LeaveLoop, vars, process, TypeOK
      <3> QED
        BY <1>3, <3>1, <3>2, <3>3
    <2> QED
      BY <2>3, <2>4
  <1>4. CASE Exit
    <2>1. ServedClients = {} /\ wg' = 0
      BY <1>4, ServedFinite, FS_EmptySet DEF Exit, Counted
    <2>2. ServedClients' = {} /\ Cardinality(ServedClients') = 0
      BY <1>4, FS_EmptySet DEF Exit, Broken, ServedClients, Served
    <2> QED
      BY <1>4, <2>1, <2>2 DEF Exit, Broken, TypeOK, Counted
  <1>5. ASSUME NEW c \in Clients, Connect(c) \/ Request(c) \/ Finish(c)
        PROVE  Inv'
    <2>1. PICK state \in {"queued", "quiet", "busy"} :
             /\ conn' = [conn EXCEPT ![c] = state]
             /\ state = "queued" => conn[c] = "away"
             /\ state # "queued" => Served(c)
      BY <1>5 DEF Connect, Request, Finish, Served
    <2>2. ServedClients' = ServedClients
      BY <2>1, ConnStep DEF ServedClients, Served, ConnStates
    <2>3. wg' = wg /\ job' = job
      BY <1>5 DEF Connect, Request, Finish, process
    <2>4. Counted'
      BY <2>2, <2>3 DEF Counted, Running
    <2>5. conn' \in [Clients -> ConnStates]
      BY <2>1, ConnStep DEF ConnStates
    <2>6. TypeOK'
      BY <1>5, <2>5 DEF Connect, Request, Finish, process, ConnStates, TypeOK
    <2> QED
      BY <2>4, <2>6
  <1>6. ASSUME NEW c \in Clients, Accept(c)
        PROVE  Inv'
    <2>1. ServedClients' = ServedClients \cup {c} /\ c \notin ServedClients
      BY <1>6, ConnStep DEF Accept, ServedClients, Served, ConnStates
    <2>2. Cardinality(ServedClients') = Cardinality(ServedClients) + 1
      BY <2>1, ServedFinite, FS_AddElement
    <2>3. Counted'
      BY <1>6, <2>2 DEF Accept, Counted, Running
    <2>4. conn' \in [Clients -> ConnStates]
      BY <1>6, ConnStep DEF Accept, ConnStates
    <2>5. TypeOK'
      BY <1>6, <2>3, <2>4, ServedFinite DEF Accept, ConnStates, TypeOK, Counted
    <2> QED
      BY <2>3, <2>5
  <1>7. ASSUME NEW c \in Clients, HangUp(c) \/ ReplyFails(c) \/ ReadTimesOut(c)
        PROVE  Inv'
    <2>1. PICK from \in {"quiet", "busy"}, to \in {"away", "forgotten"} :
             Ends(c, from, to)
      BY <1>7 DEF HangUp, ReplyFails, ReadTimesOut
    <2>2. ServedClients' = ServedClients \ {c} /\ c \in ServedClients
      BY <2>1, ConnStep DEF Ends, ServedClients, Served, ConnStates
    <2>3. Cardinality(ServedClients') = Cardinality(ServedClients) - 1
      BY <2>2, ServedFinite, FS_RemoveElement
    <2>4. Counted'
      BY <2>1, <2>3 DEF Ends, Counted, Running
    <2>5. conn' \in [Clients -> ConnStates]
      BY <2>1, ConnStep DEF Ends, ConnStates
    <2>6. TypeOK'
      BY <2>1, <2>4, <2>5, ServedFinite DEF Ends, ConnStates, TypeOK, Counted
    <2> QED
      BY <2>4, <2>6
  <1>8. ASSUME NEW c \in Clients, Close(c)
        PROVE  Inv'
    <2>1. ServedClients' = ServedClients
      BY <1>8, ConnStep DEF Close, ServedClients, Served, ConnStates
    <2>2. Counted'
      BY <1>8, <2>1 DEF Close, process, Counted, Running
    <2>3. conn' \in [Clients -> ConnStates]
      BY <1>8, ConnStep DEF Close, ConnStates
    <2>4. TypeOK'
      BY <1>8, <2>3 DEF Close, process, ConnStates, TypeOK
    <2> QED
      BY <2>2, <2>4
  <1> QED
    BY <1>1, <1>2, <1>3, <1>4, <1>5, <1>6, <1>7, <1>8 DEF Next

LEMMA Invariant == Spec => []Inv
  BY InvInit, InvStep, PTL DEF Spec

(* The WaitGroup's counter never goes below zero, which would panic, nor   *)
(* above the number of clients.                                            *)
THEOREM LaunchdTypeCorrect == Spec => []TypeOK
  BY Invariant, PTL DEF Inv

(* However the agent is told to stop, and whatever connects meanwhile, it  *)
(* ends in order only when it serves nobody (wg.Wait, main.go:743).        *)
THEOREM NobodyCutOff == Spec => NoClientCutOff
  <1>1. ASSUME Inv, [Next]_vars
        PROVE  [job # "down" /\ job' = "down" => \A c \in Clients : ~Served(c)]_vars
    <2> SUFFICES ASSUME Next, job # "down", job' = "down"
                 PROVE  \A c \in Clients : ~Served(c)
      BY <1>1
    <2>1. Exit
      BY DEF Next, Tick, Kill, Launch, TimerFires, Signal, AcceptFails, LeaveLoop,
         Connect, Accept, Request, Finish, HangUp, ReplyFails, ReadTimesOut, Ends,
         Close, process
    <2>2. ServedClients = {}
      BY <1>1, <2>1, ServedFinite, FS_EmptySet DEF Exit, Inv, Counted
    <2> QED
      BY <2>2 DEF ServedClients
  <1> QED
    BY <1>1, Invariant, PTL DEF Spec, NoClientCutOff
=============================================================================
