---------------------------- MODULE SocketFileProofs ----------------------------
(***************************************************************************)
(* Proofs about SocketFile, for any number of agents and clients: who is   *)
(* reached through the path, and what -status may conclude.                *)
(***************************************************************************)
EXTENDS SocketFile, TLAPS

(***************************************************************************)
(* Types                                                                   *)
(***************************************************************************)
States == {"gone", "failed", "starting", "removed", "serving", "draining"}

(* Where connection c may be.                                              *)
Placed(c) ==
    /\ conn[c] = "away" => at[c] = None
    /\ conn[c] = "queued" => \/ at[c] \in listening
                             \/ c = Probe /\ at[c] = Launchd
    /\ conn[c] = "served" => at[c] \in Alive

(* The part of TypeOK that concerns connections.                           *)
ClientsOK ==
    /\ conn \in [Conns -> {"away", "queued", "served"}]
    /\ at \in [Conns -> Agents \cup {Launchd, None}]
    /\ \A c \in Conns : Placed(c)

(* The part that concerns processes and the file.                          *)
ProcsOK ==
    /\ path \in listening \cup {Launchd, Stale, None}
    /\ proc \in [Agents -> States]
    /\ listening \cup handler
         \subseteq {a \in Agents : proc[a] \in {"serving", "draining"}}
    /\ status \in {"idle", "connected", "answered", "clean"}
    /\ alone \subseteq Agents /\ refused \subseteq Agents
    /\ blind \in BOOLEAN

LEMMA TypeParts ==
    /\ TypeOK <=> ProcsOK /\ ClientsOK
    /\ TypeOK' <=> ProcsOK' /\ ClientsOK'
  <1>1. ASSUME conn \in [Conns -> {"away", "queued", "served"}], NEW c \in Conns
        PROVE  Placed(c) <=>
                 CASE conn[c] = "away"   -> at[c] = None
                   [] conn[c] = "queued" -> \/ at[c] \in listening
                                            \/ c = Probe /\ at[c] = Launchd
                   [] conn[c] = "served" -> at[c] \in Alive
    <2>1. conn[c] \in {"away", "queued", "served"}
      BY <1>1
    <2> QED
      BY <2>1 DEF Placed
  <1>2. ASSUME conn' \in [Conns -> {"away", "queued", "served"}], NEW c \in Conns
        PROVE  Placed(c)' <=>
                 CASE conn'[c] = "away"   -> at'[c] = None
                   [] conn'[c] = "queued" -> \/ at'[c] \in listening'
                                             \/ c = Probe /\ at'[c] = Launchd
                   [] conn'[c] = "served" -> at'[c] \in Alive'
    <2>1. conn'[c] \in {"away", "queued", "served"}
      BY <1>2
    <2> QED
      BY <2>1 DEF Placed
  <1> QED
    BY <1>1, <1>2 DEF TypeOK, ProcsOK, ClientsOK, States

(* Some connections are dropped while the listeners and processes the      *)
(* others are at stay.                                                     *)
LEMMA DroppedOK ==
    ASSUME ClientsOK, NEW cs, Dropped(cs),
           \A c \in Conns \ cs :
               /\ conn[c] = "queued" /\ at[c] \in listening => at[c] \in listening'
               /\ conn[c] = "served" /\ at[c] \in Alive => at[c] \in Alive'
    PROVE  ClientsOK'
  <1>1. ASSUME NEW c \in Conns
        PROVE  /\ conn'[c] \in {"away", "queued", "served"}
               /\ at'[c] \in Agents \cup {Launchd, None}
               /\ Placed(c)'
    <2>1. CASE c \in cs
      <3>1. conn'[c] = "away" /\ at'[c] = None
        BY <2>1 DEF Dropped
      <3> QED
        BY <3>1 DEF Placed
    <2>2. CASE c \notin cs
      <3>1. conn'[c] = conn[c] /\ at'[c] = at[c]
        BY <2>2 DEF Dropped
      <3> QED
        BY <2>2, <3>1 DEF ClientsOK, Placed
    <2> QED
      BY <2>1, <2>2
  <1> QED
    BY <1>1 DEF ClientsOK, Dropped

(* A process ends, in whatever way.                                        *)
LEMMA EndsOK ==
    ASSUME TypeOK, NEW a \in Agents, NEW to \in {"gone", "failed"},
           NEW file \in {path, None}, Ends(a, to, file),
           status' = status, alone' = alone, refused' \subseteq Agents
    PROVE  TypeOK'
  <1>1. ProcsOK'
    BY TypeParts DEF ProcsOK, Ends, States
  <1>2. ASSUME NEW c \in Conns \ Of(a)
        PROVE  /\ conn[c] = "queued" /\ at[c] \in listening => at[c] \in listening'
               /\ conn[c] = "served" /\ at[c] \in Alive => at[c] \in Alive'
    BY TypeParts DEF Of, Ends, Alive, ProcsOK
  <1>3. ClientsOK'
    BY <1>2, DroppedOK, TypeParts DEF Ends
  <1> QED
    BY <1>1, <1>3, TypeParts

(* A process goes on, its listener still open or never opened.             *)
LEMMA GoesOnOK ==
    ASSUME TypeOK, NEW a \in Agents, NEW from \in States,
           NEW to \in States \ {"gone", "failed"},
           Go(a, from, to), a \in listening \cup handler => to = "draining",
           UNCHANGED <<listening, handler, clients>>
    PROVE  /\ proc' \in [Agents -> States]
           /\ listening' \cup handler'
                \subseteq {b \in Agents : proc'[b] \in {"serving", "draining"}}
           /\ ClientsOK'
  <1>1. proc' = [proc EXCEPT ![a] = to]
    BY DEF Go
  <1>2. proc' \in [Agents -> States]
    BY <1>1, TypeParts DEF ProcsOK
  <1>3. Alive \subseteq Alive'
    BY <1>1, TypeParts DEF Alive, ProcsOK
  <1>4. ClientsOK'
    BY <1>3, TypeParts DEF ClientsOK, Placed, clients
  <1> QED
    BY <1>1, <1>2, <1>4, TypeParts DEF ProcsOK

LEMMA TypeInit == Init => TypeOK
  BY DEF Init, TypeOK

LEMMA TypeStep == TypeOK /\ [Next]_vars => TypeOK'
  <1> SUFFICES ASSUME TypeOK, [Next]_vars PROVE TypeOK'
    OBVIOUS
  <1> USE DEF States
  <1>1. CASE Load \/ Unload
    BY <1>1, TypeParts DEF Load, Unload, InStatus, ProcsOK, ClientsOK, Placed,
       process, clients, history, Alive
  <1>2. CASE Status
    <2>1. CASE Dial
      <3>1. ProcsOK' /\ Alive' = Alive /\ listening' = listening
        BY <2>1, TypeParts DEF Dial, ProcsOK, process, Alive
      <3>2. /\ conn' = [conn EXCEPT ![Probe] = "queued"]
            /\ at' = [at EXCEPT ![Probe] = path]
            /\ path \in listening \cup {Launchd}
        BY <2>1 DEF Dial
      <3>3. listening \subseteq Agents
        BY TypeParts DEF ProcsOK
      <3>4. ASSUME NEW c \in Conns
            PROVE  Placed(c)'
        <4>1. CASE c = Probe
          <5>1. conn'[c] = "queued" /\ at'[c] = path
            BY <3>2, <4>1, TypeParts DEF ClientsOK
          <5>2. at'[c] \in listening' \/ at'[c] = Launchd
            BY <3>1, <3>2, <5>1
          <5> QED
            BY <4>1, <5>1, <5>2 DEF Placed
        <4>2. CASE c # Probe
          <5>1. conn'[c] = conn[c] /\ at'[c] = at[c]
            BY <3>2, <4>2, TypeParts DEF ClientsOK
          <5> QED
            BY <3>1, <5>1, TypeParts DEF ClientsOK, Placed
        <4> QED
          BY <4>1, <4>2
      <3>5. /\ conn' \in [Conns -> {"away", "queued", "served"}]
            /\ at' \in [Conns -> Agents \cup {Launchd, None}]
        BY <3>2, <3>3, TypeParts DEF ClientsOK
      <3> QED
        BY <3>1, <3>4, <3>5, TypeParts DEF ClientsOK
    <2>2. CASE Answer
      BY <2>2, TypeParts DEF Answer, ProcsOK, ClientsOK, Placed, process,
         clients, history, Alive
    <2>3. CASE StatusFails \/ Scan \/ ScanFails
      <3>1. PICK result \in {"idle", "clean"} : Concludes(result)
        BY <2>3 DEF StatusFails, Scan, ScanFails
      <3>2. blind' \in BOOLEAN
        BY <2>3, TypeParts DEF StatusFails, Scan, ScanFails, ProcsOK
      <3>3. ProcsOK' /\ Alive' = Alive /\ listening' = listening
        BY <3>1, <3>2, TypeParts DEF Concludes, ProcsOK, process, Alive
      <3>4. ClientsOK'
        BY <3>1, <3>3, DroppedOK, TypeParts DEF Concludes
      <3> QED
        BY <3>3, <3>4, TypeParts
    <2> QED
      BY <1>2, <2>1, <2>2, <2>3 DEF Status
  <1>3. ASSUME NEW a \in Agents, Run(a)
        PROVE  TypeOK'
    <2>1. CASE Start(a)
      <3>1. proc' = [proc EXCEPT ![a] = "starting"] /\ proc[a] \in {"gone", "failed"}
        BY <2>1 DEF Start
      <3>2. Alive \subseteq Alive'
        BY <3>1, TypeParts DEF Alive, ProcsOK
      <3>3. ClientsOK'
        BY <2>1, <3>2, TypeParts DEF Start, ClientsOK, Placed, clients
      <3>4. ProcsOK'
        BY <2>1, <3>1, TypeParts DEF Start, ProcsOK
      <3> QED
        BY <3>3, <3>4, TypeParts
    <2>2. CASE GiveUp(a) \/ Kill(a) \/ Exit(a) \/ ListenFails(a)
      <3>1. /\ \E to \in {"gone", "failed"}, file \in {path, None} : Ends(a, to, file)
            /\ status' = status /\ alone' = alone
        BY <2>2 DEF GiveUp, Kill, Exit, ListenFails, Unlinked
      <3>2. refused' \subseteq Agents
        BY <2>2, TypeParts DEF GiveUp, Kill, Exit, ListenFails, ProcsOK
      <3> QED
        BY <3>1, <3>2, EndsOK
    <2>3. CASE Remove(a)
      <3>1. a \notin listening \cup handler
        BY <2>3, TypeParts DEF Remove, Go, ProcsOK
      <3>2. ClientsOK' /\ proc' \in [Agents -> States]
            /\ listening' \cup handler'
                 \subseteq {b \in Agents : proc'[b] \in {"serving", "draining"}}
        BY <2>3, <3>1, GoesOnOK DEF Remove
      <3>3. ProcsOK'
        BY <2>3, <3>2, TypeParts DEF Remove, Unlinked, ProcsOK
      <3> QED
        BY <3>2, <3>3, TypeParts
    <2>4. CASE Listen(a)
      <3>1. proc' = [proc EXCEPT ![a] = "serving"] /\ proc[a] = "removed"
        BY <2>4 DEF Listen, Go
      <3>2. Alive \subseteq Alive'
        BY <3>1, TypeParts DEF Alive, ProcsOK
      <3>3. ClientsOK'
        BY <2>4, <3>2, TypeParts DEF Listen, ClientsOK, Placed, clients
      <3>4. ProcsOK'
        BY <2>4, <3>1, TypeParts DEF Listen, ProcsOK, history
      <3> QED
        BY <3>3, <3>4, TypeParts
    <2>6. CASE AcceptFails(a) \/ LeaveLoop(a)
      <3>1. Go(a, "serving", "draining")
            /\ UNCHANGED <<path, listening, handler, clients, status, history>>
        BY <2>6 DEF AcceptFails, LeaveLoop
      <3>2. ClientsOK' /\ proc' \in [Agents -> States]
            /\ listening' \cup handler'
                 \subseteq {b \in Agents : proc'[b] \in {"serving", "draining"}}
        BY <3>1, GoesOnOK
      <3>3. ProcsOK'
        BY <3>1, <3>2, TypeParts DEF ProcsOK, history
      <3> QED
        BY <3>2, <3>3, TypeParts
    <2>7. CASE Signal(a)
      <3>1. /\ listening' = listening \ {a}
            /\ path' \in {None, Stale, path} /\ path' # a
            /\ Dropped({c \in Of(a) : conn[c] = "queued"})
        <4>1. a # None /\ a # Stale
          BY SocketAssumption
        <4> QED
          BY <2>7, <4>1 DEF Signal, Unlinked
      <3>2. path' \in listening' \cup {Launchd, Stale, None}
        BY <3>1, TypeParts DEF ProcsOK
      <3>3. ProcsOK'
        BY <2>7, <3>2, TypeParts DEF Signal, ProcsOK, history
      <3>4. Alive' = Alive
        BY <2>7 DEF Signal, Alive
      <3>5. ClientsOK'
        BY <3>1, <3>4, DroppedOK, TypeParts DEF Of
      <3> QED
        BY <3>3, <3>5, TypeParts
    <2> QED
      BY <1>3, <2>1, <2>2, <2>3, <2>4, <2>6, <2>7 DEF Run
  <1>4. ASSUME NEW c \in Conns, Connect(c) \/ Accept(c) \/ HangUp(c)
        PROVE  TypeOK'
    <2>1. ProcsOK' /\ Alive' = Alive /\ listening' = listening
      BY <1>4, TypeParts DEF Connect, Accept, HangUp, ProcsOK, process,
         history, Alive
    <2>2. CASE Connect(c)
      <3>1. listening \subseteq Agents
        BY TypeParts DEF ProcsOK
      <3>2. /\ conn' = [conn EXCEPT ![c] = "queued"]
            /\ at' = [at EXCEPT ![c] = path] /\ path \in listening
        BY <2>2 DEF Connect
      <3>3. ASSUME NEW d \in Conns
            PROVE  Placed(d)'
        <4>1. CASE c = d
          <5>1. conn'[d] = "queued" /\ at'[d] \in listening'
            BY <2>1, <3>2, <4>1, TypeParts DEF ClientsOK
          <5> QED
            BY <5>1 DEF Placed
        <4>2. CASE c # d
          <5>1. conn'[d] = conn[d] /\ at'[d] = at[d]
            BY <3>2, <4>2, TypeParts DEF ClientsOK
          <5> QED
            BY <2>1, <5>1, TypeParts DEF ClientsOK, Placed
        <4> QED
          BY <4>1, <4>2
      <3> QED
        BY <2>1, <3>1, <3>2, <3>3, TypeParts DEF ClientsOK
    <2>3. CASE Accept(c)
      BY <2>1, <2>3, TypeParts DEF Accept, ClientsOK, Placed, Alive
    <2>4. CASE HangUp(c)
      BY <2>1, <2>4, DroppedOK, TypeParts DEF HangUp
    <2> QED
      BY <1>4, <2>1, <2>2, <2>3, <2>4, TypeParts
  <1>5. CASE UNCHANGED vars
    BY <1>5, TypeParts DEF vars, ProcsOK, ClientsOK, Placed, process, clients,
       history, Alive
  <1> QED
    BY <1>1, <1>2, <1>3, <1>4, <1>5 DEF Next, Conns

(* A socket file that leads to an agent leads to an open listener, and a   *)
(* client at an agent to one that is still there: nothing an agent leaves  *)
(* behind, in whatever way it ends, is taken for more than a stale file.   *)
THEOREM SocketTypeCorrect == Spec => []TypeOK
  BY TypeInit, TypeStep, PTL DEF Spec

(***************************************************************************)
(* Who is alive, and what a step does to it.                               *)
(***************************************************************************)
LEMMA ListenersAlive ==
    ASSUME TypeOK
    PROVE  /\ listening \subseteq Alive /\ handler \subseteq Alive
           /\ path \in listening \cup {Launchd, Stale, None}
           /\ alone \subseteq Agents /\ Alive \subseteq Agents
  BY TypeParts DEF ProcsOK, Alive

LEMMA EndsAlive ==
    ASSUME TypeOK, NEW a \in Agents, NEW to \in {"gone", "failed"},
           NEW file \in {path, None}, Ends(a, to, file)
    PROVE  /\ Alive' = Alive \ {a}
           /\ \A b \in Agents \ {a} : proc'[b] = proc[b]
           /\ proc'[a] = to
  BY TypeParts DEF Ends, Alive, ProcsOK

LEMMA GoesAlive ==
    ASSUME TypeOK, NEW a \in Agents, NEW from, NEW to, Go(a, from, to),
           from \notin {"gone", "failed"}, to \notin {"gone", "failed"}
    PROVE  /\ Alive' = Alive /\ a \in Alive
           /\ \A b \in Agents \ {a} : proc'[b] = proc[b]
           /\ proc'[a] = to
  BY TypeParts DEF Go, Alive, ProcsOK

(***************************************************************************)
(* An agent alone.                                                         *)
(***************************************************************************)
AloneInv ==
    \A a \in alone :
        /\ Alive \subseteq {a}
        /\ proc[a] = "failed" => a \in refused
        /\ proc[a] = "removed" => path = None \/ a \in refused
        /\ a \in listening => path = a

LEMMA AloneStep == TypeOK /\ AloneInv /\ [Next]_vars => AloneInv'
  <1> SUFFICES ASSUME TypeOK, AloneInv, [Next]_vars, NEW a \in alone'
               PROVE  /\ Alive' \subseteq {a}
                      /\ proc'[a] = "failed" => a \in refused'
                      /\ proc'[a] = "removed" => path' = None \/ a \in refused'
                      /\ a \in listening' => path' = a
    BY DEF AloneInv
  <1>0. /\ listening \subseteq Alive /\ handler \subseteq Alive
        /\ alone \subseteq Agents /\ Alive \subseteq Agents
    BY ListenersAlive
  <1>1. CASE Load
    BY <1>1 DEF Load
  <1>2. CASE Unload
    <2>1. a \in alone /\ Alive' = Alive /\ path = Launchd
          /\ proc' = proc /\ listening' = listening /\ refused' = refused
      BY <1>2 DEF Unload, process, Alive
    <2> QED
      BY <1>0, <2>1, SocketAssumption DEF AloneInv
  <1>3. CASE \/ Status \/ UNCHANGED vars
             \/ \E c \in Conns : Accept(c)
             \/ \E c \in Clients : Connect(c) \/ HangUp(c)
    <2>1. UNCHANGED <<path, process, alone, refused>>
      BY <1>3 DEF Status, Dial, Answer, StatusFails, Scan, ScanFails, Concludes,
         Connect, Accept, HangUp, vars, history
    <2> QED
      BY <2>1 DEF AloneInv, Alive, process
  <1>4. ASSUME NEW b \in Agents, Run(b)
        PROVE  /\ Alive' \subseteq {a}
               /\ proc'[a] = "failed" => a \in refused'
               /\ proc'[a] = "removed" => path' = None \/ a \in refused'
               /\ a \in listening' => path' = a
    <2>1. CASE Start(b)
      <3>1. a = b /\ Alive = {}
        BY <2>1 DEF Start
      <3>2. Alive' \subseteq {b} /\ proc'[b] = "starting"
        BY <2>1, <3>1, TypeParts DEF Start, Alive, ProcsOK
      <3>3. listening' = {}
        BY <1>0, <2>1, <3>1 DEF Start
      <3> QED
        BY <3>1, <3>2, <3>3
    <2>2. b \in Alive /\ a \in alone => a = b
      BY DEF AloneInv
    <2>3. CASE Kill(b) \/ GiveUp(b) \/ Exit(b)
      <3>1. /\ \E file \in {path, None} : Ends(b, "gone", file)
            /\ alone' = alone /\ refused' = refused
        BY <2>3 DEF Kill, GiveUp, Exit, Unlinked
      <3>2. b \in Alive
        BY <2>3 DEF Kill, GiveUp, Exit, Alive
      <3>3. Alive' = Alive \ {b} /\ proc'[b] = "gone" /\ b \notin listening'
        BY <3>1, EndsAlive DEF Ends
      <3> QED
        BY <2>2, <3>1, <3>2, <3>3 DEF AloneInv
    <2>4. CASE ListenFails(b)
      <3>1. /\ b \in Alive /\ alone' = alone /\ proc[b] = "removed"
            /\ refused' = IF path = None THEN refused \cup {b} ELSE refused
            /\ Ends(b, "failed", path)
        BY <2>4 DEF ListenFails, Alive
      <3>2. Alive' = Alive \ {b} /\ proc'[b] = "failed" /\ b \notin listening'
        BY <3>1, EndsAlive DEF Ends
      <3>3. a = b
        BY <2>2, <3>1
      <3>4. a \in refused'
        BY <3>1, <3>3 DEF AloneInv
      <3> QED
        BY <3>1, <3>2, <3>3, <3>4 DEF AloneInv
    <2>5. CASE Remove(b)
      <3>1. /\ Go(b, "starting", "removed") /\ alone' = alone
            /\ path' = None \/ b \in refused'
            /\ listening' = listening
        BY <2>5 DEF Remove, Unlinked
      <3>2. Alive' = Alive /\ b \in Alive /\ proc'[b] = "removed"
        BY <3>1, GoesAlive
      <3>3. a = b
        BY <2>2, <3>1, <3>2
      <3>4. proc[b] = "starting"
        BY <3>1 DEF Go
      <3>5. b \notin listening
        BY <3>4, TypeParts DEF ProcsOK
      <3> QED
        BY <3>1, <3>2, <3>3, <3>5 DEF AloneInv
    <2>6. CASE Listen(b)
      <3>1. Go(b, "removed", "serving") /\ alone' = alone /\ path' = b
        BY <2>6 DEF Listen, history
      <3>2. a = b /\ Alive' = Alive /\ proc'[b] = "serving"
        BY <2>2, <3>1, GoesAlive
      <3> QED
        BY <3>1, <3>2 DEF AloneInv
    <2>7. CASE AcceptFails(b) \/ LeaveLoop(b)
      <3>1. Go(b, "serving", "draining") /\ alone' = alone
            /\ path' = path /\ listening' = listening /\ refused' = refused
        BY <2>7 DEF AcceptFails, LeaveLoop, history
      <3>2. a = b /\ Alive' = Alive /\ proc'[b] = "draining"
        BY <2>2, <3>1, GoesAlive
      <3> QED
        BY <3>1, <3>2 DEF AloneInv
    <2>8. CASE Signal(b)
      <3>1. b \in Alive /\ alone' = alone /\ proc' = proc /\ Alive' = Alive
            /\ refused' = refused /\ listening' = listening \ {b}
        BY <1>0, <2>8 DEF Signal, history, Alive
      <3>2. a = b /\ proc[b] # "removed"
        BY <2>2, <2>8, <3>1, TypeParts DEF Signal, ProcsOK
      <3> QED
        BY <3>1, <3>2 DEF AloneInv
    <2> QED
      BY <1>4, <2>1, <2>3, <2>4, <2>5, <2>6, <2>7, <2>8 DEF Run
  <1> QED
    BY <1>1, <1>2, <1>3, <1>4 DEF Next

(* An agent no other has run beside fails to listen only if the path       *)
(* could not be removed or bound, and clients reach it as long as it       *)
(* listens, whatever was left at the path before (os.Remove before         *)
(* net.Listen, main.go:672).                                               *)
THEOREM AloneReachable == Spec => []AloneIsReachable
  <1>1. Init => AloneInv
    BY DEF Init, AloneInv
  <1>2. AloneInv => AloneIsReachable
    BY DEF AloneInv, AloneIsReachable
  <1> QED
    BY <1>1, <1>2, TypeInit, TypeStep, AloneStep, PTL DEF Spec

(***************************************************************************)
(* What -status concludes.                                                 *)
(***************************************************************************)
StatusInv ==
    ~blind => /\ InStatus => Alive # {} \/ path = Launchd
              /\ status = "clean" => Alive = {} /\ path = Launchd

LEMMA StatusStep == TypeOK /\ StatusInv /\ [Next]_vars => StatusInv'
  <1> SUFFICES ASSUME TypeOK, StatusInv, [Next]_vars
               PROVE  StatusInv'
    OBVIOUS
  <1>0. /\ listening \subseteq Alive /\ handler \subseteq Alive
        /\ Alive \subseteq Agents
    BY ListenersAlive
  <1>1. CASE Load \/ Unload
    BY <1>1 DEF Load, Unload, StatusInv, InStatus, process, Alive
  <1>2. CASE Status
    <2>1. UNCHANGED <<path, process>> /\ Alive' = Alive
      BY <1>2 DEF Status, Dial, Answer, StatusFails, Scan, ScanFails, Concludes,
         process, Alive
    <2>2. CASE Dial
      BY <1>0, <2>1, <2>2 DEF Dial, StatusInv, InStatus
    <2>3. CASE Answer
      BY <2>1, <2>3 DEF Answer, StatusInv, InStatus, history
    <2>4. CASE StatusFails \/ Scan \/ ScanFails
      BY <2>1, <2>4 DEF StatusFails, Scan, ScanFails, Concludes, StatusInv, InStatus
    <2> QED
      BY <1>2, <2>2, <2>3, <2>4 DEF Status
  <1>3. CASE \/ UNCHANGED vars
             \/ \E c \in Conns : Accept(c)
             \/ \E c \in Clients : Connect(c) \/ HangUp(c)
    <2>1. UNCHANGED <<path, process, status, blind>>
      BY <1>3 DEF Connect, Accept, HangUp, vars, history
    <2> QED
      BY <2>1 DEF StatusInv, InStatus, Alive, process
  <1>4. ASSUME NEW b \in Agents, Run(b)
        PROVE  StatusInv'
    <2>1. CASE Start(b)
      <3>1. b \in Alive'
        BY <2>1, TypeParts DEF Start, Alive, ProcsOK
      <3>2. status' # "clean"
        BY <2>1, TypeParts DEF Start
      <3> QED
        BY <3>1, <3>2 DEF StatusInv
    <2>2. CASE Kill(b) \/ GiveUp(b) \/ Exit(b) \/ ListenFails(b)
      <3>1. b \in Alive
        BY <2>2 DEF Kill, GiveUp, Exit, ListenFails, Alive
      <3>2. status' = status /\ blind' = (blind \/ InStatus)
        BY <2>2 DEF Kill, GiveUp, Exit, ListenFails, Ends
      <3> QED
        BY <3>1, <3>2 DEF StatusInv, InStatus
    <2>3. CASE Remove(b) \/ Listen(b) \/ AcceptFails(b) \/ LeaveLoop(b) \/ Signal(b)
      <3>1. b \in Alive /\ Alive' = Alive
        <4>1. CASE Signal(b)
          BY <1>0, <4>1 DEF Signal, Alive
        <4>2. CASE Remove(b)
          BY <4>2, GoesAlive DEF Remove
        <4>3. CASE Listen(b)
          BY <4>3, GoesAlive DEF Listen
        <4>4. CASE AcceptFails(b) \/ LeaveLoop(b)
          BY <4>4, GoesAlive DEF AcceptFails, LeaveLoop
        <4> QED
          BY <2>3, <4>1, <4>2, <4>3, <4>4
      <3>2. status' = status /\ blind' = blind
        BY <2>3 DEF Remove, Listen, AcceptFails, LeaveLoop, Signal, history
      <3> QED
        BY <3>1, <3>2 DEF StatusInv, InStatus
    <2> QED
      BY <1>4, <2>1, <2>2, <2>3 DEF Run
  <1> QED
    BY <1>1, <1>2, <1>3, <1>4 DEF Next

(* If -status was answered and found no -l process, and meanwhile none     *)
(* ended, the job stayed loaded and ps worked, the path is launchd's until *)
(* such a process starts (findStaleLModeProcesses, main.go:552).           *)
THEOREM CleanStatusStable == Spec => []CleanStatusIsStable
  <1>1. Init => StatusInv
    BY DEF Init, StatusInv, InStatus
  <1>2. StatusInv => CleanStatusIsStable
    BY DEF StatusInv, CleanStatusIsStable
  <1> QED
    BY <1>1, <1>2, TypeInit, TypeStep, StatusStep, PTL DEF Spec
=============================================================================
