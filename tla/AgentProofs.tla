------------------------------ MODULE AgentProofs ------------------------------
(***************************************************************************)
(* Proofs about Agent, for every set of connections, keys and labels and   *)
(* every limit and bound.                                                  *)
(***************************************************************************)
EXTENDS Agent, TLAPS, FiniteSetTheorems

(***************************************************************************)
(* Types.  TypeOK is not inductive: an audit record is well typed only     *)
(* because a request that reaches "audit" has a key and a decision.        *)
(***************************************************************************)
Undecided == {"idle", "lookup", "keylock", "check", "touchlock", "sign"}

ServingOK ==
    \A c \in Conns :
        /\ pc[c] # "idle" => key[c] \in Keys /\ req[c] \in 1 .. reqs
        /\ pc[c] \in {"audit", "return"} => result[c] \in Decisions
        /\ pc[c] \in Undecided => result[c] = "none"
        /\ pc[c] = "reply" => result[c] # "none"

TypeInv == TypeOK /\ ServingOK

(* A label's bucket stays a set of grants through allow().                 *)
LEMMA BucketType ==
    ASSUME NEW b \in SUBSET Grants, NEW r \in ReqNums, NEW t \in Time
    PROVE  AfterAllow(b, r, t) \in SUBSET Grants
  BY DEF AfterAllow, Valid, Grants

(* The stall detector keeps a count and a time.                            *)
LEMMA StallType ==
    ASSUME NEW s \in [count : Nat, start : Nat], NEW o \in Outcomes,
           NEW t \in Nat
    PROVE  NoteOutcome(s, o, t) \in [count : Nat, start : Nat]
  BY DEF NoteOutcome, StartsRun, Outcomes

LEMMA TypeInit == Init => TypeInv
  BY KeyAssumption, BoundAssumption, StallAssumption
  DEF Init, TypeInv, TypeOK, ServingOK, StallInit, PCs, Results, ReqNums, Time

LEMMA TypeStep == TypeInv /\ [Next]_vars => TypeInv'
  <1> SUFFICES ASSUME TypeInv, [Next]_vars PROVE TypeInv'
    OBVIOUS
  <1> USE KeyAssumption, BoundAssumption
      DEF TypeInv, TypeOK, ServingOK, Undecided, PCs, Results, Decisions,
          ReqNums, Time
  <1>1. CASE Tick
    BY <1>1 DEF Tick, disk, conn, locks, limits
  <1>2. ASSUME NEW k \in Churning, Generate(k) PROVE TypeInv'
    BY <1>2 DEF Generate, conn, locks, limits
  <1>3. ASSUME NEW k \in Churning, Delete(k) PROVE TypeInv'
    BY <1>3 DEF Delete, conn, locks, limits
  <1>4. ASSUME NEW c \in Conns, NEW k \in Keys, SendRequest(c, k)
        PROVE  TypeInv'
    BY <1>4 DEF SendRequest, Go, disk, locks, limits
  <1>5. ASSUME NEW c \in Conns, Lookup(c) PROVE TypeInv'
    BY <1>5 DEF Lookup, Go, disk, locks, limits
  <1>6. ASSUME NEW c \in Conns, NoMatch(c) PROVE TypeInv'
    BY <1>6 DEF NoMatch, Go, disk, locks, limits
  <1>7. ASSUME NEW c \in Conns, AcquireKeyMu(c) PROVE TypeInv'
    BY <1>7 DEF AcquireKeyMu, Label, Go, disk, limits
  <1>8. ASSUME NEW c \in Conns, RejectCaller(c) PROVE TypeInv'
    <2>1. PICK why \in {"caller", "keyrule"} : Refuse(c, "check", why)
      BY <1>8 DEF RejectCaller
    <2>2. UNCHANGED limits
      BY <1>8 DEF RejectCaller
    <2> QED
      BY <2>1, <2>2 DEF Refuse, Go, disk, locks, limits
  <1>9. ASSUME NEW c \in Conns, RejectRate(c) PROVE TypeInv'
    <2>1. rates' \in [Labels -> SUBSET Grants]
      BY <1>9, BucketType
      DEF RejectRate, Refuse, Go, TakeToken, Label
    <2> QED
      BY <1>9, <2>1 DEF RejectRate, Refuse, Go, disk, locks
  <1>10. ASSUME NEW c \in Conns, Admit(c) PROVE TypeInv'
    <2>1. rates' \in [Labels -> SUBSET Grants]
      BY <1>10, BucketType
      DEF Admit, AdmitTo, Go, TakeToken, Label
    <2>2. granted' \in [Labels -> SUBSET Grants]
      BY <1>10 DEF Admit, AdmitTo, Go, Label, Grants
    <2> QED
      BY <1>10, <2>1, <2>2 DEF Admit, AdmitTo, Go, disk, locks
  <1>11. ASSUME NEW c \in Conns, AcquireBiometricMu(c) PROVE TypeInv'
    BY <1>11 DEF AcquireBiometricMu, Go, disk, limits
  <1>12. ASSUME NEW c \in Conns, NEW o \in Outcomes, SignReturns(c, o)
         PROVE  TypeInv'
    <2>1. stall' \in [count : Nat, start : Nat]
      BY <1>12, StallType DEF SignReturns
    <2> QED
      BY <1>12, <2>1 DEF SignReturns, Go, disk, locks
  <1>13. ASSUME NEW c \in Conns, Audit(c) PROVE TypeInv'
    <2>1. audit' \in Seq(Records)
      BY <1>13 DEF Audit, Go, Records
    <2> QED
      BY <1>13, <2>1 DEF Audit, Go, disk, locks, limits
  <1>14. ASSUME NEW c \in Conns, Return(c) PROVE TypeInv'
    BY <1>14 DEF Return, Label, Go, disk, limits
  <1>15. ASSUME NEW c \in Conns, Reply(c) PROVE TypeInv'
    BY <1>15 DEF Reply, Go, disk, locks, limits
  <1>16. CASE Finished \/ UNCHANGED vars
    BY <1>16 DEF Finished, vars, disk, conn, locks, limits
  <1> QED
    BY <1>1, <1>2, <1>3, <1>4, <1>5, <1>6, <1>7, <1>8, <1>9, <1>10, <1>11,
       <1>12, <1>13, <1>14, <1>15, <1>16 DEF Next, Sign

(* Type correctness of the signing path (agent.go signFor).                *)
THEOREM TypeCorrect == Spec => []TypeOK
  <1>1. TypeInv => TypeOK
    BY DEF TypeInv
  <1> QED
    BY TypeInit, TypeStep, <1>1, PTL DEF Spec

(***************************************************************************)
(* Locks.  The two mutexes are held exactly by the connections whose       *)
(* program counter says so.                                                *)
(***************************************************************************)
HoldsKeyMu(c) == pc[c] \in {"check", "touchlock", "sign", "audit", "return"}

HoldsBiometricMu(c) ==
    /\ key[c] \in TouchKeys
    /\ \/ pc[c] = "sign"
       \/ pc[c] \in {"audit", "return"} /\ result[c] \in {"signed", "signerr"}

KeyMuInv ==
    \A c \in Conns, l \in Labels :
        keyMu[l] = c <=> HoldsKeyMu(c) /\ LabelOf[key[c]] = l

BiometricMuInv ==
    \A c \in Conns :
        /\ biometricMu = c <=> HoldsBiometricMu(c)
        /\ pc[c] = "touchlock" => key[c] \in TouchKeys

LockInv == KeyMuInv /\ BiometricMuInv

LEMMA LockInit == Init => LockInv
  BY KeyAssumption
  DEF Init, LockInv, KeyMuInv, BiometricMuInv, HoldsKeyMu, HoldsBiometricMu

LEMMA LockStep == TypeInv /\ LockInv /\ [Next]_vars => LockInv'
  <1> SUFFICES ASSUME TypeInv, LockInv, [Next]_vars PROVE LockInv'
    OBVIOUS
  <1> USE KeyAssumption
      DEF LockInv, KeyMuInv, BiometricMuInv, HoldsKeyMu, HoldsBiometricMu,
          TypeInv, TypeOK, ServingOK, Undecided, Decisions, Results
  <1>1. CASE Tick
    BY <1>1 DEF Tick, conn, locks
  <1>2. ASSUME NEW k \in Churning, Generate(k) PROVE LockInv'
    BY <1>2 DEF Generate, conn, locks
  <1>3. ASSUME NEW k \in Churning, Delete(k) PROVE LockInv'
    BY <1>3 DEF Delete, conn, locks
  <1>4. ASSUME NEW c \in Conns, NEW k \in Keys, SendRequest(c, k)
        PROVE  LockInv'
    BY <1>4 DEF SendRequest, Go, locks
  <1>5. ASSUME NEW c \in Conns, Lookup(c) PROVE LockInv'
    BY <1>5 DEF Lookup, Go, locks
  <1>6. ASSUME NEW c \in Conns, NoMatch(c) PROVE LockInv'
    BY <1>6 DEF NoMatch, Go, locks
  <1>7. ASSUME NEW c \in Conns, AcquireKeyMu(c) PROVE LockInv'
    BY <1>7 DEF AcquireKeyMu, Label, Go
  <1>8. ASSUME NEW c \in Conns, RejectCaller(c) PROVE LockInv'
    <2>1. PICK why \in {"caller", "keyrule"} : Refuse(c, "check", why)
      BY <1>8 DEF RejectCaller
    <2> QED
      BY <2>1 DEF Refuse, Go, locks
  <1>9. ASSUME NEW c \in Conns, RejectRate(c) PROVE LockInv'
    BY <1>9 DEF RejectRate, Refuse, Go, locks
  <1>10. ASSUME NEW c \in Conns, Admit(c) PROVE LockInv'
    <2>1. CASE key[c] \in TouchKeys
      BY <1>10, <2>1 DEF Admit, AdmitTo, Go, locks
    <2>2. CASE key[c] \notin TouchKeys
      BY <1>10, <2>2 DEF Admit, AdmitTo, Go, locks
    <2> QED
      BY <2>1, <2>2
  <1>11. ASSUME NEW c \in Conns, AcquireBiometricMu(c) PROVE LockInv'
    BY <1>11 DEF AcquireBiometricMu, Go
  <1>12. ASSUME NEW c \in Conns, NEW o \in Outcomes, SignReturns(c, o)
         PROVE  LockInv'
    BY <1>12 DEF SignReturns, Go, locks
  <1>13. ASSUME NEW c \in Conns, Audit(c) PROVE LockInv'
    BY <1>13 DEF Audit, Go, locks
  <1>14. ASSUME NEW c \in Conns, Return(c) PROVE LockInv'
    BY <1>14 DEF Return, Label, Go
  <1>15. ASSUME NEW c \in Conns, Reply(c) PROVE LockInv'
    BY <1>15 DEF Reply, Go, locks
  <1>16. CASE Finished \/ UNCHANGED vars
    BY <1>16 DEF Finished, vars, conn, locks
  <1> QED
    BY <1>1, <1>2, <1>3, <1>4, <1>5, <1>6, <1>7, <1>8, <1>9, <1>10, <1>11,
       <1>12, <1>13, <1>14, <1>15, <1>16 DEF Next, Sign

(* Two Touch ID prompts are never up together (agent.go:29, biometricMu).  *)
THEOREM PromptsExclusive == Spec => []OnePrompt
  <1>1. LockInv => OnePrompt
    BY KeyAssumption
    DEF LockInv, BiometricMuInv, HoldsBiometricMu, OnePrompt, Prompting
  <1> QED
    BY TypeInit, TypeStep, LockInit, LockStep, <1>1, PTL DEF Spec

(***************************************************************************)
(* Audit records.  A request is told from every other by its number, its   *)
(* record is written in one place, and that place is passed exactly once   *)
(* by a request that matched a key.                                        *)
(***************************************************************************)
Unrecorded(c) ==
    \/ pc[c] \in {"lookup", "keylock", "check", "touchlock", "sign", "audit"}
    \/ pc[c] = "reply" /\ result[c] = "nokey"

Recorded(c) == pc[c] \in {"return", "reply"} /\ result[c] # "nokey"

RecordedOnce(c) ==
    /\ Unrecorded(c) => \A i \in DOMAIN audit : audit[i].req # req[c]
    /\ Recorded(c) =>
          \E i \in DOMAIN audit :
              /\ audit[i].req = req[c]
              /\ audit[i].result = result[c]
              /\ audit[i].key = key[c]
              /\ \A j \in DOMAIN audit : audit[j].req = req[c] => j = i

AuditInv ==
    /\ \A c, d \in Conns : pc[c] # "idle" /\ pc[d] # "idle" /\ req[c] = req[d]
                             => c = d
    /\ \A i \in DOMAIN audit : audit[i].req \in 1 .. reqs
    /\ \A c \in Conns : RecordedOnce(c)

(* A connection a step leaves alone, with the log as it was.               *)
LEMMA RecordKept ==
    ASSUME NEW d \in Conns, RecordedOnce(d), UNCHANGED audit,
           UNCHANGED <<pc[d], req[d], key[d], result[d]>>
    PROVE  RecordedOnce(d)'
  BY DEF RecordedOnce, Recorded, Unrecorded

(* A step within signFor, of a request that is not yet recorded or whose   *)
(* record is already written: the other connections are not disturbed.     *)
LEMMA RequestMoves ==
    ASSUME AuditInv, NEW c \in Conns, pc[c] # "idle",
           UNCHANGED <<audit, reqs, req, key>>,
           \A d \in Conns \ {c} : UNCHANGED <<pc[d], result[d]>>,
           \/ Unrecorded(c) /\ Unrecorded(c)'
           \/ Recorded(c) /\ Recorded(c)' /\ UNCHANGED result[c]
    PROVE  AuditInv'
  <1>1. /\ \A a, b \in Conns :
               pc[a] # "idle" /\ pc[b] # "idle" /\ req[a] = req[b] => a = b
        /\ \A i \in DOMAIN audit : audit[i].req \in 1 .. reqs
        /\ \A d \in Conns : RecordedOnce(d)
    BY DEF AuditInv
  <1>2. \A a, b \in Conns :
            pc'[a] # "idle" /\ pc'[b] # "idle" /\ req'[a] = req'[b] => a = b
    BY <1>1
  <1>3. RecordedOnce(c)'
    <2>1. ~(Recorded(c)' /\ Unrecorded(c)')
      BY DEF Recorded, Unrecorded
    <2>2. RecordedOnce(c)
      BY <1>1
    <2> QED
      BY <2>1, <2>2 DEF RecordedOnce
  <1>4. ASSUME NEW d \in Conns \ {c} PROVE RecordedOnce(d)'
    BY <1>1, <1>4, RecordKept
  <1> QED
    BY <1>1, <1>2, <1>3, <1>4 DEF AuditInv

LEMMA AuditInit == Init => AuditInv
  BY DEF Init, AuditInv, RecordedOnce, Unrecorded, Recorded

LEMMA AuditStep == TypeInv /\ AuditInv /\ [Next]_vars => AuditInv'
  <1> SUFFICES ASSUME TypeInv, AuditInv, [Next]_vars PROVE AuditInv'
    OBVIOUS
  <1>types. /\ pc \in [Conns -> PCs] /\ result \in [Conns -> Results]
            /\ req \in [Conns -> ReqNums] /\ key \in [Conns -> Keys \cup {None}]
            /\ reqs \in Nat /\ audit \in Seq(Records)
            /\ \A c \in Conns : pc[c] # "idle" => req[c] \in 1 .. reqs
            /\ \A c \in Conns :
                 pc[c] \in {"audit", "return"} => result[c] \in Decisions
    BY BoundAssumption DEF TypeInv, TypeOK, ServingOK, ReqNums
  <1>once. /\ \A a, b \in Conns :
                  pc[a] # "idle" /\ pc[b] # "idle" /\ req[a] = req[b] => a = b
           /\ \A i \in DOMAIN audit : audit[i].req \in 1 .. reqs
           /\ \A d \in Conns : RecordedOnce(d)
    BY DEF AuditInv
  <1>same. ASSUME UNCHANGED <<conn, audit, reqs>> PROVE AuditInv'
    BY <1>same, <1>once DEF conn, AuditInv, RecordedOnce, Unrecorded, Recorded
  <1>1. CASE Tick
    BY <1>1, <1>same DEF Tick
  <1>2. ASSUME NEW k \in Churning, Generate(k) PROVE AuditInv'
    BY <1>2, <1>same DEF Generate
  <1>3. ASSUME NEW k \in Churning, Delete(k) PROVE AuditInv'
    BY <1>3, <1>same DEF Delete
  <1>4. ASSUME NEW c \in Conns, NEW k \in Keys, SendRequest(c, k)
        PROVE  AuditInv'
    <2>1. /\ reqs' = reqs + 1 /\ UNCHANGED <<audit, result>>
          /\ pc[c] = "idle" /\ pc' = [pc EXCEPT ![c] = "lookup"]
          /\ req' = [req EXCEPT ![c] = reqs + 1]
          /\ key' = [key EXCEPT ![c] = k]
      BY <1>4 DEF SendRequest, Go
    <2>2. \A d \in Conns \ {c} :
              /\ UNCHANGED <<pc[d], req[d], key[d], result[d]>>
              /\ pc[d] # "idle" => req[d] # reqs + 1
      BY <2>1, <1>types
    <2>3. \A a, b \in Conns :
              pc'[a] # "idle" /\ pc'[b] # "idle" /\ req'[a] = req'[b] => a = b
      <3>1. req'[c] = reqs + 1
        BY <2>1, <1>types
      <3> QED
        BY <2>2, <3>1, <1>once
    <2>4. \A i \in DOMAIN audit' : audit'[i].req \in 1 .. reqs'
      BY <2>1, <1>types, <1>once
    <2>5. RecordedOnce(c)'
      <3>1. /\ \A i \in DOMAIN audit : audit[i].req # reqs + 1
            /\ pc'[c] = "lookup" /\ req'[c] = reqs + 1
        BY <2>1, <1>types, <1>once
      <3> QED
        BY <2>1, <3>1 DEF RecordedOnce, Recorded
    <2>6. ASSUME NEW d \in Conns \ {c} PROVE RecordedOnce(d)'
      BY <2>1, <2>2, <2>6, <1>once, RecordKept
    <2> QED
      BY <2>3, <2>4, <2>5, <2>6 DEF AuditInv
  <1>moves. ASSUME NEW c \in Conns, NEW from, NEW to, Go(c, from, to),
                   from # "idle",
                   UNCHANGED <<audit, reqs, req, key>>,
                   \A d \in Conns \ {c} : UNCHANGED result[d],
                   \/ Unrecorded(c) /\ Unrecorded(c)'
                   \/ Recorded(c) /\ Recorded(c)' /\ UNCHANGED result[c]
            PROVE  AuditInv'
    <2>1. pc[c] # "idle" /\ \A d \in Conns \ {c} : UNCHANGED <<pc[d], result[d]>>
      BY <1>moves, <1>types DEF Go
    <2> QED
      BY <1>moves, <2>1, RequestMoves
  <1>5. ASSUME NEW c \in Conns, Lookup(c) PROVE AuditInv'
    BY <1>5, <1>types, <1>moves DEF Lookup, Go, Unrecorded
  <1>6. ASSUME NEW c \in Conns, NoMatch(c) PROVE AuditInv'
    BY <1>6, <1>types, <1>moves DEF NoMatch, Go, Unrecorded
  <1>7. ASSUME NEW c \in Conns, AcquireKeyMu(c) PROVE AuditInv'
    BY <1>7, <1>types, <1>moves DEF AcquireKeyMu, Go, Unrecorded
  <1>refuse. ASSUME NEW c \in Conns, NEW why, Refuse(c, "check", why)
             PROVE  AuditInv'
    BY <1>refuse, <1>types, <1>moves DEF Refuse, Go, Unrecorded
  <1>8. ASSUME NEW c \in Conns, RejectCaller(c) PROVE AuditInv'
    BY <1>8, <1>refuse DEF RejectCaller
  <1>9. ASSUME NEW c \in Conns, RejectRate(c) PROVE AuditInv'
    BY <1>9, <1>refuse DEF RejectRate
  <1>10. ASSUME NEW c \in Conns, Admit(c) PROVE AuditInv'
    <2>1. PICK next \in {"touchlock", "sign"} : AdmitTo(c, next)
      BY <1>10 DEF Admit
    <2> QED
      BY <2>1, <1>types, <1>moves DEF AdmitTo, Go, Unrecorded
  <1>11. ASSUME NEW c \in Conns, AcquireBiometricMu(c) PROVE AuditInv'
    BY <1>11, <1>types, <1>moves DEF AcquireBiometricMu, Go, Unrecorded
  <1>12. ASSUME NEW c \in Conns, NEW o \in Outcomes, SignReturns(c, o)
         PROVE  AuditInv'
    BY <1>12, <1>types, <1>moves DEF SignReturns, Go, Unrecorded
  <1>13. ASSUME NEW c \in Conns, Audit(c) PROVE AuditInv'
    <2> DEFINE new == [req |-> req[c], key |-> key[c],
                       result |-> result[c], ts |-> clock]
    <2>1. /\ UNCHANGED <<req, key, result, reqs>>
          /\ pc[c] = "audit" /\ pc'[c] = "return"
          /\ \A d \in Conns \ {c} : UNCHANGED pc[d]
          /\ req[c] \in 1 .. reqs /\ result[c] # "nokey"
      BY <1>13, <1>types DEF Audit, Go, Decisions
    <2>2. /\ DOMAIN audit' = DOMAIN audit \cup {Len(audit) + 1}
          /\ Len(audit) + 1 \notin DOMAIN audit
          /\ \A i \in DOMAIN audit : audit'[i] = audit[i]
          /\ audit'[Len(audit) + 1] = new
      BY <1>13, <1>types DEF Audit
    <2> HIDE DEF new
    <2>3. new.req = req[c] /\ new.key = key[c] /\ new.result = result[c]
      BY DEF new
    <2>4. \A i \in DOMAIN audit : audit[i].req # req[c]
      BY <2>1, <1>once DEF RecordedOnce, Unrecorded
    <2>5. \A i \in DOMAIN audit' : audit'[i].req \in 1 .. reqs'
      BY <2>1, <2>2, <2>3, <1>once
    <2>6. RecordedOnce(c)'
      <3>1. ~Unrecorded(c)'
        BY <2>1 DEF Unrecorded
      <3>2. \A j \in DOMAIN audit' : audit'[j].req = req'[c] => j = Len(audit) + 1
        BY <2>1, <2>2, <2>4
      <3> QED
        BY <2>1, <2>2, <2>3, <3>1, <3>2 DEF RecordedOnce
    <2>7. ASSUME NEW d \in Conns \ {c} PROVE RecordedOnce(d)'
      <3>1. UNCHANGED <<pc[d], req[d], key[d], result[d]>>
        BY <2>1, <2>7
      <3>2. (Recorded(d) <=> Recorded(d)') /\ (Unrecorded(d) <=> Unrecorded(d)')
        BY <3>1 DEF Recorded, Unrecorded
      <3>3. Recorded(d) \/ Unrecorded(d) => req[d] # req[c]
        BY <2>1, <1>once DEF Recorded, Unrecorded
      <3>4. Unrecorded(d) => \A i \in DOMAIN audit' : audit'[i].req # req[d]
        BY <2>2, <2>3, <3>3, <1>once DEF RecordedOnce
      <3>5. ASSUME Recorded(d)
            PROVE  \E i \in DOMAIN audit' :
                       /\ audit'[i].req = req[d]
                       /\ audit'[i].result = result[d]
                       /\ audit'[i].key = key[d]
                       /\ \A j \in DOMAIN audit' : audit'[j].req = req[d] => j = i
        <4>1. PICK i \in DOMAIN audit :
                  /\ audit[i].req = req[d]
                  /\ audit[i].result = result[d]
                  /\ audit[i].key = key[d]
                  /\ \A j \in DOMAIN audit : audit[j].req = req[d] => j = i
          BY <3>5, <1>once DEF RecordedOnce
        <4> QED
          BY <2>2, <2>3, <3>3, <3>5, <4>1
      <3> QED
        BY <3>1, <3>2, <3>4, <3>5 DEF RecordedOnce
    <2> QED
      BY <2>1, <2>5, <2>6, <2>7, <1>once DEF AuditInv
  <1>14. ASSUME NEW c \in Conns, Return(c) PROVE AuditInv'
    BY <1>14, <1>types, <1>moves DEF Return, Go, Recorded, Decisions
  <1>15. ASSUME NEW c \in Conns, Reply(c) PROVE AuditInv'
    <2>1. /\ UNCHANGED <<audit, reqs>> /\ pc[c] = "reply" /\ pc'[c] = "idle"
          /\ \A d \in Conns \ {c} :
                UNCHANGED <<pc[d], req[d], key[d], result[d]>>
      BY <1>15, <1>types DEF Reply, Go
    <2>2. RecordedOnce(c)'
      BY <2>1 DEF RecordedOnce, Recorded, Unrecorded
    <2>3. ASSUME NEW d \in Conns \ {c} PROVE RecordedOnce(d)'
      BY <2>1, <2>3, <1>once, RecordKept
    <2> QED
      BY <2>1, <2>2, <2>3, <1>once DEF AuditInv
  <1>16. CASE Finished \/ UNCHANGED vars
    BY <1>16, <1>same DEF Finished, vars
  <1> QED
    BY <1>1, <1>2, <1>3, <1>4, <1>5, <1>6, <1>7, <1>8, <1>9, <1>10, <1>11,
       <1>12, <1>13, <1>14, <1>15, <1>16 DEF Next, Sign

(* Every decision of signFor is in the audit log exactly once, and before  *)
(* the request's locks are released (agent.go:187-249).                    *)
THEOREM DecisionsAudited == Spec => []AuditedOnce
  <1>1. TypeInv /\ AuditInv => AuditedOnce
    <2> SUFFICES ASSUME TypeInv, AuditInv PROVE AuditedOnce
      OBVIOUS
    <2> SUFFICES ASSUME NEW c \in Conns, pc[c] # "idle"
                 PROVE  IF Recorded(c)
                        THEN \E i \in DOMAIN audit :
                                 /\ RecordsOf(req[c]) = {i}
                                 /\ audit[i].result = result[c]
                                 /\ audit[i].key = key[c]
                        ELSE RecordsOf(req[c]) = {}
      BY DEF AuditedOnce, Recorded
    <2>1. CASE Recorded(c)
      BY <2>1 DEF AuditInv, RecordedOnce, RecordsOf
    <2>2. CASE ~Recorded(c)
      <3>1. Unrecorded(c)
        BY <2>2 DEF Recorded, Unrecorded, TypeInv, TypeOK, ServingOK, PCs,
                    Decisions, Results
      <3> QED
        BY <2>2, <3>1 DEF AuditInv, RecordedOnce, RecordsOf
    <2> QED
      BY <2>1, <2>2
  <1> QED
    BY TypeInit, TypeStep, AuditInit, AuditStep, <1>1, PTL DEF Spec

(***************************************************************************)
(* Deleted keys.  The key of a request past its lookup was on disk when    *)
(* the request was read: it is there still, or was deleted since.          *)
(***************************************************************************)
PastLookup == {"keylock", "check", "touchlock", "sign", "audit", "return"}

OnDiskSince(k, r) == k \in store \/ r <= deletedAt[k]

DeletionInv ==
    /\ \A c \in Conns : pc[c] \in PastLookup => OnDiskSince(key[c], req[c])
    /\ \A i \in DOMAIN audit :
          audit[i].result = "signed" => OnDiskSince(audit[i].key, audit[i].req)

(* What was on disk since a request was read stays so, whatever other      *)
(* processes do to the directory.                                          *)
LEMMA DiskChanges ==
    ASSUME TypeInv,
           \/ UNCHANGED <<store, deletedAt>>
           \/ \E j \in Churning : Generate(j) \/ Delete(j),
           NEW k \in Keys, NEW r \in 0 .. reqs, OnDiskSince(k, r)
    PROVE  OnDiskSince(k, r)'
  <1>1. CASE UNCHANGED <<store, deletedAt>>
    BY <1>1 DEF OnDiskSince
  <1>2. ASSUME NEW j \in Churning, Generate(j) PROVE OnDiskSince(k, r)'
    BY <1>2 DEF Generate, OnDiskSince
  <1>3. ASSUME NEW j \in Churning, Delete(j) PROVE OnDiskSince(k, r)'
    BY <1>3, KeyAssumption, BoundAssumption
    DEF Delete, OnDiskSince, TypeInv, TypeOK, ReqNums
  <1> QED
    BY <1>1, <1>2, <1>3

LEMMA DeletionInit == Init => DeletionInv
  BY DEF Init, DeletionInv, PastLookup

LEMMA DeletionStep ==
    TypeInv /\ AuditInv /\ DeletionInv /\ [Next]_vars => DeletionInv'
  <1> SUFFICES ASSUME TypeInv, AuditInv, DeletionInv, [Next]_vars
               PROVE  DeletionInv'
    OBVIOUS
  <1>types. /\ pc \in [Conns -> PCs] /\ reqs \in Nat /\ audit \in Seq(Records)
            /\ req \in [Conns -> ReqNums] /\ key \in [Conns -> Keys \cup {None}]
            /\ \A c \in Conns : pc[c] # "idle" => key[c] \in Keys
                                                 /\ req[c] \in 0 .. reqs
            /\ \A i \in DOMAIN audit : audit[i].req \in 0 .. reqs
                                         /\ audit[i].key \in Keys
    <2>1. \A i \in DOMAIN audit : audit[i] \in Records
      BY DEF TypeInv, TypeOK
    <2>2. \A i \in DOMAIN audit : audit[i].req \in 1 .. reqs
      BY DEF AuditInv
    <2> QED
      BY <2>1, <2>2, BoundAssumption DEF TypeInv, TypeOK, ServingOK, ReqNums, Records
  <1>old. /\ \A c \in Conns : pc[c] \in PastLookup => OnDiskSince(key[c], req[c])
          /\ \A i \in DOMAIN audit :
                audit[i].result = "signed" => OnDiskSince(audit[i].key, audit[i].req)
    BY DEF DeletionInv
  (* Steps that leave the log and the requests alone.                      *)
  <1>moves. ASSUME UNCHANGED audit,
                   \/ UNCHANGED <<store, deletedAt>>
                   \/ \E j \in Churning : Generate(j) \/ Delete(j),
                   \A c \in Conns : pc'[c] \in PastLookup =>
                       pc[c] \in PastLookup /\ UNCHANGED <<req[c], key[c]>>
            PROVE  DeletionInv'
    <2>1. ASSUME NEW c \in Conns, pc'[c] \in PastLookup
          PROVE  OnDiskSince(key[c], req[c])'
      <3>1. /\ key[c] \in Keys /\ req[c] \in 0 .. reqs
            /\ OnDiskSince(key[c], req[c]) /\ UNCHANGED <<req[c], key[c]>>
        BY <1>moves, <2>1, <1>types, <1>old DEF PastLookup
      <3>2. \A k \in Keys, r \in 0 .. reqs : OnDiskSince(k, r) =>
                k \in store' \/ r <= deletedAt'[k]
        BY <1>moves, DiskChanges DEF OnDiskSince
      <3> QED
        BY <3>1, <3>2 DEF OnDiskSince
    <2>2. ASSUME NEW i \in DOMAIN audit, audit[i].result = "signed"
          PROVE  OnDiskSince(audit[i].key, audit[i].req)'
      <3>1. \A k \in Keys, r \in 0 .. reqs : OnDiskSince(k, r) =>
                k \in store' \/ r <= deletedAt'[k]
        BY <1>moves, DiskChanges DEF OnDiskSince
      <3> QED
        BY <1>moves, <2>2, <3>1, <1>types, <1>old DEF OnDiskSince
    <2> QED
      BY <1>moves, <2>1, <2>2 DEF DeletionInv
  <1> USE DEF PastLookup
  <1>1. CASE Tick \/ Finished \/ UNCHANGED vars
    BY <1>1, <1>moves DEF Tick, Finished, vars, disk, conn
  <1>2. ASSUME NEW k \in Churning, Generate(k) \/ Delete(k) PROVE DeletionInv'
    BY <1>2, <1>moves DEF Generate, Delete, conn
  <1>3. ASSUME NEW c \in Conns, NEW k \in Keys, SendRequest(c, k)
        PROVE  DeletionInv'
    BY <1>3, <1>moves, <1>types DEF SendRequest, Go, disk
  <1>4. ASSUME NEW c \in Conns, Lookup(c) PROVE DeletionInv'
    <2>1. /\ UNCHANGED <<store, deletedAt, audit, req, key>> /\ key[c] \in store
          /\ \A d \in Conns \ {c} : UNCHANGED pc[d]
      BY <1>4, <1>types DEF Lookup, Go, disk
    <2> QED
      BY <2>1, <1>old DEF DeletionInv, OnDiskSince
  <1>5. ASSUME NEW c \in Conns, NoMatch(c) PROVE DeletionInv'
    BY <1>5, <1>moves, <1>types DEF NoMatch, Go, disk
  <1>6. ASSUME NEW c \in Conns, AcquireKeyMu(c) PROVE DeletionInv'
    BY <1>6, <1>moves, <1>types DEF AcquireKeyMu, Go, disk
  <1>7. ASSUME NEW c \in Conns, RejectCaller(c) \/ RejectRate(c)
        PROVE  DeletionInv'
    BY <1>7, <1>moves, <1>types DEF RejectCaller, RejectRate, Refuse, Go, disk
  <1>8. ASSUME NEW c \in Conns, Admit(c) PROVE DeletionInv'
    BY <1>8, <1>moves, <1>types DEF Admit, AdmitTo, Go, disk
  <1>9. ASSUME NEW c \in Conns, AcquireBiometricMu(c) PROVE DeletionInv'
    BY <1>9, <1>moves, <1>types DEF AcquireBiometricMu, Go, disk
  <1>10. ASSUME NEW c \in Conns, NEW o \in Outcomes, SignReturns(c, o)
         PROVE  DeletionInv'
    BY <1>10, <1>moves, <1>types DEF SignReturns, Go, disk
  <1>11. ASSUME NEW c \in Conns, Audit(c) PROVE DeletionInv'
    <2>1. /\ UNCHANGED <<store, deletedAt, req, key>> /\ pc[c] = "audit"
          /\ \A d \in Conns : pc'[d] \in PastLookup => pc[d] \in PastLookup
      BY <1>11, <1>types DEF Audit, Go, disk
    <2>2. ASSUME NEW i \in DOMAIN audit'
          PROVE  \/ i \in DOMAIN audit /\ audit'[i] = audit[i]
                 \/ audit'[i].key = key[c] /\ audit'[i].req = req[c]
      BY <1>11, <1>types DEF Audit
    <2> QED
      BY <2>1, <2>2, <1>old DEF DeletionInv, OnDiskSince
  <1>12. ASSUME NEW c \in Conns, Return(c) PROVE DeletionInv'
    BY <1>12, <1>moves, <1>types DEF Return, Go, disk
  <1>13. ASSUME NEW c \in Conns, Reply(c) PROVE DeletionInv'
    BY <1>13, <1>moves, <1>types DEF Reply, Go, disk
  <1> QED
    BY <1>1, <1>2, <1>3, <1>4, <1>5, <1>6, <1>7, <1>8, <1>9, <1>10, <1>11,
       <1>12, <1>13 DEF Next, Sign

(* A request read after a key was deleted is never signed with it.         *)
THEOREM DeletedKeysStayUnused == Spec => []DeletedKeySignsNothingNew
  <1>1. DeletionInv => DeletedKeySignsNothingNew
    BY DEF DeletionInv, DeletedKeySignsNothingNew, OnDiskSince
  <1> QED
    BY TypeInit, TypeStep, AuditInit, AuditStep, DeletionInit, DeletionStep,
       <1>1, PTL DEF Spec

(***************************************************************************)
(* The rate limiter, for every limit and window: what it bounds and who   *)
(* can use it up.                                                          *)
(***************************************************************************)
Token(c) == [req |-> req[c], at |-> clock]

(* A call that is refused only prunes the bucket.                          *)
LEMMA RefusalPrunes ==
    ASSUME NEW b, NEW r, NEW t, RateLimit # 0, ~Granted(b, t)
    PROVE  AfterAllow(b, r, t) = Valid(b, t)
  BY DEF Granted, AfterAllow

(* A call that is granted adds one grant to the pruned bucket, which had   *)
(* room for it.                                                            *)
LEMMA GrantAdds ==
    ASSUME NEW b, NEW r, NEW t, RateLimit # 0, Granted(b, t)
    PROVE  /\ AfterAllow(b, r, t) = Valid(b, t) \cup {[req |-> r, at |-> t]}
           /\ Cardinality(Valid(b, t)) < RateLimit
  BY DEF Granted, AfterAllow, HasRoom

(* The steps that touch neither buckets nor clock; most do.                *)
LEMMA BucketSteps ==
    ASSUME TypeInv, [Next]_vars
    PROVE  \/ UNCHANGED <<rates, granted, clock>>
           \/ Tick
           \/ \E c \in Conns : RejectRate(c) \/ Admit(c)
  BY DEF Next, Sign, vars, Finished, Generate, Delete, SendRequest, Lookup,
         NoMatch, AcquireKeyMu, RejectCaller, Refuse, AcquireBiometricMu,
         SignReturns, Audit, Return, Reply, limits

(***************************************************************************)
(* The bound on grants.  A bucket only forgets what has left the window.   *)
(***************************************************************************)
BucketInv(l) ==
    /\ IsFiniteSet(granted[l])
    /\ rates[l] \subseteq granted[l]
    /\ \A g \in granted[l] : /\ g.at <= clock
                             /\ g.at + RateWindow > clock => g \in rates[l]
    /\ \A t \in 0 .. clock : Cardinality(GrantsIn(l, t)) <= RateLimit

GrantInv == RateLimit > 0 => \A l \in Labels : BucketInv(l)

LEMMA GrantInit == Init => GrantInv
  <1> SUFFICES ASSUME Init, NEW l \in Labels, RateLimit > 0 PROVE BucketInv(l)
    BY DEF GrantInv
  <1>1. granted[l] = {} /\ rates[l] = {}
    BY DEF Init
  <1>2. \A t \in 0 .. clock : GrantsIn(l, t) = {}
    BY <1>1 DEF GrantsIn
  <1> QED
    BY <1>1, <1>2, FS_EmptySet, RateAssumption DEF BucketInv

LEMMA GrantStep == TypeInv /\ GrantInv /\ [Next]_vars => GrantInv'
  <1> SUFFICES ASSUME TypeInv, GrantInv, [Next]_vars, RateLimit > 0,
                      NEW l \in Labels
               PROVE  BucketInv(l)'
    BY DEF GrantInv
  <1>types. /\ clock \in Nat /\ RateLimit \in Nat /\ RateWindow \in Nat \ {0}
            /\ rates \in [Labels -> SUBSET Grants]
            /\ granted \in [Labels -> SUBSET Grants]
            /\ \A g \in granted[l] : g.at \in Nat
    BY BoundAssumption, RateAssumption DEF TypeInv, TypeOK, Time, Grants
  <1>old. BucketInv(l)
    BY DEF GrantInv
  <1>1. CASE UNCHANGED <<rates, granted, clock>>
    BY <1>1, <1>old DEF BucketInv, GrantsIn
  <1>2. CASE Tick
    <2>1. clock' = clock + 1 /\ UNCHANGED <<rates, granted>>
      BY <1>2 DEF Tick, limits
    <2>2. ASSUME NEW t \in 0 .. clock' PROVE Cardinality(GrantsIn(l, t)') <= RateLimit
      <3>1. CASE t <= clock
        <4>1. GrantsIn(l, t)' = GrantsIn(l, t) /\ t \in 0 .. clock
          BY <2>1, <3>1, <1>types DEF GrantsIn
        <4> QED
          BY <4>1, <1>old DEF BucketInv
      <3>2. CASE t = clock + 1
        <4>1. GrantsIn(l, t)' \subseteq GrantsIn(l, clock)
          BY <2>1, <3>2, <1>types, <1>old DEF GrantsIn, BucketInv
        <4>2. IsFiniteSet(GrantsIn(l, clock))
          BY <1>old, FS_Subset DEF GrantsIn, BucketInv
        <4>3. /\ Cardinality(GrantsIn(l, clock)) <= RateLimit
              /\ Cardinality(GrantsIn(l, clock)) \in Nat
          BY <4>2, <1>old, <1>types, FS_CardinalityType DEF BucketInv
        <4>4. /\ Cardinality(GrantsIn(l, t)') <= Cardinality(GrantsIn(l, clock))
              /\ Cardinality(GrantsIn(l, t)') \in Nat
          BY <4>1, <4>2, FS_Subset, FS_CardinalityType
        <4> QED
          BY <4>3, <4>4, <1>types
      <3> QED
        BY <2>1, <3>1, <3>2, <1>types
    <2> QED
      BY <2>1, <2>2, <1>old, <1>types DEF BucketInv
  <1>3. ASSUME NEW c \in Conns, RejectRate(c) PROVE BucketInv(l)'
    <2>1. /\ UNCHANGED <<granted, clock>>
          /\ rates'[l] = rates[l] \/ rates'[l] = Valid(rates[l], clock)
      BY <1>3, <1>types, RefusalPrunes
      DEF RejectRate, Refuse, TakeToken, Label, Granted
    <2>2. \A t \in 0 .. clock' : GrantsIn(l, t)' = GrantsIn(l, t)
      BY <2>1 DEF GrantsIn
    <2> QED
      BY <2>1, <2>2, <1>old DEF BucketInv, Valid
  <1>4. ASSUME NEW c \in Conns, Admit(c) PROVE BucketInv(l)'
    <2>1. PICK next : AdmitTo(c, next)
      BY <1>4 DEF Admit
    <2>2. CASE l # Label(c)
      <3>1. rates'[l] = rates[l] /\ granted'[l] = granted[l] /\ clock' = clock
        BY <2>1, <2>2, <1>types DEF AdmitTo, TakeToken
      <3>2. \A t \in 0 .. clock' : GrantsIn(l, t)' = GrantsIn(l, t)
        BY <3>1 DEF GrantsIn
      <3> QED
        BY <3>1, <3>2, <1>old DEF BucketInv
    <2>3. CASE l = Label(c)
      <3> DEFINE valid == Valid(rates[l], clock)
      <3>1. /\ clock' = clock
            /\ granted'[l] = granted[l] \cup {Token(c)}
            /\ rates'[l] = valid \cup {Token(c)}
            /\ Cardinality(valid) < RateLimit
        BY <2>1, <2>3, <1>types, GrantAdds DEF AdmitTo, TakeToken, Token
      <3>2. Token(c).at = clock
        BY DEF Token
      <3>3. IsFiniteSet(granted'[l])
        BY <3>1, <1>old, FS_AddElement DEF BucketInv
      <3>4. rates'[l] \subseteq granted'[l]
        BY <3>1, <1>old DEF BucketInv, Valid
      <3>5. \A g \in granted'[l] : /\ g.at <= clock'
                                   /\ g.at + RateWindow > clock' => g \in rates'[l]
        BY <3>1, <3>2, <1>old, <1>types DEF BucketInv, Valid
      <3>6. ASSUME NEW t \in 0 .. clock'
            PROVE  Cardinality(GrantsIn(l, t)') <= RateLimit
        <4>1. CASE t < clock
          <5>1. GrantsIn(l, t)' = GrantsIn(l, t) /\ t \in 0 .. clock
            BY <3>1, <3>2, <3>6, <4>1, <1>types DEF GrantsIn
          <5> QED
            BY <5>1, <1>old DEF BucketInv
        <4>2. CASE t = clock
          <5>1. IsFiniteSet(valid) /\ Cardinality(valid) \in Nat
            BY <1>old, FS_Subset, FS_CardinalityType DEF BucketInv, Valid
          <5>2. GrantsIn(l, t)' \subseteq valid \cup {Token(c)}
            BY <3>1, <3>2, <4>2, <1>old, <1>types DEF GrantsIn, BucketInv, Valid
          <5>3. /\ IsFiniteSet(valid \cup {Token(c)})
                /\ Cardinality(valid \cup {Token(c)}) <= RateLimit
            <6> HIDE DEF valid
            <6>1. /\ IsFiniteSet(valid \cup {Token(c)})
                  /\ Cardinality(valid \cup {Token(c)}) \in
                        {Cardinality(valid), Cardinality(valid) + 1}
              BY <5>1, FS_AddElement
            <6> QED
              BY <3>1, <5>1, <6>1, <1>types
          <5>4. /\ Cardinality(GrantsIn(l, t)') <= Cardinality(valid \cup {Token(c)})
                /\ Cardinality(GrantsIn(l, t)') \in Nat
                /\ Cardinality(valid \cup {Token(c)}) \in Nat
            BY <5>2, <5>3, FS_Subset, FS_CardinalityType
          <5> QED
            BY <5>3, <5>4, <1>types
        <4> QED
          BY <3>1, <3>6, <4>1, <4>2, <1>types
      <3> QED
        BY <3>3, <3>4, <3>5, <3>6 DEF BucketInv
    <2> QED
      BY <2>2, <2>3
  <1> QED
    BY <1>1, <1>2, <1>3, <1>4, BucketSteps

(* In no window has the limiter granted more than the limit                *)
(* (policy.go rateBucket.allow).                                           *)
THEOREM GrantsBounded == Spec => []GrantBound
  <1>1. GrantInv => GrantBound
    BY DEF GrantInv, BucketInv, GrantBound
  <1> QED
    BY TypeInit, TypeStep, GrantInit, GrantStep, <1>1, PTL DEF Spec

(***************************************************************************)
(* Who spends the budget.  A request that has not been granted, and one    *)
(* about to be recorded as refused, has no token in any bucket.            *)
(***************************************************************************)
Attempts == {"signed", "signerr"}

Ungranted(c) == \/ pc[c] \in {"lookup", "keylock", "check"}
                \/ pc[c] = "audit" /\ result[c] \notin Attempts

BudgetInv ==
    /\ \A l \in Labels : \A g \in rates[l] : g.req \in 1 .. reqs
    /\ \A c \in Conns : Ungranted(c) =>
          \A l \in Labels : \A g \in rates[l] : g.req # req[c]
    /\ \A l \in Labels : \A g \in rates[l] : \A i \in DOMAIN audit :
          audit[i].req = g.req => audit[i].result \in Attempts

LEMMA BudgetInit == Init => BudgetInv
  BY DEF Init, BudgetInv

LEMMA BudgetStep ==
    TypeInv /\ AuditInv /\ BudgetInv /\ [Next]_vars => BudgetInv'
  <1> SUFFICES ASSUME TypeInv, AuditInv, BudgetInv, [Next]_vars
               PROVE  BudgetInv'
    OBVIOUS
  <1>types. /\ pc \in [Conns -> PCs] /\ reqs \in Nat /\ audit \in Seq(Records)
            /\ req \in [Conns -> ReqNums] /\ result \in [Conns -> Results]
            /\ rates \in [Labels -> SUBSET Grants]
            /\ \A c \in Conns : pc[c] # "idle" => req[c] \in 1 .. reqs
    BY BoundAssumption DEF TypeInv, TypeOK, ServingOK, ReqNums
  <1>once. /\ \A a, b \in Conns :
                  pc[a] # "idle" /\ pc[b] # "idle" /\ req[a] = req[b] => a = b
           /\ \A i \in DOMAIN audit : audit[i].req \in 1 .. reqs
           /\ \A c \in Conns : Unrecorded(c) =>
                 \A i \in DOMAIN audit : audit[i].req # req[c]
    BY DEF AuditInv, RecordedOnce
  <1>old. /\ \A l \in Labels : \A g \in rates[l] : g.req \in 1 .. reqs
          /\ \A c \in Conns : Ungranted(c) =>
                \A l \in Labels : \A g \in rates[l] : g.req # req[c]
          /\ \A l \in Labels : \A g \in rates[l] : \A i \in DOMAIN audit :
                audit[i].req = g.req => audit[i].result \in Attempts
    BY DEF BudgetInv
  (* Steps that add neither a token nor a record.                          *)
  <1>moves. ASSUME UNCHANGED <<audit, reqs>>,
                   \A l \in Labels : rates'[l] \subseteq rates[l],
                   \A c \in Conns : Ungranted(c)' =>
                       Ungranted(c) /\ UNCHANGED req[c]
            PROVE  BudgetInv'
    BY <1>moves, <1>old DEF BudgetInv
  <1>1. CASE Tick \/ Finished \/ UNCHANGED vars
    BY <1>1, <1>moves DEF Tick, Finished, vars, conn, limits, Ungranted
  <1>2. ASSUME NEW k \in Churning, Generate(k) \/ Delete(k) PROVE BudgetInv'
    BY <1>2, <1>moves DEF Generate, Delete, conn, limits, Ungranted
  <1>3. ASSUME NEW c \in Conns, NEW k \in Keys, SendRequest(c, k)
        PROVE  BudgetInv'
    <2>1. /\ UNCHANGED <<audit, rates, result>> /\ reqs' = reqs + 1
          /\ req'[c] = reqs + 1
          /\ \A d \in Conns \ {c} : UNCHANGED <<pc[d], req[d]>>
      BY <1>3, <1>types DEF SendRequest, Go, limits
    <2> QED
      BY <2>1, <1>types, <1>old DEF BudgetInv, Ungranted
  <1>4. ASSUME NEW c \in Conns, Lookup(c) \/ AcquireKeyMu(c) PROVE BudgetInv'
    BY <1>4, <1>moves, <1>types DEF Lookup, AcquireKeyMu, Go, limits, Ungranted
  <1>5. ASSUME NEW c \in Conns, NoMatch(c) PROVE BudgetInv'
    BY <1>5, <1>moves, <1>types DEF NoMatch, Go, limits, Ungranted
  <1>6. ASSUME NEW c \in Conns, RejectCaller(c) PROVE BudgetInv'
    BY <1>6, <1>moves, <1>types DEF RejectCaller, Refuse, Go, limits, Ungranted
  <1>7. ASSUME NEW c \in Conns, RejectRate(c) PROVE BudgetInv'
    <2>1. \A l \in Labels : rates'[l] \subseteq rates[l]
      BY <1>7, <1>types, RefusalPrunes
      DEF RejectRate, Refuse, TakeToken, Label, Granted, Valid
    <2> QED
      BY <1>7, <2>1, <1>moves, <1>types DEF RejectRate, Refuse, Go, Ungranted
  <1>8. ASSUME NEW c \in Conns, Admit(c) PROVE BudgetInv'
    <2>1. /\ UNCHANGED <<audit, reqs, req, result>>
          /\ pc[c] = "check" /\ pc'[c] \in {"touchlock", "sign"}
          /\ \A d \in Conns \ {c} : UNCHANGED pc[d]
      BY <1>8, <1>types DEF Admit, AdmitTo, Go
    <2>2. \A l \in Labels : \A g \in rates'[l] : g \in rates[l] \/ g = Token(c)
      <3>1. PICK next : AdmitTo(c, next)
        BY <1>8 DEF Admit
      <3>2. ASSUME RateLimit # 0, NEW l \in Labels, l = Label(c)
            PROVE  rates'[l] = Valid(rates[l], clock) \cup {Token(c)}
        BY <3>1, <3>2, <1>types, GrantAdds DEF AdmitTo, TakeToken, Token
      <3>3. ASSUME NEW l \in Labels, RateLimit = 0 \/ l # Label(c)
            PROVE  rates'[l] = rates[l]
        BY <3>1, <3>3, <1>types DEF AdmitTo, TakeToken
      <3> QED
        BY <3>2, <3>3 DEF Valid
    <2>3. Token(c).req = req[c]
      BY DEF Token
    <2>4. \A i \in DOMAIN audit : audit[i].req # req[c]
      BY <2>1, <1>once DEF Unrecorded
    <2> QED
      BY <2>1, <2>2, <2>3, <2>4, <1>types, <1>once, <1>old DEF BudgetInv, Ungranted
  <1>9. ASSUME NEW c \in Conns, AcquireBiometricMu(c) PROVE BudgetInv'
    BY <1>9, <1>moves, <1>types DEF AcquireBiometricMu, Go, limits, Ungranted
  <1>10. ASSUME NEW c \in Conns, NEW o \in Outcomes, SignReturns(c, o)
         PROVE  BudgetInv'
    BY <1>10, <1>moves, <1>types DEF SignReturns, Go, Ungranted, Attempts
  <1>11. ASSUME NEW c \in Conns, Audit(c) PROVE BudgetInv'
    <2>1. /\ UNCHANGED <<rates, reqs, req, result>>
          /\ pc[c] = "audit" /\ pc'[c] = "return"
          /\ \A d \in Conns \ {c} : UNCHANGED pc[d]
      BY <1>11, <1>types DEF Audit, Go, limits
    <2>2. ASSUME NEW i \in DOMAIN audit'
          PROVE  \/ i \in DOMAIN audit /\ audit'[i] = audit[i]
                 \/ audit'[i].req = req[c] /\ audit'[i].result = result[c]
      BY <1>11, <1>types DEF Audit
    <2> QED
      BY <2>1, <2>2, <1>old DEF BudgetInv, Ungranted
  <1>12. ASSUME NEW c \in Conns, Return(c) PROVE BudgetInv'
    BY <1>12, <1>moves, <1>types DEF Return, Go, limits, Ungranted
  <1>13. ASSUME NEW c \in Conns, Reply(c) PROVE BudgetInv'
    BY <1>13, <1>moves, <1>types DEF Reply, Go, limits, Ungranted
  <1> QED
    BY <1>1, <1>2, <1>3, <1>4, <1>5, <1>6, <1>7, <1>8, <1>9, <1>10, <1>11,
       <1>12, <1>13 DEF Next, Sign

(* Only requests that go on to sign use up a label's budget.               *)
THEOREM RefusalsAreFree == Spec => []BudgetSpentOnAttempts
  <1>1. BudgetInv => BudgetSpentOnAttempts
    BY DEF BudgetInv, BudgetSpentOnAttempts, RecordsOf, Attempts
  <1> QED
    BY TypeInit, TypeStep, AuditInit, AuditStep, BudgetInit, BudgetStep,
       <1>1, PTL DEF Spec

(***************************************************************************)
(* The bound on signatures.  A label's requests are granted and recorded   *)
(* one after the other: nothing was signed with its keys later than the    *)
(* grant of the request that is on its way to its record.                  *)
(***************************************************************************)
SignedFor(i, l) ==
    /\ i \in DOMAIN audit
    /\ audit[i].result = "signed"
    /\ LabelOf[audit[i].key] = l

UnderWay(c) == \/ pc[c] \in {"touchlock", "sign"}
               \/ pc[c] = "audit" /\ result[c] = "signed"

(* A grant of request r in label l, no earlier than the signatures before  *)
(* the n-th record and no later than t.                                    *)
GrantedFor(g, l, r, n, t) ==
    /\ g \in granted[l]
    /\ g.req = r
    /\ g.at <= t
    /\ \A j \in 1 .. n - 1 : SignedFor(j, l) => audit[j].ts <= g.at

CompletionInv ==
    /\ \A i \in DOMAIN audit : audit[i].ts <= clock
    /\ \A i, j \in DOMAIN audit : audit[i].req = audit[j].req => i = j
    /\ \A c \in Conns : UnderWay(c) =>
          \E g \in Grants :
              GrantedFor(g, Label(c), req[c], Len(audit) + 1, clock)
    /\ \A l \in Labels : \A i \in DOMAIN audit : SignedFor(i, l) =>
          \E g \in Grants :
              GrantedFor(g, l, audit[i].req, i, audit[i].ts)

LEMMA CompletionInit == Init => CompletionInv
  BY DEF Init, CompletionInv, UnderWay, SignedFor

LEMMA CompletionStep ==
    TypeInv /\ LockInv /\ AuditInv /\ CompletionInv /\ [Next]_vars
        => CompletionInv'
  <1> SUFFICES ASSUME TypeInv, LockInv, AuditInv, CompletionInv, [Next]_vars
               PROVE  CompletionInv'
    OBVIOUS
  <1>types. /\ pc \in [Conns -> PCs] /\ key \in [Conns -> Keys \cup {None}]
            /\ req \in [Conns -> ReqNums] /\ result \in [Conns -> Results]
            /\ audit \in Seq(Records) /\ clock \in Time /\ clock \in Nat
            /\ granted \in [Labels -> SUBSET Grants]
            /\ LabelOf \in [Keys -> Labels]
            /\ \A c \in Conns : pc[c] # "idle" => key[c] \in Keys
    BY BoundAssumption, KeyAssumption DEF TypeInv, TypeOK, ServingOK, Time
  <1>old. /\ \A i \in DOMAIN audit : audit[i].ts <= clock
          /\ \A i, j \in DOMAIN audit : audit[i].req = audit[j].req => i = j
          /\ \A c \in Conns : UnderWay(c) =>
                \E g \in Grants :
                    GrantedFor(g, Label(c), req[c], Len(audit) + 1, clock)
          /\ \A l \in Labels : \A i \in DOMAIN audit : SignedFor(i, l) =>
                \E g \in Grants :
                    GrantedFor(g, l, audit[i].req, i, audit[i].ts)
    BY DEF CompletionInv
  <1>log. /\ Len(audit) \in Nat /\ DOMAIN audit = 1 .. Len(audit)
          /\ \A i \in DOMAIN audit : audit[i] \in Records
          /\ \A i \in DOMAIN audit : audit[i].ts \in Nat
    <2>1. /\ Len(audit) \in Nat /\ DOMAIN audit = 1 .. Len(audit)
          /\ \A i \in DOMAIN audit : audit[i] \in Records
      BY <1>types
    <2>2. \A x \in Records : x.ts \in Nat
      BY BoundAssumption DEF Records, Time
    <2> QED
      BY <2>1, <2>2
  (* Steps that record nothing: grants are kept, the clock does not go     *)
  (* back, and nobody else gets under way.                                 *)
  <1>moves. ASSUME UNCHANGED audit, clock' \in Nat, clock <= clock',
                   \A l \in Labels : granted[l] \subseteq granted'[l],
                   \A c \in Conns : UnderWay(c)' =>
                       UnderWay(c) /\ UNCHANGED <<req[c], key[c]>>
            PROVE  CompletionInv'
    <2>1. ASSUME NEW g \in Grants, NEW l \in Labels, NEW r, NEW n, NEW t, NEW u,
                 t <= u, t \in Nat, u \in Nat, GrantedFor(g, l, r, n, t)
          PROVE  GrantedFor(g, l, r, n, u)'
      <3>1. g.at \in Nat
        BY BoundAssumption DEF Grants, Time
      <3> QED
        BY <1>moves, <2>1, <3>1 DEF GrantedFor, SignedFor
    <2>2. \A i \in DOMAIN audit' : audit'[i].ts <= clock'
      BY <1>moves, <1>old, <1>log, <1>types
    <2>3. \A i, j \in DOMAIN audit' : audit'[i].req = audit'[j].req => i = j
      BY <1>moves, <1>old
    <2>4. ASSUME NEW c \in Conns, UnderWay(c)'
          PROVE  \E g \in Grants :
                    GrantedFor(g, Label(c), req[c], Len(audit) + 1, clock)'
      <3>1. UnderWay(c) /\ UNCHANGED <<req[c], key[c]>>
        BY <1>moves, <2>4
      <3>2. key[c] \in Keys
        BY <3>1, <1>types DEF UnderWay
      <3>3. PICK l \in Labels : l = Label(c) /\ l = Label(c)'
        BY <3>1, <3>2, <1>types DEF Label
      <3>4. PICK r, n, t, u : r = req[c] /\ r = req'[c] /\ n = Len(audit) + 1
                              /\ n = (Len(audit) + 1)' /\ t = clock /\ u = clock'
        BY <3>1, <1>moves
      <3>5. PICK g \in Grants : GrantedFor(g, l, r, n, t)
        BY <3>1, <3>3, <3>4, <1>old
      <3>6. GrantedFor(g, l, r, n, u)'
        BY <2>1, <3>4, <3>5, <1>moves, <1>types
      <3> QED
        BY <3>3, <3>4, <3>6 DEF GrantedFor
    <2>5. ASSUME NEW l \in Labels, NEW i \in DOMAIN audit', SignedFor(i, l)'
          PROVE  \E g \in Grants :
                    GrantedFor(g, l, audit[i].req, i, audit[i].ts)'
      <3>1. i \in DOMAIN audit /\ SignedFor(i, l)
        BY <1>moves, <2>5 DEF SignedFor
      <3>2. PICK r, t : r = audit[i].req /\ t = audit[i].ts
                        /\ r = audit'[i].req /\ t = audit'[i].ts
        BY <1>moves
      <3>3. PICK g \in Grants : GrantedFor(g, l, r, i, t)
        BY <3>1, <3>2, <1>old
      <3>4. t \in Nat /\ t <= t
        <4>1. audit[i].ts \in Nat
          BY <3>1, <1>log
        <4>2. t \in Nat
          BY <3>2, <4>1
        <4> QED
          BY <4>2
      <3>5. GrantedFor(g, l, r, i, t)'
        BY <2>1, <3>3, <3>4
      <3> QED
        BY <3>2, <3>5 DEF GrantedFor
    <2> QED
      BY <2>2, <2>3, <2>4, <2>5 DEF CompletionInv
  <1>1. CASE Tick \/ Finished \/ UNCHANGED vars
    BY <1>1, <1>moves, <1>types DEF Tick, Finished, vars, conn, limits, UnderWay
  <1>2. ASSUME NEW k \in Churning, Generate(k) \/ Delete(k) PROVE CompletionInv'
    BY <1>2, <1>moves, <1>types DEF Generate, Delete, conn, limits, UnderWay
  <1>3. ASSUME NEW c \in Conns, NEW k \in Keys, SendRequest(c, k)
        PROVE  CompletionInv'
    BY <1>3, <1>moves, <1>types DEF SendRequest, Go, limits, UnderWay
  <1>4. ASSUME NEW c \in Conns, Lookup(c) \/ AcquireKeyMu(c) \/ NoMatch(c)
        PROVE  CompletionInv'
    BY <1>4, <1>moves, <1>types
    DEF Lookup, AcquireKeyMu, NoMatch, Go, limits, UnderWay
  <1>5. ASSUME NEW c \in Conns, RejectCaller(c) \/ RejectRate(c)
        PROVE  CompletionInv'
    <2>1. PICK why \in {"caller", "keyrule", "rate"} : Refuse(c, "check", why)
      BY <1>5 DEF RejectCaller, RejectRate
    <2>2. UNCHANGED granted
      BY <1>5 DEF RejectCaller, RejectRate, limits
    <2> QED
      BY <2>1, <2>2, <1>moves, <1>types DEF Refuse, Go, UnderWay
  <1>6. ASSUME NEW c \in Conns, Admit(c) PROVE CompletionInv'
    <2>1. /\ UNCHANGED <<audit, clock, req, key, result>>
          /\ pc[c] = "check" /\ \A d \in Conns \ {c} : UNCHANGED pc[d]
          /\ granted' = [granted EXCEPT ![Label(c)] = @ \cup {Token(c)}]
      BY <1>6, <1>types DEF Admit, AdmitTo, Go, Token
    <2>2. PICK here \in Labels : here = Label(c) /\ here = Label(c)'
      BY <2>1, <1>types DEF Label
    <2>3. \A l \in Labels : granted[l] \subseteq granted'[l]
      BY <2>1, <1>types
    <2>4. PICK g \in Grants : g = Token(c) /\ g \in granted'[here]
      <3>1. Token(c) \in Grants
        BY <1>types DEF Token, Grants
      <3>2. Token(c) \in granted'[here]
        BY <2>1, <2>2, <1>types
      <3> QED
        BY <3>1, <3>2
    <2>5. g.at = clock /\ g.req = req[c] /\ g.req = req'[c] /\ g.at = clock'
      BY <2>1, <2>4 DEF Token
    <2>6. GrantedFor(g, Label(c), req[c], Len(audit) + 1, clock)'
      BY <2>1, <2>2, <2>4, <2>5, <1>old, <1>types DEF GrantedFor, SignedFor
    <2>7. ASSUME NEW d \in Conns, UnderWay(d)'
          PROVE  \E h \in Grants :
                    GrantedFor(h, Label(d), req[d], Len(audit) + 1, clock)'
      <3>1. CASE d = c
        BY <2>6, <3>1
      <3>2. CASE d # c
        <4>1. UnderWay(d)
          BY <2>1, <2>7, <3>2 DEF UnderWay
        <4>2. PICK h \in Grants :
                 GrantedFor(h, Label(d), req[d], Len(audit) + 1, clock)
          BY <4>1, <1>old
        <4>3. Label(d) \in Labels
          BY <4>1, <1>types DEF UnderWay, Label
        <4> QED
          BY <2>1, <2>3, <4>2, <4>3 DEF GrantedFor, SignedFor, Label
      <3> QED
        BY <3>1, <3>2
    <2>8. ASSUME NEW l \in Labels, NEW i \in DOMAIN audit', SignedFor(i, l)'
          PROVE  \E h \in Grants :
                    GrantedFor(h, l, audit[i].req, i, audit[i].ts)'
      <3>1. PICK h \in Grants : GrantedFor(h, l, audit[i].req, i, audit[i].ts)
        BY <2>1, <2>8, <1>old DEF SignedFor
      <3> QED
        BY <2>1, <2>3, <3>1 DEF GrantedFor, SignedFor
    <2> QED
      BY <2>1, <2>7, <2>8, <1>old DEF CompletionInv
  <1>7. ASSUME NEW c \in Conns, AcquireBiometricMu(c) PROVE CompletionInv'
    BY <1>7, <1>moves, <1>types DEF AcquireBiometricMu, Go, limits, UnderWay
  <1>8. ASSUME NEW c \in Conns, NEW o \in Outcomes, SignReturns(c, o)
        PROVE  CompletionInv'
    BY <1>8, <1>moves, <1>types DEF SignReturns, Go, UnderWay
  <1>9. ASSUME NEW c \in Conns, Audit(c) PROVE CompletionInv'
    <2> DEFINE record == [req |-> req[c], key |-> key[c],
                          result |-> result[c], ts |-> clock]
               n == Len(audit)
    <2>1. /\ UNCHANGED <<granted, clock, req, key, result>>
          /\ pc[c] = "audit" /\ pc'[c] = "return"
          /\ \A d \in Conns \ {c} : UNCHANGED pc[d]
          /\ audit' = Append(audit, record)
      BY <1>9, <1>types DEF Audit, Go, limits
    <2>2. /\ Len(audit') = n + 1 /\ DOMAIN audit' = 1 .. n + 1
          /\ audit'[n + 1] = record
          /\ \A i \in 1 .. n : audit'[i] = audit[i]
      BY <2>1, <1>types
    <2>3. \A i \in DOMAIN audit' : audit'[i].ts <= clock'
      BY <2>1, <2>2, <1>old, <1>log, <1>types
    <2>4. \A i \in 1 .. n : audit[i].req # req[c]
      BY <2>1, <1>log DEF AuditInv, RecordedOnce, Unrecorded
    <2>5. \A i, j \in DOMAIN audit' : audit'[i].req = audit'[j].req => i = j
      BY <2>2, <2>4, <1>old, <1>log
    <2>6. ASSUME NEW d \in Conns, UnderWay(d)'
          PROVE  \E g \in Grants :
                    GrantedFor(g, Label(d), req[d], Len(audit) + 1, clock)'
      <3>1. d # c /\ UnderWay(d)
        BY <2>1, <2>6 DEF UnderWay
      <3>2. PICK there \in Labels : there = Label(d) /\ there = Label(d)'
        BY <2>1, <3>1, <1>types DEF UnderWay, Label
      (* Both would hold the label's lock.                                 *)
      <3>3. there # Label(c)
        BY <2>1, <3>1, <3>2 DEF LockInv, KeyMuInv, HoldsKeyMu, UnderWay, Label
      <3>4. PICK g \in Grants : GrantedFor(g, there, req[d], n + 1, clock)
        BY <3>1, <3>2, <1>old
      <3>5. \A j \in {n + 1} : ~SignedFor(j, there)'
        BY <2>2, <3>3 DEF SignedFor, Label
      <3>6. \A j \in 1 .. n : SignedFor(j, there)' => SignedFor(j, there)
        BY <2>2, <1>log DEF SignedFor
      <3>7. \A j \in 1 .. n + 1 : SignedFor(j, there)' => audit'[j].ts <= g.at
        <4>1. \A j \in 1 .. n : SignedFor(j, there) => audit[j].ts <= g.at
          BY <3>4, <1>log DEF GrantedFor
        <4>2. \A j \in 1 .. n + 1 : j \in 1 .. n \/ j = n + 1
          BY <1>log
        <4> TAKE j \in 1 .. n + 1
        <4>3. CASE j \in 1 .. n
          BY <2>2, <3>6, <4>1, <4>3
        <4>4. CASE j = n + 1
          BY <3>5, <4>4
        <4> QED
          BY <4>2, <4>3, <4>4
      <3>8. GrantedFor(g, Label(d), req[d], Len(audit) + 1, clock)'
        BY <2>1, <2>2, <3>2, <3>4, <3>7, <1>log DEF GrantedFor
      <3> QED
        BY <3>8
    <2>7. ASSUME NEW l \in Labels, NEW i \in DOMAIN audit', SignedFor(i, l)'
          PROVE  \E g \in Grants :
                    GrantedFor(g, l, audit[i].req, i, audit[i].ts)'
      <3>1. \A j \in 1 .. n : SignedFor(j, l)' <=> SignedFor(j, l)
        BY <2>2, <1>log DEF SignedFor
      <3>2. CASE i \in 1 .. n
        <4>1. PICK g \in Grants : GrantedFor(g, l, audit[i].req, i, audit[i].ts)
          BY <2>7, <3>1, <3>2, <1>old, <1>log
        <4>2. \A j \in 1 .. i - 1 : j \in 1 .. n
          BY <3>2, <1>log
        <4> QED
          BY <2>1, <2>2, <3>1, <3>2, <4>1, <4>2 DEF GrantedFor
      <3>3. CASE i = n + 1
        <4>1. UnderWay(c) /\ l = Label(c)
          BY <2>1, <2>2, <2>7, <3>3 DEF SignedFor, UnderWay, Label
        <4>2. PICK g \in Grants : GrantedFor(g, l, req[c], n + 1, clock)
          BY <4>1, <1>old
        <4>3. \A j \in 1 .. i - 1 : j \in 1 .. n
          BY <3>3, <1>log
        <4>4. audit'[i].req = req[c] /\ audit'[i].ts = clock
          BY <2>2, <3>3
        <4> QED
          BY <2>1, <2>2, <3>1, <3>3, <4>2, <4>3, <4>4, <1>log DEF GrantedFor
      <3> QED
        BY <2>2, <3>2, <3>3, <1>log
    <2> QED
      BY <2>3, <2>5, <2>6, <2>7 DEF CompletionInv
  <1>10. ASSUME NEW c \in Conns, Return(c) PROVE CompletionInv'
    BY <1>10, <1>moves, <1>types DEF Return, Go, limits, UnderWay
  <1>11. ASSUME NEW c \in Conns, Reply(c) PROVE CompletionInv'
    BY <1>11, <1>moves, <1>types DEF Reply, Go, limits, UnderWay
  <1> QED
    BY <1>1, <1>2, <1>3, <1>4, <1>5, <1>6, <1>7, <1>8, <1>9, <1>10, <1>11
    DEF Next, Sign

(* A label's signatures within a window, but for one, were granted in it.  *)
LEMMA OneOldGrant ==
    ASSUME TypeInv, GrantInv, CompletionInv, RateLimit > 0,
           NEW l \in Labels, NEW t \in 0 .. clock
    PROVE  Cardinality(SignaturesIn(l, t)) <= RateLimit + 1
  <1>types. /\ clock \in Nat /\ t \in Nat
            /\ RateLimit \in Nat /\ RateWindow \in Nat \ {0}
            /\ audit \in Seq(Records) /\ Len(audit) \in Nat
            /\ DOMAIN audit = 1 .. Len(audit)
            /\ \A i \in DOMAIN audit : audit[i].ts \in Nat
            /\ \A g \in Grants : g.at \in Nat
    <2>1. /\ clock \in Nat /\ t \in Nat /\ audit \in Seq(Records)
          /\ RateLimit \in Nat /\ RateWindow \in Nat \ {0}
      BY BoundAssumption, RateAssumption DEF TypeInv, TypeOK, Time
    <2>2. /\ Len(audit) \in Nat /\ DOMAIN audit = 1 .. Len(audit)
          /\ \A i \in DOMAIN audit : audit[i] \in Records
      BY <2>1
    <2>3. \A x \in Records : x.ts \in Nat
      BY BoundAssumption DEF Records, Time
    <2>4. \A g \in Grants : g.at \in Nat
      BY BoundAssumption DEF Grants, Time
    <2> QED
      BY <2>1, <2>2, <2>3, <2>4
  <1> DEFINE S == SignaturesIn(l, t)
             G == GrantsIn(l, t)
             of(i) == CHOOSE g \in Grants :
                        GrantedFor(g, l, audit[i].req, i, audit[i].ts)
             new == {i \in S : of(i).at + RateWindow > t}
             f == [i \in new |-> of(i)]
  <1>1. ASSUME NEW i \in S
        PROVE  /\ i \in DOMAIN audit /\ audit[i].ts <= t /\ audit[i].ts + RateWindow > t
               /\ SignedFor(i, l)
               /\ of(i) \in Grants
               /\ GrantedFor(of(i), l, audit[i].req, i, audit[i].ts)
    <2>1. /\ i \in DOMAIN audit /\ audit[i].ts <= t /\ audit[i].ts + RateWindow > t
          /\ SignedFor(i, l)
      BY DEF SignaturesIn, SignedFor
    <2>2. \E g \in Grants : GrantedFor(g, l, audit[i].req, i, audit[i].ts)
      BY <2>1 DEF CompletionInv
    <2> QED
      BY <2>1, <2>2
  <1> HIDE DEF of
  <1>2. ASSUME NEW i \in S, NEW j \in S, i < j
        PROVE  of(j).at + RateWindow > t
    <2>1. i \in 1 .. j - 1
      BY <1>1, <1>2, <1>types
    <2>2. audit[i].ts <= of(j).at
      BY <1>1, <2>1 DEF GrantedFor
    <2>3. of(j).at \in Nat /\ audit[i].ts \in Nat /\ audit[i].ts + RateWindow > t
      BY <1>1, <1>types
    <2> QED
      BY <2>2, <2>3, <1>types
  <1>3. f \in Injection(new, G)
    <2>1. ASSUME NEW i \in new PROVE of(i) \in G
      <3>1. /\ of(i) \in granted[l] /\ of(i).at <= audit[i].ts /\ audit[i].ts <= t
            /\ of(i).at \in Nat /\ audit[i].ts \in Nat
        BY <1>1, <1>types DEF GrantedFor
      <3> QED
        BY <3>1, <1>types DEF GrantsIn
    <2>2. ASSUME NEW i \in new, NEW j \in new, of(i) = of(j) PROVE i = j
      <3>1. of(i).req = audit[i].req /\ of(j).req = audit[j].req
        BY <1>1 DEF GrantedFor
      <3> QED
        BY <1>1, <2>2, <3>1 DEF CompletionInv
    <2>3. f \in [new -> G]
      BY <2>1
    <2> QED
      BY <2>2, <2>3 DEF Injection, IsInjective
  <1>4. /\ IsFiniteSet(G) /\ Cardinality(G) <= RateLimit
        /\ Cardinality(G) \in Nat
    <2>1. IsFiniteSet(granted[l]) /\ Cardinality(G) <= RateLimit
      BY DEF GrantInv, BucketInv
    <2>2. G \in SUBSET granted[l]
      BY DEF GrantsIn
    <2> QED
      BY <2>1, <2>2, FS_Subset, FS_CardinalityType
  <1>5. /\ IsFiniteSet(new) /\ Cardinality(new) \in Nat
        /\ Cardinality(new) <= RateLimit
    <2> HIDE DEF new, f, G
    <2>1. IsFiniteSet(new) /\ Cardinality(new) <= Cardinality(G)
      BY <1>3, <1>4, FS_Injection
    <2> QED
      BY <2>1, <1>4, <1>types, FS_CardinalityType
  <1>6. CASE S = new
    <2>1. Cardinality(S) = Cardinality(new)
      BY <1>6
    <2> QED
      <3> HIDE DEF new
      <3>1. Cardinality(new) <= RateLimit + 1
        BY <1>5, <1>types
      <3>2. Cardinality(S) <= RateLimit + 1
        BY <2>1, <3>1
      <3> QED
        BY <3>2
  <1>7. CASE S # new
    <2>1. PICK m \in S : m \notin new
      BY <1>7
    <2>2. \A i \in S : i \in new \/ i = m
      <3>1. ASSUME NEW i \in S, i \notin new, i # m PROVE FALSE
        <4>1. i < m \/ m < i
          BY <1>1, <2>1, <3>1, <1>types
        <4> QED
          BY <1>2, <2>1, <3>1, <4>1
      <3> QED
        BY <3>1
    <2>3. S = new \cup {m}
      BY <2>1, <2>2
    <2>4. Cardinality(new \cup {m}) \in {Cardinality(new), Cardinality(new) + 1}
      <3> HIDE DEF new
      <3> QED
        BY <1>5, FS_AddElement
    <2>5. Cardinality(new \cup {m}) <= RateLimit + 1
      <3> HIDE DEF new
      <3> QED
        BY <2>4, <1>5, <1>types
    <2>6. Cardinality(S) <= RateLimit + 1
      <3> HIDE DEF S, new
      <3> QED
        BY <2>3, <2>5
    <2> QED
      BY <2>6
  <1> QED
    BY <1>6, <1>7

(* A minute of the log shows at most one signature of a label more than    *)
(* the limit (agent.go:181-207, the label's lock around rate check and     *)
(* signature).                                                             *)
THEOREM CompletionsBounded == Spec => []CompletionBound
  <1>1. TypeInv /\ GrantInv /\ CompletionInv => CompletionBound
    BY OneOldGrant DEF CompletionBound
  <1> QED
    BY TypeInit, TypeStep, LockInit, LockStep, AuditInit, AuditStep, GrantInit,
       GrantStep, CompletionInit, CompletionStep, <1>1, PTL DEF Spec

(***************************************************************************)
(* The refinement: Agent implements AuditedSigning.  The initial states    *)
(* map to initial states and every step to a step or a stutter.            *)
(***************************************************************************)
Phase  == [c \in Conns |-> PhaseOf(c)]
Answer == [c \in Conns |-> AnswerOf(c)]
Ledger == [i \in DOMAIN audit |-> [key |-> audit[i].key, result |-> audit[i].result]]

(* What the abstract state is made of.                                     *)
LEMMA SameState ==
    ASSUME UNCHANGED <<conn, audit>>
    PROVE  UNCHANGED Promise!vars
  BY DEF conn, Promise!vars, PhaseOf, Prompting, AnswerOf

(* A step of one connection changes its entries only.                      *)
LEMMA OneConnection ==
    ASSUME NEW c \in Conns,
           \A d \in Conns \ {c} : UNCHANGED <<pc[d], key[d], result[d]>>
    PROVE  /\ Phase' = [Phase EXCEPT ![c] = PhaseOf(c)']
           /\ Answer' = [Answer EXCEPT ![c] = AnswerOf(c)']
  <1>1. \A d \in Conns \ {c} :
            PhaseOf(d)' = PhaseOf(d) /\ AnswerOf(d)' = AnswerOf(d)
    BY DEF PhaseOf, Prompting, AnswerOf
  <1> QED
    BY <1>1 DEF Phase, Answer

LEMMA OneRecord ==
    ASSUME audit \in Seq(Records), NEW r \in Records, audit' = Append(audit, r)
    PROVE  Ledger' = Append(Ledger, [key |-> r.key, result |-> r.result])
  <1> DEFINE Entry(i) == [key |-> audit[i].key, result |-> audit[i].result]
  <1>1. /\ Len(audit) \in Nat /\ DOMAIN audit = 1 .. Len(audit)
        /\ \A i \in 1 .. Len(audit) : Entry(i) \in [key : Keys, result : Decisions]
    <2>1. \A i \in 1 .. Len(audit) : audit[i] \in Records
      OBVIOUS
    <2>2. \A i \in 1 .. Len(audit) : Entry(i) \in [key : Keys, result : Decisions]
      BY <2>1 DEF Records
    <2> QED
      BY <2>2
  <1>2. /\ Ledger = [i \in 1 .. Len(audit) |-> Entry(i)]
        /\ Ledger \in Seq([key : Keys, result : Decisions])
    BY <1>1 DEF Ledger
  <1>3. DOMAIN Ledger = 1 .. Len(audit) /\ Len(Ledger) = Len(audit)
    BY <1>1, <1>2
  <1>4. /\ audit' \in Seq(Records) /\ DOMAIN audit' = 1 .. Len(audit) + 1
        /\ audit'[Len(audit) + 1] = r
        /\ \A i \in 1 .. Len(audit) : audit'[i] = audit[i]
    BY <1>1
  <1>5. /\ DOMAIN Ledger' = 1 .. Len(audit) + 1
        /\ Ledger'[Len(audit) + 1] = [key |-> r.key, result |-> r.result]
        /\ \A i \in 1 .. Len(audit) : Ledger'[i] = Ledger[i]
    BY <1>1, <1>4 DEF Ledger
  <1> QED
    BY <1>1, <1>2, <1>3, <1>5 DEF Ledger

LEMMA PromiseInit == Init => Promise!Init
  <1> SUFFICES ASSUME Init PROVE Promise!Init
    OBVIOUS
  <1>1. \A c \in Conns : PhaseOf(c) = "idle" /\ AnswerOf(c) = "none"
    BY DEF Init, PhaseOf, AnswerOf, Prompting
  <1>2. Ledger = <<>>
    BY DEF Init, Ledger
  <1> QED
    BY <1>1, <1>2 DEF Init, Promise!Init, Ledger

LEMMA PromiseStep ==
    TypeInv /\ LockInv /\ TypeInv' /\ [Next]_vars
        => [Promise!Next]_(Promise!vars)
  <1> SUFFICES ASSUME TypeInv, LockInv, TypeInv', [Next]_vars
               PROVE  Promise!Next \/ UNCHANGED Promise!vars
    OBVIOUS
  <1>types. /\ pc \in [Conns -> PCs] /\ result \in [Conns -> Results]
            /\ key \in [Conns -> Keys \cup {None}] /\ req \in [Conns -> ReqNums]
            /\ audit \in Seq(Records)
            /\ \A c \in Conns : pc[c] \in {"audit", "return"} => result[c] \in Decisions
            /\ \A c \in Conns : pc[c] \in Undecided => result[c] = "none"
            /\ \A c \in Conns : pc[c] = "reply" => result[c] # "none"
    BY DEF TypeInv, TypeOK, ServingOK
  (* A step within signFor that neither decides nor records: Phase of c is *)
  (* all it may change.                                                    *)
  <1>still. ASSUME NEW c \in Conns, UNCHANGED <<key, audit>>,
                   \A d \in Conns \ {c} : UNCHANGED <<pc[d], result[d]>>,
                   PhaseOf(c)' = PhaseOf(c), AnswerOf(c)' = AnswerOf(c)
            PROVE  UNCHANGED Promise!vars
    <2>1. Phase' = Phase /\ Answer' = Answer /\ Ledger' = Ledger
      BY <1>still, OneConnection DEF Phase, Answer, Ledger
    <2> QED
      BY <1>still, <2>1 DEF Phase, Answer, Ledger, Promise!vars
  <1>1. CASE Tick
    BY <1>1, SameState DEF Tick
  <1>2. ASSUME NEW k \in Churning, Generate(k) \/ Delete(k)
        PROVE  UNCHANGED Promise!vars
    BY <1>2, SameState DEF Generate, Delete
  <1>3. ASSUME NEW c \in Conns, NEW k \in Keys, SendRequest(c, k)
        PROVE  Promise!Ask(c, k)
    <2>1. /\ pc[c] = "idle" /\ pc'[c] = "lookup" /\ key' = [key EXCEPT ![c] = k]
          /\ UNCHANGED <<audit, result>>
          /\ \A d \in Conns \ {c} : UNCHANGED <<pc[d], key[d], result[d]>>
      BY <1>3, <1>types DEF SendRequest, Go
    <2>2. /\ PhaseOf(c) = "idle" /\ PhaseOf(c)' = "pending"
          /\ AnswerOf(c) = "none" /\ AnswerOf(c)' = "none"
      BY <2>1 DEF PhaseOf, AnswerOf, Prompting
    <2>3. Phase' = [Phase EXCEPT ![c] = "pending"] /\ Phase[c] = "idle"
      BY <2>1, <2>2, OneConnection DEF Phase
    <2>4. Answer' = Answer
      BY <2>1, <2>2, OneConnection DEF Answer
    <2>5. Ledger' = Ledger
      BY <2>1 DEF Ledger
    <2> QED
      BY <2>1, <2>3, <2>4, <2>5
      DEF Promise!Ask, Promise!Move, Phase, Answer, Ledger
  <1>4. ASSUME NEW c \in Conns, Lookup(c) \/ AcquireKeyMu(c)
        PROVE  UNCHANGED Promise!vars
    <2>1. /\ pc[c] \in {"lookup", "keylock"} /\ pc'[c] \in {"keylock", "check"}
          /\ UNCHANGED <<key, audit, result>>
          /\ \A d \in Conns \ {c} : UNCHANGED pc[d]
      BY <1>4, <1>types DEF Lookup, AcquireKeyMu, Go
    <2>2. PhaseOf(c)' = PhaseOf(c) /\ AnswerOf(c)' = AnswerOf(c)
      BY <2>1 DEF PhaseOf, AnswerOf, Prompting
    <2> QED
      BY <2>1, <2>2, <1>still
  <1>5. ASSUME NEW c \in Conns, NoMatch(c) PROVE Promise!NoSuchKey(c)
    <2>1. /\ pc[c] = "lookup" /\ pc'[c] = "reply" /\ result'[c] = "nokey"
          /\ UNCHANGED <<key, audit>>
          /\ \A d \in Conns \ {c} : UNCHANGED <<pc[d], key[d], result[d]>>
      BY <1>5, <1>types DEF NoMatch, Go
    <2>2. /\ PhaseOf(c) = "pending" /\ PhaseOf(c)' = "decided"
          /\ AnswerOf(c)' = "nokey"
      BY <2>1 DEF PhaseOf, AnswerOf, Prompting
    <2>3. /\ Phase' = [Phase EXCEPT ![c] = "decided"] /\ Phase[c] = "pending"
          /\ Answer' = [Answer EXCEPT ![c] = "nokey"] /\ Ledger' = Ledger
      BY <2>1, <2>2, OneConnection DEF Phase, Ledger
    <2> QED
      BY <2>1, <2>3 DEF Promise!NoSuchKey, Promise!Move, Phase, Answer, Ledger
  <1>6. ASSUME NEW c \in Conns, RejectCaller(c) \/ RejectRate(c)
        PROVE  UNCHANGED Promise!vars
    <2>1. PICK why \in {"caller", "keyrule", "rate"} : Refuse(c, "check", why)
      BY <1>6 DEF RejectCaller, RejectRate
    <2>2. /\ pc[c] = "check" /\ pc'[c] = "audit" /\ result'[c] = why
          /\ UNCHANGED <<key, audit>>
          /\ \A d \in Conns \ {c} : UNCHANGED <<pc[d], result[d]>>
      BY <2>1, <1>types DEF Refuse, Go
    <2>3. PhaseOf(c)' = PhaseOf(c) /\ AnswerOf(c)' = AnswerOf(c)
      BY <2>2 DEF PhaseOf, AnswerOf, Prompting
    <2> QED
      BY <2>2, <2>3, <1>still
  <1>7. ASSUME NEW c \in Conns, Admit(c) PROVE UNCHANGED Promise!vars
    <2>1. /\ pc[c] = "check"
          /\ pc'[c] = IF key[c] \in TouchKeys THEN "touchlock" ELSE "sign"
          /\ UNCHANGED <<key, audit, result>>
          /\ \A d \in Conns \ {c} : UNCHANGED pc[d]
      BY <1>7, <1>types DEF Admit, AdmitTo, Go
    <2>2. PhaseOf(c)' = PhaseOf(c) /\ AnswerOf(c)' = AnswerOf(c)
      BY <2>1 DEF PhaseOf, AnswerOf, Prompting
    <2> QED
      BY <2>1, <2>2, <1>still
  <1>8. ASSUME NEW c \in Conns, AcquireBiometricMu(c) PROVE Promise!Prompt(c)
    <2>1. /\ pc[c] = "touchlock" /\ pc'[c] = "sign" /\ biometricMu = None
          /\ UNCHANGED <<key, audit, result>>
          /\ \A d \in Conns \ {c} : UNCHANGED <<pc[d], key[d], result[d]>>
      BY <1>8, <1>types DEF AcquireBiometricMu, Go
    <2>2. key[c] \in TouchKeys /\ \A d \in Conns : ~Prompting(d)
      BY <2>1, KeyAssumption
      DEF LockInv, BiometricMuInv, HoldsBiometricMu, Prompting
    <2>3. /\ PhaseOf(c) = "pending" /\ PhaseOf(c)' = "prompting"
          /\ AnswerOf(c)' = AnswerOf(c)
      BY <2>1, <2>2 DEF PhaseOf, AnswerOf, Prompting
    <2>4. /\ Phase' = [Phase EXCEPT ![c] = "prompting"] /\ Phase[c] = "pending"
          /\ Answer' = Answer /\ Ledger' = Ledger
      BY <2>1, <2>3, OneConnection DEF Phase, Answer, Ledger
    <2>5. \A d \in Conns : Phase[d] # "prompting"
      BY <2>2 DEF Phase, PhaseOf
    <2> QED
      BY <2>1, <2>2, <2>4, <2>5
      DEF Promise!Prompt, Promise!Move, Phase, Answer, Ledger
  <1>9. ASSUME NEW c \in Conns, NEW o \in Outcomes, SignReturns(c, o)
        PROVE  Promise!Resolve(c) \/ UNCHANGED Promise!vars
    <2>1. /\ pc[c] = "sign" /\ pc'[c] = "audit"
          /\ result'[c] \in {"signed", "signerr"}
          /\ UNCHANGED <<key, audit>>
          /\ \A d \in Conns \ {c} : UNCHANGED <<pc[d], key[d], result[d]>>
      BY <1>9, <1>types DEF SignReturns, Go
    <2>2. CASE key[c] \in TouchKeys
      <3>1. /\ PhaseOf(c) = "prompting" /\ PhaseOf(c)' = "resolved"
            /\ AnswerOf(c)' = AnswerOf(c)
        BY <2>1, <2>2 DEF PhaseOf, AnswerOf, Prompting
      <3>2. /\ Phase' = [Phase EXCEPT ![c] = "resolved"] /\ Phase[c] = "prompting"
            /\ Answer' = Answer /\ Ledger' = Ledger
        BY <2>1, <3>1, OneConnection DEF Phase, Answer, Ledger
      <3> QED
        BY <2>1, <3>2 DEF Promise!Resolve, Promise!Move, Phase, Answer, Ledger
    <2>3. CASE key[c] \notin TouchKeys
      <3>1. PhaseOf(c)' = PhaseOf(c) /\ AnswerOf(c)' = AnswerOf(c)
        BY <2>1, <2>3 DEF PhaseOf, AnswerOf, Prompting
      <3> QED
        BY <2>1, <3>1, <1>still
    <2> QED
      BY <2>2, <2>3
  <1>10. ASSUME NEW c \in Conns, Audit(c)
         PROVE  \E decision \in Decisions : Promise!Decide(c, decision)
    <2> DEFINE record == [req |-> req[c], key |-> key[c],
                          result |-> result[c], ts |-> clock]
    <2>1. /\ pc[c] = "audit" /\ pc'[c] = "return" /\ audit' = Append(audit, record)
          /\ UNCHANGED <<key, result>>
          /\ \A d \in Conns \ {c} : UNCHANGED <<pc[d], key[d], result[d]>>
      BY <1>10, <1>types DEF Audit, Go
    <2>2. record \in Records /\ result[c] \in Decisions
      BY <2>1, <1>types DEF TypeInv, TypeOK, ServingOK, Records
    <2>3. /\ PhaseOf(c) \in {"pending", "resolved"} /\ PhaseOf(c)' = "decided"
          /\ key[c] \in TouchKeys /\ result[c] = "signed" => PhaseOf(c) = "resolved"
          /\ AnswerOf(c)' = result[c]
      BY <2>1 DEF PhaseOf, AnswerOf, Prompting
    <2>4. /\ Phase' = [Phase EXCEPT ![c] = "decided"] /\ Phase[c] = PhaseOf(c)
          /\ Answer' = [Answer EXCEPT ![c] = result[c]]
      BY <2>1, <2>3, OneConnection DEF Phase
    <2>5. Ledger' = Append(Ledger, [key |-> key[c], result |-> result[c]])
      BY <2>1, <2>2, <1>types, OneRecord
    <2>6. PICK decision \in Decisions : decision = result[c]
      BY <2>2
    <2>7. Promise!Decide(c, decision)
      BY <2>1, <2>3, <2>4, <2>5, <2>6
      DEF Promise!Decide, Promise!Move, Phase, Answer, Ledger
    <2> QED
      BY <2>7
  <1>11. ASSUME NEW c \in Conns, Return(c) PROVE UNCHANGED Promise!vars
    <2>1. /\ pc[c] = "return" /\ pc'[c] = "reply" /\ UNCHANGED <<key, audit, result>>
          /\ \A d \in Conns \ {c} : UNCHANGED pc[d]
      BY <1>11, <1>types DEF Return, Go
    <2>2. PhaseOf(c)' = PhaseOf(c) /\ AnswerOf(c)' = AnswerOf(c)
      BY <2>1 DEF PhaseOf, AnswerOf, Prompting
    <2> QED
      BY <2>1, <2>2, <1>still
  <1>12. ASSUME NEW c \in Conns, Reply(c) PROVE Promise!Answer(c)
    <2>1. /\ pc[c] = "reply" /\ pc'[c] = "idle" /\ UNCHANGED audit
          /\ key' = [key EXCEPT ![c] = None]
          /\ \A d \in Conns \ {c} : UNCHANGED <<pc[d], key[d], result[d]>>
      BY <1>12, <1>types DEF Reply, Go
    <2>2. /\ PhaseOf(c) = "decided" /\ PhaseOf(c)' = "idle" /\ AnswerOf(c)' = "none"
      BY <2>1 DEF PhaseOf, AnswerOf, Prompting
    <2>3. /\ Phase' = [Phase EXCEPT ![c] = "idle"] /\ Phase[c] = "decided"
          /\ Answer' = [Answer EXCEPT ![c] = "none"] /\ Ledger' = Ledger
      BY <2>1, <2>2, OneConnection DEF Phase, Ledger
    <2> QED
      BY <2>1, <2>3 DEF Promise!Answer, Promise!Move, Phase, Answer, Ledger
  <1>13. CASE Finished \/ UNCHANGED vars
    BY <1>13, SameState DEF Finished, vars
  <1>14. ASSUME NEW c \in Conns, Sign(c) PROVE Promise!Next \/ UNCHANGED Promise!vars
    <2>1. CASE NoMatch(c)
      BY <2>1, <1>5 DEF Promise!Next
    <2>2. CASE AcquireBiometricMu(c)
      BY <2>2, <1>8 DEF Promise!Next
    <2>3. ASSUME NEW o \in Outcomes, SignReturns(c, o)
          PROVE  Promise!Next \/ UNCHANGED Promise!vars
      BY <2>3, <1>9 DEF Promise!Next
    <2>4. CASE Audit(c)
      BY <2>4, <1>10 DEF Promise!Next
    <2> QED
      BY <1>14, <1>4, <1>6, <1>7, <1>11, <2>1, <2>2, <2>3, <2>4 DEF Sign
  <1>15. ASSUME NEW c \in Conns, Reply(c) PROVE Promise!Next
    BY <1>12, <1>15 DEF Promise!Next
  <1>16. ASSUME NEW c \in Conns, NEW k \in Keys, SendRequest(c, k) PROVE Promise!Next
    BY <1>3, <1>16 DEF Promise!Next
  <1> QED
    BY <1>1, <1>2, <1>13, <1>14, <1>15, <1>16 DEF Next

(* The signing path (agent.go signFor) implements the audited signing      *)
(* service: one decision per request, recorded before it can be seen,      *)
(* touched before signed where the key asks for it.                        *)
THEOREM PromiseKept == Spec => KeepsPromise
  BY TypeInit, TypeStep, LockInit, LockStep, PromiseInit, PromiseStep, PTL
  DEF Spec, KeepsPromise, Promise!Spec
=============================================================================
