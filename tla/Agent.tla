--------------------------------- MODULE Agent ---------------------------------
(***************************************************************************)
(* The signing path of the agent (agent.go): connections that each serve   *)
(* one request at a time, the key directory other processes change under   *)
(* the agent, the per-label lock, the lock around the Touch ID prompt, the *)
(* caller and rate policy, the stall detector and the audit record every   *)
(* decision leaves.  One action per step of signFor that touches state     *)
(* shared between connections.                                             *)
(*                                                                         *)
(* Left out: the text of messages, the notifications (fire-and-forget      *)
(* goroutines that change no state of the agent) and List / Signers, which *)
(* only read the key directory.  NewSignerFromKey cannot fail for a key    *)
(* that matched: ssh.NewPublicKey has just accepted the same public key.   *)
(***************************************************************************)
EXTENDS Naturals, FiniteSets, Sequences, RateBucket, Stall

CONSTANTS
    Conns,          \* connections, one serving goroutine each
    Labels,         \* key labels
    Keys,           \* Secure Enclave keys that may ever be generated
    LabelOf,        \* the label each key is filed under
    TouchKeys,      \* the keys that require touch
    InitialStore,   \* the keys on disk when the agent starts
    Churning,       \* the keys other processes may create or delete meanwhile
    PolicyAllows,   \* the connections whose peer passes PeerPolicy.CheckCaller
    KeyAllows,      \* for each key, the connections its own CallerRules admit
    MaxClock,       \* bound on the clock
    MaxRequests,    \* bound on the requests ever read
    None

ASSUME KeyAssumption ==
    /\ LabelOf \in [Keys -> Labels]
    /\ TouchKeys \subseteq Keys
    /\ InitialStore \subseteq Keys
    /\ Churning \subseteq Keys
    /\ PolicyAllows \subseteq Conns
    /\ KeyAllows \in [Keys -> SUBSET Conns]
    /\ None \notin Conns /\ None \notin Keys
ASSUME BoundAssumption ==
    /\ MaxClock \in Nat
    /\ MaxRequests \in Nat

VARIABLES
    store,          \* the key directory: the keys List() returns
    born,           \* the keys ever generated (no Secure Enclave key returns)
    deletedAt,      \* history: requests read before a key was deleted
    clock,          \* time.Now()
    pc,             \* per connection, where its goroutine is
    req,            \* the number of the request being served, 0 for none
    key,            \* the key that request asks for
    result,         \* what signFor has decided so far
    keyMu,          \* per label, the connection that holds its lock
    biometricMu,    \* the connection that holds the biometric lock
    rates,          \* per label, its rate bucket
    granted,        \* history: per label, every grant of the rate limiter
    stall,          \* the stall detector
    audit,          \* the audit records written
    reqs            \* the number of requests read

disk   == <<store, born, deletedAt>>
conn   == <<pc, req, key, result>>
locks  == <<keyMu, biometricMu>>
limits == <<rates, granted, stall>>
vars   == <<disk, clock, conn, locks, limits, audit, reqs>>

(***************************************************************************)
(* Types                                                                   *)
(***************************************************************************)
(* "idle": no request being served; "lookup" .. "return": inside signFor;   *)
(* "reply": signFor has returned.                                          *)
PCs == {"idle", "lookup", "keylock", "check", "touchlock", "sign", "audit",
        "return", "reply"}

Results == {"none", "nokey", "caller", "keyrule", "rate", "signerr", "signed"}

(* What signFor decides after it has matched a key: one audit record each. *)
Decisions == Results \ {"none", "nokey"}

Time    == 0 .. MaxClock
ReqNums == 0 .. MaxRequests
Grants  == [req : ReqNums, at : Time]
Records == [req : ReqNums, key : Keys, result : Decisions, ts : Time]

TypeOK ==
    /\ store \subseteq Keys
    /\ born \subseteq Keys
    /\ deletedAt \in [Keys -> ReqNums]
    /\ clock \in Time
    /\ pc \in [Conns -> PCs]
    /\ req \in [Conns -> ReqNums]
    /\ key \in [Conns -> Keys \cup {None}]
    /\ result \in [Conns -> Results]
    /\ keyMu \in [Labels -> Conns \cup {None}]
    /\ biometricMu \in Conns \cup {None}
    /\ rates \in [Labels -> SUBSET Grants]
    /\ granted \in [Labels -> SUBSET Grants]
    /\ stall \in [count : Nat, start : Nat]
    /\ audit \in Seq(Records)
    /\ reqs \in ReqNums

Init ==
    /\ store = InitialStore
    /\ born = InitialStore
    /\ deletedAt = [k \in Keys |-> 0]
    /\ clock = 0
    /\ pc = [c \in Conns |-> "idle"]
    /\ req = [c \in Conns |-> 0]
    /\ key = [c \in Conns |-> None]
    /\ result = [c \in Conns |-> "none"]
    /\ keyMu = [l \in Labels |-> None]
    /\ biometricMu = None
    /\ rates = [l \in Labels |-> {}]
    /\ granted = [l \in Labels |-> {}]
    /\ stall = StallInit
    /\ audit = <<>>
    /\ reqs = 0

Go(c, from, to) == pc[c] = from /\ pc' = [pc EXCEPT ![c] = to]

Label(c) == LabelOf[key[c]]

(***************************************************************************)
(* The environment: time, other processes, clients                         *)
(***************************************************************************)
Tick ==
    /\ clock < MaxClock
    /\ clock' = clock + 1
    /\ UNCHANGED <<disk, conn, locks, limits, audit, reqs>>

(* `touchid-agent -create`, another process: refused while the label has a *)
(* keyfile.                                                                *)
Generate(k) ==
    /\ k \notin born
    /\ \A j \in store : LabelOf[j] # LabelOf[k]
    /\ store' = store \cup {k}
    /\ born' = born \cup {k}
    /\ UNCHANGED <<deletedAt, clock, conn, locks, limits, audit, reqs>>

(* `touchid-agent -delete`, another process.                               *)
Delete(k) ==
    /\ k \in store
    /\ store' = store \ {k}
    /\ deletedAt' = [deletedAt EXCEPT ![k] = reqs]
    /\ UNCHANGED <<born, clock, conn, locks, limits, audit, reqs>>

(* A request for a signature with k reaches the goroutine of c.            *)
SendRequest(c, k) ==
    /\ reqs < MaxRequests
    /\ k \in born
    /\ Go(c, "idle", "lookup")
    /\ reqs' = reqs + 1
    /\ req' = [req EXCEPT ![c] = reqs + 1]
    /\ key' = [key EXCEPT ![c] = k]
    /\ UNCHANGED <<disk, clock, result, locks, limits, audit>>

(***************************************************************************)
(* signFor                                                                 *)
(***************************************************************************)
(* Mutant: a listing that still holds keys deleted since.                  *)
Lookup_Stale(c) ==
    /\ Go(c, "lookup", "keylock")
    /\ UNCHANGED <<disk, clock, req, key, result, locks,
                   limits, audit, reqs>>

(* The snapshot of the key directory holds the key: from here on the       *)
(* request uses that snapshot, whatever happens on disk.                   *)
Lookup(c) ==
    /\ key[c] \in store
    /\ Go(c, "lookup", "keylock")
    /\ UNCHANGED <<disk, clock, req, key, result, locks,
                   limits, audit, reqs>>

(* Mutant: a request that matched no key goes on to the audit record.      *)
NoMatch_Audits(c) ==
    /\ Go(c, "lookup", "audit")
    /\ result' = [result EXCEPT ![c] = "nokey"]
    /\ UNCHANGED <<disk, clock, req, key, locks, limits,
                   audit, reqs>>

(* No key matches, or the directory cannot be listed: an error with no     *)
(* audit record.                                                           *)
NoMatch(c) ==
    /\ Go(c, "lookup", "reply")
    /\ result' = [result EXCEPT ![c] = "nokey"]
    /\ UNCHANGED <<disk, clock, req, key, locks, limits,
                   audit, reqs>>

(* Mutant: no per-label lock.                                              *)
AcquireKeyMu_Unguarded(c) ==
    /\ Go(c, "keylock", "check")
    /\ keyMu' = [keyMu EXCEPT ![Label(c)] = c]
    /\ UNCHANGED <<disk, clock, req, key, result,
                   biometricMu, limits, audit, reqs>>

(* keyLock(label).Lock()                                                   *)
AcquireKeyMu(c) ==
    /\ Go(c, "keylock", "check")
    /\ keyMu[Label(c)] = None
    /\ keyMu' = [keyMu EXCEPT ![Label(c)] = c]
    /\ UNCHANGED <<disk, clock, req, key, result,
                   biometricMu, limits, audit, reqs>>

(* A refusal or a failure on the way: signFor goes on to its audit record. *)
Refuse(c, from, why) ==
    /\ Go(c, from, "audit")
    /\ result' = [result EXCEPT ![c] = why]
    /\ UNCHANGED <<disk, clock, req, key, locks, audit, reqs>>

(* CheckRate and the bucket it leaves: pruned even when it refuses.  With  *)
(* the limiter off the bucket is not touched.                              *)
TakeToken(c) ==
    rates' = IF RateLimit = 0 THEN rates
             ELSE [rates EXCEPT ![Label(c)] =
                       AfterAllow(rates[Label(c)], req[c], clock)]

(* Mutant: the rate is checked before the key's caller rules.              *)
RejectCaller_SpendsToken(c) ==
    /\ Refuse(c, "check", "keyrule")
    /\ c \notin KeyAllows[key[c]]
    /\ TakeToken(c)
    /\ UNCHANGED <<granted, stall>>

(* The global policy, then the key's own caller rules.                     *)
RejectCaller(c) ==
    /\ \/ Refuse(c, "check", "caller") /\ c \notin PolicyAllows
       \/ /\ Refuse(c, "check", "keyrule")
          /\ c \in PolicyAllows
          /\ c \notin KeyAllows[key[c]]
    /\ UNCHANGED limits

CallerAllowed(c) == c \in PolicyAllows /\ c \in KeyAllows[key[c]]

(* Mutant: the refusal returns without its audit record.                   *)
RejectRate_Unaudited(c) ==
    /\ Go(c, "check", "return")
    /\ CallerAllowed(c)
    /\ result' = [result EXCEPT ![c] = "rate"]
    /\ ~Granted(rates[Label(c)], clock)
    /\ TakeToken(c)
    /\ UNCHANGED <<disk, clock, req, key, locks, granted, stall, audit, reqs>>

RejectRate(c) ==
    /\ Refuse(c, "check", "rate")
    /\ CallerAllowed(c)
    /\ ~Granted(rates[Label(c)], clock)
    /\ TakeToken(c)
    /\ UNCHANGED <<granted, stall>>

AdmitTo(c, next) ==
    /\ Go(c, "check", next)
    /\ CallerAllowed(c)
    /\ Granted(rates[Label(c)], clock)
    /\ TakeToken(c)
    /\ granted' = [granted EXCEPT ![Label(c)] =
                       @ \cup {[req |-> req[c], at |-> clock]}]
    /\ UNCHANGED <<disk, clock, req, key, result, locks, stall, audit, reqs>>

(* Mutant: every key queues for the biometric lock.                        *)
Admit_AlwaysLocks(c) == AdmitTo(c, "touchlock")

(* A granted request of a touch key goes on to the biometric lock.         *)
Admit(c) == AdmitTo(c, IF key[c] \in TouchKeys THEN "touchlock" ELSE "sign")

(* Mutant: prompts are not serialized.                                     *)
AcquireBiometricMu_Unguarded(c) ==
    /\ Go(c, "touchlock", "sign")
    /\ biometricMu' = c
    /\ UNCHANGED <<disk, clock, req, key, result, keyMu,
                   limits, audit, reqs>>

(* biometricMu.Lock(): the next thing the goroutine does is raise the      *)
(* prompt.                                                                 *)
AcquireBiometricMu(c) ==
    /\ Go(c, "touchlock", "sign")
    /\ biometricMu = None
    /\ biometricMu' = c
    /\ UNCHANGED <<disk, clock, req, key, result, keyMu,
                   limits, audit, reqs>>

(* signer.Sign returns.  The outcome of a prompt is noted for the stall    *)
(* detector under the biometric lock; a key without touch has no prompt to *)
(* dismiss, and its outcomes are not noted.                                *)
SignReturns(c, outcome) ==
    /\ Go(c, "sign", "audit")
    /\ outcome = "noncompletion" => key[c] \in TouchKeys
    /\ result' = [result EXCEPT ![c] =
                     IF outcome = "completed" THEN "signed" ELSE "signerr"]
    /\ stall' = IF key[c] \in TouchKeys
                  THEN NoteOutcome(stall, outcome, clock) ELSE stall
    /\ UNCHANGED <<disk, clock, req, key, locks, rates,
                   granted, audit, reqs>>

(* audit.Sign, with the locks still held.                                  *)
Audit(c) ==
    /\ Go(c, "audit", "return")
    /\ audit' = Append(audit, [req |-> req[c], key |-> key[c],
                                result |-> result[c], ts |-> clock])
    /\ UNCHANGED <<disk, clock, req, key, result, locks,
                   limits, reqs>>

(* Mutant: the biometric lock is not released.                             *)
Return_KeepsBiometricMu(c) ==
    /\ Go(c, "return", "reply")
    /\ keyMu' = [keyMu EXCEPT ![Label(c)] = None]
    /\ UNCHANGED <<disk, clock, req, key, result,
                   biometricMu, limits, audit, reqs>>

(* The deferred unlocks.                                                   *)
Return(c) ==
    /\ Go(c, "return", "reply")
    /\ keyMu' = [keyMu EXCEPT ![Label(c)] = None]
    /\ biometricMu' = IF biometricMu = c THEN None ELSE biometricMu
    /\ UNCHANGED <<disk, clock, req, key, result, limits,
                   audit, reqs>>

(* The reply is written, or lost because the client is gone or the         *)
(* connection's deadline has passed: signFor cannot tell.                  *)
Reply(c) ==
    /\ Go(c, "reply", "idle")
    /\ req' = [req EXCEPT ![c] = 0]
    /\ key' = [key EXCEPT ![c] = None]
    /\ result' = [result EXCEPT ![c] = "none"]
    /\ UNCHANGED <<disk, clock, locks, limits, audit, reqs>>

(***************************************************************************)
(* Specification                                                           *)
(***************************************************************************)
Sign(c) == \/ Lookup(c) \/ NoMatch(c)
           \/ AcquireKeyMu(c)
           \/ RejectCaller(c) \/ RejectRate(c) \/ Admit(c)
           \/ AcquireBiometricMu(c)
           \/ \E o \in Outcomes : SignReturns(c, o)
           \/ Audit(c)
           \/ Return(c)

(* The bound on requests is reached and all of them are answered: anything *)
(* else without a successor is a deadlock of the agent.                    *)
Finished ==
    /\ reqs = MaxRequests
    /\ \A c \in Conns : pc[c] = "idle"
    /\ UNCHANGED vars

Next == \/ Tick
        \/ \E k \in Churning : Generate(k) \/ Delete(k)
        \/ \E c \in Conns : \/ \E k \in Keys : SendRequest(c, k)
                            \/ Sign(c)
                            \/ Reply(c)
        \/ Finished

Spec == Init /\ [][Next]_vars

(***************************************************************************)
(* Safety                                                                  *)
(***************************************************************************)
Prompting(c) == pc[c] = "sign" /\ key[c] \in TouchKeys

(* Two Touch ID prompts are never up together: two evaluations would       *)
(* cancel each other (the comment on biometricMu, agent.go:29).            *)
OnePrompt ==
    \A c, d \in Conns : Prompting(c) /\ Prompting(d) => c = d

RecordsOf(r) == {i \in DOMAIN audit : audit[i].req = r}

(* By the time signFor releases its locks, let alone answers, the request  *)
(* has exactly one audit record and the record tells its decision; before  *)
(* that it has none.  A request that matched no key never has one.  So no  *)
(* early return, and no retry, skips or doubles the record.                *)
AuditedOnce ==
    \A c \in Conns :
        CASE pc[c] = "idle" -> TRUE
          [] pc[c] \in {"return", "reply"} /\ result[c] # "nokey" ->
                \E i \in DOMAIN audit :
                    /\ RecordsOf(req[c]) = {i}
                    /\ audit[i].result = result[c]
                    /\ audit[i].key = key[c]
          [] OTHER -> RecordsOf(req[c]) = {}

(* In the minute that ends at any instant the limiter has granted at most  *)
(* RateLimit requests for a label, whoever asked and whatever was refused  *)
(* in between (policy.go, allow).                                          *)
GrantsIn(l, t) == {g \in granted[l] : g.at <= t /\ g.at + RateWindow > t}

GrantBound ==
    RateLimit > 0 =>
        \A l \in Labels : \A t \in 0 .. clock :
            Cardinality(GrantsIn(l, t)) <= RateLimit

(* What the limit bounds is checks; signatures come later, after a prompt  *)
(* of any length.  Because the label's lock is held from the check to the  *)
(* audit record, at most one signature can have been granted before the    *)
(* minute in which it is recorded: a minute of the log shows at most       *)
(* RateLimit + 1 signatures per label.                                     *)
SignaturesIn(l, t) ==
    {i \in DOMAIN audit : /\ audit[i].result = "signed"
                          /\ LabelOf[audit[i].key] = l
                          /\ audit[i].ts <= t
                          /\ audit[i].ts + RateWindow > t}

CompletionBound ==
    RateLimit > 0 =>
        \A l \in Labels : \A t \in 0 .. clock :
            Cardinality(SignaturesIn(l, t)) <= RateLimit + 1

(* Only a request that goes on to sign spends a label's budget: refusals,  *)
(* by the policy, the key's rules or the limiter itself, never use it up,  *)
(* so a caller that is not admitted cannot starve one that is.             *)
BudgetSpentOnAttempts ==
    \A l \in Labels : \A g \in rates[l] :
        \A i \in RecordsOf(g.req) : audit[i].result \in {"signed", "signerr"}

(* The directory snapshot a request works from may be stale by the time it *)
(* signs, but never older than the request: a request read after a key was *)
(* deleted is never signed with it, even if its label was created anew.    *)
DeletedKeySignsNothingNew ==
    \A i \in DOMAIN audit :
        audit[i].result = "signed" =>
            audit[i].key \in store \/ audit[i].req <= deletedAt[audit[i].key]

(***************************************************************************)
(* The service implements what the agent promises.                         *)
(***************************************************************************)
PhaseOf(c) ==
    CASE pc[c] = "idle" -> "idle"
      [] pc[c] \in {"return", "reply"} -> "decided"
      [] Prompting(c) -> "prompting"
      [] pc[c] = "audit" /\ key[c] \in TouchKeys
            /\ result[c] \in {"signed", "signerr"} -> "resolved"
      [] OTHER -> "pending"

AnswerOf(c) == IF pc[c] \in {"return", "reply"} THEN result[c] ELSE "none"

Promise == INSTANCE AuditedSigning WITH
    phase  <- [c \in Conns |-> PhaseOf(c)],
    asked  <- key,
    answer <- [c \in Conns |-> AnswerOf(c)],
    ledger <- [i \in DOMAIN audit |->
                   [key |-> audit[i].key, result |-> audit[i].result]]

(* Every behaviour of the signing path is a behaviour of AuditedSigning:   *)
(* decided at most once, recorded before answered, touched before signed,  *)
(* one prompt at a time, whatever the interleaving of connections.         *)
KeepsPromise == Promise!Spec

(***************************************************************************)
(* Liveness                                                                *)
(***************************************************************************)
(* What a goroutine does without waiting for a touch.                      *)
Advances(c) ==
    \/ Lookup(c) \/ NoMatch(c) \/ AcquireKeyMu(c)
    \/ RejectCaller(c) \/ RejectRate(c) \/ Admit(c) \/ AcquireBiometricMu(c)
    \/ key[c] \notin TouchKeys /\ \E o \in Outcomes : SignReturns(c, o)
    \/ Audit(c) \/ Return(c) \/ Reply(c)

(* A goroutine that can take a step does, and a waiting Lock() is granted  *)
(* if the mutex keeps being released (sync.Mutex hands it to the longest   *)
(* waiter after a millisecond).  A goroutine is at one place at a time, so *)
(* strong fairness of all its steps together is fairness of each.  A       *)
(* prompt may stay up for ever, and nothing is assumed of clients, of      *)
(* other processes or of the clock.                                        *)
AgentFairness == \A c \in Conns : SF_vars(Advances(c))

FairSpec == Spec /\ AgentFairness

Busy(c) == pc[c] # "idle"

(* If no prompt stays up for ever, every request is answered: the label    *)
(* lock and the biometric lock, always taken in this order and released on *)
(* every path, never leave a request waiting for good.                     *)
EveryRequestEnds ==
    (\A c \in Conns : []<>~Prompting(c)) => \A c \in Conns : Busy(c) ~> ~Busy(c)

(* Even if a prompt never ends, a request for a key without touch does not *)
(* queue behind it, as long as its label never named a touch key (the      *)
(* comment on the biometric lock, agent.go:229).                           *)
Untouched(c) ==
    Busy(c) /\ \A k \in TouchKeys : LabelOf[k] # Label(c)

NoTouchNeverWaitsForTouch ==
    \A c \in Conns : Untouched(c) ~> ~Busy(c)
=============================================================================
