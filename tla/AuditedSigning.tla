----------------------------- MODULE AuditedSigning -----------------------------
(***************************************************************************)
(* What the agent promises of its signing service, without locks, clocks   *)
(* or policies: a request is decided at most once, its decision is in the  *)
(* audit log before anyone can see the answer, records are only ever       *)
(* added, a key that requires touch signs only after a Touch ID prompt,    *)
(* and there is never more than one prompt on the screen.  Only the answer *)
(* "nokey", for a request that names no key of the agent, leaves no record.*)
(***************************************************************************)
EXTENDS Sequences

CONSTANTS Conns, Keys, TouchKeys, Decisions, None

VARIABLES
    phase,      \* per connection: idle, pending, prompting, resolved, decided
    asked,      \* the key it asked for
    answer,     \* the answer it is being given
    ledger      \* the audit log: the key and the decision of each record

vars == <<phase, asked, answer, ledger>>

Init ==
    /\ phase = [c \in Conns |-> "idle"]
    /\ asked = [c \in Conns |-> None]
    /\ answer = [c \in Conns |-> "none"]
    /\ ledger = <<>>

Move(c, from, to) == phase[c] \in from /\ phase' = [phase EXCEPT ![c] = to]

Ask(c, k) ==
    /\ Move(c, {"idle"}, "pending")
    /\ asked' = [asked EXCEPT ![c] = k]
    /\ UNCHANGED <<answer, ledger>>

Prompt(c) ==
    /\ asked[c] \in TouchKeys
    /\ \A d \in Conns : phase[d] # "prompting"
    /\ Move(c, {"pending"}, "prompting")
    /\ UNCHANGED <<asked, answer, ledger>>

Resolve(c) ==
    /\ Move(c, {"prompting"}, "resolved")
    /\ UNCHANGED <<asked, answer, ledger>>

Decide(c, decision) ==
    /\ decision = "signed" /\ asked[c] \in TouchKeys => phase[c] = "resolved"
    /\ Move(c, {"pending", "resolved"}, "decided")
    /\ answer' = [answer EXCEPT ![c] = decision]
    /\ ledger' = Append(ledger, [key |-> asked[c], result |-> decision])
    /\ UNCHANGED asked

NoSuchKey(c) ==
    /\ Move(c, {"pending"}, "decided")
    /\ answer' = [answer EXCEPT ![c] = "nokey"]
    /\ UNCHANGED <<asked, ledger>>

Answer(c) ==
    /\ Move(c, {"decided"}, "idle")
    /\ asked' = [asked EXCEPT ![c] = None]
    /\ answer' = [answer EXCEPT ![c] = "none"]
    /\ UNCHANGED ledger

Next == \E c \in Conns :
    \/ \E k \in Keys : Ask(c, k)
    \/ Prompt(c) \/ Resolve(c) \/ NoSuchKey(c) \/ Answer(c)
    \/ \E decision \in Decisions : Decide(c, decision)

Spec == Init /\ [][Next]_vars
=============================================================================
