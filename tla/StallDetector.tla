------------------------------ MODULE StallDetector ------------------------------
(***************************************************************************)
(* What the user of the agent is told of prompts that fail, one by one     *)
(* (classifySignError) and as a run (noteBiometricOutcome), over sequences *)
(* of signatures in time.  The calls are serialized: every caller holds    *)
(* the biometric lock (module Agent), so one outcome at a time is enough.  *)
(***************************************************************************)
EXTENDS Stall, SignError, Sequences, FiniteSets

CONSTANTS
    MaxClock,       \* bound on the clock
    MaxOutcomes     \* bound on the outcomes observed

ASSUME DetectorAssumption == MaxClock \in Nat /\ MaxOutcomes \in Nat

VARIABLES
    clock,          \* time.Now()
    detector,       \* stallCount and stallStart
    past,           \* history: the prompts answered, and those the user was
                    \* told ended without an answer, oldest first
    alerts          \* history: how long past was at each alert

vars == <<clock, detector, past, alerts>>

Init ==
    /\ clock = 0
    /\ detector = StallInit
    /\ past = <<>>
    /\ alerts = {}

Tick ==
    /\ clock < MaxClock
    /\ clock' = clock + 1
    /\ UNCHANGED <<detector, past, alerts>>

(* How the signature went, as the detector reads it.                       *)
OutcomeOf(e) == IF isBiometricNonCompletion(e) THEN "noncompletion" ELSE "other"

Remember(what) ==
    /\ Len(past) < MaxOutcomes
    /\ past' = Append(past, [what |-> what, at |-> clock])

Note(outcome) ==
    /\ detector' = NoteOutcome(detector, outcome, clock)
    /\ alerts' = IF Alerts(detector, outcome, clock)
                 THEN alerts \cup {Len(past')} ELSE alerts
    /\ UNCHANGED clock

(* signer.Sign succeeds.                                                   *)
Succeed == Remember("answered") /\ Note("completed")

(* signer.Sign fails: the error is counted, or not, and explained.         *)
Fail(e) ==
    /\ IF classifySignError(e) \in Interrupted
         THEN Remember("interrupted") ELSE UNCHANGED past
    /\ Note(OutcomeOf(e))

Next == Tick \/ Succeed \/ \E e \in Raised : Fail(e)

Spec == Init /\ [][Next]_vars

TypeOK ==
    /\ clock \in 0 .. MaxClock
    /\ detector \in [count : 0 .. MaxOutcomes, start : 0 .. MaxClock]
    /\ past \in Seq([what : {"answered", "interrupted"}, at : 0 .. MaxClock])
    /\ alerts \subseteq 1 .. Len(past)

(* The user was told of the n prompts up to the i-th, all within a window, *)
(* that they ended without an answer.                                      *)
Stalled(i, n) ==
    /\ n <= i
    /\ \A j \in i - n + 1 .. i : past[j].what = "interrupted"
    /\ past[i].at <= past[i - n + 1].at + StallWindow

(* The user is only alarmed by a stall: of the last three prompts each was *)
(* explained as cancelled, taken over or invalidated, none of them longer  *)
(* ago than the window, and nothing else, such as a locked Mac, counts.    *)
AlertsAreTrue ==
    \A i \in alerts : Stalled(i, biometricStallThreshold)

(* A stall that lasts does not alarm prompt by prompt: two alerts are at   *)
(* least three outcomes apart.                                             *)
AlertsAreSparse ==
    \A i, j \in alerts : i < j => j - i >= biometricStallThreshold

(* The window is anchored at a run's first prompt and does not slide, so   *)
(* three such prompts within three minutes may straddle two runs and go    *)
(* unnoticed; five never do: an alert has been raised at one of them, or   *)
(* at a prompt of the same series no longer than a window before the first *)
(* of them.  So every prompt that is explained as interrupted is counted   *)
(* as such, too.                                                           *)
LastingStallIsNoticed ==
    \A i \in DOMAIN past :
        Stalled(i, 2 * biometricStallThreshold - 1) =>
            \E k \in alerts :
                /\ k <= i
                /\ \A j \in k .. i : past[j].what = "interrupted"
                /\ past[i - 2 * biometricStallThreshold + 2].at
                        <= past[k].at + StallWindow
=============================================================================
