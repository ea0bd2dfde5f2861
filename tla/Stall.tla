---------------------------------- MODULE Stall ----------------------------------
(***************************************************************************)
(* The biometric stall detector of agent.go (noteBiometricOutcome), as     *)
(* operators on its state [count, start].  An outcome of a prompt-raising  *)
(* signature is "completed", "noncompletion" (LAError -2, -4 or -9) or     *)
(* "other" (an error that says nothing about the biometric subsystem).     *)
(***************************************************************************)
EXTENDS Naturals

CONSTANT StallWindow        \* biometricStallWindow, three minutes

ASSUME StallAssumption == StallWindow \in Nat \ {0}

biometricStallThreshold == 3

Outcomes == {"completed", "noncompletion", "other"}

StallInit == [count |-> 0, start |-> 0]

(* A non-completion that finds no run, or one too old, starts a new run.   *)
StartsRun(s, now) == s.count = 0 \/ now > s.start + StallWindow

(* Mutant: the run keeps its deadline, not its start.                      *)
NoteOutcome_Deadline(s, outcome, now) ==
    CASE outcome = "completed" -> [s EXCEPT !.count = 0]
      [] outcome = "other" -> s
      [] outcome = "noncompletion" ->
            IF StartsRun(s, now) THEN [count |-> 1, start |-> now + StallWindow]
                                 ELSE [s EXCEPT !.count = @ + 1]

(* The detector's state after an outcome observed at time now.             *)
NoteOutcome(s, outcome, now) ==
    CASE outcome = "completed" -> [s EXCEPT !.count = 0]
      [] outcome = "other" -> s
      [] outcome = "noncompletion" ->
            IF StartsRun(s, now) THEN [count |-> 1, start |-> now]
                                 ELSE [s EXCEPT !.count = @ + 1]

(* Mutant: from the third on, every outcome alerts.                        *)
Alerts_AtLeast(s, outcome, now) ==
    /\ outcome = "noncompletion"
    /\ ~StartsRun(s, now)
    /\ s.count + 1 >= biometricStallThreshold

(* The one outcome of a run that warns and notifies the user.              *)
Alerts(s, outcome, now) ==
    /\ outcome = "noncompletion"
    /\ ~StartsRun(s, now)
    /\ s.count + 1 = biometricStallThreshold
=============================================================================
