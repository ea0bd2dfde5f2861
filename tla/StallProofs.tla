------------------------------ MODULE StallProofs ------------------------------
(***************************************************************************)
(* Proofs about StallDetector, for every window and any length of history: *)
(* alerts are true, sparse, and raised whenever a stall lasts.             *)
(***************************************************************************)
EXTENDS StallDetector, TLAPS

Entry == [what : {"answered", "interrupted"}, at : 0 .. MaxClock]

(* The two readings of an error message agree on every error the Secure    *)
(* Enclave raises: it counts exactly if it is explained as interrupted.    *)
LEMMA ReadingsAgree ==
    \A e \in Raised :
        isBiometricNonCompletion(e) <=> classifySignError(e) \in Interrupted
  <1> SUFFICES ASSUME NEW e \in Raised
               PROVE  isBiometricNonCompletion(e)
                        <=> classifySignError(e) \in Interrupted
    OBVIOUS
  <1>1. CASE e \in LAErrors
    <2>1. e.domain = "LA" /\ e.code \in 1 .. 10 \cup {1004}
      BY <1>1 DEF LAErrors
    <2>2. e.says \in PhrasesOf(e.code)
      BY <1>1 DEF LAErrors
    <2>4. /\ e.code = 4 => e.says \in PhrasesOf(4)
          /\ e.code = 2 => e.says = "byUser"
          /\ e.code = 9 => e.says = "byClient"
          /\ e.code \notin {2, 4, 9} => e.says = "none"
      BY <2>2 DEF PhrasesOf
    <2>5. PhrasesOf(4) = {"byAnother",
                          "systemRunning", "none"}
      BY DEF PhrasesOf
    <2>6. ~CodeBegins(e, 25308)
      BY <2>1 DEF CodeBegins
    <2>7. e.says \notin {"errSecInteractionNotAllowed", "unableToSign"}
      BY <2>4, <2>5
    <2>8. ~MacLocked(e)
      BY <2>6, <2>7 DEF MacLocked
    <2>9. \A n \in {2, 4, 9} : CodeBegins(e, n) <=> e.code = n
      BY <2>1 DEF CodeBegins
    <2>10. isBiometricNonCompletion(e) <=> e.code \in {2, 4, 9}
      BY <2>1, <2>9 DEF isBiometricNonCompletion
    <2>11. CASE e.code \in {2, 9}
      BY <2>1, <2>8, <2>10, <2>11 DEF classifySignError, laCode, Interrupted
    <2>12. CASE e.code = 4
      BY <2>1, <2>8, <2>10, <2>12 DEF classifySignError, laCode, Interrupted
    <2>13. CASE e.code \notin {2, 4, 9}
      BY <2>1, <2>4, <2>8, <2>10, <2>13
         DEF classifySignError, laCode, Interrupted
    <2> QED
      BY <2>11, <2>12, <2>13
  <1>2. CASE e = LockedError
    <2>1. /\ e.domain = "OSStatus"
          /\ e.says = "unableToSign"
      BY <1>2 DEF LockedError
    <2>2. classifySignError(e) = "locked"
      BY <2>1 DEF classifySignError, MacLocked
    <2> QED
      BY <2>1, <2>2 DEF isBiometricNonCompletion, Interrupted
  <1>3. CASE e \in OtherErrors
    <2>1. /\ e.domain # "LA"
          /\ e.says = "none"
      BY <1>3 DEF OtherErrors
    <2>2. classifySignError(e) \in {"locked", "sign"}
      BY <2>1 DEF classifySignError, laCode
    <2> QED
      BY <2>1, <2>2 DEF isBiometricNonCompletion, Interrupted
  <1> QED
    BY <1>1, <1>2, <1>3 DEF Raised

(***************************************************************************)
(* The four kinds of step.                                                 *)
(***************************************************************************)
Answered ==
    /\ past' = Append(past, [what |-> "answered", at |-> clock])
    /\ detector' = [detector EXCEPT !.count = 0]
    /\ alerts' = alerts

(* A prompt ends without an answer: it starts a run, or it is the next of  *)
(* the run the detector counts, and the third of it alerts.                *)
RunBegins ==
    /\ past' = Append(past, [what |-> "interrupted", at |-> clock])
    /\ detector.count = 0 \/ clock > detector.start + StallWindow
    /\ detector' = [count |-> 1, start |-> clock]
    /\ alerts' = alerts

RunGoesOn ==
    /\ past' = Append(past, [what |-> "interrupted", at |-> clock])
    /\ detector.count # 0 /\ ~(clock > detector.start + StallWindow)
    /\ detector' = [detector EXCEPT !.count = @ + 1]
    /\ alerts' = IF detector.count + 1 = 3
                   THEN alerts \cup {Len(past')} ELSE alerts

Appends ==
    /\ Len(past) < MaxOutcomes
    /\ clock' = clock
    /\ Answered \/ RunBegins \/ RunGoesOn

LEMMA Steps ==
    ASSUME [Next]_vars, detector \in [count : Nat, start : Nat]
    PROVE  \/ /\ UNCHANGED <<detector, past, alerts>>
              /\ UNCHANGED clock \/ Tick
           \/ Appends
  <1>1. CASE Tick
    BY <1>1 DEF Tick
  <1>2. CASE Succeed
    BY <1>2 DEF Succeed, Note, Remember, NoteOutcome, Alerts, Appends, Answered
  <1>3. ASSUME NEW e \in Raised, Fail(e)
        PROVE  Appends \/ UNCHANGED <<detector, past, alerts, clock>>
    <2>1. CASE isBiometricNonCompletion(e)
      <3>1. classifySignError(e) \in Interrupted
        BY <2>1, ReadingsAgree
      <3>2. Remember("interrupted") /\ Note("noncompletion")
        BY <1>3, <2>1, <3>1 DEF Fail, OutcomeOf
      <3> QED
        BY <3>2 DEF Note, Remember, NoteOutcome, Alerts, StartsRun, Appends,
           RunBegins, RunGoesOn, biometricStallThreshold
    <2>2. CASE ~isBiometricNonCompletion(e)
      <3>1. classifySignError(e) \notin Interrupted
        BY <2>2, ReadingsAgree
      <3>2. UNCHANGED past /\ Note("other")
        BY <1>3, <2>2, <3>1 DEF Fail, OutcomeOf
      <3> QED
        BY <3>2 DEF Note, NoteOutcome, Alerts
    <2> QED
      BY <2>1, <2>2
  <1>4. CASE UNCHANGED vars
    BY <1>4 DEF vars
  <1> QED
    BY <1>1, <1>2, <1>3, <1>4 DEF Next

(***************************************************************************)
(* Types, and the order of the history.                                    *)
(***************************************************************************)
TypeInv ==
    /\ clock \in 0 .. MaxClock
    /\ detector \in [count : Nat, start : 0 .. MaxClock]
    /\ past \in Seq(Entry)
    /\ alerts \subseteq 1 .. Len(past)
    /\ detector.count <= Len(past) /\ Len(past) <= MaxOutcomes

Ordered ==
    \A i \in 1 .. Len(past) :
        past[i].at <= clock /\ \A j \in 1 .. i : past[j].at <= past[i].at

LEMMA AppendFacts ==
    ASSUME NEW s \in Seq(Entry), NEW e \in Entry
    PROVE  /\ Append(s, e) \in Seq(Entry)
           /\ Len(Append(s, e)) = Len(s) + 1
           /\ Append(s, e)[Len(s) + 1] = e
           /\ \A i \in 1 .. Len(s) : Append(s, e)[i] = s[i]
  OBVIOUS

(* What an appending step does to the history.                             *)
LEMMA PastGrows ==
    ASSUME TypeInv, Appends
    PROVE  /\ Len(past) \in Nat
           /\ past' \in Seq(Entry)
           /\ Len(past') = Len(past) + 1
           /\ past'[Len(past) + 1].at = clock
           /\ past'[Len(past) + 1].what =
                    IF Answered THEN "answered" ELSE "interrupted"
           /\ \A i \in 1 .. Len(past) : past'[i] = past[i]
           /\ alerts \subseteq alerts'
  <1>1. PICK e \in Entry :
            /\ past' = Append(past, e)
            /\ e.at = clock
            /\ e.what = IF Answered THEN "answered" ELSE "interrupted"
    BY DEF Appends, Answered, RunBegins, RunGoesOn, TypeInv, Entry
  <1>2. past \in Seq(Entry) /\ Len(past) \in Nat
    BY DEF TypeInv
  <1>3. alerts \subseteq alerts'
    BY DEF Appends, Answered, RunBegins, RunGoesOn
  <1> QED
    BY <1>1, <1>2, <1>3, AppendFacts

LEMMA TypeInit == Init => TypeInv /\ Ordered
  BY DetectorAssumption DEF Init, StallInit, TypeInv, Ordered, Entry

LEMMA TypeStep == TypeInv /\ Ordered /\ [Next]_vars => TypeInv' /\ Ordered'
  <1> SUFFICES ASSUME TypeInv, Ordered, [Next]_vars
               PROVE  TypeInv' /\ Ordered'
    OBVIOUS
  <1>0. detector \in [count : Nat, start : Nat]
    BY DetectorAssumption DEF TypeInv
  <1>1. CASE /\ UNCHANGED <<detector, past, alerts>>
             /\ UNCHANGED clock \/ Tick
    <2>1. clock' \in 0 .. MaxClock /\ clock <= clock'
      BY <1>1, DetectorAssumption DEF Tick, TypeInv
    <2>2. TypeInv'
      BY <1>1, <2>1 DEF TypeInv
    <2>3. ASSUME NEW i \in 1 .. Len(past)
          PROVE  past[i].at <= clock'
      <3>1. past[i] \in Entry
        BY DEF TypeInv
      <3>2. past[i].at \in Nat /\ clock \in Nat /\ clock' \in Nat
        BY <3>1, <2>1, DetectorAssumption DEF Entry, TypeInv
      <3> QED
        BY <3>2, <2>1 DEF Ordered
    <2> QED
      BY <1>1, <2>2, <2>3 DEF Ordered
  <1>2. CASE Appends
    <2>1. clock' = clock
      BY <1>2 DEF Appends
    <2>2. detector' \in [count : Nat, start : 0 .. MaxClock]
      BY <1>2 DEF Appends, Answered, RunBegins, RunGoesOn, TypeInv
    <2>3. detector'.count <= detector.count + 1 \/ detector'.count = 1
      BY <1>2 DEF Appends, Answered, RunBegins, RunGoesOn, TypeInv
    <2>4. alerts' \subseteq alerts \cup {Len(past')}
      BY <1>2 DEF Appends, Answered, RunBegins, RunGoesOn
    <2>5. Len(past) < MaxOutcomes
      BY <1>2 DEF Appends
    <2>6. TypeInv'
      BY <1>2, <2>1, <2>2, <2>3, <2>4, <2>5, PastGrows, DetectorAssumption
         DEF TypeInv
    <2>7. ASSUME NEW i \in 1 .. Len(past')
          PROVE  past'[i].at <= clock' /\ \A j \in 1 .. i : past'[j].at <= past'[i].at
      <3>1. CASE i \in 1 .. Len(past)
        BY <1>2, <2>1, <3>1, PastGrows DEF Ordered
      <3>2. CASE i = Len(past) + 1
        <4>1. /\ Len(past) \in Nat /\ past'[i].at = clock
              /\ \A j \in 1 .. Len(past) : past'[j] = past[j]
          BY <1>2, <3>2, PastGrows
        <4>2. clock \in Nat
          BY DetectorAssumption DEF TypeInv
        <4>3. \A j \in 1 .. Len(past) : past'[j].at <= clock
          BY <4>1 DEF Ordered
        <4> QED
          BY <2>1, <3>2, <4>1, <4>2, <4>3
      <3> QED
        BY <1>2, <2>7, <3>1, <3>2, PastGrows
    <2> QED
      BY <2>6, <2>7 DEF Ordered
  <1> QED
    BY <1>0, <1>1, <1>2, Steps

LEMMA TypeInvariant == Spec => [](TypeInv /\ Ordered)
  BY TypeInit, TypeStep, PTL DEF Spec

(* The detector's count never exceeds the outcomes observed.               *)
THEOREM StallTypeCorrect == Spec => []TypeOK
  <1>1. TypeInv => TypeOK
    BY DetectorAssumption DEF TypeInv, TypeOK, Entry
  <1> QED
    BY <1>1, TypeInvariant, PTL

(***************************************************************************)
(* The runs the detector has counted.                                      *)
(***************************************************************************)
(* The prompts from m to j were interrupted, within a window of the first, *)
(* and the third of them, if there is one, alerted.                        *)
Run(m, j) ==
    /\ \A i \in m .. j : past[i].what = "interrupted"
    /\ past[j].at <= past[m].at + StallWindow
    /\ m + 2 <= j => m + 2 \in alerts

(* Why a run begins at m: the first prompt, one after a completed prompt,  *)
(* or one too late for the run before it.                                  *)
Begins(m) ==
    \/ m = 1
    \/ past[m - 1].what = "answered"
    \/ \E b \in 1 .. m - 1 :
          Run(b, m - 1) /\ past[m].at > past[b].at + StallWindow

CurrentRun ==
    IF detector.count = 0
    THEN Len(past) = 0 \/ past[Len(past)].what = "answered"
    ELSE \E m \in 1 .. Len(past) :
            /\ m = Len(past) - detector.count + 1
            /\ past[m].at = detector.start
            /\ Run(m, Len(past))
            /\ Begins(m)

EveryRun ==
    \A i \in 1 .. Len(past) :
        past[i].what = "interrupted" => \E m \in 1 .. i : Run(m, i) /\ Begins(m)

RunInv == CurrentRun /\ EveryRun

(* Nothing that was true of the past becomes false of it.                  *)
LEMMA RunsStay ==
    ASSUME TypeInv, Appends, NEW j \in 1 .. Len(past), NEW m \in 1 .. j
    PROVE  /\ Run(m, j) => Run(m, j)'
           /\ Begins(m) => Begins(m)'
  <1>1. ASSUME NEW x \in 1 .. Len(past), NEW b \in 1 .. x, Run(b, x)
        PROVE  Run(b, x)'
    <2>1. \A i \in b .. x : past'[i] = past[i]
      BY PastGrows
    <2>2. past'[b] = past[b] /\ past'[x] = past[x]
      BY PastGrows
    <2> QED
      BY <1>1, <2>1, <2>2, PastGrows DEF Run
  <1>2. ASSUME Begins(m)
        PROVE  Begins(m)'
    <2>1. CASE m = 1
      BY <2>1 DEF Begins
    <2>2. CASE m > 1
      <3>1. m - 1 \in 1 .. Len(past) /\ m \in 1 .. Len(past)
        BY <2>2, PastGrows
      <3>2. past'[m - 1] = past[m - 1] /\ past'[m] = past[m]
        BY <3>1, PastGrows
      <3>3. \A b \in 1 .. m - 1 : past'[b] = past[b] /\ (Run(b, m - 1) => Run(b, m - 1)')
        BY <3>1, <1>1, PastGrows
      <3> QED
        BY <1>2, <3>2, <3>3 DEF Begins
    <2> QED
      BY <2>1, <2>2, PastGrows
  <1>3. m \in 1 .. j /\ j \in 1 .. Len(past)
    OBVIOUS
  <1> QED
    BY <1>1, <1>2, <1>3

LEMMA RunInit == Init => RunInv
  BY DEF Init, StallInit, RunInv, CurrentRun, EveryRun

LEMMA RunStep == TypeInv /\ Ordered /\ RunInv /\ [Next]_vars => RunInv'
  <1> SUFFICES ASSUME TypeInv, Ordered, RunInv, [Next]_vars
               PROVE  RunInv'
    OBVIOUS
  <1>0. detector \in [count : Nat, start : Nat]
    BY DetectorAssumption DEF TypeInv
  <1>1. CASE UNCHANGED <<detector, past, alerts>>
    BY <1>1 DEF RunInv, CurrentRun, EveryRun, Run, Begins
  <1>2. CASE Appends
    <2>0. PICK p, n : /\ p \in Nat /\ p = Len(past)
                      /\ n = p + 1 /\ n = Len(past')
      BY <1>2, PastGrows
    <2>1. CASE Answered
      <3>1. past'[n].what = "answered"
        BY <1>2, <2>0, <2>1, PastGrows
      <3>2. detector'.count = 0
        BY <2>1, <1>0 DEF Answered
      <3>3. CurrentRun'
        BY <2>0, <3>1, <3>2 DEF CurrentRun
      <3>4. EveryRun'
        BY <1>2, <2>0, <3>1, RunsStay, PastGrows DEF RunInv, EveryRun
      <3> QED
        BY <3>3, <3>4 DEF RunInv
    <2>2. ASSUME ~Answered,
                 NEW m \in 1 .. n, Run(m, n)', Begins(m)'
          PROVE  EveryRun'
      BY <1>2, <2>0, <2>2, RunsStay, PastGrows DEF RunInv, EveryRun
    <2>3. CASE RunBegins
      <3>1. /\ past'[n].what = "interrupted"
            /\ past'[n].at = clock
            /\ detector'.count = 1 /\ detector'.start = clock
            /\ ~Answered
        BY <1>2, <2>0, <2>3, PastGrows DEF RunBegins, Answered
      <3>2. Run(n, n)'
        BY <2>0, <3>1, StallAssumption, DetectorAssumption DEF Run, TypeInv
      <3>3. Begins(n)'
        <4>1. CASE Len(past) = 0
          BY <4>1, <2>0 DEF Begins
        <4>2. CASE Len(past) # 0 /\ detector.count = 0
          <5>1. past[Len(past)].what = "answered"
            BY <4>2 DEF RunInv, CurrentRun
          <5> QED
            BY <5>1, <4>2, <2>0, <1>2, PastGrows DEF Begins
        <4>3. CASE detector.count # 0
          <5>1. clock > detector.start + StallWindow
            BY <4>3, <2>3 DEF RunBegins
          <5>2. PICK b \in 1 .. p : past[b].at = detector.start /\ Run(b, p)
            BY <4>3, <2>0 DEF RunInv, CurrentRun
          <5>3. Run(b, p)' /\ past'[b] = past[b]
            BY <5>2, <1>2, <2>0, RunsStay, PastGrows
          <5> QED
            BY <5>1, <5>2, <5>3, <2>0, <3>1 DEF Begins
        <4> QED
          BY <4>1, <4>2, <4>3
      <3>4. CurrentRun'
        BY <2>0, <3>1, <3>2, <3>3 DEF CurrentRun
      <3>5. EveryRun'
        BY <2>0, <2>2, <3>1, <3>2, <3>3
      <3> QED
        BY <3>4, <3>5 DEF RunInv
    <2>4. CASE RunGoesOn
      <3>1. /\ past'[n].what = "interrupted"
            /\ past'[n].at = clock
            /\ detector'.count = detector.count + 1
            /\ detector'.start = detector.start
            /\ ~Answered
        BY <1>2, <2>0, <2>4, <1>0, PastGrows DEF RunGoesOn, Answered
      <3>2. PICK m \in 1 .. p :
              /\ m = p - detector.count + 1
              /\ past[m].at = detector.start
              /\ Run(m, p)
              /\ Begins(m)
        BY <2>0, <2>4 DEF RunGoesOn, RunInv, CurrentRun
      <3>3. past'[m] = past[m] /\ Run(m, p)' /\ Begins(m)'
        BY <1>2, <2>0, <3>2, RunsStay, PastGrows
      <3>4. past'[n].at <= past'[m].at + StallWindow
        <4>1. ~(clock > detector.start + StallWindow)
          BY <2>4 DEF RunGoesOn
        <4>2. clock \in Nat /\ detector.start \in Nat
          BY <1>0, DetectorAssumption DEF TypeInv
        <4> QED
          BY <3>1, <3>2, <3>3, <4>1, <4>2, StallAssumption
      <3>5. \A i \in m .. n : past'[i].what = "interrupted"
        BY <2>0, <3>1, <3>3 DEF Run
      <3>6. m + 2 <= n => m + 2 \in alerts'
        <4>1. CASE m + 2 <= p
          BY <4>1, <3>3 DEF Run
        <4>2. CASE m + 2 = n
          BY <4>2, <2>0, <2>4, <3>2, <1>0 DEF RunGoesOn
        <4> QED
          BY <4>1, <4>2, <2>0
      <3>7. Run(m, n)'
        BY <3>4, <3>5, <3>6 DEF Run
      <3>8. CurrentRun'
        BY <2>0, <1>0, <3>1, <3>2, <3>3, <3>7 DEF CurrentRun
      <3>9. EveryRun'
        BY <2>0, <2>2, <3>1, <3>3, <3>7
      <3> QED
        BY <3>8, <3>9 DEF RunInv
    <2> QED
      BY <1>2, <2>1, <2>3, <2>4 DEF Appends
  <1> QED
    BY <1>0, <1>1, <1>2, Steps

(***************************************************************************)
(* Alerts.                                                                 *)
(***************************************************************************)
(* Where the current run stands to the alerts there have been.             *)
Spaced ==
    \A k \in alerts :
        detector.count > 0 =>
            \/ k <= Len(past) - detector.count
            \/ detector.count >= 3 /\ k = Len(past) - detector.count + 3

AlertInv == AlertsAreTrue /\ AlertsAreSparse /\ Spaced

LEMMA AlertStep ==
    TypeInv /\ RunInv /\ AlertInv /\ RunInv' /\ [Next]_vars => AlertInv'
  <1> SUFFICES ASSUME TypeInv, RunInv, AlertInv, RunInv', [Next]_vars
               PROVE  AlertInv'
    OBVIOUS
  <1>0. detector \in [count : Nat, start : Nat]
    BY DetectorAssumption DEF TypeInv
  <1>1. CASE UNCHANGED <<detector, past, alerts>>
    BY <1>1 DEF AlertInv, AlertsAreTrue, AlertsAreSparse, Spaced, Stalled
  <1>2. CASE Appends
    <2>0. PICK p, n : /\ p \in Nat /\ p = Len(past)
                      /\ n = p + 1 /\ n = Len(past')
      BY <1>2, PastGrows
    <2>1. alerts \subseteq 1 .. p
      BY <2>0 DEF TypeInv
    <2>2. ASSUME NEW k \in alerts
          PROVE  Stalled(k, 3)'
      <3>1. Stalled(k, 3)
        BY DEF AlertInv, AlertsAreTrue, biometricStallThreshold
      <3>2. 3 <= k /\ k \in 1 .. p
        BY <2>1, <3>1 DEF Stalled
      <3>3. past'[k] = past[k] /\ past'[k - 3 + 1] = past[k - 3 + 1]
        BY <1>2, <2>0, <3>2, PastGrows
      <3>4. \A j \in k - 3 + 1 .. k : past'[j] = past[j]
        BY <1>2, <2>0, <3>2, PastGrows
      <3> QED
        BY <3>1, <3>3, <3>4 DEF Stalled
    <2>3. CASE alerts' = alerts
      <3>1. AlertsAreTrue' /\ AlertsAreSparse'
        BY <2>2, <2>3 DEF AlertInv, AlertsAreTrue, AlertsAreSparse,
           biometricStallThreshold
      <3>2. Spaced'
        <4>1. CASE Answered \/ RunBegins
          BY <1>0, <2>0, <2>1, <2>3, <4>1 DEF Answered, RunBegins, Spaced
        <4>2. CASE RunGoesOn
          BY <1>0, <2>0, <2>1, <2>3, <4>2 DEF RunGoesOn, Spaced, AlertInv
        <4> QED
          BY <1>2, <4>1, <4>2 DEF Appends
      <3> QED
        BY <3>1, <3>2 DEF AlertInv
    <2>4. CASE alerts' # alerts
      <3>1. RunGoesOn /\ detector.count = 2 /\ alerts' = alerts \cup {n}
        BY <1>0, <1>2, <2>0, <2>4 DEF Appends, Answered, RunBegins, RunGoesOn
      <3>2. detector'.count = 3
        BY <1>0, <3>1 DEF RunGoesOn
      <3>3. \A k \in alerts : k <= n - 3
        BY <2>0, <2>1, <3>1 DEF AlertInv, Spaced
      <3>4. Stalled(n, 3)'
        <4>1. PICK m \in 1 .. n : m = n - 3 + 1 /\ Run(m, n)'
          BY <2>0, <3>2 DEF RunInv, CurrentRun
        <4> QED
          BY <2>0, <4>1 DEF Run, Stalled
      <3>5. AlertsAreTrue'
        BY <2>2, <3>1, <3>4 DEF AlertsAreTrue, biometricStallThreshold
      <3>6. AlertsAreSparse'
        BY <2>0, <2>1, <3>1, <3>3 DEF AlertInv, AlertsAreSparse,
           biometricStallThreshold
      <3>7. Spaced'
        BY <2>0, <2>1, <3>1, <3>2, <3>3 DEF Spaced
      <3> QED
        BY <3>5, <3>6, <3>7 DEF AlertInv
    <2> QED
      BY <2>3, <2>4
  <1> QED
    BY <1>0, <1>1, <1>2, Steps

LEMMA AlertInvariant == Spec => [](TypeInv /\ Ordered /\ RunInv /\ AlertInv)
  <1>1. Init => AlertInv
    BY DEF Init, AlertInv, AlertsAreTrue, AlertsAreSparse, Spaced
  <1> QED
    BY <1>1, TypeInit, RunInit, TypeStep, RunStep, AlertStep, PTL DEF Spec

(* The user is never alarmed but by three prompts, within a window, each   *)
(* of which was explained as ended without an answer (noteBiometricOutcome *)
(* and classifySignError, for every window).                               *)
THEOREM AlertsTrue == Spec => []AlertsAreTrue
  BY AlertInvariant, PTL DEF AlertInv

(* Alerts are at least three prompts apart (stallCount is compared with    *)
(* the threshold, not bounded by it).                                      *)
THEOREM AlertsSparse == Spec => []AlertsAreSparse
  BY AlertInvariant, PTL DEF AlertInv

LEMMA Window ==
    ASSUME NEW a \in Nat, NEW b \in Nat, NEW c \in Nat, NEW d \in Nat
    PROVE  /\ a <= b /\ b <= c + StallWindow /\ c <= d => a <= d + StallWindow
           /\ a <= b /\ c > b + StallWindow /\ c <= d => ~(d <= a + StallWindow)
  <1>1. StallWindow \in Nat
    BY StallAssumption
  <1> QED
    BY <1>1

(* Five interrupted prompts within a window never go without an alert: if  *)
(* the run at their end is too short to have alerted, the one before it    *)
(* began before the five and is long enough.                               *)
THEOREM LastingStallNoticed == Spec => []LastingStallIsNoticed
  <1>1. ASSUME TypeInv, Ordered, RunInv
        PROVE  LastingStallIsNoticed
    <2>0. /\ DOMAIN past = 1 .. Len(past) /\ Len(past) \in Nat
          /\ 2 * biometricStallThreshold - 1 = 5
          /\ \A i \in 1 .. Len(past) : i - 2 * biometricStallThreshold + 2 = i - 4
      BY <1>1 DEF TypeInv, biometricStallThreshold
    <2> SUFFICES ASSUME NEW i \in 1 .. Len(past), Stalled(i, 5)
                 PROVE  \E k \in alerts :
                            /\ k <= i
                            /\ \A j \in k .. i : past[j].what = "interrupted"
                            /\ past[i - 4].at <= past[k].at + StallWindow
      BY <2>0 DEF LastingStallIsNoticed
    <2>1. /\ 5 <= i /\ i \in Nat
          /\ \A j \in i - 4 .. i : past[j].what = "interrupted"
          /\ past[i].at <= past[i - 4].at + StallWindow
      BY <1>1 DEF Stalled, TypeInv
    <2>2. ASSUME NEW j \in 1 .. i
          PROVE  past[j].at \in Nat
      <3>1. j \in 1 .. Len(past) /\ past \in Seq(Entry)
        BY <1>1, <2>1 DEF TypeInv
      <3>2. past[j] \in Entry
        BY <3>1
      <3> QED
        BY <3>2, DetectorAssumption DEF Entry
    <2>3. \A x, y \in 1 .. i : x <= y => past[x].at <= past[y].at
      BY <1>1, <2>1 DEF Ordered, TypeInv
    <2>4. PICK m \in 1 .. i : Run(m, i) /\ Begins(m)
      BY <1>1, <2>1 DEF RunInv, EveryRun
    <2>5. CASE m + 2 <= i
      <3>1. m + 2 \in alerts /\ m + 2 \in 1 .. i
        BY <2>1, <2>4, <2>5 DEF Run
      <3>2. past[i - 4].at <= past[i].at
        BY <2>1, <2>3
      <3>3. past[i].at <= past[m].at + StallWindow
        BY <2>4 DEF Run
      <3>4. past[m].at <= past[m + 2].at
        BY <2>1, <2>3, <3>1
      <3>5. past[i - 4].at <= past[m + 2].at + StallWindow
        <4>1. /\ past[i - 4].at \in Nat /\ past[i].at \in Nat
              /\ past[m].at \in Nat /\ past[m + 2].at \in Nat
          BY <2>1, <2>2, <3>1
        <4>2. PICK a, b, c, d \in Nat :
                /\ a = past[i - 4].at /\ b = past[i].at
                /\ c = past[m].at /\ d = past[m + 2].at
          BY <4>1
        <4>3. a <= b /\ b <= c + StallWindow /\ c <= d
          BY <3>2, <3>3, <3>4, <4>2
        <4>4. a <= d + StallWindow
          BY <4>3, Window
        <4> QED
          BY <4>2, <4>4
      <3>6. \A j \in m + 2 .. i : past[j].what = "interrupted"
        BY <2>4 DEF Run
      <3> QED
        BY <3>1, <3>5, <3>6
    <2>6. CASE m > i - 2
      <3>1. m - 1 \in i - 4 .. i /\ m - 1 \in 1 .. i
        BY <2>1, <2>6
      <3>2. PICK b \in 1 .. m - 1 :
                Run(b, m - 1) /\ past[m].at > past[b].at + StallWindow
        BY <2>1, <2>4, <2>6, <3>1 DEF Begins
      <3>3. b < i - 4
        <4> SUFFICES ASSUME b >= i - 4 PROVE FALSE
          BY <2>1, <3>1
        <4>0. i - 4 \in 1 .. b /\ b \in 1 .. i /\ m \in 1 .. i /\ i \in 1 .. i
          <5>1. b \in Nat /\ b >= i - 4 /\ b <= m - 1 /\ 1 <= b
            BY <2>1
          <5>2. i \in Nat /\ m \in Nat /\ m <= i /\ i - 4 >= 1
            BY <2>1, <3>1
          <5> QED
            BY <5>1, <5>2
        <4>1. past[i - 4].at <= past[b].at /\ past[m].at <= past[i].at
          BY <2>3, <4>0
        <4>2. PICK a, x, c, d \in Nat :
                /\ a = past[i - 4].at /\ x = past[b].at
                /\ c = past[m].at /\ d = past[i].at
          <5>1. i - 4 \in 1 .. i
            BY <2>1
          <5>2. /\ past[i - 4].at \in Nat /\ past[b].at \in Nat
                /\ past[m].at \in Nat /\ past[i].at \in Nat
            BY <2>2, <4>0, <5>1
          <5> QED
            BY <5>2
        <4>3. a <= x /\ c > x + StallWindow /\ c <= d
          BY <3>2, <4>1, <4>2
        <4>4. d <= a + StallWindow
          BY <2>1, <4>2
        <4> QED
          BY <4>3, <4>4, Window
      <3>4. b + 2 <= m - 1 /\ b + 2 \in 1 .. i
        BY <2>1, <2>6, <3>3
      <3>5. b + 2 \in alerts
        BY <3>2, <3>4 DEF Run
      <3>6. past[i - 4].at <= past[m - 1].at /\ past[b].at <= past[b + 2].at
        BY <2>1, <2>3, <2>6, <3>1, <3>4
      <3>7. past[m - 1].at <= past[b].at + StallWindow
        BY <3>2 DEF Run
      <3>8. past[i - 4].at <= past[b + 2].at + StallWindow
        <4>1. /\ past[i - 4].at \in Nat /\ past[m - 1].at \in Nat
              /\ past[b].at \in Nat /\ past[b + 2].at \in Nat
          BY <2>1, <2>2, <3>1, <3>4
        <4>2. PICK a, x, c, d \in Nat :
                /\ a = past[i - 4].at /\ x = past[m - 1].at
                /\ c = past[b].at /\ d = past[b + 2].at
          BY <4>1
        <4>3. a <= x /\ x <= c + StallWindow /\ c <= d
          BY <3>6, <3>7, <4>2
        <4>4. a <= d + StallWindow
          BY <4>3, Window
        <4> QED
          BY <4>2, <4>4
      <3>9. \A j \in b + 2 .. i : past[j].what = "interrupted"
        BY <2>4, <3>1, <3>2, <3>4 DEF Run
      <3> QED
        BY <3>4, <3>5, <3>8, <3>9
    <2> QED
      BY <2>1, <2>5, <2>6
  <1> QED
    BY <1>1, AlertInvariant, PTL
=============================================================================
