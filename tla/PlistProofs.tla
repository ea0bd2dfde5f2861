------------------------------ MODULE PlistProofs ------------------------------
(***************************************************************************)
(* The plist commands, for any number of commands, any plists there may be *)
(* at first and any clock.                                                 *)
(***************************************************************************)
EXTENDS Plist, TLAPS, SequenceTheorems, WellFoundedInduction

USE DEF first, launchd

(***************************************************************************)
(* Least and greatest numbers: the form in which induction is used below.  *)
(***************************************************************************)
LessThan == {ss \in Nat \X Nat : ss[1] < ss[2]}

LEMMA LessThanWellFounded == IsWellFoundedOn(LessThan, Nat)
  BY NatLessThanWellFounded DEF OpToRel, LessThan

LEMMA LeastNumber ==
    ASSUME NEW S, S \subseteq Nat, S # {}
    PROVE  \E m \in S : \A k \in S : m <= k
  <1>1. PICK m \in S : \A k \in S : ~(<<k, m>> \in LessThan)
    BY LessThanWellFounded, WFMin
  <1>2. \A k \in S : ~(k < m)
    BY <1>1 DEF LessThan
  <1> QED
    BY <1>2

LEMMA GreatestNumber ==
    ASSUME NEW n \in Nat, NEW S, S \subseteq 0 .. n, S # {}
    PROVE  \E m \in S : \A k \in S : k <= m
  <1> DEFINE D == {d \in Nat : d <= n /\ n - d \in S}
  <1>1. D # {}
    <2>1. PICK k \in S : TRUE
      OBVIOUS
    <2>2. n - k \in Nat /\ n - k <= n /\ n - (n - k) = k
      BY <2>1
    <2> QED
      BY <2>2
  <1>2. PICK d \in D : \A e \in D : d <= e
    <2>1. D \subseteq Nat
      OBVIOUS
    <2> HIDE DEF D
    <2> QED
      BY <1>1, <2>1, LeastNumber
  <1>3. \A k \in S : n - k \in D /\ k \in 0 .. n
    <2> SUFFICES ASSUME NEW k \in S PROVE n - k \in D /\ k \in 0 .. n
      OBVIOUS
    <2>1. n - k \in Nat /\ n - k <= n /\ n - (n - k) = k
      OBVIOUS
    <2> QED
      BY <2>1
  <1>4. n - d \in S /\ d \in Nat
    OBVIOUS
  <1> HIDE DEF D
  <1>5. \A k \in S : d <= n - k /\ k \in Int
    BY <1>2, <1>3
  <1>6. \A k \in S : k <= n - d
    BY <1>4, <1>5
  <1> QED
    BY <1>4, <1>6

(***************************************************************************)
(* extractRunFlags is the function its recursion says it is.               *)
(***************************************************************************)
Kept(args, g, i) ==
    IF i > Len(args) THEN <<>>
    ELSE LET valued == args[i] \in flagTakesValue
             kept   == args[i] \in preservedAgentFlags
         IN CASE kept /\ valued /\ i < Len(args) -> <<args[i], args[i + 1]>> \o g[i + 2]
              [] kept /\ valued /\ i = Len(args) -> <<>>
              [] kept /\ ~valued -> <<args[i]>> \o g[i + 1]
              [] ~kept /\ valued -> g[i + 2]
              [] ~kept /\ ~valued -> g[i + 1]

KeptFrom(args, m, g) == g = [i \in m .. Len(args) + 2 |-> Kept(args, g, i)]

LEMMA KeptLooksAhead ==
    ASSUME NEW args \in Seq(Words), NEW g, NEW h, NEW i \in 2 .. Len(args) + 2,
           i <= Len(args) => g[i + 1] = h[i + 1] /\ g[i + 2] = h[i + 2]
    PROVE  Kept(args, g, i) = Kept(args, h, i)
  BY DEF Kept

LEMMA KeptExists ==
    ASSUME NEW args \in Seq(Words)
    PROVE  \E g : KeptFrom(args, 2, g)
  <1> DEFINE n == Len(args)
  <1> DEFINE S == {m \in 2 .. n + 2 : \E g : KeptFrom(args, m, g)}
  <1>0. n \in Nat
    OBVIOUS
  <1>1. n + 2 \in S
    <2> DEFINE g == [i \in n + 2 .. n + 2 |-> <<>>]
    <2>1. \A i \in n + 2 .. n + 2 : Kept(args, g, i) = <<>>
      BY <1>0 DEF Kept
    <2>2. g = [i \in n + 2 .. n + 2 |-> Kept(args, g, i)]
      BY <2>1
    <2> HIDE DEF g
    <2>3. KeptFrom(args, n + 2, g)
      BY <2>2 DEF KeptFrom
    <2> QED
      BY <1>0, <2>3
  <1>2. PICK m \in S : \A k \in S : m <= k
    <2>1. S \subseteq Nat
      BY <1>0
    <2> HIDE DEF S
    <2> QED
      BY <1>1, <2>1, LeastNumber
  <1>3. PICK g : KeptFrom(args, m, g)
    OBVIOUS
  <1>4. m = 2
    <2> SUFFICES ASSUME m # 2 PROVE FALSE
      OBVIOUS
    <2> DEFINE l == m - 1
    <2> DEFINE h == [i \in l .. n + 2 |-> IF i = l THEN Kept(args, g, l) ELSE g[i]]
    <2>1. m \in 2 .. n + 2 /\ l \in 2 .. n + 2 /\ m = l + 1 /\ l \in Int
      BY <1>0
    <2>2. \A i \in m .. n + 2 : h[i] = g[i]
      BY <1>0, <2>1
    <2>3. \A i \in l .. n + 2 : h[i] = IF i = l THEN Kept(args, g, l) ELSE g[i]
      OBVIOUS
    <2>4. h = [i \in l .. n + 2 |-> h[i]]
      OBVIOUS
    <2> HIDE DEF h, l
    <2>5. ASSUME NEW i \in l .. n + 2 PROVE h[i] = Kept(args, h, i)
      <3>1. i \in 2 .. n + 2 /\ (i <= n => g[i + 1] = h[i + 1] /\ g[i + 2] = h[i + 2])
        BY <1>0, <2>1, <2>2
      <3>2. Kept(args, g, i) = Kept(args, h, i)
        BY <3>1, KeptLooksAhead
      <3>3. CASE i = l
        BY <2>3, <3>2, <3>3
      <3>4. CASE i \in m .. n + 2
        <4>1. g[i] = Kept(args, g, i)
          BY <1>3, <3>4 DEF KeptFrom
        <4> QED
          BY <2>2, <3>2, <3>4, <4>1
      <3> QED
        BY <1>0, <2>1, <3>3, <3>4
    <2>6. KeptFrom(args, l, h)
      BY <2>4, <2>5 DEF KeptFrom
    <2>7. l \in S
      BY <2>1, <2>6
    <2> HIDE DEF S
    <2> QED
      BY <1>2, <2>1, <2>7
  <1> QED
    BY <1>3, <1>4

LEMMA RunFlags ==
    ASSUME NEW args \in Seq(Words)
    PROVE  \E g : KeptFrom(args, 2, g) /\ extractRunFlags(args) = g[2]
  <1> DEFINE g == CHOOSE h : KeptFrom(args, 2, h)
  <1>1. KeptFrom(args, 2, g)
    BY KeptExists
  <1>2. g = CHOOSE h : h = [i \in 2 .. Len(args) + 2 |-> Kept(args, h, i)]
    BY DEF KeptFrom
  <1> HIDE DEF g
  <1>3. extractRunFlags(args) = g[2]
    BY <1>2 DEF extractRunFlags, Kept
  <1> QED
    BY <1>1, <1>3

(* What is kept from i on is what is kept later, with or without a flag    *)
(* and its value in front.                                                 *)
LEMMA KeptSteps ==
    ASSUME NEW args \in Seq(Words), NEW g, KeptFrom(args, 2, g),
           NEW i \in 2 .. Len(args) + 2
    PROVE  /\ i > Len(args) => g[i] = <<>>
           /\ i <= Len(args) =>
               LET valued == args[i] \in flagTakesValue
                   kept   == args[i] \in preservedAgentFlags
               IN /\ kept /\ valued /\ i < Len(args) =>
                        g[i] = <<args[i], args[i + 1]>> \o g[i + 2]
                  /\ kept /\ valued /\ i = Len(args) => g[i] = <<>>
                  /\ kept /\ ~valued => g[i] = <<args[i]>> \o g[i + 1]
                  /\ ~kept /\ valued => g[i] = g[i + 2]
                  /\ ~kept /\ ~valued => g[i] = g[i + 1]
  <1>1. g[i] = Kept(args, g, i)
    BY DEF KeptFrom
  <1> QED
    BY <1>1 DEF Kept

LEMMA KeptIsTyped ==
    ASSUME NEW args \in Seq(Words), NEW g, KeptFrom(args, 2, g)
    PROVE  \A i \in 2 .. Len(args) + 2 : g[i] \in Seq(Words)
  <1> DEFINE n == Len(args)
  <1> DEFINE bad == {i \in 2 .. n + 2 : g[i] \notin Seq(Words)}
  <1>0. n \in Nat /\ \A i \in 1 .. n : args[i] \in Words
    OBVIOUS
  <1> SUFFICES ASSUME bad # {} PROVE FALSE
    OBVIOUS
  <1>1. PICK m \in bad : \A k \in bad : k <= m
    <2>1. bad \subseteq 0 .. n + 2 /\ n + 2 \in Nat
      BY <1>0
    <2> HIDE DEF bad
    <2> QED
      BY <2>1, GreatestNumber
  <1>2. m \in 2 .. n + 2 /\ g[m] \notin Seq(Words)
    OBVIOUS
  <1>3. m <= n => g[m + 1] \in Seq(Words) /\ g[m + 2] \in Seq(Words)
    <2> SUFFICES ASSUME m <= n PROVE g[m + 1] \in Seq(Words) /\ g[m + 2] \in Seq(Words)
      OBVIOUS
    <2>1. /\ m + 1 \in 2 .. n + 2 /\ m + 2 \in 2 .. n + 2
          /\ ~(m + 1 <= m) /\ ~(m + 2 <= m)
      BY <1>0, <1>2
    <2>2. m + 1 \notin bad /\ m + 2 \notin bad
      BY <1>1, <2>1
    <2> QED
      BY <2>1, <2>2
  <1> HIDE DEF bad
  <1>4. CASE m > n
    <2>1. g[m] = <<>>
      BY <1>2, <1>4, KeptSteps
    <2> QED
      BY <1>2, <2>1
  <1>5. CASE m <= n
    <2>1. args[m] \in Words /\ (m < n => args[m + 1] \in Words)
      BY <1>0, <1>2, <1>5
    <2>2. /\ <<args[m]>> \o g[m + 1] \in Seq(Words)
          /\ m < n => <<args[m], args[m + 1]>> \o g[m + 2] \in Seq(Words)
      BY <1>3, <1>5, <2>1
    <2>3. <<>> \in Seq(Words) /\ (m < n \/ m = n)
      BY <1>0, <1>2, <1>5
    <2> QED
      BY <1>2, <1>3, <1>5, <2>2, <2>3, KeptSteps
  <1> QED
    BY <1>0, <1>2, <1>4, <1>5

LEMMA MigratedIsTyped ==
    ASSUME NEW p \in Plists, Mode(p) = "old"
    PROVE  /\ p.args[1] \in Words
           /\ socketFromOldArgs(p.args) \in Words
           /\ extractRunFlags(p.args) \in Seq(Words)
  <1> DEFINE args == p.args
  <1>1. args \in Seq(Words) /\ Has(args, "-l")
    BY DEF Plists, Mode
  <1> HIDE DEF args
  <1>2. args[1] \in Words
    <2>1. PICK i \in DOMAIN args : TRUE
      BY <1>1 DEF Has
    <2>2. 1 \in 1 .. Len(args)
      BY <1>1, <2>1
    <2> QED
      BY <1>1, <2>2
  <1>3. socketFromOldArgs(args) \in Words
    <2> DEFINE at == {i \in DOMAIN args : args[i] = "-l" /\ i < Len(args)}
    <2>1. CASE at = {}
      <3>1. socketFromOldArgs(args) = ""
        BY <2>1, Zenon DEF socketFromOldArgs
      <3> QED
        BY <3>1, PlistAssumption
    <2>2. CASE at # {}
      <3> DEFINE i == CHOOSE i \in at : \A j \in at : i <= j
      <3>1. at \subseteq Nat
        BY <1>1
      <3>2. i \in at
        <4> HIDE DEF at
        <4> QED
          BY <2>2, <3>1, LeastNumber
      <3>3. args[1 + i] \in Words
        BY <1>1, <3>2
      <3>4. socketFromOldArgs(args) = args[1 + i]
        BY <2>2 DEF socketFromOldArgs
      <3> HIDE DEF i
      <3> QED
        BY <3>3, <3>4
    <2> QED
      BY <2>1, <2>2
  <1>4. extractRunFlags(args) \in Seq(Words)
    <2>1. PICK g : KeptFrom(args, 2, g) /\ extractRunFlags(args) = g[2]
      BY <1>1, RunFlags
    <2>2. Len(args) \in Nat /\ 2 \in 2 .. Len(args) + 2
      BY <1>1
    <2> QED
      BY <1>1, <2>1, <2>2, KeptIsTyped
  <1> QED
    BY <1>2, <1>3, <1>4 DEF args

(***************************************************************************)
(* Plists that the commands write are socket-activated.                    *)
(***************************************************************************)
LEMMA ModeMeans ==
    ASSUME NEW p
    PROVE  /\ Mode(p) = "missing" <=> p = None
           /\ p # None /\ Has(p.args, "-launchd") /\ p.socket # None => Mode(p) = "activated"
  BY DEF Mode

LEMMA PairIsSeq ==
    ASSUME NEW S, NEW a \in S, NEW b \in S
    PROVE  /\ <<a, b>> \in Seq(S) /\ Len(<<a, b>>) = 2
           /\ <<a, b>>[1] = a /\ <<a, b>>[2] = b
  OBVIOUS

LEMMA RenderedIsActivated ==
    ASSUME NEW binary \in Words, NEW socket \in Words, NEW flags \in Seq(Words)
    PROVE  /\ Rendered(binary, socket, flags) \in Plists
           /\ Rendered(binary, socket, flags) # None
           /\ Mode(Rendered(binary, socket, flags)) = "activated"
  <1> DEFINE args == <<binary, "-launchd">> \o flags
  <1>1. args \in Seq(Words) /\ 2 \in DOMAIN args /\ args[2] = "-launchd"
    <2> DEFINE front == <<binary, "-launchd">>
    <2>1. front \in Seq(Words) /\ Len(front) = 2 /\ front[2] = "-launchd"
      <3>1. "-launchd" \in Words
        BY PlistAssumption
      <3> QED
        BY <3>1, PairIsSeq
    <2> HIDE DEF front
    <2>2. /\ front \o flags \in Seq(Words)
          /\ Len(front \o flags) = 2 + Len(flags) /\ Len(flags) \in Nat
      <3>1. front \o flags \in Seq(Words) /\ Len(front \o flags) = Len(front) + Len(flags)
        BY <2>1, ConcatProperties
      <3>2. Len(flags) \in Nat
        BY LenProperties
      <3> QED
        BY <2>1, <3>1, <3>2
    <2>4. (front \o flags)[2] = front[2]
      BY <2>1, <2>2, ConcatProperties
    <2>3. 2 \in DOMAIN (front \o flags)
      BY <2>2
    <2> QED
      BY <2>1, <2>2, <2>3, <2>4 DEF front
  <1> HIDE DEF args
  <1>2. /\ Rendered(binary, socket, flags) \in Plists
        /\ Rendered(binary, socket, flags).args = args
        /\ Rendered(binary, socket, flags).socket = socket
    BY <1>1 DEF Rendered, Plists, args
  <1>3. Has(args, "-launchd")
    BY <1>1 DEF Has
  <1> HIDE DEF args
  <1> QED
    BY <1>2, <1>3, ModeMeans, PlistAssumption

LEMMA VerdictMeans ==
    ASSUME NEW cmd, NEW p
    PROVE  /\ Verdict(cmd, p) \in {"error", "ok", "write", "reread"}
           /\ Verdict(cmd, p) = "write" => cmd = "install" /\ p = None
           /\ Verdict(cmd, p) = "reread" =>
                cmd = "migrate" /\ p # None /\ p.ours /\ Mode(p) = "old"
           /\ p # None /\ (~p.ours \/ Mode(p) = "unknown") => Verdict(cmd, p) = "error"
  BY ModeMeans DEF Verdict, Mode

(***************************************************************************)
(* Types, and what each command has established when it comes to a step.   *)
(* The plist is the one of the beginning or one the commands have written, *)
(* and they only write in place of none or of one in the old style.        *)
(***************************************************************************)
Steps == Ended \cup {"new", "peek", "read", "reread", "backup", "write", "unload", "load"}

TypesInv ==
    /\ original \in Originals /\ running \in {original} \cup Earlier
    /\ stuck \in BOOLEAN
    /\ plist \in Plists \cup {None}
    /\ DOMAIN backups = 0 .. MaxClock
    /\ clock \in 0 .. MaxClock
    /\ op \in [Procs -> Options \cup {None}]
    /\ pc \in [Procs -> Steps]
    /\ DOMAIN parsed = Procs
    /\ DOMAIN copy = Procs
    /\ stamp \in [Procs -> 0 .. MaxClock \cup {None}]

CommandInv == \A p \in Procs : pc[p] # "new" => op[p] \in Options

FoundInv ==
    \A p \in Procs :
        pc[p] \in {"reread", "backup", "write"} =>
            IF op[p].cmd = "install"
            THEN pc[p] = "write" /\ parsed[p] = None /\ original = None
            ELSE /\ parsed[p] = original /\ original # None
                 /\ original.ours /\ Mode(original) = "old"

WrittenInv ==
    \/ plist = original
    \/ /\ plist # None /\ Mode(plist) = "activated"
       /\ original = None \/ Mode(original) = "old"
       /\ original # None => plist = Migrated(original)

CopyInv ==
    \A p \in Procs :
        pc[p] = "backup" => copy[p] # None /\ (copy[p] = original \/ plist # original)

PlistInv == TypesInv /\ CommandInv /\ FoundInv /\ WrittenInv /\ CopyInv

LEMMA WhatIsWritten ==
    ASSUME PlistInv, NEW p \in Procs, Write(p)
    PROVE  \/ UNCHANGED plist /\ pc'[p] = "error"
           \/ /\ plist' \in Plists /\ plist' # None /\ Mode(plist') = "activated"
              /\ original = None \/ Mode(original) = "old"
              /\ original # None => plist' = Migrated(original)
              /\ plist' # original
              /\ op[p].cmd = "install" => original = None
              /\ op[p].cmd # "install" => Mode(original) = "old"
  <1> USE DEF PlistInv
  <1>0. pc[p] = "write" /\ pc \in [Procs -> Steps]
    BY DEF Write, Go, TypesInv
  <1>1. CASE UNCHANGED plist /\ Go(p, "write", "error")
    BY <1>0, <1>1 DEF Go
  <1>2. CASE plist' = IF op[p].cmd = "install" THEN Installed(op[p].audit)
                                              ELSE Migrated(parsed[p])
    <2>1. CASE op[p].cmd = "install"
      <3>1. original = None /\ plist' = Installed(op[p].audit)
        BY <1>0, <1>2, <2>1 DEF FoundInv
      <3>2. (IF op[p].audit THEN <<"-audit-log", "log">> ELSE <<>>) \in Seq(Words)
        <4>1. "-audit-log" \in Words /\ "log" \in Words
          BY PlistAssumption
        <4>2. <<"-audit-log", "log">> \in Seq(Words) /\ <<>> \in Seq(Words)
          BY <4>1, PairIsSeq
        <4> QED
          BY <4>2, Zenon
      <3>3. /\ plist' \in Plists /\ plist' # None /\ Mode(plist') = "activated"
        BY <3>1, <3>2, PlistAssumption, RenderedIsActivated DEF Installed
      <3> QED
        BY <2>1, <3>1, <3>3
    <2>2. CASE op[p].cmd # "install"
      <3>1. /\ original # None /\ Mode(original) = "old" /\ original \in Plists
            /\ plist' = Migrated(original)
        BY <1>0, <1>2, <2>2, PlistAssumption DEF FoundInv, TypesInv
      <3>2. /\ plist' \in Plists /\ plist' # None /\ Mode(plist') = "activated"
        <4> DEFINE old == socketFromOldArgs(original.args)
        <4>1. (IF old = "" THEN "default" ELSE old) \in Words
          BY <3>1, MigratedIsTyped, PlistAssumption
        <4> QED
          BY <3>1, <4>1, MigratedIsTyped, RenderedIsActivated DEF Migrated
      <3> QED
        BY <2>2, <3>1, <3>2
    <2> QED
      BY <2>1, <2>2
  <1> QED
    BY <1>1, <1>2 DEF Write

LEMMA PlistInit == Init => PlistInv
  <1> SUFFICES ASSUME Init PROVE PlistInv
    OBVIOUS
  <1>1. TypesInv
    <2>1. /\ original \in Originals /\ plist \in Plists \cup {None}
          /\ running \in {original} \cup Earlier /\ stuck \in BOOLEAN
          /\ DOMAIN backups = 0 .. MaxClock /\ DOMAIN parsed = Procs /\ DOMAIN copy = Procs
      BY PlistAssumption DEF Init
    <2>2. /\ op \in [Procs -> Options \cup {None}]
          /\ stamp \in [Procs -> 0 .. MaxClock \cup {None}]
      BY DEF Init
    <2>3. pc \in [Procs -> Steps]
      BY DEF Init, Steps
    <2>4. clock \in 0 .. MaxClock
      <3>1. clock = 0
        BY DEF Init
      <3>2. MaxClock \in Nat
        BY PlistAssumption
      <3> QED
        BY <3>1, <3>2
    <2> QED
      BY <2>1, <2>2, <2>3, <2>4 DEF TypesInv
  <1>2. CommandInv /\ FoundInv /\ WrittenInv /\ CopyInv
    BY DEF Init, CommandInv, FoundInv, WrittenInv, CopyInv
  <1> QED
    BY <1>1, <1>2 DEF PlistInv

LEMMA PlistStep == PlistInv /\ [Next]_vars => PlistInv'
  <1> SUFFICES ASSUME PlistInv, [Next]_vars PROVE PlistInv'
    OBVIOUS
  <1> USE DEF PlistInv, Go
  <1>0. /\ original # None /\ Mode(original) = "old" => original \in Plists
        /\ MaxClock \in Nat
    BY PlistAssumption DEF TypesInv
  <1>1. CASE Tick
    BY <1>0, <1>1 DEF Tick, TypesInv, CommandInv, FoundInv, WrittenInv, CopyInv, local
  <1>2. ASSUME NEW p \in Procs, Start(p) PROVE PlistInv'
    <2>1. op'[p] \in Options /\ op' = [op EXCEPT ![p] = op'[p]]
      <3>1. Bootstrap \in Options /\ Given \subseteq Options
        BY DEF Bootstrap, Given, Options
      <3> QED
        BY <1>2, <3>1 DEF Start, TypesInv
    <2>2. TypesInv'
      BY <1>2, <2>1 DEF Start, TypesInv, Steps, local
    <2>3. CommandInv'
      BY <1>2, <2>1 DEF Start, TypesInv, CommandInv
    <2>4. FoundInv' /\ WrittenInv' /\ CopyInv'
      BY <1>2, <2>1 DEF Start, TypesInv, FoundInv, WrittenInv, CopyInv, local
    <2> QED
      BY <2>2, <2>3, <2>4
  <1>3. ASSUME NEW p \in Procs, Kill(p) PROVE PlistInv'
    BY <1>3 DEF Kill, Running, TypesInv, Steps, Ended, CommandInv, FoundInv,
                WrittenInv, CopyInv, local
  <1>4. ASSUME NEW p \in Procs, Peek(p) PROVE PlistInv'
    BY <1>4 DEF Peek, TypesInv, Steps, Ended, CommandInv, FoundInv, WrittenInv,
                CopyInv, local
  <1>5. ASSUME NEW p \in Procs, Read(p) PROVE PlistInv'
    <2>1. CASE pc' = [pc EXCEPT ![p] = "error"] /\ UNCHANGED parsed
      BY <1>5, <2>1 DEF Read, TypesInv, Steps, Ended, CommandInv, FoundInv, WrittenInv,
                        CopyInv
    <2>2. CASE /\ pc' = [pc EXCEPT ![p] = Verdict(op[p].cmd, plist)]
               /\ parsed' = [parsed EXCEPT ![p] = plist]
      <3> DEFINE v == Verdict(op[p].cmd, plist)
      <3>1. /\ v \in {"error", "ok", "write", "reread"}
            /\ v = "write" => op[p].cmd = "install" /\ plist = None
            /\ v = "reread" =>
                 op[p].cmd = "migrate" /\ plist # None /\ plist.ours /\ Mode(plist) = "old"
        BY VerdictMeans
      <3> HIDE DEF v
      <3>2. /\ pc' = [pc EXCEPT ![p] = v] /\ pc[p] = "read"
            /\ UNCHANGED <<first, plist, backups, stuck, clock, op, copy, stamp>>
        BY <1>5, <2>2 DEF Read, v
      <3>3. TypesInv' /\ CommandInv' /\ WrittenInv' /\ CopyInv'
        BY <2>2, <3>1, <3>2 DEF TypesInv, Steps, Ended, CommandInv, WrittenInv, CopyInv
      <3>4. FoundInv'
        <4> SUFFICES ASSUME NEW q \in Procs, pc'[q] \in {"reread", "backup", "write"}
                     PROVE  IF op[q].cmd = "install"
                            THEN pc'[q] = "write" /\ parsed'[q] = None /\ original = None
                            ELSE /\ parsed'[q] = original /\ original # None
                                 /\ original.ours /\ Mode(original) = "old"
          BY <3>2 DEF FoundInv
        <4>1. CASE q # p
          BY <2>2, <3>2, <4>1 DEF FoundInv, TypesInv
        <4>2. CASE q = p
          <5>1. pc'[p] = v /\ parsed'[p] = plist
            BY <2>2, <3>2 DEF TypesInv
          <5>2. v = "write" => plist = original
            BY <3>1 DEF WrittenInv
          <5>3. v = "reread" => plist = original
            BY <3>1 DEF WrittenInv
          <5> QED
            BY <3>1, <4>2, <5>1, <5>2, <5>3
        <4> QED
          BY <4>1, <4>2
      <3> QED
        BY <3>3, <3>4
    <2> QED
      BY <1>5, <2>1, <2>2 DEF Read
  <1>6. ASSUME NEW p \in Procs, Reread(p) PROVE PlistInv'
    <2>1. /\ pc[p] = "reread" /\ op[p].cmd # "install" /\ original # None
          /\ Mode(original) = "old" /\ plist # None
      BY <1>6 DEF Reread, FoundInv, WrittenInv
    <2>2. TypesInv' /\ CommandInv' /\ WrittenInv' /\ FoundInv'
      BY <1>6, <2>1 DEF Reread, TypesInv, Steps, Ended, CommandInv, WrittenInv, FoundInv
    <2>3. CopyInv'
      BY <1>6, <2>1 DEF Reread, TypesInv, CopyInv
    <2> QED
      BY <2>2, <2>3
  <1>7. ASSUME NEW p \in Procs, Backup(p) PROVE PlistInv'
    <2>1. op[p].cmd # "install" /\ pc[p] = "backup"
      BY <1>7 DEF Backup, FoundInv
    <2>2. TypesInv'
      BY <1>7 DEF Backup, TypesInv, Steps, Ended
    <2>3. CommandInv' /\ WrittenInv' /\ CopyInv'
      BY <1>7 DEF Backup, TypesInv, CommandInv, WrittenInv, CopyInv
    <2>4. FoundInv'
      BY <1>7, <2>1 DEF Backup, TypesInv, FoundInv
    <2> QED
      BY <2>2, <2>3, <2>4
  <1>8. ASSUME NEW p \in Procs, Write(p) PROVE PlistInv'
    <2>1. /\ pc[p] = "write" /\ pc'[p] \in {"unload", "ok", "error"}
          /\ pc' = [pc EXCEPT ![p] = pc'[p]]
          /\ UNCHANGED <<first, backups, stuck, clock, op, local>>
      BY <1>8 DEF Write, TypesInv
    <2>2. \/ UNCHANGED plist
          \/ /\ plist' \in Plists /\ plist' # None /\ Mode(plist') = "activated"
             /\ original = None \/ Mode(original) = "old"
             /\ original # None => plist' = Migrated(original)
             /\ plist' # original
      BY <1>8, WhatIsWritten
    <2>3. TypesInv' /\ CommandInv'
      BY <2>1, <2>2 DEF TypesInv, Steps, Ended, CommandInv, local
    <2>4. WrittenInv'
      BY <2>1, <2>2 DEF WrittenInv
    <2>5. FoundInv' /\ CopyInv'
      BY <2>1, <2>2 DEF TypesInv, FoundInv, CopyInv, local
    <2> QED
      BY <2>3, <2>4, <2>5
  <1>9. ASSUME NEW p \in Procs, Unload(p) PROVE PlistInv'
    BY <1>9 DEF Unload, TypesInv, Steps, CommandInv, FoundInv, WrittenInv, CopyInv, local
  <1>10. ASSUME NEW p \in Procs, Load(p) PROVE PlistInv'
    BY <1>10 DEF Load, TypesInv, Steps, Ended, CommandInv, FoundInv, WrittenInv, CopyInv, local
  <1>11. CASE UNCHANGED vars
    BY <1>11 DEF vars, local, TypesInv, CommandInv, FoundInv, WrittenInv, CopyInv
  <1> QED
    BY <1>1, <1>2, <1>3, <1>4, <1>5, <1>6, <1>7, <1>8, <1>9, <1>10, <1>11
       DEF Next, Step, Finished

LEMMA PlistInvariant == Spec => []PlistInv
  BY PlistInit, PlistStep, PTL DEF Spec

(* A command only comes to write once it has found no plist, or one of     *)
(* its own in the old style (cmdInstallPlist, cmdMigratePlist), and only   *)
(* backs up a plist that was there; whatever other commands do             *)
(* meanwhile.                                                              *)
THEOREM PlistTypeCorrect == Spec => []TypeOK
  <1>1. PlistInv => TypeOK
    BY DEF PlistInv, TypesInv, FoundInv, CopyInv, TypeOK, Steps
  <1> QED
    BY <1>1, PlistInvariant, PTL

LEMMA OriginalStays == [Next]_vars => UNCHANGED first
  <1> SUFFICES ASSUME [Next]_vars PROVE UNCHANGED first
    OBVIOUS
  <1>1. CASE Tick \/ UNCHANGED vars
    BY <1>1 DEF Tick, vars
  <1>2. ASSUME NEW p \in Procs, Start(p) \/ Kill(p) \/ Peek(p) \/ Read(p) \/ Reread(p)
        PROVE  UNCHANGED first
    BY <1>2 DEF Start, Kill, Peek, Read, Reread
  <1>3. ASSUME NEW p \in Procs, Backup(p) \/ Write(p) \/ Unload(p) \/ Load(p)
        PROVE  UNCHANGED first
    BY <1>3 DEF Backup, Write, Unload, Load
  <1> QED
    BY <1>1, <1>2, <1>3 DEF Next, Step, Finished

(***************************************************************************)
(* A plist that is not the commands' to touch: nobody gets past reading it.*)
(***************************************************************************)
Foreign == original # None /\ (~original.ours \/ Mode(original) = "unknown")

UntouchedInv ==
    Foreign =>
        /\ plist = original /\ loaded = running
        /\ \A p \in Procs : pc[p] \in Ended \cup {"new", "peek", "read"}

(* A plist with another label, or that classify() calls unknown, stays     *)
(* on disk and loaded as it was, whatever commands are run on it,          *)
(* however many overlap and wherever they are killed.                      *)
THEOREM ForeignUntouched == Spec => []ForeignIsLeftAlone
  <1>1. Init => UntouchedInv
    BY DEF Init, UntouchedInv
  <1>2. PlistInv /\ UntouchedInv /\ [Next]_vars => UntouchedInv'
    <2> SUFFICES ASSUME PlistInv, UntouchedInv, [Next]_vars PROVE UntouchedInv'
      OBVIOUS
    <2> SUFFICES ASSUME Foreign PROVE UntouchedInv'
      BY OriginalStays DEF UntouchedInv, Foreign
    <2>0. /\ plist = original /\ loaded = running /\ pc \in [Procs -> Steps]
          /\ \A p \in Procs : pc[p] \in Ended \cup {"new", "peek", "read"}
      BY DEF UntouchedInv, PlistInv, TypesInv
    <2>1. CASE Tick
      BY <2>0, <2>1 DEF Tick, UntouchedInv
    <2>2. ASSUME NEW p \in Procs, Start(p) PROVE UntouchedInv'
      BY <2>0, <2>2 DEF Start, Go, UntouchedInv
    <2>3. ASSUME NEW p \in Procs, Kill(p) PROVE UntouchedInv'
      BY <2>0, <2>3 DEF Kill, UntouchedInv, Ended
    <2>4. ASSUME NEW p \in Procs, Peek(p) PROVE UntouchedInv'
      BY <2>0, <2>4 DEF Peek, Go, UntouchedInv, Ended
    <2>5. ASSUME NEW p \in Procs, Read(p) PROVE UntouchedInv'
      <3>1. Verdict(op[p].cmd, plist) = "error"
        BY <2>0, VerdictMeans DEF Foreign
      <3> QED
        BY <2>0, <2>5, <3>1 DEF Read, Go, UntouchedInv, Ended
    <2>6. ASSUME NEW p \in Procs, Reread(p) \/ Backup(p) \/ Write(p) \/ Unload(p) \/ Load(p)
          PROVE  FALSE
      BY <2>0, <2>6 DEF Reread, Backup, Write, Unload, Load, Go, Ended
    <2>7. CASE UNCHANGED vars
      BY <2>0, <2>7 DEF vars, UntouchedInv
    <2> QED
      BY <2>1, <2>2, <2>3, <2>4, <2>5, <2>6, <2>7 DEF Next, Step, Finished
  <1>3. UntouchedInv => ForeignIsLeftAlone
    BY DEF UntouchedInv, Foreign, ForeignIsLeftAlone
  <1> QED
    BY <1>1, <1>2, <1>3, PlistInvariant, PTL DEF Spec

(***************************************************************************)
(* What launchd runs.  When it is not what is on disk, some command has    *)
(* still to unload it, or has unloaded it and has still to load what is    *)
(* there; or nothing has been written; or launchd did not unload; or a     *)
(* command has failed, been killed, or was told not to reload.             *)
(***************************************************************************)
ReloadInv ==
    \/ loaded = plist \/ plist = original \/ stuck
    \/ \E p \in Procs : pc[p] = "unload"
    \/ loaded = None /\ \E p \in Procs : pc[p] = "load"
    \/ \E p \in Procs : pc[p] \in {"error", "killed"}
    \/ \E p \in Procs : pc[p] = "ok" /\ ~op[p].reload

(* Once a command has written, every command that was run has ended well,  *)
(* none was told not to reload, and launchd has not refused to unload,     *)
(* launchd has loaded the plist that is on disk (reloadPlist after         *)
(* writePlistAtomically), whatever it ran before and in whatever order the *)
(* commands took their steps.                                              *)
THEOREM WrittenIsLoaded == Spec => []LoadedIsWritten
  <1>1. Init => ReloadInv
    BY DEF Init, ReloadInv
  <1>2. PlistInv /\ ReloadInv /\ [Next]_vars => ReloadInv'
    <2> SUFFICES ASSUME PlistInv, ReloadInv, [Next]_vars PROVE ReloadInv'
      OBVIOUS
    <2>0. pc \in [Procs -> Steps]
      BY DEF PlistInv, TypesInv
    (* A step of p, at none of the places the invariant speaks of, that    *)
    (* leaves disk and launchd alone.                                      *)
    <2> DEFINE Quiet(p, s) == /\ pc' = [pc EXCEPT ![p] = s]
                              /\ \A q \in Procs : q # p => op'[q] = op[q]
                              /\ UNCHANGED <<first, plist, launchd>>
    <2>1. ASSUME NEW p \in Procs, NEW s, Quiet(p, s),
                 pc[p] \notin {"unload", "load", "error", "killed", "ok"}
          PROVE  ReloadInv'
      BY <2>0, <2>1 DEF ReloadInv
    <2> HIDE DEF Quiet
    <2>2. CASE Tick
      BY <2>2 DEF Tick, ReloadInv
    <2>3. ASSUME NEW p \in Procs, Start(p) PROVE ReloadInv'
      <3>1. pc[p] = "new" /\ \E s : Quiet(p, s)
        BY <2>3 DEF Start, Go, Quiet, PlistInv, TypesInv
      <3> QED
        BY <2>1, <3>1
    <2>4. ASSUME NEW p \in Procs, Kill(p) PROVE ReloadInv'
      BY <2>0, <2>4 DEF Kill, ReloadInv
    <2>5. ASSUME NEW p \in Procs, Peek(p) \/ Read(p) \/ Reread(p) \/ Backup(p)
          PROVE  ReloadInv'
      <3>1. pc[p] \in {"peek", "read", "reread", "backup"} /\ \E s : Quiet(p, s)
        BY <2>5 DEF Peek, Read, Reread, Backup, Go, Quiet
      <3> QED
        BY <2>1, <3>1
    <2>6. ASSUME NEW p \in Procs, Write(p) PROVE ReloadInv'
      <3>1. CASE op[p].reload /\ Go(p, "write", "unload")
        BY <2>0, <2>6, <3>1 DEF Go, ReloadInv
      <3>2. CASE ~op[p].reload /\ Go(p, "write", "ok") /\ UNCHANGED op
        BY <2>0, <2>6, <3>2 DEF Go, ReloadInv
      <3>3. CASE Go(p, "write", "error")
        BY <2>0, <2>6, <3>3 DEF Go, ReloadInv
      <3> QED
        BY <2>6, <3>1, <3>2, <3>3 DEF Write
    <2>7. ASSUME NEW p \in Procs, Unload(p) PROVE ReloadInv'
      BY <2>0, <2>7 DEF Unload, Go, ReloadInv
    <2>8. ASSUME NEW p \in Procs, Load(p) PROVE ReloadInv'
      <3>1. CASE Go(p, "load", "error")
        BY <2>0, <3>1 DEF Go, ReloadInv
      <3>2. CASE Go(p, "load", "ok") /\ loaded' = IF loaded = None THEN plist ELSE loaded
        <4>1. /\ UNCHANGED <<first, plist, stuck, op>>
              /\ pc[p] = "load" /\ pc' = [pc EXCEPT ![p] = "ok"]
          BY <2>8, <3>2 DEF Load, Go
        <4>2. CASE loaded = None
          BY <3>2, <4>1, <4>2 DEF ReloadInv
        <4>3. CASE loaded # None
          BY <2>0, <3>2, <4>1, <4>3 DEF ReloadInv
        <4> QED
          BY <4>2, <4>3
      <3> QED
        BY <2>8, <3>1, <3>2 DEF Load
    <2>9. CASE UNCHANGED vars
      BY <2>9 DEF vars, ReloadInv
    <2> QED
      BY <2>2, <2>3, <2>4, <2>5, <2>6, <2>7, <2>8, <2>9 DEF Next, Step, Finished
  <1>3. ReloadInv => LoadedIsWritten
    BY DEF ReloadInv, LoadedIsWritten, EndedWell
  <1> QED
    BY <1>1, <1>2, <1>3, PlistInvariant, PTL DEF Spec

(***************************************************************************)
(* Where the original is once it is no longer on disk.  A backup that is   *)
(* there was made by some command, and is named after its second; so only  *)
(* a command of the same second can write over it.                         *)
(***************************************************************************)
Slots == 0 .. MaxClock

StampInv ==
    \A p \in Procs :
        pc[p] \in {"new", "peek", "read", "reread", "backup"} => stamp[p] = None

SlotInv == \A t \in Slots : backups[t] # None => \E r \in Procs : stamp[r] = t

BackedInv ==
    SameSecond \/
        /\ \A p \in Procs :
              pc[p] = "write" /\ op[p].cmd # "install" /\ plist = original =>
                 stamp[p] \in Slots /\ backups[stamp[p]] = original
        /\ plist # original /\ original # None =>
              \E t \in Slots : backups[t] = original

NoneInv == original = None => \A t \in Slots : backups[t] = None

BackupInv == StampInv /\ SlotInv /\ BackedInv /\ NoneInv

LEMMA BackupStep == PlistInv /\ BackupInv /\ [Next]_vars => BackupInv'
  <1> SUFFICES ASSUME PlistInv, BackupInv, [Next]_vars PROVE BackupInv'
    OBVIOUS
  <1> USE DEF BackupInv
  <1>0. /\ pc \in [Procs -> Steps] /\ op \in [Procs -> Options \cup {None}]
        /\ stamp \in [Procs -> Slots \cup {None}]
        /\ DOMAIN backups = Slots /\ clock \in Slots /\ None \notin Slots
    <2>1. None \notin Nat /\ MaxClock \in Nat
      BY PlistAssumption
    <2>2. None \notin Slots
      BY <2>1 DEF Slots
    <2> QED
      BY <2>2 DEF PlistInv, TypesInv, Slots
  <1>00. UNCHANGED original
    BY OriginalStays
  (* A step of p that neither backs up nor writes nor comes to write a     *)
  (* migrated plist.                                                       *)
  <1> DEFINE Aside(p, s) ==
        /\ pc' = [pc EXCEPT ![p] = s]
        /\ pc[p] \notin {"backup", "write"} /\ s # "new"
        /\ s \in {"peek", "read", "reread", "backup"} =>
              pc[p] \in {"new", "peek", "read", "reread", "backup"}
        /\ s = "write" => op'[p].cmd = "install"
        /\ \A q \in Procs : q # p => op'[q] = op[q]
        /\ UNCHANGED <<plist, backups, stamp>>
  <1>1. ASSUME NEW p \in Procs, NEW s, Aside(p, s) PROVE BackupInv'
    <2>1. StampInv' /\ SlotInv' /\ NoneInv'
      BY <1>0, <1>00, <1>1 DEF StampInv, SlotInv, NoneInv
    <2>2. BackedInv'
      <3>1. CASE SameSecond
        BY <1>1, <3>1 DEF SameSecond, BackedInv
      <3>2. CASE ~SameSecond
        BY <1>0, <1>00, <1>1, <3>2 DEF BackedInv
      <3> QED
        BY <3>1, <3>2
    <2> QED
      BY <2>1, <2>2
  <1> HIDE DEF Aside
  <1>2. ASSUME NEW p \in Procs, Start(p) \/ Kill(p) \/ Peek(p) \/ Reread(p) \/ Unload(p) \/ Load(p)
        PROVE  BackupInv'
    <2>1. CASE Start(p)
      <3>1. Aside(p, "peek") \/ Aside(p, "read")
        BY <1>0, <2>1 DEF Start, Go, Aside, local
      <3> QED
        BY <1>1, <3>1
    <2>2. CASE Kill(p) /\ pc[p] \notin {"backup", "write"}
      <3>1. Aside(p, "killed")
        BY <2>2 DEF Kill, Aside, local
      <3> QED
        BY <1>1, <3>1
    <2>3. CASE Kill(p) /\ pc[p] \in {"backup", "write"}
      <3>1. /\ pc' = [pc EXCEPT ![p] = "killed"]
            /\ UNCHANGED <<original, plist, backups, op, stamp>>
        BY <2>3 DEF Kill, local
      <3>2. StampInv' /\ SlotInv' /\ NoneInv'
        BY <1>0, <3>1 DEF StampInv, SlotInv, NoneInv
      <3>3. BackedInv'
        BY <1>0, <3>1 DEF BackedInv, SameSecond
      <3> QED
        BY <3>2, <3>3
    <2>4. CASE Peek(p) \/ Reread(p) \/ Unload(p) \/ Load(p)
      <3>1. \E s \in {"read", "ok", "backup", "error", "load"} : Aside(p, s)
        BY <2>4 DEF Peek, Reread, Unload, Load, Go, Aside, local
      <3> QED
        BY <1>1, <3>1
    <2> QED
      BY <1>2, <2>1, <2>2, <2>3, <2>4
  <1>3. ASSUME NEW p \in Procs, Read(p) PROVE BackupInv'
    <2>1. CASE Go(p, "read", "error")
      <3>1. Aside(p, "error")
        BY <1>3, <2>1 DEF Read, Go, Aside
      <3> QED
        BY <1>1, <3>1
    <2>2. CASE Go(p, "read", Verdict(op[p].cmd, plist))
      <3> DEFINE v == Verdict(op[p].cmd, plist)
      <3>1. v \in {"error", "ok", "write", "reread"} /\ (v = "write" => op[p].cmd = "install")
        BY VerdictMeans
      <3> HIDE DEF v
      <3>2. /\ pc' = [pc EXCEPT ![p] = v] /\ pc[p] = "read"
            /\ UNCHANGED <<op, plist, backups, stamp>>
        BY <1>3, <2>2 DEF Read, Go, v
      <3>3. Aside(p, v)
        BY <3>1, <3>2 DEF Aside
      <3> QED
        BY <1>1, <3>3
    <2> QED
      BY <1>3, <2>1, <2>2 DEF Read
  <1>4. ASSUME NEW p \in Procs, Backup(p) PROVE BackupInv'
    <2>1. /\ pc[p] = "backup" /\ stamp[p] = None
          /\ stamp' = [stamp EXCEPT ![p] = clock]
          /\ UNCHANGED <<original, plist, clock, op>>
      BY <1>4 DEF Backup, Go, StampInv
    <2>2. original # None /\ (plist = original => copy[p] = original)
      BY <2>1 DEF PlistInv, FoundInv, CopyInv
    <2>3. StampInv'
      BY <1>0, <1>4, <2>1 DEF Backup, Go, StampInv
    <2>4. /\ \A q \in Procs : q # p => stamp'[q] = stamp[q]
          /\ stamp'[p] = clock
      BY <1>0, <2>1
    <2>5. /\ \A t \in Slots : t # clock => backups'[t] = backups[t]
          /\ pc'[p] = "write" => backups'[clock] = copy[p]
          /\ \A q \in Procs : q # p => pc'[q] = pc[q]
      BY <1>0, <1>4 DEF Backup, Go
    <2>6. SlotInv'
      <3> SUFFICES ASSUME NEW t \in Slots, backups'[t] # None
                   PROVE  \E r \in Procs : stamp'[r] = t
        BY DEF SlotInv, Slots
      <3>1. CASE t = clock
        BY <2>4, <3>1
      <3>2. CASE t # clock
        <4>1. PICK r \in Procs : stamp[r] = t
          BY <2>5, <3>2 DEF SlotInv
        <4>2. r # p
          BY <1>0, <2>1, <4>1
        <4> QED
          BY <2>4, <4>1, <4>2
      <3> QED
        BY <3>1, <3>2
    <2>7. BackedInv'
      <3>1. CASE SameSecond
        <4>1. PICK q \in Procs, r \in Procs :
                    q # r /\ stamp[q] = stamp[r] /\ stamp[q] # None
          BY <3>1 DEF SameSecond
        <4>2. stamp'[q] = stamp'[r] /\ stamp'[q] # None
          BY <2>1, <2>4, <4>1
        <4> QED
          BY <4>1, <4>2 DEF BackedInv, SameSecond
      <3>2. CASE \E r \in Procs : r # p /\ stamp[r] = clock
        <4>1. PICK r \in Procs : r # p /\ stamp'[r] = clock
          BY <2>4, <3>2
        <4> QED
          BY <1>0, <2>4, <4>1 DEF BackedInv, SameSecond
      <3>3. CASE ~SameSecond /\ \A r \in Procs : r # p => stamp[r] # clock
        <4>1. ASSUME NEW q \in Procs, pc'[q] = "write", op[q].cmd # "install",
                     plist = original
              PROVE  stamp'[q] \in Slots /\ backups'[stamp'[q]] = original
          <5>1. CASE q = p
            BY <1>0, <2>2, <2>4, <2>5, <4>1, <5>1
          <5>2. CASE q # p
            BY <1>0, <2>4, <2>5, <3>3, <4>1, <5>2 DEF BackedInv
          <5> QED
            BY <5>1, <5>2
        <4>2. ASSUME plist # original PROVE \E t \in Slots : backups'[t] = original
          <5>1. PICK t \in Slots : backups[t] = original
            BY <2>2, <3>3, <4>2 DEF BackedInv
          <5>2. PICK r \in Procs : stamp[r] = t
            BY <2>2, <5>1 DEF SlotInv
          <5>3. t # clock
            BY <1>0, <2>1, <3>3, <5>2
          <5> QED
            BY <2>5, <5>1, <5>3
        <4> QED
          BY <2>1, <4>1, <4>2 DEF BackedInv, Slots
      <3> QED
        BY <3>1, <3>2, <3>3
    <2> QED
      BY <2>1, <2>2, <2>3, <2>6, <2>7 DEF NoneInv
  <1>5. ASSUME NEW p \in Procs, Write(p) PROVE BackupInv'
    <2>1. /\ pc[p] = "write" /\ pc'[p] \in {"unload", "ok", "error"}
          /\ pc' = [pc EXCEPT ![p] = pc'[p]]
          /\ UNCHANGED <<original, backups, op, stamp>>
      BY <1>0, <1>5 DEF Write, Go, local
    <2>2. StampInv' /\ SlotInv' /\ NoneInv'
      BY <1>0, <2>1 DEF StampInv, SlotInv, NoneInv
    <2>3. CASE SameSecond
      BY <2>1, <2>2, <2>3 DEF SameSecond, BackedInv
    <2>4. CASE ~SameSecond /\ UNCHANGED plist
      BY <1>0, <2>1, <2>2, <2>4 DEF BackedInv
    <2>5. CASE ~SameSecond /\ ~UNCHANGED plist
      <3>1. /\ plist' # original /\ (op[p].cmd = "install" => original = None)
        BY <1>5, <2>5, WhatIsWritten
      <3>2. original # None => \E t \in Slots : backups[t] = original
        BY <2>1, <2>5, <3>1 DEF BackedInv
      <3>3. BackedInv'
        BY <2>1, <3>1, <3>2 DEF BackedInv, Slots
      <3> QED
        BY <2>2, <3>3
    <2> QED
      BY <2>3, <2>4, <2>5
  <1>6. CASE Tick \/ UNCHANGED vars
    <2>1. UNCHANGED <<plist, backups, op, pc, stamp>>
      BY <1>6 DEF Tick, vars, local
    <2> QED
      BY <1>00, <2>1 DEF StampInv, SlotInv, BackedInv, NoneInv, SameSecond
  <1> QED
    BY <1>2, <1>3, <1>4, <1>5, <1>6 DEF Next, Step, Finished

(* The plist there was at first is on disk or in a backup at all times,    *)
(* for any number of migrations, whatever fails and whatever is killed,    *)
(* unless two of them name their backups after the same second             *)
(* (backupPath).                                                           *)
THEOREM OriginalIsKept == Spec => []OriginalSurvives
  <1>1. Init => BackupInv
    BY DEF Init, BackupInv, StampInv, SlotInv, BackedInv, NoneInv, SameSecond, Slots
  <1>2. PlistInv /\ BackupInv => OriginalSurvives
    <2> SUFFICES ASSUME PlistInv, BackupInv, ~SameSecond, plist # original
                 PROVE  \E t \in DOMAIN backups : backups[t] = original
      BY DEF OriginalSurvives
    <2>1. DOMAIN backups = Slots
      BY DEF PlistInv, TypesInv, Slots
    <2>2. CASE original = None
      <3>1. MaxClock \in Nat
        BY PlistAssumption
      <3>2. 0 \in Slots
        BY <3>1 DEF Slots
      <3> QED
        BY <2>1, <2>2, <3>2 DEF BackupInv, NoneInv
    <2>3. CASE original # None
      BY <2>1, <2>3 DEF BackupInv, BackedInv
    <2> QED
      BY <2>2, <2>3
  <1>3. PlistInv /\ BackupInv /\ [Next]_vars => BackupInv'
    BY BackupStep
  <1> QED
    BY <1>1, <1>2, <1>3, PlistInvariant, PTL DEF Spec

(***************************************************************************)
(* The flags of a command line are where its recursion says they are.      *)
(***************************************************************************)
FlagHere(args, T, g, i) == i > 1 /\ (i = 2 \/ ~(g[i - 1] /\ args[i - 1] \in T))

FlagsUpTo(args, T, m, g) == g = [i \in 0 .. m |-> FlagHere(args, T, g, i)]

LEMMA FlagsExist ==
    ASSUME NEW args \in Seq(Words), NEW T
    PROVE  \E g : FlagsUpTo(args, T, Len(args), g)
  <1> DEFINE n == Len(args)
  <1> DEFINE S == {m \in 0 .. n : \E g : FlagsUpTo(args, T, m, g)}
  <1>0. n \in Nat
    OBVIOUS
  <1>1. 0 \in S
    <2> DEFINE g == [i \in 0 .. 0 |-> FALSE]
    <2>1. \A i \in 0 .. 0 : FlagHere(args, T, g, i) = FALSE
      BY DEF FlagHere
    <2>2. g = [i \in 0 .. 0 |-> FlagHere(args, T, g, i)]
      BY <2>1
    <2> HIDE DEF g
    <2>3. FlagsUpTo(args, T, 0, g)
      BY <2>2 DEF FlagsUpTo
    <2> QED
      BY <1>0, <2>3
  <1>2. PICK m \in S : \A k \in S : k <= m
    <2>1. S \subseteq 0 .. n
      OBVIOUS
    <2> HIDE DEF S
    <2> QED
      BY <1>0, <1>1, <2>1, GreatestNumber
  <1>3. PICK g : FlagsUpTo(args, T, m, g)
    OBVIOUS
  <1>4. m = n
    <2> SUFFICES ASSUME m # n PROVE FALSE
      OBVIOUS
    <2> DEFINE l == m + 1
    <2> DEFINE h == [i \in 0 .. l |-> IF i = l THEN FlagHere(args, T, g, l) ELSE g[i]]
    <2>1. m \in 0 .. n /\ l \in 0 .. n /\ l = m + 1 /\ l \in Nat
      BY <1>0
    <2>2. h = [i \in 0 .. l |-> h[i]]
      OBVIOUS
    <2>3. \A i \in 0 .. l : h[i] = IF i = l THEN FlagHere(args, T, g, l) ELSE g[i]
      OBVIOUS
    <2> HIDE DEF h, l
    <2>4. \A i \in 0 .. m : h[i] = g[i]
      BY <1>0, <2>1, <2>3
    <2>5. ASSUME NEW i \in 0 .. l PROVE h[i] = FlagHere(args, T, h, i)
      <3>1. i > 1 => h[i - 1] = g[i - 1]
        BY <2>1, <2>4
      <3>2. FlagHere(args, T, h, i) = FlagHere(args, T, g, i)
        BY <3>1 DEF FlagHere
      <3>3. CASE i = l
        BY <2>3, <3>2, <3>3
      <3>4. CASE i \in 0 .. m
        <4>1. g[i] = FlagHere(args, T, g, i)
          BY <1>3, <3>4 DEF FlagsUpTo
        <4> QED
          BY <2>4, <3>2, <3>4, <4>1
      <3> QED
        BY <2>1, <3>3, <3>4
    <2>6. FlagsUpTo(args, T, l, h)
      BY <2>2, <2>5 DEF FlagsUpTo
    <2>7. l \in S
      BY <2>1, <2>6
    <2> HIDE DEF S
    <2> QED
      BY <1>2, <2>1, <2>7
  <1> QED
    BY <1>3, <1>4

LEMMA ReadsRule ==
    ASSUME NEW args \in Seq(Words), NEW T
    PROVE  /\ Reads(args, T) \subseteq 2 .. Len(args)
           /\ 2 <= Len(args) => 2 \in Reads(args, T)
           /\ \A i \in 3 .. Len(args) :
                 i \in Reads(args, T) <=>
                    ~(i - 1 \in Reads(args, T) /\ args[i - 1] \in T)
  <1> DEFINE g == CHOOSE h : FlagsUpTo(args, T, Len(args), h)
  <1>1. FlagsUpTo(args, T, Len(args), g)
    BY FlagsExist
  <1>2. g = CHOOSE h : h = [i \in 0 .. Len(args) |-> FlagHere(args, T, h, i)]
    BY DEF FlagsUpTo
  <1> HIDE DEF g
  <1>3. Reads(args, T) = {i \in DOMAIN args : g[i]}
    BY <1>2 DEF Reads, FlagHere
  <1>4. Len(args) \in Nat /\ DOMAIN args = 1 .. Len(args)
    OBVIOUS
  <1>5. \A i \in 0 .. Len(args) : g[i] = FlagHere(args, T, g, i)
    BY <1>1 DEF FlagsUpTo
  <1>6. \A i \in 0 .. Len(args) :
          g[i] <=> i > 1 /\ (i = 2 \/ ~(g[i - 1] /\ args[i - 1] \in T))
    BY <1>5 DEF FlagHere
  <1> QED
    BY <1>3, <1>4, <1>6

(* The parser of a command line in plain spelling: every position it reads *)
(* is a flag, and whether a flag takes the next word is seen from the word.*)
PlainFlags(args) == Reads(args, ValueFlags)

PlainSetting(args, f) ==
    LET at   == {i \in PlainFlags(args) : args[i] = f}
        last == CHOOSE i \in at : \A j \in at : j <= i
    IN  IF at = {} THEN "unset"
        ELSE IF f \notin ValueFlags THEN "true"
        ELSE IF last = Len(args) THEN "missing" ELSE args[last + 1]

LEMMA FlagsRule ==
    ASSUME NEW args \in Seq(Words)
    PROVE  /\ PlainFlags(args) \subseteq 2 .. Len(args)
           /\ 2 <= Len(args) => 2 \in PlainFlags(args)
           /\ \A i \in 3 .. Len(args) :
                 i \in PlainFlags(args) <=>
                    ~(i - 1 \in PlainFlags(args) /\ args[i - 1] \in ValueFlags)
  BY ReadsRule DEF PlainFlags

(***************************************************************************)
(* The meaning of a command line, read from its end: args is rest with one *)
(* more flag, and its value if it takes one, after the path of the binary. *)
(***************************************************************************)
Shifted(args, rest, k) ==
    /\ args \in Seq(Words) /\ rest \in Seq(Words)
    /\ Len(rest) >= 1 /\ Len(args) = Len(rest) + k
    /\ \A i \in 2 .. Len(rest) : args[i + k] = rest[i]
    /\ \/ k = 1 /\ args[2] \notin ValueFlags
       \/ k = 2 /\ args[2] \in ValueFlags

LEMMA FlagsShift ==
    ASSUME NEW args, NEW rest, NEW k, Shifted(args, rest, k)
    PROVE  /\ 2 \in PlainFlags(args) /\ (k = 2 => 3 \notin PlainFlags(args))
           /\ \A i \in 2 .. Len(rest) : i + k \in PlainFlags(args) <=> i \in PlainFlags(rest)
  <1> DEFINE m == Len(rest)
  <1>0. /\ args \in Seq(Words) /\ rest \in Seq(Words) /\ k \in {1, 2}
        /\ m \in Nat /\ m >= 1 /\ Len(args) = m + k
        /\ \A i \in 2 .. m : args[i + k] = rest[i]
        /\ k = 1 => args[2] \notin ValueFlags
        /\ k = 2 => args[2] \in ValueFlags
    BY DEF Shifted
  <1> HIDE DEF m
  <1>1. /\ 2 \in PlainFlags(args)
        /\ \A i \in 3 .. m + k :
              i \in PlainFlags(args) <=> ~(i - 1 \in PlainFlags(args) /\ args[i - 1] \in ValueFlags)
    BY <1>0, FlagsRule
  <1>2. /\ 2 <= m => 2 \in PlainFlags(rest)
        /\ \A i \in 3 .. m :
              i \in PlainFlags(rest) <=> ~(i - 1 \in PlainFlags(rest) /\ rest[i - 1] \in ValueFlags)
    BY <1>0, FlagsRule DEF m
  <1>3. k = 2 => 3 \notin PlainFlags(args)
    <2> SUFFICES ASSUME k = 2 PROVE 3 \notin PlainFlags(args)
      OBVIOUS
    <2>1. 3 \in 3 .. m + k /\ 3 - 1 = 2
      BY <1>0
    <2> QED
      BY <1>0, <1>1, <2>1
  <1> DEFINE bad == {i \in 2 .. m : ~(i + k \in PlainFlags(args) <=> i \in PlainFlags(rest))}
  <1>4. bad = {}
    <2> SUFFICES ASSUME bad # {} PROVE FALSE
      OBVIOUS
    <2>1. PICK i \in bad : \A j \in bad : i <= j
      <3>1. bad \subseteq Nat
        BY <1>0
      <3> HIDE DEF bad
      <3> QED
        BY <3>1, LeastNumber
    <2>2. i \in 2 .. m /\ ~(i + k \in PlainFlags(args) <=> i \in PlainFlags(rest))
      OBVIOUS
    <2>3. CASE i = 2
      <3>1. 2 \in PlainFlags(rest)
        BY <1>0, <1>2, <2>2, <2>3
      <3>2. CASE k = 1
        <4>1. 3 \in 3 .. m + k /\ 3 - 1 = 2
          BY <1>0, <2>2, <2>3
        <4>2. 3 \in PlainFlags(args)
          BY <1>0, <1>1, <3>2, <4>1
        <4> QED
          BY <2>2, <2>3, <3>1, <3>2, <4>2
      <3>3. CASE k = 2
        <4>1. 4 \in 3 .. m + k /\ 4 - 1 = 3
          BY <1>0, <2>2, <2>3, <3>3
        <4>2. 4 \in PlainFlags(args)
          BY <1>1, <1>3, <3>3, <4>1
        <4> QED
          BY <2>2, <2>3, <3>1, <3>3, <4>2
      <3> QED
        BY <1>0, <3>2, <3>3
    <2>4. CASE i # 2
      <3>1. i - 1 \notin bad /\ i - 1 \in 2 .. m /\ i \in 3 .. m
        BY <1>0, <2>1, <2>2, <2>4
      <3>2. i - 1 + k \in PlainFlags(args) <=> i - 1 \in PlainFlags(rest)
        BY <3>1
      <3>3. args[i - 1 + k] = rest[i - 1]
        BY <1>0, <3>1
      <3>4. i + k \in 3 .. m + k /\ i + k - 1 = i - 1 + k
        BY <1>0, <3>1
      <3>5. i + k \in PlainFlags(args) <=>
               ~(i + k - 1 \in PlainFlags(args) /\ args[i + k - 1] \in ValueFlags)
        <4>1. PICK j \in 3 .. m + k : j = i + k
          BY <3>4
        <4>2. j \in PlainFlags(args) <=> ~(j - 1 \in PlainFlags(args) /\ args[j - 1] \in ValueFlags)
          BY <1>1
        <4>3. j - 1 = i + k - 1
          BY <1>0, <2>2, <4>1
        <4> QED
          BY <4>1, <4>2, <4>3
      <3>6. i \in PlainFlags(rest) <=>
               ~(i - 1 \in PlainFlags(rest) /\ rest[i - 1] \in ValueFlags)
        BY <1>2, <3>1
      <3> QED
        BY <2>2, <3>2, <3>3, <3>4, <3>5, <3>6
    <2> QED
      BY <2>3, <2>4
  <1> QED
    BY <1>1, <1>3, <1>4 DEF m

At(args, f) == {i \in PlainFlags(args) : args[i] = f}

LEMMA SettingOf ==
    ASSUME NEW args \in Seq(Words), NEW f
    PROVE  /\ At(args, f) = {} => PlainSetting(args, f) = "unset"
           /\ At(args, f) # {} =>
                \E m \in At(args, f) : \A j \in At(args, f) : j <= m
           /\ \A m \in At(args, f) :
                (\A j \in At(args, f) : j <= m) =>
                   PlainSetting(args, f) = IF f \notin ValueFlags THEN "true"
                                      ELSE IF m = Len(args) THEN "missing" ELSE args[m + 1]
  <1> DEFINE at == {i \in PlainFlags(args) : args[i] = f}
  <1> DEFINE last == CHOOSE i \in at : \A j \in at : j <= i
  <1>0. at = At(args, f) /\ at \subseteq 0 .. Len(args) /\ Len(args) \in Nat
    BY FlagsRule DEF At
  <1>1. /\ at = {} => PlainSetting(args, f) = "unset"
        /\ at # {} => PlainSetting(args, f) = IF f \notin ValueFlags THEN "true"
                             ELSE IF last = Len(args) THEN "missing" ELSE args[last + 1]
    BY DEF PlainSetting
  <1> HIDE DEF at
  <1>2. at # {} => \E m \in at : \A j \in at : j <= m
    BY <1>0, GreatestNumber
  <1>3. ASSUME NEW m \in at, \A j \in at : j <= m PROVE last = m
    <2>1. last \in at /\ \A j \in at : j <= last
      BY <1>3
    <2> HIDE DEF last
    <2> QED
      BY <1>0, <1>3, <2>1
  <1> HIDE DEF last
  <1> QED
    BY <1>0, <1>1, <1>2, <1>3

LEMMA SettingShift ==
    ASSUME NEW args, NEW rest, NEW k, Shifted(args, rest, k), NEW f
    PROVE  /\ At(rest, f) # {} => /\ At(args, f) # {}
                                 /\ PlainSetting(args, f) = PlainSetting(rest, f)
           /\ At(rest, f) = {} /\ args[2] # f =>
                At(args, f) = {} /\ PlainSetting(args, f) = "unset"
           /\ At(rest, f) = {} /\ args[2] = f =>
                /\ At(args, f) # {}
                /\ PlainSetting(args, f) = IF k = 1 THEN "true" ELSE args[3]
  <1>0. /\ args \in Seq(Words) /\ rest \in Seq(Words) /\ k \in {1, 2}
        /\ Len(rest) \in Nat /\ Len(rest) >= 1 /\ Len(args) = Len(rest) + k
        /\ \A i \in 2 .. Len(rest) : args[i + k] = rest[i]
        /\ k = 1 <=> args[2] \notin ValueFlags
    BY DEF Shifted
  <1>1. /\ PlainFlags(args) \subseteq 2 .. Len(rest) + k /\ PlainFlags(rest) \subseteq 2 .. Len(rest)
        /\ 2 \in PlainFlags(args) /\ (k = 2 => 3 \notin PlainFlags(args))
        /\ \A i \in 2 .. Len(rest) : i + k \in PlainFlags(args) <=> i \in PlainFlags(rest)
    BY <1>0, FlagsRule, FlagsShift
  <1>2. \A i \in At(rest, f) : i \in 2 .. Len(rest) /\ i + k \in At(args, f)
    BY <1>0, <1>1 DEF At
  <1>3. ASSUME NEW j \in At(args, f)
        PROVE  j \in Int /\ (j = 2 \/ (j - k \in At(rest, f) /\ j - k >= 2))
    <2>1. j \in PlainFlags(args) /\ args[j] = f /\ j \in 2 .. Len(rest) + k
      BY <1>1 DEF At
    <2>2. CASE j = 2
      BY <2>2
    <2>3. CASE j # 2
      <3>1. j - k \in 2 .. Len(rest) /\ (j - k) + k = j
        BY <1>0, <1>1, <2>1, <2>3
      <3>2. j - k \in PlainFlags(rest) /\ rest[j - k] = f
        <4> DEFINE l == j - k
        <4>1. l \in 2 .. Len(rest) /\ l + k = j /\ l = j - k
          BY <3>1
        <4> HIDE DEF l
        <4>2. l \in PlainFlags(rest) /\ rest[l] = f
          BY <1>0, <1>1, <2>1, <4>1
        <4> QED
          BY <4>2 DEF l
      <3>3. j - k \in At(rest, f)
        BY <3>2, Zenon DEF At
      <3>4. j \in Int /\ j - k >= 2
        BY <1>0, <2>1, <3>1
      <3> QED
        BY <3>3, <3>4
    <2> QED
      BY <2>2, <2>3
  <1>4. ASSUME At(rest, f) # {}
        PROVE  At(args, f) # {} /\ PlainSetting(args, f) = PlainSetting(rest, f)
    <2>1. PICK m \in At(rest, f) : \A j \in At(rest, f) : j <= m
      BY <1>0, <1>4, SettingOf
    <2>2. m \in 2 .. Len(rest) /\ m + k \in At(args, f)
      BY <1>2
    <2>3. ASSUME NEW j \in At(args, f) PROVE j <= m + k
      <3>1. CASE j = 2
        BY <1>0, <2>2, <3>1
      <3>2. CASE j - k \in At(rest, f) /\ j \in Int
        <4>1. j - k <= m
          BY <2>1, <3>2
        <4> QED
          BY <1>0, <2>2, <3>2, <4>1
      <3> QED
        BY <1>3, <3>1, <3>2
    <2>4. PlainSetting(args, f) = IF f \notin ValueFlags THEN "true"
                             ELSE IF m + k = Len(args) THEN "missing" ELSE args[m + k + 1]
      BY <1>0, <2>2, <2>3, SettingOf
    <2>5. PlainSetting(rest, f) = IF f \notin ValueFlags THEN "true"
                             ELSE IF m = Len(rest) THEN "missing" ELSE rest[m + 1]
      BY <1>0, <2>1, SettingOf
    <2>6. /\ m + k = Len(args) <=> m = Len(rest)
          /\ m # Len(rest) => args[m + k + 1] = rest[m + 1]
      <3>1. m # Len(rest) => m + 1 \in 2 .. Len(rest) /\ m + 1 + k = m + k + 1
        BY <1>0, <2>2
      <3> QED
        BY <1>0, <2>2, <3>1
    <2> QED
      BY <2>2, <2>4, <2>5, <2>6
  <1>5. ASSUME At(rest, f) = {}, args[2] # f
        PROVE  At(args, f) = {} /\ PlainSetting(args, f) = "unset"
    <2>1. At(args, f) = {}
      BY <1>3, <1>5 DEF At
    <2> QED
      BY <1>0, <2>1, SettingOf
  <1>6. ASSUME At(rest, f) = {}, args[2] = f
        PROVE  /\ At(args, f) # {}
               /\ PlainSetting(args, f) = IF k = 1 THEN "true" ELSE args[3]
    <2>1. 2 \in At(args, f) /\ \A j \in At(args, f) : j <= 2
      BY <1>1, <1>3, <1>6 DEF At
    <2>2. PlainSetting(args, f) = IF f \notin ValueFlags THEN "true"
                             ELSE IF 2 = Len(args) THEN "missing" ELSE args[2 + 1]
      BY <1>0, <2>1, SettingOf
    <2>3. k = 2 => 2 # Len(args)
      BY <1>0
    <2> QED
      BY <1>0, <1>6, <2>1, <2>2, <2>3
  <1> QED
    BY <1>4, <1>5, <1>6

(* Two command lines say the same of a flag.                               *)
Agree(s, t, f) == PlainSetting(s, f) = PlainSetting(t, f) /\ (At(s, f) = {} <=> At(t, f) = {})

LEMMA SameFront ==
    ASSUME NEW s1, NEW t1, NEW s2, NEW t2, NEW k, NEW f,
           Shifted(s1, t1, k), Shifted(s2, t2, k), Agree(t1, t2, f),
           s1[2] = s2[2], k = 2 => s1[3] = s2[3]
    PROVE  Agree(s1, s2, f)
  <1>0. k \in {1, 2}
    BY DEF Shifted
  <1>1. CASE At(t1, f) # {}
    <2>1. /\ At(s1, f) # {} /\ PlainSetting(s1, f) = PlainSetting(t1, f)
          /\ At(s2, f) # {} /\ PlainSetting(s2, f) = PlainSetting(t2, f)
      BY <1>1, SettingShift DEF Agree
    <2> QED
      BY <2>1 DEF Agree
  <1>2. CASE At(t1, f) = {} /\ s1[2] # f
    <2>1. /\ At(s1, f) = {} /\ PlainSetting(s1, f) = "unset"
          /\ At(s2, f) = {} /\ PlainSetting(s2, f) = "unset"
      <3>1. At(s1, f) = {} /\ PlainSetting(s1, f) = "unset"
        BY <1>2, SettingShift
      <3>2. At(t2, f) = {} /\ s2[2] # f
        BY <1>2 DEF Agree
      <3>3. At(s2, f) = {} /\ PlainSetting(s2, f) = "unset"
        BY <3>2, SettingShift
      <3> QED
        BY <3>1, <3>3
    <2> QED
      BY <2>1 DEF Agree
  <1>3. CASE At(t1, f) = {} /\ s1[2] = f
    <2>1. /\ At(s1, f) # {} /\ PlainSetting(s1, f) = IF k = 1 THEN "true" ELSE s1[3]
          /\ At(s2, f) # {} /\ PlainSetting(s2, f) = IF k = 1 THEN "true" ELSE s2[3]
      <3>1. At(s1, f) # {} /\ PlainSetting(s1, f) = IF k = 1 THEN "true" ELSE s1[3]
        BY <1>3, SettingShift
      <3>2. At(t2, f) = {} /\ s2[2] = f
        BY <1>3 DEF Agree
      <3>3. At(s2, f) # {} /\ PlainSetting(s2, f) = IF k = 1 THEN "true" ELSE s2[3]
        BY <3>2, SettingShift
      <3> QED
        BY <3>1, <3>3
    <2> QED
      BY <1>0, <2>1 DEF Agree
  <1> QED
    BY <1>1, <1>2, <1>3

LEMMA OtherFront ==
    ASSUME NEW s, NEW t, NEW r, NEW k, NEW f,
           Shifted(s, t, k), Agree(t, r, f), r \in Seq(Words), s[2] # f
    PROVE  Agree(s, r, f)
  <1>1. CASE At(t, f) # {}
    BY <1>1, SettingShift DEF Agree
  <1>2. CASE At(t, f) = {}
    <2>1. At(r, f) = {} /\ PlainSetting(r, f) = "unset"
      BY <1>2, SettingOf DEF Agree
    <2>2. At(s, f) = {} /\ PlainSetting(s, f) = "unset"
      BY <1>2, SettingShift
    <2> QED
      BY <2>1, <2>2 DEF Agree
  <1> QED
    BY <1>1, <1>2

LEMMA SaidBefore ==
    ASSUME NEW b \in Words, NEW front \in Seq(Words), NEW h \in Seq(Words),
           \/ Len(front) = 1 /\ front[1] \notin ValueFlags
           \/ Len(front) = 2 /\ front[1] \in ValueFlags
    PROVE  /\ Shifted(<<b>> \o (front \o h), <<b>> \o h, Len(front))
           /\ (<<b>> \o (front \o h))[2] = front[1]
           /\ Len(front) = 2 => (<<b>> \o (front \o h))[3] = front[2]
  <1> DEFINE one == <<b>>
  <1> DEFINE s == one \o (front \o h)
  <1> DEFINE t == one \o h
  <1>1. one \in Seq(Words) /\ Len(one) = 1
    OBVIOUS
  <1> HIDE DEF one
  <1> DEFINE k == Len(front)
  <1>2. k \in {1, 2} /\ Len(h) \in Nat
    OBVIOUS
  <1>3. /\ front \o h \in Seq(Words) /\ Len(front \o h) = k + Len(h)
        /\ \A i \in 1 .. k + Len(h) :
              (front \o h)[i] = IF i <= k THEN front[i] ELSE h[i - k]
    BY ConcatProperties
  <1> DEFINE fh == front \o h
  <1> HIDE DEF fh
  <1>f. fh \in Seq(Words) /\ Len(fh) = k + Len(h)
    BY <1>3 DEF fh
  <1>4. /\ one \o fh \in Seq(Words) /\ Len(one \o fh) = 1 + (k + Len(h))
        /\ \A i \in 1 .. 1 + (k + Len(h)) :
              (one \o fh)[i] = IF i <= 1 THEN one[i] ELSE fh[i - 1]
    <2>1. /\ one \o fh \in Seq(Words) /\ Len(one \o fh) = Len(one) + Len(fh)
          /\ \A i \in 1 .. Len(one) + Len(fh) :
                (one \o fh)[i] = IF i <= Len(one) THEN one[i] ELSE fh[i - Len(one)]
      <3>1. one \in Seq(Words) /\ fh \in Seq(Words)
        BY <1>1, <1>f
      <3>2. one \o fh \in Seq(Words)
        BY <3>1, ConcatProperties
      <3>3. Len(one \o fh) = Len(one) + Len(fh)
        BY <3>1, ConcatProperties
      <3>4. \A i \in 1 .. Len(one) + Len(fh) :
                (one \o fh)[i] = IF i <= Len(one) THEN one[i] ELSE fh[i - Len(one)]
        BY <3>1, ConcatProperties
      <3> QED
        BY <3>2, <3>3, <3>4
    <2> QED
      BY <1>1, <1>f, <2>1
  <1>5. /\ t \in Seq(Words) /\ Len(t) = 1 + Len(h)
        /\ \A i \in 1 .. 1 + Len(h) : t[i] = IF i <= 1 THEN one[i] ELSE h[i - 1]
    BY <1>1, ConcatProperties
  <1>6. s = one \o fh
    BY DEF fh
  <1> HIDE DEF s, t
  <1>7. /\ s[2] = front[1] /\ (k = 2 => s[3] = front[2])
    <2>1. /\ 2 \in 1 .. 1 + (k + Len(h)) /\ 2 - 1 = 1 /\ 1 \in 1 .. k + Len(h)
          /\ 1 <= k /\ ~(2 <= 1)
      BY <1>2
    <2>2. s[2] = fh[1] /\ fh[1] = front[1]
      BY <1>3, <1>4, <1>6, <2>1 DEF fh
    <2>3. ASSUME k = 2 PROVE s[3] = front[2]
      <3>1. /\ 3 \in 1 .. 1 + (k + Len(h)) /\ 3 - 1 = 2 /\ 2 \in 1 .. k + Len(h)
            /\ 2 <= k /\ ~(3 <= 1)
        BY <1>2, <2>3
      <3> QED
        BY <1>3, <1>4, <1>6, <3>1 DEF fh
    <2> QED
      BY <2>2, <2>3
  <1>8. ASSUME NEW i \in 2 .. Len(t) PROVE s[i + k] = t[i]
    <2>1. /\ i \in 1 .. 1 + Len(h) /\ ~(i <= 1) /\ i + k \in 1 .. 1 + (k + Len(h))
          /\ ~(i + k <= 1) /\ i + k - 1 \in 1 .. k + Len(h) /\ ~(i + k - 1 <= k)
          /\ i + k - 1 - k = i - 1
      BY <1>2, <1>5
    <2>2. t[i] = h[i - 1]
      BY <1>5, <2>1
    <2>3. s[i + k] = fh[i + k - 1]
      <3>1. PICK j \in 1 .. 1 + (k + Len(h)) : j = i + k
        BY <2>1
      <3> QED
        BY <1>4, <1>6, <2>1, <3>1
    <2>4. fh[i + k - 1] = h[i - 1]
      <3>1. PICK j \in 1 .. k + Len(h) : j = i + k - 1
        BY <2>1
      <3> QED
        BY <1>3, <2>1, <3>1 DEF fh
    <2> QED
      BY <2>2, <2>3, <2>4
  <1>9. Shifted(s, t, k)
    <2>1. s \in Seq(Words) /\ Len(s) = Len(t) + k /\ Len(t) >= 1
      BY <1>2, <1>4, <1>5, <1>6
    <2>2. \/ k = 1 /\ s[2] \notin ValueFlags
          \/ k = 2 /\ s[2] \in ValueFlags
      BY <1>7
    <2> QED
      BY <1>5, <1>8, <2>1, <2>2 DEF Shifted
  <1> QED
    BY <1>7, <1>9 DEF s, t, one

(***************************************************************************)
(* extractRunFlags and the parser skip the same values, so from any        *)
(* position on what is kept says what args says there.                     *)
(***************************************************************************)
EndOf(args, i) == [j \in 1 .. Len(args) + 2 - i |-> IF j = 1 THEN args[1] ELSE args[i + j - 2]]

LEMMA EndsShift ==
    ASSUME NEW args \in Seq(Words), Len(args) >= 1, NEW i \in 2 .. Len(args) + 1
    PROVE  /\ EndOf(args, i) \in Seq(Words) /\ Len(EndOf(args, i)) = Len(args) + 2 - i
           /\ i <= Len(args) => EndOf(args, i)[2] = args[i]
           /\ i < Len(args) => EndOf(args, i)[3] = args[i + 1]
  <1> DEFINE e == EndOf(args, i)
  <1> DEFINE l == Len(args) + 2 - i
  <1>0. /\ Len(args) \in Nat /\ l \in Nat /\ i \in Int
        /\ \A j \in 1 .. Len(args) : args[j] \in Words
    OBVIOUS
  <1>1. \A j \in 1 .. l : (IF j = 1 THEN args[1] ELSE args[i + j - 2]) \in Words
    <2> SUFFICES ASSUME NEW j \in 1 .. l
                 PROVE  (IF j = 1 THEN args[1] ELSE args[i + j - 2]) \in Words
      OBVIOUS
    <2>1. CASE j = 1
      BY <1>0, <2>1
    <2>2. CASE j # 1
      <3>1. i + j - 2 \in 1 .. Len(args)
        BY <1>0, <2>2
      <3>2. args[i + j - 2] \in Words
        BY <1>0, <3>1
      <3> QED
        BY <2>2, <3>2
    <2> QED
      BY <2>1, <2>2
  <1>2. e = [j \in 1 .. l |-> IF j = 1 THEN args[1] ELSE args[i + j - 2]]
    BY DEF EndOf
  <1> HIDE DEF e
  <1>3. e \in [1 .. l -> Words] /\ DOMAIN e = 1 .. l
    BY <1>1, <1>2
  <1>4. e \in Seq(Words) /\ Len(e) = l
    BY <1>0, <1>3
  <1>5. ASSUME i <= Len(args) PROVE e[2] = args[i]
    <2>1. 2 \in 1 .. l /\ i + 2 - 2 = i
      BY <1>0, <1>5
    <2> QED
      BY <1>2, <2>1
  <1>6. ASSUME i < Len(args) PROVE e[3] = args[i + 1]
    <2>1. 3 \in 1 .. l /\ i + 3 - 2 = i + 1
      BY <1>0, <1>6
    <2> QED
      BY <1>2, <2>1
  <1> QED
    BY <1>4, <1>5, <1>6 DEF e

LEMMA WholeEnd ==
    ASSUME NEW args \in Seq(Words), Len(args) >= 1
    PROVE  EndOf(args, 2) = args
  <1> DEFINE n == Len(args)
  <1>1. n \in Nat /\ n + 2 - 2 = n /\ args = [j \in 1 .. n |-> args[j]]
    OBVIOUS
  <1>2. \A j \in 1 .. n : (IF j = 1 THEN args[1] ELSE args[2 + j - 2]) = args[j]
    <2> SUFFICES ASSUME NEW j \in 1 .. n
                 PROVE  (IF j = 1 THEN args[1] ELSE args[2 + j - 2]) = args[j]
      OBVIOUS
    <2>1. 2 + j - 2 = j
      BY <1>1
    <2> QED
      BY <2>1
  <1> HIDE DEF n
  <1>3. EndOf(args, 2) = [j \in 1 .. n |-> IF j = 1 THEN args[1] ELSE args[2 + j - 2]]
    BY <1>1 DEF EndOf, n
  <1> QED
    BY <1>1, <1>2, <1>3

LEMMA EndShifted ==
    ASSUME NEW args \in Seq(Words), Len(args) >= 1, NEW i \in 2 .. Len(args),
           NEW k \in {1, 2}, k = 1 <=> args[i] \notin ValueFlags, i + k <= Len(args) + 1
    PROVE  Shifted(EndOf(args, i), EndOf(args, i + k), k)
  <1>0. /\ Len(args) \in Nat /\ i \in Int /\ k \in Int
        /\ i \in 2 .. Len(args) + 1 /\ i + k \in 2 .. Len(args) + 1
    OBVIOUS
  <1> DEFINE s == EndOf(args, i)
  <1> DEFINE h == i + k
  <1> DEFINE t == EndOf(args, h)
  <1>1. /\ s \in Seq(Words) /\ Len(s) = Len(args) + 2 - i
        /\ s[2] = args[i]
    BY <1>0, EndsShift
  <1>2. h \in 2 .. Len(args) + 1 /\ h = i + k
    BY <1>0
  <1> HIDE DEF h
  <1>3. t \in Seq(Words) /\ Len(t) = Len(args) + 2 - h
    BY <1>2, EndsShift
  <1>4. ASSUME NEW j \in 2 .. Len(t) PROVE s[j + k] = t[j]
    <2>1. /\ j \in 1 .. Len(args) + 2 - h /\ j # 1 /\ j + k # 1
          /\ j + k \in 1 .. Len(args) + 2 - i /\ i + (j + k) - 2 = h + j - 2
      BY <1>0, <1>2, <1>3
    <2>2. t[j] = args[h + j - 2]
      BY <2>1 DEF EndOf
    <2>3. s[j + k] = args[i + (j + k) - 2]
      <3>1. PICK l \in 1 .. Len(args) + 2 - i : l = j + k
        BY <2>1
      <3>2. s[l] = args[i + l - 2]
        BY <2>1, <3>1 DEF EndOf
      <3> QED
        BY <3>1, <3>2
    <2> QED
      BY <2>1, <2>2, <2>3
  <1>5. Len(s) = Len(t) + k /\ Len(t) >= 1
    BY <1>0, <1>1, <1>2, <1>3
  <1>6. \/ k = 1 /\ s[2] \notin ValueFlags
        \/ k = 2 /\ s[2] \in ValueFlags
    BY <1>1
  <1> HIDE DEF s, t
  <1>7. Shifted(s, t, k)
    BY <1>1, <1>3, <1>4, <1>5, <1>6 DEF Shifted
  <1> QED
    BY <1>7 DEF s, t, h

LEMMA KeptMeans ==
    ASSUME NEW args \in Seq(Words), Len(args) >= 1, args[Len(args)] \notin ValueFlags,
           NEW f \in ListedFlags
    PROVE  Agree(<<args[1]>> \o extractRunFlags(args), args, f)
  <1> DEFINE n == Len(args)
  <1> DEFINE b == args[1]
  <1>0. n \in Nat /\ b \in Words /\ \A i \in 1 .. n : args[i] \in Words
    OBVIOUS
  <1>1. PICK g : KeptFrom(args, 2, g) /\ extractRunFlags(args) = g[2]
    BY RunFlags
  <1>2. \A i \in 2 .. n + 2 : g[i] \in Seq(Words)
    BY <1>1, KeptIsTyped
  <1>3. flagTakesValue = ValueFlags /\ f \in preservedAgentFlags
    BY DEF flagTakesValue, ValueFlags, preservedAgentFlags, ListedFlags
  <1>4. \A i \in 2 .. n + 1 :
           /\ <<b>> \o g[i] \in Seq(Words) /\ EndOf(args, i) \in Seq(Words)
           /\ Len(EndOf(args, i)) = n + 2 - i
    <2> SUFFICES ASSUME NEW i \in 2 .. n + 1
                 PROVE  /\ <<b>> \o g[i] \in Seq(Words) /\ EndOf(args, i) \in Seq(Words)
                        /\ Len(EndOf(args, i)) = n + 2 - i
      OBVIOUS
    <2>1. g[i] \in Seq(Words) /\ <<b>> \in Seq(Words)
      BY <1>0, <1>2
    <2>2. <<b>> \o g[i] \in Seq(Words)
      BY <2>1, ConcatProperties
    <2> QED
      BY <2>2, EndsShift
  <1> DEFINE bad == {i \in 2 .. n + 1 : ~Agree(<<b>> \o g[i], EndOf(args, i), f)}
  <1>5. bad = {}
    <2> SUFFICES ASSUME bad # {} PROVE FALSE
      OBVIOUS
    <2>1. PICK i \in bad : \A j \in bad : j <= i
      <3>1. bad \subseteq 0 .. n + 1 /\ n + 1 \in Nat
        BY <1>0
      <3> HIDE DEF bad
      <3> QED
        BY <3>1, GreatestNumber
    <2>2. i \in 2 .. n + 1 /\ i \in Int /\ ~Agree(<<b>> \o g[i], EndOf(args, i), f)
      BY <1>0
    <2>3. ASSUME NEW j \in 2 .. n + 1, j > i
          PROVE  Agree(<<b>> \o g[j], EndOf(args, j), f)
      <3>1. j \notin bad
        BY <2>1, <2>2, <2>3
      <3> QED
        BY <3>1
    <2> HIDE DEF bad
    <2>4. CASE i = n + 1
      <3>1. g[i] = <<>>
        <4>1. i \in 2 .. n + 2 /\ i > Len(args)
          BY <1>0, <2>4, <2>2
        <4> QED
          BY <1>1, <4>1, KeptSteps
      <3>2. ASSUME NEW s \in Seq(Words), Len(s) = 1 PROVE At(s, f) = {}
        <4>1. PlainFlags(s) \subseteq 2 .. Len(s)
          BY FlagsRule
        <4>2. PlainFlags(s) = {}
          BY <3>2, <4>1
        <4> QED
          BY <4>2 DEF At
      <3>3. /\ <<b>> \o g[i] \in Seq(Words) /\ Len(<<b>> \o g[i]) = 1
            /\ EndOf(args, i) \in Seq(Words) /\ Len(EndOf(args, i)) = 1
        <4>1. <<b>> \in Seq(Words) /\ Len(<<b>>) = 1 /\ g[i] \in Seq(Words) /\ Len(g[i]) = 0
          BY <1>0, <3>1
        <4>2. Len(<<b>> \o g[i]) = 1 + 0
          BY <4>1, ConcatProperties
        <4> QED
          BY <1>0, <1>4, <2>2, <2>4, <4>2
      <3> HIDE DEF b
      <3>4. Agree(<<b>> \o g[i], EndOf(args, i), f)
        BY <3>2, <3>3, SettingOf DEF Agree
      <3> QED
        BY <2>2, <3>4
    <2>5. CASE i # n + 1
      <3> DEFINE k == IF args[i] \in ValueFlags THEN 2 ELSE 1
      <3> DEFINE j == i + k
      <3>1. /\ i \in 2 .. n /\ i \in 2 .. n + 2 /\ i <= n
            /\ k \in {1, 2} /\ (k = 1 <=> args[i] \notin ValueFlags)
            /\ (k = 2 => i < n)
        BY <1>0, <2>2, <2>5
      <3>2. j \in 2 .. n + 1 /\ j > i /\ i + k <= n + 1 /\ j \in 2 .. n + 2
        BY <1>0, <3>1
      <3> HIDE DEF k
      <3>3. Agree(<<b>> \o g[j], EndOf(args, j), f)
        BY <2>3, <3>2
      <3>4. Shifted(EndOf(args, i), EndOf(args, j), k)
        BY <3>1, <3>2, EndShifted
      <3>5. /\ EndOf(args, i)[2] = args[i]
            /\ k = 2 => EndOf(args, i)[3] = args[i + 1]
        BY <2>2, <3>1, EndsShift
      <3>6. g[i] = IF args[i] \notin preservedAgentFlags THEN g[j]
                   ELSE IF k = 2 THEN <<args[i], args[i + 1]>> \o g[j]
                                 ELSE <<args[i]>> \o g[j]
        <4>1. i \in 2 .. Len(args) + 2 /\ i <= Len(args) /\ (k = 2 => i < Len(args))
          BY <3>1
        <4>2. CASE k = 1
          <5>1. args[i] \notin flagTakesValue
            BY <1>3, <3>1, <4>2
          <5>2. g[i] = IF args[i] \in preservedAgentFlags THEN <<args[i]>> \o g[i + 1]
                                                         ELSE g[i + 1]
            BY <1>1, <4>1, <5>1, KeptSteps
          <5> QED
            BY <4>2, <5>2
        <4>3. CASE k = 2
          <5>1. args[i] \in flagTakesValue /\ i < Len(args)
            BY <1>3, <3>1, <4>1, <4>3
          <5>2. g[i] = IF args[i] \in preservedAgentFlags
                       THEN <<args[i], args[i + 1]>> \o g[i + 2] ELSE g[i + 2]
            BY <1>1, <4>1, <5>1, KeptSteps
          <5> QED
            BY <4>3, <5>2
        <4> QED
          BY <3>1, <4>2, <4>3
      <3> HIDE DEF j, b
      <3>7. CASE args[i] \notin preservedAgentFlags
        <4>1. Agree(EndOf(args, j), <<b>> \o g[j], f)
          BY <3>3 DEF Agree
        <4>2. Agree(EndOf(args, i), <<b>> \o g[j], f)
          BY <1>3, <1>4, <3>2, <3>4, <3>5, <3>7, <4>1, OtherFront
        <4>3. Agree(<<b>> \o g[i], EndOf(args, i), f)
          BY <3>6, <3>7, <4>2 DEF Agree
        <4> QED
          BY <2>2, <4>3
      <3>8. CASE args[i] \in preservedAgentFlags
        <4> DEFINE front == IF k = 2 THEN <<args[i], args[i + 1]>> ELSE <<args[i]>>
        <4>1. /\ front \in Seq(Words) /\ Len(front) = k /\ front[1] = args[i]
              /\ k = 2 => front[2] = args[i + 1]
          <5>1. args[i] \in Words /\ (k = 2 => args[i + 1] \in Words)
            BY <1>0, <3>1
          <5>2. CASE k = 2
            BY <5>1, <5>2, PairIsSeq
          <5>3. CASE k = 1
            BY <5>1, <5>3
          <5> QED
            BY <3>1, <5>2, <5>3
        <4>2. g[i] = front \o g[j]
          BY <3>6, <3>8
        <4> HIDE DEF front
        <4>3. /\ Shifted(<<b>> \o g[i], <<b>> \o g[j], k)
              /\ (<<b>> \o g[i])[2] = args[i]
              /\ k = 2 => (<<b>> \o g[i])[3] = args[i + 1]
          <5>1. \/ Len(front) = 1 /\ front[1] \notin ValueFlags
                \/ Len(front) = 2 /\ front[1] \in ValueFlags
            BY <3>1, <4>1
          <5>2. g[j] \in Seq(Words) /\ b \in Words
            BY <1>0, <1>2, <3>2
          <5>3. /\ Shifted(<<b>> \o (front \o g[j]), <<b>> \o g[j], Len(front))
                /\ (<<b>> \o (front \o g[j]))[2] = front[1]
                /\ Len(front) = 2 => (<<b>> \o (front \o g[j]))[3] = front[2]
            BY <4>1, <5>1, <5>2, SaidBefore
          <5> QED
            BY <4>1, <4>2, <5>3
        <4>4. Agree(<<b>> \o g[i], EndOf(args, i), f)
          BY <3>3, <3>4, <3>5, <4>3, SameFront
        <4> QED
          BY <2>2, <4>4
      <3> QED
        BY <3>7, <3>8
    <2> QED
      BY <2>4, <2>5
  <1>6. 2 \in 2 .. n + 1
    BY <1>0
  <1>7. Agree(<<b>> \o g[2], EndOf(args, 2), f)
    BY <1>5, <1>6
  <1> QED
    BY <1>1, <1>7, WholeEnd

LEMMA LaunchdInFront ==
    ASSUME NEW b \in Words, NEW e \in Seq(Words)
    PROVE  /\ Shifted(<<b, "-launchd">> \o e, <<b>> \o e, 1)
           /\ (<<b, "-launchd">> \o e)[2] = "-launchd"
  <1> DEFINE two == <<b, "-launchd">>
  <1> DEFINE one == <<b>>
  <1>1. /\ two \in Seq(Words) /\ Len(two) = 2 /\ two[2] = "-launchd"
        /\ one \in Seq(Words) /\ Len(one) = 1
    <2>1. "-launchd" \in Words
      BY PlistAssumption
    <2>2. one \in Seq(Words) /\ Len(one) = 1
      OBVIOUS
    <2> QED
      BY <2>1, <2>2, PairIsSeq
  <1> HIDE DEF one, two
  <1> DEFINE s == two \o e
  <1> DEFINE t == one \o e
  <1>2. /\ s \in Seq(Words) /\ Len(s) = Len(two) + Len(e)
        /\ \A i \in 1 .. Len(two) + Len(e) : s[i] = IF i <= Len(two) THEN two[i] ELSE e[i - Len(two)]
    BY <1>1, ConcatProperties
  <1>3. /\ t \in Seq(Words) /\ Len(t) = Len(one) + Len(e)
        /\ \A i \in 1 .. Len(one) + Len(e) : t[i] = IF i <= Len(one) THEN one[i] ELSE e[i - Len(one)]
    BY <1>1, ConcatProperties
  <1> HIDE DEF s, t
  <1>4. Len(e) \in Nat
    OBVIOUS
  <1>5. s[2] = "-launchd"
    BY <1>1, <1>2, <1>4
  <1>6. ASSUME NEW i \in 2 .. Len(t) PROVE s[i + 1] = t[i]
    <2>1. /\ i \in 1 .. Len(one) + Len(e) /\ i + 1 \in 1 .. Len(two) + Len(e)
          /\ ~(i <= Len(one)) /\ ~(i + 1 <= Len(two)) /\ i + 1 - Len(two) = i - Len(one)
      BY <1>1, <1>3, <1>4
    <2>2. PICK j \in 1 .. Len(two) + Len(e) : j = i + 1
      BY <2>1
    <2>3. s[j] = e[i - Len(one)]
      BY <1>2, <2>1, <2>2
    <2> QED
      BY <1>3, <2>1, <2>2, <2>3
  <1>7. "-launchd" \notin ValueFlags
    BY DEF ValueFlags
  <1>8. Len(s) = Len(t) + 1 /\ Len(t) >= 1
    BY <1>1, <1>2, <1>3, <1>4
  <1>9. Shifted(s, t, 1)
    BY <1>2, <1>3, <1>5, <1>6, <1>7, <1>8 DEF Shifted
  <1> QED
    BY <1>5, <1>9 DEF s, t, one, two

(***************************************************************************)
(* A command line whose flags are spelled plainly means the same to both   *)
(* parsers, and one migration writes is spelled plainly.                   *)
(***************************************************************************)
PlainAt(args, read) == \A i \in read : args[i] \in Plain

LEMMA SameReading ==
    ASSUME NEW args \in Seq(Words),
           PlainAt(args, Reads(args, TakesNext) \cap PlainFlags(args))
    PROVE  Reads(args, TakesNext) = PlainFlags(args)
  <1> DEFINE R == Reads(args, TakesNext)
  <1> DEFINE P == PlainFlags(args)
  <1> DEFINE n == Len(args)
  <1>0. /\ n \in Nat /\ R \subseteq 2 .. n /\ P \subseteq 2 .. n
        /\ 2 <= n => 2 \in R /\ 2 \in P
        /\ \A i \in 3 .. n : i \in R <=> ~(i - 1 \in R /\ args[i - 1] \in TakesNext)
        /\ \A i \in 3 .. n : i \in P <=> ~(i - 1 \in P /\ args[i - 1] \in ValueFlags)
    BY ReadsRule, FlagsRule
  <1>1. \A i \in R \cap P : args[i] \in TakesNext <=> args[i] \in ValueFlags
    BY DEF PlainAt, Plain, TakesNext
  <1> HIDE DEF R, P, n
  <1> DEFINE bad == {i \in 2 .. n : ~(i \in R <=> i \in P)}
  <1>2. bad = {}
    <2> SUFFICES ASSUME bad # {} PROVE FALSE
      OBVIOUS
    <2>1. PICK i \in bad : \A j \in bad : i <= j
      <3>1. bad \subseteq Nat
        OBVIOUS
      <3> HIDE DEF bad
      <3> QED
        BY <3>1, LeastNumber
    <2>2. i \in 3 .. n /\ i - 1 \in 2 .. n /\ ~(i - 1 >= i)
      BY <1>0
    <2>3. i - 1 \in R <=> i - 1 \in P
      <3>1. i - 1 \notin bad
        <4> HIDE DEF bad
        <4> QED
          BY <2>1, <2>2
      <3> QED
        BY <2>2, <3>1
    <2>4. i \in R <=> i \in P
      BY <1>0, <1>1, <2>2, <2>3
    <2> QED
      BY <2>4
  <1>3. \A i \in 2 .. n : i \in R <=> i \in P
    BY <1>2
  <1> QED
    BY <1>0, <1>3 DEF R, P

(* Then Setting, which knows of every spelling, is PlainSetting.           *)
LEMMA PlainLine ==
    ASSUME NEW args \in Seq(Words),
           PlainAt(args, Reads(args, TakesNext)) \/ PlainAt(args, PlainFlags(args))
    PROVE  /\ FlagsAt(args) = PlainFlags(args)
           /\ \A f : Setting(args, f) = PlainSetting(args, f)
  <1>1. Reads(args, TakesNext) = PlainFlags(args)
    BY SameReading DEF PlainAt
  <1>2. \A i \in PlainFlags(args) : /\ args[i] \in Words
                                   /\ FlagOf[args[i]] = args[i]
                                   /\ Inline[args[i]] = None
    BY <1>1 DEF PlainAt, Plain
  <1>3. FlagsAt(args) = PlainFlags(args)
    <2>1. None \notin Words
      BY PlistAssumption
    <2>2. \A i \in PlainFlags(args) : FlagOf[args[i]] # None
      BY <1>2, <2>1
    <2> QED
      BY <1>1, <2>2 DEF FlagsAt
  <1>4. ASSUME NEW f PROVE Setting(args, f) = PlainSetting(args, f)
    <2> DEFINE at == {i \in PlainFlags(args) : args[i] = f}
    <2> DEFINE at0 == {i \in FlagsAt(args) : FlagOf[args[i]] = f}
    <2> DEFINE last == CHOOSE i \in at : \A j \in at : j <= i
    <2> DEFINE last0 == CHOOSE i \in at0 : \A j \in at0 : j <= i
    <2>1. at0 = at
      BY <1>2, <1>3
    <2>2. Setting(args, f) =
             CASE at0 = {} -> "unset"
               [] at0 # {} /\ Inline[args[last0]] # None -> Inline[args[last0]]
               [] at0 # {} /\ Inline[args[last0]] = None /\ f \notin ValueFlags -> "true"
               [] at0 # {} /\ Inline[args[last0]] = None /\ f \in ValueFlags ->
                     IF last0 = Len(args) THEN "missing" ELSE args[last0 + 1]
      BY DEF Setting
    <2>3. PlainSetting(args, f) =
             IF at = {} THEN "unset"
             ELSE IF f \notin ValueFlags THEN "true"
             ELSE IF last = Len(args) THEN "missing" ELSE args[last + 1]
      BY DEF PlainSetting
    <2>4. at \subseteq 0 .. Len(args) /\ Len(args) \in Nat /\ at \subseteq PlainFlags(args)
      BY FlagsRule
    <2> HIDE DEF at, at0
    <2>5. at # {} => \E i \in at : \A j \in at : j <= i
      BY <2>4, GreatestNumber
    <2>6. at # {} => last \in at /\ last0 = last
      BY <2>1, <2>5
    <2> HIDE DEF last, last0
    <2>7. at # {} => Inline[args[last]] = None
      BY <1>2, <2>4, <2>6
    <2> QED
      BY <2>1, <2>2, <2>3, <2>6, <2>7
  <1> QED
    BY <1>3, <1>4

LEMMA OldSocket ==
    ASSUME NEW args \in Seq(Words), OldCommandLine(args)
    PROVE  /\ socketFromOldArgs(args) = PlainSetting(args, "-l")
           /\ socketFromOldArgs(args) # "" /\ Len(args) >= 1
  <1>1. PICK i \in PlainFlags(args) :
           /\ args[i] = "-l" /\ args[i + 1] # ""
           /\ \A j \in DOMAIN args : args[j] = "-l" => j = i
    BY PlainLine DEF OldCommandLine, PlainAt
  <1>2. /\ args[Len(args)] \notin ValueFlags /\ "-l" \in ValueFlags
        /\ i \in 2 .. Len(args) /\ DOMAIN args = 1 .. Len(args) /\ Len(args) \in Nat
        /\ PlainFlags(args) \subseteq DOMAIN args
    <2>1. args[Len(args)] \notin ValueFlags
      BY DEF OldCommandLine
    <2>2. "-l" \in ValueFlags
      BY DEF ValueFlags
    <2>3. PlainFlags(args) \subseteq 2 .. Len(args)
      BY FlagsRule
    <2>4. DOMAIN args = 1 .. Len(args) /\ Len(args) \in Nat
      OBVIOUS
    <2>5. i \in 2 .. Len(args) /\ PlainFlags(args) \subseteq DOMAIN args
      BY <2>3, <2>4
    <2> QED
      BY <2>1, <2>2, <2>4, <2>5
  <1>3. i \in DOMAIN args /\ i < Len(args) /\ i \in Int /\ Len(args) >= 1
    <2>1. i # Len(args)
      BY <1>1, <1>2
    <2>2. i \in 2 .. Len(args) /\ Len(args) \in Nat /\ DOMAIN args = 1 .. Len(args)
      BY <1>2
    <2> DEFINE n == Len(args)
    <2>3. i < n /\ i \in Int /\ n >= 1 /\ i \in 1 .. n
      <3>1. i # n /\ i \in 2 .. n /\ n \in Nat
        BY <2>1, <2>2
      <3> HIDE DEF n
      <3> QED
        BY <3>1
    <2> QED
      BY <2>2, <2>3
  <1>4. socketFromOldArgs(args) = args[i + 1]
    <2> DEFINE at == {j \in DOMAIN args : args[j] = "-l" /\ j < Len(args)}
    <2>1. at = {i}
      BY <1>1, <1>3
    <2>2. (CHOOSE j \in at : \A l \in at : j <= l) = i
      BY <1>3, <2>1
    <2>3. at # {}
      BY <2>1
    <2>4. socketFromOldArgs(args) = args[1 + CHOOSE j \in at : \A l \in at : j <= l]
      BY <2>3 DEF socketFromOldArgs
    <2>5. 1 + i = i + 1
      BY <1>3
    <2> QED
      BY <2>2, <2>4, <2>5
  <1>5. PlainSetting(args, "-l") = args[i + 1]
    <2>1. At(args, "-l") = {i}
      BY <1>1, <1>2 DEF At
    <2>2. \A j \in At(args, "-l") : j <= i
      BY <1>3, <2>1
    <2> QED
      BY <1>2, <1>3, <2>1, <2>2, SettingOf
  <1> QED
    <2>1. args[i + 1] # ""
      BY <1>1
    <2> QED
      BY <1>3, <1>4, <1>5, <2>1

LEMMA ShiftedPlain ==
    ASSUME NEW s, NEW t, NEW k, Shifted(s, t, k), s[2] \in Plain,
           PlainAt(t, PlainFlags(t))
    PROVE  PlainAt(s, PlainFlags(s))
  <1> SUFFICES ASSUME NEW i \in PlainFlags(s) PROVE s[i] \in Plain
    BY DEF PlainAt
  <1> DEFINE m == Len(t)
  <1>1. /\ m \in Nat /\ k \in {1, 2} /\ i \in 2 .. m + k
        /\ \A j \in 2 .. m : s[j + k] = t[j]
    BY FlagsRule DEF Shifted
  <1>2. /\ k = 2 => 3 \notin PlainFlags(s)
        /\ \A j \in 2 .. m : j + k \in PlainFlags(s) <=> j \in PlainFlags(t)
    BY FlagsShift
  <1> HIDE DEF m
  <1>3. CASE i - k \in 2 .. m
    <2>1. PICK j \in 2 .. m : i = j + k
      BY <1>1, <1>3
    <2>2. j \in PlainFlags(t) /\ s[i] = t[j]
      BY <1>1, <1>2, <2>1
    <2> QED
      BY <2>2 DEF PlainAt
  <1>4. CASE i - k \notin 2 .. m
    <2>1. i = 2 \/ (k = 2 /\ i = 3)
      BY <1>1, <1>4
    <2> QED
      BY <1>2, <2>1
  <1> QED
    BY <1>3, <1>4

LEMMA KeptIsPlain ==
    ASSUME NEW args \in Seq(Words), Len(args) >= 1
    PROVE  LET s == <<args[1]>> \o extractRunFlags(args)
           IN  PlainAt(s, PlainFlags(s))
  <1> DEFINE n == Len(args)
  <1> DEFINE b == args[1]
  <1>0. n \in Nat /\ b \in Words /\ \A i \in 1 .. n : args[i] \in Words
    OBVIOUS
  <1>1. PICK g : KeptFrom(args, 2, g) /\ extractRunFlags(args) = g[2]
    BY RunFlags
  <1>2. \A i \in 2 .. n + 2 : g[i] \in Seq(Words)
    BY <1>1, KeptIsTyped
  <1>3. flagTakesValue = ValueFlags
    BY DEF flagTakesValue, ValueFlags
  <1> DEFINE Good(h) == PlainAt(<<b>> \o h, PlainFlags(<<b>> \o h))
  <1>4. Good(<<>>)
    <2>1. <<b>> \o <<>> \in Seq(Words) /\ Len(<<b>> \o <<>>) = 1
      BY <1>0
    <2>2. PlainFlags(<<b>> \o <<>>) \subseteq 2 .. 1
      BY <2>1, FlagsRule
    <2>3. PlainFlags(<<b>> \o <<>>) = {}
      BY <2>2
    <2> QED
      BY <2>3 DEF PlainAt
  <1>5. ASSUME NEW front \in Seq(Words), NEW h \in Seq(Words), Good(h),
               front[1] \in Words \cap preservedAgentFlags,
               \/ Len(front) = 1 /\ front[1] \notin ValueFlags
               \/ Len(front) = 2 /\ front[1] \in ValueFlags
        PROVE  Good(front \o h)
    <2> HIDE DEF b
    <2>1. front[1] \in Plain
      BY <1>5, SpellingAssumption
    <2>2. /\ Shifted(<<b>> \o (front \o h), <<b>> \o h, Len(front))
          /\ (<<b>> \o (front \o h))[2] = front[1]
      BY <1>0, <1>5, SaidBefore
    <2> QED
      BY <1>5, <2>1, <2>2, ShiftedPlain
  <1> HIDE DEF Good
  <1> DEFINE bad == {i \in 2 .. n + 2 : ~Good(g[i])}
  <1>6. bad = {}
    <2> SUFFICES ASSUME bad # {} PROVE FALSE
      OBVIOUS
    <2>1. PICK i \in bad : \A j \in bad : j <= i
      <3>1. bad \subseteq 0 .. n + 2 /\ n + 2 \in Nat
        BY <1>0
      <3> HIDE DEF bad
      <3> QED
        BY <3>1, GreatestNumber
    <2>2. i \in 2 .. n + 2 /\ i \in Int /\ ~Good(g[i])
      BY <1>0
    <2>3. ASSUME NEW j \in 2 .. n + 2, j > i PROVE Good(g[j]) /\ g[j] \in Seq(Words)
      <3>1. j \notin bad
        BY <2>1, <2>2, <2>3
      <3> QED
        BY <1>2, <3>1
    <2> HIDE DEF bad
    <2>4. i <= n
      <3>1. i > n => g[i] = <<>>
        BY <1>1, <2>2, KeptSteps
      <3> QED
        BY <1>0, <1>4, <2>2, <3>1
    <2>5. /\ i + 1 \in 2 .. n + 2 /\ i + 1 > i /\ i + 2 \in 2 .. n + 2 /\ i + 2 > i
          /\ args[i] \in Words /\ (i < n => args[i + 1] \in Words)
      BY <1>0, <2>2, <2>4
    <2>6. CASE args[i] \notin preservedAgentFlags
      <3>1. g[i] = g[i + 1] \/ g[i] = g[i + 2]
        BY <1>1, <2>2, <2>4, <2>6, KeptSteps
      <3> QED
        BY <2>2, <2>3, <2>5, <3>1
    <2>7. CASE args[i] \in preservedAgentFlags /\ args[i] \notin ValueFlags
      <3>1. g[i] = <<args[i]>> \o g[i + 1]
        BY <1>1, <1>3, <2>2, <2>4, <2>7, KeptSteps
      <3>2. /\ <<args[i]>> \in Seq(Words) /\ Len(<<args[i]>>) = 1
            /\ <<args[i]>>[1] = args[i]
        BY <2>5
      <3>3. Good(<<args[i]>> \o g[i + 1])
        BY <1>5, <2>3, <2>5, <2>7, <3>2
      <3> QED
        BY <2>2, <3>1, <3>3
    <2>8. CASE args[i] \in preservedAgentFlags /\ args[i] \in ValueFlags
      <3>1. CASE i < n
        <4>1. g[i] = <<args[i], args[i + 1]>> \o g[i + 2]
          BY <1>1, <1>3, <2>2, <2>4, <2>8, <3>1, KeptSteps
        <4>2. /\ <<args[i], args[i + 1]>> \in Seq(Words)
              /\ Len(<<args[i], args[i + 1]>>) = 2
              /\ <<args[i], args[i + 1]>>[1] = args[i]
          BY <2>5, <3>1, PairIsSeq
        <4>3. Good(<<args[i], args[i + 1]>> \o g[i + 2])
          BY <1>5, <2>3, <2>5, <2>8, <4>2
        <4> QED
          BY <2>2, <4>1, <4>3
      <3>2. CASE i = n
        <4>1. g[i] = <<>>
          BY <1>1, <1>3, <2>2, <2>4, <2>8, <3>2, KeptSteps
        <4> QED
          BY <1>4, <2>2, <4>1
      <3> QED
        BY <1>0, <2>2, <2>4, <3>1, <3>2
    <2> QED
      BY <2>6, <2>7, <2>8
  <1>7. Good(g[2])
    BY <1>0, <1>6
  <1> QED
    BY <1>1, <1>7 DEF Good

LEMMA MigratedMeans ==
    ASSUME NEW o \in Plists, OldCommandLine(o.args)
    PROVE  /\ Migrated(o).socket = Setting(o.args, "-l")
           /\ \A f \in ListedFlags : Setting(Migrated(o).args, f) = Setting(o.args, f)
  <1> DEFINE args == o.args
  <1> DEFINE e == extractRunFlags(args)
  <1>1. args \in Seq(Words)
    BY DEF Plists
  <1>2. /\ Len(args) >= 1 /\ args[Len(args)] \notin ValueFlags
        /\ socketFromOldArgs(args) = PlainSetting(args, "-l") /\ socketFromOldArgs(args) # ""
    BY <1>1, OldSocket DEF OldCommandLine
  <1>3. args[1] \in Words /\ e \in Seq(Words)
    <2>1. PICK g : KeptFrom(args, 2, g) /\ e = g[2]
      BY <1>1, RunFlags
    <2> HIDE DEF e
    <2>2. Len(args) \in Nat /\ 2 \in 2 .. Len(args) + 2
      <3>1. Len(args) \in Nat
        BY <1>1, LenProperties
      <3> QED
        BY <3>1
    <2>3. g[2] \in Seq(Words)
      BY <1>1, <2>1, <2>2, KeptIsTyped
    <2>4. args[1] \in Words
      <3> HIDE DEF args
      <3>1. args \in Seq(Words) /\ 1 <= Len(args)
        BY <1>1, <1>2, <2>2
      <3>2. 1 \in 1 .. Len(args)
        BY <2>2, <3>1
      <3> QED
        BY <3>1, <3>2, ElementOfSeq
    <2> QED
      BY <2>1, <2>3, <2>4
  <1>4. /\ Migrated(o).socket = socketFromOldArgs(args)
        /\ Migrated(o).args = <<args[1], "-launchd">> \o e
    BY <1>2 DEF Migrated, Rendered
  <1> HIDE DEF args, e
  <1>5. ASSUME NEW f \in ListedFlags PROVE PlainSetting(Migrated(o).args, f) = PlainSetting(args, f)
    <2>1. Agree(<<args[1]>> \o e, args, f)
      BY <1>1, <1>2, KeptMeans DEF e
    <2>2. f # "-launchd"
      BY DEF ListedFlags
    <2>3. Agree(<<args[1], "-launchd">> \o e, args, f)
      <3>1. /\ Shifted(<<args[1], "-launchd">> \o e, <<args[1]>> \o e, 1)
            /\ (<<args[1], "-launchd">> \o e)[2] # f
        BY <1>3, <2>2, LaunchdInFront
      <3> QED
        BY <1>1, <2>1, <3>1, OtherFront
    <2> QED
      BY <1>4, <2>3 DEF Agree
  <1>6. \A f : Setting(args, f) = PlainSetting(args, f)
    BY <1>1, PlainLine DEF OldCommandLine, PlainAt, args
  <1>7. \A f : Setting(Migrated(o).args, f) = PlainSetting(Migrated(o).args, f)
    <2> DEFINE s == <<args[1], "-launchd">> \o e
    <2>1. /\ Shifted(s, <<args[1]>> \o e, 1) /\ s[2] = "-launchd"
      BY <1>3, LaunchdInFront
    <2>2. "-launchd" \in Plain
      BY PlistAssumption, SpellingAssumption
    <2>3. PlainAt(<<args[1]>> \o e, PlainFlags(<<args[1]>> \o e))
      BY <1>1, <1>2, KeptIsPlain DEF e
    <2>4. PlainAt(s, PlainFlags(s))
      BY <2>1, <2>2, <2>3, ShiftedPlain
    <2>5. s \in Seq(Words)
      BY <2>1 DEF Shifted
    <2> HIDE DEF s
    <2>6. \A f : Setting(s, f) = PlainSetting(s, f)
      BY <2>4, <2>5, PlainLine
    <2> QED
      BY <1>4, <2>6 DEF s
  <1> QED
    BY <1>2, <1>4, <1>5, <1>6, <1>7 DEF args

(***************************************************************************)
(* Of a command line that spells its flags plainly and names its socket    *)
(* once, a migrated plist listens where the old one did and means the same *)
(* by every flag docs/launchd.md:66 lists (extractRunFlags,                *)
(* socketFromOldArgs, plist_darwin.go), however many commands overlap or   *)
(* are killed.                                                             *)
(***************************************************************************)
THEOREM MigrationKeepsMeaning == Spec => []MigrationKeepsListed
  <1>1. PlistInv => MigrationKeepsListed
    <2> SUFFICES ASSUME PlistInv, Rewritten
                 PROVE  /\ plist.socket = Setting(original.args, "-l")
                        /\ \A f \in ListedFlags :
                               Setting(plist.args, f) = Setting(original.args, f)
      BY DEF MigrationKeepsListed
    <2>1. /\ original \in Originals /\ Mode(original) = "old" /\ plist # original
          /\ OldCommandLine(original.args)
      BY DEF PlistInv, TypesInv, Rewritten
    <2>2. original # None /\ original \in Plists
      BY <2>1, ModeMeans, PlistAssumption
    <2>3. plist = Migrated(original)
      BY <2>1, <2>2 DEF PlistInv, WrittenInv
    <2> QED
      BY <2>1, <2>2, <2>3, MigratedMeans
  <1> QED
    BY <1>1, PlistInvariant, PTL

================================================================================
