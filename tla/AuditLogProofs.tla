----------------------------- MODULE AuditLogProofs -----------------------------
(***************************************************************************)
(* The audit log, for any number of agents, calls and legacy lines and any *)
(* faults.                                                                 *)
(***************************************************************************)
EXTENDS AuditLog, TLAPS, SequenceTheorems, WellFoundedInduction

(***************************************************************************)
(* Least numbers: what the verifier's "first line that fails" rests on,    *)
(* and the form in which induction is used below.                          *)
(***************************************************************************)
LessThan == {ss \in Nat \X Nat : ss[1] < ss[2]}

LEMMA LessThanWellFounded == IsWellFoundedOn(LessThan, Nat)
  BY NatLessThanWellFounded DEF OpToRel, LessThan

LEMMA LeastNumber ==
    ASSUME NEW S, S \subseteq Nat, S # {}
    PROVE  \E m \in S : \A k \in S : m <= k
  <1>1. PICK m \in S : \A k \in S : ~(<<k, m>> \in LessThan)
    BY LessThanWellFounded, WFMin
  <1>2. \A k \in S : ~(k < m)
    BY <1>1 DEF LessThan
  <1> QED
    BY <1>2

(***************************************************************************)
(* The verifier.                                                           *)
(***************************************************************************)
LEMMA BreaksAtFirst ==
    ASSUME NEW f, NEW n \in Nat, DOMAIN f = 1 .. n,
           NEW i \in 1 .. n, ~LineVerifies(f, i)
    PROVE  /\ BrokenLine(f) \in 1 .. n
           /\ ~LineVerifies(f, BrokenLine(f))
           /\ \A j \in 1 .. n : ~LineVerifies(f, j) => BrokenLine(f) <= j
  <1> DEFINE bad == {j \in DOMAIN f : ~LineVerifies(f, j)}
  <1>1. PICK m \in bad : \A j \in bad : m <= j
    <2>1. bad \subseteq Nat /\ bad # {}
      OBVIOUS
    <2> HIDE DEF bad
    <2> QED
      BY <2>1, LeastNumber
  <1>2. BrokenLine(f) = CHOOSE j \in bad : \A k \in bad : j <= k
    BY DEF BrokenLine
  <1>3. BrokenLine(f) \in bad /\ \A j \in bad : BrokenLine(f) <= j
    <2> HIDE DEF bad
    <2> QED
      BY <1>1, <1>2
  <1> QED
    BY <1>3

LEMMA OKMeans ==
    ASSUME NEW f, NEW n \in Nat, DOMAIN f = 1 .. n
    PROVE  OK(f) <=> \A i \in 1 .. n : LineVerifies(f, i)
  <1>1. CASE \A i \in 1 .. n : LineVerifies(f, i)
    BY <1>1 DEF OK, BrokenLine
  <1>2. ASSUME NEW i \in 1 .. n, ~LineVerifies(f, i) PROVE ~OK(f)
    BY <1>2, BreaksAtFirst DEF OK
  <1> QED
    BY <1>1, <1>2

(***************************************************************************)
(* The file: legacy lines first, then lines of this version, each with at  *)
(* least one piece.                                                        *)
(***************************************************************************)
PieceOK(p, n) ==
    /\ p.seq \in 0 .. n /\ p.body \in 0 .. n /\ p.whole \in BOOLEAN
    /\ DOMAIN p = {"seq", "prev", "body", "whole"}

Legacy == <<Piece(0, NoPrev, 0, TRUE)>>

(* What this version writes has chain fields: a number and a hash.         *)
Own(p) == p.seq # 0 /\ p.body # 0 /\ p.prev # NoPrev

LinesAreSeqs == \E P : file \in Seq(Seq(P))

LinesInv ==
    /\ Len(file) \in Nat /\ LegacyLines <= Len(file)
    /\ \A i \in 1 .. LegacyLines : file[i] = Legacy
    /\ \A i \in LegacyLines + 1 .. Len(file) :
          /\ Len(file[i]) > 0
          /\ \A j \in 1 .. Len(file[i]) : PieceOK(file[i][j], calls) /\ Own(file[i][j])
    /\ open \in BOOLEAN
    /\ open => Len(file) > LegacyLines

AgentsInv ==
    /\ up \subseteq Agents
    /\ seq \in [Agents -> 0 .. calls]
    /\ DOMAIN prevHash = Agents
    /\ \A a \in Agents : prevHash[a] # NoPrev
    /\ calls \in 0 .. MaxCalls

FileInv == LinesAreSeqs /\ LinesInv
LogInv == FileInv /\ AgentsInv

(* What a write, of whatever part of a record, does to the file.           *)
LEMMA Appended ==
    ASSUME FileInv, NEW p, file' = AppendPiece(p)
    PROVE  /\ LinesAreSeqs'
           /\ ~open => /\ Len(file') = Len(file) + 1
                       /\ \A i \in 1 .. Len(file) : file'[i] = file[i]
                       /\ file'[Len(file) + 1] = <<p>>
           /\ open => /\ Len(file') = Len(file) /\ Len(file) \in 1 .. Len(file)
                      /\ \A i \in 1 .. Len(file) - 1 : file'[i] = file[i]
                      /\ file'[Len(file)] = Append(file[Len(file)], p)
                      /\ Len(file'[Len(file)]) = Len(file[Len(file)]) + 1
                      /\ \A j \in 1 .. Len(file[Len(file)]) :
                            file'[Len(file)][j] = file[Len(file)][j]
                      /\ file'[Len(file)][Len(file[Len(file)]) + 1] = p
  <1>1. PICK P : file \in Seq(Seq(P))
    BY DEF FileInv, LinesAreSeqs
  <1> DEFINE Q == P \cup {p}
  <1>2. \A l \in Seq(P) : l \in Seq(Q)
    BY SeqMonotonic
  <1>3. file \in Seq(Seq(Q))
    BY <1>1, <1>2, SeqMonotonic
  <1>4. CASE ~open
    <2>1. file' = Append(file, <<p>>) /\ <<p>> \in Seq(Q)
      BY <1>4 DEF AppendPiece
    <2> QED
      BY <1>3, <1>4, <2>1, AppendProperties DEF LinesAreSeqs
  <1>5. CASE open
    <2>1. /\ file' = [file EXCEPT ![Len(file)] = Append(file[Len(file)], p)]
          /\ Len(file) \in 1 .. Len(file)
      BY <1>1, <1>5, AuditAssumption DEF AppendPiece, FileInv, LinesInv
    <2>2. file[Len(file)] \in Seq(Q) /\ p \in Q
      BY <1>3, <2>1
    <2>3. /\ Append(file[Len(file)], p) \in Seq(Q)
          /\ Len(Append(file[Len(file)], p)) = Len(file[Len(file)]) + 1
          /\ \A j \in 1 .. Len(file[Len(file)]) :
                Append(file[Len(file)], p)[j] = file[Len(file)][j]
          /\ Append(file[Len(file)], p)[Len(file[Len(file)]) + 1] = p
      BY <2>2, AppendProperties
    <2>4. /\ file' \in Seq(Seq(Q)) /\ Len(file') = Len(file)
          /\ \A i \in 1 .. Len(file) :
                file'[i] = IF i = Len(file) THEN Append(file[Len(file)], p) ELSE file[i]
      BY <1>3, <2>1, <2>3, ExceptSeq
    <2>5. \A i \in 1 .. Len(file) - 1 : file'[i] = file[i]
      BY <1>3, <2>4
    <2>6. file'[Len(file)] = Append(file[Len(file)], p)
      BY <2>1, <2>4
    <2> QED
      BY <1>5, <2>1, <2>3, <2>4, <2>5, <2>6 DEF LinesAreSeqs
  <1> QED
    BY <1>4, <1>5 DEF FileInv, LinesInv

(* Hashes are never taken for one another.                                 *)
LEMMA HashesDiffer ==
    /\ genesisPrev # NoPrev
    /\ \A l : hashLine(l) # NoPrev /\ hashLine(l) # genesisPrev
    /\ \A l, m : hashLine(l) = hashLine(m) => l = m
  <1>1. genesisPrev[1] = "genesis" /\ NoPrev[1] = "none"
    BY DEF genesisPrev, NoPrev
  <1>2. \A l : hashLine(l)[1] = "sha256" /\ hashLine(l)[2] = l
    BY DEF hashLine
  <1> HIDE DEF genesisPrev, NoPrev, hashLine
  <1> QED
    BY <1>1, <1>2

LEMMA LogInit == Init => LogInv
  <1> SUFFICES ASSUME Init PROVE LogInv
    OBVIOUS
  <1>1. /\ file \in Seq(Seq({Piece(0, NoPrev, 0, TRUE)})) /\ Len(file) = LegacyLines
        /\ \A i \in 1 .. LegacyLines : file[i] = Legacy
    <2>1. Legacy \in Seq({Piece(0, NoPrev, 0, TRUE)})
      BY DEF Legacy
    <2>2. file = [i \in 1 .. LegacyLines |-> Legacy]
      BY DEF Init, LegacyFile, Legacy
    <2> QED
      BY <2>1, <2>2, AuditAssumption
  <1>2. genesisPrev # NoPrev
    BY HashesDiffer
  <1> QED
    <2>1. LinesAreSeqs
      <3> DEFINE P == {Piece(0, NoPrev, 0, TRUE)}
      <3>1. file \in Seq(Seq(P))
        BY <1>1
      <3> HIDE DEF P
      <3> QED
        BY <3>1 DEF LinesAreSeqs
    <2>2. LinesInv
      <3>1. open \in BOOLEAN /\ ~open
        BY DEF Init
      <3>2. /\ Len(file) \in Nat /\ LegacyLines <= Len(file)
            /\ LegacyLines + 1 .. Len(file) = {}
        BY <1>1, AuditAssumption
      <3> QED
        BY <1>1, <3>1, <3>2, Zenon DEF LinesInv
    <2>3. AgentsInv
      BY <1>2, AuditAssumption DEF Init, AgentsInv
    <2> QED
      BY <2>1, <2>2, <2>3 DEF LogInv, FileInv

(* A record that is written, whole or torn.                                *)
LEMMA WriteKeepsFile ==
    ASSUME LogInv, NEW a \in up, NEW whole \in BOOLEAN, calls < MaxCalls,
           calls' = calls + 1, file' = AppendPiece(NextPiece(a, whole)),
           open' \in BOOLEAN
    PROVE  FileInv'
  <1> DEFINE p == NextPiece(a, whole)
  <1>1. PieceOK(p, calls + 1) /\ Own(p) /\ calls \in Nat
    BY DEF LogInv, AgentsInv, NextPiece, Piece, PieceOK, Own
  <1>2. \A q : PieceOK(q, calls) => PieceOK(q, calls + 1)
    BY <1>1 DEF PieceOK
  <1>3. LegacyLines \in Nat /\ FileInv /\ LinesInv /\ LinesAreSeqs'
    BY Appended, AuditAssumption DEF LogInv, FileInv
  <1> HIDE DEF p
  <1>4. CASE ~open
    <2>1. /\ Len(file') = Len(file) + 1
          /\ \A i \in 1 .. Len(file) : file'[i] = file[i]
          /\ file'[Len(file) + 1] = <<p>>
      BY <1>4, Appended, <1>3 DEF p
    <2>2. ASSUME NEW i \in LegacyLines + 1 .. Len(file')
          PROVE  /\ Len(file'[i]) > 0
                 /\ \A j \in 1 .. Len(file'[i]) :
                       PieceOK(file'[i][j], calls + 1) /\ Own(file'[i][j])
      <3>1. CASE i \in 1 .. Len(file)
        <4>1. file'[i] = file[i] /\ i \in LegacyLines + 1 .. Len(file)
          BY <1>3, <2>1, <2>2, <3>1
        <4> QED
          BY <1>2, <1>3, <4>1 DEF LinesInv
      <3>2. CASE i = Len(file) + 1
        <4>1. file'[i] = <<p>> /\ Len(<<p>>) = 1 /\ <<p>>[1] = p
          BY <2>1, <3>2
        <4>2. Len(file'[i]) = 1 /\ file'[i][1] = p
          BY <4>1, Zenon
        <4>3. \A j \in 1 .. Len(file'[i]) : j = 1
          BY <4>2
        <4> QED
          BY <1>1, <4>2, <4>3
      <3> QED
        BY <1>3, <2>1, <3>1, <3>2
    <2> QED
      BY <1>3, <2>1, <2>2 DEF LinesInv, FileInv
  <1>5. CASE open
    <2>1. /\ Len(file') = Len(file) /\ LegacyLines < Len(file)
          /\ \A i \in 1 .. Len(file) - 1 : file'[i] = file[i]
          /\ Len(file'[Len(file)]) = Len(file[Len(file)]) + 1
          /\ \A j \in 1 .. Len(file[Len(file)]) :
                file'[Len(file)][j] = file[Len(file)][j]
          /\ file'[Len(file)][Len(file[Len(file)]) + 1] = p
      BY <1>5, Appended, <1>3 DEF LinesInv, p
    <2>2. Len(file[Len(file)]) \in Nat
      BY <1>3, <2>1 DEF LinesInv
    <2>3. ASSUME NEW i \in LegacyLines + 1 .. Len(file')
          PROVE  /\ Len(file'[i]) > 0
                 /\ \A j \in 1 .. Len(file'[i]) :
                       PieceOK(file'[i][j], calls + 1) /\ Own(file'[i][j])
      <3>1. CASE i \in 1 .. Len(file) - 1
        BY <1>2, <1>3, <2>1, <3>1 DEF LinesInv
      <3>2. CASE i = Len(file)
        <4>1. \A j \in 1 .. Len(file[i]) : PieceOK(file'[i][j], calls + 1) /\ Own(file'[i][j])
          BY <1>2, <1>3, <2>1, <3>2 DEF LinesInv
        <4> QED
          BY <1>1, <2>1, <2>2, <3>2, <4>1
      <3>3. i \in 1 .. Len(file) - 1 \/ i = Len(file)
        BY <1>3, <2>1
      <3> QED
        BY <3>1, <3>2, <3>3
    <2>4. \A i \in 1 .. LegacyLines : file'[i] = Legacy
      <3> SUFFICES ASSUME NEW i \in 1 .. LegacyLines PROVE file'[i] = Legacy
        OBVIOUS
      <3>1. file[i] = Legacy /\ Len(file) \in Nat
        BY <1>3 DEF LinesInv
      <3>2. i \in 1 .. Len(file) - 1
        BY <1>3, <2>1, <3>1
      <3> QED
        BY <2>1, <3>1, <3>2
    <2>5. Len(file') \in Nat /\ LegacyLines < Len(file')
      BY <1>3, <2>1 DEF LinesInv
    <2> QED
      BY <1>3, <2>3, <2>4, <2>5 DEF LinesInv, FileInv
  <1> QED
    BY <1>3, <1>4, <1>5 DEF LinesInv

(* The number and the hash an agent takes from the file when it starts.    *)
LEMMA SeedIsTyped ==
    ASSUME LogInv
    PROVE  SeedSeq(file) \in 0 .. calls /\ SeedPrev(file) # NoPrev
  <1> USE AuditAssumption DEF LogInv, FileInv, LinesInv, AgentsInv
  <1>1. file # <<>> => Len(file) \in 1 .. Len(file)
    BY DEF LinesAreSeqs
  <1>2. ASSUME file # <<>>, IsRecord(file[Len(file)])
        PROVE  file[Len(file)][1].seq \in 0 .. calls
    <2>1. CASE Len(file) <= LegacyLines
      BY <1>1, <1>2, <2>1 DEF Legacy, Piece
    <2>2. CASE Len(file) > LegacyLines
      BY <1>1, <1>2, <2>2 DEF PieceOK, IsRecord
    <2> QED
      BY <2>1, <2>2
  <1> QED
    BY <1>2, HashesDiffer DEF SeedSeq, SeedPrev

LEMMA LogStep == LogInv /\ [Next]_vars => LogInv'
  <1> SUFFICES ASSUME LogInv, [Next]_vars PROVE LogInv'
    OBVIOUS
  <1>0. LinesInv /\ LinesAreSeqs /\ AgentsInv /\ calls \in Nat /\ MaxCalls \in Nat
    BY AuditAssumption DEF LogInv, FileInv, AgentsInv
  <1>1. ASSUME NEW a \in Agents, NewAuditLogger(a) PROVE LogInv'
    <2>1. FileInv'
      BY <1>0, <1>1 DEF NewAuditLogger, FileInv, LinesInv, LinesAreSeqs, PieceOK, Own
    <2>2. AgentsInv'
      BY <1>0, <1>1, SeedIsTyped DEF NewAuditLogger, AgentsInv
    <2> QED
      BY <2>1, <2>2 DEF LogInv
  <1>2. ASSUME NEW a \in Agents, Stop(a) PROVE LogInv'
    <2>1. FileInv'
      BY <1>0, <1>2 DEF Stop, FileInv, LinesInv, LinesAreSeqs, PieceOK, Own
    <2>2. AgentsInv'
      BY <1>0, <1>2, HashesDiffer DEF Stop, AgentsInv
    <2> QED
      BY <2>1, <2>2 DEF LogInv
  <1>3. ASSUME NEW a \in Agents, NEW fault \in Faults, SignFails(a, fault) PROVE LogInv'
    <2>1. FileInv'
      <3>1. CASE fault = "none" /\ UNCHANGED <<file, open>>
        <4>1. \A q : PieceOK(q, calls) => PieceOK(q, calls + 1)
          BY <1>0 DEF PieceOK
        <4> QED
          BY <1>0, <1>3, <3>1, <4>1 DEF SignFails, FileInv, LinesInv, LinesAreSeqs
      <3>2. CASE file' = AppendPiece(NextPiece(a, FALSE)) /\ open' = TRUE
        BY <1>3, <3>2, WriteKeepsFile DEF SignFails
      <3>3. CASE file' = AppendPiece(NextPiece(a, TRUE)) /\ open' = TRUE
        BY <1>3, <3>3, WriteKeepsFile DEF SignFails
      <3> QED
        BY <1>3, <3>1, <3>2, <3>3 DEF SignFails
    <2>2. AgentsInv'
      BY <1>0, <1>3 DEF SignFails, AgentsInv
    <2> QED
      BY <2>1, <2>2 DEF LogInv
  <1>4. ASSUME NEW a \in Agents, Sign(a) PROVE LogInv'
    <2>1. FileInv'
      BY <1>4, WriteKeepsFile DEF Sign
    <2>2. AgentsInv'
      BY <1>0, <1>4, HashesDiffer DEF Sign, AgentsInv, NextPiece, Piece
    <2> QED
      BY <2>1, <2>2 DEF LogInv
  <1>5. CASE UNCHANGED vars
    BY <1>0, <1>5 DEF LogInv, FileInv, LinesInv, LinesAreSeqs, AgentsInv, vars, PieceOK, Own
  <1> QED
    BY <1>1, <1>2, <1>3, <1>4, <1>5 DEF Next

LEMMA LogInvariant == Spec => []LogInv
  BY LogInit, LogStep, PTL DEF Spec

(* What is in the log is the legacy lines it began with and then lines     *)
(* of records AuditLogger.Sign wrote, whole or in part, each with a        *)
(* number and a hash and of a call that was made; for any agents, faults   *)
(* and restarts.                                                           *)
THEOREM LogTypeCorrect == Spec => []TypeOK
  <1>1. LogInv => TypeOK
    <2> SUFFICES ASSUME LogInv PROVE TypeOK
      OBVIOUS
    <2> USE AuditAssumption DEF LogInv, FileInv, LinesInv, AgentsInv
    <2>1. DOMAIN file = 1 .. Len(file)
      BY DEF LinesAreSeqs
    <2>2. ASSUME NEW i \in DOMAIN file
          PROVE  /\ Len(file[i]) > 0
                 /\ DOMAIN file[i] = 1 .. Len(file[i])
                 /\ \A j \in 1 .. Len(file[i]) : PieceOK(file[i][j], MaxCalls)
      <3>1. DOMAIN file[i] = 1 .. Len(file[i])
        BY <2>1, <2>2 DEF LinesAreSeqs
      <3>2. CASE i \in 1 .. LegacyLines
        <4>1. Len(Legacy) = 1 /\ Legacy[1] = Piece(0, NoPrev, 0, TRUE)
          BY DEF Legacy
        <4>2. 0 \in 0 .. MaxCalls
          OBVIOUS
        <4>3. PieceOK(Piece(0, NoPrev, 0, TRUE), MaxCalls)
          BY <4>2, Zenon DEF PieceOK, Piece
        <4>4. file[i] = Legacy /\ PieceOK(Legacy[1], MaxCalls)
          BY <3>2, <4>1, <4>3, Zenon
        <4>5. Len(file[i]) = 1 /\ PieceOK(file[i][1], MaxCalls)
          BY <4>1, <4>4, Zenon
        <4> QED
          BY <3>1, <4>5
      <3>3. CASE i \in LegacyLines + 1 .. Len(file)
        BY <3>1, <3>3 DEF PieceOK
      <3> QED
        BY <2>1, <3>1, <3>2, <3>3
    <2>3. open => file # <<>>
      BY <2>1
    <2> QED
      BY <2>2, <2>3 DEF TypeOK, PieceOK
  <1> QED
    BY <1>1, LogInvariant, PTL

(***************************************************************************)
(* What the last record vouches for: whatever else somebody makes of the   *)
(* file, if it still verifies and still ends in the same record, then      *)
(* every line of this version stands where it stood, counted from the end, *)
(* and before them the last legacy line; and if there is none, nothing     *)
(* stands before the first record.                                         *)
(***************************************************************************)
Vouched(f, n) ==
    /\ \A k \in Nat : Len(file) - k >= 1 /\ Len(file) - k >= LegacyLines =>
          n - k >= 1 /\ f[n - k] = file[Len(file) - k]
    /\ LegacyLines = 0 => n = Len(file)

LEMMA VouchesForTheRest ==
    ASSUME LogInv, OK(file), Len(file) > 0,
           NEW f, NEW n \in Nat \ {0}, DOMAIN f = 1 .. n, OK(f),
           f[n] = file[Len(file)]
    PROVE  Vouched(f, n)
  <1> DEFINE N == Len(file)
  <1>0. N \in Nat /\ LegacyLines \in Nat /\ LegacyLines <= N /\ DOMAIN file = 1 .. N
    BY AuditAssumption DEF LogInv, FileInv, LinesInv, LinesAreSeqs
  <1>1. ASSUME NEW i \in 1 .. N, i > LegacyLines
        PROVE  Chained(file[i]) /\ file[i][1].prev = ExpectedPrev(file, i)
    <2>1. Chained(file[i])
      BY <1>0, <1>1 DEF LogInv, FileInv, LinesInv, Own, Chained
    <2> QED
      BY <1>0, <2>1, OKMeans DEF LineVerifies
  <1>2. ASSUME NEW i \in 1 .. n, Chained(f[i])
        PROVE  f[i][1].prev = ExpectedPrev(f, i)
    BY <1>2, OKMeans DEF LineVerifies
  <1> DEFINE Same(k) == n - k >= 1 /\ f[n - k] = file[N - k]
  <1> DEFINE differ == {k \in Nat : N - k >= 1 /\ N - k >= LegacyLines /\ ~Same(k)}
  <1>3. differ = {}
    <2> SUFFICES ASSUME differ # {} PROVE FALSE
      OBVIOUS
    <2>1. PICK k \in differ : \A j \in differ : k <= j
      <3> HIDE DEF differ
      <3>1. differ \subseteq Nat
        BY DEF differ
      <3> QED
        BY <3>1, LeastNumber
    <2>2. k \in Nat /\ k # 0 /\ N - k >= 1 /\ N - k >= LegacyLines /\ ~Same(k)
      BY <1>0
    <2>3. Same(k - 1)
      <3>1. /\ k - 1 \in Nat /\ ~(k <= k - 1)
            /\ N - (k - 1) >= 1 /\ N - (k - 1) >= LegacyLines
        BY <1>0, <2>2
      <3>2. k - 1 \notin differ
        BY <2>1, <3>1
      <3> HIDE DEF Same
      <3> QED
        BY <3>1, <3>2
    <2> DEFINE i == N - (k - 1)
    <2> DEFINE j == n - (k - 1)
    <2>4. i \in 1 .. N /\ i > LegacyLines /\ i # 1 /\ i - 1 = N - k
      BY <1>0, <2>2
    <2>7. j \in 1 .. n /\ j - 1 = n - k /\ f[j] = file[i]
      <3>1. n \in Int /\ n - (k - 1) >= 1
        BY <2>3
      <3>2. j \in 1 .. n /\ j - 1 = n - k
        BY <2>2, <3>1
      <3> QED
        BY <2>3, <3>2
    <2> HIDE DEF i, j
    <2>5. Chained(f[j]) /\ ExpectedPrev(f, j) = hashLine(file[i - 1])
      BY <1>1, <1>2, <2>4, <2>7 DEF ExpectedPrev
    <2>6. j # 1 /\ f[j - 1] = file[i - 1]
      BY <2>5, HashesDiffer DEF ExpectedPrev
    <2>8. j - 1 >= 1
      BY <2>6, <2>7
    <2>9. n - k >= 1 /\ f[n - k] = file[N - k]
      BY <2>4, <2>6, <2>7, <2>8, Zenon
    <2> QED
      BY <2>2, <2>9
  <1>4. ASSUME LegacyLines = 0 PROVE n = N
    <2>1. Same(N - 1)
      <3>1. N - 1 \in Nat /\ N - (N - 1) >= 1 /\ N - (N - 1) >= LegacyLines
        BY <1>0, <1>4
      <3>2. N - 1 \notin differ
        BY <1>3
      <3> HIDE DEF Same
      <3> QED
        BY <3>1, <3>2
    <2> DEFINE j == n - (N - 1)
    <2>2. j \in 1 .. n /\ f[j] = file[1] /\ 1 \in 1 .. N /\ 1 > LegacyLines
      BY <1>0, <1>4, <2>1
    <2> HIDE DEF j
    <2>3. Chained(f[j]) /\ ExpectedPrev(f, j) = genesisPrev
      BY <1>1, <1>2, <2>2 DEF ExpectedPrev
    <2>4. n - (N - 1) = 1
      BY <2>3, HashesDiffer DEF ExpectedPrev, j
    <2> QED
      <3>1. n \in Int /\ N \in Int
        BY <1>0
      <3> HIDE DEF N
      <3> QED
        BY <2>4, <3>1
  <1> QED
    BY <1>0, <1>3, <1>4 DEF Vouched

LastRecordVouches ==
    OK(file) /\ Len(file) > 0 =>
        \A f, n : /\ n \in Nat \ {0} /\ DOMAIN f = 1 .. n
                  /\ OK(f) /\ f[n] = file[Len(file)]
                  => Vouched(f, n)

(* If -verify-audit finds nothing wrong with the log, then any other       *)
(* file it finds nothing wrong with and that ends in the same record has   *)
(* the same lines of this version, however it came about: the last         *)
(* record vouches for all those before it, by its hash of the line         *)
(* before it.                                                              *)
THEOREM TailVouches == Spec => []LastRecordVouches
  <1>1. LogInv => LastRecordVouches
    BY VouchesForTheRest DEF LastRecordVouches
  <1> QED
    BY <1>1, LogInvariant, PTL

OnLines(f, n) == f = [k \in 1 .. n |-> f[k]]

LEMMA LenByDomain ==
    ASSUME NEW f, NEW n \in Nat, OnLines(f, n)
    PROVE  Len(f) = n /\ DOMAIN f = 1 .. n
  <1>1. f \in Seq({f[k] : k \in 1 .. n})
    BY DEF OnLines
  <1> QED
    BY <1>1 DEF OnLines

(* Only the lines of this version, also when forged, have chain fields.    *)
LEMMA OwnLinesAreChained ==
    ASSUME LogInv
    PROVE  /\ \A i \in LegacyLines + 1 .. Len(file) :
                 Chained(file[i]) /\ Chained(Forged(file[i]))
           /\ LegacyLines > 0 => ~Chained(file[LegacyLines])
  <1> USE AuditAssumption DEF LogInv, FileInv, LinesInv
  <1>1. ASSUME NEW i \in LegacyLines + 1 .. Len(file)
        PROVE  Chained(file[i]) /\ Chained(Forged(file[i]))
    <2>1. i \in 1 .. Len(file) /\ 1 \in 1 .. Len(file[i])
      OBVIOUS
    <2>2. /\ DOMAIN file[i] = 1 .. Len(file[i])
          /\ Own(file[i][1]) /\ DOMAIN file[i][1] = {"seq", "prev", "body", "whole"}
      BY <2>1 DEF LinesAreSeqs, PieceOK
    <2>3. Forged(file[i])[1].prev = file[i][1].prev
      BY <2>1, <2>2 DEF Forged
    <2> QED
      BY <2>2, <2>3 DEF Chained, Own
  <1>2. ASSUME LegacyLines > 0 PROVE ~Chained(file[LegacyLines])
    <2>1. file[LegacyLines] = Legacy
      BY <1>2
    <2> QED
      BY <2>1 DEF Chained, Legacy, Piece
  <1> QED
    BY <1>1, <1>2

LEMMA EditsAre ==
    ASSUME NEW f, NEW e \in Edits(f)
    PROVE  \E i \in LegacyLines + 1 .. Len(f) :
              \/ e = [f EXCEPT ![i] = Forged(f[i])]
              \/ e = Without(f, i)
              \/ \E j \in LegacyLines + 1 .. Len(f) :
                    \/ e = With(f, i, f[j])
                    \/ e = With(f, i, Forged(f[j]))
                    \/ e = [f EXCEPT ![i] = f[j], ![j] = f[i]]
  <1> DEFINE own == LegacyLines + 1 .. Len(f)
  <1>1. PICK i \in own :
          e \in {[f EXCEPT ![i] = Forged(f[i])], Without(f, i)}
               \cup {With(f, i, f[j]) : j \in own}
               \cup {With(f, i, Forged(f[j])) : j \in own}
               \cup {[f EXCEPT ![i] = f[j], ![j] = f[i]] : j \in own}
    BY DEF Edits
  <1> HIDE DEF own
  <1> QED
    BY <1>1 DEF own

(* Every edit of one or two lines of a log that verifies, other than of    *)
(* its last record, is reported by VerifyAuditChain: in logs of any        *)
(* length, also where agents overlapped, writes failed or other versions   *)
(* wrote before.                                                           *)
THEOREM EditsDetected == Spec => []EditsAreDetected
  <1>1. ASSUME LogInv PROVE EditsAreDetected
    <2> DEFINE N == Len(file)
    <2> DEFINE L == LegacyLines
    <2> SUFFICES ASSUME file # <<>>, OK(file), NEW f \in Edits(file), f # file,
                        f # <<>>, f[Len(f)] = file[N], OK(f)
                 PROVE  FALSE
      BY DEF EditsAreDetected
    <2>0. /\ N \in Nat /\ N > 0 /\ L \in Nat /\ L <= N
          /\ DOMAIN file = 1 .. N /\ OnLines(file, N)
      BY <1>1, AuditAssumption DEF LogInv, FileInv, LinesInv, LinesAreSeqs, OnLines
    <2>1. /\ \A i \in L + 1 .. N : Chained(file[i]) /\ Chained(Forged(file[i]))
          /\ L > 0 => ~Chained(file[L])
      BY <1>1, OwnLinesAreChained
    <2>2. ASSUME NEW n \in Nat, n > 0, OnLines(f, n) PROVE Vouched(f, n)
      <3>1. Len(f) = n /\ DOMAIN f = 1 .. n
        BY <2>2, LenByDomain
      <3> QED
        BY <1>1, <2>0, <2>2, <3>1, VouchesForTheRest
    <2>3. ASSUME NEW n \in Nat, n > 0, OnLines(f, n)
          PROVE  /\ \A k \in Nat : N - k >= 1 /\ N - k >= L => f[n - k] = file[N - k]
                 /\ L = 0 => n = N
      <3>1. Vouched(f, n)
        BY <2>2, <2>3
      <3> QED
        BY <3>1 DEF Vouched
    <2>9. \E i \in L + 1 .. N :
             \/ f = [file EXCEPT ![i] = Forged(file[i])]
             \/ f = Without(file, i)
             \/ \E j \in L + 1 .. N :
                   \/ f = With(file, i, file[j])
                   \/ f = With(file, i, Forged(file[j]))
                   \/ f = [file EXCEPT ![i] = file[j], ![j] = file[i]]
      BY EditsAre
    <2> HIDE DEF N, L
    (* An edit that keeps the number of lines changes nothing.             *)
    <2>4. ASSUME OnLines(f, N), \A k \in 1 .. L : f[k] = file[k]
          PROVE  FALSE
      <3>1. ASSUME NEW k \in 1 .. N, k >= L PROVE f[k] = file[k]
        <4>1. N - k \in Nat /\ N - (N - k) = k /\ k >= 1
          BY <2>0
        <4>2. \A m \in Nat : N - m >= 1 /\ N - m >= L => f[N - m] = file[N - m]
          BY <2>0, <2>3, <2>4
        <4> QED
          BY <3>1, <4>1, <4>2
      <3>2. \A k \in 1 .. N : f[k] = file[k]
        BY <2>0, <2>4, <3>1
      <3> QED
        BY <2>0, <2>4, <3>2 DEF OnLines
    <2>5. ASSUME NEW i \in L + 1 .. N, f = [file EXCEPT ![i] = Forged(file[i])]
          PROVE  FALSE
      <3>1. f = [k \in 1 .. N |-> IF k = i THEN Forged(file[i]) ELSE file[k]]
        BY <2>0, <2>5
      <3>2. OnLines(f, N) /\ \A k \in 1 .. L : f[k] = file[k]
        BY <2>0, <3>1 DEF OnLines
      <3> QED
        BY <2>4, <3>2
    <2>6. ASSUME NEW i \in L + 1 .. N, NEW j \in L + 1 .. N,
                 f = [file EXCEPT ![i] = file[j], ![j] = file[i]]
          PROVE  FALSE
      <3>1. f = [k \in 1 .. N |-> IF k = j THEN file[i]
                                 ELSE IF k = i THEN file[j] ELSE file[k]]
        BY <2>0, <2>6
      <3>2. OnLines(f, N) /\ \A k \in 1 .. L : f[k] = file[k]
        BY <2>0, <3>1 DEF OnLines
      <3> QED
        BY <2>4, <3>2
    <2>7. ASSUME NEW i \in L + 1 .. N, f = Without(file, i) PROVE FALSE
      <3>1. f = [k \in 1 .. N - 1 |-> IF k < i THEN file[k] ELSE file[k + 1]]
        BY <2>7 DEF Without, N
      <3>2. OnLines(f, N - 1) /\ N - 1 \in Nat
        BY <2>0, <3>1 DEF OnLines
      <3>3. N - 1 > 0
        <4>1. N = 1 => f = <<>>
          BY <2>0, <3>1
        <4> QED
          BY <2>0, <4>1
      <3>4. /\ \A k \in Nat : N - k >= 1 /\ N - k >= L => f[N - 1 - k] = file[N - k]
            /\ L # 0
        BY <2>0, <2>3, <3>2, <3>3
      <3>5. f[L] = file[L]
        BY <2>0, <2>7, <3>1, <3>4
      <3>6. /\ N - L - 1 \in Nat /\ N - (N - L - 1) = L + 1
            /\ N - 1 - (N - L - 1) = L /\ L + 1 \in L + 1 .. N /\ L > 0
        BY <2>0, <2>7, <3>4
      <3>7. f[L] = file[L + 1]
        <4> DEFINE k == N - L - 1
        <4>1. k \in Nat /\ N - k = L + 1 /\ N - 1 - k = L
          BY <3>6
        <4> HIDE DEF k
        <4>2. N - k >= 1 /\ N - k >= L
          BY <2>0, <4>1
        <4>3. f[N - 1 - k] = file[N - k]
          BY <3>4, <4>1, <4>2
        <4> QED
          BY <4>1, <4>3, Zenon
      <3> QED
        BY <2>1, <3>5, <3>6, <3>7
    <2>8. ASSUME NEW i \in L + 1 .. N, NEW l, Chained(l), f = With(file, i, l)
          PROVE  FALSE
      <3>1. f = [k \in 1 .. N + 1 |->
                  IF k < i THEN file[k] ELSE IF k = i THEN l ELSE file[k - 1]]
        BY <2>8 DEF With, N
      <3>2. OnLines(f, N + 1) /\ N + 1 \in Nat /\ N + 1 > 0
        BY <2>0, <3>1 DEF OnLines
      <3>3. /\ \A k \in Nat : N - k >= 1 /\ N - k >= L => f[N + 1 - k] = file[N - k]
            /\ L # 0
        BY <2>0, <2>3, <3>2
      <3>4. N - L \in Nat /\ N - (N - L) = L /\ N + 1 - (N - L) = L + 1 /\ L > 0
        BY <2>0, <3>3
      <3>5. f[L + 1] = file[L]
        <4> DEFINE k == N - L
        <4>1. k \in Nat /\ N - k = L /\ N + 1 - k = L + 1
          BY <3>4
        <4> HIDE DEF k
        <4> QED
          BY <2>0, <3>3, <3>4, <4>1
      <3>6. L + 1 \in 1 .. N + 1 /\ L + 1 <= i /\ L + 1 \in L + 1 .. N
        BY <2>0, <2>8
      <3>7. f[L + 1] = IF L + 1 < i THEN file[L + 1] ELSE l
        BY <3>1, <3>6
      <3> QED
        BY <2>1, <2>8, <3>4, <3>5, <3>6, <3>7
    <2> QED
      BY <2>1, <2>5, <2>6, <2>7, <2>8, <2>9
  <1> QED
    BY <1>1, LogInvariant, PTL

(***************************************************************************)
(* One agent at a time.  Up to the first damaged line the chain is whole,  *)
(* and an agent that runs holds its end, unless the file ends in a line    *)
(* that is already damaged or about to be.                                 *)
(***************************************************************************)
Intact(f, i) == \A j \in 1 .. i : IsRecord(f[j])

SoloInv == \A a, b \in up : a = b

ChainInv ==
    \A i \in LegacyLines + 1 .. Len(file) :
        Intact(file, i) => /\ file[i][1].prev = ExpectedPrev(file, i)
                     /\ file[i][1].seq = i - LegacyLines

TailInv ==
    \A a \in up :
        Intact(file, Len(file)) /\ ~open => /\ prevHash[a] = SeedPrev(file)
                                     /\ seq[a] = Len(file) - LegacyLines

SoloLogInv == LogInv /\ SoloInv /\ ChainInv /\ TailInv

LEMMA WriteKeepsChain ==
    ASSUME SoloLogInv, NEW a \in up, NEW whole \in BOOLEAN,
           file' = AppendPiece(NextPiece(a, whole))
    PROVE  /\ ChainInv'
           /\ Intact(file', Len(file')) => /\ Len(file') = Len(file) + 1
                                   /\ file'[Len(file')] = <<NextPiece(a, whole)>>
                                   /\ NextPiece(a, whole).seq = Len(file') - LegacyLines
  <1> DEFINE p == NextPiece(a, whole)
  <1> DEFINE N == Len(file)
  <1>0. /\ N \in Nat /\ LegacyLines \in Nat /\ LegacyLines <= N /\ FileInv
        /\ N = 0 <=> file = <<>>
    BY AuditAssumption DEF SoloLogInv, LogInv, FileInv, LinesInv, LinesAreSeqs
  <1>1. /\ p.prev = prevHash[a] /\ p.seq = seq[a] + 1
        /\ IsRecord(<<p>>) = whole /\ <<p>>[1] = p
    BY DEF NextPiece, Piece, IsRecord
  <1> HIDE DEF p
  <1>2. CASE open
    <2>1. /\ Len(file') = N /\ N > LegacyLines /\ Len(file[N]) > 0 /\ Len(file[N]) \in Nat
          /\ \A i \in 1 .. N - 1 : file'[i] = file[i]
          /\ Len(file'[N]) = Len(file[N]) + 1
      BY <1>0, <1>2, Appended DEF FileInv, LinesInv, LinesAreSeqs, p
    <2>2. ~IsRecord(file'[N])
      BY <2>1 DEF IsRecord
    <2> HIDE DEF N
    <2>3. ~Intact(file', N)
      BY <1>0, <2>1, <2>2 DEF Intact
    <2>4. ASSUME NEW i \in LegacyLines + 1 .. N - 1, Intact(file', i)
          PROVE  /\ file'[i][1].prev = ExpectedPrev(file', i)
                 /\ file'[i][1].seq = i - LegacyLines
      <3>1. Intact(file, i) /\ file'[i] = file[i] /\ i \in LegacyLines + 1 .. N
        BY <1>0, <2>1, <2>4 DEF Intact
      <3>2. ExpectedPrev(file', i) = ExpectedPrev(file, i)
        BY <1>0, <2>1, <2>4 DEF ExpectedPrev
      <3> QED
        BY <3>1, <3>2 DEF SoloLogInv, ChainInv, N
    <2> QED
      BY <1>0, <2>1, <2>3, <2>4 DEF ChainInv, N
  <1>3. CASE ~open
    <2>1. /\ Len(file') = N + 1
          /\ \A i \in 1 .. N : file'[i] = file[i]
          /\ file'[N + 1] = <<p>>
      BY <1>0, <1>3, Appended DEF p
    <2> HIDE DEF N
    <2>2. ASSUME NEW i \in LegacyLines + 1 .. N, Intact(file', i)
          PROVE  /\ file'[i][1].prev = ExpectedPrev(file', i)
                 /\ file'[i][1].seq = i - LegacyLines
      <3>1. Intact(file, i) /\ file'[i] = file[i] /\ i \in LegacyLines + 1 .. N
        BY <1>0, <2>1, <2>2 DEF Intact
      <3>2. ExpectedPrev(file', i) = ExpectedPrev(file, i)
        BY <1>0, <2>1, <2>2 DEF ExpectedPrev
      <3> QED
        BY <3>1, <3>2 DEF SoloLogInv, ChainInv, N
    <2>3. ASSUME Intact(file', N + 1)
          PROVE  /\ p.prev = ExpectedPrev(file', N + 1)
                 /\ p.seq = N + 1 - LegacyLines
      <3>1. Intact(file, N)
        BY <1>0, <2>1, <2>3 DEF Intact
      <3>2. prevHash[a] = SeedPrev(file) /\ seq[a] = N - LegacyLines
        BY <1>3, <3>1 DEF SoloLogInv, TailInv, N
      <3>3. SeedPrev(file) = ExpectedPrev(file', N + 1)
        BY <1>0, <2>1 DEF SeedPrev, ExpectedPrev, N
      <3> QED
        BY <1>0, <1>1, <3>2, <3>3
    <2>4. ChainInv'
      <3>1. ASSUME NEW i \in LegacyLines + 1 .. N + 1, Intact(file', i)
            PROVE  /\ file'[i][1].prev = ExpectedPrev(file', i)
                   /\ file'[i][1].seq = i - LegacyLines
        <4>1. CASE i = N + 1
          <5>1. Intact(file', N + 1)
            BY <3>1, <4>1
          <5>2. /\ file'[N + 1][1].prev = ExpectedPrev(file', N + 1)
                /\ file'[N + 1][1].seq = N + 1 - LegacyLines
            BY <1>1, <2>1, <2>3, <5>1
          <5> QED
            BY <1>0, <4>1, <5>2
        <4> QED
          BY <1>0, <2>2, <3>1, <4>1
      <3> QED
        BY <2>1, <3>1 DEF ChainInv
    <2> QED
      BY <1>0, <2>1, <2>3, <2>4 DEF N, p
  <1> QED
    BY <1>2, <1>3

LEMMA SoloStep ==
    ASSUME ~Overlap
    PROVE  SoloLogInv /\ [Next]_vars => SoloLogInv'
  <1> SUFFICES ASSUME SoloLogInv, [Next]_vars PROVE SoloLogInv'
    OBVIOUS
  <1> DEFINE N == Len(file)
  <1>0. /\ N \in Nat /\ LegacyLines \in Nat /\ LegacyLines <= N
        /\ N = 0 <=> file = <<>>
        /\ \A i \in 1 .. LegacyLines : file[i] = Legacy
        /\ AgentsInv
    BY AuditAssumption DEF SoloLogInv, LogInv, FileInv, LinesInv, LinesAreSeqs
  <1>1. LogInv'
    BY LogStep DEF SoloLogInv
  <1>2. ASSUME UNCHANGED file PROVE ChainInv'
    BY <1>2 DEF SoloLogInv, ChainInv, ExpectedPrev
  <1>3. ASSUME NEW a \in Agents, NewAuditLogger(a) PROVE SoloLogInv'
    <2>1. SoloInv'
      BY <1>3 DEF NewAuditLogger, SoloInv
    <2>2. ASSUME Intact(file, N) PROVE SeedSeq(file) = N - LegacyLines
      <3>1. CASE N = 0
        BY <1>0, <3>1 DEF SeedSeq
      <3>2. CASE N > LegacyLines
        <4>1. N \in LegacyLines + 1 .. N /\ IsRecord(file[N])
          BY <1>0, <2>2, <3>2 DEF Intact
        <4>2. file[N][1].seq = N - LegacyLines
          BY <2>2, <4>1 DEF SoloLogInv, ChainInv
        <4> QED
          BY <1>0, <3>2, <4>1, <4>2 DEF SeedSeq
      <3>3. CASE N = LegacyLines /\ N # 0
        <4>1. file[N] = Legacy
          BY <1>0, <3>3
        <4>2. Legacy[1].seq = 0
          BY DEF Legacy, Piece
        <4> QED
          BY <1>0, <3>3, <4>1, <4>2 DEF SeedSeq
      <3> QED
        BY <1>0, <3>1, <3>2, <3>3
    <2>3. TailInv'
      <3>1. SUFFICES ASSUME NEW b \in up', Intact(file, N)
                     PROVE  prevHash'[b] = SeedPrev(file) /\ seq'[b] = N - LegacyLines
        BY <1>3 DEF TailInv, NewAuditLogger
      <3>2. b = a /\ prevHash'[a] = SeedPrev(file) /\ seq'[a] = SeedSeq(file)
        BY <1>0, <1>3 DEF NewAuditLogger, AgentsInv
      <3> QED
        BY <2>2, <3>1, <3>2
    <2> QED
      BY <1>1, <1>2, <1>3, <2>1, <2>3 DEF NewAuditLogger, SoloLogInv
  <1>4. ASSUME NEW a \in Agents, Stop(a) PROVE SoloLogInv'
    <2>1. SoloInv' /\ up' = {}
      BY <1>4 DEF Stop, SoloInv, SoloLogInv
    <2> QED
      BY <1>1, <1>2, <1>4, <2>1 DEF Stop, SoloLogInv, TailInv
  <1>5. ASSUME NEW a \in Agents, NEW fault \in Faults, SignFails(a, fault) PROVE SoloLogInv'
    <2>1. SoloInv'
      BY <1>5 DEF SignFails, SoloInv, SoloLogInv
    <2>2. CASE UNCHANGED <<file, open>>
      BY <1>1, <1>2, <1>5, <2>1, <2>2 DEF SignFails, SoloLogInv, TailInv
    <2>3. CASE open' = TRUE /\ \E whole \in BOOLEAN : file' = AppendPiece(NextPiece(a, whole))
      BY <1>1, <1>5, <2>1, <2>3, WriteKeepsChain DEF SignFails, SoloLogInv, TailInv
    <2> QED
      BY <1>5, <2>2, <2>3 DEF SignFails
  <1>6. ASSUME NEW a \in Agents, Sign(a) PROVE SoloLogInv'
    <2>1. SoloInv' /\ up' = {a}
      BY <1>6 DEF Sign, SoloInv, SoloLogInv
    <2>2. /\ a \in up /\ file' = AppendPiece(NextPiece(a, TRUE))
          /\ seq'[a] = NextPiece(a, TRUE).seq
          /\ prevHash'[a] = hashLine(<<NextPiece(a, TRUE)>>)
      BY <1>0, <1>6 DEF Sign, AgentsInv
    <2>3. ChainInv' /\ (Intact(file', Len(file')) =>
                           /\ Len(file') = N + 1
                           /\ file'[Len(file')] = <<NextPiece(a, TRUE)>>
                           /\ NextPiece(a, TRUE).seq = Len(file') - LegacyLines)
      BY <2>2, WriteKeepsChain
    <2>4. TailInv'
      <3>1. SUFFICES ASSUME Intact(file', Len(file'))
                     PROVE  /\ prevHash'[a] = SeedPrev(file')
                            /\ seq'[a] = Len(file') - LegacyLines
        BY <2>1 DEF TailInv
      <3>2. file' # <<>>
        BY <1>0, <2>3, <3>1
      <3> QED
        BY <2>2, <2>3, <3>1, <3>2 DEF SeedPrev
    <2> QED
      BY <1>1, <2>1, <2>3, <2>4 DEF SoloLogInv
  <1>7. CASE UNCHANGED vars
    BY <1>1, <1>2, <1>7 DEF vars, SoloLogInv, SoloInv, TailInv
  <1> QED
    BY <1>3, <1>4, <1>5, <1>6, <1>7 DEF Next

LEMMA SoloInvariant ==
    ASSUME ~Overlap
    PROVE  Spec => []SoloLogInv
  <1>1. Init => SoloLogInv
    <2> SUFFICES ASSUME Init PROVE SoloLogInv
      OBVIOUS
    <2>1. LogInv
      BY LogInit
    <2>2. Len(file) = LegacyLines /\ up = {}
      BY AuditAssumption DEF Init, LegacyFile
    <2> QED
      BY <2>1, <2>2, AuditAssumption DEF SoloLogInv, SoloInv, ChainInv, TailInv
  <1>2. SoloLogInv /\ [Next]_vars => SoloLogInv'
    BY SoloStep
  <1> QED
    BY <1>1, <1>2, PTL DEF Spec

(* Every line up to the first damaged one verifies.                        *)
LEMMA IntactVerifies ==
    ASSUME SoloLogInv, NEW i \in 1 .. Len(file), Intact(file, i)
    PROVE  LineVerifies(file, i)
  <1> DEFINE L == LegacyLines
  <1>0. /\ Len(file) \in Nat /\ L \in Nat /\ L <= Len(file)
        /\ \A j \in 1 .. L : ~Chained(file[j])
        /\ \A j \in L + 1 .. Len(file) : Chained(file[j])
    <2>1. ~Chained(Legacy)
      BY DEF Chained, Legacy, Piece
    <2>2. \A j \in L + 1 .. Len(file) : Chained(file[j])
      BY OwnLinesAreChained DEF SoloLogInv
    <2> QED
      BY <2>1, <2>2, AuditAssumption DEF SoloLogInv, LogInv, FileInv, LinesInv
  <1>1. IsRecord(file[i])
    BY DEF Intact
  <1>2. CASE i <= L
    BY <1>0, <1>1, <1>2 DEF LineVerifies
  <1>3. CASE i > L
    <2>1. /\ file[i][1].prev = ExpectedPrev(file, i)
          /\ file[i][1].seq = i - L
      BY <1>0, <1>3 DEF SoloLogInv, ChainInv
    <2>2. ExpectedSeq(file, i) \in {0, i - 1 - L}
      <3> DEFINE before == {j \in 1 .. i - 1 : Chained(file[j])}
      <3>1. CASE i = L + 1
        <4>1. before = {}
          BY <1>0, <3>1
        <4> QED
          BY <4>1 DEF ExpectedSeq
      <3>2. CASE i > L + 1
        <4>1. i - 1 \in before /\ \A k \in before : k \in Nat /\ k <= i - 1
          BY <1>0, <3>2
        <4> HIDE DEF before
        <4>2. (CHOOSE j \in before : \A k \in before : k <= j) = i - 1
          <5> DEFINE m == CHOOSE j \in before : \A k \in before : k <= j
          <5>1. m \in before /\ \A k \in before : k <= m
            BY <4>1
          <5> HIDE DEF m
          <5>2. m = i - 1
            BY <4>1, <5>1
          <5> QED
            BY <5>2 DEF m
        <4>3. ExpectedSeq(file, i) = file[i - 1][1].seq
          BY <4>1, <4>2 DEF ExpectedSeq, before
        <4>4. i - 1 \in L + 1 .. Len(file) /\ Intact(file, i - 1)
          BY <1>0, <3>2 DEF Intact
        <4> QED
          BY <4>3, <4>4 DEF SoloLogInv, ChainInv
      <3> QED
        BY <1>0, <1>3, <3>1, <3>2
    <2> QED
      BY <1>0, <1>1, <1>3, <2>1, <2>2 DEF LineVerifies
  <1> QED
    BY <1>0, <1>2, <1>3

(* While one agent writes at a time, VerifyAuditChain complains of the     *)
(* first line that a failed or torn write damaged and of nothing before    *)
(* it, through any number of restarts, each of which seeds seq and prev    *)
(* from the file.                                                          *)
THEOREM FirstBreakIsTheDamage ==
    ASSUME ~Overlap
    PROVE  Spec => []FirstBreakIsDamage
  <1>1. ASSUME SoloLogInv PROVE FirstBreakIsDamage
    <2> DEFINE N == Len(file)
    <2>0. N \in Nat /\ DOMAIN file = 1 .. N
      BY <1>1 DEF SoloLogInv, LogInv, FileInv, LinesInv, LinesAreSeqs
    <2> HIDE DEF N
    <2>1. CASE Damaged(file) = {}
      <3>1. \A i \in 1 .. N : IsRecord(file[i])
        BY <2>0, <2>1 DEF Damaged
      <3>2. \A i \in 1 .. N : Intact(file, i)
        BY <2>0, <3>1 DEF Intact
      <3>3. \A i \in 1 .. N : LineVerifies(file, i)
        BY <1>1, <3>2, IntactVerifies DEF N
      <3> QED
        BY <2>0, <2>1, <3>3, OKMeans DEF FirstBreakIsDamage
    <2>2. CASE Damaged(file) # {}
      <3>1. Damaged(file) = {i \in 1 .. N : ~IsRecord(file[i])}
        BY <2>0 DEF Damaged
      <3>2. PICK m \in Damaged(file) : \A i \in Damaged(file) : m <= i
        <4>1. Damaged(file) \subseteq Nat
          BY <2>0, <3>1
        <4> QED
          BY <2>2, <4>1, LeastNumber
      <3>3. m \in 1 .. N /\ ~LineVerifies(file, m)
        BY <3>1 DEF LineVerifies
      <3>4. ASSUME NEW i \in 1 .. N, i < m PROVE LineVerifies(file, i)
        <4>1. Intact(file, i)
          BY <2>0, <3>1, <3>2, <3>3, <3>4 DEF Intact
        <4> QED
          BY <1>1, <4>1, IntactVerifies DEF N
      <3>5. /\ BrokenLine(file) \in 1 .. N /\ BrokenLine(file) <= m
            /\ ~LineVerifies(file, BrokenLine(file))
        BY <2>0, <3>3, BreaksAtFirst
      <3>6. BrokenLine(file) = m
        BY <2>0, <3>3, <3>4, <3>5
      <3> QED
        BY <2>2, <3>2, <3>6 DEF FirstBreakIsDamage
    <2> QED
      BY <2>1, <2>2
  <1>2. Spec => []SoloLogInv
    BY SoloInvariant
  <1> QED
    BY <1>1, <1>2, PTL

(* What docs/audit-shipping.md says of seq, and two agents that overlap    *)
(* break, holds where one agent at a time writes and no write fails: the   *)
(* numbers of a log's records rise, through any number of restarts.        *)
THEOREM SeqRisesForOneAgent ==
    ASSUME ~Overlap, Faults \subseteq {"none"}
    PROVE  Spec => []SeqNeverDrops
  <1> DEFINE Whole == ~open /\ Intact(file, Len(file))
  <1>1. Init => Whole
    <2> SUFFICES ASSUME Init PROVE Whole
      OBVIOUS
    <2>1. LogInv /\ Len(file) = LegacyLines /\ ~open
      BY LogInit, AuditAssumption DEF Init, LegacyFile
    <2>2. IsRecord(Legacy)
      BY DEF IsRecord, Legacy, Piece
    <2> QED
      BY <2>1, <2>2 DEF LogInv, FileInv, LinesInv, Intact
  <1>2. SoloLogInv /\ Whole /\ [Next]_vars => Whole'
    <2> SUFFICES ASSUME SoloLogInv, Whole, [Next]_vars PROVE Whole'
      OBVIOUS
    <2>1. CASE UNCHANGED <<file, open>>
      BY <2>1 DEF Intact
    <2>2. ASSUME NEW a \in Agents, Sign(a) PROVE Whole'
      <3>1. /\ Len(file') = Len(file) + 1 /\ Len(file) \in Nat
            /\ \A i \in 1 .. Len(file) : file'[i] = file[i]
            /\ file'[Len(file) + 1] = <<NextPiece(a, TRUE)>>
        BY <2>2, Appended DEF Sign, SoloLogInv, LogInv, FileInv, LinesInv
      <3>2. IsRecord(<<NextPiece(a, TRUE)>>)
        BY DEF IsRecord, NextPiece, Piece
      <3>3. \A i \in 1 .. Len(file') : IsRecord(file'[i])
        <4> SUFFICES ASSUME NEW i \in 1 .. Len(file') PROVE IsRecord(file'[i])
          OBVIOUS
        <4>1. CASE i \in 1 .. Len(file)
          BY <3>1, <4>1 DEF Intact
        <4>2. CASE i = Len(file) + 1
          BY <3>1, <3>2, <4>2, Zenon
        <4> QED
          BY <3>1, <4>1, <4>2
      <3>4. ~open'
        BY <2>2 DEF Sign
      <3> QED
        BY <3>3, <3>4 DEF Intact
    <2>3. ASSUME NEW a \in Agents, NEW fault \in Faults, SignFails(a, fault)
          PROVE  UNCHANGED <<file, open>>
      BY <2>3 DEF SignFails
    <2> QED
      BY <2>1, <2>2, <2>3 DEF Next, NewAuditLogger, Stop, vars
  <1>3. SoloLogInv /\ Whole => SeqNeverDrops
    <2> SUFFICES ASSUME SoloLogInv, Whole,
                        NEW i \in DOMAIN file, NEW j \in DOMAIN file, i < j,
                        Chained(file[i]), Chained(file[j])
                 PROVE  file[i][1].seq < file[j][1].seq
      BY DEF SeqNeverDrops
    <2>1. /\ Len(file) \in Nat /\ LegacyLines \in Nat /\ DOMAIN file = 1 .. Len(file)
          /\ \A k \in 1 .. LegacyLines : file[k] = Legacy
      BY AuditAssumption DEF SoloLogInv, LogInv, FileInv, LinesInv, LinesAreSeqs
    <2>2. ~Chained(Legacy)
      BY DEF Chained, Legacy, Piece
    <2>3. i \in LegacyLines + 1 .. Len(file) /\ j \in LegacyLines + 1 .. Len(file)
      BY <2>1, <2>2
    <2>4. Intact(file, i) /\ Intact(file, j)
      BY <2>1 DEF Intact
    <2>5. file[i][1].seq = i - LegacyLines /\ file[j][1].seq = j - LegacyLines
      BY <2>3, <2>4 DEF SoloLogInv, ChainInv
    <2> QED
      BY <2>1, <2>5
  <1>4. Spec => []SoloLogInv
    BY SoloInvariant
  <1> HIDE DEF Whole
  <1> QED
    BY <1>1, <1>2, <1>3, <1>4, PTL DEF Spec
=============================================================================
