-------------------------------- MODULE AuditLog --------------------------------
(***************************************************************************)
(* The audit log (audit.go): agent processes that append hash-chained      *)
(* records to one file, start and stop, fail to write or write only part   *)
(* of a record, and VerifyAuditChain, which reads the file back.           *)
(*                                                                         *)
(* A line is what stands between two newlines: normally one record, but a  *)
(* write that stopped early leaves a piece of one, and the next write goes *)
(* on in the same line.  So a line is a sequence of pieces, each a record  *)
(* or the torn beginning of one.  Left out: blank lines, records longer    *)
(* than the 64 KiB tail readLastLine reads, and what a record says beyond  *)
(* its chain fields (the number of the Sign call stands for it).           *)
(***************************************************************************)
EXTENDS Naturals, Sequences, FiniteSets

CONSTANTS
    Agents,         \* agent processes that write to this log
    Overlap,        \* whether two of them may run at the same time
    Faults,         \* how a write may fail: "none", "torn", "nonewline"
    LegacyLines,    \* lines a version before v0.9.0 left, without seq and prev
    MaxCalls        \* bound on the calls of AuditLogger.Sign

ASSUME AuditAssumption ==
    /\ Overlap \in BOOLEAN
    /\ Faults \subseteq {"none", "torn", "nonewline"}
    /\ LegacyLines \in Nat
    /\ MaxCalls \in Nat

VARIABLES
    file,           \* the lines of the log file
    open,           \* whether the last of them still lacks its newline
    up,             \* the agents that have the log open
    seq,            \* AuditLogger.seq of each agent
    prevHash,       \* AuditLogger.prevHash of each agent
    calls           \* calls of Sign so far

vars == <<file, open, up, seq, prevHash, calls>>

genesisPrev == <<"genesis">>
NoPrev      == <<"none">>       \* no "prev" field: a legacy record

(* SHA-256 of a line's bytes: no two lines share one.                      *)
hashLine(line) == <<"sha256", line>>

Piece(n, prev, body, whole) ==
    [seq |-> n, prev |-> prev, body |-> body, whole |-> whole]

(* A line that parses as one JSON object.                                  *)
IsRecord(line) == Len(line) = 1 /\ line[1].whole

LegacyFile ==
    [i \in 1 .. LegacyLines |-> <<Piece(0, NoPrev, 0, TRUE)>>]

(***************************************************************************)
(* Seeding                                                                 *)
(***************************************************************************)
(* Mutant: seq continues from the number of lines.                         *)
SeedSeq_CountsLines(f) == Len(f)

(* seedChain(): a last line that does not parse leaves rec.Seq at zero.    *)
SeedSeq(f) ==
    IF f # <<>> /\ IsRecord(f[Len(f)]) THEN f[Len(f)][1].seq ELSE 0

(* Mutant: every process starts a chain of its own.                        *)
SeedPrev_Genesis(f) == genesisPrev

SeedPrev(f) == IF f = <<>> THEN genesisPrev ELSE hashLine(f[Len(f)])

(***************************************************************************)
(* Actions                                                                 *)
(***************************************************************************)
Init ==
    /\ file = LegacyFile
    /\ open = FALSE
    /\ up = {}
    /\ seq = [a \in Agents |-> 0]
    /\ prevHash = [a \in Agents |-> genesisPrev]
    /\ calls = 0

(* An agent starts: NewAuditLogger seeds the chain from the file.          *)
NewAuditLogger(a) ==
    /\ a \notin up
    /\ Overlap \/ up = {}
    /\ up' = up \cup {a}
    /\ seq' = [seq EXCEPT ![a] = SeedSeq(file)]
    /\ prevHash' = [prevHash EXCEPT ![a] = SeedPrev(file)]
    /\ UNCHANGED <<file, open, calls>>

(* An agent closes its log and exits, or is killed.                        *)
Stop(a) ==
    /\ a \in up
    /\ up' = up \ {a}
    /\ seq' = [seq EXCEPT ![a] = 0]
    /\ prevHash' = [prevHash EXCEPT ![a] = genesisPrev]
    /\ UNCHANGED <<file, open, calls>>

(* The file after p has been written: O_APPEND, one Write, so never in the *)
(* middle of another record, but in the last line if that is unfinished.   *)
AppendPiece(p) ==
    IF open THEN [file EXCEPT ![Len(file)] = Append(@, p)]
            ELSE Append(file, <<p>>)

NextPiece(a, whole) == Piece(seq[a] + 1, prevHash[a], calls + 1, whole)

(* Mutant: seq advances before the write is known to have succeeded.       *)
SignFails_Advances(a, fault) ==
    /\ a \in up
    /\ calls < MaxCalls
    /\ calls' = calls + 1
    /\ fault = "none"
    /\ seq' = [seq EXCEPT ![a] = @ + 1]
    /\ UNCHANGED <<file, open, up, prevHash>>

(* Sign(), the write fails: seq and prevHash stay where they were, whatever*)
(* part of the line has reached the file (none, some, all but the newline).*)
SignFails(a, fault) ==
    /\ a \in up
    /\ calls < MaxCalls
    /\ calls' = calls + 1
    /\ \/ fault = "none" /\ UNCHANGED <<file, open>>
       \/ fault = "torn" /\ file' = AppendPiece(NextPiece(a, FALSE)) /\ open' = TRUE
       \/ fault = "nonewline" /\ file' = AppendPiece(NextPiece(a, TRUE)) /\ open' = TRUE
    /\ UNCHANGED <<up, seq, prevHash>>

(* Sign(), the write succeeds: the line and its newline are in the file,   *)
(* and the next record will carry the hash of the line as written.         *)
Sign(a) ==
    LET rec == NextPiece(a, TRUE) IN
    /\ a \in up
    /\ calls < MaxCalls
    /\ calls' = calls + 1
    /\ file' = AppendPiece(rec)
    /\ open' = FALSE
    /\ seq' = [seq EXCEPT ![a] = rec.seq]
    /\ prevHash' = [prevHash EXCEPT ![a] = hashLine(<<rec>>)]
    /\ UNCHANGED up

Next == \E a \in Agents : \/ NewAuditLogger(a) \/ Stop(a) \/ Sign(a)
                          \/ \E fault \in Faults : SignFails(a, fault)

Spec == Init /\ [][Next]_vars

(***************************************************************************)
(* VerifyAuditChain                                                        *)
(***************************************************************************)
Chained(line) == line[1].prev # NoPrev

ExpectedPrev(f, i) == IF i = 1 THEN genesisPrev ELSE hashLine(f[i - 1])

(* The seq of the last chained record before line i, 0 if there is none.   *)
ExpectedSeq(f, i) ==
    LET before == {j \in 1 .. i - 1 : Chained(f[j])}
    IN  IF before = {} THEN 0
        ELSE f[CHOOSE j \in before : \A k \in before : k <= j][1].seq

(* Mutant: a verifier that trusts the sequence numbers.                    *)
LineVerifies_SeqOnly(f, i) ==
    /\ IsRecord(f[i])
    /\ Chained(f[i]) /\ ExpectedSeq(f, i) # 0 =>
            f[i][1].seq = ExpectedSeq(f, i) + 1

(* What the verifier checks of line i once it has passed those before it.  *)
LineVerifies(f, i) ==
    /\ IsRecord(f[i])
    /\ Chained(f[i]) =>
        /\ f[i][1].prev = ExpectedPrev(f, i)
        /\ ExpectedSeq(f, i) # 0 => f[i][1].seq = ExpectedSeq(f, i) + 1

(* The verifier stops at the first line that fails; 0 if there is none.    *)
BrokenLine(f) ==
    LET bad == {i \in DOMAIN f : ~LineVerifies(f, i)}
    IN  IF bad = {} THEN 0 ELSE CHOOSE i \in bad : \A j \in bad : i <= j

OK(f) == BrokenLine(f) = 0

(***************************************************************************)
(* Properties                                                              *)
(***************************************************************************)
TypeOK ==
    /\ \A i \in DOMAIN file :
          /\ Len(file[i]) > 0
          /\ \A j \in DOMAIN file[i] : /\ file[i][j].seq \in 0 .. MaxCalls
                                       /\ file[i][j].body \in 0 .. MaxCalls
                                       /\ file[i][j].whole \in BOOLEAN
    /\ open \in BOOLEAN
    /\ open => file # <<>>
    /\ up \subseteq Agents
    /\ seq \in [Agents -> 0 .. MaxCalls]
    /\ DOMAIN prevHash = Agents
    /\ calls \in 0 .. MaxCalls

(* The lines that hold something else than exactly one record.             *)
Damaged(f) == {i \in DOMAIN f : ~IsRecord(f[i])}

(* With one agent at a time, the verifier never cries wolf: the first line *)
(* it complains of is the first line a failed write damaged, so everything *)
(* before that still verifies across any number of restarts, and a log     *)
(* without a damaged line is reported intact.                              *)
FirstBreakIsDamage ==
    IF Damaged(file) = {} THEN OK(file)
    ELSE /\ BrokenLine(file) \in Damaged(file)
         /\ \A i \in Damaged(file) : BrokenLine(file) <= i

(* An edit by someone else: one line forged, removed, copied elsewhere, or *)
(* exchanged with another.                                                 *)
Without(f, i) == [k \in 1 .. Len(f) - 1 |-> IF k < i THEN f[k] ELSE f[k + 1]]
With(f, i, l) == [k \in 1 .. Len(f) + 1 |->
                    IF k < i THEN f[k] ELSE IF k = i THEN l ELSE f[k - 1]]
Forged(l) == [l EXCEPT ![1].body = 0]

(* Legacy lines carry no chain fields and are not vouched for.             *)
Edits(f) ==
    LET own == LegacyLines + 1 .. Len(f) IN
    UNION {{[f EXCEPT ![i] = Forged(f[i])], Without(f, i)}
           \cup {With(f, i, f[j]) : j \in own}
           \cup {With(f, i, Forged(f[j])) : j \in own}
           \cup {[f EXCEPT ![i] = f[j], ![j] = f[i]] : j \in own} : i \in own}

(* Every edit of an intact log that leaves its last record in place is     *)
(* reported: the last record vouches for all those before it               *)
(* (docs/THREAT_MODEL.md:148).                                             *)
EditsAreDetected ==
    file # <<>> /\ OK(file) =>
        \A f \in Edits(file) :
            f # file /\ f # <<>> /\ f[Len(f)] = file[Len(file)] => ~OK(f)

(* "A drop in seq means the file was replaced" (docs/audit-shipping.md):   *)
(* the records of a log nobody replaced that carry a number carry rising   *)
(* ones.                                                                   *)
SeqNeverDrops ==
    \A i, j \in DOMAIN file :
        /\ i < j
        /\ IsRecord(file[i]) /\ Chained(file[i])
        /\ IsRecord(file[j]) /\ Chained(file[j])
        => file[i][1].seq < file[j][1].seq
=============================================================================
