---------------------------------- MODULE Plist ----------------------------------
(***************************************************************************)
(* The commands that put the agent under launchd (plist_darwin.go):        *)
(* -install-plist, -migrate-plist and -ensure-user-plist, as processes     *)
(* that read, back up, replace and reload one launchd plist, may overlap   *)
(* and may be killed between any two steps.                                *)
(*                                                                         *)
(* A plist is its command line, the path of its socket if it has one, and  *)
(* whether its label is the agent's.  Left out: the plist's XML, its log   *)
(* paths and -plist.  launchd is external: it may refuse to unload or to   *)
(* load, and may at first run something else than is on disk.              *)
(***************************************************************************)
EXTENDS Naturals, Sequences

CONSTANTS
    Procs,          \* the commands that are ever run
    Originals,      \* the plists there may be at first, or None
    Earlier,        \* what else launchd may have loaded at first, or None
    Words,          \* the words of a command line, the paths among them
    FlagOf,         \* the flag a word names: that of -f, --f or -f=v, or None
    Inline,         \* the value v of -f=v, or None
    MaxClock,       \* bound on the clock, in seconds
    None

Plists == [ours : BOOLEAN, args : Seq(Words), socket : Words \cup {None}]

ASSUME PlistAssumption ==
    /\ MaxClock \in Nat
    /\ Originals \subseteq Plists \cup {None}
    /\ FlagOf \in [Words -> Words \cup {None}]
    /\ Inline \in [Words -> Words \cup {None}]
    /\ {"", "agent", "default", "log", "-launchd", "-audit-log"} \subseteq Words
    /\ None \notin Plists /\ None \notin Words /\ None \notin Nat

VARIABLES
    original,       \* the plist at first
    running,        \* the plist launchd had loaded at first
    plist,          \* ~/Library/LaunchAgents/touchid-agent.plist
    backups,        \* the backup of each second
    loaded,         \* the plist launchd has loaded
    stuck,          \* history: launchd refused to unload what it had loaded
    clock,          \* time.Now(), in seconds
    op,             \* per process: its command and options
    pc,             \* per process: its next step, or how it ended
    parsed,         \* per process: the plist it has parsed
    copy,           \* per process: the plist's contents, read again
    stamp           \* per process: the second its backup is named after

first   == <<original, running>>
launchd == <<loaded, stuck>>
local   == <<parsed, copy, stamp>>
vars    == <<first, plist, backups, launchd, clock, op, pc, local>>

(***************************************************************************)
(* Plists                                                                  *)
(***************************************************************************)
(* flagTakesValue; as a mutant, without its last entry.                    *)
flagTakesValue_Short == {"-audit-log", "-rate-limit", "-l"}

flagTakesValue == {"-audit-log", "-rate-limit", "-allowed-callers", "-l"}

preservedAgentFlags == {"-audit-log", "-no-peer-check", "-peer-check",
                        "-rate-limit", "-allowed-callers", "-v"}

Has(args, flag) == \E i \in DOMAIN args : args[i] = flag

(* classify()                                                              *)
Mode(p) == CASE p = None -> "missing"
             [] p # None /\ Has(p.args, "-launchd") /\ p.socket # None -> "activated"
             [] p # None /\ ~(Has(p.args, "-launchd") /\ p.socket # None)
                    /\ Has(p.args, "-l") -> "old"
             [] OTHER -> "unknown"

(* extractRunFlags(): what is kept of args from the i-th on.               *)
extractRunFlags(args) ==
    LET From[i \in 2 .. Len(args) + 2] ==
          IF i > Len(args) THEN <<>>
          ELSE LET valued == args[i] \in flagTakesValue
                   kept   == args[i] \in preservedAgentFlags
               IN CASE kept /\ valued /\ i < Len(args) ->
                            <<args[i], args[i + 1]>> \o From[i + 2]
                    [] kept /\ valued /\ i = Len(args) -> <<>>
                    [] kept /\ ~valued -> <<args[i]>> \o From[i + 1]
                    [] ~kept /\ valued -> From[i + 2]
                    [] ~kept /\ ~valued -> From[i + 1]
    IN  From[2]

(* socketFromOldArgs(): what follows the first -l that something follows.  *)
socketFromOldArgs(args) ==
    LET at == {i \in DOMAIN args : args[i] = "-l" /\ i < Len(args)}
    IN  IF at = {} THEN "" ELSE args[1 + CHOOSE i \in at : \A j \in at : i <= j]

(* renderPlist()                                                           *)
Rendered(binary, socket, flags) ==
    [ours |-> TRUE, args |-> <<binary, "-launchd">> \o flags, socket |-> socket]

Migrated(p) ==
    LET old == socketFromOldArgs(p.args)
    IN  Rendered(p.args[1], IF old = "" THEN "default" ELSE old, extractRunFlags(p.args))

Installed(audit) ==
    Rendered("agent", "default", IF audit THEN <<"-audit-log", "log">> ELSE <<>>)

(***************************************************************************)
(* States                                                                  *)
(***************************************************************************)
Ended == {"ok", "error", "killed"}

Options == [cmd : {"install", "migrate"}, audit : BOOLEAN, dry : BOOLEAN,
            reload : BOOLEAN]

(* Commands as they can be given; the bootstrap is an install that looks   *)
(* first.                                                                  *)
Given == {o \in Options : /\ o.cmd = "install" => ~o.dry
                          /\ o.cmd = "migrate" => ~o.audit}

Bootstrap == [cmd |-> "install", audit |-> FALSE, dry |-> FALSE, reload |-> TRUE]

TypeOK ==
    /\ original \in Originals /\ running \in {original} \cup Earlier
    /\ stuck \in BOOLEAN
    /\ DOMAIN backups = 0 .. MaxClock
    /\ clock \in 0 .. MaxClock
    /\ op \in [Procs -> Options \cup {None}]
    /\ pc \in [Procs -> Ended \cup {"new", "peek", "read", "reread", "backup",
                                    "write", "unload", "load"}]
    /\ \A p \in Procs :
         pc[p] \in {"reread", "backup", "write"} =>
            IF op[p].cmd = "install" THEN parsed[p] = None
            ELSE parsed[p].ours /\ Mode(parsed[p]) = "old"
    /\ \A p \in Procs : pc[p] = "backup" => copy[p] # None
    /\ stamp \in [Procs -> 0 .. MaxClock \cup {None}]

(* What is loaded may be older than what is on disk, or nothing: after     *)
(* -no-reload, a command that was killed, or the user's own launchctl.     *)
Init ==
    /\ original \in Originals
    /\ plist = original
    /\ backups = [t \in 0 .. MaxClock |-> None]
    /\ running \in {original} \cup Earlier
    /\ loaded = running
    /\ stuck = FALSE
    /\ clock = 0
    /\ op = [p \in Procs |-> None]
    /\ pc = [p \in Procs |-> "new"]
    /\ parsed = [p \in Procs |-> None]
    /\ copy = [p \in Procs |-> None]
    /\ stamp = [p \in Procs |-> None]

Go(p, from, to) == pc[p] = from /\ pc' = [pc EXCEPT ![p] = to]

Running(p) == pc[p] \notin Ended \cup {"new"}

Tick ==
    /\ clock < MaxClock
    /\ clock' = clock + 1
    /\ UNCHANGED <<first, plist, backups, launchd, op, pc, local>>

Kill(p) ==
    /\ Running(p)
    /\ pc' = [pc EXCEPT ![p] = "killed"]
    /\ UNCHANGED <<first, plist, backups, launchd, clock, op, local>>

(* A command is run, by the user or, for the bootstrap, at login.          *)
Start(p) ==
    /\ \/ Go(p, "new", "peek") /\ op' = [op EXCEPT ![p] = Bootstrap]
       \/ /\ Go(p, "new", "read")
          /\ \E o \in Given : op' = [op EXCEPT ![p] = o]
    /\ UNCHANGED <<first, plist, backups, launchd, clock, local>>

(***************************************************************************)
(* Steps of a command                                                      *)
(***************************************************************************)
(* cmdEnsureUserPlist: only if there is no plist does it go on to install  *)
(* one, which reads the plist again.  It ends well if there is one, and if *)
(* the plist cannot be read.                                               *)
Peek(p) ==
    /\ \/ Mode(plist) = "missing" /\ Go(p, "peek", "read")
       \/ Go(p, "peek", "ok")
    /\ UNCHANGED <<first, plist, backups, launchd, clock, op, local>>

(* What install and migrate do about the plist they find.                  *)
Verdict(cmd, p) ==
    CASE p # None /\ ~p.ours -> "error"
      [] p = None \/ p.ours ->
            CASE Mode(p) = "activated" -> "ok"
              [] Mode(p) = "missing" -> IF cmd = "install" THEN "write" ELSE "error"
              [] Mode(p) = "old" -> IF cmd = "migrate" THEN "reread" ELSE "error"
              [] Mode(p) = "unknown" -> "error"

(* Mutant: a command line without -l or -launchd is migrated as well.      *)
Read_Unknown(p) ==
    /\ parsed' = [parsed EXCEPT ![p] = plist]
    /\ \/ Go(p, "read", Verdict(op[p].cmd, plist))
       \/ Go(p, "read", "reread") /\ op[p].cmd = "migrate" /\ plist # None
    /\ UNCHANGED <<first, plist, backups, launchd, clock, op, copy, stamp>>

(* The plist is parsed and classified, or cannot be read.                  *)
Read(p) ==
    /\ \/ /\ Go(p, "read", Verdict(op[p].cmd, plist))
          /\ parsed' = [parsed EXCEPT ![p] = plist]
       \/ Go(p, "read", "error") /\ UNCHANGED parsed
    /\ UNCHANGED <<first, plist, backups, launchd, clock, op, copy, stamp>>

(* Migration reads the file again, for the backup.  A dry run ends here.   *)
Reread(p) ==
    /\ \/ /\ Go(p, "reread", IF op[p].dry THEN "ok" ELSE "backup")
          /\ copy' = [copy EXCEPT ![p] = plist]
       \/ Go(p, "reread", "error") /\ UNCHANGED copy
    /\ UNCHANGED <<first, plist, backups, launchd, clock, op, parsed, stamp>>

(* Mutant: a backup that cannot be written is only worth a warning.        *)
Backup_Optional(p) ==
    /\ Go(p, "backup", "write")
    /\ stamp' = [stamp EXCEPT ![p] = clock]
    /\ \E b \in {copy[p], None} : backups' = [backups EXCEPT ![clock] = b]
    /\ UNCHANGED <<first, plist, launchd, clock, op, parsed, copy>>

(* os.WriteFile to a name that is unique to the second.  When it fails, or *)
(* is interrupted, the file is left empty.                                 *)
Backup(p) ==
    /\ stamp' = [stamp EXCEPT ![p] = clock]
    /\ \/ /\ Go(p, "backup", "write")
          /\ backups' = [backups EXCEPT ![clock] = copy[p]]
       \/ /\ Go(p, "backup", "error")
          /\ backups' = [backups EXCEPT ![clock] = None]
    /\ UNCHANGED <<first, plist, launchd, clock, op, parsed, copy>>

(* writePlistAtomically: the new plist, from what was parsed, replaces     *)
(* whatever is there in one rename, or not at all.                         *)
Write(p) ==
    /\ \/ /\ Go(p, "write", IF op[p].reload THEN "unload" ELSE "ok")
          /\ plist' = IF op[p].cmd = "install" THEN Installed(op[p].audit)
                                               ELSE Migrated(parsed[p])
       \/ Go(p, "write", "error") /\ UNCHANGED plist
    /\ UNCHANGED <<first, backups, launchd, clock, op, local>>

(* Mutant: the plist is only loaded, as a new one would be.                *)
Unload_Skipped(p) ==
    /\ Go(p, "unload", "load")
    /\ UNCHANGED <<first, plist, backups, launchd, clock, op, local>>

(* An error of unload is ignored.                                          *)
Unload(p) ==
    /\ Go(p, "unload", "load")
    /\ \/ loaded' = None /\ UNCHANGED stuck
       \/ UNCHANGED loaded /\ stuck' = (stuck \/ loaded # None)
    /\ UNCHANGED <<first, plist, backups, clock, op, local>>

(* launchd loads what is on disk, unless it has a plist loaded, and there  *)
(* is a socket, whoever made it; or not, or not in time: an error.         *)
Load(p) ==
    /\ \/ Go(p, "load", "ok") /\ loaded' = IF loaded = None THEN plist ELSE loaded
       \/ Go(p, "load", "error") /\ loaded' \in {plist, loaded}
    /\ UNCHANGED <<first, plist, backups, stuck, clock, op, local>>

Step(p) == \/ Peek(p) \/ Read(p) \/ Reread(p) \/ Backup(p) \/ Write(p)
           \/ Unload(p) \/ Load(p)

(* Every command there is has been run and has ended.                      *)
Finished == (\A p \in Procs : pc[p] \in Ended) /\ UNCHANGED vars

Next == Tick \/ (\E p \in Procs : Start(p) \/ Step(p) \/ Kill(p)) \/ Finished

Spec == Init /\ [][Next]_vars

(***************************************************************************)
(* The meaning of a command line: flag.Parse (main.go:112-136)             *)
(***************************************************************************)
ValueFlags == {"-audit-log", "-rate-limit", "-allowed-callers", "-l"}

TakesNext == {w \in Words : FlagOf[w] \in ValueFlags /\ Inline[w] = None}

(* The positions of a command line that are no values, when the words of   *)
(* taking take the next one for their value.                               *)
Reads(args, taking) ==
    LET At[i \in 0 .. Len(args)] ==
          i > 1 /\ (i = 2 \/ ~(At[i - 1] /\ args[i - 1] \in taking))
    IN  {i \in DOMAIN args : At[i]}

(* Those at which the parser finds a flag: it stops where there is none.   *)
FlagsAt(args) ==
    LET read == Reads(args, TakesNext)
    IN  {i \in read : \A j \in read : j <= i => FlagOf[args[j]] # None}

(* The last occurrence of a flag counts.                                   *)
Setting(args, flag) ==
    LET at   == {i \in FlagsAt(args) : FlagOf[args[i]] = flag}
        last == CHOOSE i \in at : \A j \in at : j <= i
    IN  CASE at = {} -> "unset"
          [] at # {} /\ Inline[args[last]] # None -> Inline[args[last]]
          [] at # {} /\ Inline[args[last]] = None /\ flag \notin ValueFlags -> "true"
          [] at # {} /\ Inline[args[last]] = None /\ flag \in ValueFlags ->
                IF last = Len(args) THEN "missing" ELSE args[last + 1]

(* A flag as the tables of plist_darwin.go spell it: -f, and not --f or    *)
(* -f=v.                                                                   *)
Plain == {w \in Words : FlagOf[w] = w /\ Inline[w] = None}

ASSUME SpellingAssumption ==
    Words \cap (preservedAgentFlags \cup {"-l", "-launchd"}) \subseteq Plain

(* A command line the agent can run with, in which every flag is spelled   *)
(* that way, and that names its socket just once.                          *)
OldCommandLine(args) ==
    /\ \A i \in Reads(args, TakesNext) : args[i] \in Plain
    /\ args[Len(args)] \notin ValueFlags
    /\ \E i \in FlagsAt(args) :
          /\ args[i] = "-l" /\ args[i + 1] # ""
          /\ \A j \in DOMAIN args : args[j] = "-l" => j = i

(***************************************************************************)
(* Properties                                                              *)
(***************************************************************************)
SameSecond == \E p, q \in Procs : p # q /\ stamp[p] = stamp[q] /\ stamp[p] # None

(* The plist the user had is on disk or in a backup, whatever failed and   *)
(* whatever was killed; two migrations that overlap can only lose it by    *)
(* naming their backups after the same second (plist_darwin.go:447-465).   *)
OriginalSurvives ==
    SameSecond \/ plist = original \/ \E t \in DOMAIN backups : backups[t] = original

(* Of a command line that spells its flags as plist_darwin.go does and     *)
(* names its socket once, migration keeps the socket's path and the        *)
(* meaning of each flag docs/launchd.md:66 lists, whatever their order.    *)
(* Beyond that it does not: the agent runs as well with -rate-limit=5 and  *)
(* --v, which extractRunFlags drops (plist_darwin.go:176), and of two -l   *)
(* the agent takes the last, migration the first.                          *)
ListedFlags == {"-audit-log", "-no-peer-check", "-rate-limit", "-allowed-callers", "-v"}

Rewritten ==
    Mode(original) = "old" /\ OldCommandLine(original.args) /\ plist # original

MigrationKeepsListed ==
    Rewritten =>
        /\ plist.socket = Setting(original.args, "-l")
        /\ \A f \in ListedFlags :
              Setting(plist.args, f) = Setting(original.args, f)

(* "preserving -audit-log and other agent flags" (main.go:85): the flags   *)
(* of the agent are those and -require-hardened-callers (main.go:100).     *)
MigrationKeepsAll ==
    Rewritten => \A f \in ListedFlags \cup {"-require-hardened-callers"} :
                     Setting(plist.args, f) = Setting(original.args, f)

(* A plist that is somebody else's, or that the commands cannot make sense *)
(* of, is never touched: not by a bootstrap, not by a race of commands.    *)
ForeignIsLeftAlone ==
    original # None /\ (~original.ours \/ Mode(original) = "unknown") =>
        plist = original /\ loaded = running

EndedWell(p) == pc[p] = "ok" /\ op[p].reload

(* However commands overlap, once one has written and each has ended well, *)
(* none told not to reload, launchd runs what is on disk: the last to      *)
(* write is also after its write an unloader and a loader                  *)
(* (plist_darwin.go:325-339).  Two things the code does not see to: that   *)
(* launchd did unload (its error is ignored, and the socket found may be   *)
(* the old one's), and, if nothing is written, that what is on disk is     *)
(* loaded at all ("nothing to do", plist_darwin.go:359).                   *)
LoadedIsWritten ==
    plist # original /\ ~stuck /\ (\A p \in Procs : pc[p] # "new" => EndedWell(p)) =>
        loaded = plist
=============================================================================
