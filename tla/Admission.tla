-------------------------------- MODULE Admission --------------------------------
(***************************************************************************)
(* From what users and administrators write to who may sign: the rules     *)
(* files, the managed preferences and the flags an agent starts with       *)
(* (main.go cmdRun, managed_darwin.go), the rules a key is created with    *)
(* (main.go cmdCreate, keystore_fs.go) and the connections they are        *)
(* applied to, while files and symbolic links change under a running       *)
(* agent.                                                                  *)
(*                                                                         *)
(* Flags and preferences are read at start only, so they are fixed in a    *)
(* behaviour and range over all values in its initial state.               *)
(***************************************************************************)
EXTENDS CallerPolicy, Integers

CONSTANTS
    Contents,       \* what the user's rules file may hold: sequences of lines
    AdminContents,  \* what the administrator's may hold
    Specs,          \* arguments of -key-callers: sequences of written rules
    Processes,      \* processes that connect: what is true of each
    PidPaths,       \* what a look-up by pid may yield
    LinkTargets,    \* symbolic links as they may stand
    Commented,      \* the values that end in a comment: what precedes it
    Flags,          \* the flags of an agent
    Prefs,          \* managed preferences
    Absent,         \* a preference that is not set ...
    WrongType,      \* ... or not of the type it should have
    Missing,        \* a file that cannot be read
    Down,           \* no agent runs
    NoKey

Files == {"user", "admin"}

ASSUME FileAssumption ==
    /\ Contents \cup AdminContents \cup Specs \subseteq Seq(Texts)
    /\ Processes \subseteq Peers
    /\ \A target \in LinkTargets : "" \notin DOMAIN target

(* No team, identifier, hash or file has a name that ends in a comment.    *)
ASSUME CommentAssumption ==
    /\ \A q \in Processes :
          \A v \in {q.path, q.team, q.signing, q.cdhash} : v \notin DOMAIN Commented
    /\ \A v \in PidPaths : v \notin DOMAIN Commented
    /\ \A target \in LinkTargets : DOMAIN target \cap DOMAIN Commented = {}
    /\ \A pair \in SameHash : \A i \in {1, 2} : pair[i] \notin DOMAIN Commented
    /\ "" \notin DOMAIN Commented

ASSUME SettingAssumption ==
    /\ \A b \in BOOLEAN : b \notin {Absent, WrongType}
    /\ \A f \in Files \cup {""} : f \notin {Absent, WrongType}
    /\ \A f \in Flags : /\ f.peerCheck \in BOOLEAN /\ f.requireHardened \in BOOLEAN
                       /\ f.allowedCallers \in Files \cup {""}
                       /\ f.rateLimit \in Int
    /\ \A p \in Prefs : /\ p.peerCheck \in BOOLEAN \cup {Absent, WrongType}
                       /\ p.requireHardened \in BOOLEAN \cup {Absent, WrongType}
                       /\ p.allowedCallers \in Files \cup {"", Absent, WrongType}
                       /\ p.rateLimit \in Int \cup {Absent, WrongType}

VARIABLES
    files,          \* the rules files: the user's and the administrator's
    links,          \* where symbolic links lead
    flags, prefs,   \* the flags and the preferences
    agent,          \* the running agent: its policy, its audit sink and, as
                    \* history, the rules files when it started
    keyfile,        \* the caller_rules of the key's file
    asked           \* history: the -key-callers it was created with

vars == <<files, links, flags, prefs, agent, keyfile, asked>>

Init ==
    /\ files \in [user : {Missing}, admin : {Missing} \cup AdminContents]
    /\ links \in LinkTargets
    /\ flags \in Flags
    /\ prefs \in Prefs
    /\ agent = Down
    /\ keyfile = NoKey
    /\ asked = <<>>

(***************************************************************************)
(* The environment                                                         *)
(***************************************************************************)
Edit(content) ==
    /\ files' = [files EXCEPT !.user = content]
    /\ UNCHANGED <<links, flags, prefs, agent, keyfile, asked>>

Relink(target) ==
    /\ links' = target
    /\ UNCHANGED <<files, flags, prefs, agent, keyfile, asked>>

Stop ==
    /\ agent # Down
    /\ agent' = Down
    /\ UNCHANGED <<files, links, flags, prefs, keyfile, asked>>

(***************************************************************************)
(* applyManagedOverrides                                                   *)
(***************************************************************************)
Override(pref, flag) == IF pref \in {Absent, WrongType} THEN flag ELSE pref

auditLogPath    == Override(prefs.auditLogPath, flags.auditLogPath)
peerCheck       == Override(prefs.peerCheck, flags.peerCheck)
allowedCallers  == Override(prefs.allowedCallers, flags.allowedCallers)
requireHardened == Override(prefs.requireHardened, flags.requireHardened)
rateLimit       == Override(prefs.rateLimit, flags.rateLimit)

(***************************************************************************)
(* cmdRun                                                                  *)
(***************************************************************************)
(* Mutant: what is explicit is decided before the preferences are read.    *)
AuditSink_FlagOnly(opens) ==
    CASE auditLogPath = "-" -> "stderr"
      [] auditLogPath # "-" /\ opens -> auditLogPath
      [] auditLogPath # "-" /\ ~opens ->
            IF flags.auditLogPath = "" THEN "stderr" ELSE Refused

(* Where audit records go, by whether the log file can be opened: only an  *)
(* implicit path may fall back.  "" stands for the default path.           *)
AuditSink(opens) ==
    CASE auditLogPath = "-" -> "stderr"
      [] auditLogPath # "-" /\ opens -> auditLogPath
      [] auditLogPath # "-" /\ ~opens ->
            IF auditLogPath = "" THEN "stderr" ELSE Refused

ExtraRules ==
    CASE allowedCallers = "" -> {}
      [] allowedCallers # "" /\ files[allowedCallers] = Missing -> Refused
      [] OTHER -> loadAllowedCallers(files[allowedCallers])

(* The agent starts, if it can open its log and its rules.                 *)
Start(opens) ==
    /\ agent = Down
    /\ AuditSink(opens) # Refused
    /\ ExtraRules # Refused
    /\ agent' = [policy |-> NewPeerPolicy(peerCheck, requireHardened, rateLimit,
                                          ExtraRules),
                 sink   |-> AuditSink(opens),
                 read   |-> files]
    /\ UNCHANGED <<files, links, flags, prefs, keyfile, asked>>

(***************************************************************************)
(* cmdCreate and the keyfile                                               *)
(***************************************************************************)
Create(spec) ==
    /\ keyfile = NoKey
    /\ parseKeyCallers(spec) # Refused
    /\ keyfile' = {String(r) : r \in parseKeyCallers(spec)}
    /\ asked' = spec
    /\ UNCHANGED <<files, links, flags, prefs, agent>>

Delete ==
    /\ keyfile # NoKey
    /\ keyfile' = NoKey /\ asked' = <<>>
    /\ UNCHANGED <<files, links, flags, prefs, agent>>

(* loadKeyfile; a key whose rules do not parse is not listed.              *)
CallerRules == ParseAll(keyfile)

Next == \/ \E content \in Contents \cup {Missing} : Edit(content)
        \/ \E target \in LinkTargets : Relink(target)
        \/ \E opens \in BOOLEAN : Start(opens)
        \/ Stop
        \/ \E spec \in Specs : Create(spec)
        \/ Delete

Spec == Init /\ [][Next]_vars

(***************************************************************************)
(* Properties                                                              *)
(***************************************************************************)
Running == agent # Down

Connections == {<<q, got, pidPath>> :
    q \in Processes, got \in {"all", "anchors", "nothing"}, pidPath \in PidPaths}

Peer(x) == peerCreds(x[1], x[2], x[3])

(* The policy of a running agent is bounded, and so is what it matches:    *)
(* the built-in rules and rules that could be written.                     *)
TypeOK ==
    /\ files \in [user : {Missing} \cup Contents, admin : {Missing} \cup AdminContents]
    /\ links \in LinkTargets /\ flags \in Flags /\ prefs \in Prefs
    /\ Running =>
         /\ agent.policy.enforce \in BOOLEAN
         /\ agent.policy.requireHardened \in BOOLEAN
         /\ agent.policy.rateLimit <= rateLimitCeiling
         /\ \A r \in agent.policy.rules \ defaultCallerRules :
               r.kind \in {"team-id", "signing-id", "cdhash", "path"} /\ r.value # ""
         /\ agent.sink # Refused

(* What a written rule says of a connection, as documented (policy.go:230, *)
(* docs/caller-verification.md:22): a comment may follow it.  The path of  *)
(* a process is its own where the kernel vouches for it, and what the pid  *)
(* led to otherwise.                                                       *)
Meant(text) ==
    IF text.value \in DOMAIN Commented THEN Commented[text.value] ELSE text.value

PathOf(x) == IF x[2] = "all" /\ x[1].path # "" THEN x[1].path ELSE x[3]

Authorizes(text, x) ==
    LET q == x[1]
        known == x[2] = "all"
    IN  CASE text.kind \in {"team-id", "teamid", "TEAM-ID"} ->
               known /\ q.anchored /\ q.team = Meant(text) /\ q.team # ""
          [] text.kind \in {"signing-id", "signingid"} ->
               known /\ q.anchored /\ q.signing = Meant(text) /\ q.signing # ""
          [] text.kind = "cdhash" ->
               known /\ q.cdhash # "" /\ EqualFold(q.cdhash, Meant(text))
          [] text.kind \in {"", "path"} ->
               PathOf(x) # "" /\ PathOf(x) = EvalSymlinks(Meant(text), links)
          [] OTHER -> FALSE

(* Which rules it is true of: the parser takes a comment behind a rule for *)
(* a part of its value (policy.go:251), although the documentation shows   *)
(* such rules (docs/caller-verification.md:22-27).                         *)
Heeded(texts) == {t \in texts : t.value \notin DOMAIN Commented}

BuiltIn(x) ==
    /\ x[2] = "all" /\ x[1].platform
    /\ x[1].signing \in {"com.apple.ssh", "com.apple.scp", "com.apple.sftp",
                         "com.apple.ssh-keygen"}

Written(name) == IF name = "" THEN {} ELSE Lines(agent.read[name])

(* While an agent runs, a process may ask for a signature exactly if it is *)
(* one of Apple's SSH tools or a line of the rules file, as it was when    *)
(* the agent started, authorizes it - and it has the hardened runtime if   *)
(* that is required -, whatever the file and its other lines are by now.   *)
(* Against the documentation, a line with a comment behind its rule does   *)
(* not count: it loads and authorizes nobody.                              *)
VerdictFollowsFile ==
    Running =>
        \A x \in Connections :
            CheckCaller(agent.policy, Peer(x), links) <=>
                (peerCheck =>
                   /\ BuiltIn(x) \/ \E t \in Heeded(Written(allowedCallers)) : Authorizes(t, x)
                   /\ requireHardened => x[2] = "all" /\ x[1].hardened)

(* What the administrator pins holds whatever flags the user gives: with   *)
(* peer_check, allowed_callers and require_hardened_callers managed, every *)
(* admitted caller is authorized by the managed file or built in, and is   *)
(* hardened if that is pinned; a pinned log path is where records go.      *)
PinnedSettingsHold ==
    Running =>
        /\ prefs.peerCheck = TRUE /\ prefs.allowedCallers \in {"", "admin"} =>
             \A x \in Connections :
                CheckCaller(agent.policy, Peer(x), links) =>
                    \/ BuiltIn(x)
                    \/ \E t \in Written(prefs.allowedCallers) : Authorizes(t, x)
        /\ prefs.peerCheck = TRUE /\ prefs.requireHardened = TRUE =>
             \A x \in Connections :
                CheckCaller(agent.policy, Peer(x), links) => x[1].hardened
        /\ prefs.auditLogPath \notin {Absent, WrongType, "", "-"} =>
             agent.sink = prefs.auditLogPath

(* A key created with -key-callers can be loaded from its file and signs   *)
(* for those callers only, also when peer verification is off; a key       *)
(* created without signs for whoever the agent admits.  Here as well, what *)
(* follows a rule in its part is a part of its value.                      *)
KeyBindingHolds ==
    keyfile # NoKey =>
        /\ CallerRules # Refused
        /\ Running =>
             \A x \in Connections :
                MaySign(agent.policy, CallerRules, Peer(x), links) <=>
                    /\ CheckCaller(agent.policy, Peer(x), links)
                    /\ \/ Lines(asked) \subseteq {EmptyPart}
                       \/ \E t \in Heeded(Lines(asked)) : Authorizes(t, x)
=============================================================================
