---------------------------- MODULE AdmissionProofs ----------------------------
(***************************************************************************)
(* Who may sign is what was written, for any files, links, flags,          *)
(* preferences and processes.                                              *)
(***************************************************************************)
EXTENDS Admission, TLAPS

(***************************************************************************)
(* What a running agent and a keyfile hold.                                *)
(***************************************************************************)
RulesLines(name) == {t \in Written(name) : t.kind # "#"}

(* The agent started with a file all of whose lines parse, and has read it.*)
AgentInv ==
    Running =>
        /\ \E opens \in BOOLEAN : agent.sink = AuditSink(opens)
        /\ agent.sink # Refused
        /\ \A name \in Files : agent.read[name] \in Seq(Texts) \cup {Missing}
        /\ allowedCallers # "" => agent.read[allowedCallers] # Missing
        /\ \A t \in RulesLines(allowedCallers) : Parsable(t)
        /\ agent.policy = NewPeerPolicy(peerCheck, requireHardened, rateLimit,
                              {parseCallerRule(t) : t \in RulesLines(allowedCallers)})

(* A keyfile holds the rules its key was created with, and they parsed.    *)
KeyInv ==
    keyfile # NoKey =>
        /\ asked \in Seq(Texts)
        /\ \A t \in Lines(asked) \ {EmptyPart} : Parsable(t)
        /\ keyfile = {parseCallerRule(t) : t \in Lines(asked) \ {EmptyPart}}
        /\ keyfile # Refused

SettingInv == /\ flags \in Flags /\ prefs \in Prefs /\ links \in LinkTargets
              /\ files \in [user : {Missing} \cup Contents,
                            admin : {Missing} \cup AdminContents]

(***************************************************************************)
(* Flags and preferences.                                                  *)
(***************************************************************************)
LEMMA Settings ==
    ASSUME SettingInv
    PROVE  /\ peerCheck \in BOOLEAN /\ requireHardened \in BOOLEAN
           /\ allowedCallers \in Files \cup {""}
           /\ rateLimit \in Int
  BY SettingAssumption
  DEF SettingInv, peerCheck, requireHardened, allowedCallers, rateLimit, Override

LEMMA SettingStep == SettingInv /\ [Next]_vars => SettingInv'
  <1> SUFFICES ASSUME SettingInv, [Next]_vars PROVE SettingInv'
    OBVIOUS
  <1>1. ASSUME NEW content \in Contents \cup {Missing}, Edit(content)
        PROVE  SettingInv'
    BY <1>1 DEF Edit, SettingInv
  <1>2. CASE ~\E content \in Contents \cup {Missing} : Edit(content)
    <2>1. UNCHANGED <<files, flags, prefs>> /\ links' \in LinkTargets
      BY <1>2 DEF Next, vars, SettingInv, Relink, Start, Stop, Create, Delete
    <2> QED
      BY <2>1 DEF SettingInv
  <1> QED
    BY <1>1, <1>2

LEMMA SettingsStay ==
    ASSUME [Next]_vars
    PROVE  /\ UNCHANGED <<flags, prefs>>
           /\ UNCHANGED <<peerCheck, requireHardened, rateLimit,
                          allowedCallers, auditLogPath>>
  <1>1. UNCHANGED <<flags, prefs>>
    BY DEF Next, vars, Edit, Relink, Start, Stop, Create, Delete
  <1> QED
    BY <1>1
    DEF peerCheck, requireHardened, rateLimit, allowedCallers, auditLogPath

(***************************************************************************)
(* The invariants.                                                         *)
(***************************************************************************)
LEMMA AdmissionInit == Init => SettingInv /\ AgentInv /\ KeyInv
  BY DEF Init, SettingInv, AgentInv, KeyInv, Running

LEMMA ParseAllOK ==
    ASSUME NEW texts, ParseAll(texts) # Refused
    PROVE  /\ \A t \in texts : Parsable(t)
           /\ ParseAll(texts) = {parseCallerRule(t) : t \in texts}
  BY DEF ParseAll

LEMMA AgentStep == SettingInv /\ AgentInv /\ [Next]_vars => AgentInv'
  <1> SUFFICES ASSUME SettingInv, AgentInv, [Next]_vars PROVE AgentInv'
    OBVIOUS
  <1>1. CASE UNCHANGED agent
    BY <1>1, SettingsStay DEF AgentInv, Running, RulesLines, Written, AuditSink
  <1>2. CASE Stop
    BY <1>2 DEF Stop, AgentInv, Running
  <1>3. ASSUME NEW opens \in BOOLEAN, Start(opens) PROVE AgentInv'
    <2>1. /\ agent'.sink = AuditSink(opens) /\ AuditSink(opens) # Refused
          /\ agent'.read = files /\ ExtraRules # Refused
          /\ agent'.policy = NewPeerPolicy(peerCheck, requireHardened, rateLimit,
                                           ExtraRules)
      BY <1>3 DEF Start
    <2>2. AuditSink(opens)' = AuditSink(opens)
      BY SettingsStay DEF AuditSink
    <2>3. \A name \in Files : files[name] \in Seq(Texts) \cup {Missing}
      BY FileAssumption DEF SettingInv, Files
    <2>4. RulesLines(allowedCallers)' =
              IF allowedCallers = "" THEN {}
              ELSE {t \in Lines(files[allowedCallers]) : t.kind # "#"}
      BY <2>1, SettingsStay DEF RulesLines, Written
    <2>5. /\ allowedCallers # "" => files[allowedCallers] # Missing
          /\ \A t \in RulesLines(allowedCallers)' : Parsable(t)
          /\ ExtraRules = {parseCallerRule(t) : t \in RulesLines(allowedCallers)'}
      <3>1. CASE allowedCallers = ""
        BY <3>1, <2>4 DEF ExtraRules
      <3>2. CASE allowedCallers # ""
        <4>1. /\ files[allowedCallers] # Missing
              /\ ExtraRules = loadAllowedCallers(files[allowedCallers])
          BY <2>1, <3>2 DEF ExtraRules
        <4> QED
          BY <2>1, <2>4, <3>2, <4>1, ParseAllOK DEF loadAllowedCallers
      <3> QED
        BY <3>1, <3>2
    <2> QED
      BY <2>1, <2>2, <2>3, <2>5, SettingsStay DEF AgentInv
  <1> QED
    BY <1>1, <1>2, <1>3 DEF Next, vars, Edit, Relink, Create, Delete

LEMMA CanonicalRules ==
    ASSUME NEW t, Parsable(t)
    PROVE  /\ String(parseCallerRule(t)) = parseCallerRule(t)
           /\ Parsable(parseCallerRule(t))
           /\ parseCallerRule(parseCallerRule(t)) = parseCallerRule(t)
  BY PathAssumption DEF String, Parsable, parseCallerRule, KindOf, Rule

LEMMA KeyStep == KeyInv /\ [Next]_vars => KeyInv'
  <1> SUFFICES ASSUME KeyInv, [Next]_vars PROVE KeyInv'
    OBVIOUS
  <1>1. CASE UNCHANGED <<keyfile, asked>>
    BY <1>1 DEF KeyInv
  <1>2. CASE Delete
    BY <1>2 DEF Delete, KeyInv
  <1>3. ASSUME NEW spec \in Specs, Create(spec) PROVE KeyInv'
    <2> DEFINE texts == Lines(spec) \ {EmptyPart}
    <2>1. /\ asked' = spec /\ spec \in Seq(Texts)
          /\ keyfile' = {String(r) : r \in parseKeyCallers(spec)}
          /\ parseKeyCallers(spec) # Refused
      BY <1>3, FileAssumption DEF Create
    <2>2. /\ \A t \in texts : Parsable(t)
          /\ parseKeyCallers(spec) = {parseCallerRule(t) : t \in texts}
      BY <2>1, ParseAllOK DEF parseKeyCallers
    <2>3. keyfile' = parseKeyCallers(spec)
      BY <2>1, <2>2, CanonicalRules
    <2> QED
      BY <2>1, <2>2, <2>3 DEF KeyInv
  <1> QED
    BY <1>1, <1>2, <1>3 DEF Next, vars, Edit, Relink, Start, Stop

LEMMA AdmissionInvariant == Spec => [](SettingInv /\ AgentInv /\ KeyInv)
  BY AdmissionInit, SettingStep, AgentStep, KeyStep, PTL DEF Spec

(***************************************************************************)
(* What rules match is what is written.                                    *)
(***************************************************************************)
(* What is known of a connection's peer.                                   *)
LEMMA PeerFacts ==
    ASSUME NEW x \in Connections
    PROVE  /\ x[1] \in Peers /\ x[2] \in {"all", "anchors", "nothing"}
           /\ Peer(x).path = PathOf(x)
           /\ x[2] = "all" =>
                /\ Peer(x).team = x[1].team /\ Peer(x).signing = x[1].signing
                /\ Peer(x).cdhash = x[1].cdhash
                /\ Peer(x).platform = x[1].platform
                /\ Peer(x).anchored = x[1].anchored
                /\ Peer(x).hardened = x[1].hardened
           /\ x[2] # "all" =>
                /\ Peer(x).team = "" /\ Peer(x).signing = ""
                /\ Peer(x).cdhash = "" /\ Peer(x).hardened = FALSE
  <1>1. PICK q \in Processes, got \in {"all", "anchors", "nothing"},
             pidPath \in PidPaths : x = <<q, got, pidPath>>
    BY DEF Connections
  <1>2. q \in Peers
    BY FileAssumption
  <1> DEFINE id == CodeIdentity(q, got)
  <1>3. CASE got = "all"
    <2>1. id = q
      BY <1>3 DEF CodeIdentity
    <2>2. Peer(x) = IF q.path = "" THEN [q EXCEPT !.path = pidPath] ELSE q
      BY <1>1, <2>1 DEF Peer, peerCreds
    <2> QED
      BY <1>1, <1>2, <1>3, <2>2 DEF PathOf, Peers
  <1>4. CASE got # "all"
    <2>1. /\ id.path = "" /\ id.team = "" /\ id.signing = "" /\ id.cdhash = ""
          /\ id.hardened = FALSE
      BY <1>4 DEF CodeIdentity, NoPeer
    <2>2. id = [path |-> id.path, team |-> id.team, signing |-> id.signing,
                cdhash |-> id.cdhash, platform |-> id.platform,
                anchored |-> id.anchored, hardened |-> id.hardened]
      BY <1>4 DEF CodeIdentity, NoPeer
    <2>3. Peer(x) = [id EXCEPT !.path = pidPath]
      BY <1>1, <2>1 DEF Peer, peerCreds
    <2> HIDE DEF id
    <2> QED
      BY <1>1, <1>2, <1>4, <2>1, <2>2, <2>3 DEF PathOf
  <1> QED
    BY <1>3, <1>4

LEMMA RuleMatches ==
    ASSUME NEW t \in Texts, Parsable(t), t.value \notin DOMAIN Commented,
           NEW x \in Connections
    PROVE  Matches(parseCallerRule(t), Peer(x), links) <=> Authorizes(t, x)
  <1> DEFINE r == parseCallerRule(t)
             peer == Peer(x)
  <1>p. /\ x[1] \in Peers /\ x[2] \in {"all", "anchors", "nothing"}
        /\ peer.path = PathOf(x)
        /\ x[2] = "all" =>
             /\ peer.team = x[1].team /\ peer.signing = x[1].signing
             /\ peer.cdhash = x[1].cdhash
             /\ (peer.anchored <=> x[1].anchored)
        /\ x[2] # "all" => peer.team = "" /\ peer.signing = "" /\ peer.cdhash = ""
    BY PeerFacts
  <1>0. r.value = t.value /\ r.value # "" /\ Meant(t) = t.value
    BY PathAssumption DEF parseCallerRule, Rule, Parsable, Meant
  <1>1. CASE t.kind \in {"team-id", "teamid", "TEAM-ID"}
    <2>1. r.kind = "team-id"
      BY <1>1 DEF parseCallerRule, Rule, KindOf
    <2>2. Matches(r, peer, links) <=> peer.anchored /\ peer.team = t.value
      BY <1>0, <2>1 DEF Matches
    <2>3. Authorizes(t, x) <=> /\ x[2] = "all" /\ x[1].anchored
                               /\ x[1].team = t.value /\ x[1].team # ""
      BY <1>0, <1>1 DEF Authorizes
    <2> QED
      BY <1>0, <1>p, <2>2, <2>3
  <1>2. CASE t.kind \in {"signing-id", "signingid"}
    <2>1. r.kind = "signing-id"
      BY <1>2 DEF parseCallerRule, Rule, KindOf
    <2>2. Matches(r, peer, links) <=> peer.anchored /\ peer.signing = t.value
      BY <1>0, <2>1 DEF Matches
    <2>3. Authorizes(t, x) <=> /\ x[2] = "all" /\ x[1].anchored
                               /\ x[1].signing = t.value /\ x[1].signing # ""
      BY <1>0, <1>2 DEF Authorizes
    <2> QED
      BY <1>0, <1>p, <2>2, <2>3
  <1>3. CASE t.kind = "cdhash"
    <2>1. r.kind = "cdhash"
      BY <1>3 DEF parseCallerRule, Rule, KindOf
    <2>2. Matches(r, peer, links) <=>
              peer.cdhash # "" /\ EqualFold(peer.cdhash, t.value)
      BY <1>0, <2>1 DEF Matches
    <2>3. Authorizes(t, x) <=> /\ x[2] = "all" /\ x[1].cdhash # ""
                               /\ EqualFold(x[1].cdhash, t.value)
      BY <1>0, <1>3 DEF Authorizes
    <2> QED
      BY <1>p, <2>2, <2>3
  <1>4. CASE t.kind \in {"", "path"}
    <2>1. r.kind = "path"
      BY <1>4 DEF parseCallerRule, Rule, KindOf
    <2>2. Matches(r, peer, links) <=>
              peer.path # "" /\ peer.path = EvalSymlinks(t.value, links)
      BY <1>0, <2>1 DEF Matches, pathMatches
    <2>3. Authorizes(t, x) <=>
              PathOf(x) # "" /\ PathOf(x) = EvalSymlinks(t.value, links)
      BY <1>0, <1>4 DEF Authorizes
    <2> QED
      BY <1>p, <2>2, <2>3
  <1>5. t.kind \in {"team-id", "teamid", "TEAM-ID", "signing-id", "signingid",
                    "cdhash", "path", ""}
    BY DEF Parsable, KindOf
  <1> QED
    BY <1>1, <1>2, <1>3, <1>4, <1>5

(* A rule with a comment behind it matches nobody.                         *)
LEMMA CommentedMatchesNobody ==
    ASSUME SettingInv, NEW t \in Texts, Parsable(t), t.value \in DOMAIN Commented,
           NEW x \in Connections
    PROVE  ~Matches(parseCallerRule(t), Peer(x), links)
  <1> DEFINE r == parseCallerRule(t)
             peer == Peer(x)
  <1>1. r.value = t.value
    BY DEF parseCallerRule, Rule
  <1>2. r.kind # "apple-platform-signing-id"
    BY DEF parseCallerRule, Rule, Parsable, KindOf
  <1>3. /\ peer.path \notin DOMAIN Commented /\ peer.team \notin DOMAIN Commented
        /\ peer.signing \notin DOMAIN Commented /\ peer.cdhash \notin DOMAIN Commented
    <2>1. x[1] \in Processes /\ x[3] \in PidPaths
      BY DEF Connections
    <2> QED
      BY <2>1, PeerFacts, CommentAssumption DEF PathOf
  <1>4. ~EqualFold(peer.cdhash, t.value)
    BY <1>3, CommentAssumption DEF EqualFold
  <1>5. EvalSymlinks(t.value, links) = t.value
    <2>1. links \in LinkTargets
      BY DEF SettingInv
    <2> QED
      BY <2>1, CommentAssumption DEF EvalSymlinks
  <1> HIDE DEF r, peer
  <1>6. ~Matches(r, peer, links)
    BY <1>1, <1>2, <1>3, <1>4, <1>5 DEF Matches, pathMatches
  <1> QED
    BY <1>6 DEF r, peer

LEMMA BuiltInMatches ==
    ASSUME NEW x \in Connections
    PROVE  matchesAnyRule(defaultCallerRules, Peer(x), links) <=> BuiltIn(x)
  <1> DEFINE ids == {"com.apple.ssh", "com.apple.scp", "com.apple.sftp",
                     "com.apple.ssh-keygen"}
             peer == Peer(x)
  <1>1. ASSUME NEW id \in ids
        PROVE  Matches(Rule("apple-platform-signing-id", id), peer, links)
                 <=> peer.platform /\ peer.signing = id
    BY DEF Matches, Rule
  <1>2. defaultCallerRules = {Rule("apple-platform-signing-id", id) : id \in ids}
    BY DEF defaultCallerRules
  <1>3. matchesAnyRule(defaultCallerRules, peer, links)
          <=> \E id \in ids : peer.platform /\ peer.signing = id
    <2> HIDE DEF ids, peer
    <2> QED
      BY <1>1, <1>2 DEF matchesAnyRule
  <1>4. BuiltIn(x) <=> x[2] = "all" /\ x[1].platform /\ x[1].signing \in ids
    BY DEF BuiltIn
  <1>5. "" \notin ids
    OBVIOUS
  <1> HIDE DEF ids
  <1> QED
    BY <1>3, <1>4, <1>5, PeerFacts DEF Peers

LEMMA LinesAreTexts ==
    ASSUME NEW seq \in Seq(Texts), NEW t \in Lines(seq)
    PROVE  t \in Texts
  BY DEF Lines

LEMMA SomeRuleMatches ==
    ASSUME SettingInv,
           NEW texts \in SUBSET Texts, \A t \in texts : Parsable(t),
           NEW x \in Connections
    PROVE  matchesAnyRule({parseCallerRule(t) : t \in texts}, Peer(x), links)
             <=> \E t \in Heeded(texts) : Authorizes(t, x)
  BY RuleMatches, CommentedMatchesNobody DEF matchesAnyRule, Heeded

(* What the running agent's check comes to.                                *)
LEMMA Verdict ==
    ASSUME SettingInv, AgentInv, Running, NEW x \in Connections
    PROVE  CheckCaller(agent.policy, Peer(x), links) <=>
             (peerCheck =>
                /\ BuiltIn(x) \/ \E t \in Heeded(Written(allowedCallers)) : Authorizes(t, x)
                /\ requireHardened => x[2] = "all" /\ x[1].hardened)
  <1> DEFINE texts == RulesLines(allowedCallers)
             extra == {parseCallerRule(t) : t \in texts}
             peer == Peer(x)
  <1>1. /\ \A t \in texts : Parsable(t)
        /\ agent.policy.enforce = peerCheck
        /\ agent.policy.requireHardened = requireHardened
        /\ agent.policy.rules = defaultCallerRules \cup extra
    <2>1. /\ \A t \in texts : Parsable(t)
          /\ agent.policy =
                NewPeerPolicy(peerCheck, requireHardened, rateLimit, extra)
      BY DEF AgentInv
    <2> HIDE DEF texts, extra
    <2> QED
      BY <2>1 DEF NewPeerPolicy
  <1>2. Written(allowedCallers) \subseteq Texts
    <2>1. CASE allowedCallers = ""
      BY <2>1 DEF Written
    <2>2. CASE allowedCallers # ""
      <3>1. agent.read[allowedCallers] \in Seq(Texts)
        BY <2>2, Settings DEF AgentInv
      <3> QED
        BY <2>2, <3>1, LinesAreTexts DEF Written
    <2> QED
      BY <2>1, <2>2
  <1>3. texts \in SUBSET Texts
    BY <1>2 DEF RulesLines
  <1>4. \A t \in Written(allowedCallers) : Authorizes(t, x) => t \in texts
    BY DEF Authorizes, RulesLines
  <1>5. matchesAnyRule(extra, peer, links)
          <=> \E t \in Heeded(Written(allowedCallers)) : Authorizes(t, x)
    <2>1. matchesAnyRule(extra, peer, links)
            <=> \E t \in Heeded(texts) : Authorizes(t, x)
      BY <1>1, <1>3, SomeRuleMatches
    <2>2. texts \subseteq Written(allowedCallers)
      BY DEF RulesLines
    <2> HIDE DEF texts
    <2> QED
      BY <1>4, <2>1, <2>2 DEF Heeded
  <1>6. matchesAnyRule(agent.policy.rules, peer, links)
          <=> \/ matchesAnyRule(defaultCallerRules, peer, links)
              \/ matchesAnyRule(extra, peer, links)
    BY <1>1 DEF matchesAnyRule
  <1>7. peer.hardened <=> x[2] = "all" /\ x[1].hardened
    BY PeerFacts DEF Peers
  <1>8. CheckCaller(agent.policy, peer, links) <=>
           (peerCheck => /\ matchesAnyRule(agent.policy.rules, peer, links)
                         /\ requireHardened => peer.hardened)
    BY <1>1 DEF CheckCaller
  <1> HIDE DEF texts, extra
  <1> QED
    BY <1>5, <1>6, <1>7, <1>8, BuiltInMatches

(***************************************************************************)
(* Theorems                                                                *)
(***************************************************************************)
(* A running agent's policy is bounded (policy.go:128) and made of rules   *)
(* that can be written, with a value each (parseCallerRule).               *)
THEOREM AdmissionTypeCorrect == Spec => []TypeOK
  <1>1. ASSUME SettingInv, AgentInv PROVE TypeOK
    <2>1. ASSUME Running
          PROVE  /\ agent.policy.enforce \in BOOLEAN
                 /\ agent.policy.requireHardened \in BOOLEAN
                 /\ agent.policy.rateLimit <= rateLimitCeiling
                 /\ \A r \in agent.policy.rules \ defaultCallerRules :
                       /\ r.kind \in {"team-id", "signing-id", "cdhash", "path"}
                       /\ r.value # ""
                 /\ agent.sink # Refused
      <3>1. /\ agent.policy.enforce = peerCheck
            /\ agent.policy.requireHardened = requireHardened
            /\ agent.policy.rateLimit = IF rateLimit > rateLimitCeiling
                                        THEN rateLimitCeiling ELSE rateLimit
            /\ agent.policy.rules = defaultCallerRules \cup
                   {parseCallerRule(t) : t \in RulesLines(allowedCallers)}
            /\ \A t \in RulesLines(allowedCallers) : Parsable(t)
            /\ agent.sink # Refused
        <4> DEFINE extra == {parseCallerRule(t) : t \in RulesLines(allowedCallers)}
        <4>1. /\ agent.policy =
                    NewPeerPolicy(peerCheck, requireHardened, rateLimit, extra)
              /\ \A t \in RulesLines(allowedCallers) : Parsable(t)
              /\ agent.sink # Refused
          BY <1>1, <2>1 DEF AgentInv
        <4> QED
          <5> HIDE DEF extra
          <5>1. agent.policy.rules = defaultCallerRules \cup extra
            BY <4>1 DEF NewPeerPolicy
          <5> QED
            BY <4>1, <5>1 DEF NewPeerPolicy, extra
      <3>2. agent.policy.rateLimit <= rateLimitCeiling
        <4>1. PICK n \in Int : n = rateLimit
          BY <1>1, Settings
        <4>2. agent.policy.rateLimit = IF n > 120 THEN 120 ELSE n
          BY <3>1, <4>1 DEF rateLimitCeiling
        <4> QED
          BY <4>2 DEF rateLimitCeiling
      <3>3. ASSUME NEW t, Parsable(t)
            PROVE  /\ parseCallerRule(t).kind
                        \in {"team-id", "signing-id", "cdhash", "path"}
                   /\ parseCallerRule(t).value # ""
        BY <3>3, PathAssumption DEF Parsable, parseCallerRule, KindOf, Rule
      <3> QED
        BY <1>1, <3>1, <3>2, <3>3, Settings
    <2> QED
      BY <1>1, <2>1 DEF SettingInv, TypeOK
  <1> QED
    BY <1>1, AdmissionInvariant, PTL

(* The agent admits exactly the callers its rules file, as it was at start,*)
(* and the built-in rules authorize (policy.go CheckCaller).               *)
THEOREM FileFollowed == Spec => []VerdictFollowsFile
  <1>1. SettingInv /\ AgentInv => VerdictFollowsFile
    BY Verdict DEF VerdictFollowsFile
  <1> QED
    BY <1>1, AdmissionInvariant, PTL

(* No flag of the user's undoes a managed preference                       *)
(* (managed_darwin.go applyManagedOverrides).                              *)
THEOREM PinnedHold == Spec => []PinnedSettingsHold
  <1>1. ASSUME SettingInv, AgentInv, Running,
               prefs.peerCheck = TRUE, prefs.allowedCallers \in {"", "admin"},
               NEW x \in Connections, CheckCaller(agent.policy, Peer(x), links)
        PROVE  \/ BuiltIn(x)
               \/ \E t \in Written(prefs.allowedCallers) : Authorizes(t, x)
    <2>1. peerCheck = TRUE /\ allowedCallers = prefs.allowedCallers
      BY <1>1, SettingAssumption DEF peerCheck, allowedCallers, Override, Files
    <2> QED
      BY <1>1, <2>1, Verdict DEF Heeded
  <1>2. ASSUME SettingInv, AgentInv, Running,
               prefs.peerCheck = TRUE, prefs.requireHardened = TRUE,
               NEW x \in Connections, CheckCaller(agent.policy, Peer(x), links)
        PROVE  x[1].hardened
    <2>1. peerCheck = TRUE /\ requireHardened = TRUE
      BY <1>2, SettingAssumption DEF peerCheck, requireHardened, Override
    <2> QED
      BY <1>2, <2>1, Verdict
  <1>3. ASSUME AgentInv, Running,
               prefs.auditLogPath \notin {Absent, WrongType, "", "-"}
        PROVE  agent.sink = prefs.auditLogPath
    <2>1. auditLogPath = prefs.auditLogPath
      BY <1>3 DEF auditLogPath, Override
    <2>2. PICK opens \in BOOLEAN : agent.sink = AuditSink(opens)
      BY <1>3 DEF AgentInv
    <2>3. agent.sink # Refused
      BY <1>3 DEF AgentInv
    <2> QED
      BY <1>3, <2>1, <2>2, <2>3 DEF AuditSink
  <1>4. SettingInv /\ AgentInv => PinnedSettingsHold
    BY <1>1, <1>2, <1>3 DEF PinnedSettingsHold
  <1> QED
    BY <1>4, AdmissionInvariant, PTL

(* A key's caller rules survive being written to its keyfile and read back *)
(* (CallerRule.String, loadKeyfile), and bind it.                          *)
THEOREM BindingHolds == Spec => []KeyBindingHolds
  <1>1. ASSUME SettingInv, AgentInv, KeyInv, keyfile # NoKey
        PROVE  /\ CallerRules # Refused
               /\ Running =>
                    \A x \in Connections :
                       MaySign(agent.policy, CallerRules, Peer(x), links) <=>
                           /\ CheckCaller(agent.policy, Peer(x), links)
                           /\ \/ Lines(asked) \subseteq {EmptyPart}
                              \/ \E t \in Heeded(Lines(asked)) : Authorizes(t, x)
    <2> DEFINE texts == Lines(asked) \ {EmptyPart}
    <2>1. /\ asked \in Seq(Texts)
          /\ \A t \in texts : Parsable(t)
          /\ keyfile = {parseCallerRule(t) : t \in texts}
          /\ keyfile # Refused
      BY <1>1 DEF KeyInv
    <2>2. \A r \in keyfile : Parsable(r) /\ parseCallerRule(r) = r
      BY <2>1, CanonicalRules
    <2>3. CallerRules = keyfile
      BY <2>2 DEF CallerRules, ParseAll
    <2>4. texts \in SUBSET Texts
      BY <2>1, LinesAreTexts
    <2>5. ASSUME NEW x \in Connections
          PROVE  matchesAnyRule(keyfile, Peer(x), links)
                   <=> \E t \in Heeded(Lines(asked)) : Authorizes(t, x)
      <3>1. ~Authorizes(EmptyPart, x)
        <4>1. EvalSymlinks("", links) = ""
          BY <1>1, FileAssumption DEF SettingInv, EvalSymlinks
        <4>2. EmptyPart.kind = "" /\ EmptyPart.value = ""
          BY DEF EmptyPart, Rule
        <4>3. Meant(EmptyPart) = ""
          BY <4>2, CommentAssumption DEF Meant
        <4> QED
          BY <4>1, <4>2, <4>3 DEF Authorizes
      <3>2. matchesAnyRule(keyfile, Peer(x), links)
              <=> \E t \in Heeded(texts) : Authorizes(t, x)
        BY <1>1, <2>1, <2>4, SomeRuleMatches
      <3> QED
        BY <3>1, <3>2 DEF Heeded
    <2>6. keyfile = {} <=> Lines(asked) \subseteq {EmptyPart}
      BY <2>1
    <2> QED
      BY <2>1, <2>3, <2>5, <2>6 DEF MaySign
  <1> QED
    BY <1>1, AdmissionInvariant, PTL DEF KeyBindingHolds
=============================================================================
