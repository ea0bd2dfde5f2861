------------------------------ MODULE CallerPolicy ------------------------------
(***************************************************************************)
(* Who may ask for signatures (policy.go), as operators: rules and what    *)
(* they match, the parser of their written form, and the identity the      *)
(* kernel gives of the process behind a connection (peer_darwin.go,        *)
(* codesign_darwin.go).                                                    *)
(*                                                                         *)
(* A written rule is [kind, value]: what stands before and after the first *)
(* colon, kind "" if there is none and "#" for a blank line or a comment.  *)
(* A peer is a record of what is known of it, "" or FALSE where nothing    *)
(* is.  Its pid, uid and Signed are only logged.                           *)
(***************************************************************************)
EXTENDS Naturals, Sequences

CONSTANTS
    Paths,          \* absolute paths
    SameHash,       \* pairs of spellings of one hash (strings.EqualFold)
    Refused         \* the result of a parser that returns an error

rateLimitCeiling == 120

ASSUME PathAssumption == "" \notin Paths

Texts == [kind : STRING, value : STRING]
Peers == [path : STRING, team : STRING, signing : STRING, cdhash : STRING,
          platform : BOOLEAN, anchored : BOOLEAN, hardened : BOOLEAN]

Rule(kind, value) == [kind |-> kind, value |-> value]

defaultCallerRules ==
    {Rule("apple-platform-signing-id", id) :
        id \in {"com.apple.ssh", "com.apple.scp", "com.apple.sftp",
                "com.apple.ssh-keygen"}}

(***************************************************************************)
(* Identity                                                                *)
(***************************************************************************)
NoPeer == [path |-> "", team |-> "", signing |-> "", cdhash |-> "",
           platform |-> FALSE, anchored |-> FALSE, hardened |-> FALSE]

(* peerCodeIdentity: nothing if the audit token or the code object cannot  *)
(* be had; only the validated anchors if the signing information cannot.   *)
CodeIdentity(proc, got) ==
    CASE got = "all"     -> proc
      [] got = "anchors" -> [NoPeer EXCEPT !.platform = proc.platform,
                                           !.anchored = proc.anchored]
      [] got = "nothing" -> NoPeer

(* peerCreds: only where the token gave no path, the path is looked up by  *)
(* pid, which by then may be that of another process.                      *)
peerCreds(proc, got, pidPath) ==
    LET id == CodeIdentity(proc, got)
    IN  IF id.path = "" THEN [id EXCEPT !.path = pidPath] ELSE id

(***************************************************************************)
(* Matching                                                                *)
(***************************************************************************)
(* The rule's path with its symbolic links resolved as they are now, or as *)
(* it stands if that is impossible.                                        *)
EvalSymlinks(path, links) == IF path \in DOMAIN links THEN links[path] ELSE path

pathMatches(peerPath, allowed, links) ==
    /\ peerPath # "" /\ allowed # ""
    /\ peerPath = EvalSymlinks(allowed, links)

EqualFold(x, y) == x = y \/ <<x, y>> \in SameHash \/ <<y, x>> \in SameHash

Matches(r, peer, links) ==
    \/ /\ r.kind = "apple-platform-signing-id"
       /\ peer.platform /\ peer.signing = r.value
    \/ r.kind = "team-id" /\ peer.anchored /\ peer.team = r.value
    \/ r.kind = "signing-id" /\ peer.anchored /\ peer.signing = r.value
    \/ r.kind = "cdhash" /\ peer.cdhash # "" /\ EqualFold(peer.cdhash, r.value)
    \/ r.kind = "path" /\ pathMatches(peer.path, r.value, links)

matchesAnyRule(rules, peer, links) == \E r \in rules : Matches(r, peer, links)

(***************************************************************************)
(* Parsing                                                                 *)
(***************************************************************************)
(* The spellings of the kinds, case and surrounding blanks disregarded.    *)
(* The built-in kind has none.                                             *)
KindOf == [k \in {"team-id", "teamid", "TEAM-ID", "signing-id", "signingid",
                  "cdhash", "path"} |->
             CASE k \in {"team-id", "teamid", "TEAM-ID"} -> "team-id"
               [] k \in {"signing-id", "signingid"}      -> "signing-id"
               [] OTHER                                  -> k]

(* Mutant: an empty value is a value.                                      *)
Parsable_Empty(text) ==
    \/ text.kind = "" /\ text.value \in Paths
    \/ text.kind \in DOMAIN KindOf

(* A bare absolute path, or a known kind and a value.                      *)
Parsable(text) ==
    \/ text.kind = "" /\ text.value \in Paths
    \/ text.kind \in DOMAIN KindOf /\ text.value # ""

parseCallerRule(text) ==
    Rule(IF text.kind = "" THEN "path" ELSE KindOf[text.kind], text.value)

ParseAll(texts) ==
    IF \A t \in texts : Parsable(t) THEN {parseCallerRule(t) : t \in texts}
                                    ELSE Refused

Lines(seq) == {seq[i] : i \in DOMAIN seq}

(* One bad line and the whole file is refused.                             *)
loadAllowedCallers(file) == ParseAll({t \in Lines(file) : t.kind # "#"})

(* The parts between commas; empty ones are skipped.                       *)
EmptyPart == Rule("", "")

parseKeyCallers(spec) == ParseAll(Lines(spec) \ {EmptyPart})

(* Mutant: a kind nobody remembered to write.                              *)
String_Incomplete(r) ==
    IF r.kind \in {"team-id", "cdhash", "path", "apple-platform-signing-id"}
    THEN Rule(r.kind, r.value) ELSE Rule("", r.value)

(* CallerRule.String, what a keyfile holds: the kind's own spelling, if it *)
(* has one, a colon and the value.                                         *)
String(r) ==
    IF r.kind \in {"team-id", "signing-id", "cdhash", "path",
                   "apple-platform-signing-id"}
    THEN Rule(r.kind, r.value) ELSE Rule("", r.value)

(***************************************************************************)
(* The policy of an agent: [enforce, requireHardened, rules, rateLimit]    *)
(***************************************************************************)
(* Mutant: the ceiling is not applied.                                     *)
NewPeerPolicy_Unlimited(enforce, requireHardened, rateLimit, extraRules) ==
    [enforce         |-> enforce,
     requireHardened |-> requireHardened,
     rules           |-> defaultCallerRules \cup extraRules,
     rateLimit       |-> rateLimit]

NewPeerPolicy(enforce, requireHardened, rateLimit, extraRules) ==
    [enforce         |-> enforce,
     requireHardened |-> requireHardened,
     rules           |-> defaultCallerRules \cup extraRules,
     rateLimit       |-> IF rateLimit > rateLimitCeiling THEN rateLimitCeiling
                                                         ELSE rateLimit]

CheckCaller(policy, peer, links) ==
    policy.enforce =>
        /\ matchesAnyRule(policy.rules, peer, links)
        /\ policy.requireHardened => peer.hardened

(* The two caller checks of signFor; a key without rules is not bound.     *)
MaySign(policy, keyRules, peer, links) ==
    /\ CheckCaller(policy, peer, links)
    /\ keyRules # {} => matchesAnyRule(keyRules, peer, links)
=============================================================================
