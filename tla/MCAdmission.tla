------------------------------ MODULE MCAdmission ------------------------------
(***************************************************************************)
(* Constants of the TLC run of Admission.                                  *)
(***************************************************************************)
EXTENDS Admission, TLC

(* Written rules: every kind, other spellings, and what does not parse.    *)
Team  == Rule("team-id", "T1")
TEAM  == Rule("TEAM-ID", "T1")
Ident == Rule("signing-id", "com.apple.ssh")
Hash  == Rule("cdhash", "H1")
Link  == Rule("path", "/opt/link")
Bare  == Rule("", "/opt/brew")
Note  == Rule("#", "")
Empty == Rule("team-id", "")
Other == Rule("apple-platform-signing-id", "com.apple.ssh")
Word  == Rule("", "word")
Noted == Rule("team-id", "T1 # vendor")
Path  == Rule("", "/opt/brew # tool")

MCContents == {<<Team>>, <<Ident>>, <<Hash>>, <<Link>>, <<Empty>>, <<Word>>, <<>>,
               <<Note, TEAM>>, <<Hash, Bare>>, <<Team, Other>>, <<Other, Link>>,
               <<Noted>>, <<Path, Hash>>}
MCAdminContents == {<<Ident, Note>>}
MCSpecs == {<<>>, <<EmptyPart>>, <<Ident>>, <<Hash, EmptyPart, Team>>, <<Bare, Link>>,
            <<Team, Word>>, <<Empty>>, <<Noted, Ident>>}

(* Who connects: Apple's ssh; a vendor's tool, with and without the        *)
(* hardened runtime, which has ssh's identifier; a tool that signed itself *)
(* and claims the same; two that are only known by hash or by path.        *)
Signed(path, team, hash, platform, anchored, hardened) ==
    [path |-> path, team |-> team, signing |-> "com.apple.ssh", cdhash |-> hash,
     platform |-> platform, anchored |-> anchored, hardened |-> hardened]

MCProcesses ==
    {Signed("/usr/bin/ssh", "", "h0", TRUE, TRUE, TRUE),
     Signed("/opt/tool", "T1", "h2", FALSE, TRUE, TRUE),
     Signed("/opt/tool", "T1", "h2", FALSE, TRUE, FALSE),
     Signed("/opt/fake", "T1", "h3", FALSE, FALSE, TRUE),
     [NoPeer EXCEPT !.cdhash = "h1"],
     [NoPeer EXCEPT !.path = "/opt/brew"]}

MCPidPaths == {"", "/opt/brew"}
MCLinkTargets == {<<>>, "/opt/link" :> "/opt/brew"}
MCPaths == {"/opt/link", "/opt/brew", "/opt/brew # tool"}
MCCommented == "T1 # vendor" :> "T1" @@ "/opt/brew # tool" :> "/opt/brew"
MCSameHash == {<<"h1", "H1">>}

Given(log, check, callers, hardened, rate) ==
    [auditLogPath |-> log, peerCheck |-> check, allowedCallers |-> callers,
     requireHardened |-> hardened, rateLimit |-> rate]

MCFlags == {Given("", TRUE, "", FALSE, 0), Given("", TRUE, "user", FALSE, 0),
            Given("log", TRUE, "user", TRUE, 500), Given("-", FALSE, "user", FALSE, 9)}

MCPrefs == {Given(Absent, Absent, Absent, Absent, Absent),
            Given("managedLog", TRUE, "admin", TRUE, 121),
            Given("", TRUE, "", WrongType, 0),
            Given(WrongType, FALSE, Absent, Absent, WrongType),
            Given("-", WrongType, WrongType, FALSE, Absent)}
=============================================================================
