-------------------------------- MODULE MCPlist --------------------------------
(***************************************************************************)
(* Constants of the TLC runs of Plist.                                     *)
(***************************************************************************)
EXTENDS Plist, TLC

CONSTANTS p1, p2

MCWords == {"", "agent", "default", "log", "sock", "file", "10", "-launchd", "-l",
            "-audit-log", "-rate-limit", "-allowed-callers", "-v", "-no-peer-check",
            "-require-hardened-callers", "-rate-limit=10", "--v"}

MCFlagOf == [w \in MCWords |->
               CASE w = "-rate-limit=10" -> "-rate-limit"
                 [] w = "--v" -> "-v"
                 [] w \in {"", "agent", "default", "log", "sock", "file", "10"} -> None
                 [] OTHER -> w]

MCInline == [w \in MCWords |-> IF w = "-rate-limit=10" THEN "10" ELSE None]

(* An old command line names its socket once and has up to two more flags, *)
(* behind it or around it, spelled as in plist_darwin.go or not.           *)
More == {<<>>, <<"-audit-log", "file">>, <<"-rate-limit", "10">>,
         <<"-allowed-callers", "file">>, <<"-v">>, <<"-no-peer-check">>,
         <<"-require-hardened-callers">>, <<"-rate-limit=10">>, <<"--v">>}

OldArgs == UNION {{<<"agent", "-l", "sock">> \o f \o g,
                   <<"agent">> \o f \o <<"-l", "sock">> \o g} : f, g \in More}

OldStyle == {[ours |-> TRUE, args |-> a, socket |-> None] : a \in OldArgs}

Others == {None,
           [ours |-> FALSE, args |-> <<"agent", "-l", "sock">>, socket |-> None],
           [ours |-> TRUE, args |-> <<"agent", "-v">>, socket |-> None],
           [ours |-> TRUE, args |-> <<"agent", "-launchd">>, socket |-> None],
           [ours |-> TRUE, args |-> <<"agent", "-launchd">>, socket |-> "sock"]}

MCOriginals == OldStyle \cup Others

(* Before a user wrote his plist anew, launchd had loaded this or nothing. *)
MCEarlier == {None, [ours |-> TRUE, args |-> <<"agent", "-l", "sock">>, socket |-> None]}

MCSymmetry == Permutations(Procs)
=============================================================================
