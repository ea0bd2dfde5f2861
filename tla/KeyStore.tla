-------------------------------- MODULE KeyStore --------------------------------
(***************************************************************************)
(* The key directory (keystore_fs.go) and the commands that change or read *)
(* it (main.go): every command is a process of its own, they may overlap,  *)
(* and nothing but the file system stands between them.  One action per    *)
(* system call; a process can be killed before any of them.                *)
(*                                                                         *)
(* A `-create` generates at most one key, so a key, and the keyfile it was *)
(* written to, go by the name of the process that created them.            *)
(*                                                                         *)
(* Left out: invalid labels and caller rules, which are refused before     *)
(* anything is touched; files other than keyfiles; keyfiles damaged by     *)
(* hand; and the .pub file's own text, so that writing it is one step.     *)
(***************************************************************************)
EXTENDS FiniteSets

CONSTANTS
    Procs,      \* the commands that are ever run
    Labels,     \* key labels
    None

Commands == {"create", "delete", "deleteAll", "list"}

ASSUME ProcAssumption == None \notin Procs /\ None \notin Commands

VARIABLES
    op,         \* per process, its command: create, delete, deleteAll, list
    label,      \* per process, the label it was given
    pc,         \* per process, the system call it makes next, or how it ended
    files,      \* the keys directory: the keyfile that LABEL.json names
    whole,      \* the keyfiles that have been written completely
    pubs,       \* ~/.ssh: the key in each touchid-agent-LABEL.pub
    todo,       \* per process, the directory entries it still has to visit
    listed,     \* per process, the keys its List() has loaded
    failed,     \* per process, whether a Remove of its DeleteAll has failed
    seen,       \* history: keys that were on disk at some time of its listing
    steady,     \* history: keys that were on disk all through its listing
    mishap      \* history: commands overlapped, were killed or gave a warning

command == <<op, label>>
local   == <<todo, listed, failed>>
disk    == <<files, whole>>
history == <<seen, steady>>
vars    == <<command, pc, disk, pubs, local, history, mishap>>

Ended == {"ok", "nothing", "error", "killed"}

TypeOK ==
    /\ op \in [Procs -> Commands \cup {None}]
    /\ label \in [Procs -> Labels \cup {None}]
    /\ pc \in [Procs -> Ended \cup {"new", "stat", "open", "encode", "unlink",
                  "selftest", "writepub", "remove", "removepub", "readdir",
                  "load", "confirm", "readnames", "removeall", "removepubs"}]
    /\ files \in [Labels -> Procs \cup {None}]
    /\ whole \subseteq Procs
    /\ \A l \in Labels : files[l] # None => label[files[l]] = l
    /\ pubs \in [Labels -> whole \cup {None}]
    /\ todo \in [Procs -> SUBSET Labels]
    /\ listed \in [Procs -> SUBSET whole]
    /\ failed \in [Procs -> BOOLEAN]
    /\ seen \in [Procs -> SUBSET whole]
    /\ steady \in [Procs -> SUBSET whole]
    /\ mishap \in BOOLEAN

Init ==
    /\ op = [p \in Procs |-> None]
    /\ label = [p \in Procs |-> None]
    /\ pc = [p \in Procs |-> "new"]
    /\ files = [l \in Labels |-> None]
    /\ whole = {}
    /\ pubs = [l \in Labels |-> None]
    /\ todo = [p \in Procs |-> {}]
    /\ listed = [p \in Procs |-> {}]
    /\ failed = [p \in Procs |-> FALSE]
    /\ seen = [p \in Procs |-> {}]
    /\ steady = [p \in Procs |-> {}]
    /\ mishap = FALSE

Running(p) == pc[p] \notin Ended \cup {"new"}

(* The keys a listing taken in one instant would show.                     *)
OnDisk == {files[l] : l \in Labels} \cap whole

Go(p, from, to) == pc[p] = from /\ pc' = [pc EXCEPT ![p] = to]

(* Listings under way take note of a change of the directory.              *)
Watched ==
    /\ seen' = [p \in Procs |->
                  IF pc[p] = "load" THEN seen[p] \cup OnDisk' ELSE seen[p]]
    /\ steady' = [p \in Procs |->
                    IF pc[p] = "load" THEN steady[p] \cap OnDisk' ELSE steady[p]]

(* A command is run.                                                       *)
Run(p, o, l) ==
    /\ pc[p] = "new"
    /\ op' = [op EXCEPT ![p] = o]
    /\ label' = [label EXCEPT ![p] = l]
    /\ pc' = [pc EXCEPT ![p] = CASE o = "create" -> "stat"
                                 [] o = "delete" -> "remove"
                                 [] OTHER -> "readdir"]
    /\ mishap' = (mishap \/ \E q \in Procs : Running(q))
    /\ UNCHANGED <<disk, pubs, local, history>>

Start(p) == \/ \E o \in {"create", "delete"}, l \in Labels : Run(p, o, l)
            \/ \E o \in {"deleteAll", "list"} : Run(p, o, None)

(* Killed, or the terminal goes away.                                      *)
Kill(p) ==
    /\ Running(p)
    /\ pc' = [pc EXCEPT ![p] = "killed"]
    /\ mishap' = TRUE
    /\ UNCHANGED <<command, disk, pubs, local, history>>

(***************************************************************************)
(* -create: cmdCreate, Generate, writeKeyfile, selfTestKey                 *)
(***************************************************************************)
(* The check for a keyfile of that label, and the key's generation, which  *)
(* may fail.                                                               *)
Stat(p) ==
    /\ \/ Go(p, "stat", "open") /\ files[label[p]] = None
       \/ Go(p, "stat", "error")
    /\ UNCHANGED <<command, disk, pubs, local, history, mishap>>

(* Mutant: O_EXCL is forgotten.                                            *)
Open_Truncates(p) ==
    /\ Go(p, "open", "encode")
    /\ files' = [files EXCEPT ![label[p]] = p]
    /\ UNCHANGED <<command, whole, pubs, local, mishap>>
    /\ Watched

(* The keyfile is created, still empty, unless another one is there.       *)
Open(p) ==
    /\ \/ /\ Go(p, "open", "encode")
          /\ files[label[p]] = None
          /\ files' = [files EXCEPT ![label[p]] = p]
       \/ Go(p, "open", "error") /\ UNCHANGED files
    /\ UNCHANGED <<command, whole, pubs, local, mishap>>
    /\ Watched

(* The record is written, wherever the file is by now, or cannot be.       *)
Encode(p) ==
    /\ \/ Go(p, "encode", "selftest") /\ whole' = whole \cup {p}
       \/ Go(p, "encode", "unlink") /\ UNCHANGED whole
    /\ UNCHANGED <<command, files, pubs, local, mishap>>
    /\ Watched

(* os.Remove(path) after a failed write: by name, and its error ignored.   *)
Unlink(p) ==
    /\ Go(p, "unlink", "error")
    /\ files' = [files EXCEPT ![label[p]] = None] \/ UNCHANGED files
    /\ UNCHANGED <<command, whole, pubs, local, mishap>>
    /\ Watched

(* The new key signs, perhaps after a prompt.  If it does not the command  *)
(* fails and the key stays.                                                *)
SelfTest(p) ==
    /\ Go(p, "selftest", "writepub") \/ Go(p, "selftest", "error")
    /\ UNCHANGED <<command, disk, pubs, local, history, mishap>>

(* The .pub file is written, or a warning is; then a hook may fail.        *)
WritePub(p) ==
    /\ Go(p, "writepub", "ok") \/ Go(p, "writepub", "error")
    /\ \/ pubs' = [pubs EXCEPT ![label[p]] = p] /\ UNCHANGED mishap
       \/ mishap' = TRUE /\ UNCHANGED pubs
    /\ UNCHANGED <<command, disk, local, history>>

(***************************************************************************)
(* -delete: cmdDelete                                                      *)
(***************************************************************************)
(* A keyfile that is not there counts as removed.                          *)
Delete(p) ==
    /\ \/ /\ Go(p, "remove", "removepub")
          /\ files' = [files EXCEPT ![label[p]] = None]
       \/ /\ Go(p, "remove", "error")
          /\ files[label[p]] # None
          /\ UNCHANGED files
    /\ UNCHANGED <<command, whole, pubs, local, mishap>>
    /\ Watched

(* Mutant: the .pub file is left to the user.                              *)
RemovePub_Kept(p) ==
    /\ Go(p, "removepub", "ok")
    /\ UNCHANGED <<command, disk, pubs, local, history, mishap>>

(* removePubKeyFile: a failure is only a warning.                          *)
RemovePub(p) ==
    /\ Go(p, "removepub", "ok")
    /\ \/ pubs' = [pubs EXCEPT ![label[p]] = None] /\ UNCHANGED mishap
       \/ mishap' = TRUE /\ UNCHANGED pubs
    /\ UNCHANGED <<command, disk, local, history>>

(***************************************************************************)
(* -list, and the first half of -delete-all: List                          *)
(***************************************************************************)
(* The names of the keyfiles, read at once.                                *)
ReadDir(p) ==
    /\ \/ /\ Go(p, "readdir", "load")
          /\ todo' = [todo EXCEPT ![p] = {l \in Labels : files[l] # None}]
       \/ Go(p, "readdir", "error") /\ UNCHANGED todo
    /\ seen' = [seen EXCEPT ![p] = OnDisk]
    /\ steady' = [steady EXCEPT ![p] = OnDisk]
    /\ UNCHANGED <<command, disk, pubs, listed, failed, mishap>>

(* Mutants: an incomplete file counts as a key; a file that cannot be read *)
(* ends the listing.                                                       *)
Load_Incomplete(p, l) ==
    /\ pc[p] = "load" /\ l \in todo[p]
    /\ todo' = [todo EXCEPT ![p] = @ \ {l}]
    /\ listed' = [listed EXCEPT ![p] = @ \cup ({files[l]} \ {None})]
    /\ UNCHANGED <<command, pc, disk, pubs, failed, history, mishap>>

Load_GivesUp(p, l) ==
    /\ pc[p] = "load" /\ l \in todo[p]
    /\ IF files[l] \in whole
       THEN /\ todo' = [todo EXCEPT ![p] = @ \ {l}]
            /\ listed' = [listed EXCEPT ![p] = @ \cup {files[l]}]
       ELSE todo' = [todo EXCEPT ![p] = {}] /\ UNCHANGED listed
    /\ UNCHANGED <<command, pc, disk, pubs, failed, history, mishap>>

(* loadKeyfile: whatever LABEL.json is by now is read.  A file that is     *)
(* gone or incomplete is skipped.                                          *)
Load(p, l) ==
    /\ pc[p] = "load" /\ l \in todo[p]
    /\ todo' = [todo EXCEPT ![p] = @ \ {l}]
    /\ listed' = [listed EXCEPT ![p] = @ \cup ({files[l]} \cap whole)]
    /\ UNCHANGED <<command, pc, disk, pubs, failed, history, mishap>>

Loaded(p) ==
    /\ todo[p] = {}
    /\ \/ op[p] = "list" /\ Go(p, "load", "ok")
       \/ op[p] = "deleteAll" /\ listed[p] = {} /\ Go(p, "load", "nothing")
       \/ op[p] = "deleteAll" /\ listed[p] # {} /\ Go(p, "load", "confirm")
    /\ UNCHANGED <<command, disk, pubs, local, history, mishap>>

(***************************************************************************)
(* -delete-all: cmdDeleteAll, DeleteAll                                    *)
(***************************************************************************)
(* The answer to "Delete N key(s)?", after any time.                       *)
Confirm(p) ==
    /\ Go(p, "confirm", "readnames") \/ Go(p, "confirm", "nothing")
    /\ UNCHANGED <<command, disk, pubs, local, history, mishap>>

(* DeleteAll reads the directory again.                                    *)
ReadNames(p) ==
    /\ \/ /\ Go(p, "readnames", "removeall")
          /\ todo' = [todo EXCEPT ![p] = {l \in Labels : files[l] # None}]
       \/ Go(p, "readnames", "error") /\ UNCHANGED todo
    /\ UNCHANGED <<command, disk, pubs, listed, failed, history, mishap>>

(* Mutant: an error of Remove is forgotten.                                *)
RemoveName_Lenient(p, l) ==
    /\ pc[p] = "removeall" /\ l \in todo[p]
    /\ todo' = [todo EXCEPT ![p] = @ \ {l}]
    /\ files' = [files EXCEPT ![l] = None] \/ UNCHANGED files
    /\ UNCHANGED <<command, pc, whole, pubs, listed, failed, mishap>>
    /\ Watched

(* One Remove; an error is kept, and the others are removed all the same.  *)
(* Here a file that is gone already is an error.                           *)
RemoveName(p, l) ==
    /\ pc[p] = "removeall" /\ l \in todo[p]
    /\ todo' = [todo EXCEPT ![p] = @ \ {l}]
    /\ \/ /\ files[l] # None
          /\ files' = [files EXCEPT ![l] = None]
          /\ UNCHANGED failed
       \/ failed' = [failed EXCEPT ![p] = TRUE] /\ UNCHANGED files
    /\ UNCHANGED <<command, pc, whole, pubs, listed, mishap>>
    /\ Watched

(* The .pub files to remove are those of the listing, not of the second    *)
(* reading of the directory; after an error none is.                       *)
Removed(p) ==
    /\ todo[p] = {}
    /\ \/ failed[p] /\ Go(p, "removeall", "error") /\ UNCHANGED todo
       \/ /\ ~failed[p]
          /\ Go(p, "removeall", "removepubs")
          /\ todo' = [todo EXCEPT ![p] = {label[k] : k \in listed[p]}]
    /\ UNCHANGED <<command, disk, pubs, listed, failed, history, mishap>>

RemovePubs(p, l) ==
    /\ pc[p] = "removepubs" /\ l \in todo[p]
    /\ todo' = [todo EXCEPT ![p] = @ \ {l}]
    /\ \/ pubs' = [pubs EXCEPT ![l] = None] /\ UNCHANGED mishap
       \/ mishap' = TRUE /\ UNCHANGED pubs
    /\ UNCHANGED <<command, pc, disk, listed, failed, history>>

DeletedAll(p) ==
    /\ todo[p] = {}
    /\ Go(p, "removepubs", "ok")
    /\ UNCHANGED <<command, disk, pubs, local, history, mishap>>

Step(p) ==
    \/ Stat(p) \/ Open(p) \/ Encode(p) \/ Unlink(p) \/ SelfTest(p) \/ WritePub(p)
    \/ Delete(p) \/ RemovePub(p)
    \/ ReadDir(p) \/ Loaded(p)
    \/ Confirm(p) \/ ReadNames(p) \/ Removed(p) \/ DeletedAll(p)
    \/ \E l \in Labels : Load(p, l) \/ RemoveName(p, l) \/ RemovePubs(p, l)

(* Every command there is has been run and has ended.                      *)
Finished == (\A p \in Procs : pc[p] \in Ended) /\ UNCHANGED vars

Next == (\E p \in Procs : Start(p) \/ Step(p) \/ Kill(p)) \/ Finished

Spec == Init /\ [][Next]_vars

(***************************************************************************)
(* Properties                                                              *)
(***************************************************************************)
(* A listing taken while other commands run shows no key that was not on   *)
(* disk, complete, at some time since it began, and misses none that was   *)
(* there all the time.  So module Agent may look keys up in one step.      *)
ListingIsRegular ==
    \A p \in Procs :
        /\ listed[p] \subseteq seen[p]
        /\ pc[p] \in {"ok", "confirm"} => steady[p] \subseteq listed[p]

(* As long as nobody deletes, creates that race for a label, fail halfway  *)
(* or are killed never cost another create its key: one that has ended     *)
(* well is on disk, complete, under its label.                             *)
CreatesDoNotInterfere ==
    (\A p \in Procs : op[p] \notin {"delete", "deleteAll"}) =>
        \A p \in Procs : op[p] = "create" /\ pc[p] = "ok" =>
            files[label[p]] = p /\ p \in whole

(* "All keys deleted." is only said when none of the keys that were there  *)
(* while the listing was taken is left.                                    *)
DeleteAllIsComplete ==
    \A p \in Procs : op[p] = "deleteAll" /\ pc[p] = "ok" =>
        seen[p] \cap OnDisk = {}

(* When commands are run one after the other and none of them fails, warns *)
(* or is killed, ~/.ssh names exactly the keys of the agent.               *)
PubsFollowKeys ==
    /\ ~mishap
    /\ \A p \in Procs : pc[p] \in {"new", "ok", "nothing"}
    => pubs = files
=============================================================================
