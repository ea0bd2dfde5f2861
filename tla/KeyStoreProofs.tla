----------------------------- MODULE KeyStoreProofs -----------------------------
(***************************************************************************)
(* The key directory, for any number of overlapping commands, any labels   *)
(* and kills and failures anywhere.                                        *)
(***************************************************************************)
EXTENDS KeyStore, TLAPS

(***************************************************************************)
(* Types, and which command is at which system call.                       *)
(***************************************************************************)
Creating == {"stat", "open", "encode", "unlink", "selftest", "writepub"}
Deleting == {"remove", "removepub"}
Listing  == {"readdir", "load"}
Clearing == {"confirm", "readnames", "removeall", "removepubs"}
PCs      == Ended \cup {"new"} \cup Creating \cup Deleting \cup Listing \cup Clearing

(* Keys come from commands that have been run, with a label, as creates.   *)
CommandInv ==
    /\ op \in [Procs -> Commands \cup {None}]
    /\ label \in [Procs -> Labels \cup {None}]
    /\ pc \in [Procs -> PCs]
    /\ \A p \in Procs :
          /\ pc[p] \in Creating => op[p] = "create"
          /\ pc[p] \in Deleting => op[p] = "delete"
          /\ pc[p] \in Listing => op[p] \in {"list", "deleteAll"}
          /\ pc[p] \in Clearing => op[p] = "deleteAll"
          /\ pc[p] = "new" => op[p] = None
          /\ op[p] \in {"create", "delete"} => label[p] \in Labels

DiskInv ==
    /\ files \in [Labels -> Procs \cup {None}]
    /\ whole \subseteq Procs
    /\ pubs \in [Labels -> whole \cup {None}]
    /\ \A p \in whole : op[p] = "create" /\ pc[p] \notin {"new", "stat", "open", "encode"}
    /\ \A l \in Labels : files[l] # None =>
          /\ op[files[l]] = "create" /\ label[files[l]] = l
          /\ pc[files[l]] \notin {"new", "stat", "open"}
    /\ \A l \in Labels : pubs[l] # None => label[pubs[l]] = l
    /\ \A p \in Procs : pc[p] \in {"selftest", "writepub"} => p \in whole

LocalInv ==
    /\ todo \in [Procs -> SUBSET Labels]
    /\ listed \in [Procs -> SUBSET whole]
    /\ failed \in [Procs -> BOOLEAN]
    /\ seen \in [Procs -> SUBSET whole]
    /\ steady \in [Procs -> SUBSET whole]
    /\ mishap \in BOOLEAN

StoreInv == CommandInv /\ DiskInv /\ LocalInv

LEMMA StoreInit == Init => StoreInv
  <1> SUFFICES ASSUME Init PROVE StoreInv
    OBVIOUS
  <1>1. CommandInv
    BY ProcAssumption DEF Init, CommandInv, Commands, PCs, Creating, Deleting, Listing, Clearing,
           Ended
  <1>2. DiskInv
    BY DEF Init, DiskInv
  <1>3. LocalInv
    BY DEF Init, LocalInv
  <1> QED
    BY <1>1, <1>2, <1>3 DEF StoreInv

LEMMA CommandStep == CommandInv /\ [Next]_vars => CommandInv'
  <1> USE ProcAssumption
      DEF Commands, PCs, Creating, Deleting, Listing, Clearing, Ended
  <1> SUFFICES ASSUME CommandInv, [Next]_vars PROVE CommandInv'
    OBVIOUS
  <1>1. ASSUME NEW p \in Procs, Start(p) PROVE CommandInv'
    BY <1>1 DEF Start, Run, CommandInv
  <1>2. ASSUME NEW p \in Procs, Kill(p) PROVE CommandInv'
    BY <1>2 DEF Kill, Running, CommandInv, command
  <1>3. ASSUME NEW p \in Procs, Stat(p) \/ Open(p) \/ Encode(p) \/ Unlink(p)
                                \/ SelfTest(p) \/ WritePub(p)
        PROVE  CommandInv'
    BY <1>3 DEF Stat, Open, Encode, Unlink, SelfTest, WritePub, Go, CommandInv,
                command
  <1>4. ASSUME NEW p \in Procs, Delete(p) \/ RemovePub(p) \/ ReadDir(p) \/ Loaded(p)
        PROVE  CommandInv'
    BY <1>4 DEF Delete, RemovePub, ReadDir, Loaded, Go, CommandInv, command
  <1>5. ASSUME NEW p \in Procs,
               Confirm(p) \/ ReadNames(p) \/ Removed(p) \/ DeletedAll(p)
        PROVE  CommandInv'
    BY <1>5 DEF Confirm, ReadNames, Removed, DeletedAll, Go, CommandInv, command
  <1>6. ASSUME NEW p \in Procs, NEW l \in Labels,
               Load(p, l) \/ RemoveName(p, l) \/ RemovePubs(p, l)
        PROVE  CommandInv'
    BY <1>6 DEF Load, RemoveName, RemovePubs, CommandInv, command
  <1>7. CASE UNCHANGED vars
    BY <1>7 DEF vars, CommandInv, command
  <1> QED
    BY <1>1, <1>2, <1>3, <1>4, <1>5, <1>6, <1>7 DEF Next, Step, Finished

(* What each step does to the directory and the .pub files.                *)
LEMMA DiskStep == StoreInv /\ [Next]_vars => DiskInv'
  <1> USE ProcAssumption
      DEF Commands, PCs, Creating, Deleting, Listing, Clearing, Ended
  <1> SUFFICES ASSUME CommandInv, DiskInv, LocalInv, [Next]_vars PROVE DiskInv'
    BY DEF StoreInv
  <1>1. ASSUME NEW p \in Procs, Start(p) PROVE DiskInv'
    <2>1. PICK o \in Commands, l \in Labels \cup {None} : Run(p, o, l)
      BY <1>1 DEF Start
    <2>2. op[p] = None /\ p \notin whole /\ \A m \in Labels : files[m] # p
      BY <2>1 DEF Run, CommandInv, DiskInv
    <2>3. /\ UNCHANGED <<files, whole, pubs>>
          /\ \A q \in Procs \ {p} : UNCHANGED <<op[q], label[q], pc[q]>>
          /\ pc'[p] \in {"stat", "remove", "readdir"}
      BY <2>1 DEF Run, disk, CommandInv
    <2>4. \A m \in Labels : pubs[m] # p
      BY <2>2 DEF DiskInv
    <2> QED
      BY <2>2, <2>3, <2>4 DEF DiskInv
  <1>2. ASSUME NEW p \in Procs, Kill(p) PROVE DiskInv'
    BY <1>2 DEF Kill, Running, CommandInv, DiskInv, command, disk
  <1>3. ASSUME NEW p \in Procs, Stat(p) \/ SelfTest(p) PROVE DiskInv'
    BY <1>3 DEF Stat, SelfTest, Go, CommandInv, DiskInv, command, disk
  <1>4. ASSUME NEW p \in Procs, Open(p) PROVE DiskInv'
    BY <1>4 DEF Open, Go, CommandInv, DiskInv, command
  <1>5. ASSUME NEW p \in Procs, Encode(p) PROVE DiskInv'
    BY <1>5 DEF Encode, Go, CommandInv, DiskInv, command
  <1>6. ASSUME NEW p \in Procs, Unlink(p) \/ Delete(p) PROVE DiskInv'
    BY <1>6 DEF Unlink, Delete, Go, CommandInv, DiskInv, command
  <1>7. ASSUME NEW p \in Procs, WritePub(p) PROVE DiskInv'
    BY <1>7 DEF WritePub, Go, CommandInv, DiskInv, command, disk
  <1>8. ASSUME NEW p \in Procs, RemovePub(p) PROVE DiskInv'
    BY <1>8 DEF RemovePub, Go, CommandInv, DiskInv, command, disk
  <1>9. ASSUME NEW p \in Procs, ReadDir(p) \/ Loaded(p) \/ Confirm(p)
                    \/ ReadNames(p) \/ Removed(p) \/ DeletedAll(p)
        PROVE  DiskInv'
    BY <1>9 DEF ReadDir, Loaded, Confirm, ReadNames, Removed, DeletedAll, Go,
                CommandInv, DiskInv, command, disk
  <1>10. ASSUME NEW p \in Procs, NEW l \in Labels,
                Load(p, l) \/ RemoveName(p, l) \/ RemovePubs(p, l)
         PROVE  DiskInv'
    BY <1>10 DEF Load, RemoveName, RemovePubs, DiskInv, command, disk
  <1>11. CASE UNCHANGED vars
    BY <1>11 DEF vars, DiskInv, command, disk
  <1> QED
    BY <1>1, <1>2, <1>3, <1>4, <1>5, <1>6, <1>7, <1>8, <1>9, <1>10, <1>11
    DEF Next, Step, Finished

(* Listings under way see the directory change.                            *)
LEMMA Watching ==
    ASSUME LocalInv, Watched, whole \subseteq whole'
    PROVE  /\ seen' \in [Procs -> SUBSET whole']
           /\ steady' \in [Procs -> SUBSET whole']
           /\ listed \in [Procs -> SUBSET whole']
  BY DEF LocalInv, Watched, OnDisk

LEMMA LocalStep == StoreInv /\ [Next]_vars => LocalInv'
  <1> SUFFICES ASSUME CommandInv, DiskInv, LocalInv, [Next]_vars PROVE LocalInv'
    BY DEF StoreInv
  <1>1. ASSUME NEW p \in Procs, Start(p) \/ Kill(p) PROVE LocalInv'
    BY <1>1 DEF Start, Run, Kill, LocalInv, disk, local, history
  <1>2. ASSUME NEW p \in Procs, Stat(p) \/ SelfTest(p) \/ WritePub(p) \/ RemovePub(p)
        PROVE  LocalInv'
    BY <1>2 DEF Stat, SelfTest, WritePub, RemovePub, LocalInv, disk, local, history
  <1>3. ASSUME NEW p \in Procs, Open(p) \/ Encode(p) \/ Unlink(p) \/ Delete(p)
        PROVE  LocalInv'
    <2>1. whole \subseteq whole' /\ Watched /\ UNCHANGED <<local, mishap>>
      BY <1>3 DEF Open, Encode, Unlink, Delete
    <2> QED
      BY <2>1, Watching DEF LocalInv, local
  <1>4. ASSUME NEW p \in Procs, ReadDir(p) PROVE LocalInv'
    <2>1. OnDisk \subseteq whole
      BY DEF OnDisk
    <2> QED
      BY <1>4, <2>1 DEF ReadDir, LocalInv, disk
  <1>5. ASSUME NEW p \in Procs,
               Loaded(p) \/ Confirm(p) \/ ReadNames(p) \/ DeletedAll(p)
        PROVE  LocalInv'
    BY <1>5 DEF Loaded, Confirm, ReadNames, DeletedAll, LocalInv, disk, local, history
  <1>6. ASSUME NEW p \in Procs, Removed(p) PROVE LocalInv'
    <2>1. {label[k] : k \in listed[p]} \subseteq Labels
      BY DEF LocalInv, DiskInv, CommandInv
    <2> QED
      BY <1>6, <2>1 DEF Removed, LocalInv, disk, history
  <1>7. ASSUME NEW p \in Procs, NEW l \in Labels, Load(p, l) PROVE LocalInv'
    BY <1>7 DEF Load, LocalInv, disk, history
  <1>8. ASSUME NEW p \in Procs, NEW l \in Labels, RemoveName(p, l) PROVE LocalInv'
    <2>1. /\ whole \subseteq whole' /\ Watched /\ UNCHANGED <<listed, mishap>>
          /\ todo' = [todo EXCEPT ![p] = @ \ {l}]
          /\ failed' = [failed EXCEPT ![p] = TRUE] \/ UNCHANGED failed
      BY <1>8 DEF RemoveName
    <2> QED
      BY <2>1, Watching DEF LocalInv
  <1>9. ASSUME NEW p \in Procs, NEW l \in Labels, RemovePubs(p, l) PROVE LocalInv'
    BY <1>9 DEF RemovePubs, LocalInv, disk, history
  <1>10. CASE UNCHANGED vars
    BY <1>10 DEF vars, LocalInv, disk, local, history
  <1> QED
    BY <1>1, <1>2, <1>3, <1>4, <1>5, <1>6, <1>7, <1>8, <1>9, <1>10
    DEF Next, Step, Finished

LEMMA StoreInvariant == Spec => []StoreInv
  <1>1. StoreInv /\ [Next]_vars => StoreInv'
    BY CommandStep, DiskStep, LocalStep DEF StoreInv
  <1> QED
    BY <1>1, StoreInit, PTL DEF Spec

(* Every key on disk is filed under the label its -create was given, and   *)
(* .pub files and listings only ever name keys that were complete          *)
(* (keystore_fs.go writeKeyfile, List).                                    *)
THEOREM StoreTypeCorrect == Spec => []TypeOK
  <1>1. StoreInv => TypeOK
    BY DEF StoreInv, CommandInv, DiskInv, LocalInv, TypeOK, PCs, Creating, Deleting,
           Listing, Clearing
  <1> QED
    BY <1>1, StoreInvariant, PTL

(***************************************************************************)
(* Listings.                                                               *)
(***************************************************************************)
ListingInv ==
    \A p \in Procs :
        /\ listed[p] \subseteq seen[p]
        /\ pc[p] \in {"new", "readdir"} => listed[p] = {} /\ steady[p] = {}
        /\ pc[p] = "load" =>
              /\ OnDisk \subseteq seen[p]
              /\ steady[p] \subseteq OnDisk
              /\ \A k \in steady[p] : k \in listed[p] \/ label[k] \in todo[p]
        /\ pc[p] \notin {"load", "killed", "error"} => steady[p] \subseteq listed[p]

LEMMA KeysOnDisk ==
    ASSUME DiskInv, NEW k \in OnDisk
    PROVE  k \in whole /\ label[k] \in Labels /\ files[label[k]] = k
  <1>1. PICK l \in Labels : files[l] = k /\ k \in whole
    BY DEF OnDisk
  <1> QED
    BY <1>1, ProcAssumption DEF DiskInv

(* A command that is not listing takes a step.                             *)
LEMMA ListingsWatch ==
    ASSUME StoreInv, ListingInv, NEW p \in Procs, UNCHANGED <<label, listed>>,
           pc[p] # "load", pc'[p] \notin {"new", "readdir", "load"},
           pc[p] \in {"killed", "error"} => pc'[p] \in {"killed", "error"},
           \A q \in Procs \ {p} : UNCHANGED <<pc[q], todo[q]>>,
           Watched \/ UNCHANGED <<disk, history>>
    PROVE  ListingInv'
  <1>1. ASSUME NEW q \in Procs, pc[q] # "load"
        PROVE  seen'[q] = seen[q] /\ steady'[q] = steady[q]
    BY <1>1 DEF Watched, history, StoreInv, LocalInv
  <1>2. ASSUME NEW q \in Procs, pc[q] = "load", ListingInv
        PROVE  /\ seen[q] \cup OnDisk' \subseteq seen'[q] 
               /\ steady'[q] \subseteq steady[q] \cap OnDisk'
    BY <1>2 DEF Watched, history, StoreInv, LocalInv, ListingInv, disk, OnDisk
  <1> QED
    BY <1>1, <1>2 DEF ListingInv

LEMMA ListingStep == StoreInv /\ ListingInv /\ [Next]_vars => ListingInv'
  <1> SUFFICES ASSUME StoreInv, ListingInv, [Next]_vars PROVE ListingInv'
    OBVIOUS
  <1>types. /\ pc \in [Procs -> PCs] /\ todo \in [Procs -> SUBSET Labels]
            /\ listed \in [Procs -> SUBSET whole] /\ seen \in [Procs -> SUBSET whole]
            /\ steady \in [Procs -> SUBSET whole] /\ DiskInv
    BY DEF StoreInv, CommandInv, LocalInv
  <1>1. ASSUME NEW p \in Procs, Start(p) PROVE ListingInv'
    <2>1. PICK to \in {"stat", "remove", "readdir"} : Go(p, "new", to)
      BY <1>1 DEF Start, Run, Go
    <2>2. UNCHANGED <<disk, listed, todo, history>>
      BY <1>1 DEF Start, Run, local
    <2>3. \A k \in whole : label'[k] = label[k]
      BY <1>1, <1>types DEF Start, Run, DiskInv, StoreInv, CommandInv
    <2> QED
      BY <2>1, <2>2, <2>3, <1>types DEF Go, ListingInv, OnDisk, disk, history
  <1>2. ASSUME NEW p \in Procs, Kill(p) PROVE ListingInv'
    BY <1>2, <1>types
    DEF Kill, Running, ListingInv, OnDisk, command, disk, local, history
  <1>3. ASSUME NEW p \in Procs,
               \/ Stat(p) \/ Open(p) \/ Encode(p) \/ Unlink(p) \/ SelfTest(p)
               \/ WritePub(p) \/ Delete(p) \/ RemovePub(p) \/ Confirm(p)
               \/ ReadNames(p) \/ Removed(p) \/ DeletedAll(p)
               \/ \E l \in Labels : RemoveName(p, l) \/ RemovePubs(p, l)
        PROVE  ListingInv'
    <2>1. /\ UNCHANGED <<label, listed>>
          /\ Watched \/ UNCHANGED <<disk, history>>
          /\ \A q \in Procs \ {p} : UNCHANGED todo[q]
      BY <1>3, <1>types
      DEF Stat, Open, Encode, Unlink, SelfTest, WritePub, Delete, RemovePub, Confirm,
          ReadNames, Removed, DeletedAll, RemoveName, RemovePubs, command, local
    <2>2. /\ pc[p] \notin {"load", "killed", "error"}
          /\ pc'[p] \notin {"new", "readdir", "load"}
          /\ \A q \in Procs \ {p} : UNCHANGED pc[q]
      BY <1>3, <1>types
      DEF Stat, Open, Encode, Unlink, SelfTest, WritePub, Delete, RemovePub, Confirm,
          ReadNames, Removed, DeletedAll, RemoveName, RemovePubs, Go
    <2> QED
      BY <2>1, <2>2, ListingsWatch
  <1>4. ASSUME NEW p \in Procs, ReadDir(p) PROVE ListingInv'
    <2>1. /\ UNCHANGED <<label, files, whole, listed>>
          /\ pc[p] = "readdir" /\ pc'[p] \in {"load", "error"}
          /\ seen'[p] = OnDisk /\ steady'[p] = OnDisk
          /\ pc'[p] = "load" => todo'[p] = {l \in Labels : files[l] # None}
          /\ \A q \in Procs \ {p} :
                UNCHANGED <<pc[q], todo[q], seen[q], steady[q]>>
      BY <1>4, <1>types DEF ReadDir, Go, command, disk
    <2>2. listed[p] = {} /\ OnDisk' = OnDisk
      BY <2>1 DEF ListingInv, OnDisk
    <2>3. ASSUME NEW k \in OnDisk
          PROVE  label[k] \in {l \in Labels : files[l] # None}
      BY <1>types, <2>3, KeysOnDisk, ProcAssumption DEF DiskInv
    <2> QED
      BY <2>1, <2>2, <2>3 DEF ListingInv
  <1>5. ASSUME NEW p \in Procs, NEW l \in Labels, Load(p, l) PROVE ListingInv'
    <2>1. /\ UNCHANGED <<label, files, whole, pc, seen, steady>>
          /\ pc[p] = "load" /\ OnDisk' = OnDisk
          /\ todo'[p] = todo[p] \ {l}
          /\ listed'[p] = listed[p] \cup ({files[l]} \cap whole)
          /\ \A q \in Procs \ {p} : UNCHANGED <<todo[q], listed[q]>>
      BY <1>5, <1>types DEF Load, OnDisk, command, disk, history
    <2>2. {files[l]} \cap whole \subseteq OnDisk
      BY DEF OnDisk
    <2>3. ASSUME NEW k \in steady[p], label[k] = l PROVE k \in listed'[p]
      <3>1. k \in OnDisk
        BY <2>1 DEF ListingInv
      <3> QED
        BY <1>types, <2>1, <2>3, <3>1, KeysOnDisk
    <2> QED
      BY <2>1, <2>2, <2>3 DEF ListingInv
  <1>6. ASSUME NEW p \in Procs, Loaded(p) PROVE ListingInv'
    <2>1. /\ UNCHANGED <<label, files, whole, listed, todo, seen, steady>>
          /\ OnDisk' = OnDisk
          /\ pc[p] = "load" /\ pc'[p] \in {"ok", "nothing", "confirm"}
          /\ todo[p] = {} /\ \A q \in Procs \ {p} : UNCHANGED pc[q]
      BY <1>6, <1>types DEF Loaded, Go, OnDisk, command, disk, local, history
    <2> QED
      BY <2>1 DEF ListingInv
  <1>7. CASE UNCHANGED vars
    BY <1>7 DEF vars, ListingInv, OnDisk, command, disk, local, history
  <1> QED
    BY <1>1, <1>2, <1>3, <1>4, <1>5, <1>6, <1>7 DEF Next, Step, Finished

LEMMA ListingInvariant == Spec => [](StoreInv /\ ListingInv)
  <1>1. Init => ListingInv
    BY DEF Init, ListingInv
  <1> QED
    BY <1>1, StoreInvariant, ListingStep, PTL DEF Spec

(* A listing is a snapshot as far as anybody can tell: it shows no key     *)
(* that was not there at some time, and misses none that was there all the *)
(* time (keystore_fs.go List, which takes no lock).                        *)
THEOREM ListingsRegular == Spec => []ListingIsRegular
  <1>1. ListingInv => ListingIsRegular
    BY DEF ListingInv, ListingIsRegular
  <1> QED
    BY <1>1, ListingInvariant, PTL

(***************************************************************************)
(* Creates.                                                                *)
(***************************************************************************)
NoDeletes == \A p \in Procs : op[p] \notin {"delete", "deleteAll"}

(* From the creation of its keyfile on it is a create's own.               *)
CreateInv ==
    NoDeletes => \A p \in Procs :
        \/ pc[p] \in {"encode", "unlink", "selftest", "writepub"}
        \/ op[p] = "create" /\ pc[p] = "ok"
        => files[label[p]] = p

(* What a create that has ended well has left behind.                      *)
WholeInv == \A p \in Procs : op[p] = "create" /\ pc[p] = "ok" => p \in whole

LEMMA CreateStep ==
    StoreInv /\ CreateInv /\ WholeInv /\ [Next]_vars => CreateInv' /\ WholeInv'
  <1> SUFFICES ASSUME CommandInv, DiskInv, CreateInv, WholeInv, [Next]_vars
               PROVE  CreateInv' /\ WholeInv'
    BY DEF StoreInv
  <1> USE DEF Creating, Deleting, Listing, Clearing
  <1>1. ASSUME NEW p \in Procs, Start(p) PROVE CreateInv' /\ WholeInv'
    <2>1. PICK o \in Commands, l \in Labels \cup {None} : Run(p, o, l)
      BY <1>1 DEF Start, Commands
    <2>2. /\ UNCHANGED <<files, whole>>
          /\ pc'[p] \in {"stat", "remove", "readdir"} /\ op[p] = None
          /\ \A q \in Procs \ {p} : UNCHANGED <<op[q], label[q], pc[q]>>
      BY <2>1 DEF Run, disk, CommandInv
    <2>3. NoDeletes' => NoDeletes
      BY <2>2, ProcAssumption DEF NoDeletes, Commands
    <2> QED
      BY <2>2, <2>3 DEF CreateInv, WholeInv
  <1>2. ASSUME NEW p \in Procs, Kill(p) PROVE CreateInv' /\ WholeInv'
    BY <1>2 DEF Kill, CreateInv, WholeInv, NoDeletes, command, disk, CommandInv
  <1>3. ASSUME NEW p \in Procs,
               \/ Stat(p) \/ Encode(p) \/ SelfTest(p) \/ WritePub(p)
               \/ RemovePub(p) \/ ReadDir(p) \/ Loaded(p) \/ Confirm(p)
               \/ ReadNames(p) \/ Removed(p) \/ DeletedAll(p)
               \/ \E l \in Labels : Load(p, l) \/ RemovePubs(p, l)
        PROVE  CreateInv' /\ WholeInv'
    <2>1. UNCHANGED <<op, label, files>> /\ whole \subseteq whole'
      BY <1>3
      DEF Stat, Encode, SelfTest, WritePub, RemovePub, ReadDir, Loaded, Confirm,
          ReadNames, Removed, DeletedAll, Load, RemovePubs, command, disk
    <2>2. /\ \A q \in Procs \ {p} : UNCHANGED pc[q]
          /\ pc'[p] \in {"unlink", "selftest", "writepub"} =>
                pc[p] \in {"encode", "selftest"}
          /\ pc'[p] # "encode"
          /\ op[p] = "create" /\ pc'[p] = "ok" => pc[p] \in {"writepub", "ok"}
      BY <1>3
      DEF Stat, Encode, SelfTest, WritePub, RemovePub, ReadDir, Loaded, Confirm,
          ReadNames, Removed, DeletedAll, Load, RemovePubs, Go, CommandInv
    <2> QED
      BY <2>1, <2>2 DEF CreateInv, WholeInv, NoDeletes, DiskInv
  <1>4. ASSUME NEW p \in Procs, Open(p) PROVE CreateInv' /\ WholeInv'
    BY <1>4, ProcAssumption
    DEF Open, Go, CreateInv, WholeInv, NoDeletes, command, CommandInv, DiskInv
  <1>5. ASSUME NEW p \in Procs, Unlink(p) PROVE CreateInv' /\ WholeInv'
    BY <1>5, ProcAssumption
    DEF Unlink, Go, CreateInv, WholeInv, NoDeletes, command, CommandInv, DiskInv
  <1>6. ASSUME NEW p \in Procs, Delete(p) \/ \E l \in Labels : RemoveName(p, l)
        PROVE  CreateInv' /\ WholeInv'
    <2>1. /\ UNCHANGED <<op, whole>> /\ op[p] \in {"delete", "deleteAll"}
          /\ \A q \in Procs \ {p} : UNCHANGED pc[q]
      BY <1>6 DEF Delete, RemoveName, Go, command, CommandInv
    <2> QED
      BY <2>1 DEF CreateInv, WholeInv, NoDeletes
  <1>7. CASE UNCHANGED vars
    BY <1>7 DEF vars, CreateInv, WholeInv, NoDeletes, command, disk
  <1>8. ASSUME NEW p \in Procs, Step(p) PROVE CreateInv' /\ WholeInv'
    BY <1>3, <1>4, <1>5, <1>6, <1>8 DEF Step
  <1> QED
    BY <1>1, <1>2, <1>7, <1>8 DEF Next, Finished

(* Creates that race for a label never cost one of them its key            *)
(* (keystore_fs.go writeKeyfile, O_EXCL and the clean-up by name).         *)
THEOREM CreatesSafe == Spec => []CreatesDoNotInterfere
  <1>1. Init => CreateInv /\ WholeInv
    BY ProcAssumption DEF Init, CreateInv, WholeInv, Commands
  <1>2. CreateInv /\ WholeInv => CreatesDoNotInterfere
    BY DEF CreateInv, WholeInv, NoDeletes, CreatesDoNotInterfere
  <1> QED
    BY <1>1, <1>2, StoreInvariant, CreateStep, PTL DEF Spec

(***************************************************************************)
(* Delete-all.                                                             *)
(***************************************************************************)
DeleteAllInv ==
    \A p \in Procs :
        /\ pc[p] = "removeall" /\ ~failed[p] =>
              \A k \in seen[p] \cap OnDisk : label[k] \in todo[p]
        /\ pc[p] = "removepubs" => seen[p] \cap OnDisk = {}
        /\ op[p] = "deleteAll" /\ pc[p] = "ok" => seen[p] \cap OnDisk = {}

(* No key that has been seen comes back.                                   *)
LEMMA NoKeyReturns ==
    ASSUME StoreInv, [Next]_vars, NEW p \in Procs, NEW k \in seen[p] \cap OnDisk'
    PROVE  k \in OnDisk /\ label'[k] = label[k]
  <1>0. k \in whole /\ CommandInv /\ DiskInv
    BY DEF StoreInv, LocalInv
  <1>1. PICK l \in Labels : files'[l] = k
    BY DEF OnDisk
  <1>2. files[l] = k
    <2>1. ASSUME NEW q \in Procs, Open(q) PROVE files[l] = k
      BY <1>0, <1>1, <2>1 DEF Open, Go, DiskInv
    <2>2. ASSUME NEW q \in Procs, Step(q), ~Open(q) PROVE files[l] = k
      BY <1>0, <1>1, <2>2, ProcAssumption
      DEF Step, Stat, Encode, Unlink, SelfTest, WritePub, Delete, RemovePub, ReadDir,
          Loaded, Confirm, ReadNames, Removed, DeletedAll, Load, RemoveName,
          RemovePubs, DiskInv, disk
    <2>3. CASE UNCHANGED files
      BY <1>1, <2>3
    <2> QED
      BY <2>1, <2>2, <2>3 DEF Next, Start, Run, Kill, Finished, vars, disk
  <1>3. label'[k] = label[k]
    <2>1. ASSUME NEW q \in Procs, Start(q) PROVE label'[k] = label[k]
      BY <1>0, <2>1 DEF Start, Run, DiskInv, CommandInv
    <2>2. ASSUME NEW q \in Procs, Step(q) PROVE label'[k] = label[k]
      BY <2>2
      DEF Step, Stat, Open, Encode, Unlink, SelfTest, WritePub, Delete, RemovePub,
          ReadDir, Loaded, Confirm, ReadNames, Removed, DeletedAll, Load,
          RemoveName, RemovePubs, command
    <2> QED
      BY <2>1, <2>2 DEF Next, Kill, Finished, vars, command
  <1> QED
    BY <1>0, <1>1, <1>2, <1>3 DEF OnDisk

(* What a listing has seen does not change once it is over.                *)
LEMMA SeenSettles ==
    ASSUME StoreInv, [Next]_vars, NEW p \in Procs, pc[p] \notin {"readdir", "load"}
    PROVE  seen'[p] = seen[p]
  <1>1. ASSUME NEW q \in Procs, ReadDir(q) PROVE seen'[p] = seen[p]
    BY <1>1 DEF ReadDir, Go, StoreInv, LocalInv
  <1>2. ASSUME Watched \/ UNCHANGED history PROVE seen'[p] = seen[p]
    BY <1>2 DEF Watched, history
  <1>3. ASSUME NEW q \in Procs, Step(q), ~ReadDir(q)
        PROVE  Watched \/ UNCHANGED history
    BY <1>3
    DEF Step, Stat, Open, Encode, Unlink, SelfTest, WritePub, Delete, RemovePub,
        Loaded, Confirm, ReadNames, Removed, DeletedAll, Load, RemoveName, RemovePubs
  <1> QED
    BY <1>1, <1>2, <1>3 DEF Next, Start, Run, Kill, Finished, vars

LEMMA DeleteAllStep ==
    StoreInv /\ DeleteAllInv /\ [Next]_vars => DeleteAllInv'
  <1> SUFFICES ASSUME StoreInv, DeleteAllInv, [Next]_vars, NEW p \in Procs
               PROVE  /\ pc'[p] = "removeall" /\ ~failed'[p] =>
                            \A k \in seen'[p] \cap OnDisk' : label'[k] \in todo'[p]
                      /\ pc'[p] = "removepubs" => seen'[p] \cap OnDisk' = {}
                      /\ op'[p] = "deleteAll" /\ pc'[p] = "ok" =>
                            seen'[p] \cap OnDisk' = {}
    BY DEF DeleteAllInv
  <1>types. /\ pc \in [Procs -> PCs] /\ todo \in [Procs -> SUBSET Labels]
            /\ failed \in [Procs -> BOOLEAN] /\ CommandInv /\ DiskInv
    BY DEF StoreInv, CommandInv, LocalInv
  <1>0. ASSUME pc[p] \notin {"readdir", "load"}
        PROVE  /\ seen'[p] = seen[p]
               /\ \A k \in seen'[p] \cap OnDisk' :
                     k \in seen[p] \cap OnDisk /\ label'[k] = label[k]
    BY <1>0, NoKeyReturns, SeenSettles
  (* Nothing p does, or nothing that matters.                              *)
  <1>1. ASSUME pc'[p] = pc[p], op'[p] = op[p], todo'[p] = todo[p],
               failed'[p] = failed[p]
        PROVE  /\ pc'[p] = "removeall" /\ ~failed'[p] =>
                     \A k \in seen'[p] \cap OnDisk' : label'[k] \in todo'[p]
               /\ pc'[p] = "removepubs" => seen'[p] \cap OnDisk' = {}
               /\ op'[p] = "deleteAll" /\ pc'[p] = "ok" =>
                     seen'[p] \cap OnDisk' = {}
    BY <1>0, <1>1 DEF DeleteAllInv
  <1>2. CASE pc'[p] \notin {"removeall", "removepubs", "ok"}
    BY <1>2
  <1>3. CASE ReadNames(p)
    <2>1. /\ pc[p] = "readnames" /\ pc'[p] \in {"removeall", "error"}
          /\ pc'[p] = "removeall" => todo'[p] = {l \in Labels : files[l] # None}
          /\ UNCHANGED label
      BY <1>3, <1>types DEF ReadNames, Go, command
    <2>2. \A k \in OnDisk : label[k] \in {l \in Labels : files[l] # None}
      BY <1>types, KeysOnDisk, ProcAssumption DEF DiskInv
    <2> QED
      BY <1>0, <2>1, <2>2
  <1>4. ASSUME NEW l \in Labels, RemoveName(p, l)
        PROVE  pc'[p] = "removeall" /\ ~failed'[p] =>
                  \A k \in seen'[p] \cap OnDisk' : label'[k] \in todo'[p]
    <2>1. /\ pc[p] = "removeall" /\ todo'[p] = todo[p] \ {l}
          /\ \/ files'[l] = None /\ failed'[p] = failed[p]
             \/ failed'[p] = TRUE
      BY <1>4, <1>types DEF RemoveName, DiskInv
    <2>2. ASSUME NEW k \in seen'[p] \cap OnDisk', label[k] = l PROVE files'[l] = k
      <3>1. DiskInv'
        BY DiskStep
      <3>2. files'[label'[k]] = k
        BY <3>1, <2>2, ProcAssumption DEF OnDisk, DiskInv
      <3> QED
        BY <3>2, <2>2, NoKeyReturns, <1>0, <2>1
    <2>3. \A k \in OnDisk' : k # None
      BY DiskStep, ProcAssumption DEF OnDisk, DiskInv
    <2> QED
      BY <1>0, <2>1, <2>2, <2>3 DEF DeleteAllInv
  <1>5. CASE Removed(p)
    <2>1. /\ pc[p] = "removeall" /\ todo[p] = {} /\ pc'[p] \in {"error", "removepubs"}
          /\ pc'[p] = "removepubs" => ~failed[p]
      BY <1>5, <1>types DEF Removed, Go
    <2> QED
      BY <1>0, <2>1 DEF DeleteAllInv
  <1>6. CASE DeletedAll(p) \/ \E l \in Labels : RemovePubs(p, l)
    <2>1. pc[p] = "removepubs" /\ pc'[p] \in {"removepubs", "ok"}
      BY <1>6, <1>types DEF DeletedAll, RemovePubs, Go
    <2> QED
      BY <1>0, <2>1 DEF DeleteAllInv
  <1>7. ASSUME NEW q \in Procs, q # p, Start(q) \/ Step(q) \/ Kill(q)
        PROVE  /\ pc'[p] = pc[p] /\ op'[p] = op[p]
               /\ todo'[p] = todo[p] /\ failed'[p] = failed[p]
    <2>1. CASE Start(q) \/ Kill(q)
      BY <1>7, <2>1, <1>types DEF Start, Run, Kill, local, command, CommandInv
    <2>2. CASE Step(q)
      BY <1>7, <2>2, <1>types
      DEF Step, Stat, Open, Encode, Unlink, SelfTest, WritePub, Delete, RemovePub,
          ReadDir, Loaded, Confirm, ReadNames, Removed, DeletedAll, Load,
          RemoveName, RemovePubs, Go, local, command
    <2> QED
      BY <1>7, <2>1, <2>2
  <1>8. ASSUME \/ Start(p) \/ Kill(p) \/ Stat(p) \/ Open(p) \/ Encode(p)
               \/ Unlink(p) \/ SelfTest(p) \/ WritePub(p) \/ Delete(p)
               \/ RemovePub(p) \/ ReadDir(p) \/ Loaded(p) \/ Confirm(p)
               \/ \E l \in Labels : Load(p, l)
        PROVE  /\ pc'[p] \notin {"removeall", "removepubs"}
               /\ op'[p] = "deleteAll" => pc'[p] # "ok"
    <2>1. CASE Start(p) \/ Kill(p)
      BY <2>1, <1>types DEF Start, Run, Kill
    <2>2. CASE ~(Start(p) \/ Kill(p))
      BY <1>8, <2>2, <1>types
      DEF Stat, Open, Encode, Unlink, SelfTest, WritePub, Delete, RemovePub,
          ReadDir, Loaded, Confirm, Load, Go, command, CommandInv, Creating,
          Deleting, Listing, Clearing
    <2> QED
      BY <2>1, <2>2
  <1>9. ASSUME NEW l \in Labels, RemoveName(p, l) PROVE pc'[p] = "removeall"
    BY <1>9 DEF RemoveName
  <1>10. CASE Start(p) \/ Step(p) \/ Kill(p)
    <2>1. CASE \E l \in Labels : RemoveName(p, l)
      BY <1>4, <1>9, <2>1
    <2>2. CASE ~\E l \in Labels : RemoveName(p, l)
      BY <1>3, <1>5, <1>6, <1>8, <1>10, <2>2 DEF Step
    <2> QED
      BY <2>1, <2>2
  <1>11. CASE \E q \in Procs \ {p} : Start(q) \/ Step(q) \/ Kill(q)
    BY <1>1, <1>7, <1>11
  <1>12. CASE UNCHANGED vars
    BY <1>1, <1>12 DEF vars, command, local
  <1> QED
    BY <1>10, <1>11, <1>12 DEF Next, Finished

(* "All keys deleted." is true of every key its listing has shown, or could*)
(* have: none of them is left (main.go cmdDeleteAll).                      *)
THEOREM DeleteAllDeletes == Spec => []DeleteAllIsComplete
  <1>1. Init => DeleteAllInv
    BY ProcAssumption DEF Init, DeleteAllInv, Commands
  <1>2. DeleteAllInv => DeleteAllIsComplete
    BY DEF DeleteAllInv, DeleteAllIsComplete
  <1> QED
    BY <1>1, <1>2, StoreInvariant, DeleteAllStep, PTL DEF Spec

(***************************************************************************)
(* One command after the other.                                            *)
(***************************************************************************)
Clean == ~mishap /\ \A p \in Procs : pc[p] \notin {"error", "killed"}

(* How the .pub files and the keyfiles differ while p is the only one.     *)
Between(p) ==
    /\ pc[p] \in {"stat", "open", "remove", "confirm", "readnames"} \cup Listing =>
          pubs = files
    /\ pc[p] \in {"encode", "unlink", "selftest", "writepub"} =>
          files = [pubs EXCEPT ![label[p]] = p]
    /\ pc[p] = "removepub" => files = [pubs EXCEPT ![label[p]] = None]
    /\ pc[p] = "load" => \A l \in Labels : pubs[l] # None => pubs[l] \in steady[p]
    /\ pc[p] \in Clearing => \A l \in Labels : pubs[l] # None =>
          pubs[l] \in listed[p] \/ (pc[p] = "removepubs" /\ l \in todo[p])
    /\ pc[p] = "removeall" /\ ~failed[p] => \A l \in Labels :
          files[l] = None \/ (files[l] = pubs[l] /\ l \in todo[p])
    /\ pc[p] = "removepubs" => \A l \in Labels :
          files[l] = None /\ (pubs[l] # None => l \in todo[p])

SerialInv ==
    Clean =>
        /\ \A p, q \in Procs : Running(p) /\ Running(q) => p = q
        /\ (\A p \in Procs : ~Running(p)) => pubs = files
        /\ \A p \in Procs : Running(p) => Between(p)

LEMMA OneRuns ==
    ASSUME StoreInv, SerialInv, NEW p \in Procs, Step(p), Clean'
    PROVE  /\ Clean /\ Running(p) /\ Between(p)
           /\ pc'[p] \notin {"error", "killed", "new"}
           /\ \A q \in Procs \ {p} : pc'[q] = pc[q] /\ ~Running(q)
  <1>1. /\ Running(p) /\ mishap' \in {mishap, TRUE} /\ pc'[p] # "new"
        /\ \A q \in Procs \ {p} : pc'[q] = pc[q]
    BY DEF Step, Stat, Open, Encode, Unlink, SelfTest, WritePub, Delete, RemovePub,
           ReadDir, Loaded, Confirm, ReadNames, Removed, DeletedAll, Load, RemoveName,
           RemovePubs, Go, Running, Ended, StoreInv, CommandInv
  <1>2. ~mishap
    BY <1>1 DEF Clean, StoreInv, LocalInv
  <1>3. ASSUME NEW q \in Procs PROVE pc[q] \notin {"error", "killed"}
    <2>1. CASE q = p
      BY <1>1, <2>1 DEF Running, Ended
    <2>2. CASE q # p
      BY <1>1, <2>2 DEF Clean
    <2> QED
      BY <2>1, <2>2
  <1>4. Clean
    BY <1>2, <1>3 DEF Clean
  <1> QED
    BY <1>1, <1>4 DEF SerialInv, Clean

LEMMA SerialStep ==
    StoreInv /\ ListingInv /\ SerialInv /\ [Next]_vars => SerialInv'
  <1> SUFFICES ASSUME StoreInv, ListingInv, SerialInv, [Next]_vars, Clean'
               PROVE  /\ \A p, q \in Procs : Running(p)' /\ Running(q)' => p = q
                      /\ (\A p \in Procs : ~Running(p)') => pubs' = files'
                      /\ \A p \in Procs : Running(p)' => Between(p)'
    BY DEF SerialInv
  <1>types. /\ pc \in [Procs -> PCs] /\ todo \in [Procs -> SUBSET Labels]
            /\ label \in [Procs -> Labels \cup {None}]
            /\ files \in [Labels -> Procs \cup {None}]
            /\ pubs \in [Labels -> whole \cup {None}]
            /\ listed \in [Procs -> SUBSET whole]
            /\ steady \in [Procs -> SUBSET whole]
            /\ failed \in [Procs -> BOOLEAN] /\ CommandInv /\ DiskInv
    BY DEF StoreInv, CommandInv, DiskInv, LocalInv
  <1>1. ASSUME NEW p \in Procs, Start(p)
        PROVE  /\ \A q, r \in Procs : Running(q)' /\ Running(r)' => q = r
               /\ ~ \A q \in Procs : ~Running(q)'
               /\ \A q \in Procs : Running(q)' => Between(q)'
    <2>1. /\ UNCHANGED <<files, pubs>> /\ pc'[p] \in {"stat", "remove", "readdir"}
          /\ \A q \in Procs \ {p} : UNCHANGED pc[q]
          /\ pc[p] = "new" /\ ~mishap /\ \A q \in Procs : ~Running(q)
      BY <1>1, <1>types DEF Start, Run, Clean, disk, StoreInv, LocalInv
    <2>2. Clean
      BY <2>1 DEF Clean
    <2>3. pubs' = files'
      BY <2>1, <2>2 DEF SerialInv
    <2> QED
      BY <2>1, <2>3 DEF Between, Running, Ended, Listing, Clearing
  <1>2. ASSUME NEW p \in Procs, Kill(p) PROVE FALSE
    BY <1>2 DEF Kill, Clean
  <1>3. ASSUME NEW p \in Procs, Step(p),
               pc'[p] \in Ended => pubs' = files',
               pc'[p] \notin Ended => Between(p)'
        PROVE  /\ \A q, r \in Procs : Running(q)' /\ Running(r)' => q = r
               /\ (\A q \in Procs : ~Running(q)') => pubs' = files'
               /\ \A q \in Procs : Running(q)' => Between(q)'
    <2>1. /\ pc'[p] # "new" /\ \A q \in Procs \ {p} : ~Running(q)'
      BY <1>3, OneRuns DEF Running
    <2> QED
      BY <1>3, <2>1 DEF Running
  <1>4. ASSUME NEW p \in Procs, Step(p)
        PROVE  /\ pc'[p] \in Ended => pubs' = files'
               /\ pc'[p] \notin Ended => Between(p)'
    <2>0. Between(p) /\ ~mishap' /\ pc'[p] \notin {"error", "killed", "new"}
      BY <1>4, OneRuns DEF Clean
    <2> USE DEF Between, Ended, Listing, Clearing
    <2>1. CASE Stat(p) \/ SelfTest(p)
      BY <2>0, <2>1, <1>types DEF Stat, SelfTest, Go, disk, command
    <2>2. CASE Open(p)
      BY <2>0, <2>2, <1>types DEF Open, Go, command
    <2>3. CASE Encode(p)
      BY <2>0, <2>3, <1>types DEF Encode, Go, command
    <2>4. CASE Unlink(p)
      BY <2>0, <2>4, <1>types DEF Unlink, Go
    <2>5. CASE WritePub(p)
      BY <2>0, <2>5, <1>types DEF WritePub, Go, disk
    <2>6. CASE Delete(p)
      BY <2>0, <2>6, <1>types DEF Delete, Go, command
    <2>7. CASE RemovePub(p)
      BY <2>0, <2>7, <1>types DEF RemovePub, Go, disk
    <2>8. CASE ReadDir(p)
      <3>1. \A l \in Labels : files[l] # None /\ pubs = files => files[l] \in OnDisk
        BY <1>types DEF OnDisk
      <3> QED
        BY <2>0, <2>8, <3>1, <1>types DEF ReadDir, Go, disk
    <2>9. ASSUME NEW l \in Labels, Load(p, l)
          PROVE  pc'[p] \notin Ended /\ Between(p)'
      BY <2>0, <2>9, <1>types DEF Load, disk, history
    <2>10. CASE Loaded(p)
      <3>1. pc[p] = "load" /\ todo[p] = {} => steady[p] \subseteq listed[p]
        BY DEF ListingInv
      <3>2. /\ UNCHANGED <<files, pubs, listed>> /\ pc[p] = "load" /\ todo[p] = {}
            /\ pc'[p] \in {"ok", "nothing", "confirm"}
        BY <2>10, <1>types DEF Loaded, Go, disk, local
      <3>3. pubs = files
        BY <2>0, <3>2
      <3>4. \A l \in Labels : pubs[l] # None => pubs[l] \in listed[p]
        BY <2>0, <3>1, <3>2
      <3> QED
        BY <3>2, <3>3, <3>4
    <2>11. CASE Confirm(p)
      BY <2>0, <2>11, <1>types DEF Confirm, Go, disk, local
    <2>12. CASE ReadNames(p)
      <3>1. /\ UNCHANGED <<files, pubs, listed>> /\ pc[p] = "readnames"
            /\ pc'[p] = "removeall" /\ todo'[p] = {l \in Labels : files[l] # None}
        BY <2>0, <2>12, <1>types DEF ReadNames, Go, disk
      <3>2. pubs = files /\ \A l \in Labels : pubs[l] # None => pubs[l] \in listed[p]
        BY <2>0, <3>1
      <3> QED
        BY <3>1, <3>2
    <2>13. ASSUME NEW l \in Labels, RemoveName(p, l)
           PROVE  pc'[p] \notin Ended /\ Between(p)'
      <3>1. /\ UNCHANGED <<pubs, listed, pc>> /\ pc[p] = "removeall"
            /\ todo'[p] = todo[p] \ {l}
        BY <2>13, <1>types DEF RemoveName
      <3>2. ~failed'[p] => ~failed[p] /\ files' = [files EXCEPT ![l] = None]
        BY <2>13, <1>types DEF RemoveName
      <3>3. \A m \in Labels : pubs[m] # None => pubs[m] \in listed[p]
        BY <2>0, <3>1
      <3>4. ASSUME ~failed'[p], NEW m \in Labels
            PROVE  files'[m] = None \/ (files'[m] = pubs[m] /\ m \in todo'[p])
        <4>1. files[m] = None \/ (files[m] = pubs[m] /\ m \in todo[p])
          BY <2>0, <3>1, <3>2, <3>4
        <4>2. CASE m = l
          BY <3>2, <3>4, <4>2, <1>types
        <4>3. CASE m # l
          BY <3>1, <3>2, <3>4, <4>1, <4>3, <1>types
        <4> QED
          BY <4>2, <4>3
      <3> QED
        BY <3>1, <3>3, <3>4
    <2>14. CASE Removed(p)
      <3>1. \A l \in Labels : pubs[l] # None /\ pubs[l] \in listed[p] =>
                l \in {label[k] : k \in listed[p]}
        BY <1>types DEF DiskInv
      <3> QED
        BY <2>0, <2>14, <3>1, <1>types DEF Removed, Go, disk
    <2>15. ASSUME NEW l \in Labels, RemovePubs(p, l)
           PROVE  pc'[p] \notin Ended /\ Between(p)'
      BY <2>0, <2>15, <1>types DEF RemovePubs, disk
    <2>16. CASE DeletedAll(p)
      BY <2>0, <2>16, <1>types DEF DeletedAll, Go, disk
    <2> QED
      BY <1>4, <2>1, <2>2, <2>3, <2>4, <2>5, <2>6, <2>7, <2>8, <2>9, <2>10, <2>11,
         <2>12, <2>13, <2>14, <2>15, <2>16 DEF Step
  <1>5. CASE UNCHANGED vars
    BY <1>5
    DEF vars, command, disk, local, history, SerialInv, Clean, Running, Between
  <1> QED
    BY <1>1, <1>2, <1>3, <1>4, <1>5 DEF Next, Finished

(* Commands that are run one after the other, and succeed, keep ~/.ssh in  *)
(* step with the key directory (main.go cmdCreate, cmdDelete,              *)
(* cmdDeleteAll).                                                          *)
THEOREM PubsInStep == Spec => []PubsFollowKeys
  <1>1. Init => SerialInv
    BY DEF Init, SerialInv, Running
  <1>2. SerialInv => PubsFollowKeys
    BY DEF SerialInv, PubsFollowKeys, Clean, Running, Ended
  <1> QED
    BY <1>1, <1>2, ListingInvariant, SerialStep, PTL DEF Spec
=============================================================================
