----------------------------- MODULE MountTree -----------------------------
(***************************************************************************)
(* The journey of the first-stage mounts: files/init moves them to a       *)
(* ramdisk, out of its own way to /target_tmp, and into the system it      *)
(* boots, each time with native/jni/move_mount_tree.                       *)
(*                                                                         *)
(* A path is the sequence of its names, / is <<>>.  tree is the mount      *)
(* table in the order of /proc/mounts.                                     *)
(***************************************************************************)
EXTENDS Integers, Sequences, FiniteSets, SequencesExt

CONSTANTS
  Names,       \* the names of files
  FirstStage,  \* the mounts the first stage may make, in its order
  Always,      \* those it always makes
  Partitions,  \* those the script mounts for the internal system, in its order
  Skippable,   \* what the skip_mount.cfg of that system may list
  TargetDirs,  \* the directories of the root of the system that is booted
  Overridden   \* the files of an image the script mounts others over, if there

Path == Seq(Names)

Root       == <<>>
Ramdisk    == <<"paralloid_ramdisk">>
OldRoot    == <<"paralloid_oldroot">>
TargetTmp  == <<"target_tmp">>
Target     == <<"target">>
DebugRamdisk == <<"debug_ramdisk">>

Under(path, dir)      == IsPrefix(dir, path)
Below(path, dir)      == IsStrictPrefix(dir, path)

(* No path is mounted twice, and none of them belongs to Paralloid; what    *)
(* the script mounts itself is left out by the first stage, product as well *)
(* (create.sh:40-46).                                                       *)
ASSUME MountsAssumption ==
  /\ {"paralloid_ramdisk", "paralloid_oldroot", "target_tmp", "target", "debug_ramdisk", "proc",
      "config", "dev", "tmp", "sys", "fs", "pstore", "selinux", "product"} \subseteq Names
  /\ FirstStage \in Seq(Path) /\ IsInjective(FirstStage)
  /\ Partitions \in Seq(Path) /\ IsInjective(Partitions)
  /\ Range(Partitions) \cap Range(FirstStage) = {}
  /\ \A p \in Range(FirstStage) \union Range(Partitions) :
       p # Root /\ \A d \in {Ramdisk, OldRoot, TargetTmp, Target, DebugRamdisk} : ~Under(p, d)
  /\ <<"product">> \notin Range(FirstStage)
  /\ Always \subseteq Range(FirstStage)
  /\ {<<"sys">>, <<"sys", "selinux">>} \subseteq Always
  /\ Skippable \subseteq Range(Partitions) \union Range(FirstStage)

(* A mount is at the top, or below one there that is always made before it, *)
(* a partition at the top (init:269); the system has the directories at the *)
(* top and needs selinux.                                                   *)
ASSUME DeliveryAssumption ==
  /\ \A j \in DOMAIN FirstStage :
       /\ Len(FirstStage[j]) = 1 => FirstStage[j] \in TargetDirs
       /\ Len(FirstStage[j]) = 1 \/ \E i \in 1..j - 1 : /\ FirstStage[i] \in Always
                                                        /\ Len(FirstStage[i]) = 1
                                                        /\ Under(FirstStage[j], FirstStage[i])
  /\ \A p \in Range(Partitions) : Len(p) = 1 /\ p \in TargetDirs
  /\ <<"sys", "selinux">> \notin Skippable

(* They are files: nothing else is mounted at or below one. *)
ASSUME OverridesAssumption ==
  /\ "mntRAM" \in Names
  /\ Overridden \in Seq(Path) /\ IsInjective(Overridden)
  /\ \A o \in Range(Overridden) :
       /\ o # Root /\ <<"product">> # o
       /\ \A p \in Range(FirstStage) \union Range(Partitions) : ~Under(p, o)

(* The members of a list that are in the set, in their order. *)
Kept(list, set) ==
  LET kept[n \in 0..Len(list)] ==
        IF n = 0 THEN <<>>
        ELSE IF list[n] \in set THEN Append(kept[n - 1], list[n])
        ELSE kept[n - 1]
  IN kept[Len(list)]

Moved(path, old, new) == new \o SubSeq(path, Len(old) + 1, Len(path))

(* A mount is its directory and its file system: whose it is, and the path *)
(* it has in the system it is made for.                                    *)
Mount(dir, of, at) == [dir |-> dir, of |-> of, at |-> at]

VARIABLES
  tree,     \* /proc/mounts
  made,     \* the directories made in the tmpfs on /target_tmp
  todo,     \* the mounts move_mount_tree still has to move
  pc,       \* where the script is
  first,    \* history: the mounts of the first stage
  parts,    \* history: the partitions or images mounted for the target
  dropped   \* history: what skip_mount.cfg had unmounted

vars == <<tree, made, todo, pc, first, parts, dropped>>

Table      == Range(tree)
Mounted(p) == \E m \in Table : m.dir = p

(***************************************************************************)
(* move_mount_tree: main.cpp.                                              *)
(***************************************************************************)
(* Mutant of Wanted: children of listed mounts are listed too. *)
WantedAll(old, new, list, dir) == Below(dir, old) /\ dir # new

(* Not the old root, within it, not the new root, and no child of a mount *)
(* already listed.                                                        *)
Wanted(old, new, list, dir) ==
  /\ Below(dir, old)
  /\ dir # new
  /\ \A d \in Range(list) : ~Below(dir, d)

GetMountsToMove(old, new, table) ==
  LET list[n \in 0..Len(table)] ==
        IF n = 0 THEN <<>>
        ELSE IF Wanted(old, new, list[n - 1], table[n].dir) THEN Append(list[n - 1], table[n].dir)
        ELSE list[n - 1]
  IN list[Len(table)]

(* The arguments of the three calls of move_mount_tree. *)
Move(old, new, rbind) == [old |-> old, new |-> new, rbind |-> rbind]
MoveAt ==
  [ramdisk    |-> Move(Root, Ramdisk, {<<"sys">>}),
   target_tmp |-> Move(Root, TargetTmp, {<<"sys">>}),
   target     |-> Move(TargetTmp, Target, {})]

(* Mutant of ShouldRbind: MOVE_MOUNT_RBIND_DIRS is not heeded. *)
NeverRbind(move, dir) == FALSE

ShouldRbind(move, dir) == \E d \in move.rbind : dir = move.old \o d

(* Mutant of MadeBy: no mkdir(). *)
MadeByNone(dir) == made

(* mkdir() makes one directory, not its parents, in the tmpfs on           *)
(* /target_tmp: the ramdisk has them all, the target is read-only.         *)
MadeBy(dir) ==
  IF Below(dir, TargetTmp) /\ (Front(dir) = TargetTmp \/ Front(dir) \in made)
  THEN made \union {dir} ELSE made

(* Whether mount() finds the directory. *)
IsDirectory(dir, dirs) ==
  CASE Below(dir, TargetTmp) -> dir \in dirs
    [] Below(dir, Target)    -> Moved(dir, Target, <<>>) \in TargetDirs
    [] OTHER                 -> TRUE

Renamed(table, old, new) ==
  [i \in DOMAIN table |->
     IF Under(table[i].dir, old) THEN [table[i] EXCEPT !.dir = Moved(@, old, new)]
                                 ELSE table[i]]

(* mount(MS_MOVE) takes the mounts below along, mount(MS_BIND | MS_REC)    *)
(* copies them.                                                            *)
MovedMount(table, old, new) == Renamed(table, old, new)
BoundMount(table, old, new) ==
  table \o Renamed(Kept(table, {m \in Range(table) : Under(m.dir, old)}), old, new)

(* One mount of the list; a failure of either call is ignored. *)
MoveMount ==
  /\ pc \in DOMAIN MoveAt /\ todo # <<>>
  /\ LET move == MoveAt[pc]
         mnt  == Head(todo)
         dir  == Moved(mnt, move.old, move.new)
     IN /\ made' = MadeBy(dir)
        /\ tree' = IF ~IsDirectory(dir, made') THEN tree
                   ELSE IF ShouldRbind(move, mnt) THEN BoundMount(tree, mnt, dir)
                   ELSE MovedMount(tree, mnt, dir)
  /\ todo' = Tail(todo)
  /\ UNCHANGED <<pc, first, parts, dropped>>

(* The script calls move_mount_tree on the mounts of the table. *)
CallMove(name, table) ==
  /\ pc' = name
  /\ tree' = table
  /\ todo' = GetMountsToMove(MoveAt[name].old, MoveAt[name].new, table)

(***************************************************************************)
(* The script: files/init.                                                 *)
(***************************************************************************)
(* A file system for each path, mounted at that path below dir. *)
MountsOf(paths, of, dir) == [i \in DOMAIN paths |-> Mount(dir \o paths[i], of, paths[i])]

Init ==
  /\ \E some \in SUBSET Range(FirstStage) :
       /\ Always \subseteq some
       /\ first = some
       /\ tree = <<Mount(Root, "system", Root)>>
                   \o MountsOf(Kept(FirstStage, some), "first", Root)
  /\ made = {} /\ todo = <<>> /\ pc = "start" /\ parts = {} /\ dropped = {}

(* init:7-16, the bind mount it copies from already unmounted again *)
CopyToRamdisk ==
  /\ pc = "start"
  /\ CallMove("ramdisk", Append(tree, Mount(Ramdisk, "paralloid", Ramdisk)))
  /\ UNCHANGED <<made, first, parts, dropped>>

Pivoted(table, new, old) ==
  [i \in DOMAIN table |->
     [table[i] EXCEPT !.dir = IF Under(@, new) THEN Moved(@, new, Root) ELSE old \o @]]

(* Mutant of MovesDone: the script does not wait for move_mount_tree. *)
MovesBegun(name) == pc = name

MovesDone(name) == pc = name /\ todo = <<>>

(* init:18-20 *)
EnterRamdisk ==
  /\ MovesDone("ramdisk")
  /\ tree' = Pivoted(tree, Ramdisk, OldRoot)
  /\ pc' = "entered"
  /\ UNCHANGED <<made, todo, first, parts, dropped>>

(* Mutant of RecursiveUmount: umount of the root only, which is busy while *)
(* anything is mounted below.                                              *)
UmountRoot(table, dir) ==
  IF \E m \in Range(table) : Below(m.dir, dir) THEN table
  ELSE Kept(table, {m \in Range(table) : m.dir # dir})

(* Every mount of that directory, the deepest first. *)
RecursiveUmount(table, dir) == Kept(table, {m \in Range(table) : ~Under(m.dir, dir)})

(* init:29-40 *)
FreeSystem ==
  /\ pc = "entered"
  /\ CallMove("target_tmp", Append(RecursiveUmount(tree, OldRoot),
                                   Mount(TargetTmp, "paralloid", TargetTmp)))
  /\ UNCHANGED <<made, first, parts, dropped>>

(* init:42-48 *)
OwnMounts ==
  MountsOf(<< <<"proc">>, <<"config">>, <<"dev">>, <<"tmp">>, <<"sys", "fs", "pstore">> >>,
           "paralloid", Root)

RemountOwn ==
  /\ MovesDone("target_tmp")
  /\ tree' = tree \o OwnMounts
  /\ pc' = "menu"
  /\ UNCHANGED <<made, todo, first, parts, dropped>>

(* What umount removes of the listed mounts: none that has one below. *)
Umounted(table, dirs) ==
  {d \in dirs : /\ \E m \in Range(table) : m.dir = d
                /\ \A m \in Range(table) : ~Below(m.dir, d)}

(* Mutant of SkipMountDir: where the mounts will be, not where they are. *)
SkipUnderTarget(path) == Target \o path

SkipMountDir(path) == TargetTmp \o path

(* init:257-288, for the partitions that exist and the list of that system *)
TargetInternal ==
  /\ pc = "menu"
  /\ \E some \in SUBSET Range(Partitions), skip \in SUBSET Skippable :
       LET table == Append(tree, Mount(Target, "internal", Root))
                      \o MountsOf(Kept(Partitions, some), "internal", TargetTmp)
           gone  == Umounted(table, {SkipMountDir(p) : p \in skip})
       IN /\ CallMove("target", Kept(table, {m \in Range(table) : m.dir \notin gone}))
          /\ parts' = some /\ dropped' = skip
  /\ made' = made \union {TargetTmp \o p : p \in Range(Partitions)}
  /\ UNCHANGED first

(* init:306-314, for an image with or without a product.img.  The umount of *)
(* /target/product (init:311) finds nothing: the mounts of the first stage  *)
(* are still below /target_tmp.                                             *)
TargetImage ==
  /\ pc = "menu"
  /\ \E some \in SUBSET ({<<"product">>} \cap TargetDirs) :
       /\ CallMove("target", Append(tree, Mount(Target, "image", Root))
                                \o MountsOf(Kept(<< <<"product">> >>, some), "image", Target))
       /\ parts' = some
  /\ UNCHANGED <<made, first, dropped>>

(* init:341-349 and 412-422: /dev/null and files of a ramdisk of its own    *)
(* over those files of an image that are there.                             *)
Overrides(some) ==
  MountsOf(<< <<"dev", "mntRAM">> >>, "paralloid", Root)
    \o MountsOf(Kept(Overridden, some), "override", Target)

(* init:327-463.  What else the script has mounted for itself (storage,     *)
(* FunctionFS, /adb_debug.prop) stays below its root as well.               *)
EnterTarget ==
  /\ MovesDone("target")
  /\ \E some \in SUBSET Range(Overridden) :
       tree' = Pivoted(tree \o IF Mount(Target, "image", Root) \in Table
                               THEN Overrides(some) ELSE <<>>,
                       Target, DebugRamdisk)
  /\ pc' = "booted"
  /\ UNCHANGED <<made, todo, first, parts, dropped>>

Terminated == pc = "booted" /\ UNCHANGED vars

Next ==
  \/ CopyToRamdisk \/ EnterRamdisk \/ FreeSystem \/ RemountOwn
  \/ TargetInternal \/ TargetImage \/ EnterTarget
  \/ MoveMount
  \/ Terminated

Spec == Init /\ [][Next]_vars
-----------------------------------------------------------------------------
TypeOK ==
  /\ \A m \in Table : m.of \in {"system", "first", "paralloid", "internal", "image", "override"}
  /\ \A d \in made : Below(d, TargetTmp)
  /\ pc \in {"start", "ramdisk", "entered", "target_tmp", "menu", "target", "booted"}
  /\ todo # <<>> => pc \in DOMAIN MoveAt
  /\ Always \subseteq first /\ first \subseteq Range(FirstStage)
  /\ parts \subseteq Range(Partitions) \union {<<"product">>} /\ dropped \subseteq Skippable

(* "Move operates on subtrees, so do not try to move children of other      *)
(* mounts" (main.cpp:43): what GetMountsToMove found is still there when    *)
(* its turn comes, though every move before may have taken others along.    *)
ListIsCurrent == \A d \in Range(todo) : Mounted(d)

(* "Move all first stage mountpoints to the new root (excluding those that  *)
(* we explicitly unmounted)" (init:325): after three moves, two pivots and  *)
(* a recursive umount, each one is at its own path in the system.           *)
FirstStageDelivered ==
  pc = "booted" => \A p \in first \ dropped : Mount(p, "first", p) \in Table

(* Besides, the system finds its own partitions or product image, except    *)
(* what its skip_mount.cfg lists, one mount per path, and of Paralloid       *)
(* nothing outside /debug_ramdisk but, in an image, the overrides of files.  *)
TargetFindsItsOwn ==
  pc = "booted" =>
    LET shown == {i \in DOMAIN tree : ~Under(tree[i].dir, DebugRamdisk)}
        seen  == {tree[i] : i \in {i \in shown : tree[i].of # "first"}}
    IN /\ \A i, j \in shown : tree[i].dir = tree[j].dir => i = j
       /\ \E of \in {"internal", "image"} :
            LET own   == {Mount(p, of, p) : p \in (parts \ dropped) \union {Root}}
                files == {Mount(p, "override", p) : p \in Range(Overridden)}
            IN /\ own \subseteq seen
               /\ seen \subseteq own \union (IF of = "image" THEN files ELSE {})

(* "Unmount the old root filesystem to free up the system partition"        *)
(* (init:29): from the menu on, when the partition may be flashed, nothing  *)
(* of the original system is mounted anywhere.                              *)
SystemFreed ==
  pc \in {"target_tmp", "menu", "target", "booted"} => \A m \in Table : m.of # "system"

(* "bionic libc wants at least one of /dev/null and /sys/fs/selinux/null    *)
(* otherwise it segfaults" (init:35-39): one of them is there at every      *)
(* step.                                                                    *)
NullDeviceAtHand == Mounted(<<"dev">>) \/ Mounted(<<"sys", "selinux">>)
=============================================================================
