------------------------------ MODULE Installer ------------------------------
(***************************************************************************)
(* The installation protocol of the OmniNX payload (source/main.c,         *)
(* install.c, backup.c, version.c) as it acts on one SD card.              *)
(*                                                                         *)
(* The card is a set of AREAS that share one tree shape: the live tree     *)
(* ("root"), the safety copy ("backup") and one staging folder per pack    *)
(* variant.  A node is a path below an area's own top folder "/", so that  *)
(* copying between areas keeps the node.  In the backup area the node      *)
(* "switch" is the folder sd:/temp_backup itself.                          *)
(*                                                                         *)
(* A run is a walk through STAGES.  Plan(s) is the table of what the C     *)
(* code does at each stage, where it goes when that succeeds, where when   *)
(* it fails, and whether the failure is reported.  The actions execute     *)
(* one file system call at a time; power may go between any two, and any   *)
(* call may fail.                                                          *)
(***************************************************************************)
EXTENDS Naturals, FiniteSets

CONSTANTS
    Nodes,       \* the paths that can exist in an area
    Anc,         \* Anc[n]: the node n and every folder above it
    Folders,     \* the nodes that are directories
    Pack,        \* Pack[v]: the nodes a complete pack of variant v holds
    UserFiles,   \* the files clean mode must carry over
    OtherFiles,  \* the files update mode must leave alone
    UpdateList,  \* the paths of all deletion lists of update mode
    WipeList,    \* those of them that clean mode uses as well
    Starts,      \* the cards a first run may find
    MaxBoots,    \* how often the console is switched on
    MaxFaults    \* how many file system calls fail

Variants == {"standard", "light", "oc"}
Areas == {"root", "backup"} \cup Variants

DBI == "switch/DBI"
Tinfoil == "switch/tinfoil"
ProdKeys == "switch/prod.keys"
Manifest == "config/omninx/manifest.ini"
Payload == "bootloader/update.bin"

DbiNros == { "switch/DBI/DBI_810_EN.nro", "switch/DBI/DBI_810_DE.nro",
             "switch/DBI/DBI_845_EN.nro", "switch/DBI/DBI_845_DE.nro",
             "switch/DBI/DBI.nro" }
TinfoilNros == { "switch/tinfoil/tinfoil.nro" }
RootFiles == { "boot.dat", "boot.ini", "exosphere.ini", "hbmenu.nro",
               "loader.bin", "payload.bin" }
Markers == { "1.0.0l", "1.0.0s", "1.0.0oc", "1.4.0-pre", "1.4.0-pre-c",
             "1.4.0-pre-d", "1.4.1", "1.5.0" }

\* The paths update_mode_install copies; the last one from the OC pack only.
Tops(v) == {"atmosphere", "bootloader", "config", "switch", "warmboot_mariko"}
             \cup RootFiles \cup (IF v = "oc" THEN {"SaltySD"} ELSE {})

\* What a node of an area holds: nothing, a folder, a file cut short, a file
\* of the user, a file of an earlier installation, a file of a pack.
Content == {"absent", "dir", "torn", "user", "old"} \cup Variants
NoNode == "none"

Under(p) == { n \in Nodes : p \in Anc[n] }
Above(n) == Anc[n] \ {n}

ASSUME TreeAssumption ==
    /\ {"/", "switch", "config", "config/omninx", Manifest} \subseteq Nodes
    /\ Anc \in [Nodes -> SUBSET Nodes]
    /\ \A n \in Nodes : n \in Anc[n] /\ "/" \in Anc[n]
    /\ \A n \in Nodes : \A d \in Anc[n] : Anc[d] \subseteq Anc[n]
    /\ \A n \in Nodes : \A d \in Above(n) : n \notin Anc[d]
    /\ \A n \in Nodes : Above(n) \subseteq Folders
    /\ Folders \subseteq Nodes /\ Manifest \notin Folders
    /\ {"/", "switch", "config/omninx"} \subseteq Folders
    /\ Above("switch") = {"/"} /\ Above("/") = {}
    /\ NoNode \notin Nodes

\* UserFiles are what lies below the two folders, and the key file; neither
\* they nor OtherFiles are named by a deletion list or shipped in a pack.  The
\* markers and the root files lie in the top folder, beside what is installed.
ASSUME OwnerAssumption ==
    /\ UserFiles \subseteq (Nodes \ Folders)
    /\ OtherFiles \subseteq (Nodes \ Folders)
    /\ UserFiles \cap OtherFiles = {}
    /\ \A n \in UserFiles : Anc[n] \cap {DBI, Tinfoil, ProdKeys} # {}
    /\ \A n \in UserFiles : Anc[n] \cap (DbiNros \cup TinfoilNros) = {}
    /\ \A n \in UserFiles \cup OtherFiles :
          n # Manifest /\ Anc[n] \cap (UpdateList \cup Markers \cup RootFiles) = {}
    /\ WipeList \subseteq UpdateList
    /\ Anc[Manifest] \cap (UpdateList \cup Markers \cup RootFiles) = {}
    /\ \A n \in Nodes : Anc[n] \cap Markers # {} => Anc[n] \cap Tops("oc") = {}
    /\ Pack \in [Variants -> SUBSET Nodes]
    /\ \A v \in Variants : /\ Pack[v] \cap (UserFiles \cup OtherFiles) = {}
                           /\ \A n \in Pack[v] : Anc[n] \subseteq Pack[v]

ASSUME StartAssumption ==
    /\ MaxBoots \in Nat /\ MaxFaults \in Nat
    /\ Starts \subseteq [ manifest : Variants \cup {"absent", "torn"},
                          old : SUBSET (Nodes \ (Folders \cup {Manifest}
                                              \cup UserFiles \cup OtherFiles)),
                          mine : SUBSET (UserFiles \cup OtherFiles),
                          staged : SUBSET Variants ]

VARIABLES
    sd,        \* the card: what each node of each area holds
    ip,        \* the stage the program is at; "off" before and after a run
    mode,      \* installation mode decided at detection
    variant,   \* the pack variant being installed
    job,       \* the progress of the stage's file operation
    res,       \* the result code that reaches the summary
    boots,     \* runs started so far
    faults,    \* failed calls so far
    start,     \* history: the card before the first run
    whole,     \* history: the staged pack was complete when it was detected
    slipped    \* history: the nodes that an error the code dropped was about

vars == <<sd, ip, mode, variant, job, res, boots, faults, start, whole, slipped>>
-----------------------------------------------------------------------------
(***************************************************************************)
(* The plan: one row per stage.                                            *)
(*   do    what kind of call: mkdir, copy (folder_copy or file_copy),      *)
(*         install (the copy with its fallback), files (a list of single   *)
(*         copies), delete (a list of trees), manifest                     *)
(*   from, to   the areas; paths   what is acted on                        *)
(*   ok, err    the stage that follows success and failure                 *)
(*   stop  the failure becomes the result of the run                       *)
(***************************************************************************)
Row(do, from, to, paths, ok, err, stop) ==
    [do |-> do, from |-> from, to |-> to, paths |-> paths \cap Nodes,
     ok |-> ok, err |-> err, stop |-> stop]

BackupStages == {"bk_mkdir", "bk_DBI", "bk_tinfoil", "bk_keys"}
BackupPlan(s) ==
    CASE s = "bk_mkdir" ->
           Row("mkdir", "root", "backup", {"switch"}, "bk_DBI", "summary", TRUE)
      [] s = "bk_DBI" ->
           Row("copy", "root", "backup", {DBI}, "bk_tinfoil", "summary", TRUE)
      [] s = "bk_tinfoil" ->
           Row("copy", "root", "backup", {Tinfoil}, "bk_keys", "summary", TRUE)
      [] s = "bk_keys" ->
           Row("copy", "root", "backup", {ProdKeys}, "wp_atmosphere", "summary", TRUE)

WipeStages == {"wp_atmosphere", "wp_bootloader", "wp_config", "wp_switch",
               "wp_lists", "wp_mkdir"}
WipePlan(s) ==
    CASE s = "wp_atmosphere" ->
           Row("delete", "root", "root", {"atmosphere"}, "wp_bootloader", "summary", TRUE)
      [] s = "wp_bootloader" ->
           Row("delete", "root", "root", {"bootloader"}, "wp_config", "summary", TRUE)
      [] s = "wp_config" ->
           Row("delete", "root", "root", {"config"}, "wp_switch", "summary", TRUE)
      [] s = "wp_switch" ->
           Row("delete", "root", "root", {"switch"}, "wp_lists", "summary", TRUE)
      [] s = "wp_lists" ->
           Row("delete", "root", "root", WipeList, "wp_mkdir", "wp_lists", FALSE)
      [] s = "wp_mkdir" ->
           Row("mkdir", "root", "root", {"switch"}, "rs_mkdir", "rs_mkdir", FALSE)

\* A failed restore of a folder is overwritten by the next call's result; a
\* failed restore of the keys is reported.  Either way the backup is deleted.
RestoreStages == {"rs_mkdir", "rs_DBI", "rs_DBI_nro", "rs_tinfoil",
                  "rs_tinfoil_nro", "rs_keys", "rs_cleanup"}
RestorePlan(s) ==
    CASE s = "rs_mkdir" ->
           Row("mkdir", "root", "root", {"switch"}, "rs_DBI", "rs_cleanup", TRUE)
      [] s = "rs_DBI" ->
           Row("copy", "backup", "root", {DBI}, "rs_DBI_nro", "rs_tinfoil", FALSE)
      [] s = "rs_DBI_nro" ->
           Row("delete", "root", "root", DbiNros, "rs_tinfoil", "rs_DBI_nro", FALSE)
      [] s = "rs_tinfoil" ->
           Row("copy", "backup", "root", {Tinfoil}, "rs_tinfoil_nro", "rs_keys", FALSE)
      [] s = "rs_tinfoil_nro" ->
           Row("delete", "root", "root", TinfoilNros, "rs_keys", "rs_tinfoil_nro", FALSE)
      [] s = "rs_keys" ->
           Row("copy", "backup", "root", {ProdKeys}, "rs_cleanup", "rs_cleanup", TRUE)
      [] s = "rs_cleanup" ->
           LET next == IF res = "ok" THEN "in_atmosphere" ELSE "summary"
           IN  Row("delete", "root", "backup", {"switch"}, next, next, FALSE)

InstallStages == {"in_atmosphere", "in_bootloader", "in_config", "in_switch",
                  "in_warmboot", "in_SaltySD", "in_files", "mf_mkdir",
                  "mf_write", "mk_clean"}
InstallPlan(s) ==
    CASE s = "in_atmosphere" ->
           Row("install", variant, "root", {"atmosphere"}, "in_bootloader", "summary", TRUE)
      [] s = "in_bootloader" ->
           Row("install", variant, "root", {"bootloader"}, "in_config", "summary", TRUE)
      [] s = "in_config" ->
           Row("install", variant, "root", {"config"}, "in_switch", "summary", TRUE)
      [] s = "in_switch" ->
           Row("install", variant, "root", {"switch"}, "in_warmboot", "summary", TRUE)
      [] s = "in_warmboot" ->
           Row("install", variant, "root", {"warmboot_mariko"},
               IF variant = "oc" THEN "in_SaltySD" ELSE "in_files", "summary", TRUE)
      [] s = "in_SaltySD" ->
           Row("install", variant, "root", {"SaltySD"}, "in_files", "summary", TRUE)
      [] s = "in_files" ->
           Row("files", variant, "root", RootFiles, "mf_mkdir", "in_files", FALSE)
      [] s = "mf_mkdir" ->
           Row("mkdir", "root", "root", {"config/omninx"}, "mf_write", "mf_write", FALSE)
      [] s = "mf_write" ->
           Row("manifest", variant, "root", {Manifest}, "mk_clean", "mk_clean", FALSE)
      [] s = "mk_clean" ->
           Row("delete", "root", "root", Markers, "staging", "mk_clean", FALSE)

Work == BackupStages \cup WipeStages \cup RestoreStages \cup InstallStages
          \cup {"up_lists", "staging"}
Plan(s) ==
    CASE s \in BackupStages  -> BackupPlan(s)
      [] s \in WipeStages    -> WipePlan(s)
      [] s \in RestoreStages -> RestorePlan(s)
      [] s \in InstallStages -> InstallPlan(s)
      [] s = "up_lists" ->
           Row("delete", "root", "root", UpdateList, "in_atmosphere", "up_lists", FALSE)
      [] s = "staging" ->
           Row("delete", "root", variant, {"/"}, "summary", "summary", TRUE)

Now == Plan(ip)
\* Where a run ends; only the next power-on leads out of these.
Final == {"rebooted", "chainloaded", "halted", "hung"}
Waiting == {"confirm", "nopack", "summary", "missing"}
Stages == Work \cup Waiting \cup Final \cup {"off", "detect"}
-----------------------------------------------------------------------------
Present(a, p) == { n \in Under(p) : sd[a][n] # "absent" }
CanCreate(a, n) == \A d \in Above(n) : sd[a][d] = "dir"
Put(a, n, c) == sd' = [sd EXCEPT ![a][n] = c]

Idle == [left |-> {}, todo |-> {}, open |-> NoNode, again |-> FALSE]
Enter(s) ==
    /\ ip' = s
    /\ job' = IF s \in Work THEN [Idle EXCEPT !.left = Plan(s).paths] ELSE Idle

\* One call fails that could have succeeded.
Fault == faults < MaxFaults /\ faults' = faults + 1

\* The code drops an error: a failed lookup taken for an absent path, a failed flush at
\* f_close, a root file not copied, a failed restore, a file the next run relies on
\* left cut short.  What it was about is remembered.
Slip(nodes) == slipped' = slipped \cup nodes

\* The card as the user hands it over: what an earlier installation and the
\* user left in the live tree, complete packs in the staging folders.
StartCard(c) ==
    LET files == c.old \cup c.mine
                   \cup (IF c.manifest = "absent" THEN {} ELSE {Manifest})
        live(n) == CASE n = "/" -> "dir"
                     [] n = Manifest -> c.manifest
                     [] n \in c.old -> "old"
                     [] n \in c.mine -> "user"
                     [] n \in Folders \ {"/"} /\ (\E f \in files : n \in Anc[f]) -> "dir"
                     [] OTHER -> "absent"
        staged(v, n) == IF v \notin c.staged \/ n \notin Pack[v] THEN "absent"
                        ELSE IF n \in Folders THEN "dir" ELSE v
    IN  [a \in Areas |-> [n \in Nodes |->
            IF a = "root" THEN live(n)
            ELSE IF a = "backup" THEN (IF n = "/" THEN "dir" ELSE "absent")
            ELSE staged(a, n)]]

Init ==
    /\ start \in Starts
    /\ sd = StartCard(start)
    /\ ip = "off" /\ job = Idle
    /\ mode = "none" /\ variant = "none" /\ res = "ok"
    /\ boots = 0 /\ faults = 0
    /\ whole = FALSE /\ slipped = {}
-----------------------------------------------------------------------------
(* Power, detection and the questions put to the user (main.c).            *)

PowerOn ==
    /\ ip \in {"off"} \cup Final /\ boots < MaxBoots
    /\ boots' = boots + 1 /\ res' = "ok"
    /\ mode' = "none" /\ variant' = "none" /\ whole' = FALSE
    /\ Enter("detect")
    /\ UNCHANGED <<sd, faults, start, slipped>>

\* The card does not mount: reboot.
MountFails ==
    /\ ip = "detect" /\ Fault
    /\ Enter("rebooted")
    /\ UNCHANGED <<sd, mode, variant, res, boots, start, whole, slipped>>

\* detect_pack_variant looks for the staging folders in this order.
Rank == [standard |-> 1, light |-> 2, oc |-> 3]
Seen == { v \in Variants : sd[v]["/"] # "absent" }
Complete(v) == \A n \in Pack[v] : sd[v][n] # "absent"

DecideByVariant(manifest, seen) ==  \* mutant: another variant is no update
    /\ \/ seen = {} /\ variant' = "none" /\ whole' = FALSE /\ Enter("nopack")
       \/ \E v \in seen :
             /\ \A w \in seen : Rank[v] <= Rank[w]
             /\ variant' = v /\ whole' = Complete(v) /\ Enter("confirm")
    /\ mode' = IF manifest = variant' THEN "update" ELSE "clean"

DecideRaw(manifest, seen) ==  \* mutant: the variant found is taken for the mode
    /\ mode' = IF manifest \in Variants THEN manifest ELSE "clean"
    /\ \/ seen = {} /\ variant' = "none" /\ whole' = FALSE /\ Enter("nopack")
       \/ \E v \in seen :
             /\ \A w \in seen : Rank[v] <= Rank[w]
             /\ variant' = v /\ whole' = Complete(v) /\ Enter("confirm")

Decide(manifest, seen) ==
    /\ mode' = IF manifest \in Variants THEN "update" ELSE "clean"
    /\ \/ seen = {} /\ variant' = "none" /\ whole' = FALSE /\ Enter("nopack")
       \/ \E v \in seen :
             /\ \A w \in seen : Rank[v] <= Rank[w]
             /\ variant' = v /\ whole' = Complete(v) /\ Enter("confirm")

Detect ==
    /\ ip = "detect"
    /\ Decide(sd["root"][Manifest], Seen)
    /\ UNCHANGED <<sd, res, boots, faults, start, slipped>>

\* A lookup or the parse of the manifest fails, and the code takes the file
\* or the folder for absent.
DetectBlind ==
    /\ ip = "detect" /\ Fault
    /\ \/ Decide("absent", Seen) /\ Slip({Manifest})
       \/ (\E v \in Seen : Decide(sd["root"][Manifest], Seen \ {v})) /\ UNCHANGED slipped
    /\ UNCHANGED <<sd, res, boots, start>>

\* ini_parse never sees the end of a file it cannot read.  An empty manifest
\* gives it a section whose list is not initialised, which the caller walks:
\* anything may follow, here the end of the run or (Detect) no effect.
DetectHangs ==
    /\ ip = "detect" /\ sd["root"][Manifest] # "absent"
    /\ sd["root"][Manifest] # "torn" => faults < MaxFaults
    /\ faults' = IF sd["root"][Manifest] = "torn" THEN faults ELSE faults + 1
    /\ Enter("hung")
    /\ UNCHANGED <<sd, mode, variant, res, boots, start, whole, slipped>>

ConfirmUnsaved ==  \* mutant: clean mode starts with the wipe
    /\ ip = "confirm"
    /\ Enter(IF mode = "update" THEN "up_lists" ELSE "wp_atmosphere")
    /\ UNCHANGED <<sd, mode, variant, res, boots, faults, start, whole, slipped>>

Confirm ==
    /\ ip = "confirm"
    /\ Enter(IF mode = "update" THEN "up_lists" ELSE "bk_mkdir")
    /\ UNCHANGED <<sd, mode, variant, res, boots, faults, start, whole, slipped>>

\* A key at the end of a run, or with no pack to install, starts hekate.
Launch ==
    /\ ip \in {"summary", "nopack"} /\ sd["root"][Payload] # "absent"
    /\ Enter("chainloaded")
    /\ UNCHANGED <<sd, mode, variant, res, boots, faults, start, whole, slipped>>

\* launch_payload returns only when it fails; nothing is left to run.
LaunchFails ==
    /\ ip \in {"summary", "nopack"} /\ sd["root"][Payload] # "absent" /\ Fault
    /\ Enter("halted")
    /\ UNCHANGED <<sd, mode, variant, res, boots, start, whole, slipped>>

\* A payload that is not there, or whose lookup fails.
NoPayload ==
    /\ ip \in {"summary", "nopack"}
    /\ sd["root"][Payload] # "absent" => faults < MaxFaults
    /\ faults' = IF sd["root"][Payload] = "absent" THEN faults ELSE faults + 1
    /\ Enter(IF ip = "summary" THEN "missing" ELSE "rebooted")
    /\ UNCHANGED <<sd, mode, variant, res, boots, start, whole, slipped>>

Reboot ==
    /\ ip = "missing" /\ Enter("rebooted")
    /\ UNCHANGED <<sd, mode, variant, res, boots, faults, start, whole, slipped>>

\* What power loss or a failed call leaves behind when the file being
\* written is one the next run relies on.
CutShort ==
    IF ip \in Work /\ Now.to = "root" THEN {job.open} \cap (UserFiles \cup {Manifest}) ELSE {}

PowerLoss ==
    /\ ip \notin {"off"} \cup Final
    /\ Enter("off") /\ Slip(CutShort)
    /\ UNCHANGED <<sd, mode, variant, res, boots, faults, start, whole>>
-----------------------------------------------------------------------------
(* The file system work of a stage (fs.c, and the copy in install.c).      *)

Doing(kinds) == ip \in Work /\ Now.do \in kinds
Copies == {"copy", "install", "files"}
Resting == job.todo = {} /\ job.open = NoNode

\* The next path of the stage: what is there is what will be walked.
VisitAgain(p) ==  \* mutant: the list never advances
    /\ Resting /\ p \in job.left /\ Doing(Copies \cup {"delete"})
    /\ LET a == IF Now.do = "delete" THEN Now.to ELSE Now.from
       IN  job' = [job EXCEPT !.todo = Present(a, p)]
    /\ UNCHANGED <<sd, ip, mode, variant, res, boots, faults, start, whole, slipped>>

Visit(p) ==
    /\ Resting /\ p \in job.left /\ Doing(Copies \cup {"delete"})
    /\ LET a == IF Now.do = "delete" THEN Now.to ELSE Now.from
       IN  job' = [job EXCEPT !.left = @ \ {p}, !.todo = Present(a, p)]
    /\ UNCHANGED <<sd, ip, mode, variant, res, boots, faults, start, whole, slipped>>

\* path_exists reports a failed f_stat as an absent path.
Overlook(p) ==
    /\ Resting /\ p \in job.left /\ Doing(Copies \cup {"delete"})
    /\ ~job.again /\ Fault /\ Slip(IF Now.do = "delete" THEN {} ELSE Under(p))
    /\ job' = [job EXCEPT !.left = @ \ {p}]
    /\ UNCHANGED <<sd, ip, mode, variant, res, boots, start, whole>>

\* count_directory_items reports a folder it cannot open as empty, and for an
\* empty folder only the destination is made.
Miscount(p) ==
    /\ Doing({"install"}) /\ Resting /\ p \in job.left /\ ~job.again
    /\ p \in Folders /\ sd[Now.from][p] # "absent"
    /\ Fault /\ Slip(Under(p))
    /\ job' = [job EXCEPT !.left = @ \ {p}, !.todo = {p}]
    /\ UNCHANGED <<sd, ip, mode, variant, res, boots, start, whole>>

\* A folder is made before anything in it is copied.
Ready(n) == job.open = NoNode /\ n \in job.todo /\ Above(n) \cap job.todo = {}

CopyFolderFlat(n) ==  \* mutant: a folder within a folder stays empty
    /\ Doing(Copies) /\ Ready(n) /\ n \in Folders /\ CanCreate(Now.to, n)
    /\ Put(Now.to, n, "dir")
    /\ job' = [job EXCEPT !.todo = @ \ (IF Above(n) = {"/"} THEN {n} ELSE Under(n))]
    /\ UNCHANGED <<ip, mode, variant, res, boots, faults, start, whole, slipped>>

CopyFolder(n) ==
    /\ Doing(Copies) /\ Ready(n) /\ n \in Folders /\ CanCreate(Now.to, n)
    /\ Put(Now.to, n, "dir")
    /\ job' = [job EXCEPT !.todo = @ \ {n}]
    /\ UNCHANGED <<ip, mode, variant, res, boots, faults, start, whole, slipped>>

\* FA_CREATE_ALWAYS empties the destination; its size is written at f_close.
CopyOpen(n) ==
    /\ Doing(Copies) /\ Ready(n) /\ n \notin Folders /\ CanCreate(Now.to, n)
    /\ Put(Now.to, n, "torn")
    /\ job' = [job EXCEPT !.open = n]
    /\ UNCHANGED <<ip, mode, variant, res, boots, faults, start, whole, slipped>>

Closed == [job EXCEPT !.todo = @ \ {job.open}, !.open = NoNode]

CopyCloseLast ==  \* mutant: the loop over a folder ends with its first file
    /\ Doing(Copies) /\ job.open # NoNode
    /\ Put(Now.to, job.open, sd[Now.from][job.open])
    /\ job' = [job EXCEPT !.todo = {}, !.open = NoNode]
    /\ UNCHANGED <<ip, mode, variant, res, boots, faults, start, whole, slipped>>

CopyClose ==
    /\ Doing(Copies) /\ job.open # NoNode
    /\ Put(Now.to, job.open, sd[Now.from][job.open])
    /\ job' = Closed
    /\ UNCHANGED <<ip, mode, variant, res, boots, faults, start, whole, slipped>>

\* file_copy does not look at what f_close returns.
CopyUnflushed ==
    /\ Doing(Copies) /\ job.open # NoNode
    /\ Fault /\ Slip({job.open})
    /\ job' = Closed
    /\ UNCHANGED <<sd, ip, mode, variant, res, boots, start, whole>>

\* A call of update_mode_install's list of root files fails: the result is
\* not looked at, the list goes on.
RootFileError ==
    /\ Doing({"files"}) /\ job.todo # {} /\ Fault
    /\ job' = [job EXCEPT !.todo = {}, !.open = NoNode]
    /\ Slip(job.todo)
    /\ UNCHANGED <<sd, ip, mode, variant, res, boots, start, whole>>

\* An empty folder is only made (install.c:224-235): nothing is tried again.
Alone == job.todo \subseteq Now.paths

\* A call of folder_copy_progress_recursive fails: folder_copy starts over.
FallBackAssumed ==  \* mutant: the fallback is taken for done
    /\ Doing({"install"}) /\ ~job.again /\ ~Alone /\ Fault
    /\ Enter(Now.ok) /\ Slip(CutShort)
    /\ UNCHANGED <<sd, mode, variant, res, boots, start, whole>>

FallBack ==
    /\ Doing({"install"}) /\ ~job.again /\ ~Alone /\ Fault
    /\ job' = [Idle EXCEPT !.left = Now.paths, !.again = TRUE] /\ Slip(CutShort)
    /\ UNCHANGED <<sd, ip, mode, variant, res, boots, start, whole>>

\* What a restore that is broken off leaves undone.
Unrestored ==
    IF ip \in RestoreStages THEN job.todo \cup UNION {Under(p) : p \in job.left} ELSE {}

\* A call of folder_copy or file_copy fails: the stage is left.
CopyErrorGoesOn ==  \* mutant: the result of folder_copy is not looked at
    /\ Doing({"copy", "install"}) /\ (Now.do = "install" => job.again \/ Alone)
    /\ job.todo # {} /\ Fault
    /\ Enter(Now.ok)
    /\ Slip(CutShort \cup Unrestored)
    /\ UNCHANGED <<sd, mode, variant, res, boots, start, whole>>

CopyError ==
    /\ Doing({"copy", "install"}) /\ (Now.do = "install" => job.again \/ Alone)
    /\ job.todo # {} /\ Fault
    /\ Enter(Now.err)
    /\ res' = IF Now.stop THEN "error" ELSE res
    /\ Slip(CutShort \cup Unrestored)
    /\ UNCHANGED <<sd, mode, variant, boots, start, whole>>

\* A folder is removed once it is empty.
DeleteNodeTopDown(n) ==  \* mutant: a folder is removed with what is in it
    /\ Doing({"delete"}) /\ n \in job.todo
    /\ Put(Now.to, n, "absent")
    /\ job' = [job EXCEPT !.todo = @ \ {n}]
    /\ UNCHANGED <<ip, mode, variant, res, boots, faults, start, whole, slipped>>

DeleteNode(n) ==
    /\ Doing({"delete"}) /\ n \in job.todo /\ Under(n) \cap job.todo = {n}
    /\ Put(Now.to, n, "absent")
    /\ job' = [job EXCEPT !.todo = @ \ {n}]
    /\ UNCHANGED <<ip, mode, variant, res, boots, faults, start, whole, slipped>>

\* delete_path_list goes on with its next path.
DeleteError ==
    /\ Doing({"delete"}) /\ job.todo # {} /\ Fault
    /\ IF Now.err = ip THEN job' = [job EXCEPT !.todo = {}] /\ UNCHANGED ip
                       ELSE Enter(Now.err)
    /\ res' = IF Now.stop THEN "error" ELSE res
    /\ UNCHANGED <<sd, mode, variant, boots, start, whole, slipped>>

\* f_mkdir; FR_EXIST is as good as FR_OK.
MakeFolder(n) ==
    /\ Doing({"mkdir"}) /\ n \in job.left /\ CanCreate(Now.to, n)
    /\ Put(Now.to, n, "dir") /\ Enter(Now.ok)
    /\ UNCHANGED <<mode, variant, res, boots, faults, start, whole, slipped>>

MakeFolderError(n) ==
    /\ Doing({"mkdir"}) /\ n \in job.left
    /\ CanCreate(Now.to, n) => faults < MaxFaults
    /\ faults' = IF CanCreate(Now.to, n) THEN faults + 1 ELSE faults
    /\ Enter(Now.err)
    /\ res' = IF Now.stop THEN "error" ELSE res
    /\ Slip(IF ip = "rs_mkdir" THEN UserFiles ELSE {})
    /\ UNCHANGED <<sd, mode, variant, boots, start, whole>>

ManifestOpen ==
    /\ Doing({"manifest"}) /\ job.open = NoNode /\ CanCreate("root", Manifest)
    /\ Put("root", Manifest, "torn")
    /\ job' = [job EXCEPT !.open = Manifest]
    /\ UNCHANGED <<ip, mode, variant, res, boots, faults, start, whole, slipped>>

ManifestClose ==
    /\ Doing({"manifest"}) /\ job.open = Manifest
    /\ Put("root", Manifest, variant) /\ Enter(Now.ok)
    /\ UNCHANGED <<mode, variant, res, boots, faults, start, whole, slipped>>

\* A manifest that cannot be opened is a warning; one that cannot be written
\* or closed goes unnoticed.
ManifestError ==
    /\ Doing({"manifest"})
    /\ CanCreate("root", Manifest) => faults < MaxFaults
    /\ faults' = IF CanCreate("root", Manifest) THEN faults + 1 ELSE faults
    /\ Enter(Now.err) /\ Slip({Manifest})
    /\ UNCHANGED <<sd, mode, variant, res, boots, start, whole>>

StageDone ==
    /\ Doing(Copies \cup {"delete"}) /\ Resting /\ job.left = {}
    /\ Enter(Now.ok)
    /\ UNCHANGED <<sd, mode, variant, res, boots, faults, start, whole, slipped>>
-----------------------------------------------------------------------------
\* What the program does by itself when every call succeeds.
Progress ==
    \/ Detect \/ CopyClose \/ ManifestOpen \/ ManifestClose \/ StageDone
    \/ \E n \in job.left : Visit(n) \/ MakeFolder(n)
    \/ \E n \in job.todo : CopyFolder(n) \/ CopyOpen(n) \/ DeleteNode(n)

\* Failing calls.  An f_mkdir or f_open below a missing folder fails anyway.
Failure ==
    \/ MountFails \/ DetectBlind \/ DetectHangs \/ LaunchFails \/ CopyUnflushed
    \/ RootFileError \/ FallBack \/ CopyError
    \/ DeleteError \/ ManifestError
    \/ \E n \in job.left : Overlook(n) \/ Miscount(n) \/ MakeFolderError(n)

\* The user at the buttons.
Press == Confirm \/ Launch \/ NoPayload \/ Reboot

Next == Progress \/ Failure \/ Press \/ PowerOn \/ PowerLoss

Spec == Init /\ [][Next]_vars

\* The program runs on by itself; the user and the power need not oblige.
FairSpec == Spec /\ WF_vars(Progress \/ Failure)
-----------------------------------------------------------------------------
(* Properties.                                                             *)

\* Every variable has the shape the code gives it.
TypeOK ==
    /\ sd \in [Areas -> [Nodes -> Content]]
    /\ ip \in Stages
    /\ mode \in {"none", "update", "clean"}
    /\ variant \in Variants \cup {"none"}
    /\ job \in [left : SUBSET Nodes, todo : SUBSET Nodes,
                open : Nodes \cup {NoNode}, again : BOOLEAN]
    /\ res \in {"ok", "error"}
    /\ boots \in 0..MaxBoots /\ faults \in 0..MaxFaults
    /\ start \in Starts /\ whole \in BOOLEAN
    /\ slipped \in SUBSET Nodes

\* However often the power goes and whatever else fails, every file below
\* switch/DBI and switch/tinfoil and the prod.keys that the user had is whole
\* in the live tree or in the backup (backup_user_data, clean_mode_wipe,
\* clean_mode_restore), but for those that an error the code dropped was about:
\* not looked up, not flushed, not restored or cut short while it was restored.
UserDataSafe ==
    \A n \in (UserFiles \cap start.mine) \ slipped : "user" \in {sd["root"][n], sd["backup"][n]}

\* The wipe starts with a whole backup of everything it is about to delete
\* (the early returns of backup_user_data and perform_installation).
WipeNeedsBackup ==
    ip \in WipeStages => \A n \in (UserFiles \cap start.mine) \ slipped : sd["backup"][n] = "user"

\* A card that came with OmniNX installed keeps the files of the user that no
\* deletion list names, through any number of interrupted runs and failing calls,
\* as long as the manifest that marks it as installed was not left cut short,
\* misread or not written: update mode never turns into clean mode (main.c:287).
UpdateKeepsOthers ==
    start.manifest \in Variants /\ Manifest \notin slipped =>
        \A n \in OtherFiles \cap start.mine : sd["root"][n] = "user"

\* The part of a pack that update_mode_install copies.
Shipped(v) == { n \in Pack[v] : Anc[n] \cap Tops(v) # {} }

\* When the summary reports success for a pack that was whole when it was
\* detected, all of it is in place and the manifest names it (main.c:363), but
\* for what an error dropped on the way was about.
SuccessIsReal ==
    ip = "summary" /\ res = "ok" /\ whole =>
        /\ \A n \in Shipped(variant) \ slipped :
              sd["root"][n] = IF n \in Folders THEN "dir" ELSE variant
        /\ Manifest \notin slipped => sd["root"][Manifest] = variant

\* A file of a pack is deleted from its staging folder only when its copy in
\* the live tree is whole, so that a run that fails can be repeated
\* (cleanup_staging_directory comes last, and only after FR_OK), but for the
\* files that a dropped error was about.
PackMovedNotLost ==
    [][ \A v \in Variants : \A n \in Shipped(v) \ slipped :
          sd[v][n] # "absent" /\ sd'[v][n] = "absent" => sd["root"][n] = sd[v][n] ]_vars

\* The card stays a tree: what exists lies in folders that exist.  Visit
\* relies on it where it takes an absent folder for an empty one.
CardIsTree ==
    \A a \in Areas : \A n \in Nodes :
        sd[a][n] # "absent" => CanCreate(a, n)

\* An installation never hangs: it gets to its summary or loses power,
\* whatever fails (the retry of folder_copy_with_progress_v2 and the lists
\* that go on after a failure included).
ReachesPrompt == ip \in Work ~> ip \in Waiting \cup Final \cup {"off"}
=============================================================================
