------------------------------ MODULE PackProofs ------------------------------
(***************************************************************************)
(* What an installation puts on the card and what it leaves alone.         *)
(* TreeInv and PackInv are inductive beside TInv and UserDataInv, and      *)
(* CardIsTree, UpdateKeepsOthers, SuccessIsReal and PackMovedNotLost       *)
(* follow from them.                                                       *)
(***************************************************************************)
EXTENDS InstallerProofs

(***************************************************************************)
(* The card stays a tree: TreeInv is inductive beside TInv and UserDataInv *)
(***************************************************************************)

\* What the shape of the tree says of two nodes.
LEMMA Below ==
    ASSUME NEW n \in Nodes, NEW d \in Above(n)
    PROVE  /\ d \in Nodes /\ d \in Folders /\ d # n /\ n \in Under(d)
           /\ n \notin Above(d) /\ Above(d) \subseteq Above(n)
  BY TreeAssumption DEF Above, Under

LEMMA UnderUnder ==
    ASSUME NEW p \in Nodes, NEW n \in Under(p), NEW m \in Under(n)
    PROVE  m \in Under(p) /\ n \in Nodes /\ m \in Nodes
  BY TreeAssumption DEF Under

\* One node of one area is written: a node appears where its folders are, a
\* file never turns into more than a file, and what goes has nothing below it.
LEMMA PutTree ==
    ASSUME sd \in [Areas -> [Nodes -> Content]], CardIsTree,
           NEW a \in Areas, NEW n \in Nodes, NEW c, Put(a, n, c),
           c # "absent" => CanCreate(a, n),
           c = "absent" => Present(a, n) \subseteq {n},
           c \in {"absent", "dir"} \/ n \notin Folders
    PROVE  CardIsTree'
<1> SUFFICES ASSUME NEW b \in Areas, NEW m \in Nodes, sd'[b][m] # "absent", NEW d \in Above(m)
             PROVE  sd'[b][d] = "dir"
  BY DEF CardIsTree, CanCreate
<1>d. d \in Nodes /\ d \in Folders /\ d # m /\ m \in Under(d)
  BY Below
<1>1. CASE a # b
  BY <1>1, PutElsewhere DEF CardIsTree, CanCreate
<1>2. CASE a = b /\ m = n
  BY <1>d, <1>2 DEF Put, CanCreate
<1>3. CASE a = b /\ m # n /\ d # n
  BY <1>d, <1>3 DEF Put, CardIsTree, CanCreate
<1>4. CASE a = b /\ m # n /\ d = n
  <2>1. sd[a][m] # "absent" /\ m \in Present(a, n)
    BY <1>d, <1>4 DEF Put, Present
  <2> QED
    BY <1>d, <1>4, <2>1 DEF Put
<1> QED
  BY <1>1, <1>2, <1>3, <1>4

\* The steps after which a file is open.
LEMMA OpenSteps ==
    ASSUME TInv, JobInv, [Next]_vars
    PROVE  \/ job'.open = NoNode
           \/ UNCHANGED vars
           \/ \E n \in job.todo : CopyOpen(n)
           \/ ManifestOpen
<1>t. job \in Jobs
  BY DEF TInv, TypeOK, Jobs
<1>d. ASSUME Doing({"delete"}) PROVE job.open = NoNode
  BY <1>d DEF Doing, JobInv, Copies
<1>e. ASSUME NEW s, Enter(s) PROVE job'.open = NoNode
  BY <1>e DEF Enter, Idle
<1>1. CASE \/ PowerOn \/ MountFails \/ DetectHangs \/ Launch \/ LaunchFails \/ NoPayload
           \/ Reboot \/ PowerLoss \/ Confirm \/ CopyError \/ ManifestClose \/ ManifestError
           \/ StageDone \/ Detect \/ DetectBlind
           \/ \E n \in job.left : MakeFolder(n) \/ MakeFolderError(n)
  BY <1>1, <1>e DEF PowerOn, MountFails, DetectHangs, Launch, LaunchFails, NoPayload, Reboot,
     PowerLoss, Confirm, CopyError, ManifestClose, ManifestError, StageDone, Detect, DetectBlind,
     Decide, MakeFolder, MakeFolderError
<1>2. CASE \E p \in job.left : Visit(p) \/ Overlook(p) \/ Miscount(p)
  BY <1>2, <1>t DEF Visit, Overlook, Miscount, Resting, Jobs
<1>3. CASE CopyClose \/ CopyUnflushed \/ RootFileError \/ FallBack
  BY <1>3, <1>t DEF CopyClose, CopyUnflushed, RootFileError, FallBack, Closed, Idle, Jobs
<1>4. CASE \E n \in job.todo : CopyFolder(n)
  BY <1>4, <1>t DEF CopyFolder, Ready, Jobs
<1>5. CASE \E n \in job.todo : DeleteNode(n)
  BY <1>5, <1>t, <1>d DEF DeleteNode, Jobs
<1>6. CASE DeleteError
  BY <1>6, <1>t, <1>d, <1>e DEF DeleteError, Jobs
<1> QED
  BY <1>1, <1>2, <1>3, <1>4, <1>5, <1>6 DEF Next, Progress, Failure, Press
-----------------------------------------------------------------------------
(* The three parts of TreeInv.                                             *)

LEMMA CardStep == TInv /\ JobInv /\ TreeInv /\ [Next]_vars => CardIsTree'
<1> SUFFICES ASSUME TInv, JobInv, TreeInv, [Next]_vars PROVE CardIsTree'
  OBVIOUS
<1>t. /\ sd \in [Areas -> [Nodes -> Content]] /\ job \in Jobs /\ CardIsTree
      /\ Manifest \in Nodes /\ Manifest \notin Folders /\ {"root", "backup"} \subseteq Areas
  BY TreeAssumption DEF TInv, TypeOK, Jobs, TreeInv, Areas
<1>s. ASSUME UNCHANGED sd PROVE CardIsTree'
  BY <1>s, <1>t DEF CardIsTree, CanCreate
<1>w. ASSUME ip \in Work
      PROVE  /\ Now.from \in Areas /\ Now.to \in Areas /\ Now.paths \subseteq Nodes
             /\ job.left \subseteq Now.paths
             /\ Now.do \in Copies => \A n \in job.todo : sd[Now.from][n] # "absent"
             /\ job.open # NoNode =>
                  \/ Now.do \in Copies /\ job.open \in job.todo
                  \/ Now.do = "manifest" /\ job.open = Manifest
             /\ variant \in Variants
  BY <1>w, NowType DEF JobInv
<1>1. ASSUME NEW n \in job.todo, CopyFolder(n) PROVE CardIsTree'
  <2>1. /\ n \in Nodes /\ Now.to \in Areas /\ CanCreate(Now.to, n) /\ Put(Now.to, n, "dir")
    BY <1>1, <1>t, <1>w DEF CopyFolder, Doing, Jobs
  <2> QED
    BY <1>t, <2>1, PutTree
<1>2. ASSUME NEW n \in job.todo, CopyOpen(n) PROVE CardIsTree'
  <2>1. /\ n \in Nodes /\ Now.to \in Areas /\ CanCreate(Now.to, n) /\ Put(Now.to, n, "torn")
        /\ n \notin Folders
    BY <1>2, <1>t, <1>w DEF CopyOpen, Doing, Jobs
  <2> QED
    BY <1>t, <2>1, PutTree
<1>3. CASE CopyClose
  <2> DEFINE o == job.open
             c == sd[Now.from][o]
  <2>1. /\ o \in Nodes /\ o \notin Folders /\ Now.to \in Areas /\ Put(Now.to, o, c)
        /\ sd[Now.to][o] = "torn" /\ c # "absent"
    BY <1>3, <1>t, <1>w DEF CopyClose, Doing, Jobs, TreeInv, OpenIsTorn, Copies
  <2>2. CanCreate(Now.to, o)
    BY <1>t, <2>1 DEF CardIsTree
  <2> QED
    BY <1>t, <2>1, <2>2, PutTree
<1>4. ASSUME NEW n \in job.todo, DeleteNode(n) PROVE CardIsTree'
  <2>1. /\ n \in Nodes /\ Now.to \in Areas /\ Put(Now.to, n, "absent")
        /\ Under(n) \cap job.todo = {n} /\ ip \in Work /\ Now.do = "delete"
    BY <1>4, <1>t, <1>w DEF DeleteNode, Doing, Jobs
  <2>2. Present(Now.to, n) \subseteq {n}
    BY <2>1 DEF TreeInv, DeletesBelow, Present
  <2> QED
    BY <1>t, <2>1, <2>2, PutTree
<1>5. ASSUME NEW n \in job.left, MakeFolder(n) PROVE CardIsTree'
  <2>1. n \in Nodes /\ Now.to \in Areas /\ CanCreate(Now.to, n) /\ Put(Now.to, n, "dir")
    BY <1>5, <1>t, <1>w DEF MakeFolder, Doing, Jobs
  <2> QED
    BY <1>t, <2>1, PutTree
<1>6. CASE ManifestOpen
  <2>1. CanCreate("root", Manifest) /\ Put("root", Manifest, "torn")
    BY <1>6 DEF ManifestOpen
  <2> QED
    BY <1>t, <2>1, PutTree
<1>7. CASE ManifestClose
  <2>1. /\ ip \in Work /\ Now.to = "root" /\ job.open = Manifest
        /\ Put("root", Manifest, variant) /\ variant \in Variants /\ variant # "absent"
    BY <1>7, <1>w, ManifestRow DEF ManifestClose, Doing, Now, Variants
  <2>2. sd["root"][Manifest] = "torn"
    BY <1>t, <2>1, TreeAssumption DEF TreeInv, OpenIsTorn
  <2>3. CanCreate("root", Manifest)
    BY <1>t, <2>2 DEF CardIsTree
  <2> QED
    BY <1>t, <2>1, <2>3, PutTree
<1>8. CASE \/ UNCHANGED vars \/ PowerOn \/ PowerLoss \/ Press \/ Failure \/ Detect \/ StageDone
           \/ \E p \in job.left : Visit(p)
  BY <1>s, <1>8 DEF vars, PowerOn, PowerLoss, Press, Failure, Detect, StageDone, Visit,
     Confirm, Launch, NoPayload, Reboot, MountFails, DetectBlind, DetectHangs, LaunchFails,
     CopyUnflushed, RootFileError, FallBack, CopyError, DeleteError, ManifestError,
     Overlook, Miscount, MakeFolderError
<1> QED
  BY <1>1, <1>2, <1>3, <1>4, <1>5, <1>6, <1>7, <1>8 DEF Next, Progress

LEMMA OpenStep == TInv /\ JobInv /\ TreeInv /\ [Next]_vars => OpenIsTorn'
<1> SUFFICES ASSUME TInv, JobInv, TreeInv, [Next]_vars, job'.open # NoNode
             PROVE  job'.open \notin Folders /\ sd'[Now'.to][job'.open] = "torn"
  BY DEF OpenIsTorn
<1>t. sd \in [Areas -> [Nodes -> Content]] /\ job \in Jobs
  BY DEF TInv, TypeOK, Jobs
<1>1. CASE UNCHANGED vars
  <2>1. ip \in Work
    BY <1>1 DEF vars, JobInv, Idle
  <2>2. Now'.to = Now.to /\ UNCHANGED <<job, sd>>
    BY <1>1, <2>1, NowStays DEF vars
  <2> QED
    BY <2>2 DEF TreeInv, OpenIsTorn
<1>2. ASSUME NEW n \in job.todo, CopyOpen(n)
      PROVE  job'.open \notin Folders /\ sd'[Now'.to][job'.open] = "torn"
  <2>1. /\ ip \in Work /\ UNCHANGED <<ip, variant>> /\ n \notin Folders /\ n \in Nodes
        /\ Put(Now.to, n, "torn") /\ job'.open = n
    BY <1>2, <1>t DEF CopyOpen, Doing, Jobs
  <2>2. Now'.to = Now.to /\ Now.to \in Areas
    BY <2>1, NowStays, NowType
  <2> QED
    BY <1>t, <2>1, <2>2 DEF Put
<1>3. CASE ManifestOpen
  <2>1. /\ ip \in Work /\ UNCHANGED <<ip, variant>> /\ Now.do = "manifest"
        /\ Put("root", Manifest, "torn") /\ job'.open = Manifest
    BY <1>3, <1>t DEF ManifestOpen, Doing, Jobs
  <2>2. Now'.to = "root"
    BY <2>1, NowStays, NowType, ManifestRow DEF Now
  <2> QED
    BY <1>t, <2>1, <2>2, TreeAssumption DEF Put, Areas
<1> QED
  BY <1>1, <1>2, <1>3, OpenSteps

LEMMA BelowStep == TInv /\ JobInv /\ TreeInv /\ [Next]_vars => DeletesBelow'
<1> SUFFICES ASSUME TInv, JobInv, TreeInv, [Next]_vars, ip' \in Work, Now'.do = "delete",
                    NEW n \in job'.todo, NEW m \in Present(Now.to, n)'
             PROVE  m \in job'.todo
  BY DEF DeletesBelow
<1>t. sd \in [Areas -> [Nodes -> Content]] /\ job \in Jobs
  BY DEF TInv, TypeOK, Jobs
<1>e. ASSUME NEW s, Enter(s) PROVE FALSE
  BY <1>e DEF Enter, Idle
<1>c. ASSUME ip \in Work, UNCHANGED <<ip, variant>>, Now.do # "delete" PROVE FALSE
  BY <1>c, NowStays
\* What was going to be deleted, and is still there, goes on being listed.
<1>d. ASSUME ip \in Work, UNCHANGED <<ip, variant>>, Now.do = "delete", n \in job.todo,
             sd'[Now.to][m] = "absent" \/ sd'[Now.to][m] = sd[Now.to][m]
      PROVE  m \in job.todo /\ sd'[Now.to][m] # "absent"
  <2>1. Now'.to = Now.to
    BY <1>d, NowStays
  <2>2. m \in Under(n) /\ sd'[Now.to][m] # "absent"
    BY <2>1 DEF Present
  <2>3. m \in Present(Now.to, n)
    BY <1>d, <2>2 DEF Present
  <2> QED
    BY <1>d, <2>2, <2>3 DEF TreeInv, DeletesBelow
<1>1. CASE \/ PowerOn \/ MountFails \/ DetectHangs \/ Launch \/ LaunchFails \/ NoPayload
           \/ Reboot \/ PowerLoss \/ Confirm \/ CopyError \/ ManifestClose \/ ManifestError
           \/ StageDone \/ Detect \/ DetectBlind
           \/ \E p \in job.left : MakeFolder(p) \/ MakeFolderError(p)
  BY <1>1, <1>e DEF PowerOn, MountFails, DetectHangs, Launch, LaunchFails, NoPayload, Reboot,
     PowerLoss, Confirm, CopyError, ManifestClose, ManifestError, StageDone, Detect, DetectBlind,
     Decide, MakeFolder, MakeFolderError
<1>2. CASE \/ CopyClose \/ CopyUnflushed \/ RootFileError \/ FallBack \/ ManifestOpen
           \/ \E p \in job.left : Miscount(p)
           \/ \E p \in job.todo : CopyFolder(p) \/ CopyOpen(p)
  BY <1>2, <1>c DEF CopyClose, CopyUnflushed, RootFileError, FallBack, ManifestOpen, Miscount,
     CopyFolder, CopyOpen, Doing, Copies
<1>3. CASE UNCHANGED vars
  <2>1. ip \in Work /\ UNCHANGED <<ip, variant, job, sd>>
    BY <1>3 DEF vars
  <2> QED
    BY <1>c, <1>d, <2>1
<1>4. ASSUME NEW p \in job.left, Visit(p) PROVE m \in job'.todo
  <2>1. ip \in Work /\ UNCHANGED <<ip, variant, sd>> /\ Now.do = "delete"
    BY <1>4, <1>c DEF Visit, Doing
  <2>2. job'.todo = Present(Now.to, p) /\ p \in Nodes /\ Now'.to = Now.to
    BY <1>4, <1>t, <2>1, NowStays DEF Visit, Jobs
  <2>3. n \in Under(p) /\ m \in Under(n) /\ sd[Now.to][m] # "absent"
    BY <2>1, <2>2 DEF Present
  <2> QED
    BY <2>2, <2>3, UnderUnder DEF Present
<1>5. ASSUME NEW p \in job.left, Overlook(p) PROVE m \in job'.todo
  BY <1>5, <1>t DEF Overlook, Resting, Jobs
<1>6. ASSUME NEW p \in job.todo, DeleteNode(p) PROVE m \in job'.todo
  <2>1. /\ ip \in Work /\ UNCHANGED <<ip, variant>> /\ Now.do = "delete"
        /\ Put(Now.to, p, "absent") /\ job'.todo = job.todo \ {p} /\ p \in Nodes
    BY <1>6, <1>t DEF DeleteNode, Doing, Jobs
  <2>2. Now.to \in Areas
    BY <2>1, NowType
  <2>3. /\ sd'[Now.to][p] = "absent"
        /\ sd'[Now.to][m] = "absent" \/ sd'[Now.to][m] = sd[Now.to][m]
    BY <1>t, <2>1, <2>2 DEF Put
  <2> QED
    BY <1>d, <2>1, <2>3
<1>7. CASE DeleteError
  <2>1. CASE Enter(Now.err)
    BY <1>e, <2>1
  <2>2. CASE job' = [job EXCEPT !.todo = {}]
    BY <1>t, <2>2 DEF Jobs
  <2> QED
    BY <1>7, <2>1, <2>2 DEF DeleteError
<1> QED
  BY <1>1, <1>2, <1>3, <1>4, <1>5, <1>6, <1>7 DEF Next, Progress, Failure, Press

LEMMA TreeInit == Init => TreeInv
<1> SUFFICES ASSUME Init PROVE TreeInv
  OBVIOUS
<1>1. OpenIsTorn /\ DeletesBelow
  BY DEF Init, OpenIsTorn, DeletesBelow, Idle
<1>2. ASSUME NEW a \in Areas, NEW n \in Nodes, sd[a][n] # "absent", NEW d \in Above(n)
      PROVE  sd[a][d] = "dir"
  <2>d. d \in Nodes /\ d \in Folders /\ d # n /\ d \in Anc[n] /\ d # Manifest
    BY Below, TreeAssumption DEF Above
  <2>s. start \in Starts /\ sd = StartCard(start)
    BY DEF Init
  <2>1. CASE a = "root"
    <3> DEFINE files == start.old \cup start.mine
                          \cup (IF start.manifest = "absent" THEN {} ELSE {Manifest})
    <3>1. d \notin start.old /\ d \notin start.mine
      BY <2>s, <2>d, StartAssumption, OwnerAssumption
    <3>2. n # "/"
      BY <2>d, TreeAssumption DEF Above
    <3>3. \E f \in files : n \in Anc[f]
      BY <1>2, <2>s, <2>1, <3>2, TreeAssumption DEF StartCard
    <3>4. \E f \in files : d \in Anc[f]
      BY <2>s, <2>d, <3>3, StartAssumption, OwnerAssumption, TreeAssumption
    <3> QED
      BY <2>s, <2>1, <2>d, <3>1, <3>4 DEF StartCard
  <2>2. CASE a = "backup"
    <3>1. n = "/"
      BY <1>2, <2>s, <2>2 DEF StartCard
    <3> QED
      BY <2>d, <3>1, TreeAssumption DEF Above
  <2>3. CASE a \in Variants
    <3>1. a \in start.staged /\ n \in Pack[a] /\ a \notin {"root", "backup"}
      BY <1>2, <2>s, <2>3 DEF StartCard, Variants
    <3>2. d \in Pack[a]
      BY <2>3, <2>d, <3>1, OwnerAssumption
    <3> QED
      BY <1>2, <2>s, <2>d, <3>1, <3>2 DEF StartCard
  <2> QED
    BY <2>1, <2>2, <2>3 DEF Areas
<1> QED
  BY <1>1, <1>2 DEF TreeInv, CardIsTree, CanCreate

\* What exists lies in folders that exist: no interruption, failed call or
\* order of deletions leaves a file or a folder outside the tree
\* (folder_copy, folder_delete, delete_path_list).
THEOREM CardStaysATree == Spec => []CardIsTree
<1>1. Init => TInv /\ UserDataInv /\ TreeInv
  BY InitType, UserDataInit, TreeInit
<1>2. TInv /\ UserDataInv /\ TreeInv /\ [Next]_vars => (TInv /\ UserDataInv /\ TreeInv)'
  BY TypeStep, UserDataStep, CardStep, OpenStep, BelowStep DEF UserDataInv, TreeInv
<1>3. TreeInv => CardIsTree
  BY DEF TreeInv
<1> QED
  BY <1>1, <1>2, <1>3, PTL DEF Spec

(***************************************************************************)
(* The plan once more: where the installation's stages lead.               *)
(***************************************************************************)

Updating == {"up_lists"} \cup Installing

LEMMA InstallLeads ==
    ASSUME NEW s \in Updating
    PROVE  {Plan(s).ok, Plan(s).err} \subseteq Updating \cup {"summary"}
<1>1. CASE s \in InstallStages
  BY <1>1, PlanSplit, InstallRows DEF Updating, Installing
<1>2. CASE s \in {"up_lists", "staging"}
  BY <1>2, OtherRows, StageSets DEF Updating, Installing
<1> QED
  BY <1>1, <1>2 DEF Updating, Installing

\* Which stages of the installation copy, and what is due once each is done.
CopyStages == InstallStages \ {"mf_mkdir", "mf_write", "mk_clean"}

LEMMA InstallKinds ==
    ASSUME NEW s \in InstallStages, variant \in Variants
    PROVE  /\ Plan(s).do \in Copies <=> s \in CopyStages
           /\ Plan(s).do = "mkdir" <=> s = "mf_mkdir"
           /\ Plan(s).do = "manifest" <=> s = "mf_write"
           /\ Plan(s).do = "delete" <=> s = "mk_clean"
           /\ Plan(s).to = "root"
           /\ s \in CopyStages => Plan(s).from = variant
  BY PlanSplit, InstallRows DEF InstallStages, CopyStages, Copies

LEMMA InstallOrder ==
    ASSUME NEW s \in CopyStages, variant \in Variants
    PROVE  LET t == Plan(s).ok IN
           /\ t \in CopyStages \cup {"mf_mkdir"}
           /\ t \in CopyStages => InstallDue(t) \cap Nodes \subseteq InstallDue(s) \cup Plan(t).paths
           /\ t = "mf_mkdir" => InstallDue(t) = InstallDue(s)
<1>1. Plan(s) = InstallPlan(s) /\ \A t \in CopyStages : Plan(t) = InstallPlan(t)
  BY PlanSplit DEF CopyStages
<1>2. CASE s = "in_atmosphere"
  BY <1>1, <1>2 DEF CopyStages, InstallStages, InstallPlan, Row, InstallDue
<1>3. CASE s = "in_bootloader"
  BY <1>1, <1>3 DEF CopyStages, InstallStages, InstallPlan, Row, InstallDue
<1>4. CASE s = "in_config"
  BY <1>1, <1>4 DEF CopyStages, InstallStages, InstallPlan, Row, InstallDue, FirstFour
<1>5. CASE s = "in_switch"
  BY <1>1, <1>5 DEF CopyStages, InstallStages, InstallPlan, Row, InstallDue
<1>6. CASE s = "in_warmboot"
  BY <1>1, <1>6 DEF CopyStages, InstallStages, InstallPlan, Row, InstallDue, FirstFour, Tops
<1>7. CASE s = "in_SaltySD"
  BY <1>1, <1>7 DEF CopyStages, InstallStages, InstallPlan, Row, InstallDue, FirstFour, Tops
<1>8. CASE s = "in_files"
  BY <1>1, <1>8 DEF CopyStages, InstallStages, InstallPlan, Row, InstallDue
<1> QED
  BY <1>2, <1>3, <1>4, <1>5, <1>6, <1>7, <1>8 DEF CopyStages, InstallStages

\* An installation starts with its first folder, and ends stage by stage.
LEMMA InstallStart ==
    /\ Plan("in_atmosphere").paths = {"atmosphere"} \cap Nodes
    /\ InstallDue("in_atmosphere") = {"atmosphere"}
    /\ "in_atmosphere" \in CopyStages
    /\ Plan("mf_mkdir").ok = "mf_write" /\ Plan("mf_mkdir").err = "mf_write"
    /\ Plan("mf_mkdir").paths \subseteq {"config/omninx"}
    /\ Plan("mf_write").ok = "mk_clean" /\ Plan("mf_write").err = "mk_clean"
    /\ Plan("mk_clean").ok = "staging" /\ Plan("mk_clean").err = "mk_clean"
    /\ Plan("mk_clean").paths \subseteq Markers
    /\ Plan("in_files").paths \subseteq RootFiles
    /\ \A s \in {"mf_mkdir", "mf_write", "mk_clean", "staging"} : InstallDue(s) = Tops(variant)
  BY PlanSplit DEF CopyStages, InstallStages, InstallPlan, Row, InstallDue

\* The stages that lead to the last ones, and to the summary.
LEMMA Endings ==
    ASSUME NEW s \in Work, variant \in Variants
    PROVE  /\ Plan(s).ok = "mk_clean" => s = "mf_write"
           /\ Plan(s).err = "mk_clean" => s \in {"mf_write", "mk_clean"}
           /\ Plan(s).ok = "staging" => s = "mk_clean"
           /\ Plan(s).err # "staging"
           /\ Plan(s).ok = "summary" => s = "staging" \/ res # "ok"
           /\ Plan(s).err = "summary" => Plan(s).stop \/ res # "ok"
           /\ \/ {Plan(s).ok, Plan(s).err} \cap Installing \subseteq {"in_atmosphere"}
              \/ s \in InstallStages
           /\ Plan(s).do = "install" => Plan(s).err = "summary"
<1>1. CASE s \in BackupStages
  BY <1>1, PlanSplit DEF BackupStages, BackupPlan, Row, Installing, InstallStages
<1>2. CASE s \in WipeStages
  BY <1>2, PlanSplit DEF WipeStages, WipePlan, Row, Installing, InstallStages
<1>3. CASE s \in RestoreStages
  BY <1>3, PlanSplit DEF RestoreStages, RestorePlan, Row, Installing, InstallStages
<1>4. CASE s \in InstallStages
  BY <1>4, PlanSplit DEF InstallStages, InstallPlan, Row
<1>5. CASE s \in {"up_lists", "staging"}
  BY <1>5 DEF Plan, Row, BackupStages, WipeStages, RestoreStages, InstallStages, Installing
<1> QED
  BY <1>1, <1>2, <1>3, <1>4, <1>5 DEF Work
-----------------------------------------------------------------------------
(* What a step writes, to a staging folder and to the live tree.           *)

\* Only the cleanup of its own pack takes anything from a staging folder.
LEMMA StagingShrinks ==
    ASSUME TInv, [Next]_vars, NEW v \in Variants, NEW m \in Nodes
    PROVE  \/ sd'[v][m] = sd[v][m]
           \/ /\ ip = "staging" /\ variant = v /\ sd'[v][m] = "absent"
              /\ m \in job.todo /\ DeleteNode(m)
<1>t. sd \in [Areas -> [Nodes -> Content]] /\ v \in Areas /\ v \notin {"root", "backup"}
  BY DEF TInv, TypeOK, Areas, Variants
<1>p. ASSUME NEW a \in {"root", "backup"}, NEW n, NEW c, Put(a, n, c) PROVE sd'[v] = sd[v]
  BY <1>p, <1>t, PutElsewhere
<1>1. ASSUME NEW n \in job.todo, DeleteNode(n), sd'[v][m] # sd[v][m]
      PROVE  /\ ip = "staging" /\ variant = v /\ sd'[v][m] = "absent"
             /\ m \in job.todo /\ DeleteNode(m)
  <2>1. /\ ip \in Work /\ Now.do = "delete" /\ Now.to \in Areas /\ Put(Now.to, n, "absent")
        /\ variant \in Variants
    BY <1>1, NowType DEF DeleteNode, Doing
  <2>2. m = n /\ Now.to = v /\ sd'[v][m] = "absent"
    BY <1>1, <1>t, <2>1 DEF Put
  <2>3. ip = "staging" /\ variant = v
    BY <1>t, <2>1, <2>2, DeleteRows DEF Now
  <2> QED
    BY <1>1, <2>2, <2>3
<1>2. ASSUME NEW n \in job.todo, CopyFolder(n) \/ CopyOpen(n) PROVE sd'[v] = sd[v]
  <2>1. ip \in Work /\ Now.do \in Copies /\ \E c : Put(Now.to, n, c)
    BY <1>2 DEF CopyFolder, CopyOpen, Doing
  <2> QED
    BY <1>p, <2>1, CopyTarget
<1>3. CASE CopyClose
  <2>1. ip \in Work /\ Now.do \in Copies /\ \E c : Put(Now.to, job.open, c)
    BY <1>3 DEF CopyClose, Doing
  <2> QED
    BY <1>p, <2>1, CopyTarget
<1>4. ASSUME NEW n \in job.left, MakeFolder(n) PROVE sd'[v] = sd[v]
  <2>1. ip \in Work /\ Now.do = "mkdir" /\ Put(Now.to, n, "dir")
    BY <1>4 DEF MakeFolder, Doing
  <2> QED
    BY <1>p, <2>1, CopyTarget
<1>5. CASE ManifestOpen \/ ManifestClose
  <2>1. \E c : Put("root", Manifest, c)
    BY <1>5 DEF ManifestOpen, ManifestClose
  <2> QED
    BY <1>p, <2>1
<1>6. CASE \/ UNCHANGED vars \/ PowerOn \/ PowerLoss \/ Press \/ Failure \/ Detect \/ StageDone
           \/ \E p \in job.left : Visit(p)
  BY <1>6 DEF vars, PowerOn, PowerLoss, Press, Failure, Detect, StageDone, Visit,
     Confirm, Launch, NoPayload, Reboot, MountFails, DetectBlind, DetectHangs, LaunchFails,
     CopyUnflushed, RootFileError, FallBack, CopyError, DeleteError, ManifestError,
     Overlook, Miscount, MakeFolderError
<1> QED
  BY <1>1, <1>2, <1>3, <1>4, <1>5, <1>6 DEF Next, Progress

\* A node the installation copies is staged, and the copy is open or done; one
\* it deletes is named by a list; else there is one folder and the manifest.
LEMMA RootWrites ==
    ASSUME TInv, UserDataInv, ip \in Updating, [Next]_vars,
           NEW n \in Nodes, sd'["root"][n] # sd["root"][n]
    PROVE  \/ /\ sd[variant][n] # "absent" /\ n \in job.todo /\ ip \in CopyStages
              /\ \/ CopyFolder(n) /\ sd'["root"][n] = "dir" /\ n \in Folders
                 \/ CopyOpen(n) /\ job'.open = n
                 \/ CopyClose /\ sd'["root"][n] = sd[variant][n] /\ n = job.open
           \/ /\ ip \in {"up_lists", "mk_clean"} /\ n \in job.todo /\ DeleteNode(n)
              /\ Anc[n] \cap (Markers \cup UpdateList) # {}
           \/ ip = "mf_mkdir" /\ n = "config/omninx" /\ sd'["root"][n] = "dir"
           \/ n = Manifest /\ ManifestOpen /\ job'.open = n
           \/ n = Manifest /\ ManifestClose /\ sd'["root"][n] = variant
<1>t. sd \in [Areas -> [Nodes -> Content]] /\ job \in Jobs /\ "root" \in Areas
  BY DEF TInv, TypeOK, Jobs, Areas
<1>w. /\ ip \in Work /\ ip \in InstallStages \cup {"up_lists", "staging"}
      /\ ip \notin BackupStages \cup WipeStages \cup RestoreStages
      /\ variant \in Variants /\ variant # "root"
  <2>1. ip \in Work /\ ip \in InstallStages \cup {"up_lists", "staging"}
    BY DEF Work, Updating, Installing
  <2> QED
    BY <2>1, NowType, Phases DEF Variants
<1>j. /\ job.left \subseteq Now.paths
      /\ \A m \in job.todo : Anc[m] \cap Now.paths # {}
      /\ Now.do \in Copies => \A m \in job.todo : sd[Now.from][m] # "absent"
      /\ job.open # NoNode =>
           \/ Now.do \in Copies /\ job.open \in job.todo
           \/ Now.do = "manifest" /\ job.open = Manifest
  BY <1>w DEF UserDataInv, JobInv
<1>p. ASSUME NEW a, NEW m, NEW c, Put(a, m, c)
      PROVE  a = "root" /\ m = n /\ sd'["root"][n] = c
  BY <1>p, <1>t DEF Put
<1>c. ASSUME Now.do \in Copies
      PROVE  ip \in CopyStages /\ Now.from = variant /\ Now.to = "root"
  BY <1>c, <1>w, CopyRows, InstallKinds DEF Now, BackupStages, RestoreStages
<1>1. ASSUME NEW m \in job.todo, CopyFolder(m)
      PROVE  /\ sd[variant][n] # "absent" /\ n \in job.todo /\ ip \in CopyStages
             /\ CopyFolder(n) /\ sd'["root"][n] = "dir" /\ n \in Folders
  <2>1. Now.do \in Copies /\ m \in Folders /\ Put(Now.to, m, "dir")
    BY <1>1 DEF CopyFolder, Doing
  <2> QED
    BY <1>1, <1>c, <1>j, <1>p, <2>1
<1>2. ASSUME NEW m \in job.todo, CopyOpen(m)
      PROVE  /\ sd[variant][n] # "absent" /\ n \in job.todo /\ ip \in CopyStages
             /\ CopyOpen(n) /\ job'.open = n
  <2>1. Now.do \in Copies /\ Put(Now.to, m, "torn") /\ job'.open = m
    BY <1>2, <1>t DEF CopyOpen, Doing, Jobs
  <2> QED
    BY <1>2, <1>c, <1>j, <1>p, <2>1
<1>3. ASSUME CopyClose
      PROVE  /\ sd[variant][n] # "absent" /\ n \in job.todo /\ ip \in CopyStages
             /\ sd'["root"][n] = sd[variant][n] /\ n = job.open
  <2>1. /\ Now.do \in Copies /\ Put(Now.to, job.open, sd[Now.from][job.open])
        /\ job.open \in job.todo
    BY <1>3, <1>j DEF CopyClose, Doing, Copies
  <2> QED
    BY <1>c, <1>j, <1>p, <2>1
<1>4. ASSUME NEW m \in job.todo, DeleteNode(m)
      PROVE  /\ ip \in {"up_lists", "mk_clean"} /\ n \in job.todo /\ DeleteNode(n)
             /\ Anc[n] \cap (Markers \cup UpdateList) # {}
  <2>1. Now.do = "delete" /\ Put(Now.to, m, "absent")
    BY <1>4 DEF DeleteNode, Doing
  <2>2. m = n /\ Now.to = "root"
    BY <1>p, <2>1
  <2>3. ip \in {"mk_clean", "up_lists"} /\ Now.paths \subseteq Markers \cup UpdateList
    BY <1>w, <2>1, <2>2, DeleteRows DEF Now, RestoreStages
  <2> QED
    BY <1>4, <1>j, <2>2, <2>3
<1>5. ASSUME NEW m \in job.left, MakeFolder(m)
      PROVE  ip = "mf_mkdir" /\ n = "config/omninx" /\ sd'["root"][n] = "dir"
  <2>1. Now.do = "mkdir" /\ Put(Now.to, m, "dir")
    BY <1>5 DEF MakeFolder, Doing
  <2>2. ip = "mf_mkdir"
    BY <1>w, <2>1, FolderRows DEF Now, BackupStages, WipeStages, RestoreStages
  <2> QED
    BY <1>5, <1>j, <1>p, <2>1, <2>2, InstallStart DEF Now
<1>6. ASSUME ManifestOpen PROVE n = Manifest /\ job'.open = n
  <2>1. Put("root", Manifest, "torn") /\ job'.open = Manifest
    BY <1>6, <1>t DEF ManifestOpen, Jobs
  <2> QED
    BY <1>p, <2>1
<1>7. ASSUME ManifestClose PROVE n = Manifest /\ sd'["root"][n] = variant
  <2>1. Put("root", Manifest, variant)
    BY <1>7 DEF ManifestClose
  <2> QED
    BY <1>p, <2>1
<1>8. CASE \/ UNCHANGED vars \/ PowerOn \/ PowerLoss \/ Press \/ Failure \/ Detect \/ StageDone
           \/ \E p \in job.left : Visit(p)
  BY <1>8 DEF vars, PowerOn, PowerLoss, Press, Failure, Detect, StageDone, Visit,
     Confirm, Launch, NoPayload, Reboot, MountFails, DetectBlind, DetectHangs, LaunchFails,
     CopyUnflushed, RootFileError, FallBack, CopyError, DeleteError, ManifestError,
     Overlook, Miscount, MakeFolderError
<1> QED
  BY <1>1, <1>2, <1>3, <1>4, <1>5, <1>6, <1>7, <1>8 DEF Next, Progress

LEMMA AsPackedStep == TInv /\ StagedAsPacked /\ [Next]_vars => StagedAsPacked'
<1> SUFFICES ASSUME TInv, StagedAsPacked, [Next]_vars, NEW v \in Variants, NEW n \in Nodes
             PROVE  sd'[v][n] \in {"absent", AsPacked(v, n)}
  BY DEF StagedAsPacked, AsPacked
<1>1. sd'[v][n] = sd[v][n] \/ sd'[v][n] = "absent"
  BY StagingShrinks
<1> QED
  BY <1>1 DEF StagedAsPacked
-----------------------------------------------------------------------------
(* Update mode keeps what it does not know.                                *)

\* A manifest being written is done, or the error that ends it is on record.
LEMMA ManifestEnds ==
    ASSUME TInv, UserDataInv, ip \in Updating, [Next]_vars,
           job.open = Manifest, job'.open # Manifest,
           Manifest \notin slipped'
    PROVE  CopyClose \/ ManifestClose
<1>m. Manifest # NoNode /\ Manifest \in Nodes /\ Manifest \in Anc[Manifest]
  BY TreeAssumption
<1>w. ip \in Work /\ ip \in InstallStages \cup {"up_lists", "staging"} /\ variant \in Variants
  BY NowType DEF Work, Updating, Installing
<1>j. /\ \A m \in job.todo : Anc[m] \cap Now.paths # {}
      /\ \/ Now.do \in Copies /\ job.open \in job.todo
         \/ Now.do = "manifest"
  BY <1>w, <1>m DEF UserDataInv, JobInv
<1>r. Now.to = "root" /\ ip \in InstallStages
  BY <1>w, <1>j, OtherRows, InstallKinds DEF Now, Copies
<1>c. Manifest \in CutShort
  BY <1>w, <1>m, <1>r DEF CutShort
<1>1. CASE RootFileError
  <2>1. Now.do \notin {"manifest"} /\ ip = "in_files"
    BY <1>1, <1>r, PlanSplit, InstallRows DEF RootFileError, Doing, Now, InstallStages
  <2>2. Anc[Manifest] \cap RootFiles # {}
    BY <1>j, <2>1, InstallStart DEF Now
  <2> QED
    BY <2>2, OwnerAssumption
<1>2. CASE FallBack \/ CopyError \/ PowerLoss
  BY <1>2, <1>c DEF FallBack, CopyError, PowerLoss, Slip
<1>3. CASE CopyUnflushed \/ ManifestError
  BY <1>3 DEF CopyUnflushed, ManifestError, Slip
<1>4. CASE UNCHANGED vars
  BY <1>4 DEF vars
<1>5. CASE ManifestOpen \/ StageDone \/ \E p \in job.left : Visit(p) \/ Overlook(p) \/ Miscount(p)
  BY <1>5, <1>m DEF ManifestOpen, StageDone, Visit, Overlook, Miscount, Resting
<1>6. CASE \E p \in job.todo : CopyFolder(p) \/ CopyOpen(p)
  BY <1>6, <1>m DEF CopyFolder, CopyOpen, Ready
<1>7. CASE \/ \E p \in job.todo : DeleteNode(p)
           \/ \E p \in job.left : MakeFolder(p) \/ MakeFolderError(p)
           \/ DeleteError
  BY <1>7, <1>j DEF DeleteNode, MakeFolder, MakeFolderError, DeleteError, Doing, Copies
<1>8. CASE \/ PowerOn \/ Detect \/ MountFails \/ DetectBlind \/ DetectHangs \/ LaunchFails
           \/ Press
  <2>1. ip \notin Work
    BY <1>8, NotWork DEF PowerOn, Detect, MountFails, DetectBlind, DetectHangs, LaunchFails,
       Press, Confirm, Launch, NoPayload, Reboot, Waiting, Final
  <2> QED
    BY <1>w, <2>1
<1> QED
  BY <1>1, <1>2, <1>3, <1>4, <1>5, <1>6, <1>7, <1>8 DEF Next, Progress, Failure

\* Where update mode stands, and where it may go.
LEMMA KeepMode ==
    ASSUME TInv, UserDataInv, Kept', Kept, KeepInv, [Next]_vars
    PROVE  /\ ip' \in Work \cup {"confirm"} => mode' = "update"
           /\ ip' \notin BackupStages \cup WipeStages \cup RestoreStages
<1>k. /\ ip \in Work \cup {"confirm"} => mode = "update"
      /\ ip \notin BackupStages \cup WipeStages \cup RestoreStages
      /\ sd["root"][Manifest] \in Variants \/ job.open = Manifest
  BY DEF KeepInv
<1>w. ASSUME ip \in Work PROVE ip \in Updating
  BY <1>w, <1>k DEF Work, Updating, Installing
<1>u. ASSUME NEW s \in Updating \cup {"summary"}
      PROVE  s \notin BackupStages \cup WipeStages \cup RestoreStages
  BY Phases DEF Updating, Installing, Waiting
<1>1. ASSUME NEW s \in Waiting \cup Final \cup {"off", "detect"}, s # "confirm", ip' = s
      PROVE  ip' \notin Work \cup {"confirm"} \cup BackupStages \cup WipeStages \cup RestoreStages
  BY <1>1, NotWork, Phases
<1>2. CASE \/ PowerOn \/ MountFails \/ DetectHangs \/ Launch \/ LaunchFails \/ NoPayload
           \/ Reboot \/ PowerLoss
  <2>1. ip' \in Final \cup {"off", "detect", "missing"}
    BY <1>2 DEF PowerOn, MountFails, DetectHangs, Launch, LaunchFails, NoPayload, Reboot,
       PowerLoss, Enter, Final
  <2> QED
    BY <1>1, <2>1 DEF Waiting, Final
\* A detection that goes by the manifest, blind to a folder of the pack or not.
<1>4. CASE Detect \/ DetectBlind
  <2>0. ip = "detect" /\ \E seen : Decide(sd["root"][Manifest], seen)
    BY <1>4 DEF Detect, DetectBlind, Slip, Kept
  <2>1. ip \notin Work
    BY <2>0, NotWork
  <2>2. job.open # Manifest
    BY <2>1, TreeAssumption DEF UserDataInv, JobInv, Idle
  <2>3. mode' = "update" /\ ip' \in {"nopack", "confirm"}
    BY <2>0, <1>k, <2>2 DEF Decide, Enter
  <2> QED
    BY <2>3, Phases DEF Waiting
<1>5. CASE Confirm
  <2>1. ip' = "up_lists" /\ UNCHANGED mode
    BY <1>5, <1>k DEF Confirm, Enter
  <2> QED
    BY <1>5, <1>k, <2>1, Phases DEF Confirm
<1>6. CASE UNCHANGED ip /\ UNCHANGED mode
  BY <1>6, <1>k
<1>7. CASE ip \in Work /\ UNCHANGED mode /\ ip' \in {Now.ok, Now.err}
  <2>1. ip' \in Updating \cup {"summary"}
    BY <1>7, <1>w, InstallLeads DEF Now
  <2> QED
    BY <1>7, <1>k, <1>u, <2>1
<1>8. CASE \/ CopyError \/ ManifestClose \/ ManifestError \/ StageDone \/ DeleteError
           \/ \E n \in job.left : MakeFolder(n) \/ MakeFolderError(n)
  BY <1>6, <1>7, <1>8 DEF CopyError, ManifestClose, ManifestError, StageDone, DeleteError,
     MakeFolder, MakeFolderError, Doing, Enter
<1>9. CASE \/ UNCHANGED vars \/ CopyClose \/ CopyUnflushed \/ RootFileError \/ FallBack
           \/ ManifestOpen
           \/ \E p \in job.left : Visit(p) \/ Overlook(p) \/ Miscount(p)
           \/ \E p \in job.todo : CopyFolder(p) \/ CopyOpen(p) \/ DeleteNode(p)
  BY <1>6, <1>9 DEF vars, CopyClose, CopyUnflushed, RootFileError, FallBack, ManifestOpen,
     Visit, Overlook, Miscount, CopyFolder, CopyOpen, DeleteNode
<1> QED
  BY <1>2, <1>4, <1>5, <1>8, <1>9 DEF Next, Progress, Failure, Press

LEMMA WorkWrites ==
    ASSUME TInv, ip \notin Work, [Next]_vars
    PROVE  UNCHANGED sd
  BY DEF Next, Progress, Failure, Press, vars, PowerOn, PowerLoss, Detect, StageDone, Visit,
     Confirm, Launch, NoPayload, Reboot, MountFails, DetectBlind, DetectHangs, LaunchFails,
     CopyUnflushed, RootFileError, FallBack, CopyError, DeleteError, ManifestError,
     Overlook, Miscount, MakeFolderError, CopyClose, ManifestOpen, ManifestClose,
     MakeFolder, CopyFolder, CopyOpen, DeleteNode, Doing

LEMMA KeepStep ==
    TInv /\ UserDataInv /\ StagedAsPacked /\ KeepInv /\ [Next]_vars => KeepInv'
<1> SUFFICES ASSUME TInv, UserDataInv, StagedAsPacked, KeepInv, [Next]_vars, Kept'
             PROVE  /\ ip' \in Work \cup {"confirm"} => mode' = "update"
                    /\ ip' \notin BackupStages \cup WipeStages \cup RestoreStages
                    /\ sd'["root"][Manifest] \in Variants \/ job'.open = Manifest
                    /\ \A f \in OtherFiles \cap start'.mine : sd'["root"][f] = "user"
  BY DEF KeepInv
<1>k. Kept
  BY SlipsStay, StartStays DEF Kept
<1>i. /\ ip \notin BackupStages \cup WipeStages \cup RestoreStages
      /\ sd["root"][Manifest] \in Variants \/ job.open = Manifest
      /\ \A f \in OtherFiles \cap start.mine : sd["root"][f] = "user"
  BY <1>k DEF KeepInv
<1>u. ASSUME NEW n \in Nodes, sd'["root"][n] # sd["root"][n]
      PROVE  ip \in Updating /\ variant \in Variants
  <2>1. ip \in Work
    BY <1>u, WorkWrites
  <2> QED
    BY <1>i, <2>1, NowType DEF Work, Updating, Installing
<1>m. /\ Manifest \in Nodes /\ Manifest \notin Folders /\ Manifest # NoNode
      /\ "config/omninx" \in Folders
  BY TreeAssumption
<1>1. sd'["root"][Manifest] \in Variants \/ job'.open = Manifest
  <2>1. CASE sd'["root"][Manifest] # sd["root"][Manifest]
    <3>1. ip \in Updating /\ variant \in Variants
      BY <1>m, <1>u, <2>1
    <3>2. Anc[Manifest] \cap (Markers \cup UpdateList) = {}
      BY OwnerAssumption
    <3>3. sd[variant][Manifest] \in {"absent", variant}
      BY <1>m, <3>1 DEF StagedAsPacked, AsPacked
    <3> QED
      BY <1>m, <2>1, <3>1, <3>2, <3>3, RootWrites
  <2>2. CASE job.open = Manifest /\ job'.open # Manifest
    <3>1. ip \in Updating
      BY <1>i, <1>m, <2>2 DEF UserDataInv, JobInv, Idle, Work, Updating, Installing
    <3>2. CopyClose \/ ManifestClose
      BY <1>k, <2>2, <3>1, ManifestEnds DEF Kept
    <3>3. variant \in Variants /\ ip \in Work /\ sd \in [Areas -> [Nodes -> Content]]
      BY <3>1, NowType DEF TInv, TypeOK, Updating, Installing, Work
    <3>4. CASE ManifestClose
      BY <1>m, <3>3, <3>4 DEF ManifestClose, Put, Areas
    <3>5. CASE CopyClose
      <4>1. Now.do \in Copies /\ Put(Now.to, Manifest, sd[Now.from][Manifest])
        BY <2>2, <3>5 DEF CopyClose, Doing
      <4>2. Now.from = variant /\ Now.to = "root"
        BY <1>i, <3>3, <4>1, CopyRows DEF Now, BackupStages, RestoreStages
      <4>3. sd[variant][Manifest] # "absent"
        BY <1>m, <2>2, <3>3, <4>1, <4>2 DEF UserDataInv, JobInv, Copies
      <4>4. sd[variant][Manifest] = variant
        BY <1>m, <3>3, <4>3 DEF StagedAsPacked, AsPacked
      <4> QED
        BY <1>m, <3>3, <4>1, <4>2, <4>4 DEF Put, Areas
    <3> QED
      BY <3>2, <3>4, <3>5
  <2> QED
    BY <1>i, <2>1, <2>2
<1>2. ASSUME NEW f \in OtherFiles \cap start.mine PROVE sd'["root"][f] = "user"
  <2>1. /\ f \in Nodes /\ f \notin Folders /\ f # Manifest
        /\ Anc[f] \cap (Markers \cup UpdateList) = {}
        /\ \A v \in Variants : f \notin Pack[v]
    BY OwnerAssumption
  <2>2. ASSUME sd'["root"][f] # sd["root"][f] PROVE FALSE
    <3>1. ip \in Updating /\ variant \in Variants
      BY <1>u, <2>1, <2>2
    <3>2. sd[variant][f] = "absent"
      BY <2>1, <3>1 DEF UserDataInv, StagedIsPack
    <3> QED
      BY <1>m, <2>1, <2>2, <3>1, <3>2, RootWrites
  <2> QED
    BY <1>i, <2>2
<1> QED
  BY <1>k, <1>1, <1>2, KeepMode, StartStays
-----------------------------------------------------------------------------
(* What is staged gets into the live tree.                                 *)

\* A stage of the installation is entered from a stage, with the same pack.
LEMMA InstallFrom ==
    ASSUME TInv, ip' \in Installing, [Next]_vars
    PROVE  /\ ip \in Work /\ variant \in Variants /\ UNCHANGED <<variant, whole>>
           /\ ip' # ip => \E s \in {Now.ok, Now.err} : Enter(s)
<1>1. ip' \in Work /\ ip' \notin Waiting \cup Final \cup {"off", "detect"}
           /\ ip' \notin {"up_lists", "bk_mkdir"}
  BY Phases, StageSets DEF Installing, Work, BackupStages, InstallStages, Waiting, Final
<1>2. CASE \/ PowerOn \/ MountFails \/ DetectHangs \/ Launch \/ LaunchFails \/ NoPayload
           \/ Reboot \/ PowerLoss \/ Detect \/ DetectBlind \/ Confirm
  BY <1>1, <1>2 DEF PowerOn, MountFails, DetectHangs, Launch, LaunchFails, NoPayload, Reboot,
     PowerLoss, Detect, DetectBlind, Confirm, Decide, Enter, Final, Waiting
<1>3. CASE \/ CopyError \/ ManifestClose \/ ManifestError \/ StageDone \/ DeleteError
           \/ \E n \in job.left : MakeFolder(n) \/ MakeFolderError(n)
  <2>1. ip \in Work /\ UNCHANGED <<variant, whole>>
    BY <1>3 DEF CopyError, ManifestClose, ManifestError, StageDone, DeleteError,
       MakeFolder, MakeFolderError, Doing
  <2>2. ip' # ip => Enter(Now.ok) \/ Enter(Now.err)
    BY <1>3 DEF CopyError, ManifestClose, ManifestError, StageDone, DeleteError,
       MakeFolder, MakeFolderError
  <2> QED
    BY <2>1, <2>2, NowType
<1>4. CASE \/ CopyClose \/ CopyUnflushed \/ RootFileError \/ FallBack \/ ManifestOpen
           \/ \E p \in job.left : Visit(p) \/ Overlook(p) \/ Miscount(p)
           \/ \E p \in job.todo : CopyFolder(p) \/ CopyOpen(p) \/ DeleteNode(p)
  BY <1>4, NowType DEF CopyClose, CopyUnflushed, RootFileError, FallBack, ManifestOpen,
     Visit, Overlook, Miscount, CopyFolder, CopyOpen, DeleteNode, Doing
<1>5. CASE UNCHANGED vars
  BY <1>1, <1>5, NowType DEF vars
<1> QED
  BY <1>2, <1>3, <1>4, <1>5 DEF Next, Progress, Failure, Press

\* A staged node whose turn has not come waits for it, or has it now.
LEMMA PendingStays ==
    ASSUME TInv, UserDataInv, ip \in CopyStages, ip' = ip, [Next]_vars,
           NEW n \in Nodes, n \notin slipped', sd[variant][n] # "absent", Pending(n)
    PROVE  Pending(n)' \/ CopyFolder(n) \/ (CopyClose /\ job.open = n)
<1>t. job \in Jobs /\ n \in Anc[n] /\ ip \in InstallStages
  BY TreeAssumption DEF TInv, TypeOK, Jobs, CopyStages
<1>w. /\ ip \in Work /\ variant \in Variants /\ Now.do \in Copies /\ Now.from = variant
      /\ Now.do \notin {"delete", "mkdir", "manifest"}
  BY <1>t, NowType, InstallKinds DEF Work, Now, Copies
<1>j. /\ job.left \subseteq Now.paths
      /\ \A m \in job.todo : Anc[m] \cap Now.paths # {}
  BY <1>w DEF UserDataInv, JobInv
<1>e. ASSUME NEW s, Enter(s) PROVE job' = [Idle EXCEPT !.left = Now.paths]
  <2>1. Plan(ip)'.paths = Plan(ip).paths /\ s = ip
    BY <1>e, <1>w, InstallFrom, RowsStay DEF Enter, Installing, CopyStages
  <2> QED
    BY <1>e, <1>w, <2>1 DEF Enter, Now
<1>a. Anc[n] \cap Now.paths # {}
  BY <1>j DEF Pending
\* What a dropped error takes off the list has slipped; this node has not.
<1>1. CASE CopyUnflushed \/ RootFileError
  <2>1. job'.left = job.left /\ (n \in job.todo => n \in job'.todo)
    BY <1>1, <1>t DEF CopyUnflushed, RootFileError, Closed, Slip, Jobs
  <2> QED
    BY <2>1 DEF Pending
<1>12. ASSUME NEW p \in job.left, Overlook(p) \/ Miscount(p) PROVE Pending(n)'
  <2>1. job'.left = job.left \ {p} /\ job.todo = {}
    BY <1>12, <1>t DEF Overlook, Miscount, Resting, Jobs
  <2>2. p \notin Anc[n]
    BY <1>12, <1>w DEF Overlook, Miscount, Slip, Under
  <2> QED
    BY <2>1, <2>2 DEF Pending
<1>2. CASE UNCHANGED job
  BY <1>2 DEF Pending
<1>3. ASSUME NEW p \in job.left, Visit(p) PROVE Pending(n)'
  <2>1. job'.left = job.left \ {p} /\ job'.todo = Present(variant, p) /\ job.todo = {}
    BY <1>3, <1>t, <1>w DEF Visit, Resting, Jobs
  <2>2. CASE p \in Anc[n]
    BY <2>1, <2>2 DEF Pending, Present, Under
  <2>3. CASE p \notin Anc[n]
    BY <2>1, <2>3 DEF Pending
  <2> QED
    BY <2>2, <2>3
<1>4. ASSUME NEW m \in job.todo, CopyFolder(m) PROVE Pending(n)' \/ CopyFolder(n)
  <2>1. job'.left = job.left /\ job'.todo = job.todo \ {m}
    BY <1>4, <1>t DEF CopyFolder, Jobs
  <2> QED
    BY <1>4, <2>1 DEF Pending
<1>5. ASSUME NEW m \in job.todo, CopyOpen(m) PROVE Pending(n)'
  <2>1. job'.left = job.left /\ job'.todo = job.todo
    BY <1>5, <1>t DEF CopyOpen, Jobs
  <2> QED
    BY <2>1 DEF Pending
<1>6. CASE CopyClose
  <2>1. job'.left = job.left /\ job'.todo = job.todo \ {job.open}
    BY <1>6, <1>t DEF CopyClose, Closed, Jobs
  <2> QED
    BY <1>6, <2>1 DEF Pending
<1>7. CASE FallBack
  <2>1. job'.left = Now.paths
    BY <1>7 DEF FallBack, Idle
  <2> QED
    BY <1>a, <2>1 DEF Pending
<1>8. CASE StageDone
  <2>1. job.todo = {} /\ job.left = {}
    BY <1>8 DEF StageDone, Resting
  <2> QED
    BY <2>1 DEF Pending
<1>9. CASE CopyError
  <2>1. job'.left = Now.paths
    BY <1>9, <1>e DEF CopyError, Idle
  <2> QED
    BY <1>a, <2>1 DEF Pending
<1>10. CASE \/ ManifestOpen \/ ManifestClose \/ ManifestError \/ DeleteError
            \/ \E p \in job.todo : DeleteNode(p)
            \/ \E p \in job.left : MakeFolder(p) \/ MakeFolderError(p)
  BY <1>10, <1>w DEF ManifestOpen, ManifestClose, ManifestError, DeleteError, DeleteNode,
     MakeFolder, MakeFolderError, Doing
<1>11. CASE \/ PowerOn \/ PowerLoss \/ Detect \/ MountFails \/ DetectBlind \/ DetectHangs
            \/ LaunchFails \/ Press
  <2>1. ip \notin Work \/ ip' = "off"
    BY <1>11, NotWork DEF PowerOn, PowerLoss, Detect, MountFails, DetectBlind, DetectHangs,
       LaunchFails, Press, Confirm, Launch, NoPayload, Reboot, Waiting, Final, Enter
  <2> QED
    BY <1>w, <2>1, NotWork
<1> QED
  BY <1>1, <1>2, <1>3, <1>4, <1>5, <1>6, <1>7, <1>8, <1>9, <1>10, <1>11, <1>12
     DEF Next, Progress, Failure, vars

LEMMA PlacedStep ==
    TInv /\ UserDataInv /\ StagedAsPacked /\ PlacedInv /\ [Next]_vars => PlacedInv'
<1> SUFFICES ASSUME TInv, UserDataInv, StagedAsPacked, PlacedInv, [Next]_vars,
                    ip' \in Installing,
                    NEW n \in (Pack[variant] \ slipped)', Anc[n] \cap InstallDue(ip)' # {},
                    sd'[variant'][n] # "absent"
             PROVE  sd'["root"][n] = sd'[variant'][n] \/ Awaited(n)'
  BY DEF PlacedInv
<1>w. /\ ip \in Work /\ variant \in Variants /\ variant' = variant
      /\ ip' # ip => \E s \in {Now.ok, Now.err} : Enter(s)
  BY InstallFrom
<1>t. sd \in [Areas -> [Nodes -> Content]] /\ job \in Jobs
  BY DEF TInv, TypeOK, Jobs
<1>n. /\ n \in Pack[variant] /\ n \in Nodes /\ n \in Anc[n] /\ Anc[n] \subseteq Nodes
      /\ sd[variant][n] # "absent" /\ sd'[variant][n] = sd[variant][n]
      /\ sd[variant][n] = AsPacked(variant, n)
  <2>1. n \in Pack[variant] /\ n \in Nodes
    BY <1>w, OwnerAssumption
  <2>2. sd'[variant][n] # "absent"
    BY <1>w
  <2>3. sd'[variant][n] = sd[variant][n]
    BY <1>w, <2>1, <2>2, StagingShrinks
  <2>4. sd[variant][n] \in {"absent", AsPacked(variant, n)}
    BY <1>w, <2>1 DEF StagedAsPacked
  <2> QED
    BY <2>1, <2>2, <2>3, <2>4, TreeAssumption
<1>d. n \notin slipped' /\ n \notin slipped
  BY SlipsStay
<1>u. Anc[n] \cap InstallDue(ip') # {}
  <2>1. InstallDue(ip)' = InstallDue(ip')
    BY <1>w DEF InstallDue, Tops
  <2> QED
    BY <2>1
\* Where an installation starts, everything is still to be done.
<1>1. CASE ip \notin Installing
  <2>1. PICK s \in {Plan(ip).ok, Plan(ip).err} : Enter(s)
    BY <1>1, <1>w DEF Now
  <2>2. s = "in_atmosphere" /\ ip' = s
    BY <1>1, <1>w, <2>1, Endings DEF Enter, Installing
  <2>3. job'.left = {"atmosphere"} \cap Nodes
    BY <2>1, <2>2, InstallStart DEF Enter, Idle, CopyStages, Work
  <2>4. Pending(n)'
    BY <1>n, <1>u, <2>2, <2>3, InstallStart DEF Pending
  <2>5. Now'.do \in Copies
    <3>1. Plan("in_atmosphere")'.do = Plan("in_atmosphere").do
      BY <1>w, <2>2, RowsStay DEF Work, InstallStages
    <3> QED
      BY <1>w, <2>2, <3>1, InstallStart, InstallKinds DEF Now, CopyStages
  <2> QED
    BY <2>4, <2>5 DEF Awaited
\* A node that this step changes is the copy, or on its way to be it.
<1>2. CASE ip \in Installing /\ sd'["root"][n] # sd["root"][n]
  <2>1. CASE CopyFolder(n) /\ sd'["root"][n] = "dir" /\ n \in Folders
    BY <1>n, <1>w, <2>1 DEF AsPacked
  <2>2. CASE CopyOpen(n) /\ job'.open = n /\ n \in job.todo
    <3>1. job'.todo = job.todo /\ UNCHANGED <<ip, variant>> /\ Now.do \in Copies
      BY <1>t, <2>2 DEF CopyOpen, Doing, Jobs
    <3>2. Now'.do = Now.do
      BY <1>w, <3>1, NowStays
    <3> QED
      BY <2>2, <3>1, <3>2 DEF Awaited, Pending
  <2>3. CASE CopyClose /\ sd'["root"][n] = sd[variant][n]
    BY <1>n, <1>w, <2>3
  <2>4. CASE ip = "mk_clean" /\ n \in job.todo
    <3>1. Anc[n] \cap Markers # {}
      BY <1>w, <2>4, InstallStart DEF UserDataInv, JobInv, Now
    <3>2. Anc[n] \cap Tops("oc") = {}
      BY <1>n, <3>1, OwnerAssumption
    <3>3. ip' \in {"mk_clean", "staging"}
      BY <1>w, <2>4, InstallStart DEF Enter, Now
    <3>4. Tops(variant) \subseteq Tops("oc") /\ InstallDue(ip') = Tops(variant)
      BY <3>3, InstallStart DEF Tops
    <3> QED
      BY <1>u, <3>2, <3>4
  <2>5. CASE n = "config/omninx" /\ sd'["root"][n] = "dir"
    BY <1>n, <1>w, <2>5, TreeAssumption DEF AsPacked
  <2>6. CASE n = Manifest /\ ManifestOpen /\ job'.open = n
    <3>1. Now'.do = "manifest"
      BY <1>w, <2>6, NowStays DEF ManifestOpen, Doing
    <3> QED
      BY <2>6, <3>1 DEF Awaited
  <2>7. CASE n = Manifest /\ sd'["root"][n] = variant
    BY <1>n, <1>w, <2>7, TreeAssumption DEF AsPacked
  <2>8. ip # "up_lists" /\ ip \in Updating
    BY <1>2, Phases DEF Updating, Installing
  <2> QED
    BY <1>2, <1>n, <2>1, <2>2, <2>3, <2>4, <2>5, <2>6, <2>7, <2>8, RootWrites
\* One that was in place and is not changed stays there.
<1>3. CASE sd["root"][n] = sd[variant][n] /\ sd'["root"][n] = sd["root"][n]
  BY <1>3, <1>n, <1>w
\* What is left was awaited, or is due from this step on.
<1>4. CASE /\ ip \in Installing /\ sd'["root"][n] = sd["root"][n] /\ ip' = ip
           /\ sd["root"][n] # sd[variant][n]
  <2>1. Awaited(n)
    BY <1>4, <1>d, <1>n, <1>u DEF PlacedInv
  <2>2. Now'.do = Now.do
    BY <1>4, <1>w, NowStays
  <2>3. CASE Now.do \in Copies /\ Pending(n)
    <3>1. ip \in CopyStages
      BY <1>4, <1>w, <2>3, InstallKinds, OtherRows DEF Installing, Now, Copies
    <3>2. CASE Pending(n)'
      BY <2>2, <2>3, <3>2 DEF Awaited
    <3>3. CASE CopyFolder(n)
      <4>1. Put("root", n, "dir") /\ n \in Folders
        BY <1>w, <3>1, <3>3, InstallKinds DEF CopyFolder, Now, CopyStages
      <4> QED
        BY <1>n, <1>t, <1>w, <4>1 DEF Put, Areas, AsPacked
    <3>4. CASE CopyClose /\ job.open = n
      <4>1. Put("root", n, sd[variant][n])
        BY <1>w, <3>1, <3>4, InstallKinds DEF CopyClose, Now, CopyStages
      <4> QED
        BY <1>n, <1>t, <1>w, <4>1 DEF Put, Areas
    <3> QED
      BY <1>4, <1>d, <1>n, <2>3, <3>1, <3>2, <3>3, <3>4, PendingStays
  <2>4. CASE Now.do = "manifest" /\ n = job.open
    <3>1. CASE job'.open = n
      BY <2>2, <2>4, <3>1 DEF Awaited
    <3>2. CASE job'.open # n
      <4>1. n = Manifest
        BY <1>n, <1>w, <2>4, TreeAssumption DEF UserDataInv, JobInv, Copies
      <4>2. CopyClose \/ ManifestClose
        BY <1>4, <1>d, <2>4, <3>2, <4>1, ManifestEnds DEF Updating
      <4>3. ManifestClose
        BY <2>4, <4>2 DEF CopyClose, Doing, Copies
      <4> QED
        BY <1>n, <1>t, <1>w, <4>1, <4>3, TreeAssumption DEF ManifestClose, Put, Areas, AsPacked
    <3> QED
      BY <3>1, <3>2
  <2> QED
    BY <2>1, <2>3, <2>4 DEF Awaited
<1>5. CASE /\ ip \in Installing /\ sd'["root"][n] = sd["root"][n] /\ ip' # ip
           /\ sd["root"][n] # sd[variant][n]
  <2>1. PICK s \in {Plan(ip).ok, Plan(ip).err} : Enter(s)
    BY <1>5, <1>w DEF Now
  <2>2. ip' = s /\ ip \in InstallStages
    BY <1>5, <2>1, OtherRows, Phases DEF Enter, Installing, InstallStages
  <2>e. job' = IF s \in Work THEN [Idle EXCEPT !.left = Plan(s).paths] ELSE Idle
    BY <2>1 DEF Enter
  <2>w. s \in Work /\ job'.left = Plan(s).paths /\ job'.open = NoNode
    BY <2>2, <2>e DEF Installing, Work, Idle
  <2>3. CASE ip \in CopyStages
    <3>1. Now.do \in {"install", "files"} /\ Now.do \in Copies
      BY <1>w, <2>3, CopyRows, InstallKinds, Phases DEF Now, CopyStages, BackupStages, RestoreStages
    <3>2. Now.do = "install" => Now.err \notin Installing
      BY <1>w, Endings, Phases DEF Now, Installing, Waiting, InstallStages
    <3>3. StageDone
      <4>1. CASE CopyError
        BY <2>2, <3>1, <3>2, <4>1 DEF CopyError, Doing, Enter
      <4>2. CASE \/ ManifestOpen \/ ManifestClose \/ ManifestError \/ DeleteError
                 \/ \E p \in job.todo : DeleteNode(p)
                 \/ \E p \in job.left : MakeFolder(p) \/ MakeFolderError(p)
        BY <3>1, <4>2 DEF ManifestOpen, ManifestClose, ManifestError, DeleteError, DeleteNode,
           MakeFolder, MakeFolderError, Doing
      <4>3. CASE \/ CopyClose \/ CopyUnflushed \/ RootFileError \/ FallBack \/ UNCHANGED vars
                 \/ \E p \in job.left : Visit(p) \/ Overlook(p) \/ Miscount(p)
                 \/ \E p \in job.todo : CopyFolder(p) \/ CopyOpen(p)
        BY <1>5, <4>3 DEF CopyClose, CopyUnflushed, RootFileError, FallBack, vars, Visit, Overlook,
           Miscount, CopyFolder, CopyOpen
      <4>4. CASE \/ PowerOn \/ PowerLoss \/ Detect \/ MountFails \/ DetectBlind \/ DetectHangs
                 \/ LaunchFails \/ Press
        <5>1. ip \notin Work \/ ip' = "off"
          BY <4>4, NotWork DEF PowerOn, PowerLoss, Detect, MountFails, DetectBlind, DetectHangs,
             LaunchFails, Press, Confirm, Launch, NoPayload, Reboot, Waiting, Final, Enter
        <5> QED
          BY <1>w, <2>2, <2>w, <5>1, NotWork
      <4> QED
        BY <4>1, <4>2, <4>3, <4>4 DEF Next, Progress, Failure
    <3>4. s = Plan(ip).ok /\ ~Pending(n)
      BY <2>2, <3>3 DEF StageDone, Resting, Enter, Pending, Now
    <3>5. Now.do # "manifest"
      BY <3>1
    <3>6. Anc[n] \cap InstallDue(ip) = {}
      BY <1>5, <1>d, <1>n, <3>4, <3>5 DEF PlacedInv, Awaited
    <3>7. s \in CopyStages /\ InstallDue(s) \cap Nodes \subseteq InstallDue(ip) \cup Plan(s).paths
      BY <1>u, <1>w, <2>2, <2>3, <3>4, <3>6, InstallOrder
    <3>8. Pending(n)'
      BY <1>n, <1>u, <2>2, <2>w, <3>6, <3>7 DEF Pending
    <3>9. Now'.do = Plan(s).do
      BY <1>w, <2>2, <2>w, RowsStay DEF Now
    <3>10. Plan(s).do \in Copies
      BY <1>w, <3>7, InstallKinds DEF CopyStages
    <3> QED
      BY <3>8, <3>9, <3>10 DEF Awaited
  <2>4. CASE ip \notin CopyStages
    <3>1. ip \in {"mf_mkdir", "mf_write", "mk_clean"} /\ ip' \in {"mf_write", "mk_clean", "staging"}
      BY <2>1, <2>2, <2>4, InstallStart DEF CopyStages
    <3>2. Awaited(n)
      BY <1>5, <1>d, <1>n, <1>u, <3>1, InstallStart DEF PlacedInv
    <3>3. Now.do = "manifest" /\ n = job.open
      BY <1>w, <2>2, <2>4, <3>2, InstallKinds DEF Awaited, Now
    <3>4. n = Manifest /\ job'.open # Manifest
      BY <1>n, <1>w, <2>w, <3>3, TreeAssumption DEF UserDataInv, JobInv, Copies
    <3>5. CopyClose \/ ManifestClose
      BY <1>5, <1>d, <3>3, <3>4, ManifestEnds DEF Updating
    <3>6. ManifestClose
      BY <3>3, <3>5 DEF CopyClose, Doing, Copies
    <3> QED
      BY <1>n, <1>t, <1>w, <3>4, <3>6, TreeAssumption DEF ManifestClose, Put, Areas, AsPacked
  <2> QED
    BY <2>3, <2>4
<1> QED
  BY <1>1, <1>2, <1>3, <1>4, <1>5
-----------------------------------------------------------------------------
(* Success is real.                                                        *)

\* The summary is good only when the cleanup of the staging folder was.
LEMMA ToSummary ==
    ASSUME TInv, UserDataInv, [Next]_vars, ip' = "summary", res' = "ok"
    PROVE  /\ ip \in {"staging", "summary"} /\ res = "ok"
           /\ UNCHANGED <<sd, variant, whole>>
<1>s. "summary" \notin Final \cup {"off", "detect", "confirm", "nopack", "missing", "up_lists", "bk_mkdir"}
  BY DEF Final
<1>n. "summary" \notin Work
  BY NotWork DEF Waiting
<1>e. ASSUME ip \in Work
      PROVE  /\ Now.ok = "summary" => ip = "staging" \/ res # "ok"
             /\ Now.err = "summary" => Now.stop \/ res # "ok"
             /\ Now.do = "manifest" => Now.ok # "summary" /\ Now.err # "summary"
             /\ Now.do = "mkdir" => ip # "staging"
  BY <1>e, NowType, Endings, ManifestRow, OtherRows DEF Now
<1>1. CASE \/ PowerOn \/ MountFails \/ DetectHangs \/ Launch \/ LaunchFails \/ NoPayload
           \/ Reboot \/ PowerLoss \/ Detect \/ DetectBlind \/ Confirm
  BY <1>1, <1>s DEF PowerOn, MountFails, DetectHangs, Launch, LaunchFails, NoPayload, Reboot,
     PowerLoss, Detect, DetectBlind, Confirm, Decide, Enter, Final
<1>2. CASE StageDone
  BY <1>2, <1>e DEF StageDone, Doing, Enter
<1>3. CASE CopyError \/ \E n \in job.left : MakeFolderError(n)
  <2>1. ip \in Work /\ Now.err = "summary" /\ res' = IF Now.stop THEN "error" ELSE res
    BY <1>3 DEF CopyError, MakeFolderError, Doing, Enter
  <2> QED
    BY <1>e, <2>1
<1>4. CASE DeleteError
  <2>1. ip \in Work /\ res' = IF Now.stop THEN "error" ELSE res
    BY <1>4 DEF DeleteError, Doing
  <2>2. Now.err = "summary"
    BY <1>4, <1>n, <2>1 DEF DeleteError, Enter
  <2> QED
    BY <1>e, <2>1, <2>2
<1>5. CASE ManifestClose \/ ManifestError \/ \E n \in job.left : MakeFolder(n)
  <2>1. /\ ip \in Work /\ ip' \in {Now.ok, Now.err} /\ res' = res
        /\ Now.do \in {"manifest", "mkdir"} /\ (Now.do = "mkdir" => ip' = Now.ok)
    BY <1>5 DEF ManifestClose, ManifestError, MakeFolder, Doing, Enter
  <2> QED
    BY <1>e, <2>1
<1>6. CASE \/ CopyClose \/ CopyUnflushed \/ RootFileError \/ FallBack \/ ManifestOpen
           \/ \E p \in job.left : Visit(p) \/ Overlook(p) \/ Miscount(p)
           \/ \E p \in job.todo : CopyFolder(p) \/ CopyOpen(p) \/ DeleteNode(p)
  BY <1>6, <1>n DEF CopyClose, CopyUnflushed, RootFileError, FallBack, ManifestOpen,
     Visit, Overlook, Miscount, CopyFolder, CopyOpen, DeleteNode, Doing
<1>7. CASE UNCHANGED vars
  BY <1>7 DEF vars
<1> QED
  BY <1>1, <1>2, <1>3, <1>4, <1>5, <1>6, <1>7 DEF Next, Progress, Failure, Press

LEMMA ManifestStep ==
    TInv /\ UserDataInv /\ FinishInv /\ [Next]_vars =>
        (ip' \in {"mk_clean", "staging"} /\ Manifest \notin slipped' => sd'["root"][Manifest] = variant')
<1> SUFFICES ASSUME TInv, UserDataInv, FinishInv, [Next]_vars,
                    ip' \in {"mk_clean", "staging"}, Manifest \notin slipped'
             PROVE  sd'["root"][Manifest] = variant'
  OBVIOUS
<1>m. /\ Manifest \in Nodes /\ Manifest # "config/omninx"
      /\ Anc[Manifest] \cap (Markers \cup UpdateList) = {}
  BY TreeAssumption, OwnerAssumption
<1>w. /\ ip \in Work /\ variant \in Variants /\ variant' = variant
      /\ ip' # ip => \E s \in {Now.ok, Now.err} : Enter(s)
  BY InstallFrom DEF Installing, InstallStages
<1>t. sd \in [Areas -> [Nodes -> Content]]
  BY DEF TInv, TypeOK
<1>d. Manifest \notin slipped
  BY SlipsStay
<1>1. CASE ip \in {"mk_clean", "staging"}
  <2>1. sd["root"][Manifest] = variant
    BY <1>1, <1>d DEF FinishInv
  <2>2. ip \notin CopyStages \cup {"up_lists", "mf_mkdir", "mf_write"} /\ ip \in Updating
    BY <1>1 DEF CopyStages, InstallStages, Updating, Installing
  <2>3. ~ManifestOpen /\ ~ManifestClose
    BY <1>w, <2>2, ManifestRow DEF ManifestOpen, ManifestClose, Doing, Now
  <2> QED
    BY <1>m, <1>w, <2>1, <2>2, <2>3, RootWrites
<1>2. CASE ip \notin {"mk_clean", "staging"}
  <2>1. PICK s \in {Plan(ip).ok, Plan(ip).err} : Enter(s)
    BY <1>2, <1>w DEF Now
  <2>2. ip' = s /\ ip = "mf_write"
    BY <1>2, <1>w, <2>1, Endings DEF Enter
  <2>3. Now.do = "manifest" /\ Now.do \notin Copies \cup {"mkdir", "delete"}
    BY <1>w, <2>2, InstallKinds DEF Now, InstallStages, Copies
  <2>4. CASE ManifestClose
    BY <1>m, <1>t, <1>w, <2>4 DEF ManifestClose, Put, Areas
  <2>5. CASE ManifestError
    BY <2>5 DEF ManifestError, Slip
  <2>6. CASE ManifestOpen \/ UNCHANGED vars
    BY <1>2, <2>6 DEF ManifestOpen, vars
  <2>7. CASE \/ CopyClose \/ CopyUnflushed \/ RootFileError \/ FallBack \/ CopyError \/ DeleteError
             \/ StageDone
             \/ \E p \in job.left : \/ Visit(p) \/ Overlook(p) \/ Miscount(p)
                                    \/ MakeFolder(p) \/ MakeFolderError(p)
             \/ \E p \in job.todo : CopyFolder(p) \/ CopyOpen(p) \/ DeleteNode(p)
    BY <2>3, <2>7 DEF CopyClose, CopyUnflushed, RootFileError, FallBack, CopyError, DeleteError,
       StageDone, Visit, Overlook, Miscount, MakeFolder, MakeFolderError, CopyFolder, CopyOpen,
       DeleteNode, Doing, Copies
  <2>8. CASE \/ PowerOn \/ PowerLoss \/ Detect \/ MountFails \/ DetectBlind \/ DetectHangs
             \/ LaunchFails \/ Press
    <3>1. ip \notin Work \/ ip' = "off"
      BY <2>8, NotWork DEF PowerOn, PowerLoss, Detect, MountFails, DetectBlind, DetectHangs,
         LaunchFails, Press, Confirm, Launch, NoPayload, Reboot, Waiting, Final, Enter
    <3> QED
      BY <1>w, <3>1
  <2> QED
    BY <2>4, <2>5, <2>6, <2>7, <2>8 DEF Next, Progress, Failure
<1> QED
  BY <1>1, <1>2

LEMMA WholeStep ==
    TInv /\ UserDataInv /\ FinishInv /\ [Next]_vars =>
        (ip' \in (Work \ {"staging"}) \cup {"confirm"} /\ whole' => Complete(variant)')
<1> SUFFICES ASSUME TInv, UserDataInv, FinishInv, [Next]_vars,
                    ip' \in (Work \ {"staging"}) \cup {"confirm"}, whole'
             PROVE  Complete(variant)'
  OBVIOUS
<1>1. CASE Detect \/ DetectBlind
  <2>1. PICK m, seen : Decide(m, seen) /\ UNCHANGED sd
    BY <1>1 DEF Detect, DetectBlind
  <2>2. ASSUME NEW v, variant' = v, whole' = Complete(v) PROVE Complete(variant)'
    BY <2>1, <2>2 DEF Complete
  <2> QED
    BY <2>1, <2>2 DEF Decide
<1>2. ASSUME UNCHANGED <<variant, whole>>, ip \in (Work \ {"staging"}) \cup {"confirm"}
      PROVE  Complete(variant)'
  <2>1. variant \in Variants /\ Complete(variant)
    BY <1>2 DEF TInv, VariantKnown, FinishInv
  <2>2. \A n \in Pack[variant] : n \in Nodes /\ sd[variant][n] # "absent"
    BY <2>1, OwnerAssumption DEF Complete
  <2>3. ip # "staging"
    BY <1>2
  <2>4. \A n \in Pack[variant] : sd'[variant][n] = sd[variant][n]
    BY <2>1, <2>2, <2>3, StagingShrinks
  <2> QED
    BY <1>2, <2>2, <2>4 DEF Complete
<1>3. CASE Confirm
  BY <1>2, <1>3 DEF Confirm
<1>4. CASE UNCHANGED vars
  BY <1>2, <1>4 DEF vars
<1>5. CASE \/ PowerOn \/ MountFails \/ DetectHangs \/ Launch \/ LaunchFails \/ NoPayload
           \/ Reboot \/ PowerLoss
  <2>1. ip' \in Final \cup {"off", "detect", "missing"}
    BY <1>5 DEF PowerOn, MountFails, DetectHangs, Launch, LaunchFails, NoPayload, Reboot,
       PowerLoss, Enter, Final
  <2> QED
    BY <2>1, NotWork DEF Waiting, Final
<1>6. ASSUME ip \in Work, UNCHANGED <<variant, whole>>, ip' \in {ip, Now.ok, Now.err}
      PROVE  Complete(variant)'
  <2>1. ip = "staging" => ip' \in {"staging", "summary"}
    BY <1>6, OtherRows DEF Now
  <2>2. ip # "staging"
    BY <2>1, NotWork DEF Waiting
  <2> QED
    BY <1>2, <1>6, <2>2
<1>7. CASE \/ CopyError \/ ManifestClose \/ ManifestError \/ StageDone \/ DeleteError
           \/ \E n \in job.left : MakeFolder(n) \/ MakeFolderError(n)
  BY <1>6, <1>7 DEF CopyError, ManifestClose, ManifestError, StageDone, DeleteError,
     MakeFolder, MakeFolderError, Doing, Enter
<1>8. CASE \/ CopyClose \/ CopyUnflushed \/ RootFileError \/ FallBack \/ ManifestOpen
           \/ \E p \in job.left : Visit(p) \/ Overlook(p) \/ Miscount(p)
           \/ \E p \in job.todo : CopyFolder(p) \/ CopyOpen(p) \/ DeleteNode(p)
  BY <1>6, <1>8 DEF CopyClose, CopyUnflushed, RootFileError, FallBack, ManifestOpen,
     Visit, Overlook, Miscount, CopyFolder, CopyOpen, DeleteNode, Doing
<1> QED
  BY <1>1, <1>3, <1>4, <1>5, <1>7, <1>8 DEF Next, Progress, Failure, Press

LEMMA InPlaceStep ==
    TInv /\ UserDataInv /\ PackInv /\ PlacedInv' /\ StagedAsPacked' /\ [Next]_vars =>
        (ip' = "staging" \/ (ip' = "summary" /\ res' = "ok") => (whole' => InPlace'))
<1> SUFFICES ASSUME TInv, UserDataInv, PackInv, PlacedInv', StagedAsPacked', [Next]_vars,
                    ip' = "staging" \/ (ip' = "summary" /\ res' = "ok"), whole'
             PROVE  InPlace'
  OBVIOUS
<1>d. slipped \subseteq slipped'
  BY SlipsStay
<1>f. FinishInv
  BY DEF PackInv
\* Where it was in place already nothing writes to the live tree.
<1>1. ASSUME ip = "staging" \/ (ip = "summary" /\ res = "ok"), UNCHANGED <<variant, whole>>
      PROVE  InPlace'
  <2>1. InPlace
    BY <1>1, <1>f DEF FinishInv
  <2>2. CASE ip = "summary"
    <3>1. UNCHANGED sd
      BY <2>2, NotWork, WorkWrites DEF Waiting
    <3> QED
      BY <1>1, <1>d, <2>1, <3>1 DEF InPlace, AsPacked, Shipped, Tops
  <2>3. CASE ip = "staging"
    <3>1. ip \in Work /\ variant \in Variants
      BY <2>3 DEF Work, TInv, VariantKnown
    <3>2. ip \notin CopyStages \cup {"up_lists", "mf_mkdir", "mf_write", "mk_clean"} /\ ip \in Updating
      BY <2>3 DEF CopyStages, InstallStages, Updating, Installing
    <3>3. ~ManifestOpen /\ ~ManifestClose
      BY <3>1, <3>2, ManifestRow DEF ManifestOpen, ManifestClose, Doing, Now
    <3>4. \A n \in Nodes : sd'["root"][n] = sd["root"][n]
      BY <3>2, <3>3, RootWrites
    <3>5. Shipped(variant) \subseteq Nodes
      BY <3>1, OwnerAssumption DEF Shipped
    <3> QED
      BY <1>1, <1>d, <2>1, <3>4, <3>5, TreeAssumption DEF InPlace, AsPacked, Shipped, Tops
  <2> QED
    BY <1>1, <2>2, <2>3
<1>2. CASE ip' = "summary"
  BY <1>1, <1>2, ToSummary
<1>3. CASE ip' = "staging"
  <2>1. ip \in Work /\ variant \in Variants /\ UNCHANGED <<variant, whole>>
    BY <1>3, InstallFrom DEF Installing
  <2>2. CASE ip = "staging"
    BY <1>1, <2>1, <2>2
  <2>3. CASE ip # "staging"
    <3>1. Complete(variant)
      BY <1>f, <2>1, <2>3 DEF FinishInv
    <3>2. Manifest \notin slipped' => sd'["root"][Manifest] = variant'
      BY <1>3, <1>f, ManifestStep
    <3>3. ASSUME NEW n \in Shipped(variant) \ slipped' PROVE sd'["root"][n] = AsPacked(variant, n)
      <4>1. /\ n \in Pack[variant] /\ n \in Nodes /\ Anc[n] \cap Tops(variant) # {}
            /\ sd[variant][n] # "absent"
        BY <2>1, <3>1, OwnerAssumption DEF Shipped, Complete
      <4>2. sd'[variant][n] = sd[variant][n]
        BY <2>1, <2>3, <4>1, StagingShrinks
      <4>3. sd'[variant][n] = AsPacked(variant, n)
        BY <2>1, <4>1, <4>2 DEF StagedAsPacked, AsPacked
      <4>4. ~Awaited(n)'
        <5>1. Plan("staging")'.do = Plan("staging").do
          BY <2>1, RowsStay DEF Work
        <5> QED
          BY <1>3, <5>1, OtherRows DEF Awaited, Now, Copies
      <4>5. InstallDue(ip)' = Tops(variant)
        BY <1>3, <2>1 DEF InstallDue, Tops
      <4>6. n \in Pack[variant'] /\ Anc[n] \cap InstallDue(ip)' # {} /\ sd'[variant'][n] # "absent"
        BY <2>1, <4>1, <4>2, <4>5
      <4> QED
        BY <1>3, <2>1, <4>3, <4>4, <4>6 DEF PlacedInv, Installing
    <3> QED
      BY <2>1, <3>2, <3>3 DEF InPlace, Shipped, AsPacked, Tops
  <2> QED
    BY <2>2, <2>3
<1> QED
  BY <1>2, <1>3
-----------------------------------------------------------------------------
(* The invariant and the theorems.                                         *)

PIInv == TInv /\ UserDataInv /\ PackInv

LEMMA PackStep == PIInv /\ [Next]_vars => PIInv'
<1> SUFFICES ASSUME PIInv, [Next]_vars PROVE PIInv'
  OBVIOUS
<1>1. TInv /\ UserDataInv /\ StagedAsPacked /\ KeepInv /\ PlacedInv /\ FinishInv
  BY DEF PIInv, PackInv
<1>2. TInv' /\ UserDataInv' /\ StagedAsPacked' /\ KeepInv' /\ PlacedInv'
  BY <1>1, TypeStep, UserDataStep, AsPackedStep, KeepStep, PlacedStep
<1>3. FinishInv'
  BY <1>1, <1>2, ManifestStep, WholeStep, InPlaceStep DEF FinishInv, PIInv
<1> QED
  BY <1>2, <1>3 DEF PIInv, PackInv

LEMMA PackInit == Init => PIInv
<1> SUFFICES ASSUME Init PROVE PIInv
  OBVIOUS
<1>0. start \in Starts /\ sd = StartCard(start) /\ ip = "off" /\ job = Idle
  BY DEF Init
<1>1. TInv /\ UserDataInv
  BY InitType, UserDataInit
<1>2. StagedAsPacked
  <2> SUFFICES ASSUME NEW v \in Variants, NEW n \in Nodes
               PROVE  sd[v][n] \in {"absent", AsPacked(v, n)}
    BY DEF StagedAsPacked
  <2>1. v \in Areas /\ v \notin {"root", "backup"}
    BY DEF Areas, Variants
  <2> QED
    BY <1>0, <2>1 DEF StartCard, AsPacked
<1>3. KeepInv
  <2>1. ASSUME start.manifest \in Variants PROVE sd["root"][Manifest] \in Variants
    <3>1. /\ Manifest \in Nodes /\ Manifest # "/" /\ Manifest \notin Folders
          /\ Manifest \notin start.old \cup start.mine
      BY <1>0, TreeAssumption, OwnerAssumption, StartAssumption
    <3>2. sd["root"][Manifest] = start.manifest
      BY <1>0, <3>1 DEF StartCard, Areas
    <3> QED
      BY <2>1, <3>2
  <2>2. ASSUME NEW f \in OtherFiles \cap start.mine PROVE sd["root"][f] = "user"
    <3>1. f \in Nodes /\ f \notin Folders /\ f # "/" /\ f # Manifest
      BY OwnerAssumption, TreeAssumption
    <3>2. f \notin start.old
      BY <1>0, <3>1, StartAssumption
    <3> QED
      BY <1>0, <2>2, <3>1, <3>2 DEF StartCard, Areas
  <2> QED
    BY <1>0, <2>1, <2>2, NotWork, Phases DEF KeepInv, Kept
<1>4. PlacedInv /\ FinishInv
  BY <1>0, NotWork, Phases DEF PlacedInv, FinishInv, Installing
<1> QED
  BY <1>1, <1>2, <1>3, <1>4 DEF PIInv, PackInv

LEMMA PackAlways == Spec => []PIInv
  BY PackInit, PackStep, PTL DEF Spec

\* InstallerInv holds in every state of every run, for every tree, card, pack
\* and number of boots and faults: what is staged, backed up and in place and
\* what the manifest says fit the stage the installation is at.
THEOREM InstallerInvariantHolds == Spec => []InstallerInv
<1>1. Init => PIInv /\ TreeInv
  BY PackInit, TreeInit
<1>2. PIInv /\ TreeInv /\ [Next]_vars => (PIInv /\ TreeInv)'
  BY PackStep, CardStep, OpenStep, BelowStep DEF PIInv, UserDataInv, TreeInv
<1>3. PIInv /\ TreeInv => InstallerInv
  BY DEF PIInv, InstallerInv
<1> QED
  BY <1>1, <1>2, <1>3, PTL DEF Spec

\* Update mode never becomes clean mode and never touches a file that no list
\* names and no pack holds, through any number of interrupted runs, as long as
\* the manifest is not left cut short or misread (main.c:287).
THEOREM UpdateModeKeeps == Spec => []UpdateKeepsOthers
<1>1. KeepInv => UpdateKeepsOthers
  BY DEF KeepInv, Kept, UpdateKeepsOthers
<1> QED
  BY <1>1, InstallerInvariantHolds, PTL DEF InstallerInv, PackInv

\* A summary that reports success is right: all of a pack that was whole is in
\* place and the manifest names it (main.c:363), but for what an error that was
\* dropped on the way was about.
THEOREM SuccessIsSound == Spec => []SuccessIsReal
<1>1. FinishInv => SuccessIsReal
  BY DEF FinishInv, SuccessIsReal, InPlace, AsPacked
<1> QED
  BY <1>1, InstallerInvariantHolds, PTL DEF InstallerInv, PackInv

\* The staging folder is taken apart only after all of it has been copied, so
\* an installation that fails or is interrupted can be repeated
\* (cleanup_staging_directory).
THEOREM PackIsMoved == Spec => PackMovedNotLost
<1> DEFINE Moved == \A v \in Variants : \A n \in Shipped(v) \ slipped :
                      sd[v][n] # "absent" /\ sd'[v][n] = "absent" =>
                          sd["root"][n] = sd[v][n]
<1>1. PIInv /\ [Next]_vars => Moved
  <2> SUFFICES ASSUME PIInv, [Next]_vars, NEW v \in Variants, NEW n \in Shipped(v) \ slipped,
                      sd[v][n] # "absent", sd'[v][n] = "absent"
               PROVE  sd["root"][n] = sd[v][n]
    OBVIOUS
  <2>1. n \in Pack[v] /\ n \in Nodes /\ Anc[n] \cap Tops(v) # {}
    BY OwnerAssumption DEF Shipped
  <2>2. ip = "staging" /\ variant = v /\ DeleteNode(n)
    BY <2>1, StagingShrinks DEF PIInv
  <2>3. ~Awaited(n)
    BY <2>2, OtherRows DEF Awaited, Now, Copies
  <2>4. InstallDue(ip) = Tops(v)
    BY <2>2, InstallStart
  <2> QED
    BY <2>1, <2>2, <2>3, <2>4 DEF PIInv, PackInv, PlacedInv, Installing
<1> QED
  BY <1>1, PackAlways, PTL DEF Spec, PackMovedNotLost
=============================================================================
