--------------------------- MODULE InstallerProofs ---------------------------
(***************************************************************************)
(* Theorems about Installer for every card, pack and number of failures:   *)
(* the types, and that clean mode never loses the user's files.  Both TInv *)
(* and UserDataInv are inductive; UserDataSafe and WipeNeedsBackup follow. *)
(***************************************************************************)
EXTENDS InstallerInvariant, TLAPS

(***************************************************************************)
(* The plan, as facts the proofs below can cite.                           *)
(***************************************************************************)

LEMMA PlanSplit ==
    /\ \A s \in BackupStages : Plan(s) = BackupPlan(s)
    /\ \A s \in WipeStages : Plan(s) = WipePlan(s)
    /\ \A s \in RestoreStages : Plan(s) = RestorePlan(s)
    /\ \A s \in InstallStages : Plan(s) = InstallPlan(s)
  BY DEF Plan, BackupStages, WipeStages, RestoreStages, InstallStages

Kinds == {"mkdir", "copy", "install", "files", "delete", "manifest"}

LEMMA BackupRows ==
    ASSUME NEW s \in BackupStages
    PROVE  LET r == BackupPlan(s) IN
           /\ r.ok \in {"bk_DBI", "bk_tinfoil", "bk_keys", "wp_atmosphere"}
           /\ r.err = "summary"
           /\ r.from = "root" /\ r.to = "backup" /\ r.paths \subseteq Nodes
           /\ r.do = IF s = "bk_mkdir" THEN "mkdir" ELSE "copy"
  BY DEF BackupStages, BackupPlan, Row

LEMMA WipeRows ==
    ASSUME NEW s \in WipeStages
    PROVE  LET r == WipePlan(s) IN
           /\ r.ok \in WipeStages \cup {"rs_mkdir"}
           /\ r.err \in {"summary", "wp_lists", "rs_mkdir"}
           /\ r.from = "root" /\ r.to = "root" /\ r.paths \subseteq Nodes
           /\ r.do = IF s = "wp_mkdir" THEN "mkdir" ELSE "delete"
  BY DEF WipeStages, WipePlan, Row

LEMMA RestoreRows ==
    ASSUME NEW s \in RestoreStages
    PROVE  LET r == RestorePlan(s) IN
           /\ r.ok \in RestoreStages \cup {"in_atmosphere", "summary"}
           /\ r.err \in RestoreStages \cup {"in_atmosphere", "summary"}
           /\ r.paths \subseteq Nodes
           /\ r.from = IF s \in {"rs_DBI", "rs_tinfoil", "rs_keys"} THEN "backup" ELSE "root"
           /\ r.to = IF s = "rs_cleanup" THEN "backup" ELSE "root"
           /\ r.do = CASE s = "rs_mkdir" -> "mkdir"
                       [] s \in {"rs_DBI", "rs_tinfoil", "rs_keys"} -> "copy"
                       [] OTHER -> "delete"
  BY DEF RestoreStages, RestorePlan, Row

LEMMA InstallRows ==
    ASSUME NEW s \in InstallStages
    PROVE  LET r == InstallPlan(s) IN
           /\ r.ok \in InstallStages \cup {"staging"}
           /\ r.err \in InstallStages \cup {"summary"}
           /\ r.paths \subseteq Nodes
           /\ r.from = IF s \in {"mf_mkdir", "mk_clean"} THEN "root" ELSE variant
           /\ r.to = "root"
           /\ r.do = CASE s = "mf_mkdir" -> "mkdir"
                       [] s = "mf_write" -> "manifest"
                       [] s = "mk_clean" -> "delete"
                       [] s = "in_files" -> "files"
                       [] OTHER -> "install"
  BY DEF InstallStages, InstallPlan, Row

LEMMA StageSets ==
    /\ BackupStages \subseteq Stages /\ WipeStages \subseteq Stages
    /\ RestoreStages \subseteq Stages /\ InstallStages \subseteq Stages
    /\ Work \subseteq Stages /\ Waiting \subseteq Stages /\ Final \subseteq Stages
    /\ {"up_lists", "staging", "off", "detect"} \subseteq Stages
    /\ "summary" \in Waiting /\ "wp_atmosphere" \in WipeStages
    /\ "rs_mkdir" \in RestoreStages /\ "in_atmosphere" \in InstallStages
    /\ {"bk_DBI", "bk_tinfoil", "bk_keys"} \subseteq BackupStages
    /\ "wp_lists" \in WipeStages
  BY DEF Stages, Work, BackupStages, WipeStages, RestoreStages, InstallStages, Waiting

LEMMA OtherRows ==
    /\ LET r == Plan("up_lists") IN
         /\ r.ok = "in_atmosphere" /\ r.err = "up_lists" /\ r.do = "delete"
         /\ r.from = "root" /\ r.to = "root" /\ r.paths = UpdateList \cap Nodes
    /\ LET r == Plan("staging") IN
         /\ r.ok = "summary" /\ r.err = "summary" /\ r.do = "delete"
         /\ r.from = "root" /\ r.to = variant /\ r.paths \subseteq Nodes
  BY DEF Plan, Row, BackupStages, WipeStages, RestoreStages, InstallStages

\* Every row is well formed once a pack has been chosen.
LEMMA RowType ==
    ASSUME NEW s \in Work, variant \in Variants
    PROVE  LET r == Plan(s) IN
           /\ r.from \in Areas /\ r.to \in Areas /\ r.paths \subseteq Nodes
           /\ r.ok \in Stages /\ r.err \in Stages
<1> DEFINE r == Plan(s)
<1>a. {"root", "backup", variant} \subseteq Areas
  BY DEF Areas
<1>1. CASE s \in BackupStages
  <2>1. r = BackupPlan(s)
    BY <1>1, PlanSplit
  <2> QED
    BY <1>1, <1>a, <2>1, BackupRows, StageSets
<1>2. CASE s \in WipeStages
  <2>1. r = WipePlan(s)
    BY <1>2, PlanSplit
  <2> QED
    BY <1>2, <1>a, <2>1, WipeRows, StageSets
<1>3. CASE s \in RestoreStages
  <2>1. r = RestorePlan(s)
    BY <1>3, PlanSplit
  <2> QED
    BY <1>3, <1>a, <2>1, RestoreRows, StageSets
<1>4. CASE s \in InstallStages
  <2>1. r = InstallPlan(s)
    BY <1>4, PlanSplit
  <2> QED
    BY <1>4, <1>a, <2>1, InstallRows, StageSets
<1>5. CASE s = "up_lists"
  BY <1>5, <1>a, OtherRows, StageSets
<1>6. CASE s = "staging"
  BY <1>6, <1>a, OtherRows, StageSets
<1> QED
  BY <1>1, <1>2, <1>3, <1>4, <1>5, <1>6 DEF Work
-----------------------------------------------------------------------------
(* Type correctness.                                                       *)

Jobs == [left : SUBSET Nodes, todo : SUBSET Nodes, open : Nodes \cup {NoNode},
         again : BOOLEAN]

TInv == TypeOK /\ VariantKnown

\* Where a run is not working.
LEMMA NotWork ==
    \A s \in Waiting \cup Final \cup {"off", "detect"} : s \notin Work
  BY DEF Waiting, Final, Work, BackupStages, WipeStages, RestoreStages, InstallStages

LEMMA EnterType ==
    ASSUME NEW s \in Stages, s \in Work => variant \in Variants, Enter(s)
    PROVE  ip' = s /\ ip' \in Stages /\ job' \in Jobs
<1>1. Idle \in Jobs
  BY DEF Idle, Jobs
<1>2. ASSUME s \in Work PROVE Plan(s).paths \subseteq Nodes
  BY <1>2, RowType
<1>3. CASE s \in Work
  BY <1>2, <1>3 DEF Enter, Idle, Jobs
<1>4. CASE s \notin Work
  BY <1>1, <1>4 DEF Enter
<1> QED
  BY <1>3, <1>4

LEMMA StartType == ASSUME NEW c \in Starts PROVE StartCard(c) \in [Areas -> [Nodes -> Content]]
  BY StartAssumption, SMTT(30) DEF StartCard, Content, Areas, Variants

LEMMA InitType == Init => TInv
<1> SUFFICES ASSUME Init PROVE TInv
  OBVIOUS
<1>1. sd \in [Areas -> [Nodes -> Content]]
  BY StartType DEF Init
<1>2. job \in Jobs
  BY DEF Init, Idle, Jobs
<1>3. VariantKnown
  BY NotWork DEF Init, VariantKnown
<1>4. boots \in 0..MaxBoots /\ faults \in 0..MaxFaults
  BY StartAssumption DEF Init
<1>5. ip \in Stages
  BY StageSets DEF Init
<1>6. whole \in BOOLEAN /\ slipped \in SUBSET Nodes
  BY DEF Init
<1> QED
  BY <1>1, <1>2, <1>3, <1>4, <1>5, <1>6 DEF Init, TInv, TypeOK, Jobs
-----------------------------------------------------------------------------
\* What the parts of an action do to the types.
LEMMA PutType ==
    ASSUME sd \in [Areas -> [Nodes -> Content]], NEW a, NEW n, NEW c \in Content, Put(a, n, c)
    PROVE  sd' \in [Areas -> [Nodes -> Content]]
  BY DEF Put

LEMMA FaultType ==
    ASSUME faults \in 0..MaxFaults, Fault
    PROVE  faults' \in 0..MaxFaults
  BY StartAssumption DEF Fault

LEMMA CutShortType == CutShort \in SUBSET Nodes
  BY TreeAssumption, OwnerAssumption DEF CutShort

LEMMA UnrestoredType ==
    ASSUME job.todo \in SUBSET Nodes
    PROVE  Unrestored \in SUBSET Nodes
  BY DEF Unrestored, Under

LEMMA SlipType ==
    ASSUME slipped \in SUBSET Nodes, NEW S \in SUBSET Nodes, Slip(S)
    PROVE  slipped' \in SUBSET Nodes
  BY DEF Slip

\* Inside a stage the row that is worked on is well formed.
LEMMA NowType ==
    ASSUME TInv, ip \in Work
    PROVE  /\ variant \in Variants /\ Now.from \in Areas /\ Now.to \in Areas
           /\ Now.paths \subseteq Nodes /\ Now.ok \in Stages /\ Now.err \in Stages
  BY RowType DEF TInv, VariantKnown, Now

LEMMA DecideType ==
    ASSUME NEW m, NEW seen \in SUBSET Variants, Decide(m, seen)
    PROVE  /\ mode' \in {"none", "update", "clean"} /\ whole' \in BOOLEAN
           /\ variant' \in Variants \cup {"none"}
           /\ ip' \in Stages /\ job' \in Jobs /\ VariantKnown'
<1>1. mode' \in {"none", "update", "clean"}
  BY DEF Decide
<1>2. CASE variant' = "none" /\ whole' = FALSE /\ Enter("nopack")
  <2>1. "nopack" \in Stages /\ "nopack" \notin Work /\ "nopack" # "confirm"
    BY NotWork DEF Stages, Waiting
  <2> QED
    BY <1>1, <1>2, <2>1, EnterType DEF VariantKnown
<1>3. ASSUME NEW v \in seen, variant' = v, whole' = Complete(v), Enter("confirm")
      PROVE  /\ whole' \in BOOLEAN /\ variant' \in Variants
             /\ ip' \in Stages /\ job' \in Jobs
  <2>1. "confirm" \in Stages /\ "confirm" \notin Work
    BY NotWork DEF Stages, Waiting
  <2> QED
    BY <1>3, <2>1, EnterType DEF Complete
<1> QED
  BY <1>1, <1>2, <1>3 DEF Decide, VariantKnown

LEMMA TypeStep == TInv /\ [Next]_vars => TInv'
<1> SUFFICES ASSUME TInv, [Next]_vars PROVE TInv'
  OBVIOUS
<1> USE DEF Jobs
<1>t. /\ sd \in [Areas -> [Nodes -> Content]] /\ ip \in Stages
      /\ mode \in {"none", "update", "clean"} /\ variant \in Variants \cup {"none"}
      /\ job \in Jobs /\ res \in {"ok", "error"}
      /\ boots \in 0..MaxBoots /\ faults \in 0..MaxFaults
      /\ start \in Starts /\ whole \in BOOLEAN /\ slipped \in SUBSET Nodes
      /\ VariantKnown
  BY DEF TInv, TypeOK
<1>stay. ASSUME UNCHANGED <<ip, variant>> PROVE VariantKnown'
  BY <1>t, <1>stay DEF VariantKnown
<1>go. ASSUME NEW s \in Stages, s \in Work \cup {"confirm"} => variant \in Variants,
              Enter(s), UNCHANGED variant
       PROVE  ip' \in Stages /\ job' \in Jobs /\ VariantKnown'
  BY <1>go, EnterType DEF VariantKnown
<1>end. ASSUME NEW s \in Final \cup {"off", "detect", "missing"}
        PROVE  s \in Stages /\ s \notin Work \cup {"confirm"}
  BY NotWork, StageSets DEF Final, Waiting, Stages
<1>1. CASE UNCHANGED vars
  BY <1>1, <1>t, <1>stay DEF vars, TInv, TypeOK
<1>2. CASE PowerOn
  <2>1. boots' \in 0..MaxBoots
    BY <1>2, <1>t, StartAssumption DEF PowerOn
  <2>2. "detect" \in Stages /\ "detect" \notin Work \cup {"confirm"}
    BY <1>end
  <2>3. ip' \in Stages /\ job' \in Jobs /\ ip' = "detect"
    BY <1>2, <2>2, EnterType DEF PowerOn
  <2> QED
    BY <1>2, <1>t, <2>1, <2>2, <2>3 DEF PowerOn, TInv, TypeOK, VariantKnown
<1>3. CASE MountFails
  <2>1. "rebooted" \in Stages /\ "rebooted" \notin Work \cup {"confirm"}
    BY <1>end DEF Final
  <2> QED
    BY <1>3, <1>t, <1>go, <2>1, FaultType DEF MountFails, TInv, TypeOK
<1>4. CASE Detect
  <2>1. Seen \in SUBSET Variants
    BY DEF Seen
  <2> QED
    BY <1>4, <1>t, <2>1, DecideType DEF Detect, TInv, TypeOK
<1>5. CASE DetectBlind
  <2>1. Seen \in SUBSET Variants /\ \A v : Seen \ {v} \in SUBSET Variants
    BY DEF Seen
  <2>2. slipped' \in SUBSET Nodes /\ faults' \in 0..MaxFaults
    BY <1>5, <1>t, FaultType, TreeAssumption DEF DetectBlind, Slip
  <2>3. \E m : \E seen \in SUBSET Variants : Decide(m, seen)
    BY <1>5, <2>1 DEF DetectBlind
  <2> QED
    BY <1>5, <1>t, <2>2, <2>3, DecideType DEF DetectBlind, TInv, TypeOK
<1>6. CASE DetectHangs
  <2>1. "hung" \in Stages /\ "hung" \notin Work \cup {"confirm"}
    BY <1>end DEF Final
  <2>2. faults' \in 0..MaxFaults
    BY <1>6, <1>t, StartAssumption DEF DetectHangs
  <2> QED
    BY <1>6, <1>t, <1>go, <2>1, <2>2 DEF DetectHangs, TInv, TypeOK
<1>7. CASE Confirm
  <2>1. variant \in Variants
    BY <1>7, <1>t DEF Confirm, VariantKnown
  <2>2. "up_lists" \in Stages /\ "bk_mkdir" \in Stages
    BY DEF Stages, Work, BackupStages
  <2> QED
    BY <1>7, <1>t, <1>go, <2>1, <2>2 DEF Confirm, TInv, TypeOK
<1>8. CASE Launch
  <2>1. "chainloaded" \in Stages /\ "chainloaded" \notin Work \cup {"confirm"}
    BY <1>end DEF Final
  <2> QED
    BY <1>8, <1>t, <1>go, <2>1 DEF Launch, TInv, TypeOK
<1>9. CASE LaunchFails
  <2>1. "halted" \in Stages /\ "halted" \notin Work \cup {"confirm"}
    BY <1>end DEF Final
  <2> QED
    BY <1>9, <1>t, <1>go, <2>1, FaultType DEF LaunchFails, TInv, TypeOK
<1>10. CASE NoPayload
  <2>1. /\ "missing" \in Stages /\ "missing" \notin Work \cup {"confirm"}
        /\ "rebooted" \in Stages /\ "rebooted" \notin Work \cup {"confirm"}
    BY <1>end DEF Final
  <2>2. faults' \in 0..MaxFaults
    BY <1>10, <1>t, StartAssumption DEF NoPayload
  <2> QED
    BY <1>10, <1>t, <1>go, <2>1, <2>2 DEF NoPayload, TInv, TypeOK
<1>11. CASE Reboot
  <2>1. "rebooted" \in Stages /\ "rebooted" \notin Work \cup {"confirm"}
    BY <1>end DEF Final
  <2> QED
    BY <1>11, <1>t, <1>go, <2>1 DEF Reboot, TInv, TypeOK
<1>12. CASE PowerLoss
  <2>1. "off" \in Stages /\ "off" \notin Work \cup {"confirm"}
    BY <1>end
  <2>2. slipped' \in SUBSET Nodes
    BY <1>12, <1>t, CutShortType, SlipType DEF PowerLoss
  <2> QED
    BY <1>12, <1>t, <1>go, <2>1, <2>2 DEF PowerLoss, TInv, TypeOK
<1>now. ASSUME ip \in Work
        PROVE  /\ variant \in Variants /\ Now.from \in Areas /\ Now.to \in Areas
               /\ Now.paths \subseteq Nodes /\ Now.ok \in Stages /\ Now.err \in Stages
  BY <1>now, NowType
<1>13. ASSUME NEW p \in job.left, Visit(p) PROVE TInv'
  <2>1. job' \in Jobs
    BY <1>13, <1>t DEF Visit, Present, Under
  <2> QED
    BY <1>13, <1>t, <1>stay, <2>1 DEF Visit, TInv, TypeOK
<1>14. ASSUME NEW p \in job.left, Overlook(p) PROVE TInv'
  <2>1. job' \in Jobs
    BY <1>14, <1>t DEF Overlook
  <2>2. slipped' \in SUBSET Nodes /\ faults' \in 0..MaxFaults
    BY <1>14, <1>t, FaultType DEF Overlook, Slip, Under
  <2> QED
    BY <1>14, <1>t, <1>stay, <2>1, <2>2 DEF Overlook, TInv, TypeOK
<1>15. ASSUME NEW p \in job.left, Miscount(p) PROVE TInv'
  <2>1. job' \in Jobs
    BY <1>15, <1>t DEF Miscount
  <2>2. slipped' \in SUBSET Nodes /\ faults' \in 0..MaxFaults
    BY <1>15, <1>t, FaultType DEF Miscount, Slip, Under
  <2> QED
    BY <1>15, <1>t, <1>stay, <2>1, <2>2 DEF Miscount, TInv, TypeOK
<1>16. ASSUME NEW n \in job.todo, CopyFolder(n) \/ CopyOpen(n) \/ DeleteNode(n)
       PROVE  TInv'
  <2>1. job' \in Jobs
    BY <1>16, <1>t DEF CopyFolder, CopyOpen, DeleteNode
  <2>2. sd' \in [Areas -> [Nodes -> Content]]
    BY <1>16, <1>t, PutType DEF CopyFolder, CopyOpen, DeleteNode, Content
  <2> QED
    BY <1>16, <1>t, <1>stay, <2>1, <2>2 DEF CopyFolder, CopyOpen, DeleteNode, TInv, TypeOK
<1>17. CASE CopyClose
  <2>1. job' \in Jobs
    BY <1>17, <1>t DEF CopyClose, Closed
  <2>2. sd[Now.from][job.open] \in Content
    BY <1>17, <1>t, <1>now DEF CopyClose, Doing
  <2>3. sd' \in [Areas -> [Nodes -> Content]]
    BY <1>17, <1>t, <2>2, PutType DEF CopyClose
  <2> QED
    BY <1>17, <1>t, <1>stay, <2>1, <2>3 DEF CopyClose, TInv, TypeOK
<1>18. CASE CopyUnflushed
  <2>1. job' \in Jobs
    BY <1>18, <1>t DEF CopyUnflushed, Closed
  <2>2. slipped' \in SUBSET Nodes /\ faults' \in 0..MaxFaults
    BY <1>18, <1>t, FaultType DEF CopyUnflushed, Slip
  <2> QED
    BY <1>18, <1>t, <1>stay, <2>1, <2>2 DEF CopyUnflushed, TInv, TypeOK
<1>19. CASE RootFileError
  <2>1. job' \in Jobs
    BY <1>19, <1>t DEF RootFileError
  <2>2. slipped' \in SUBSET Nodes /\ faults' \in 0..MaxFaults
    BY <1>19, <1>t, FaultType DEF RootFileError, Slip
  <2> QED
    BY <1>19, <1>t, <1>stay, <2>1, <2>2 DEF RootFileError, TInv, TypeOK
<1>20. CASE FallBack
  <2>1. job' \in Jobs
    BY <1>20, <1>t, <1>now DEF FallBack, Doing, Idle
  <2>2. slipped' \in SUBSET Nodes /\ faults' \in 0..MaxFaults
    BY <1>20, <1>t, FaultType, CutShortType, SlipType DEF FallBack
  <2> QED
    BY <1>20, <1>t, <1>stay, <2>1, <2>2 DEF FallBack, TInv, TypeOK
<1>21. CASE CopyError
  <2>1. ip' \in Stages /\ job' \in Jobs /\ VariantKnown'
    BY <1>21, <1>go, <1>now DEF CopyError, Doing
  <2>2. slipped' \in SUBSET Nodes /\ faults' \in 0..MaxFaults
    BY <1>21, <1>t, FaultType, CutShortType, UnrestoredType DEF CopyError, Slip
  <2> QED
    BY <1>21, <1>t, <2>1, <2>2 DEF CopyError, TInv, TypeOK
<1>22. CASE DeleteError
  <2>1. ip' \in Stages /\ job' \in Jobs /\ VariantKnown'
    <3>1. CASE Enter(Now.err)
      BY <1>22, <1>go, <1>now, <3>1 DEF DeleteError, Doing
    <3>2. CASE job' = [job EXCEPT !.todo = {}] /\ UNCHANGED ip
      BY <1>22, <1>t, <1>stay, <3>2 DEF DeleteError
    <3> QED
      BY <1>22, <3>1, <3>2 DEF DeleteError
  <2> QED
    BY <1>22, <1>t, <2>1, FaultType DEF DeleteError, TInv, TypeOK
<1>23. ASSUME NEW n \in job.left, MakeFolder(n) PROVE TInv'
  <2>1. ip' \in Stages /\ job' \in Jobs /\ VariantKnown'
    BY <1>23, <1>go, <1>now DEF MakeFolder, Doing
  <2>2. sd' \in [Areas -> [Nodes -> Content]]
    BY <1>23, <1>t, PutType DEF MakeFolder, Content
  <2> QED
    BY <1>23, <1>t, <2>1, <2>2 DEF MakeFolder, TInv, TypeOK
<1>24. ASSUME NEW n \in job.left, MakeFolderError(n) PROVE TInv'
  <2>1. ip' \in Stages /\ job' \in Jobs /\ VariantKnown'
    BY <1>24, <1>go, <1>now DEF MakeFolderError, Doing
  <2>2. slipped' \in SUBSET Nodes /\ faults' \in 0..MaxFaults
    BY <1>24, <1>t, StartAssumption, OwnerAssumption DEF MakeFolderError, Slip
  <2> QED
    BY <1>24, <1>t, <2>1, <2>2 DEF MakeFolderError, TInv, TypeOK
<1>25. CASE ManifestOpen
  <2>1. job' \in Jobs
    BY <1>25, <1>t, TreeAssumption DEF ManifestOpen
  <2>2. sd' \in [Areas -> [Nodes -> Content]]
    BY <1>25, <1>t, PutType DEF ManifestOpen, Content
  <2> QED
    BY <1>25, <1>t, <1>stay, <2>1, <2>2 DEF ManifestOpen, TInv, TypeOK
<1>26. CASE ManifestClose
  <2>1. ip' \in Stages /\ job' \in Jobs /\ VariantKnown'
    BY <1>26, <1>go, <1>now DEF ManifestClose, Doing
  <2>2. variant \in Content
    BY <1>26, <1>now DEF ManifestClose, Doing, Content
  <2>3. sd' \in [Areas -> [Nodes -> Content]]
    BY <1>26, <1>t, <2>2, PutType DEF ManifestClose
  <2> QED
    BY <1>26, <1>t, <2>1, <2>3 DEF ManifestClose, TInv, TypeOK
<1>27. CASE ManifestError
  <2>1. ip' \in Stages /\ job' \in Jobs /\ VariantKnown'
    BY <1>27, <1>go, <1>now DEF ManifestError, Doing
  <2>2. slipped' \in SUBSET Nodes /\ faults' \in 0..MaxFaults
    BY <1>27, <1>t, StartAssumption, TreeAssumption DEF ManifestError, Slip
  <2> QED
    BY <1>27, <1>t, <2>1, <2>2 DEF ManifestError, TInv, TypeOK
<1>28. CASE StageDone
  <2>1. ip' \in Stages /\ job' \in Jobs /\ VariantKnown'
    BY <1>28, <1>go, <1>now DEF StageDone, Doing
  <2> QED
    BY <1>28, <1>t, <2>1 DEF StageDone, TInv, TypeOK
<1> QED
  BY <1>1, <1>2, <1>3, <1>4, <1>5, <1>6, <1>7, <1>8, <1>9, <1>10, <1>11, <1>12,
     <1>13, <1>14, <1>15, <1>16, <1>17, <1>18, <1>19, <1>20, <1>21, <1>22, <1>23,
     <1>24, <1>25, <1>26, <1>27, <1>28 DEF Next, Progress, Failure, Press

\* Every variable has the shape the code gives it, whatever the card holds
\* and however often the power or a call fails.
THEOREM TypeCorrect == Spec => []TypeOK
<1>1. Init => TInv
  BY InitType
<1>2. TInv /\ [Next]_vars => TInv'
  BY TypeStep
<1>3. TInv => TypeOK
  BY DEF TInv
<1> QED
  BY <1>1, <1>2, <1>3, PTL DEF Spec

(***************************************************************************)
(* The plan once more, by the kind of call.                                *)
(***************************************************************************)

LEMMA CopyRows ==
    ASSUME NEW s \in Work, variant \in Variants, Plan(s).do \in Copies
    PROVE  \/ /\ s \in {"bk_DBI", "bk_tinfoil", "bk_keys"}
              /\ Plan(s).from = "root" /\ Plan(s).to = "backup" /\ Plan(s).do = "copy"
           \/ /\ s \in {"rs_DBI", "rs_tinfoil", "rs_keys"}
              /\ Plan(s).from = "backup" /\ Plan(s).to = "root" /\ Plan(s).do = "copy"
           \/ /\ s \in InstallStages
              /\ Plan(s).from = variant /\ Plan(s).to = "root"
              /\ Plan(s).do \in {"install", "files"}
<1>1. CASE s \in BackupStages
  BY <1>1, PlanSplit, BackupRows DEF BackupStages, Copies
<1>2. CASE s \in WipeStages
  BY <1>2, PlanSplit, WipeRows DEF Copies
<1>3. CASE s \in RestoreStages
  BY <1>3, PlanSplit, RestoreRows DEF RestoreStages, Copies
<1>4. CASE s \in InstallStages
  BY <1>4, PlanSplit, InstallRows DEF Copies
<1>5. CASE s \in {"up_lists", "staging"}
  BY <1>5, OtherRows DEF Copies
<1> QED
  BY <1>1, <1>2, <1>3, <1>4, <1>5 DEF Work

LEMMA DeleteRows ==
    ASSUME NEW s \in Work, variant \in Variants, Plan(s).do = "delete"
    PROVE  \/ s \in WipeStages /\ Plan(s).to = "root"
           \/ /\ s \in {"rs_DBI_nro", "rs_tinfoil_nro"} /\ Plan(s).to = "root"
              /\ Plan(s).paths \subseteq DbiNros \cup TinfoilNros
           \/ s = "rs_cleanup" /\ Plan(s).to = "backup"
           \/ /\ s \in {"mk_clean", "up_lists"} /\ Plan(s).to = "root"
              /\ Plan(s).paths \subseteq Markers \cup UpdateList
           \/ s = "staging" /\ Plan(s).to = variant
<1>1. CASE s \in BackupStages
  BY <1>1, PlanSplit, BackupRows
<1>2. CASE s \in WipeStages
  BY <1>2, PlanSplit, WipeRows
<1>3. CASE s \in RestoreStages
  <2>1. Plan(s) = RestorePlan(s) /\ s \in {"rs_DBI_nro", "rs_tinfoil_nro", "rs_cleanup"}
    BY <1>3, PlanSplit, RestoreRows DEF RestoreStages
  <2> QED
    BY <1>3, <2>1 DEF RestorePlan, Row
<1>4. CASE s \in InstallStages
  <2>1. Plan(s) = InstallPlan(s) /\ s = "mk_clean"
    BY <1>4, PlanSplit, InstallRows DEF InstallStages
  <2> QED
    BY <1>4, <2>1 DEF InstallPlan, Row
<1>5. CASE s \in {"up_lists", "staging"}
  BY <1>5, OtherRows
<1> QED
  BY <1>1, <1>2, <1>3, <1>4, <1>5 DEF Work

LEMMA FolderRows ==
    ASSUME NEW s \in Work, variant \in Variants, Plan(s).do = "mkdir"
    PROVE  /\ s \in {"bk_mkdir", "wp_mkdir", "rs_mkdir", "mf_mkdir"}
           /\ Plan(s).paths \subseteq {"switch", "config/omninx"}
           /\ Plan(s).to \in {"root", "backup"}
<1>1. CASE s \in BackupStages
  <2>1. Plan(s) = BackupPlan(s) /\ s = "bk_mkdir"
    BY <1>1, PlanSplit, BackupRows
  <2> QED
    BY <2>1 DEF BackupPlan, Row
<1>2. CASE s \in WipeStages
  <2>1. Plan(s) = WipePlan(s) /\ s = "wp_mkdir"
    BY <1>2, PlanSplit, WipeRows
  <2> QED
    BY <2>1 DEF WipePlan, Row
<1>3. CASE s \in RestoreStages
  <2>1. Plan(s) = RestorePlan(s) /\ s = "rs_mkdir"
    BY <1>3, PlanSplit, RestoreRows DEF RestoreStages
  <2> QED
    BY <2>1 DEF RestorePlan, Row
<1>4. CASE s \in InstallStages
  <2>1. Plan(s) = InstallPlan(s) /\ s = "mf_mkdir"
    BY <1>4, PlanSplit, InstallRows DEF InstallStages
  <2> QED
    BY <2>1 DEF InstallPlan, Row
<1>5. CASE s \in {"up_lists", "staging"}
  BY <1>5, OtherRows
<1> QED
  BY <1>1, <1>2, <1>3, <1>4, <1>5 DEF Work

LEMMA ManifestRow ==
    ASSUME NEW s \in Work, variant \in Variants, Plan(s).do = "manifest"
    PROVE  s = "mf_write" /\ Plan(s).to = "root" /\ Plan(s).ok = "mk_clean" /\ Plan(s).err = "mk_clean"
<1>1. CASE s \in BackupStages
  BY <1>1, PlanSplit, BackupRows
<1>2. CASE s \in WipeStages
  BY <1>2, PlanSplit, WipeRows
<1>3. CASE s \in RestoreStages
  BY <1>3, PlanSplit, RestoreRows DEF RestoreStages
<1>4. CASE s \in InstallStages
  <2>1. Plan(s) = InstallPlan(s) /\ s = "mf_write"
    BY <1>4, PlanSplit, InstallRows DEF InstallStages
  <2> QED
    BY <2>1 DEF InstallPlan, Row
<1>5. CASE s \in {"up_lists", "staging"}
  BY <1>5, OtherRows
<1> QED
  BY <1>1, <1>2, <1>3, <1>4, <1>5 DEF Work

\* A stage belongs to one phase.
LEMMA Phases ==
    /\ \A s \in BackupStages : s \notin WipeStages \cup RestoreStages \cup InstallStages
    /\ \A s \in WipeStages : s \notin RestoreStages \cup InstallStages
    /\ \A s \in RestoreStages : s \notin InstallStages
    /\ \A s \in {"up_lists", "staging"} \cup Waiting \cup Final \cup {"off", "detect"} :
         s \notin BackupStages \cup WipeStages \cup RestoreStages \cup InstallStages
    /\ "rs_cleanup" \in RestoreStages
  BY DEF BackupStages, WipeStages, RestoreStages, InstallStages, Waiting, Final

\* Where success leads, in the phases that matter to the user's files.
LEMMA NextOfBackup ==
    /\ Plan("bk_mkdir").ok = "bk_DBI" /\ Plan("bk_DBI").ok = "bk_tinfoil"
    /\ Plan("bk_tinfoil").ok = "bk_keys" /\ Plan("bk_keys").ok = "wp_atmosphere"
    /\ Plan("bk_DBI").paths = {DBI} \cap Nodes
    /\ Plan("bk_tinfoil").paths = {Tinfoil} \cap Nodes
    /\ Plan("bk_keys").paths = {ProdKeys} \cap Nodes
  BY PlanSplit DEF BackupStages, BackupPlan, Row

LEMMA NextOfRestore ==
    /\ Plan("rs_mkdir").ok = "rs_DBI" /\ Plan("rs_mkdir").err = "rs_cleanup"
    /\ Plan("rs_DBI").ok = "rs_DBI_nro" /\ Plan("rs_DBI_nro").ok = "rs_tinfoil"
    /\ Plan("rs_DBI_nro").err = "rs_DBI_nro"
    /\ Plan("rs_tinfoil").ok = "rs_tinfoil_nro" /\ Plan("rs_tinfoil_nro").ok = "rs_keys"
    /\ Plan("rs_tinfoil_nro").err = "rs_tinfoil_nro"
    /\ Plan("rs_keys").ok = "rs_cleanup" /\ Plan("rs_keys").err = "rs_cleanup"
    /\ Plan("rs_DBI").err = "rs_tinfoil" /\ Plan("rs_tinfoil").err = "rs_keys"
    /\ Plan("rs_cleanup").ok \in {"in_atmosphere", "summary"}
    /\ Plan("rs_cleanup").err \in {"in_atmosphere", "summary"}
    /\ Plan("rs_DBI").paths = {DBI} \cap Nodes
    /\ Plan("rs_tinfoil").paths = {Tinfoil} \cap Nodes
    /\ Plan("rs_keys").paths = {ProdKeys} \cap Nodes
  BY PlanSplit DEF RestoreStages, RestorePlan, Row

\* The result of the run has no say in what a stage works on.
LEMMA RowsStay ==
    ASSUME NEW s \in Work, UNCHANGED variant
    PROVE  /\ Plan(s)'.paths = Plan(s).paths /\ Plan(s)'.do = Plan(s).do
           /\ Plan(s)'.from = Plan(s).from /\ Plan(s)'.to = Plan(s).to
<1>1. CASE s \in BackupStages
  BY <1>1 DEF Plan, BackupPlan
<1>2. CASE s \in WipeStages
  BY <1>2, PlanSplit DEF Plan, BackupStages, WipeStages, WipePlan
<1>3. CASE s \in RestoreStages
  BY <1>3 DEF Plan, BackupStages, WipeStages, RestoreStages, RestorePlan, Row
<1>4. CASE s \in InstallStages
  BY <1>4 DEF Plan, BackupStages, WipeStages, RestoreStages, InstallStages, InstallPlan, Row
<1>5. CASE s \in {"up_lists", "staging"}
  BY <1>5 DEF Plan, BackupStages, WipeStages, RestoreStages, InstallStages, Row
<1> QED
  BY <1>1, <1>2, <1>3, <1>4, <1>5 DEF Work
-----------------------------------------------------------------------------
(* The steps of JobInv and StagedIsPack.                                   *)

LEMMA NowStays ==
    ASSUME ip \in Work, UNCHANGED <<ip, variant>>
    PROVE  /\ Now'.paths = Now.paths /\ Now'.do = Now.do
           /\ Now'.from = Now.from /\ Now'.to = Now.to
<1>1. PICK s \in Work : s = ip
  OBVIOUS
<1>2. s = ip'
  BY <1>1
<1> QED
  BY <1>1, <1>2, RowsStay DEF Now

LEMMA EnterJob ==
    ASSUME NEW s \in Stages, s \in Work => UNCHANGED variant, Enter(s)
    PROVE  JobInv'
<1>1. CASE s \notin Work
  BY <1>1 DEF Enter, JobInv
<1>2. CASE s \in Work
  <2>1. ip' = s /\ job' = [Idle EXCEPT !.left = Plan(s).paths]
    BY <1>2 DEF Enter
  <2>2. Now'.paths = Plan(s).paths
    BY <1>2, <2>1, RowsStay DEF Now
  <2> QED
    BY <1>2, <2>1, <2>2 DEF JobInv, Idle
<1> QED
  BY <1>1, <1>2

LEMMA FromIsNotTo ==
    ASSUME TInv, ip \in Work, Now.do \in Copies
    PROVE  Now.from # Now.to
  BY NowType, CopyRows DEF Now, Variants

LEMMA PutElsewhere ==
    ASSUME sd \in [Areas -> [Nodes -> Content]], NEW a, NEW n, NEW c, NEW b \in Areas,
           Put(a, n, c), a # b
    PROVE  sd'[b] = sd[b]
  BY DEF Put

\* A step that stays in its stage keeps JobInv when it keeps what JobInv says.
LEMMA StayJob ==
    ASSUME ip \in Work, UNCHANGED <<ip, variant>>,
           job'.left \subseteq Now.paths,
           \A n \in job'.todo : Anc[n] \cap Now.paths # {},
           Now.do \in Copies => \A n \in job'.todo : sd'[Now.from][n] # "absent",
           job'.open # NoNode => \/ Now.do \in Copies /\ job'.open \in job'.todo
                                 \/ Now.do = "manifest" /\ job'.open = Manifest
    PROVE  JobInv'
<1>1. ip' \in Work
  OBVIOUS
<1> QED
  BY <1>1, NowStays DEF JobInv

LEMMA JobStep == TInv /\ UserDataInv /\ [Next]_vars => JobInv'
<1> SUFFICES ASSUME TInv, UserDataInv, [Next]_vars PROVE JobInv'
  OBVIOUS
<1>j. JobInv
  BY DEF UserDataInv
<1>t. /\ sd \in [Areas -> [Nodes -> Content]] /\ job \in Jobs
  BY DEF TInv, TypeOK, Jobs
<1>n. NoNode \notin Nodes /\ Manifest \in Nodes
  BY TreeAssumption
<1>a. ASSUME NEW p \in Nodes, NEW a
      PROVE  \A n \in Present(a, p) : sd[a][n] # "absent" /\ p \in Anc[n]
  BY DEF Present, Under
<1>w. ASSUME ip \in Work
      PROVE  /\ job.left \subseteq Now.paths
             /\ \A n \in job.todo : Anc[n] \cap Now.paths # {}
             /\ Now.do \in Copies => \A n \in job.todo : sd[Now.from][n] # "absent"
             /\ job.open # NoNode =>
                  \/ Now.do \in Copies /\ job.open \in job.todo
                  \/ Now.do = "manifest" /\ job.open = Manifest
             /\ Now.ok \in Stages /\ Now.err \in Stages /\ Now.paths \subseteq Nodes
             /\ variant \in Variants
  BY <1>w, <1>j, NowType DEF JobInv
<1>1. CASE UNCHANGED vars
  <2>1. CASE ip \in Work
    <3>1. UNCHANGED <<ip, variant, job, sd>>
      BY <1>1 DEF vars
    <3> QED
      BY <2>1, <3>1, <1>w, StayJob
  <2>2. CASE ip \notin Work
    BY <1>1, <2>2, <1>j DEF vars, JobInv
  <2> QED
    BY <2>1, <2>2
<1>2. ASSUME NEW s \in Stages, s \notin Work, Enter(s) PROVE JobInv'
  BY <1>2, EnterJob
<1>3. ASSUME NEW s \in Stages, UNCHANGED variant, Enter(s) PROVE JobInv'
  BY <1>3, EnterJob
<1>4. CASE PowerOn \/ MountFails \/ DetectHangs \/ Launch \/ LaunchFails \/ NoPayload
           \/ Reboot \/ PowerLoss
  <2>1. \E s \in Final \cup {"off", "detect", "missing"} : Enter(s)
    BY <1>4 DEF PowerOn, MountFails, DetectHangs, Launch, LaunchFails, NoPayload,
       Reboot, PowerLoss, Final
  <2> QED
    BY <1>2, <2>1, NotWork, StageSets DEF Waiting
<1>5. CASE Detect \/ DetectBlind
  <2>1. \E m, seen : Decide(m, seen)
    BY <1>5 DEF Detect, DetectBlind
  <2>2. Enter("nopack") \/ Enter("confirm")
    BY <2>1 DEF Decide
  <2> QED
    BY <1>2, <2>2, NotWork, StageSets DEF Waiting
<1>6. CASE Confirm
  <2>1. "up_lists" \in Stages /\ "bk_mkdir" \in Stages
    BY StageSets DEF BackupStages
  <2> QED
    BY <1>6, <1>3, <2>1 DEF Confirm
<1>7. CASE CopyError \/ ManifestClose \/ ManifestError \/ StageDone
  BY <1>7, <1>3, <1>w DEF CopyError, ManifestClose, ManifestError, StageDone, Doing
<1>8. ASSUME NEW n \in job.left, MakeFolder(n) \/ MakeFolderError(n) PROVE JobInv'
  BY <1>8, <1>3, <1>w DEF MakeFolder, MakeFolderError, Doing
<1>9. ASSUME NEW p \in job.left, Visit(p) PROVE JobInv'
  <2>1. ip \in Work /\ UNCHANGED <<ip, variant, sd>> /\ job.open = NoNode /\ p \in Nodes
    BY <1>9, <1>w, <1>t DEF Visit, Doing, Resting, Jobs
  <2>2. /\ job'.left = job.left \ {p} /\ job'.open = job.open
        /\ job'.todo = Present(IF Now.do = "delete" THEN Now.to ELSE Now.from, p)
    BY <1>9, <1>t DEF Visit, Jobs
  <2>3. p \in Now.paths
    BY <2>1, <1>9, <1>w
  <2>4. \A n \in job'.todo : Anc[n] \cap Now.paths # {}
    BY <2>1, <2>2, <2>3, <1>a
  <2>5. Now.do \in Copies => \A n \in job'.todo : sd'[Now.from][n] # "absent"
    BY <2>1, <2>2, <1>a DEF Copies
  <2> QED
    BY <2>1, <2>2, <2>4, <2>5, <1>w, StayJob
<1>10. ASSUME NEW p \in job.left, Overlook(p) PROVE JobInv'
  <2>1. ip \in Work /\ UNCHANGED <<ip, variant, sd>> /\ job.open = NoNode
    BY <1>10 DEF Overlook, Doing, Resting
  <2>2. job'.left = job.left \ {p} /\ job'.open = job.open /\ job'.todo = job.todo
    BY <1>10, <1>t DEF Overlook, Jobs
  <2> QED
    BY <2>1, <2>2, <1>w, StayJob
<1>11. ASSUME NEW p \in job.left, Miscount(p) PROVE JobInv'
  <2>1. ip \in Work /\ UNCHANGED <<ip, variant, sd>> /\ job.open = NoNode /\ p \in Nodes
    BY <1>11, <1>t DEF Miscount, Doing, Resting, Jobs
  <2>2. job'.left = job.left \ {p} /\ job'.open = job.open /\ job'.todo = {p}
    BY <1>11, <1>t DEF Miscount, Jobs
  <2>3. p \in Now.paths /\ p \in Anc[p] /\ sd[Now.from][p] # "absent"
    BY <2>1, <1>11, <1>w, TreeAssumption DEF Miscount
  <2> QED
    BY <2>1, <2>2, <2>3, <1>w, StayJob
<1>12. ASSUME NEW n \in job.todo, CopyFolder(n) \/ CopyOpen(n) PROVE JobInv'
  <2>1. /\ ip \in Work /\ UNCHANGED <<ip, variant>> /\ job.open = NoNode
        /\ Now.do \in Copies
    BY <1>12 DEF CopyFolder, CopyOpen, Doing, Ready
  <2>2. job'.left = job.left /\ job'.todo \subseteq job.todo
    BY <1>12, <1>t DEF CopyFolder, CopyOpen, Jobs
  <2>3. job'.open # NoNode => job'.open \in job'.todo
    BY <1>12, <1>t, <2>1 DEF CopyFolder, CopyOpen, Jobs
  <2>4. \E c : Put(Now.to, n, c)
    BY <1>12 DEF CopyFolder, CopyOpen
  <2>5. sd'[Now.from] = sd[Now.from]
    BY <1>t, <2>1, <2>4, FromIsNotTo, NowType, PutElsewhere
  <2> QED
    BY <2>1, <2>2, <2>3, <2>5, <1>w, StayJob
<1>13. CASE CopyClose \/ CopyUnflushed
  <2>1. ip \in Work /\ UNCHANGED <<ip, variant>> /\ Now.do \in Copies
    BY <1>13 DEF CopyClose, CopyUnflushed, Doing
  <2>2. job'.left = job.left /\ job'.todo \subseteq job.todo /\ job'.open = NoNode
    BY <1>13, <1>t DEF CopyClose, CopyUnflushed, Closed, Jobs
  <2>3. UNCHANGED sd \/ \E n, c : Put(Now.to, n, c)
    BY <1>13 DEF CopyClose, CopyUnflushed
  <2>4. sd'[Now.from] = sd[Now.from]
    BY <1>t, <2>1, <2>3, FromIsNotTo, NowType, PutElsewhere
  <2> QED
    BY <2>1, <2>2, <2>4, <1>w, StayJob
<1>14. CASE RootFileError
  <2>1. ip \in Work /\ UNCHANGED <<ip, variant, sd>>
    BY <1>14 DEF RootFileError, Doing
  <2>2. job'.left = job.left /\ job'.todo = {} /\ job'.open = NoNode
    BY <1>14, <1>t DEF RootFileError, Jobs
  <2> QED
    BY <2>1, <2>2, <1>w, StayJob
<1>15. CASE FallBack
  <2>1. ip \in Work /\ UNCHANGED <<ip, variant, sd>>
    BY <1>15 DEF FallBack, Doing
  <2>2. job'.left = Now.paths /\ job'.todo = {} /\ job'.open = NoNode
    BY <1>15 DEF FallBack, Idle
  <2> QED
    BY <2>1, <2>2, <1>w, StayJob
<1>16. ASSUME NEW n \in job.todo, DeleteNode(n) PROVE JobInv'
  <2>1. ip \in Work /\ UNCHANGED <<ip, variant>> /\ Now.do = "delete"
    BY <1>16 DEF DeleteNode, Doing
  <2>2. job'.left = job.left /\ job'.todo \subseteq job.todo /\ job'.open = job.open
    BY <1>16, <1>t DEF DeleteNode, Jobs
  <2>3. Now.do \notin Copies /\ Now.do # "manifest"
    BY <2>1 DEF Copies
  <2> QED
    BY <2>1, <2>2, <2>3, <1>w, StayJob
<1>17. CASE DeleteError
  <2>1. CASE Enter(Now.err)
    BY <1>17, <2>1, <1>3, <1>w DEF DeleteError, Doing
  <2>2. CASE job' = [job EXCEPT !.todo = {}] /\ UNCHANGED ip
    <3>1. ip \in Work /\ UNCHANGED <<ip, variant, sd>> /\ Now.do = "delete"
      BY <1>17, <2>2 DEF DeleteError, Doing
    <3>2. job'.left = job.left /\ job'.todo = {} /\ job'.open = job.open
      BY <2>2, <1>t DEF Jobs
    <3>3. Now.do \notin Copies /\ Now.do # "manifest"
      BY <3>1 DEF Copies
    <3> QED
      BY <3>1, <3>2, <3>3, <1>w, StayJob
  <2> QED
    BY <1>17, <2>1, <2>2 DEF DeleteError
<1>18. CASE ManifestOpen
  <2>1. ip \in Work /\ UNCHANGED <<ip, variant>> /\ Now.do = "manifest"
    BY <1>18 DEF ManifestOpen, Doing
  <2>2. job'.left = job.left /\ job'.todo = job.todo /\ job'.open = Manifest
    BY <1>18, <1>t DEF ManifestOpen, Jobs
  <2>3. Now.do \notin Copies
    BY <2>1 DEF Copies
  <2> QED
    BY <2>1, <2>2, <2>3, <1>w, StayJob
<1> QED
  BY <1>1, <1>4, <1>5, <1>6, <1>7, <1>8, <1>9, <1>10, <1>11, <1>12, <1>13, <1>14,
     <1>15, <1>16, <1>17, <1>18 DEF Next, Progress, Failure, Press

LEMMA CopyTarget ==
    ASSUME TInv, ip \in Work, Now.do \in Copies \cup {"mkdir"}
    PROVE  Now.to \in {"root", "backup"}
<1>1. variant \in Variants
  BY NowType
<1>2. CASE Now.do \in Copies
  BY <1>1, <1>2, CopyRows DEF Now
<1>3. CASE Now.do = "mkdir"
  BY <1>1, <1>3, FolderRows DEF Now
<1> QED
  BY <1>2, <1>3

LEMMA StagedStep == TInv /\ StagedIsPack /\ [Next]_vars => StagedIsPack'
<1> SUFFICES ASSUME TInv, StagedIsPack, [Next]_vars,
                    NEW v \in Variants, NEW m \in Nodes, sd'[v][m] # "absent"
             PROVE  m \in Pack[v]
  BY DEF StagedIsPack
<1>t. sd \in [Areas -> [Nodes -> Content]] /\ v \in Areas /\ v \notin {"root", "backup"}
  BY DEF TInv, TypeOK, Areas, Variants
<1>s. ASSUME sd'[v] = sd[v] PROVE m \in Pack[v]
  BY <1>s DEF StagedIsPack
<1>p. ASSUME NEW a \in {"root", "backup"}, NEW n, NEW c, Put(a, n, c) PROVE m \in Pack[v]
  BY <1>p, <1>s, <1>t, PutElsewhere
<1>1. CASE UNCHANGED sd
  BY <1>1, <1>s
<1>2. ASSUME NEW n \in job.todo, DeleteNode(n) PROVE m \in Pack[v]
  <2>1. sd'[v][m] = sd[v][m] \/ sd'[v][m] = "absent"
    BY <1>2, <1>t DEF DeleteNode, Put
  <2> QED
    BY <2>1 DEF StagedIsPack
<1>3. ASSUME NEW n \in job.todo, CopyFolder(n) \/ CopyOpen(n) PROVE m \in Pack[v]
  <2>1. ip \in Work /\ Now.do \in Copies /\ \E c : Put(Now.to, n, c)
    BY <1>3 DEF CopyFolder, CopyOpen, Doing
  <2> QED
    BY <1>p, <2>1, CopyTarget
<1>4. CASE CopyClose
  <2>1. ip \in Work /\ Now.do \in Copies /\ \E c : Put(Now.to, job.open, c)
    BY <1>4 DEF CopyClose, Doing
  <2> QED
    BY <1>p, <2>1, CopyTarget
<1>5. ASSUME NEW n \in job.left, MakeFolder(n) PROVE m \in Pack[v]
  <2>1. ip \in Work /\ Now.do = "mkdir" /\ Put(Now.to, n, "dir")
    BY <1>5 DEF MakeFolder, Doing
  <2> QED
    BY <1>p, <2>1, CopyTarget
<1>6. CASE ManifestOpen \/ ManifestClose
  <2>1. \E c : Put("root", Manifest, c)
    BY <1>6 DEF ManifestOpen, ManifestClose
  <2> QED
    BY <1>p, <2>1
<1>7. CASE \/ UNCHANGED vars \/ PowerOn \/ PowerLoss \/ Press \/ Failure \/ Detect \/ StageDone
           \/ \E p \in job.left : Visit(p)
  BY <1>1, <1>7 DEF vars, PowerOn, PowerLoss, Press, Failure, Detect, StageDone, Visit,
     Confirm, Launch, NoPayload, Reboot, MountFails, DetectBlind, DetectHangs, LaunchFails,
     CopyUnflushed, RootFileError, FallBack, CopyError, DeleteError, ManifestError,
     Overlook, Miscount, MakeFolderError
<1> QED
  BY <1>1, <1>2, <1>3, <1>4, <1>5, <1>6, <1>7 DEF Next, Progress
-----------------------------------------------------------------------------
(* The step of DataInv, for one file of the user's.                        *)

FileInv(f) == Live(f) /\ BackedUp(f) /\ Saved(f) /\ Restored(f)

LEMMA OwnedFacts ==
    ASSUME NEW f \in Owned
    PROVE  /\ f \in Nodes /\ f \notin Folders /\ f # NoNode /\ f # Manifest
           /\ f \notin {"switch", "config/omninx"}
           /\ Anc[f] \subseteq Nodes /\ f \in Anc[f]
           /\ Anc[f] \cap {DBI, Tinfoil, ProdKeys} # {}
           /\ Anc[f] \cap (DbiNros \cup TinfoilNros) = {}
           /\ Anc[f] \cap (Markers \cup UpdateList) = {}
           /\ \A v \in Variants : f \notin Pack[v]
  BY TreeAssumption, OwnerAssumption DEF Owned

LEMMA DueFacts ==
    /\ Due("bk_mkdir") = {} /\ Due("rs_mkdir") = {}
    /\ Due("bk_DBI") = {DBI} /\ Due("rs_DBI") = {DBI} /\ Due("rs_DBI_nro") = {DBI}
    /\ Due("bk_tinfoil") = {DBI, Tinfoil} /\ Due("rs_tinfoil") = {DBI, Tinfoil}
    /\ Due("rs_tinfoil_nro") = {DBI, Tinfoil}
    /\ Due("bk_keys") = {DBI, Tinfoil, ProdKeys} /\ Due("rs_keys") = {DBI, Tinfoil, ProdKeys}
  BY DEF Due

\* What has slipped stays so.
LEMMA SlipsStay == [Next]_vars => slipped \subseteq slipped'
  BY DEF Next, Progress, Failure, Press, vars, PowerOn, PowerLoss, Detect, StageDone, Visit,
     Confirm, Launch, NoPayload, Reboot, MountFails, DetectBlind, DetectHangs, LaunchFails,
     CopyUnflushed, RootFileError, FallBack, CopyError, DeleteError, ManifestError,
     Overlook, Miscount, MakeFolderError, CopyClose, ManifestOpen, ManifestClose,
     MakeFolder, CopyFolder, CopyOpen, DeleteNode, Slip

\* Outside clean mode's own phases only Live says anything.
LEMMA Elsewhere ==
    ASSUME NEW f, ip' \notin BackupStages \cup WipeStages \cup RestoreStages,
           \/ sd'["root"][f] = "user"
           \/ sd'["root"][f] = "absent" /\ sd'["backup"][f] = "user"
    PROVE  FileInv(f)'
  BY Phases DEF FileInv, Live, BackedUp, Saved, Restored, Restoring

LEMMA FileStep ==
    ASSUME TInv, JobInv, StagedIsPack, [Next]_vars,
           NEW f \in Owned, f \notin slipped', FileInv(f)
    PROVE  FileInv(f)'
<1>f. /\ f \in Nodes /\ f \notin Folders /\ f # NoNode /\ f # Manifest
      /\ f \notin {"switch", "config/omninx"}
      /\ Anc[f] \subseteq Nodes /\ f \in Anc[f]
      /\ Anc[f] \cap {DBI, Tinfoil, ProdKeys} # {}
      /\ Anc[f] \cap (DbiNros \cup TinfoilNros) = {}
      /\ Anc[f] \cap (Markers \cup UpdateList) = {}
      /\ \A v \in Variants : f \notin Pack[v]
  BY OwnedFacts
<1>t. sd \in [Areas -> [Nodes -> Content]] /\ job \in Jobs
  BY DEF TInv, TypeOK, Jobs
<1>i. Live(f) /\ BackedUp(f) /\ Saved(f) /\ Restored(f)
  BY DEF FileInv
<1>k. f \notin slipped' /\ f \in UserFiles
  BY DEF Owned
<1>w. ASSUME ip \in Work
      PROVE  /\ job.left \subseteq Now.paths
             /\ \A n \in job.todo : Anc[n] \cap Now.paths # {}
             /\ Now.do \in Copies => \A n \in job.todo : sd[Now.from][n] # "absent"
             /\ job.open # NoNode =>
                  \/ Now.do \in Copies /\ job.open \in job.todo
                  \/ Now.do = "manifest" /\ job.open = Manifest
             /\ variant \in Variants
             /\ Now.from \in Areas /\ Now.to \in Areas
  BY <1>w, NowType DEF JobInv
\* Where nothing is being restored the file is whole or saved.
<1>l. ASSUME ~(ip \in Restoring /\ job.open = f)
      PROVE  \/ sd["root"][f] = "user"
             \/ sd["root"][f] = "absent" /\ sd["backup"][f] = "user"
  BY <1>l, <1>i DEF Live
\* A step between stages outside the three phases.
<1>q. ASSUME ip' \notin BackupStages \cup WipeStages \cup RestoreStages,
             sd'["root"][f] = sd["root"][f], sd'["backup"][f] = sd["backup"][f],
             ~(ip \in Restoring /\ job.open = f)
      PROVE  FileInv(f)'
  BY <1>q, <1>l, Elsewhere
\* A step within a stage that touches neither the file nor its turn.
<1>s. ASSUME UNCHANGED ip, sd'["root"][f] = sd["root"][f],
             sd'["backup"][f] = sd["backup"][f],
             job.open = f <=> job'.open = f, Pending(f) => Pending(f)'
      PROVE  FileInv(f)'
  BY <1>s, <1>i DEF FileInv, Live, BackedUp, Saved, Restored
<1>1. CASE UNCHANGED vars
  <2>1. UNCHANGED <<ip, sd, job>>
    BY <1>1 DEF vars
  <2> QED
    BY <2>1, <1>s DEF Pending
<1>2. CASE PowerOn \/ MountFails \/ DetectHangs \/ Launch \/ LaunchFails \/ NoPayload
           \/ Reboot \/ Detect \/ DetectBlind
  <2>1. ip \notin Restoring
    BY <1>2, Phases DEF PowerOn, MountFails, DetectHangs, Launch, LaunchFails, NoPayload,
       Reboot, Detect, DetectBlind, Restoring, Final, Waiting
  <2>2. ip' \in Final \cup Waiting \cup {"off", "detect"} /\ UNCHANGED sd
    BY <1>2 DEF PowerOn, MountFails, DetectHangs, Launch, LaunchFails, NoPayload,
       Reboot, Detect, DetectBlind, Decide, Enter, Final, Waiting
  <2> QED
    BY <1>q, <2>1, <2>2, Phases
<1>3. CASE Confirm
  <2>1. ip \notin Restoring /\ UNCHANGED sd
    BY <1>3, Phases DEF Confirm, Restoring, Waiting
  <2>2. CASE ip' = "up_lists"
    BY <1>q, <2>1, <2>2, Phases
  <2>3. CASE ip' = "bk_mkdir"
    BY <1>l, <2>1, <2>3, Phases, DueFacts DEF FileInv, Live, BackedUp, Saved, Restored,
       Restoring, BackupStages
  <2> QED
    BY <1>3, <2>2, <2>3 DEF Confirm, Enter
\* A copy that is under way ends in a torn file only as a dropped error.
<1>r. ASSUME ip \in Restoring, job.open = f
      PROVE  ip \in {"rs_DBI", "rs_tinfoil", "rs_keys"} /\ Now.do \in Copies /\ Now.to = "root"
  <2>1. ip \in Work /\ ip \in RestoreStages
    BY <1>r DEF Restoring, Work
  <2>2. Now.do \in Copies
    BY <2>1, <1>r, <1>w, <1>f
  <2> QED
    BY <2>1, <2>2, <1>w, CopyRows, Phases, NextOfBackup DEF Now, BackupStages
<1>4. CASE PowerLoss
  <2>1. ip' = "off" /\ UNCHANGED sd
    BY <1>4 DEF PowerLoss, Enter
  <2>2. ASSUME ip \in Restoring, job.open = f PROVE FALSE
    <3>1. ip \in Work /\ Now.to = "root"
      BY <2>2, <1>r DEF Restoring, Work
    <3>2. f \in CutShort
      BY <3>1, <2>2, <1>k DEF CutShort
    <3> QED
      BY <1>4, <3>2, <1>k DEF PowerLoss, Slip
  <2> QED
    BY <1>q, <2>1, <2>2, Phases
<1>5. ASSUME NEW p \in job.left, Visit(p) PROVE FileInv(f)'
  <2>1. /\ ip \in Work /\ UNCHANGED <<ip, sd>> /\ job.open = NoNode /\ job.todo = {}
        /\ Now.do \in Copies \cup {"delete"}
    BY <1>5 DEF Visit, Doing, Resting
  <2>2. /\ job'.left = job.left \ {p} /\ job'.open = NoNode
        /\ job'.todo = Present(IF Now.do = "delete" THEN Now.to ELSE Now.from, p)
    BY <1>5, <1>t, <2>1 DEF Visit, Jobs
  <2>3. Pending(f) /\ ~Pending(f)' => p \in Anc[f]
    BY <2>1, <2>2 DEF Pending
  <2>4. CASE Pending(f) => Pending(f)'
    BY <1>s, <1>f, <2>1, <2>2, <2>4
  <2>5. CASE p \in Anc[f] /\ ~Pending(f)' /\ Now.do \in Copies
    <3>1. sd[Now.from][f] = "absent"
      BY <1>f, <2>1, <2>2, <2>5 DEF Pending, Present, Under, Copies
    <3>2. CASE ip \in BackupStages
      <4>1. sd["backup"][f] = "user"
        BY <1>l, <1>f, <1>w, <2>1, <2>5, <3>1, <3>2, CopyRows, Phases DEF Now, RestoreStages, InstallStages
      <4> QED
        BY <1>i, <2>1, <2>2, <3>2, <4>1, Phases, <1>f DEF FileInv, Live, BackedUp, Saved,
           Restored, Restoring
    <3>3. CASE ip \in RestoreStages
      <4>1. Now.from = "backup" /\ ip \in Restoring
        BY <1>w, <2>1, <2>5, <3>3, CopyRows, Phases DEF Now, BackupStages, Restoring
      <4> QED
        BY <1>i, <3>1, <4>1 DEF Saved
    <3>4. CASE ip \in InstallStages
      BY <1>q, <1>f, <2>1, <3>4, Phases
    <3> QED
      BY <1>w, <2>1, <2>5, <3>2, <3>3, <3>4, CopyRows DEF Now, BackupStages, RestoreStages
  <2>6. CASE p \in Anc[f] /\ Now.do = "delete"
    <3>1. p \in Now.paths
      BY <1>5, <1>w, <2>1
    <3>2. CASE ip \in WipeStages \cup {"rs_cleanup"}
      BY <1>i, <1>f, <2>1, <2>2, <3>2, Phases DEF FileInv, Live, BackedUp, Saved, Restored, Restoring
    <3>3. CASE ip = "staging"
      BY <1>q, <1>f, <2>1, <3>3, Phases
    <3>4. CASE Now.paths \subseteq DbiNros \cup TinfoilNros \/ Now.paths \subseteq Markers \cup UpdateList
      BY <1>f, <2>6, <3>1, <3>4
    <3> QED
      BY <1>w, <2>1, <2>6, <3>2, <3>3, <3>4, DeleteRows DEF Now
  <2> QED
    BY <2>1, <2>3, <2>4, <2>5, <2>6 DEF Pending
<1>6. CASE CopyUnflushed
  <2>1. UNCHANGED <<ip, sd>> /\ job.open # f
    BY <1>6, <1>k DEF CopyUnflushed, Slip
  <2>2. job'.open = NoNode /\ job'.left = job.left /\ job'.todo = job.todo \ {job.open}
    BY <1>6, <1>t DEF CopyUnflushed, Closed, Jobs
  <2>3. Pending(f) => Pending(f)'
    BY <2>1, <2>2 DEF Pending
  <2> QED
    BY <1>s, <1>f, <2>1, <2>2, <2>3
<1>18. ASSUME NEW p \in job.left, Overlook(p) PROVE FileInv(f)'
  <2>1. /\ ip \in Work /\ UNCHANGED <<ip, sd>> /\ job.open = NoNode /\ job.todo = {}
        /\ Now.do \in Copies \cup {"delete"}
    BY <1>18 DEF Overlook, Doing, Resting
  <2>2. job'.left = job.left \ {p} /\ job'.open = NoNode /\ job'.todo = {}
    BY <1>18, <1>t, <2>1 DEF Overlook, Jobs
  <2>3. CASE p \notin Anc[f]
    <3>1. Pending(f) => Pending(f)'
      BY <2>1, <2>2, <2>3 DEF Pending
    <3> QED
      BY <1>s, <1>f, <2>1, <2>2, <3>1
  <2>4. CASE p \in Anc[f] /\ Now.do # "delete"
    BY <1>18, <1>f, <1>k, <2>4 DEF Overlook, Slip, Under
  <2>5. CASE p \in Anc[f] /\ Now.do = "delete"
    <3>1. p \in Now.paths
      BY <1>18, <1>w, <2>1
    <3>2. CASE ip \in WipeStages \cup {"rs_cleanup"}
      BY <1>i, <1>f, <2>1, <2>2, <3>2, Phases DEF FileInv, Live, BackedUp, Saved, Restored, Restoring
    <3>3. CASE ip = "staging"
      BY <1>q, <1>f, <2>1, <3>3, Phases
    <3>4. CASE Now.paths \subseteq DbiNros \cup TinfoilNros \/ Now.paths \subseteq Markers \cup UpdateList
      BY <1>f, <2>5, <3>1, <3>4
    <3> QED
      BY <1>w, <2>1, <2>5, <3>2, <3>3, <3>4, DeleteRows DEF Now
  <2> QED
    BY <2>3, <2>4, <2>5
<1>7. CASE RootFileError \/ FallBack \/ \E p \in job.left : Miscount(p)
  <2>1. ip \in Work /\ UNCHANGED <<ip, sd>> /\ Now.do \in {"files", "install"}
    BY <1>7 DEF RootFileError, FallBack, Miscount, Doing
  <2>2. ip \in InstallStages
    BY <1>w, <2>1, CopyRows DEF Now, Copies
  <2> QED
    BY <1>q, <2>1, <2>2, Phases DEF Restoring
<1>8. ASSUME NEW n \in job.todo, CopyFolder(n) PROVE FileInv(f)'
  <2>1. UNCHANGED ip /\ job.open = NoNode /\ n # f /\ Put(Now.to, n, "dir")
    BY <1>8, <1>f DEF CopyFolder, Ready
  <2>2. job'.open = NoNode /\ job'.left = job.left /\ job'.todo = job.todo \ {n}
    BY <1>8, <1>t, <2>1 DEF CopyFolder, Jobs
  <2>3. sd'["root"][f] = sd["root"][f] /\ sd'["backup"][f] = sd["backup"][f]
    BY <1>t, <2>1 DEF Put, Areas
  <2>4. Pending(f) => Pending(f)'
    BY <2>1, <2>2 DEF Pending
  <2> QED
    BY <1>s, <2>1, <2>2, <2>3, <2>4, <1>f
<1>9. ASSUME NEW n \in job.todo, CopyOpen(n) PROVE FileInv(f)'
  <2>1. /\ ip \in Work /\ UNCHANGED ip /\ Now.do \in Copies /\ job.open = NoNode
        /\ Put(Now.to, n, "torn") /\ sd[Now.from][n] # "absent"
    BY <1>9, <1>w DEF CopyOpen, Doing, Ready
  <2>2. job'.open = n /\ job'.left = job.left /\ job'.todo = job.todo
    BY <1>9, <1>t DEF CopyOpen, Jobs
  <2>3. Pending(f) => Pending(f)'
    BY <2>2 DEF Pending
  <2>4. CASE n # f
    <3>1. sd'["root"][f] = sd["root"][f] /\ sd'["backup"][f] = sd["backup"][f]
      BY <1>t, <2>1, <2>4 DEF Put, Areas
    <3> QED
      BY <1>s, <1>f, <2>1, <2>2, <2>3, <2>4, <3>1
  <2>5. CASE n = f /\ ip \in BackupStages
    <3>1. Now.from = "root" /\ Now.to = "backup"
      BY <1>w, <2>1, <2>5, CopyRows, Phases DEF Now, RestoreStages
    <3>2. sd["root"][f] = "user"
      BY <1>l, <1>f, <2>1, <2>5, <3>1
    <3>3. sd'["root"][f] = "user"
      BY <1>t, <1>f, <2>1, <2>5, <3>1, <3>2 DEF Put, Areas
    <3>4. Pending(f)'
      BY <2>2, <2>5 DEF Pending
    <3> QED
      BY <2>1, <2>5, <3>3, <3>4, Phases DEF FileInv, Live, BackedUp, Saved, Restored, Restoring
  <2>6. CASE n = f /\ ip \in RestoreStages
    <3>1. Now.from = "backup" /\ Now.to = "root" /\ ip \in Restoring
      BY <1>w, <2>1, <2>6, CopyRows, Phases DEF Now, BackupStages, Restoring
    <3>2. sd["backup"][f] = "user"
      BY <1>i, <3>1 DEF Saved
    <3>3. sd'["root"][f] = "torn" /\ sd'["backup"][f] = "user"
      BY <1>t, <1>f, <2>1, <2>6, <3>1, <3>2 DEF Put, Areas
    <3>4. Pending(f)'
      BY <2>2, <2>6 DEF Pending
    <3> QED
      BY <2>1, <2>2, <2>6, <3>1, <3>3, <3>4, Phases DEF FileInv, Live, BackedUp, Saved,
         Restored, Restoring
  <2>7. CASE n = f /\ ip \in InstallStages
    <3>1. Now.from = variant /\ variant \in Variants
      BY <1>w, <2>1, <2>7, CopyRows, Phases DEF Now, BackupStages, RestoreStages
    <3> QED
      BY <1>f, <2>1, <2>7, <3>1 DEF StagedIsPack
  <2> QED
    BY <1>w, <2>1, <2>4, <2>5, <2>6, <2>7, CopyRows DEF Now, BackupStages, RestoreStages
<1>10. CASE CopyClose
  <2> DEFINE o == job.open
  <2>1. /\ ip \in Work /\ UNCHANGED ip /\ Now.do \in Copies /\ o # NoNode /\ o \in job.todo
        /\ Put(Now.to, o, sd[Now.from][o]) /\ sd[Now.from][o] # "absent"
    BY <1>10, <1>w DEF CopyClose, Doing, Copies
  <2>2. job'.open = NoNode /\ job'.left = job.left /\ job'.todo = job.todo \ {o}
    BY <1>10, <1>t DEF CopyClose, Closed, Jobs
  <2>4. CASE o # f
    <3>1. sd'["root"][f] = sd["root"][f] /\ sd'["backup"][f] = sd["backup"][f]
      BY <1>t, <2>1, <2>4 DEF Put, Areas
    <3>2. Pending(f) => Pending(f)'
      BY <2>2, <2>4 DEF Pending
    <3> QED
      BY <1>s, <1>f, <2>1, <2>2, <2>4, <3>1, <3>2
  <2>5. CASE o = f /\ ip \in BackupStages
    <3>1. Now.from = "root" /\ Now.to = "backup"
      BY <1>w, <2>1, <2>5, CopyRows, Phases DEF Now, RestoreStages
    <3>2. sd["root"][f] = "user"
      BY <1>l, <1>f, <2>1, <2>5, <3>1, Phases DEF Restoring
    <3>3. sd'["root"][f] = "user" /\ sd'["backup"][f] = "user"
      BY <1>t, <1>f, <2>1, <2>5, <3>1, <3>2 DEF Put, Areas
    <3> QED
      BY <3>3 DEF FileInv, Live, BackedUp, Saved, Restored
  <2>6. CASE o = f /\ ip \in RestoreStages
    <3>1. Now.from = "backup" /\ Now.to = "root" /\ ip \in Restoring
      BY <1>w, <2>1, <2>6, CopyRows, Phases DEF Now, BackupStages, Restoring
    <3>2. sd["backup"][f] = "user"
      BY <1>i, <3>1 DEF Saved
    <3>3. sd'["root"][f] = "user" /\ sd'["backup"][f] = "user"
      BY <1>t, <1>f, <2>1, <2>6, <3>1, <3>2 DEF Put, Areas
    <3> QED
      BY <3>3 DEF FileInv, Live, BackedUp, Saved, Restored
  <2>7. CASE o = f /\ ip \in InstallStages
    <3>1. Now.from = variant /\ variant \in Variants
      BY <1>w, <2>1, <2>7, CopyRows, Phases DEF Now, BackupStages, RestoreStages
    <3> QED
      BY <1>f, <2>1, <2>7, <3>1 DEF StagedIsPack
  <2> QED
    BY <1>w, <2>1, <2>4, <2>5, <2>6, <2>7, CopyRows DEF Now, BackupStages, RestoreStages
\* The wipe may take the file from the live tree: it is in the backup.
<1>wipe. ASSUME ip \in WipeStages, ip' \in WipeStages \cup {"rs_mkdir", "summary"},
                sd'["backup"][f] = sd["backup"][f],
                sd'["root"][f] \in {sd["root"][f], "absent"}
         PROVE  FileInv(f)'
  <2>1. sd["backup"][f] = "user"
    BY <1>wipe, <1>i DEF Saved
  <2>2. sd["root"][f] \in {"user", "absent"}
    BY <1>l, <1>wipe, Phases DEF Restoring
  <2> QED
    BY <1>wipe, <2>1, <2>2, Phases, DueFacts DEF FileInv, Live, BackedUp, Saved, Restored,
       Restoring, Waiting
\* Where a list of programs is deleted the file is not among them.
<1>nro. ASSUME ip \in {"rs_DBI_nro", "rs_tinfoil_nro"},
               Now.paths \subseteq DbiNros \cup TinfoilNros
        PROVE  ~Pending(f)
  <2>1. ip \in Work
    BY <1>nro DEF Work, RestoreStages
  <2> QED
    BY <1>nro, <1>w, <1>f, <2>1 DEF Pending
<1>12. ASSUME NEW n \in job.todo, DeleteNode(n) PROVE FileInv(f)'
  <2>1. /\ ip \in Work /\ UNCHANGED ip /\ Now.do = "delete" /\ Put(Now.to, n, "absent")
        /\ job.open = NoNode
    BY <1>12, <1>w DEF DeleteNode, Doing, Copies
  <2>2. job'.open = NoNode /\ job'.left = job.left /\ job'.todo = job.todo \ {n}
    BY <1>12, <1>t, <2>1 DEF DeleteNode, Jobs
  <2>3. CASE ip \in WipeStages
    <3>1. Now.to = "root"
      BY <2>3, PlanSplit, WipeRows DEF Now
    <3>2. /\ sd'["backup"][f] = sd["backup"][f]
          /\ sd'["root"][f] \in {sd["root"][f], "absent"}
      BY <1>t, <1>f, <2>1, <3>1 DEF Put, Areas
    <3> QED
      BY <1>wipe, <2>1, <2>3, <3>2
  <2>4. CASE ip = "rs_cleanup" /\ Now.to = "backup"
    <3>1. sd'["root"][f] = "user"
      BY <1>t, <1>i, <2>1, <2>4 DEF Put, Areas, Restored
    <3> QED
      BY <2>1, <2>4, <3>1, Phases DEF FileInv, Live, BackedUp, Saved, Restored, Restoring
  <2>5. CASE ip = "staging" /\ Now.to = variant
    <3>1. sd'["root"][f] = sd["root"][f] /\ sd'["backup"][f] = sd["backup"][f]
      BY <1>t, <1>w, <2>1, <2>5 DEF Put, Areas, Variants
    <3> QED
      BY <1>l, <1>f, <2>1, <2>5, <3>1, Elsewhere, Phases
  <2>6. CASE \/ Now.paths \subseteq DbiNros \cup TinfoilNros
             \/ Now.paths \subseteq Markers \cup UpdateList
    <3>1. n # f
      BY <1>f, <1>w, <2>1, <2>6
    <3>2. sd'["root"][f] = sd["root"][f] /\ sd'["backup"][f] = sd["backup"][f]
      BY <1>t, <2>1, <3>1 DEF Put, Areas
    <3>3. Pending(f) => Pending(f)'
      BY <2>2, <3>1 DEF Pending
    <3> QED
      BY <1>s, <1>f, <2>1, <2>2, <3>2, <3>3
  <2> QED
    BY <1>w, <2>1, <2>3, <2>4, <2>5, <2>6, DeleteRows DEF Now
<1>13. CASE DeleteError
  <2>1. ip \in Work /\ Now.do = "delete" /\ UNCHANGED sd /\ job.open = NoNode
    BY <1>13, <1>w DEF DeleteError, Doing, Copies
  <2>2. ip' = Now.err
    BY <1>13 DEF DeleteError, Enter
  <2>3. CASE ip \in WipeStages
    <3>1. Now.err \in WipeStages \cup {"rs_mkdir", "summary"}
      BY <2>3, PlanSplit, WipeRows, StageSets DEF Now
    <3> QED
      BY <1>wipe, <2>1, <2>2, <2>3, <3>1
  <2>4. CASE ip \in {"rs_DBI_nro", "rs_tinfoil_nro"} /\ Now.paths \subseteq DbiNros \cup TinfoilNros
    <3>1. Now.err = ip
      BY <2>4, NextOfRestore DEF Now
    <3>2. job'.open = job.open
      BY <1>13, <1>t, <3>1 DEF DeleteError, Jobs
    <3> QED
      BY <1>nro, <1>s, <2>1, <2>2, <2>4, <3>1, <3>2
  <2>5. CASE ip = "rs_cleanup"
    <3>1. ip' \in {"in_atmosphere", "summary"}
      BY <2>2, <2>5, NextOfRestore DEF Now
    <3> QED
      BY <1>q, <1>f, <2>1, <3>1, Phases, StageSets DEF Waiting
  <2>6. CASE ip \in {"mk_clean", "up_lists", "staging"}
    <3>1. ip' \in InstallStages \cup {"up_lists", "summary"}
      BY <2>2, <2>6, OtherRows, PlanSplit, InstallRows DEF Now, InstallStages
    <3> QED
      BY <1>q, <1>f, <2>1, <3>1, Phases DEF Waiting
  <2> QED
    BY <1>w, <2>1, <2>3, <2>4, <2>5, <2>6, DeleteRows DEF Now
\* Clean mode's next copy starts with the file in its list, or it is done.
<1>bnext. ASSUME sd'["root"][f] = sd["root"][f], sd'["backup"][f] = sd["backup"][f],
               job.open = NoNode, ip \in BackupStages, ip' \in BackupStages,
               NEW top, {top} \cap Nodes \subseteq job'.left,
               Due(ip') \subseteq {top} \cup Due(ip),
               ~Pending(f) \/ Due(ip) = {}
        PROVE  FileInv(f)'
  <2>1. Anc[f] \cap Due(ip') # {} => Pending(f)' \/ Anc[f] \cap Due(ip) # {}
    BY <1>bnext, <1>f DEF Pending
  <2>2. Live(f)'
    BY <1>l, <1>f, <1>bnext DEF Live
  <2> QED
    BY <1>i, <1>bnext, <2>1, <2>2, Phases DEF FileInv, BackedUp, Saved, Restored, Restoring
<1>rnext. ASSUME sd'["root"][f] = sd["root"][f], sd'["backup"][f] = sd["backup"][f],
               job.open # f, ip \in Restoring, ip' \in Restoring,
               NEW top, {top} \cap Nodes \subseteq job'.left,
               Due(ip') \subseteq {top} \cup Due(ip),
               ~Pending(f) \/ Due(ip) = {}
        PROVE  FileInv(f)'
  <2>1. Anc[f] \cap Due(ip') # {} => Pending(f)' \/ Anc[f] \cap Due(ip) # {}
    BY <1>rnext, <1>f DEF Pending
  <2>2. Live(f)'
    BY <1>l, <1>f, <1>rnext DEF Live
  <2> QED
    BY <1>i, <1>rnext, <2>1, <2>2, Phases DEF FileInv, BackedUp, Saved, Restored, Restoring
\* Between a copy and the deletions that follow it nothing new is due.
<1>same. ASSUME sd'["root"][f] = sd["root"][f], sd'["backup"][f] = sd["backup"][f],
                job.open = NoNode, ip \in Restoring, ip' \in Restoring,
                Due(ip') = Due(ip), ~Pending(f)
         PROVE  FileInv(f)'
  <2>1. Live(f)'
    BY <1>l, <1>f, <1>same DEF Live
  <2> QED
    BY <1>i, <1>same, <2>1, Phases DEF FileInv, BackedUp, Saved, Restored, Restoring
<1>11. CASE CopyError
  <2>1. ip \in Work /\ Now.do \in Copies /\ ip' = Now.err /\ UNCHANGED sd
    BY <1>11 DEF CopyError, Doing, Enter, Copies
  \* A restore that is broken off has the file behind it: what it leaves undone slips.
  <2>2. CASE ip \in RestoreStages
    <3>1. ip \in {"rs_DBI", "rs_tinfoil", "rs_keys"} /\ ip \in Restoring
      BY <1>w, <2>1, <2>2, CopyRows, Phases DEF Now, BackupStages, Restoring
    <3>2. f \notin Unrestored
      BY <1>11, <1>k DEF CopyError, Slip
    <3>3. ~Pending(f)
      BY <1>f, <2>2, <3>2 DEF Unrestored, Pending, Under
    <3>4. job.open # f
      BY <1>f, <1>w, <2>1, <3>3 DEF Pending, Copies
    <3>5. CASE ip = "rs_DBI"
      <4>1. ip' = "rs_tinfoil" /\ job'.left = {Tinfoil} \cap Nodes
        BY <1>11, <2>1, <3>5, NextOfRestore DEF CopyError, Now, Enter, Idle, Work, RestoreStages
      <4> QED
        BY <1>rnext, <2>1, <3>1, <3>3, <3>4, <3>5, <4>1, DueFacts DEF Restoring, RestoreStages
    <3>6. CASE ip = "rs_tinfoil"
      <4>1. ip' = "rs_keys" /\ job'.left = {ProdKeys} \cap Nodes
        BY <1>11, <2>1, <3>6, NextOfRestore DEF CopyError, Now, Enter, Idle, Work, RestoreStages
      <4> QED
        BY <1>rnext, <2>1, <3>1, <3>3, <3>4, <3>6, <4>1, DueFacts DEF Restoring, RestoreStages
    <3>7. CASE ip = "rs_keys"
      <4>1. ip' = "rs_cleanup"
        BY <2>1, <3>7, NextOfRestore DEF Now
      <4>2. sd["root"][f] = "user"
        BY <1>i, <1>f, <3>1, <3>3, <3>7, DueFacts DEF Restored
      <4> QED
        BY <2>1, <4>1, <4>2, Phases DEF FileInv, Live, BackedUp, Saved, Restored, Restoring
    <3> QED
      BY <3>1, <3>5, <3>6, <3>7
  <2>3. CASE ip \in BackupStages
    <3>1. Now.err = "summary"
      BY <2>3, PlanSplit, BackupRows DEF Now
    <3> QED
      BY <1>q, <2>1, <2>3, <3>1, Phases DEF Restoring, Waiting
  <2>4. CASE ip \in InstallStages
    <3>1. Now.err \in InstallStages \cup {"summary"}
      BY <2>4, PlanSplit, InstallRows DEF Now
    <3> QED
      BY <1>q, <2>1, <2>4, <3>1, Phases DEF Restoring, Waiting
  <2> QED
    BY <1>w, <2>1, <2>2, <2>3, <2>4, CopyRows DEF Now, BackupStages, RestoreStages
<1>14. ASSUME NEW n \in job.left, MakeFolder(n) PROVE FileInv(f)'
  <2>1. /\ ip \in Work /\ Now.do = "mkdir" /\ job.open = NoNode
        /\ Put(Now.to, n, "dir") /\ Enter(Now.ok) /\ UNCHANGED variant
    BY <1>14, <1>w DEF MakeFolder, Doing, Copies
  <2>2. ip \in {"bk_mkdir", "wp_mkdir", "rs_mkdir", "mf_mkdir"} /\ n # f
    BY <1>f, <1>w, <2>1, FolderRows DEF Now
  <2>3. sd'["root"][f] = sd["root"][f] /\ sd'["backup"][f] = sd["backup"][f]
    BY <1>t, <2>1, <2>2 DEF Put, Areas
  <2>4. ip' = Now.ok
    BY <2>1 DEF Enter
  <2>5. CASE ip = "bk_mkdir"
    <3>1. ip' = "bk_DBI" /\ job'.left = {DBI} \cap Nodes
      BY <2>1, <2>4, <2>5, NextOfBackup DEF Now, Enter, Idle, Work, BackupStages
    <3> QED
      <4>1. ip \in BackupStages /\ ip' \in BackupStages /\ Due(ip) = {} /\ Due(ip') = {DBI}
        BY <2>5, <3>1, DueFacts DEF BackupStages
      <4>2. Due(ip') \subseteq {DBI} \cup Due(ip) /\ {DBI} \cap Nodes \subseteq job'.left
        BY <3>1, <4>1
      <4> QED
        BY <1>bnext, <2>1, <2>3, <4>1, <4>2
  <2>6. CASE ip = "wp_mkdir"
    <3>1. ip \in WipeStages /\ ip' \in WipeStages \cup {"rs_mkdir"}
      BY <2>4, <2>6, PlanSplit, WipeRows DEF Now, WipeStages
    <3> QED
      BY <1>wipe, <2>3, <3>1
  <2>7. CASE ip = "rs_mkdir"
    <3>1. ip' = "rs_DBI" /\ job'.left = {DBI} \cap Nodes
      BY <2>1, <2>4, <2>7, NextOfRestore DEF Now, Enter, Idle, Work, RestoreStages
    <3> QED
      BY <1>rnext, <1>f, <2>1, <2>3, <2>7, <3>1, DueFacts DEF Restoring, RestoreStages
  <2>8. CASE ip = "mf_mkdir"
    <3>1. ip' \in InstallStages \cup {"staging"}
      BY <2>4, <2>8, PlanSplit, InstallRows DEF Now, InstallStages
    <3> QED
      BY <1>q, <1>f, <2>1, <2>3, <3>1, Phases
  <2> QED
    BY <2>2, <2>5, <2>6, <2>7, <2>8
<1>15. ASSUME NEW n \in job.left, MakeFolderError(n) PROVE FileInv(f)'
  <2>1. /\ ip \in Work /\ Now.do = "mkdir" /\ job.open = NoNode
        /\ UNCHANGED sd /\ ip' = Now.err
    BY <1>15, <1>w DEF MakeFolderError, Doing, Copies, Enter
  <2>2. ip \in {"bk_mkdir", "wp_mkdir", "rs_mkdir", "mf_mkdir"}
    BY <1>w, <2>1, FolderRows DEF Now
  <2>3. ip # "rs_mkdir"
    BY <1>15, <1>k DEF MakeFolderError, Slip
  <2>4. CASE ip = "bk_mkdir"
    <3>1. ip' = "summary"
      BY <2>1, <2>4, PlanSplit, BackupRows DEF Now, BackupStages
    <3> QED
      BY <1>q, <1>f, <2>1, <3>1, Phases DEF Waiting
  <2>5. CASE ip = "wp_mkdir"
    <3>1. ip \in WipeStages /\ ip' \in WipeStages \cup {"rs_mkdir", "summary"}
      BY <2>1, <2>5, PlanSplit, WipeRows, StageSets DEF Now, WipeStages
    <3> QED
      BY <1>wipe, <2>1, <3>1
  <2>6. CASE ip = "mf_mkdir"
    <3>1. ip' \in InstallStages \cup {"summary"}
      BY <2>1, <2>6, PlanSplit, InstallRows DEF Now, InstallStages
    <3> QED
      BY <1>q, <1>f, <2>1, <3>1, Phases DEF Waiting
  <2> QED
    BY <2>2, <2>3, <2>4, <2>5, <2>6
<1>16. CASE ManifestOpen \/ ManifestClose \/ ManifestError
  <2>1. ip \in Work /\ Now.do = "manifest"
    BY <1>16 DEF ManifestOpen, ManifestClose, ManifestError, Doing
  <2>2. ip = "mf_write" /\ Now.ok = "mk_clean" /\ Now.err = "mk_clean"
    BY <1>w, <2>1, ManifestRow DEF Now
  <2>3. ip' \in {"mf_write", "mk_clean"}
    BY <1>16, <2>2 DEF ManifestOpen, ManifestClose, ManifestError, Enter
  <2>4. UNCHANGED sd \/ \E c : Put("root", Manifest, c)
    BY <1>16 DEF ManifestOpen, ManifestClose, ManifestError
  <2>5. sd'["root"][f] = sd["root"][f] /\ sd'["backup"][f] = sd["backup"][f]
    BY <1>t, <1>f, <2>4 DEF Put, Areas
  <2>6. ip \in InstallStages /\ ip' \in InstallStages
    BY <2>2, <2>3 DEF InstallStages
  <2> QED
    BY <1>q, <2>5, <2>6, Phases DEF Restoring
<1>17. CASE StageDone
  <2>1. /\ ip \in Work /\ Now.do \in Copies \cup {"delete"} /\ UNCHANGED <<sd, variant>>
        /\ job.todo = {} /\ job.left = {} /\ job.open = NoNode /\ Enter(Now.ok)
    BY <1>17 DEF StageDone, Doing, Resting
  <2>2. ~Pending(f) /\ ip' = Now.ok /\ job.open # f
    BY <1>f, <2>1 DEF Pending, Enter
  <2>3. CASE ip \in BackupStages
    <3>1. ip # "bk_mkdir"
      BY <1>w, <2>1, PlanSplit, BackupRows DEF Now, BackupStages, Copies
    <3>2. CASE ip = "bk_DBI"
      <4>1. ip' = "bk_tinfoil" /\ job'.left = {Tinfoil} \cap Nodes
        BY <2>1, <2>2, <3>2, NextOfBackup DEF Now, Enter, Idle, Work, BackupStages
      <4> QED
        <5>1. ip' \in BackupStages /\ Due(ip) = {DBI} /\ Due(ip') = {DBI, Tinfoil}
          BY <3>2, <4>1, DueFacts DEF BackupStages
        <5>2. Due(ip') \subseteq {Tinfoil} \cup Due(ip) /\ {Tinfoil} \cap Nodes \subseteq job'.left
          BY <4>1, <5>1
        <5> QED
          BY <1>bnext, <2>1, <2>2, <2>3, <5>1, <5>2
    <3>3. CASE ip = "bk_tinfoil"
      <4>1. ip' = "bk_keys" /\ job'.left = {ProdKeys} \cap Nodes
        BY <2>1, <2>2, <3>3, NextOfBackup DEF Now, Enter, Idle, Work, BackupStages
      <4> QED
        <5>1. /\ ip' \in BackupStages /\ Due(ip) = {DBI, Tinfoil}
              /\ Due(ip') = {DBI, Tinfoil, ProdKeys}
          BY <3>3, <4>1, DueFacts DEF BackupStages
        <5>2. Due(ip') \subseteq {ProdKeys} \cup Due(ip) /\ {ProdKeys} \cap Nodes \subseteq job'.left
          BY <4>1, <5>1
        <5> QED
          BY <1>bnext, <2>1, <2>2, <2>3, <5>1, <5>2
    <3>4. CASE ip = "bk_keys"
      <4>1. ip' = "wp_atmosphere"
        BY <2>2, <3>4, NextOfBackup DEF Now
      <4>2. sd["backup"][f] = "user"
        BY <1>i, <1>f, <2>2, <2>3, <3>4, DueFacts DEF BackedUp
      <4> QED
        BY <1>l, <2>1, <2>2, <4>1, <4>2, Phases, StageSets DEF FileInv, Live, BackedUp, Saved,
           Restored, Restoring
    <3> QED
      BY <2>3, <3>1, <3>2, <3>3, <3>4 DEF BackupStages
  <2>4. CASE ip \in WipeStages
    <3>1. ip' \in WipeStages \cup {"rs_mkdir"}
      BY <2>2, <2>4, PlanSplit, WipeRows DEF Now
    <3> QED
      BY <1>wipe, <2>1, <2>4, <3>1
  <2>5. CASE ip \in RestoreStages
    <3>1. ip # "rs_mkdir"
      BY <1>w, <2>1, PlanSplit, RestoreRows DEF Now, RestoreStages, Copies
    <3>2. CASE ip = "rs_DBI"
      <4>1. ip' = "rs_DBI_nro"
        BY <2>2, <3>2, NextOfRestore DEF Now
      <4> QED
        BY <1>same, <2>1, <2>2, <3>2, <4>1, DueFacts DEF Restoring, RestoreStages
    <3>3. CASE ip = "rs_DBI_nro"
      <4>1. ip' = "rs_tinfoil" /\ job'.left = {Tinfoil} \cap Nodes
        BY <2>1, <2>2, <3>3, NextOfRestore DEF Now, Enter, Idle, Work, RestoreStages
      <4> QED
        BY <1>rnext, <2>1, <2>2, <3>3, <4>1, DueFacts DEF Restoring, RestoreStages
    <3>4. CASE ip = "rs_tinfoil"
      <4>1. ip' = "rs_tinfoil_nro"
        BY <2>2, <3>4, NextOfRestore DEF Now
      <4> QED
        BY <1>same, <2>1, <2>2, <3>4, <4>1, DueFacts DEF Restoring, RestoreStages
    <3>5. CASE ip = "rs_tinfoil_nro"
      <4>1. ip' = "rs_keys" /\ job'.left = {ProdKeys} \cap Nodes
        BY <2>1, <2>2, <3>5, NextOfRestore DEF Now, Enter, Idle, Work, RestoreStages
      <4> QED
        BY <1>rnext, <2>1, <2>2, <3>5, <4>1, DueFacts DEF Restoring, RestoreStages
    <3>6. CASE ip = "rs_keys"
      <4>1. ip' = "rs_cleanup"
        BY <2>2, <3>6, NextOfRestore DEF Now
      <4>2. sd["root"][f] = "user"
        BY <1>i, <1>f, <2>2, <3>6, DueFacts DEF Restored, Restoring, RestoreStages
      <4> QED
        BY <2>1, <4>1, <4>2, Phases DEF FileInv, Live, BackedUp, Saved, Restored, Restoring
    <3>7. CASE ip = "rs_cleanup"
      <4>1. ip' \in InstallStages \cup {"summary"}
        BY <2>2, <3>7, NextOfRestore, StageSets DEF Now
      <4> QED
        BY <1>q, <2>1, <2>2, <4>1, Phases DEF Waiting
    <3> QED
      BY <2>5, <3>1, <3>2, <3>3, <3>4, <3>5, <3>6, <3>7 DEF RestoreStages
  <2>6. CASE ip \in InstallStages
    <3>1. ip' \in InstallStages \cup {"staging"}
      BY <2>2, <2>6, PlanSplit, InstallRows DEF Now
    <3> QED
      BY <1>q, <2>1, <2>2, <3>1, Phases
  <2>7. CASE ip \in {"up_lists", "staging"}
    <3>1. ip' \in InstallStages \cup {"summary"}
      BY <2>2, <2>7, OtherRows, StageSets DEF Now
    <3> QED
      BY <1>q, <2>1, <2>2, <3>1, Phases DEF Waiting
  <2> QED
    BY <2>1, <2>3, <2>4, <2>5, <2>6, <2>7 DEF Work
<1> QED
  BY <1>1, <1>2, <1>3, <1>4, <1>5, <1>6, <1>7, <1>8, <1>9, <1>10, <1>11, <1>12, <1>13,
     <1>14, <1>15, <1>16, <1>17, <1>18 DEF Next, Progress, Failure, Press
-----------------------------------------------------------------------------
(* The invariant and the theorems.                                         *)

\* The card the first run found is history: no step rewrites it.
LEMMA StartStays == [Next]_vars => UNCHANGED start
  BY DEF Next, Progress, Failure, Press, vars, PowerOn, PowerLoss, Detect, StageDone, Visit,
     Confirm, Launch, NoPayload, Reboot, MountFails, DetectBlind, DetectHangs, LaunchFails,
     CopyUnflushed, RootFileError, FallBack, CopyError, DeleteError, ManifestError,
     Overlook, Miscount, MakeFolderError, CopyClose, ManifestOpen, ManifestClose,
     MakeFolder, CopyFolder, CopyOpen, DeleteNode

LEMMA DataStep == TInv /\ UserDataInv /\ [Next]_vars => DataInv'
<1> SUFFICES ASSUME TInv, UserDataInv, [Next]_vars, NEW f \in (Owned \ slipped)'
             PROVE  FileInv(f)'
  BY DEF DataInv, FileInv
<1>1. f \notin slipped
  BY SlipsStay
<1>2. f \in Owned
  BY StartStays DEF Owned
<1>3. JobInv /\ StagedIsPack /\ FileInv(f)
  BY <1>1, <1>2 DEF UserDataInv, DataInv, FileInv
<1> QED
  BY <1>2, <1>3, FileStep

LEMMA UserDataStep == TInv /\ UserDataInv /\ [Next]_vars => UserDataInv'
<1> SUFFICES ASSUME TInv, UserDataInv, [Next]_vars PROVE UserDataInv'
  OBVIOUS
<1>1. VariantKnown'
  BY TypeStep DEF TInv
<1> QED
  BY <1>1, JobStep, StagedStep, DataStep DEF UserDataInv

LEMMA UserDataInit == Init => UserDataInv
<1> SUFFICES ASSUME Init PROVE UserDataInv
  OBVIOUS
<1>0. /\ start \in Starts /\ sd = StartCard(start) /\ ip = "off" /\ job = Idle
  BY DEF Init
<1>1. VariantKnown
  BY InitType DEF TInv
<1>2. JobInv
  BY <1>0, NotWork DEF JobInv
<1>3. StagedIsPack
  BY <1>0, OwnerAssumption DEF StagedIsPack, StartCard, Areas, Variants
<1>4. ASSUME NEW f \in Owned PROVE FileInv(f)
  <2>1. f \in start.mine /\ f \in Nodes /\ f \notin Folders /\ f # "/" /\ f # Manifest
    BY OwnedFacts, TreeAssumption DEF Owned
  <2>2. f \notin start.old
    BY <1>0, <2>1, StartAssumption DEF Owned
  <2>3. sd["root"][f] = "user"
    BY <1>0, <2>1, <2>2 DEF StartCard, Areas
  <2> QED
    BY <1>0, <2>3, Phases DEF FileInv, Live, BackedUp, Saved, Restored, Restoring
<1> QED
  BY <1>1, <1>2, <1>3, <1>4 DEF UserDataInv, DataInv, FileInv

\* UserDataInv holds in every state of every run, for every tree, card, pack
\* and number of boots and faults: what clean mode has backed up, wiped and
\* restored so far fits what is on the card.
THEOREM UserDataInvariant == Spec => []UserDataInv
<1>1. Init => TInv /\ UserDataInv
  BY InitType, UserDataInit
<1>2. TInv /\ UserDataInv /\ [Next]_vars => (TInv /\ UserDataInv)'
  BY TypeStep, UserDataStep
<1> QED
  BY <1>1, <1>2, PTL DEF Spec

\* Clean mode never loses a file it must carry over, however often the power
\* goes and whichever calls fail and are reported (backup_user_data,
\* clean_mode_wipe, clean_mode_restore).
THEOREM UserDataIsSafe == Spec => []UserDataSafe
<1>1. UserDataInv => UserDataSafe
  <2> SUFFICES ASSUME DataInv, NEW f \in Owned \ slipped
               PROVE  "user" \in {sd["root"][f], sd["backup"][f]}
    BY DEF UserDataInv, UserDataSafe, Owned
  <2> QED
    BY DEF DataInv, Live
<1> QED
  BY <1>1, UserDataInvariant, PTL

\* Clean mode deletes nothing before all it must carry over is in the backup
\* (the early returns of backup_user_data and perform_installation).
THEOREM WipeHasBackup == Spec => []WipeNeedsBackup
<1>1. UserDataInv => WipeNeedsBackup
  <2> SUFFICES ASSUME DataInv, ip \in WipeStages, NEW f \in Owned \ slipped
               PROVE  sd["backup"][f] = "user"
    BY DEF UserDataInv, WipeNeedsBackup, Owned
  <2> QED
    BY DEF DataInv, Saved
<1> QED
  BY <1>1, UserDataInvariant, PTL
-----------------------------------------------------------------------------
(* Clean mode as custody of the user's files.                              *)

\* Where the card's live tree and backup are written, as far as a file of the
\* user's is concerned.
WritesOne(a, n, c) ==
    \/ n \notin Owned \/ a \notin {"root", "backup"}
    \/ /\ UNCHANGED ip
       /\ \/ ip \in BackupStages /\ a = "backup" /\ sd["root"][n] # "absent"
          \/ ip \in WipeStages /\ a = "root" /\ c = "absent"
          \/ ip \in Restoring /\ a = "root"
          \/ ip = "rs_cleanup" /\ a = "backup" /\ c = "absent"

LEMMA Writes ==
    ASSUME TInv, JobInv, StagedIsPack, [Next]_vars
    PROVE  UNCHANGED sd \/ \E a, n, c : Put(a, n, c) /\ WritesOne(a, n, c)
<1>w. ASSUME ip \in Work
      PROVE  /\ \A n \in job.todo : Anc[n] \cap Now.paths # {}
             /\ Now.do \in Copies => \A n \in job.todo : sd[Now.from][n] # "absent"
             /\ job.left \subseteq Now.paths /\ variant \in Variants
  BY <1>w, NowType DEF JobInv
\* A copy of a file of the user's is made for the backup or from it.
<1>c. ASSUME ip \in Work, Now.do \in Copies, UNCHANGED ip, NEW n \in job.todo, NEW c
      PROVE  WritesOne(Now.to, n, c)
  <2>1. CASE ip \in {"bk_DBI", "bk_tinfoil", "bk_keys"} /\ Now.from = "root" /\ Now.to = "backup"
    BY <1>c, <1>w, <2>1 DEF WritesOne, BackupStages
  <2>2. CASE ip \in {"rs_DBI", "rs_tinfoil", "rs_keys"} /\ Now.to = "root"
    BY <1>c, <2>2 DEF WritesOne, Restoring, RestoreStages
  <2>3. CASE Now.from = variant
    <3>1. n \notin Owned
      BY <1>c, <1>w, <2>3, OwnedFacts DEF StagedIsPack
    <3> QED
      BY <3>1 DEF WritesOne
  <2> QED
    BY <1>c, <1>w, <2>1, <2>2, <2>3, CopyRows DEF Now
<1>1. ASSUME NEW n \in job.todo, CopyFolder(n) \/ CopyOpen(n)
      PROVE  \E a, m, c : Put(a, m, c) /\ WritesOne(a, m, c)
  <2>1. ip \in Work /\ Now.do \in Copies /\ UNCHANGED ip /\ \E c : Put(Now.to, n, c)
    BY <1>1 DEF CopyFolder, CopyOpen, Doing
  <2> QED
    BY <1>c, <2>1
<1>2. ASSUME CopyClose PROVE \E a, m, c : Put(a, m, c) /\ WritesOne(a, m, c)
  <2>1. ip \in Work /\ Now.do \in Copies /\ UNCHANGED ip /\ \E c : Put(Now.to, job.open, c)
    BY <1>2 DEF CopyClose, Doing
  <2>2. job.open \in job.todo
    BY <1>2, <2>1 DEF CopyClose, JobInv, Copies
  <2> QED
    BY <1>c, <2>1, <2>2
<1>3. ASSUME NEW n \in job.todo, DeleteNode(n)
      PROVE  \E a, m, c : Put(a, m, c) /\ WritesOne(a, m, c)
  <2>1. ip \in Work /\ Now.do = "delete" /\ UNCHANGED ip /\ Put(Now.to, n, "absent")
    BY <1>3 DEF DeleteNode, Doing
  <2>2. ASSUME Now.paths \subseteq DbiNros \cup TinfoilNros \/ Now.paths \subseteq Markers \cup UpdateList
        PROVE  n \notin Owned
    BY <1>w, <2>1, <2>2, OwnedFacts
  <2>3. Now.to = variant => Now.to \notin {"root", "backup"}
    BY <1>w, <2>1 DEF Variants
  <2>4. WritesOne(Now.to, n, "absent")
    BY <1>w, <2>1, <2>2, <2>3, DeleteRows DEF Now, WritesOne
  <2> QED
    BY <2>1, <2>4
<1>4. ASSUME NEW n \in job.left, MakeFolder(n)
      PROVE  \E a, m, c : Put(a, m, c) /\ WritesOne(a, m, c)
  <2>1. ip \in Work /\ Now.do = "mkdir" /\ Put(Now.to, n, "dir")
    BY <1>4 DEF MakeFolder, Doing
  <2>2. n \notin Owned
    BY <1>w, <2>1, FolderRows, OwnedFacts DEF Now
  <2> QED
    BY <2>1, <2>2 DEF WritesOne
<1>5. ASSUME ManifestOpen \/ ManifestClose
      PROVE  \E a, m, c : Put(a, m, c) /\ WritesOne(a, m, c)
  <2>1. \E c : Put("root", Manifest, c)
    BY <1>5 DEF ManifestOpen, ManifestClose
  <2>2. Manifest \notin Owned
    BY OwnedFacts
  <2> QED
    BY <2>1, <2>2 DEF WritesOne
<1>6. CASE \/ UNCHANGED vars \/ PowerOn \/ PowerLoss \/ Press \/ Failure \/ Detect \/ StageDone
           \/ \E p \in job.left : Visit(p)
  BY <1>6 DEF vars, PowerOn, PowerLoss, Press, Failure, Detect, StageDone, Visit,
     Confirm, Launch, NoPayload, Reboot, MountFails, DetectBlind, DetectHangs, LaunchFails,
     CopyUnflushed, RootFileError, FallBack, CopyError, DeleteError, ManifestError,
     Overlook, Miscount, MakeFolderError
<1> QED
  BY <1>1, <1>2, <1>3, <1>4, <1>5, <1>6 DEF Next, Progress

\* The phases come in one order, and may end after any step.
LEMMA Turns ==
    ASSUME TInv, [Next]_vars, ip' # ip
    PROVE  /\ ip' \in BackupStages => ip \in BackupStages \cup {"confirm"}
           /\ ip' \in WipeStages => ip \in BackupStages \cup WipeStages
           /\ ip' \in Restoring => ip \in WipeStages \cup Restoring
           /\ ip' = "rs_cleanup" => ip \in Restoring
<1>1. CASE ip \notin Work \/ ip' \notin Work
  <2>1. \/ ip' \in Waiting \cup Final \cup {"off", "detect"}
        \/ ip = "confirm" /\ ip' \in {"up_lists", "bk_mkdir"}
    <3>1. ASSUME ip \in Work PROVE ip' \in Waiting \cup Final \cup {"off", "detect"}
      <4>0. TInv'
        BY TypeStep
      <4>1. ip' \in Stages \ Work
        BY <1>1, <3>1, <4>0 DEF TInv, TypeOK
      <4> QED
        BY <4>1 DEF Stages
    <3>2. ASSUME ip \notin Work
          PROVE  \/ ip' \in Waiting \cup Final \cup {"off", "detect"}
                 \/ ip = "confirm" /\ ip' \in {"up_lists", "bk_mkdir"}
      BY <3>2 DEF Next, Progress, Failure, Press, vars, PowerOn, PowerLoss, Detect, StageDone,
         Visit, Confirm, Launch, NoPayload, Reboot, MountFails, DetectBlind, DetectHangs,
         LaunchFails, CopyUnflushed, RootFileError, FallBack, CopyError, DeleteError,
         ManifestError, Overlook, Miscount, MakeFolderError, CopyClose, ManifestOpen,
         ManifestClose, MakeFolder, CopyFolder, CopyOpen, DeleteNode, Doing, Decide, Enter,
         Waiting, Final
    <3> QED
      BY <3>1, <3>2
  <2>2. CASE ip' \in Waiting \cup Final \cup {"off", "detect"}
    BY <2>2, Phases DEF Restoring
  <2>3. CASE ip = "confirm" /\ ip' \in {"up_lists", "bk_mkdir"}
    BY <2>3, Phases DEF Restoring, BackupStages
  <2> QED
    BY <2>1, <2>2, <2>3
<1>2. CASE ip \in Work /\ ip' \in Work
  <2>1. ip' \in {Now.ok, Now.err}
    BY <1>2, NotWork DEF Next, Progress, Failure, Press, vars, PowerOn, PowerLoss, Detect, StageDone,
         Visit, Confirm, Launch, NoPayload, Reboot, MountFails, DetectBlind, DetectHangs,
         LaunchFails, CopyUnflushed, RootFileError, FallBack, CopyError, DeleteError,
         ManifestError, Overlook, Miscount, MakeFolderError, CopyClose, ManifestOpen,
         ManifestClose, MakeFolder, CopyFolder, CopyOpen, DeleteNode, Doing, Enter,
         Waiting, Final
  <2>2. CASE ip \in BackupStages
    <3>1. ip' \in BackupStages \cup {"wp_atmosphere", "summary"}
      BY <2>1, <2>2, PlanSplit, BackupRows, StageSets DEF Now
    <3> QED
      BY <2>2, <3>1, Phases, StageSets DEF Restoring, WipeStages, Waiting
  <2>3. CASE ip \in WipeStages
    <3>1. ip' \in WipeStages \cup {"rs_mkdir", "summary"}
      BY <2>1, <2>3, PlanSplit, WipeRows, StageSets DEF Now
    <3> QED
      BY <2>3, <3>1, Phases, StageSets DEF Restoring, Waiting
  <2>4. CASE ip \in RestoreStages
    <3>1. ip' \in RestoreStages \cup {"in_atmosphere", "summary"}
      BY <2>1, <2>4, PlanSplit, RestoreRows DEF Now
    <3>2. ip = "rs_cleanup" => ip' \in {"in_atmosphere", "summary"}
      BY <2>1, NextOfRestore DEF Now
    <3>3. \A s \in {"in_atmosphere", "summary"} :
             s \notin BackupStages \cup WipeStages \cup RestoreStages
      BY Phases, StageSets
    <3> QED
      BY <1>2, <2>4, <3>1, <3>2, <3>3, Phases DEF Restoring
  <2>5. CASE ip \in InstallStages \cup {"up_lists", "staging"}
    <3>1. ip' \in InstallStages \cup {"up_lists", "staging", "summary"}
      BY <2>1, <2>5, PlanSplit, InstallRows, OtherRows, StageSets DEF Now
    <3> QED
      BY <3>1, Phases, StageSets DEF Restoring
  <2> QED
    BY <1>2, <2>2, <2>3, <2>4, <2>5 DEF Work
<1> QED
  BY <1>1, <1>2

LEMMA PhaseIs ==
    /\ ip \in BackupStages => Phase = "saving"
    /\ ip \in WipeStages => Phase = "wiping"
    /\ ip \in Restoring => Phase = "restoring"
    /\ ip = "rs_cleanup" => Phase = "forgetting"
<1>1. ASSUME ip \in BackupStages PROVE ip \notin WipeStages \cup Restoring \cup {"rs_cleanup"}
  BY <1>1, Phases DEF Restoring
<1>2. ASSUME ip \in WipeStages PROVE ip \notin Restoring \cup {"rs_cleanup"}
  BY <1>2, Phases DEF Restoring
<1>3. "rs_cleanup" \notin Restoring
  BY DEF Restoring
<1> QED
  BY <1>1, <1>2, <1>3 DEF Phase

LEMMA CustodyStep ==
    TInv /\ UserDataInv /\ [Next]_vars => Promised!CustodyNext
<1> SUFFICES ASSUME TInv, UserDataInv, [Next]_vars PROVE Promised!CustodyNext
  OBVIOUS
<1> DEFINE K == Promised!InCustody
<1>o. Owned' = Owned
  BY StartStays DEF Owned
<1>k. K = Owned \ slipped' /\ Owned \cap slipped \subseteq (Owned \cap slipped)'
  BY <1>o, SlipsStay DEF Promised!InCustody
<1> HIDE DEF K
<1>i. \A f \in K : Live(f) /\ BackedUp(f) /\ Saved(f) /\ Restored(f)
  BY <1>k, SlipsStay DEF UserDataInv, DataInv
<1>j. \A f \in K : Live(f)' /\ BackedUp(f)' /\ Saved(f)' /\ Restored(f)'
  BY <1>k, <1>o, UserDataStep DEF UserDataInv, DataInv
<1>n. ASSUME Promised!Turn \/ Promised!Elsewhere \/ \E f \in K : Promised!Handle(f)
      PROVE  Promised!CustodyNext
  BY <1>n, <1>k, <1>o DEF Promised!CustodyNext, K
\* The stage changes, or nothing in custody does.
<1>1. ASSUME LiveCopies' \cap K = LiveCopies \cap K, SavedCopies' \cap K = SavedCopies \cap K,
             ip' # ip \/ UNCHANGED Phase
      PROVE  Promised!CustodyNext
  <2>s. Promised!SameLive /\ Promised!SameSaved
    BY <1>1 DEF Promised!SameLive, Promised!SameSaved, K
  <2>1. CASE UNCHANGED Phase
    BY <1>n, <2>s, <2>1 DEF Promised!Elsewhere
  <2>2. CASE ip' # ip /\ ~UNCHANGED Phase
    <3>1. Phase' = "wiping" => Phase = "saving" /\ K \subseteq SavedCopies
      <4> SUFFICES ASSUME Phase' = "wiping" PROVE Phase = "saving" /\ K \subseteq SavedCopies
        OBVIOUS
      <4>1. ip' \in WipeStages /\ ip \notin WipeStages
        BY <2>2, Phases DEF Phase, Restoring
      <4>2. ip \in BackupStages
        BY <2>2, <4>1, Turns
      <4>3. \A f \in K : sd'["backup"][f] = "user"
        BY <1>j, <4>1 DEF Saved
      <4>4. K \subseteq SavedCopies'
        BY <1>k, <1>o, <4>3 DEF SavedCopies
      <4> QED
        BY <1>1, <4>2, <4>4, PhaseIs
    <3>2. Phase' = "forgetting" => Phase = "restoring" /\ K \subseteq LiveCopies
      <4> SUFFICES ASSUME Phase' = "forgetting" PROVE Phase = "restoring" /\ K \subseteq LiveCopies
        OBVIOUS
      <4>1. ip' = "rs_cleanup"
        BY DEF Phase
      <4>2. ip \in Restoring
        BY <2>2, <4>1, Turns
      <4>3. \A f \in K : sd'["root"][f] = "user"
        BY <1>j, <4>1 DEF Restored
      <4>4. K \subseteq LiveCopies'
        BY <1>k, <1>o, <4>3 DEF LiveCopies
      <4> QED
        BY <1>1, <4>2, <4>4, PhaseIs
    <3>3. Phase' = "restoring" => Phase = "wiping"
      BY <2>2, Turns, Phases DEF Phase, Restoring
    <3>4. Phase' = "saving" => Phase = "rest"
      BY <2>2, Turns, Phases, NotWork DEF Phase, Restoring, Waiting
    <3>5. /\ Phase' \in {"rest", "saving", "wiping", "restoring", "forgetting"}
          /\ Phase \in {"rest", "saving", "wiping", "restoring", "forgetting"}
      BY DEF Phase
    <3>6. Promised!Turn
      BY <2>s, <2>2, <3>1, <3>2, <3>3, <3>4, <3>5 DEF Promised!Turn, K
    <3> QED
      BY <1>n, <3>6
  <2> QED
    BY <1>1, <2>1, <2>2
<1>p. ip' = ip => UNCHANGED Phase
  BY DEF Phase
<1>2. CASE UNCHANGED sd
  <2>1. LiveCopies' = LiveCopies /\ SavedCopies' = SavedCopies
    BY <1>o, <1>2 DEF LiveCopies, SavedCopies
  <2> QED
    BY <1>1, <1>p, <2>1
<1>3. ASSUME NEW a, NEW n, NEW c, Put(a, n, c), WritesOne(a, n, c),
             n \notin Owned \/ a \notin {"root", "backup"}
      PROVE  Promised!CustodyNext
  <2>1. LiveCopies' = LiveCopies /\ SavedCopies' = SavedCopies
    BY <1>o, <1>3 DEF LiveCopies, SavedCopies, Put, TInv, TypeOK, Areas
  <2> QED
    BY <1>1, <1>p, <2>1
<1>4. ASSUME NEW a \in {"root", "backup"}, NEW n \in Owned, NEW c, Put(a, n, c), WritesOne(a, n, c)
      PROVE  Promised!CustodyNext
  <2>t. sd \in [Areas -> [Nodes -> Content]] /\ {"root", "backup"} \subseteq Areas /\ n \in Nodes
    BY OwnedFacts DEF TInv, TypeOK, Areas
  <2>p. UNCHANGED Phase
    BY <1>4 DEF WritesOne, Phase
  <2>b. ASSUME a = "backup"
        PROVE  LiveCopies' = LiveCopies /\ SavedCopies' \in {SavedCopies \ {n}, SavedCopies \cup {n}}
    <3>1. /\ \A f \in Owned : sd'["root"][f] = sd["root"][f]
          /\ \A f \in Owned : f # n => sd'["backup"][f] = sd["backup"][f]
      BY <1>4, <2>b, <2>t DEF Put
    <3> QED
      BY <1>o, <1>4, <3>1 DEF LiveCopies, SavedCopies
  <2>r. ASSUME a = "root"
        PROVE  SavedCopies' = SavedCopies /\ LiveCopies' \in {LiveCopies \ {n}, LiveCopies \cup {n}}
    <3>1. /\ \A f \in Owned : sd'["backup"][f] = sd["backup"][f]
          /\ \A f \in Owned : f # n => sd'["root"][f] = sd["root"][f]
      BY <1>4, <2>r, <2>t DEF Put
    <3> QED
      BY <1>o, <1>4, <3>1 DEF LiveCopies, SavedCopies
  <2>5. CASE n \notin K
    <3>1. LiveCopies' \cap K = LiveCopies \cap K /\ SavedCopies' \cap K = SavedCopies \cap K
      BY <2>b, <2>r, <2>5
    <3> QED
      BY <1>1, <2>p, <3>1
  <2>6. CASE n \in K
    <3>h. ASSUME Promised!Save(n) \/ Promised!Wipe(n) \/ Promised!Restore(n) \/ Promised!Forget(n)
          PROVE  Promised!CustodyNext
      BY <1>n, <2>p, <2>6, <3>h DEF Promised!Handle
    <3>1. CASE ip \in BackupStages /\ a = "backup" /\ sd["root"][n] # "absent"
      <4>1. Phase = "saving"
        BY <3>1, PhaseIs
      <4>2. n \in LiveCopies
        BY <1>i, <2>6, <3>1, Phases DEF Live, LiveCopies, Restoring
      <4>3. Promised!Save(n)
        BY <2>b, <3>1, <4>1, <4>2 DEF Promised!Save, Promised!SameLive
      <4> QED
        BY <3>h, <4>3
    <3>2. CASE ip \in Restoring /\ a = "root"
      <4>1. Phase = "restoring" /\ n \in SavedCopies
        BY <1>i, <2>6, <3>2, Phases DEF Phase, Saved, SavedCopies, Restoring
      <4>2. Promised!Restore(n)
        BY <2>r, <3>2, <4>1 DEF Promised!Restore, Promised!SameSaved
      <4> QED
        BY <3>h, <4>2
    <3>3. CASE ip \in WipeStages /\ a = "root"
      <4>1. Phase = "wiping"
        BY <3>3, PhaseIs
      <4>2. c = "absent" /\ sd'["root"][n] = c
        BY <1>4, <3>3, <2>t, Phases DEF WritesOne, Put, Restoring
      <4>3. LiveCopies' = LiveCopies \ {n}
        BY <1>o, <1>4, <3>3, <2>r, <4>2 DEF LiveCopies
      <4>4. Promised!Wipe(n)
        BY <2>r, <3>3, <4>1, <4>3 DEF Promised!Wipe, Promised!SameSaved
      <4> QED
        BY <3>h, <4>4
    <3>4. CASE ip = "rs_cleanup" /\ a = "backup"
      <4>1. Phase = "forgetting"
        BY <3>4, PhaseIs
      <4>2. c = "absent" /\ sd'["backup"][n] = c
        BY <1>4, <3>4, <2>t, Phases DEF WritesOne, Put
      <4>3. SavedCopies' = SavedCopies \ {n}
        BY <1>o, <1>4, <3>4, <2>b, <4>2 DEF SavedCopies
      <4>4. Promised!Forget(n)
        BY <2>b, <3>4, <4>1, <4>3 DEF Promised!Forget, Promised!SameLive
      <4> QED
        BY <3>h, <4>4
    <3> QED
      BY <1>4, <3>1, <3>2, <3>3, <3>4 DEF WritesOne
  <2> QED
    BY <2>5, <2>6
<1> QED
  BY <1>2, <1>3, <1>4, Writes DEF UserDataInv

\* The installation implements Custody, for every tree, card, pack and number
\* of boots and faults: no whole copy of a file of the user's is given up but
\* for one that is there already (backup.c, perform_installation).
THEOREM InstallerIsCustody == Spec => KeepsCustody
<1>1. Init => Promised!CustodyInit
  <2> SUFFICES ASSUME Init PROVE Promised!CustodyInit
    OBVIOUS
  <2>1. DataInv /\ ip = "off" /\ slipped = {} /\ sd = StartCard(start) /\ job = Idle
    BY UserDataInit DEF Init, UserDataInv
  <2>2. ASSUME NEW f \in Owned PROVE sd["backup"][f] # "user" /\ sd["root"][f] = "user"
    <3>1. sd["backup"][f] = "absent"
      BY <2>1, <2>2, OwnedFacts, TreeAssumption DEF StartCard, Areas
    <3> QED
      BY <2>1, <2>2, <3>1 DEF DataInv, Live
  <2>3. LiveCopies = Owned /\ SavedCopies = {}
    BY <2>2 DEF LiveCopies, SavedCopies
  <2>4. Phase = "rest" /\ Owned \cap slipped = {}
    BY <2>1, Phases DEF Phase, Restoring
  <2> QED
    BY <2>3, <2>4 DEF Promised!CustodyInit
<1>2. Init => TInv /\ UserDataInv
  BY InitType, UserDataInit
<1>3. TInv /\ UserDataInv /\ [Next]_vars => (TInv /\ UserDataInv)'
  BY TypeStep, UserDataStep
<1> QED
  BY <1>1, <1>2, <1>3, CustodyStep, PTL DEF Spec, KeepsCustody, Promised!CustodySpec, Promised!custodyVars

\* What custody is for: each file of the user's that no dropped error was about
\* has a whole copy, live or saved, in every state of every behaviour that
\* Custody allows, not only those of this program.
THEOREM CustodyLosesNothing == Promised!CustodySpec => []Promised!NothingLost
<1> DEFINE I == Promised!CustodyInv
<1>1. Promised!CustodyInit => I
  BY DEF Promised!CustodyInit, Promised!CustodyInv
<1>2. I /\ [Promised!CustodyNext]_Promised!custodyVars => I'
  BY DEF Promised!CustodyInv, Promised!CustodyNext, Promised!custodyVars, Promised!Handle,
     Promised!Save, Promised!Wipe, Promised!Restore, Promised!Forget, Promised!Turn,
     Promised!Elsewhere, Promised!InCustody, Promised!SameLive, Promised!SameSaved
<1>3. I => Promised!NothingLost
  BY DEF Promised!CustodyInv, Promised!NothingLost
<1> QED
  BY <1>1, <1>2, <1>3, PTL DEF Promised!CustodySpec
=============================================================================
