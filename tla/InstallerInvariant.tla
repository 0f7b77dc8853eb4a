------------------------- MODULE InstallerInvariant --------------------------
(***************************************************************************)
(* The inductive invariants behind the properties of Installer: why clean  *)
(* mode never loses the user's files, why the card stays a tree, why       *)
(* update mode keeps what it does not know, and why success is real.       *)
(***************************************************************************)
EXTENDS Installer

\* The pack is chosen before the user is asked.
VariantKnown == ip \in Work \cup {"confirm"} => variant \in Variants

\* Work never leaves the paths of its stage, a copy only takes what is there,
\* and only a copy or the manifest has a file open.
JobInv ==
    /\ ip \notin Work => job = Idle
    /\ ip \in Work =>
         /\ job.left \subseteq Now.paths
         /\ \A n \in job.todo : Anc[n] \cap Now.paths # {}
         /\ Now.do \in Copies => \A n \in job.todo : sd[Now.from][n] # "absent"
         /\ job.open # NoNode =>
              \/ Now.do \in Copies /\ job.open \in job.todo
              \/ Now.do = "manifest" /\ job.open = Manifest

\* A staging folder holds nothing but its pack.
StagedIsPack ==
    \A v \in Variants : \A n \in Nodes : sd[v][n] # "absent" => n \in Pack[v]

Owned == UserFiles \cap start.mine

\* What the backup, or the restore, has dealt with up to and including stage s.
Due(s) ==
    CASE s \in {"bk_DBI", "rs_DBI", "rs_DBI_nro"} -> {DBI}
      [] s \in {"bk_tinfoil", "rs_tinfoil", "rs_tinfoil_nro"} -> {DBI, Tinfoil}
      [] s \in {"bk_keys", "rs_keys"} -> {DBI, Tinfoil, ProdKeys}
      [] OTHER -> {}
Restoring == RestoreStages \ {"rs_cleanup"}
Pending(f) == f \in job.todo \/ job.left \cap Anc[f] # {}

Live(f) ==
    \/ sd["root"][f] = "user"
    \/ /\ sd["backup"][f] = "user"
       /\ \/ sd["root"][f] = "absent"
          \/ sd["root"][f] = "torn" /\ job.open = f /\ ip \in Restoring
BackedUp(f) ==
    ip \in BackupStages /\ Anc[f] \cap Due(ip) # {} => sd["backup"][f] = "user" \/ Pending(f)
Saved(f) ==
    ip \in WipeStages \cup Restoring => sd["backup"][f] = "user"
Restored(f) ==
    /\ ip \in Restoring /\ Anc[f] \cap Due(ip) # {} => sd["root"][f] = "user" \/ Pending(f)
    /\ ip = "rs_cleanup" => sd["root"][f] = "user"

\* Every file of the user's that no dropped error was about is whole in the live tree, or whole in the backup
\* and gone from the live tree or just being restored; the backup and then the
\* restore are complete up to the paths still pending.
DataInv == \A f \in Owned \ slipped : Live(f) /\ BackedUp(f) /\ Saved(f) /\ Restored(f)

\* The invariant as the runs check it and the proofs use it.
UserDataInv == VariantKnown /\ JobInv /\ StagedIsPack /\ DataInv
-----------------------------------------------------------------------------
(* The installation as custody of the user's files.                        *)

LiveCopies == { f \in Owned : sd["root"][f] = "user" }
SavedCopies == { f \in Owned : sd["backup"][f] = "user" }
Phase ==
    CASE ip \in BackupStages -> "saving"
      [] ip \in WipeStages -> "wiping"
      [] ip \in Restoring -> "restoring"
      [] ip = "rs_cleanup" -> "forgetting"
      [] OTHER -> "rest"

Promised == INSTANCE Custody WITH
    owned <- Owned, live <- LiveCopies, saved <- SavedCopies,
    phase <- Phase, excused <- Owned \cap slipped

\* Clean mode keeps custody of the user's files: it overwrites a backup copy
\* only from a whole live one, wipes only when all are backed up, drops the
\* backup only when all are live again, wherever it is interrupted and
\* whatever is reported as failed (backup_user_data to
\* cleanup_backup; update mode and the installation touch none of them).
KeepsCustody == Promised!CustodySpec

-----------------------------------------------------------------------------
(* The card as a tree.                                                     *)

\* The file being written is there, cut short, and nothing can lie below it.
OpenIsTorn ==
    job.open # NoNode => job.open \notin Folders /\ sd[Now.to][job.open] = "torn"

\* With a folder, all that is left in it is still to be deleted.
DeletesBelow ==
    ip \in Work /\ Now.do = "delete" =>
        \A n \in job.todo : Present(Now.to, n) \subseteq job.todo

TreeInv == CardIsTree /\ OpenIsTorn /\ DeletesBelow
-----------------------------------------------------------------------------
(* What a pack puts where.                                                 *)

\* Nobody writes to a staging folder: a node of it is gone or as packed.
AsPacked(v, n) == IF n \in Folders THEN "dir" ELSE v
StagedAsPacked ==
    \A v \in Variants : \A n \in Nodes : sd[v][n] \in {"absent", AsPacked(v, n)}

\* A card that came with OmniNX runs update mode only, because its manifest
\* names a variant in every state but while it is being written.
Kept == start.manifest \in Variants /\ Manifest \notin slipped
KeepInv ==
    Kept => /\ ip \in Work \cup {"confirm"} => mode = "update"
            /\ ip \notin BackupStages \cup WipeStages \cup RestoreStages
            /\ sd["root"][Manifest] \in Variants \/ job.open = Manifest
            /\ \A f \in OtherFiles \cap start.mine : sd["root"][f] = "user"

\* The tops that are installed once stage s is done.
FirstFour == {"atmosphere", "bootloader", "config", "switch"}
InstallDue(s) ==
    CASE s = "in_atmosphere" -> {"atmosphere"}
      [] s = "in_bootloader" -> {"atmosphere", "bootloader"}
      [] s = "in_config" -> {"atmosphere", "bootloader", "config"}
      [] s = "in_switch" -> FirstFour
      [] s = "in_warmboot" -> FirstFour \cup {"warmboot_mariko"}
      [] s = "in_SaltySD" -> FirstFour \cup {"warmboot_mariko", "SaltySD"}
      [] OTHER -> Tops(variant)
Installing == InstallStages \cup {"staging"}
Awaited(n) ==
    \/ Now.do \in Copies /\ Pending(n)
    \/ Now.do = "manifest" /\ n = job.open

\* What is staged is in the live tree too, up to the paths still pending and what
\* was dropped.
PlacedInv ==
    ip \in Installing =>
        \A n \in Pack[variant] \ slipped :
            Anc[n] \cap InstallDue(ip) # {} /\ sd[variant][n] # "absent" =>
                sd["root"][n] = sd[variant][n] \/ Awaited(n)

\* The manifest names the pack from its stage on; a pack found whole stays
\* whole until all of it is in place.
InPlace ==
    /\ \A n \in Shipped(variant) \ slipped : sd["root"][n] = AsPacked(variant, n)
    /\ Manifest \notin slipped => sd["root"][Manifest] = variant
FinishInv ==
    /\ ip \in {"mk_clean", "staging"} /\ Manifest \notin slipped => sd["root"][Manifest] = variant
    /\ ip \in (Work \ {"staging"}) \cup {"confirm"} /\ whole => Complete(variant)
    /\ ip = "staging" \/ (ip = "summary" /\ res = "ok") => (whole => InPlace)

PackInv == StagedAsPacked /\ KeepInv /\ PlacedInv /\ FinishInv

\* All of it, as a run checks it and the proofs use it: what the card, the
\* staging folders, the backup and the manifest hold fits the stage the program
\* is at and the paths still to be walked (perform_installation and below).
InstallerInv == UserDataInv /\ TreeInv /\ PackInv
=============================================================================
