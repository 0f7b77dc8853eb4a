------------------------------ MODULE MCClaims -------------------------------
(***************************************************************************)
(* What the repository's documents and comments say of the installer and   *)
(* the program does not keep.  Each claim quotes its source; each has a    *)
(* run of its own in which Installer violates it.                          *)
(***************************************************************************)
EXTENDS MCInstaller

\* README.md:35-38, "Backs up and restores: sd:/switch/DBI -> preserved ...":
\* the user's files are whole in the live tree or in the backup whenever the
\* power may go.  A file cut short while it is restored is backed up over its
\* good copy by the next run (backup.c:18-52).
UserDataPreserved ==
    \A n \in UserFiles \cap start.mine : "user" \in {sd["root"][n], sd["backup"][n]}

\* main.c:363-367 announces "Installation abgeschlossen!" for a result of
\* FR_OK, and INSTALLATION_PROCESS.md:460 that user data is preserved by then.
\* A failed restore of DBI or Tinfoil is forgotten (backup.c:66-84) and the
\* backup is deleted all the same (install.c:615).
SuccessKeepsUserData ==
    ip = "summary" /\ res = "ok" =>
        \A n \in UserFiles \cap start.mine : sd["root"][n] = "user"

\* INSTALLATION_PROCESS.md:460, "In both modes, the SD card ends up with a
\* fresh OmniNX installation": power lost while the staging folder is deleted
\* leaves part of a pack, which the next run installs over what it deletes.
EndsWithFreshInstallation ==
    ip = "summary" /\ res = "ok" =>
        \A n \in Shipped(variant) :
            sd["root"][n] = IF n \in Folders THEN "dir" ELSE variant

\* README.md:26-29, update mode "Preserves user data, savegames, and installed
\* games": power lost while the manifest is rewritten (install.c:502-508)
\* leaves it empty, and the next run is a clean install that wipes switch/.
UpdatePreserves ==
    start.manifest \in Variants =>
        \A n \in OtherFiles \cap start.mine : sd["root"][n] = "user"
=============================================================================
