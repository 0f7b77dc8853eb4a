----------------------------- MODULE MCInstaller -----------------------------
(***************************************************************************)
(* Small cards for Installer.  A configuration picks a set of nodes, the   *)
(* cards a first run may find, and how often power and calls may fail.     *)
(***************************************************************************)
EXTENDS InstallerInvariant

\* What lies above a node, "/" and the node itself apart.
Inside(n) ==
    CASE n \in {"atmosphere/package3", "atmosphere/hosts"} -> {"atmosphere"}
      [] n \in {"atmosphere/hosts/emummc.txt"} -> {"atmosphere", "atmosphere/hosts"}
      [] n \in {"bootloader/update.bin"} -> {"bootloader"}
      [] n \in {"config/omninx"} -> {"config"}
      [] n \in {"config/omninx/manifest.ini"} -> {"config", "config/omninx"}
      [] n \in {"switch/DBI", "switch/tinfoil", "switch/prod.keys",
                "switch/saves.bin"} -> {"switch"}
      [] n \in {"switch/DBI/dbi.config", "switch/DBI/DBI.nro"} ->
             {"switch", "switch/DBI"}
      [] n \in {"switch/tinfoil/keys.txt"} -> {"switch", "switch/tinfoil"}
      [] n \in {"SaltySD/core.elf"} -> {"SaltySD"}
      [] OTHER -> {}

Tree(nodes) == [ n \in nodes |-> {"/", n} \cup Inside(n) ]

MCFolders == {"/", "atmosphere", "atmosphere/hosts", "bootloader", "config",
              "config/omninx", "switch", "switch/DBI", "switch/tinfoil", "SaltySD"} \cap Nodes
MCUserFiles == {"switch/DBI/dbi.config", "switch/tinfoil/keys.txt",
                "switch/prod.keys"} \cap Nodes
MCOtherFiles == {"switch/saves.bin"} \cap Nodes
MCUpdateList == {"atmosphere/package3", "bootloader/update.bin",
                 "switch/DBI/DBI.nro", "boot.dat", "SaltySD"}
MCWipeList == {"boot.dat", "SaltySD"}

Core == {"/", "config", "config/omninx", "config/omninx/manifest.ini", "switch"}
Boot == {"bootloader", "bootloader/update.bin"}

\* The user's card: what clean mode has to carry over, with a program to shed.
UserNodes == Core \cup Boot \cup {"switch/DBI", "switch/DBI/dbi.config", "switch/DBI/DBI.nro",
                        "switch/tinfoil", "switch/tinfoil/keys.txt", "switch/prod.keys",
                        "boot.dat"}
UserAnc == Tree(UserNodes)

\* The pack: folders within folders, the one only the OC variant has, a root file.
Ams == {"atmosphere", "atmosphere/package3", "atmosphere/hosts", "atmosphere/hosts/emummc.txt"}
PackNodes == Core \cup Ams \cup Boot \cup {"SaltySD", "SaltySD/core.elf", "switch/saves.bin",
                                  "switch/prod.keys", "boot.dat", "1.0.0s"}
PackAnc == Tree(PackNodes)

FewNodes == Core \cup Boot \cup {"switch/tinfoil", "switch/tinfoil/keys.txt", "switch/prod.keys",
                                "switch/saves.bin", "boot.dat"}
FewAnc == Tree(FewNodes)

Plain == (Core \ {"switch"}) \cup Ams \cup Boot \cup {"boot.dat"}
MCPack == [ v \in Variants |->
    Nodes \cap (CASE v = "standard" ->
                       Plain \cup {"switch", "switch/DBI", "switch/DBI/DBI.nro"}
                  [] v = "light" -> {"/", "boot.dat"}
                  [] v = "oc" -> Plain \cup {"SaltySD", "SaltySD/core.elf"}) ]

\* A card without OmniNX.
Fresh == [ manifest |-> "absent",
           old |-> {"switch/DBI/DBI.nro", "1.0.0s"} \cap Nodes,
           mine |-> MCUserFiles \cup MCOtherFiles, staged |-> {"standard"} ]
\* A card with OmniNX Light on it, and the OC pack to install.
Installed == [ manifest |-> "light",
               old |-> {"bootloader/update.bin", "boot.dat"} \cap Nodes,
               mine |-> {"switch/prod.keys", "switch/saves.bin"} \cap Nodes,
               staged |-> {"oc"} ]
\* A second pack in wait, the manifest of the first spoilt.
Spoilt == [ manifest |-> "torn", old |-> {"bootloader/update.bin"} \cap Nodes,
            mine |-> {"switch/prod.keys"}, staged |-> {"light", "oc"} ]
\* No pack at all.
Bare == [ manifest |-> "oc", old |-> {}, mine |-> {}, staged |-> {} ]

FreshOnly == {Fresh}
InstalledOnly == {Installed}
AllCards == {Fresh, Installed, Spoilt, Bare}
=============================================================================
