# A verification of the OmniNX installer payload

The payload boots on a Nintendo Switch outside of its operating system, finds
an OmniNX pack on the SD card and installs it: in *update mode* over an
installation it recognises, in *clean mode* over anything else.  It works on the
only copy of the user's data with a file system that has no transactions, on
hardware it has to bring up itself, and the user may switch off at any time.
This project models that program in TLA+, checks it with TLC and proves part of
it with TLAPS.

## 1. Inventory

| Component | Sources | State | Operations | What makes it correct |
|---|---|---|---|---|
| Installation protocol | `source/install.c`, `backup.c`, `deletion_lists.h` | the card: live tree, `temp_backup`, staging folders; the result code | `perform_installation` and the stages it calls: backup, wipe, restore, deletion lists, copy, manifest, markers, staging deletion | what the user owns survives; a reported success is one; a pack is deleted only when installed; every run ends |
| Detection | `source/version.c` | none of its own: reads the manifest and the staging folders | `detect_omninx_installation`, `detect_pack_variant` | an installed card is never taken for a fresh one |
| Main flow and launch | `source/main.c` | mode, variant, result, `coreboot_addr`, `total_errors` | `ipl_main`, `launch_payload`, `reloc_patcher` | nothing starts before the user agrees; memory regions stay apart; the hardware is left as the payload expects it |
| Recursive copy and delete | `source/fs.c` | directory handles, paths and buffers on the heap | `file_copy`, `folder_copy`, `folder_delete` | children before folders (delete), folders before children (copy), the first error ends the walk |
| SD card session | `source/nx_sd.c` | `sd_mounted`, `sd_mode`, error counts | `sd_mount`, `sd_initialize`, `sd_init_retry`, `sd_unmount` | speed only falls, retries end, the slot ends dark |
| SD and eMMC storage | `bdk/storage/sdmmc.c`, `sdmmc_driver.c` | `sdmmc_storage_t`, `sdmmc_t`, the controller's registers | initialisation of cards, read and write with retry and re-initialisation, one command with DMA | host and card agree; no 3.3 V on a 1.8 V card; a reported success moved every sector |
| FAT file system | `bdk/libs/fatfs/ff.c`, `source/libs/fatfs/diskio.c` | allocation table or bitmap, directory entries, the window, file objects | `f_open`, `f_write`, `f_close`, `f_unlink`, `f_mkdir`, `f_rename`, `f_readdir`, ... | clusters have one owner; what is saved survives a cut; a cut leaves at worst lost clusters |
| Heap | `bdk/mem/heap.c` | the chain of nodes | `malloc`, `calloc`, `free`, `heap_monitor` | blocks never overlap, free neighbours are merged |
| INI parser and lists | `bdk/utils/ini.c`, `list.h`, `dirlist.c` | the list of sections | `ini_parse`, `ini_free`, `dirlist` | ends on every file; what it returns can be walked |
| Buttons and Joy-Cons | `bdk/utils/btn.c`, `bdk/input/joycon.c` | connection, packets, supply | `btn_read`, `joycon_poll`, the questions of `main.c` | a pad that is reported is there; an answer is a press made after the question |
| Buses, interrupts, clocks, pins | `bdk/soc/*.c` | registers, reference counts, the handler table | I2C and UART transfers, clock and PLL enables, `bpmp_clk_rate_set`, `irq_request`, `hw_init` | nothing is used without clock; counts match use; waits are bounded |
| Power rails | `bdk/power`, `bdk/thermal`, `bdk/rtc` | PMIC, charger, gauge, `reg_5v_dev` | rail and regulator calls, `power_set_state` | rails are what was asked; 5 V is there for its users and gone with the last |
| Security engine, TSEC, fuses | `bdk/sec`, `bdk/soc/fuse.c`, `kfuse.c` | clocks, fuse words | `tsec_query`, `kfuse_read`, fuse patches | clocks are restored on every way out; corrected words are right |
| Display and console | `bdk/display/di.c`, `source/gfx.c` | the panel's power, backlight, DSI; the pen | `display_init`, `display_end`, `gfx_printf` and friends | the panel is powered in order; text stays on the screen |
| DRAM | `bdk/mem/sdram.c`, `minerva.c`, `mc.c`, `smmu.c` | memory controller registers, the table of frequencies | `sdram_init`, `minerva_change_freq` | the start is in order and serves every rank |
| Touch and ambient light | `bdk/input/touch.c`, `als.c` | the controller's mode | power-on, tuning, events | when it says on, it is on |
| ELF loader and IANOS | `bdk/ianos` | | | not modelled: only loads Minerva's binary |

Interaction.  `ipl_main` brings up the hardware, then calls the detection, the
protocol and the launch, in one thread.  The protocol calls `fs.c`, which calls
FatFs, which calls `sdmmc.c`, which on failure calls back *up* into `nx_sd.c` to
re-initialise the card from inside a transfer.  `malloc` serves `fs.c`, FatFs and
the parser.  The 5 V regulator is shared by fan and Joy-Cons, PLLC4 by the SDMMC
controllers, LDO6 by touch and light sensor.  The only concurrency is with the
hardware, the user at the buttons, interrupts, and the power.

What is hard here: a power cut between any two writes, and the next run starting
from what is left; calls that fail in the middle of a list, some of them
noticed, some taken for an absent file, some ignored; the same folder
(`temp_backup`) written by one run and overwritten by the next; decisions read
from files the program itself rewrites; a card that keeps its own idea of level,
width and speed while the host is re-initialised; devices that answer late or
never.  `PROJECT.json` lists the hazards by line.

## 2. Modules

| Module | Purpose |
|---|---|
| `Installer` | The program and the card: state, one action per kind of file system call, power, failures; the properties. |
| `Custody` | What a clean installation owes the owner of the card: files that are live or saved, five phases, and what each may do. |
| `InstallerInvariant` | The installer's inductive invariants: `UserDataInv`, `TreeInv`, `PackInv`, together `InstallerInv`; the mapping to `Custody`. |
| `MCInstaller`, `MCClaims` | Small cards and packs for TLC; what documents say and the program does not keep. |
| `InstallerProofs`, `PackProofs` | Types, the table of stages and the user's data; the card as a tree, and what an installation puts and leaves. |
| `SdmmcHost` | The SDMMC controller, its clock and the slot's supply, as functions on a record. |
| `SdSession` | `nx_sd.c` over `sdmmc.c` over that controller, against a card. |
| `CardService` | What the program gets from its storage: one attempt to mount, transfers in order or over again, a level that falls, an end. |
| `SdSessionInvariant` | The inductive invariant `SessionInv`, in layers; `HealthyInv`; the mapping to `CardService`. |
| `SdmmcCommand` | One command on the controller's registers, with DMA, and its invariant `CommandInv`. |
| `SdStepProofs`, `SdSessionProofs` | The proofs of the session. |
| `MCStorage` | Eight kinds of card, and single commands. |
| `FatLib`, `FatFs`, `MCFat` | The library's calls as functions on a volume; a program using it with power cuts and failing accesses; small volumes. |
| `Soc`, `Clocks`, `Rails`, `Panel`, `Board`, `MCBoard` | The chip as scripts of register accesses see it; clocks and PLLs; pins, rails and chips on I2C; the display; `hw_init` to the launch; four kinds of board. |
| `BoardProofs` | The proofs of the board: its types, and the clock of the processor. |
| `Joycon`, `Prompts`, `Touch` | `joycon_poll` against two sides that come and go; the questions asked over it; the start and tuning of the touch screen; each with its invariant. |
| `InputProofs` | The proofs of these three. |
| `Irq`, `Buses` | The table of interrupt handlers, interrupted at any write; transfers on I2C and the receiver of the UART; each with its invariant. |
| `DeviceProofs` | The proofs of both, and of `SdmmcCommand`. |
| `Dram`, `Console`, `Decoders`, `IniFiles` | One module per part that shares nothing with the others but the processor. |
| `Heap`, `Allocator`, `HeapProofs` | The chain of nodes; the promise it implements; the proofs. |
| `MCSoftware` | The parts from `Joycon` on, one at a time. |

### How `Installer` corresponds to the code

*The card* (`sd`).  Five areas share one tree shape: the live tree, the backup
and a staging folder per variant.  A node is a path below the area's top; its
content is nothing, a folder, a file cut short (`torn`), or a whole file told
apart by who wrote it (`user`, `old`, or the variant of a pack).  So a copy
keeps the node and moves the content.  `temp_backup/DBI` is the node
`switch/DBI` of the area `backup`.

*The program* (`ip`, `mode`, `variant`, `res`, `job`).  `Plan(s)` has a row per
stage, in the order of `perform_installation`: the call, the areas, the paths,
the stage after success, the stage after failure and whether the failure
becomes the result.  That is where the early returns are: a failed backup ends
the run (`backup.c:30`), a failed deletion of a list goes on
(`install.c:299`), a failed restore of DBI skips the deletion of the DBI
programs and goes on to Tinfoil (`backup.c:67`).  Consecutive deletion lists of
update mode are one stage because nothing happens between them; the two
copies of root files of a pack are one list for the same reason.

*Calls* (`Visit`, `CopyFolder`, `CopyOpen`, `CopyClose`, `DeleteNode`,
`MakeFolder`, `ManifestOpen`, `ManifestClose`).  One step per call that changes the
card; power may go between any two.  A file is `torn` from `f_open` with
`FA_CREATE_ALWAYS` until `f_close` writes its size.  The order of siblings in a
directory is left open.

*Failures* (`Overlook`, `Miscount`, `CopyUnflushed`, `RootFileError`, `FallBack`,
`CopyError`, `DeleteError`, `MakeFolderError`, `ManifestError`, `DetectBlind`,
`DetectHangs`, `MountFails`, `LaunchFails`, and the failing lookup in `NoPayload`).
Each follows the code's own path, including those that drop the error.  A call
below a folder that is missing fails without using up a fault.  An empty folder is only
made, so a copy that fails there is not tried again (`Alone`).

*History.*  `start` is the card the first run found, `whole` says whether the
pack was complete when it was detected, and `slipped` are the nodes that an
error the code met and dropped was about: what lies below a path that was not looked
up, the file that was not flushed, the files of a restore that was broken off.  No
action's guard reads them.

*Assumptions on the constants.*  `TreeAssumption` says the nodes form a tree,
`OwnerAssumption` which files are the user's: below `switch/DBI` or
`switch/tinfoil`, or `prod.keys`, and named by no deletion list.  So
`switch/tinfoil/db`, which the lists delete, and the programs that
`restore_user_data` sheds are not among them.  `StartAssumption` says what the
cards may hold that the first run finds.  TLC evaluates the assumptions
for every instance it checks.

### How the storage modules correspond to the code

`h` is the controller (`sdmmc_t`, its registers, the slot's rails), `card` what
the card in the slot believes (state, level, width, mode), `store` what
`sdmmc_storage_t` says, `op` the place of the program: the call, the step of an
initialisation, the retries left.  Each command and each setting of
`sdmmc_storage_init_sd` and `sdmmc_storage_init_mmc` is an action (`SdOrder`,
`MmcOrder` give their order and `Needed` which of them a card's registers make the code
skip), so host and card can come apart between any two.  A command fails when
the card is gone, is not in a state to answer, does not agree about level, width
or timing, or once more at will (`MaxFaults`); an answer may be lost after the
card has acted.  `Remove`, `Insert` and `Weaken` are the user's and the card's.
`lapses` records errors the code drops: a power cycle that did not happen because
`CMD0` failed (`sdmmc.c:228`), an answer to the voltage switch that was lost.

`SdmmcCommand` is below that: the driver polls registers, the controller and the
card go on between any two reads, and a transfer is stopped by the DMA engine at
every multiple of `Window` blocks until the driver restarts it
(`sdmmc_driver.c:981`).

### How the file system modules correspond to the code

`FatLib` takes a record of the volume, the window, the cached counters and the
object a call works on, and every function of `ff.c` on the way of a call is an
operator from record to record that appends its sector writes.  `FatFs` runs a
call to its end, with its k-th access failing, or until power goes after some of
its writes.  `want` is what the calls have put at a path and `kept` what
`f_sync`, `f_close` or a call on a directory has saved there.  `scars` is what faults may have
left half done on the medium: directories whose table was being changed in two steps, files
whose entry leads to clusters given back, names that a rename left sharing a file, and, after an `f_mkdir`
that frees a chain through an object nobody filled in, anything (`wild`).

### How the board modules correspond to the code

A driver's function is a script: a sequence of gates, resets, waits, register
accesses and bus transfers, which `Soc` runs over the state of the chip and which records an
access to something without clock, in reset or without power in `lapse`.  `Board`
has the scripts of `hw_init`, `ipl_main`'s end, `power_set_state`, and the groups of
calls in between in every order.

### How the other modules correspond to the code

Each is a small state machine of one source file: `Joycon` per poll and packet, the two
pins of the detection read one after the other,
`Irq` with interrupts between any two writes of the table, `Buses` per register
access of a transfer, `Touch` per command and wait, `Dram` per group of writes,
`Heap` per node of a walk, `Console` per glyph or line, `IniFiles` per line of a
file; `Decoders` compares each calculation with a definition of what it is to
compute, over a range of registers.

## 3. What the runs show

| Run | Bounds | Properties | States |
|---|---|---|---|
| `clean_power` | clean mode, 14 nodes, 3 runs, no failing call | `UserDataInv`, `WipeNeedsBackup`, `CardIsTree` | 80 000 |
| `update_power` | OC over Light, 17 nodes, 3 runs, no failing call | `InstallerInv` | 450 000 |
| `faults` | four cards, 12 nodes, 2 runs, 2 failing calls | `TypeOK`, `UserDataSafe`, `UpdateKeepsOthers`, `SuccessIsReal`, `PackMovedNotLost`, `KeepsCustody` | 1 190 000 |
| `runs_on` | four cards, 1 run, 2 failing calls, fairness | `ReachesPrompt` | 50 000 |
| `storage` | eight kinds of card, 2 sectors, 1 transfer, 1 fault, 1 swap; or 2 commands of up to 5 blocks, window 2 | `SessionInv`, `ReadyAgrees`, `VoltageSafe`, `HealthyCardMounts`, `CommandInv`, `CommandSound`, `KeepsService`, `TransferComplete`, `SlowerOnly`, `PowerOnDischarged`, `PoweredDownAtEnd`, `Returns` | 215 172 |
| `fat` | FAT32 and exFAT volumes of sectors of 4 units, 2 calls, 2 failing accesses or 1 and a power cut | `FatTypeOK`, `ReadBack`, `Survives`, `ChainsSound`, `NothingLost`, `ReadsWhatWasWritten`, `ListsAll` | 31 013 |
| `board` | four boards, every end, 1 lost transfer | `BoardTypeOK`, `LiveAccess`, `ClocksAlive`, `PowerOrder`, `HandOver` | 896 312 |
| `software` | per part, see below | `SoftwareTypeOK`, `DevicesTrue`, `ProgramsRight`, `HeapKeepsPromise`, `SoftwareReturns` | 618 967 |

Why the bounds are enough to be interesting.

*Installer.*  Three runs are a first that is
interrupted, a second that is interrupted while it works on what the first left
(a stale backup, a staging folder with holes), and a third that finishes.  Two
failing calls are what a fallback needs to fail as well.  The nodes hold each
of the three kinds of user data, a program to shed, a file no list names, a
folder within a folder, a folder only one variant has, a root file and a
marker.  Power is only cut when a run is under way; a run that ended, was
rebooted or hangs is followed by the next power-on, up to `MaxBoots`.

*Storage.*  The cards differ in what makes the code branch: UHS up to SDR104, UHS up to
SDR25, UHS that needs more current than there is, UHS with one data line, plain
high speed, a version 1.0 card with one line, eMMC up to HS200 and up to HS400.  Two
sectors make a transfer that is restarted after its first; one fault is enough
for every failure path because a card that has been pulled or disagrees fails
again by itself.  Lengths 0, 1, 3 and 5 with a limit of 4 blocks and buffers that start at
1 or 2 give transfers of none, that end before a boundary of the DMA, at it,
behind it, and more than a command may ask for (`MaxBlocks`).  Two commands let one start from
what the other left.

*FatFs.*  Sectors of 4 units and tables of 4 entries make files of 9 and
directories span sectors and clusters and the table more than one sector; writes
of 3 and 9 units end within and beyond a cluster, at positions 0 and 5.  The second call works
on what the first left in the window.  A call is cut or fails at each of its first
`MaxAccess` = 10 accesses.  Two faults let power go, or another access
fail, after a call that had one fail.

*Board.*  Two kinds of SoC, two kinds of panel, with and without a card; one lost transfer is
what each driver's error path asks for.

*Software.*  Two plugs per Joy-Con and one late packet (`MaxPlugs`, `MaxLate`); a table of two interrupt
slots, two sources and three requests, so that it fills and a slot is used
again; transfers of sizes on both sides of 8 and 32, a single one and a packet of several words, with a FIFO of 8; three troubles
for touch, one more than a command's retries; a heap of 16 units with blocks of 1 and 5; two fallbacks in the
console, which is where its rows run out; files of three lines; lists of three
of four names.  `DevicesTrue` includes the inductive invariants `JoyInv`, `PromptInv`,
`IrqInv`, `BusInv` and `TouchInv` of section 4, `ProgramsRight` the heap's.

Deadlock is not checked because the system does stop, when the last run has
ended or the bound on calls is reached.

*Fairness.*  Installer (`FairSpec`): weak fairness of the program's own steps,
successful or not, taken together: the processor goes on.  Nothing is assumed of the
user, of the power, or of which steps succeed.  Storage: the same for the program, and for the
driver's timeouts, which `get_tmr_ms` drives; nothing of card or controller.
Software: the program goes on, and time passes (strong fairness of `Tick`, as a
poll may lie between any two ticks).  A chip that is asked over I2C or UART may stay
silent.

The properties are conditional on what the code cannot know, and each says so of as
little as it can.

- `UserDataSafe`, `WipeNeedsBackup`, `SuccessIsReal`, `PackMovedNotLost` and `KeepsCustody` speak of
  every file but those in `slipped`: a lookup that failed excuses what lies below that path, an `f_close`
  that failed its file, a restore broken off what it had left to do.  Errors the code reports excuse nothing.
  The claim `SuccessKeepsUserData` excuses none of it and is what the program does not keep.
- `VoltageSafe` holds as long as each power cycle happened and no answer to the switch was lost.  When one
  was lost 3.3 V does reach the card; `ReadyAgrees` says of that case too that no such
  card ends as a storage declared usable.
- `Survives` is about the paths the call at fault does not name, after a cut, after a failed access, and after
  both.  A directory whose table was being changed in two steps (an exFAT
  entry set across two sectors, a cluster linked before it is cleared) may lose what is in it, and nothing else may.
  `ChainsSound` lets the two names of an interrupted rename share clusters, and no third object.
- `PowerOrder` lets a lost transfer spoil one rail: its register is written back with the other field
  cleared.  With n lost transfers at most n rails are not what was asked.
- `DevicesTrue` lets a question shown within a second of the last answer take a press made before it
  (`main.c:417`, `424`), never one that was not made.

The runs of `MCClaims` show what happens otherwise:

| Run | What the documents say | What the program does |
|---|---|---|
| `claim_user_data` | DBI, Tinfoil and keys are preserved | cut short during the restore, a file is backed up over its good copy by the next run |
| `claim_restore` | user data is preserved at the end | a failed restore is forgotten, the backup deleted, success reported |
| `claim_fresh` | a fresh installation in the end | a half deleted staging folder is installed as a pack |
| `claim_update` | update preserves user data | a manifest cut short makes the next run a clean install |

### Observations

Other places where documents and code part: marker files do not select the mode (`README.md:27`,
`version.c:134`); `TegraExplorer/` is in the pack (`README.md:69`) and is deleted
with the staging folder without having been copied (`install.c:399-466`);
nothing counts errors (`INSTALLATION_PROCESS.md:395`, `main.c:75`); the payload
is launched when it exists, whole or not (`README.md:94`, `main.c:419`); the loop
that is never to be reached is reached when the launch fails (`main.c:456`);
update mode deletes `switch/tinfoil/db` and `tinfoil.nro`, not `switch/tinfoil/`
(`INSTALLATION_PROCESS.md:166`, `deletion_lists.h:274,305`); a staging folder that
cannot be deleted does become the result (`INSTALLATION_PROCESS.md:294`,
`install.c:680-681`).

What the models show of the code itself, where a property had to be stated around
it:

- *Board.*  `hw_init` clears the clock bit of the display in its self-test
  workaround, so `display_init`'s check for a panel left on does not find one on a warm
  start; sd0 at 1.4 V is written with its multiplier masked to 0; LDO6 is
  shared by touch and light sensor, the first to end switches it off; `KnownLapses`
  lists the accesses to dead devices the code makes; `NYX` is not defined, so
  `hw_reinit_workaround` leaves the 5 V and the Joy-Cons on; the charger's recharge
  threshold is read with the wrong mask (`bq24193.c:98`); a frame that never comes is
  waited for without end in the vertical blank writes.
- *Buses.*  `uart_recv` with a length returns one byte less than it received, and with one byte more than
  the buffer holds it no longer waits and stores what the register holds, for ever (`uart.c:97`).  Packet calls of
  I2C return 0 for more than 32 bytes, and look for the acknowledge before the FIFO has drained.  A single transfer
  that follows one that timed out and is still busy may take that one's end for its own (`i2c.c:142`).
  `i2c_send_buf_small` copies 4 to 7 bytes into a word (`i2c.c:394`), and
  `i2c_recv_buf_small` sends the register before it refuses more than 8 (`i2c.c:407`).
- *Joy-Cons.*  A pad that does not answer a second initialisation stays
  connected; the question at `main.c:428`, and the last one after a very short
  installation, may be answered by the press before, as may one at which the Joy-Con is taken off
  for the moment `jc_init_conn` looks.
- *Interrupts.*  A free slot before the one in use lets one source be registered twice
  (`irq.c:215`), a slot is rewritten field by field while its interrupt may
  come (`irq.c:222`), and a source served once is enabled again (`irq.c:227`).  Nothing
  in the payload registers a handler.
- *DRAM.*  A PLLM that does not lock is used all the same (`sdram.c:178`).
- *Decoders.*  12 PM becomes hour 24 in 12-hour mode; the light sensor's value wraps
  (`als.c:121`); a payload of 0x6FF1 to 0x7000 bytes is patched from an address
  that is not set (`main.c:125`); a CSD with `c_size` of 2^22 overflows.
- *Console.*  Small text wraps without a bound (`gfx.c:284`); clean mode with two
  fallbacks fills the 45 rows exactly.
- *INI.*  An empty manifest yields one section whose list of pairs is walked though
  it was only zeroed (`ini.c:152`, `version.c:70`); pairs after a blank line
  or a comment are dropped; a file that cannot be read is read without end (`ini.c:163`).

## 4. What is proved

Everything in this section is proved for every value of the constants, from the
named assumptions of the module alone.  A theorem `Spec => []Inv` is proved from an
inductive invariant that a run checks as well, so that the invariant is known to
hold on instances before it is proved (of the board's, which quantifies over scripts, a
run checks the consequences).

### Installer

For every tree, every set of cards, any number of runs and failing
calls, and for every file that has not slipped, from `TreeAssumption`, `OwnerAssumption` and `StartAssumption`.

- `TypeCorrect`: `Spec => []TypeOK`.  `TypeOK` is not inductive by itself: a
  stage's row names the variant's area, so the invariant carries along that a
  variant is known wherever work is done (`VariantKnown`).
- `UserDataInvariant`, `UserDataIsSafe`, `WipeHasBackup`.  The claim that a file
  is in one of two places says nothing of *when*.  `DataInv` adds it: in the
  backup stages what has been dealt with is in the backup or still `Pending`; through
  the wipe and the restore it is in the backup; when the backup is deleted it
  is in the live tree; and in between the live tree holds the file, or nothing, or
  a torn file that is being restored at this moment.  `JobInv` ties what is
  pending to the stage's paths, and `StagedIsPack` keeps a pack from writing over the
  user's files.  `FileStep` is the argument for one file, one case per action.
- `CardStaysATree`.  `CardIsTree` needs `OpenIsTorn` (nothing lies below the file
  that is being written) and `DeletesBelow` (what is left in a folder on the list is on
  the list), because a folder may go only when it is empty.
- `InstallerInvariantHolds`, `UpdateModeKeeps`, `SuccessIsSound`, `PackIsMoved`.
  `PackInv` says of the staging folders that they only shrink, and only in the stage
  that deletes them; of the stages of the installation, that what is staged is in the live tree
  up to the paths still pending (`PlacedInv`); of the manifest, that it names a
  variant except while it is open (`KeepInv`), so that update never becomes clean; and
  of a pack found whole, that it is whole until all of it is in place (`FinishInv`).
- `InstallerIsCustody`: every step of a clean installation is a step of `Custody` or
  changes nothing of it.  A file's copy is live or saved if it is whole; the phase is
  read off the stage (`Phase`), and a file of the owner that has slipped is excused, it alone: every other
  file stays in custody through the same step.  `Custody` says what the
  invariant does not: in which *order* copies may be given up.  It rests on `DataInv`, because a
  phase may be left only when all of its files are done, and `Pending` is what says so.
  `CustodyLosesNothing` is proved of `Custody` itself, from `CustodyInv`, and so
  of everything that implements it: a file that is not excused is live or saved.

### Card session

For every set of cards, any number of sectors, transfers, faults and swaps, from
`CardsAssumption` (the cards are records of the kind the model reads) and
`BoundsAssumption` (the bounds are natural numbers).

- `SessionInvariantHolds`: `SessionInv`, seven layers that are inductive together.  `ShapeInv` are the types;
  `PlaceInv` bounds the speed level and the sectors by the place in a mount, a
  transfer or a retry; `PowerInv` is a slot without power that has nothing
  on, and PLLC4 running exactly while it is held; `HostInv` gives for each step of an initialisation the levels,
  timing, width and tap that the controller is at; `CardInv` and `ToldInv` what the
  card has been told by then; `LapseInv` when a card at 1.8 V may meet 3.3 V.  No layer is
  inductive alone: what a card was told follows from what the host was set to
  when it was told, and that from the order of the steps.
- From it: `ReadyAgreesHolds`, `VoltageSafeHolds`, `Pllc4Holds`, `SessionTypes`, and
  the action properties `TransferCompleteHolds`, `SlowerOnlyHolds`,
  `PowerOnDischargedHolds`, `PoweredDownAtEndHolds`.
- `SessionIsService`: driver, controller and card together implement `CardService`.  The
  stage is read off `op` (`Stage`); commands and settings change nothing of it.  What needs the
  layers is the end of a recovery: the first new attempt gives up only at level 0 or without a card, and a
  transfer counts its sectors from 1.  `ServiceCounts` is what the service promises.
- `HealthyCardIsMounted`, from `HealthyInv`: while no answer was lost and the card was left in, the
  card is at each step of the initialisation in the state the step's command needs (`SdReadyFor`,
  `MmcReadyFor`), host and card agree, and the only step that fails is that of a speed the card
  cannot do (`NeedsSlow`), once.  `SessionInv` says what host and card believe when a step
  works; `HealthyInv` adds that it does.  Its hypothesis `Consistent` is about the card's registers: high capacity and UHS
  came with version 2, and a UHS card names a UHS mode in its switch function.  The code relies on
  it without a check, and for a card that breaks it the property is false: high capacity
  is asked for of version 2 only (`sdmmc.c:783`), and a card that agrees to 1.8 V
  and has no UHS mode loses the level (`sdmmc.c:1088`).

`SdStepProofs` has what is proved once: the orders have no step twice, so
`Following` is a function with a table (`SdAfter`, `MmcAfter`); each operator of
`SdmmcHost` keeps the record's type and the fields it does not write; each action goes
on only under the conditions of `SdGoes` or `MmcGoes`.  `SdSessionProofs` takes the
layers one by one, one case per step of the initialisation.

### One command

For every boundary of the DMA engine, set of buffers and lengths, and limit of
blocks, from `CommandAssumption`.  `CommandInvariantHolds`: driver and controller are at steps that fit (`InStep`); while
a transfer goes on the blocks moved are those the block counter has counted, and
the DMA address is before the boundary the driver expects or, with the boundary's
interrupt pending, at it (`Transferred`); from then on all has been moved if the
driver thinks so (`Over`).  `CommandIsSound` follows.

### Heap

For every start address and set of sizes, from `HeapAssumption`: `HeapStaysWhole`, `FreedIsMerged`,
`MonitorIsRight`, and `HeapKeepsItsPromise`, the refinement of `Allocator` (`Promise`,
an `INSTANCE ... WITH`) step by step: the blocks held are the used nodes.

### Joy-Cons and questions

For any number of controllers attached and taken off and of answers that come late; no assumption is
needed.  `PadIsTrue` is `JoyInv`: what a poll leaves behind (`PadTrue`) with the types and places.
`PromptInvariantHolds` adds why an answer is fresh (`AnswersFresh`): a press older than a question with a second
of silence before it is held, or waits in the UART, only until the first poll's `jc_init_conn`, or as long as no
controller is there for it to be read from; and whatever is held was pressed at some question (`FreshInv`).

### Interrupts

For every number of slots, set of sources and number of requests, from `IrqAssumption`.
`InterruptTable` is `IrqInv`: `Placed` says what the program and the interrupt exclude of each
other; `TableInv` says, while no source was registered twice and no handler called in pieces, that
each slot is free, whole, or the one being written, at which write it is (`InHand`), and that a
one-off handler that has served is about to leave; `OwnInv` says, while no handler was
replaced either, that the source being registered is off, which is why the interrupt cannot
find the slot half written.  `HandlersAreWhole` and `SourcesAreOwned` follow.

### Touch and buses

`TouchInvariantHolds`, for any number of commands and answers that are lost or late
(`TouchAssumption`: it is a natural number).  `PlaceInv` ties each call of
`touch_sys_reset` to where it goes on (`Ways`); `ChipInv` is what is known of the controller at each place: after
a reset that worked it has nothing to do and nothing to say, and from then on at most the work
of the last command or the one event about it (`Expecting`).  So a wait that works got the
answer to its own command, and what it stands for is done: that is why both compensations are
tuned before they are saved (`TouchOnIsOn`).  It rests on the reset being the first command of a tuning:
between the start of the program and the first reset nothing is known of what the controller says.

`BusInvariantHolds`, for all sizes, any depth of the FIFO from five words up and any room
(`BusAssumption`).  `FifoInv` is the count of a received packet: what came over the line is
what the driver took and what is in the FIFO, the last word counting the bytes that are left of the packet, so
nothing is missing when the driver has taken all (`TransfersAreTrue`).  A transfer that a call found still busy is
remembered (`ctrl.old`), because its end is not told from that of the call.  `ReceiverInRoom`: while the sender has sent no more
than the buffer holds, what came is what is stored and at most one byte that came too late and waits
for the next call; so the receiver neither leaves the buffer nor invents a byte, for any pauses.  The sender and
the receiver end three bytes past the room, a bound of the model.

### Board

For every number and set of lost transfers, set of rails to check and voltage asked for; no assumption is
needed.  `BoardTypes` and `ClocksStayAlive` follow from `BoardInductive`, whose invariant `BoardInv` is
`Good(soc, todo)`:

- `StateOK`: the types, which `BoardTypeOK` says in part.
- `ClockOK`: while the processor runs on PLLC, PLLC is on, its multiplier is one of the table and
  the bus is divided by four.
- what is left to do is a change of the clock and then a script (`Left`).  `Stage` lists how far a change
  can have come, up to PLLC or down to PLLP, and what holds there: the source is PLLP from before
  PLLC stops until it runs with its new multiplier.  The script after it is one that leaves the clock
  where it has to be: outside the boot it never asks for a frequency, or its last request is the one
  the caller wants (`Ends`); in the boot it may also reset the oscillators once (`Boots`).

The last part is needed because between two calls nothing is left of how the clock was lowered: that
`tsec_query` and `jc_init_hw` restore it on every way out is a fact about what they
have still to do.  The invariant speaks of all scripts of a kind (`Script`), so TLC cannot evaluate it; the run `board` checks
what follows from it.  Most of the module takes each driver's function once and shows that its script is of
operations and calls that leave the clock alone (`Quiet`), or that it gives back the frequency it found (`Restoring`).

### Model-checked only

- Liveness (`ReachesPrompt`, `Returns`, `SoftwareReturns`): fairness and `ENABLED` are
  beyond the prover.
- `FatFs` and `Decoders`: recursive operators, over volumes and registers;
  what they compute for every input needs induction over data.
- `LiveAccess`, `PowerOrder` and `HandOver` of `Board`: they follow from every line of long fixed
  scripts (which gate comes before which access), so an inductive invariant would have to say what
  holds after each line.  TLC runs all scripts there are, on four kinds of board.
- The remaining parts of `software` (`Dram`, `Console`, `IniFiles`): fixed sequences of
  register accesses, and folds over what they carry; checked, not proved.

## 5. Not modelled

The text on the screen as text; file attributes (`f_chmod`); path
lengths (buffers of 256 bytes); running out of memory or of space in the installer, other than as
a failing call; what the user changes on the card between two runs; DBI, Tinfoil
and hekate themselves; FAT12 and FAT16, `f_mkfs` and the code pages of FatFs; erase and
partition commands of eMMC, and the fields of card registers no decision reads; USB-PD;
glyphs and bitmaps; timing tables of the DRAM and what the training module does;
the ELF loader; the debug output of the UART.  `PROJECT.json` says so per component.

## 6. What is left

`TreeWalk`: `fs.c` with its stack of directory handles, refining the jobs of
`Installer`.
