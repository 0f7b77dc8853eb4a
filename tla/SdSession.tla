------------------------------ MODULE SdSession ------------------------------
(***************************************************************************)
(* The session with the SD card: nx_sd.c over sdmmc.c over the controller  *)
(* of SdmmcHost, against a card that keeps its own idea of voltage, width  *)
(* and speed.  Initialisation is one step per command or per setting of    *)
(* the controller, so that the two sides can come apart between any two.   *)
(* The same machine initialises an eMMC (sdmmc_storage_init_mmc).          *)
(***************************************************************************)
EXTENDS SdmmcHost, Sequences

CONSTANTS
    Cards,       \* what can be in the slot: see CardShape
    B01s,        \* the SoC revisions: TRUE for T210B01
    Sectors,     \* requests a transfer is split into (0xFFFF sectors each)
    MaxFaults,   \* commands that fail though they should not
    MaxSwaps,    \* how often the card is pulled out
    MaxCalls     \* transfers of the program

Modes == {"DS", "HS", "SDR12", "SDR25", "SDR50", "SDR104", "HS52", "HS200", "HS400"}
CardShape == [kind : Ids, v2 : BOOLEAN, hc : BOOLEAN, uhs : BOOLEAN, wide : BOOLEAN,
              v10 : BOOLEAN, hs : BOOLEAN, modes : SUBSET Modes, hungry : BOOLEAN]
ASSUME CardsAssumption == Cards \subseteq CardShape
ASSUME BoundsAssumption ==
    /\ B01s \subseteq BOOLEAN /\ Sectors \in Nat \ {0}
    /\ MaxFaults \in Nat /\ MaxSwaps \in Nat /\ MaxCalls \in Nat

VARIABLES
    h,        \* the controller and its rails
    cap,      \* the card: what it can do
    card,     \* the card: st, sig (the level it signals with), width, mode, ins, weak
    b01,      \* the SoC
    store,    \* sd_storage: init, low (is_low_voltage), s18, sdsc
    mode,     \* sd_mode
    mounted,  \* sd_mounted
    op,       \* where the program is: call, step, ret, first, tries, left
    moved,    \* sectors of the transfer the card and the buffer agree on
    calls, faults, swaps,
    result,   \* what the last call returned
    lapses    \* what went wrong with the power so far

vars == <<h, cap, card, b01, store, mode, mounted, op, moved, calls, faults, swaps, result, lapses>>
env == <<cap, b01, calls, swaps>>

SD_INIT_FAIL == 0
SD_1BIT_HS25 == 1
SD_4BIT_HS25 == 2
SD_UHS_SDR82 == 3

\* The speed mode a level of sd_mode asks for.
BusWidth == IF mode = SD_1BIT_HS25 THEN 1 ELSE 4
UhsSupport == mode = SD_UHS_SDR82

(***************************************************************************)
(* The card.                                                               *)
(***************************************************************************)
Out == [st |-> "off", sig |-> "3.3", width |-> 1, mode |-> "DS", ins |-> FALSE, weak |-> FALSE]
Unpowered == [card EXCEPT !.st = "off", !.sig = "3.3", !.width = 1, !.mode = "DS"]

Limit(m) ==
    CASE m \in {"DS", "SDR12"} -> 26000
      [] m \in {"HS", "SDR25"} -> 50000
      [] m = "HS52" -> 52000
      [] m = "SDR50" -> 100000
      [] OTHER -> 208000

\* A command can only be answered when both sides agree on level and clock.
Talks ==
    /\ card.ins /\ card.st # "off" /\ h.en /\ h.on /\ ~h.rst
    /\ h.ldo = card.sig /\ h.io = card.sig
    /\ CardRate(h) <= IF card.st \in {"idle", "ready", "ident"} /\ card.mode # "SDR12"
                        THEN 400 ELSE Limit(card.mode)

TimingAgrees ==
    CASE card.mode = "DS" -> ~h.v180
      [] card.mode \in {"HS", "HS52"} -> h.hispd
      [] card.mode \in {"SDR12", "SDR25"} -> h.v180 /\ h.uhs = card.mode
      [] card.mode = "HS400" -> h.v180 /\ h.uhs = "HS400"
      [] OTHER -> h.v180 /\ h.uhs = "SDR104"
TapAgrees ==
    /\ card.mode \in {"SDR50", "SDR104", "HS200"} => h.tap = "tuned"
    /\ card.mode = "HS400" => h.tap = "saved"
DataAgrees == h.width = card.width /\ TimingAgrees

(***************************************************************************)
(* The steps of an initialisation, in the order of the code.               *)
(***************************************************************************)
SdOrder == <<"sdmmc_init", "start", "go_idle", "send_if_cond", "get_op_cond", "switch_voltage",
    "lv_clock", "lv_rail", "lv_check", "get_cid", "get_rca", "get_csd", "setup_ds12",
    "select_card", "set_blocklen", "clr_card_detect", "get_scr", "set_bus_width",
    "switch_get", "current_limit", "switch_check", "switch_set", "setup_uhs", "tuning",
    "check_status", "setup_hs25", "get_ssr", "ready">>
MmcOrder == <<"sdmmc_init", "start", "go_idle", "get_op_cond", "get_cid", "get_rca", "get_csd",
    "setup_ls26", "select_card", "set_blocklen", "switch_width8", "get_ext_csd",
    "switch_hs200", "setup_hs200", "tuning", "check_status", "save_tap",
    "switch_hs52", "setup_hs52", "check_status2", "switch_ddr8", "switch_hs400",
    "setup_hs400", "check_status3", "ready">>
Order == IF cap.kind = "sd" THEN SdOrder ELSE MmcOrder
Steps == {SdOrder[i] : i \in DOMAIN SdOrder} \cup {MmcOrder[i] : i \in DOMAIN MmcOrder}

\* _sd_storage_enable_uhs_low_volt: the fastest mode the card has, if any.
UhsMode ==
    CASE "SDR104" \in cap.modes -> "SDR104"
      [] "SDR104" \notin cap.modes /\ "SDR50" \in cap.modes -> "SDR50"
      [] cap.modes \cap {"SDR104", "SDR50"} = {} /\ "SDR25" \in cap.modes -> "SDR25"
      [] OTHER -> "SDR12"
UhsTiming == IF UhsMode = "SDR104" THEN "SDR82" ELSE UhsMode

\* sdmmc_storage_init_sd leaves steps out by what the card said and what was asked.
Hs400 == "HS400" \in cap.modes
Needed(s, st) ==
    CASE s = "switch_voltage" -> st.s18
      [] s \in {"lv_clock", "lv_rail", "lv_check"} -> st.s18
      [] s = "setup_ds12"    -> ~st.low
      [] s = "set_bus_width" -> BusWidth = 4 /\ cap.wide /\ ~cap.v10
      [] s \in {"switch_get", "current_limit"} -> st.low \/ ~cap.v10
      [] s \in {"switch_check", "switch_set"} -> st.low \/ (~cap.v10 /\ cap.hs)
      [] s = "check_status"  -> cap.kind = "emmc" \/ st.low \/ (~cap.v10 /\ cap.hs)
      [] s = "setup_uhs"     -> st.low
      [] s = "tuning"        -> cap.kind = "emmc" \/ (st.low /\ UhsMode \in {"SDR104", "SDR50"})
      [] s = "setup_hs25"    -> ~st.low /\ ~cap.v10 /\ cap.hs
      [] s \in {"save_tap", "switch_hs52", "setup_hs52", "check_status2", "switch_ddr8",
                "switch_hs400", "setup_hs400", "check_status3"} -> Hs400
      [] OTHER -> TRUE
Position(s) == CHOOSE i \in DOMAIN Order : Order[i] = s
\* The step after s, by what the storage record says then.
Following(s, st) ==
    Order[CHOOSE i \in Position(s) + 1 .. Len(Order) :
             /\ Needed(Order[i], st)
             /\ \A j \in Position(s) + 1 .. i - 1 : ~Needed(Order[j], st)]

(***************************************************************************)
(* What a step does.  A setting is the controller's; a command needs the   *)
(* card.  A command fails when the card cannot take it, or is lost: on its *)
(* way to the card, or its answer on the way back.                         *)
(***************************************************************************)
Spend == faults < MaxFaults /\ faults' = faults + 1

Done(s, works, h1, card1, store1) ==
    /\ op.step = s /\ works
    /\ h' = h1 /\ card' = card1 /\ store' = store1
    /\ op' = [op EXCEPT !.step = Following(s, store1)]
    /\ UNCHANGED <<env, mode, mounted, moved, faults, result, lapses>>
Setting(s, h1) == Done(s, TRUE, h1, card, store)
Accepted(s, works, card1, store1) == Done(s, works, Recalibrate(h), card1, store1)

\* The caller goes on with the next step, or returns 0 through all of its callers.
Failed(s, works, card1, store1, dropped) ==
    /\ op.step = s
    /\ IF works THEN Spend ELSE UNCHANGED faults
    /\ card' \in IF works THEN {card, card1} ELSE {card}
    /\ h' = Recalibrate(h) /\ store' = store1
    /\ op' = [op EXCEPT !.step = IF dropped THEN Following(s, store1) ELSE "failed"]
    /\ lapses' = IF card'.sig # card.sig THEN lapses \cup {"answer"} ELSE lapses
    /\ UNCHANGED <<env, mode, mounted, moved, result>>

Command(s, works, card1) ==
    \/ Accepted(s, Talks /\ works, card1, store)
    \/ Failed(s, Talks /\ works, card1, store, FALSE)
\* A command with a block of data needs the data lines as well.
DataCommand(s, card1) == Command(s, card.st = "tran" /\ DataAgrees /\ TapAgrees, card1)
Ask(s) == Command(s, card.st = "tran", card)

(***************************************************************************)
(* The steps of both kinds of card.                                        *)
(***************************************************************************)
Idled == [card EXCEPT !.st = "idle", !.width = 1, !.mode = "DS"]

\* The record is cleared before sdmmc_init looks for the card.
SdmmcInit ==
    LET power == IF h.id = "sd" THEN "3.3" ELSE "1.8"
        t     == IF h.id = "sd" THEN "SD_ID" ELSE "MMC_ID"
    IN  /\ op.step = "sdmmc_init"
        /\ store' = [init |-> FALSE, low |-> FALSE, s18 |-> FALSE, sdsc |-> FALSE]
        /\ h' = IF card.ins THEN PowerOn(InitWait(h), b01, power, t) ELSE NoCard(InitWait(h), b01)
        /\ card' = IF card.ins /\ card.st = "off" THEN [card EXCEPT !.st = "idle", !.sig = power]
                   ELSE card
        /\ op' = [op EXCEPT !.step = IF card.ins THEN "start" ELSE "failed"]
        /\ UNCHANGED <<env, mode, mounted, moved, faults, result, lapses>>
SdmmcStart ==
    \/ Setting("start", Start(h, h.ldo, 1, IF h.id = "sd" THEN "SD_ID" ELSE "MMC_ID"))
    \/ Failed("start", TRUE, card, store, FALSE) \* the internal clock does not settle

\* No answer is expected, so none is missed.
GoIdleState ==
    \/ Accepted("go_idle", TRUE, IF Talks THEN Idled ELSE card, store)
    \/ Failed("go_idle", TRUE, IF Talks THEN Idled ELSE card, store, FALSE)
GetCid == Command("get_cid", card.st = "ready", [card EXCEPT !.st = "ident"])
GetCsd == Command("get_csd", card.st = "stby", card)
SelectCard == Command("select_card", card.st = "stby", [card EXCEPT !.st = "tran"])
SetBlocklen == Ask("set_blocklen")
CheckStatus == Ask("check_status")
CheckStatus2 == Ask("check_status2")
CheckStatus3 == Ask("check_status3")
TuningExecute ==
    LET works == Talks /\ card.st = "tran" /\ DataAgrees
    IN  \/ Done("tuning", works, Tuned(h), card, store)
        \/ Failed("tuning", works, card, store, FALSE)

(***************************************************************************)
(* SD.                                                                     *)
(***************************************************************************)
\* No answer means an old card; an answer that does not echo is an error.
SendIfCond ==
    LET works == Talks /\ cap.v2
    IN  \/ Accepted("send_if_cond", works, card, store)
        \/ Failed("send_if_cond", works, card, [store EXCEPT !.sdsc = TRUE], TRUE)
        \/ works /\ Failed("send_if_cond", works, card, store, FALSE)
\* A high capacity card never gets ready for a host that does not announce itself.
SdGetOpCond ==
    LET works == Talks /\ card.st = "idle" /\ ~(cap.hc /\ store.sdsc)
        s18   == UhsSupport /\ ~store.sdsc /\ cap.uhs /\ card.sig = "3.3"
        ready == [card EXCEPT !.st = "ready"]
    IN  /\ cap.kind = "sd"
        /\ \/ Accepted("get_op_cond", works, ready, [store EXCEPT !.s18 = s18])
           \/ Failed("get_op_cond", works, ready, store, FALSE)
SwitchVoltage ==
    LET works == Talks /\ card.st = "ready"
        low   == [card EXCEPT !.sig = "1.8", !.mode = "SDR12"]
    IN  \/ Accepted("switch_voltage", works, low, store)
        \/ Failed("switch_voltage", works, low, [store EXCEPT !.s18 = FALSE], TRUE)
\* sdmmc_enable_low_voltage
EnableLowVoltage ==
    \/ Setting("lv_clock", SetupClock(h, "SDR12"))
    \/ Setting("lv_rail", LowerRail(h))
    \/ Done("lv_check", card.sig = "1.8" /\ card.ins, [h EXCEPT !.ck = TRUE], card,
            [store EXCEPT !.low = TRUE])
    \/ Failed("lv_check", card.sig = "1.8" /\ card.ins, card, store, FALSE)
GetRca ==
    /\ cap.kind = "sd"
    /\ Command("get_rca", card.st = "ident", [card EXCEPT !.st = "stby"])
SetupDs12 == Setting("setup_ds12", SetupClock(h, "SD_DS12"))
ClrCardDetect == Ask("clr_card_detect")
GetScr == DataCommand("get_scr", card)
\* The host follows once the card has been told.
SetBusWidth4 ==
    \/ Done("set_bus_width", Talks /\ card.st = "tran", SetBusWidth(Recalibrate(h), 4),
            [card EXCEPT !.width = 4], store)
    \/ Failed("set_bus_width", Talks /\ card.st = "tran", [card EXCEPT !.width = 4], store, FALSE)
SwitchGet ==
    Command("switch_get", card.st = "tran" /\ DataAgrees /\ TapAgrees
                              /\ (store.low => h.width = 4), card)
SetCurrentLimit ==
    LET works == Talks /\ card.st = "tran" /\ DataAgrees /\ TapAgrees
    IN  \/ Accepted("current_limit", works, card, store)
        \/ Failed("current_limit", works, card, store, TRUE)
\* _sd_storage_enable_highspeed: the mode is first asked for, then set.
SwitchCheck ==
    Command("switch_check", card.st = "tran" /\ DataAgrees /\ TapAgrees
                              /\ (store.low => UhsMode \in cap.modes /\ ~cap.hungry), card)
SwitchSet == DataCommand("switch_set", [card EXCEPT !.mode = IF store.low THEN UhsMode ELSE "HS"])
SetupUhs == Setting("setup_uhs", SetupClock(h, UhsTiming))
SetupHs25 == Setting("setup_hs25", SetupClock(h, "SD_HS25"))
GetSsr ==
    LET works == Talks /\ card.st = "tran" /\ DataAgrees /\ TapAgrees
    IN  \/ Accepted("get_ssr", works, card, store)
        \/ Failed("get_ssr", works, card, store, TRUE)

(***************************************************************************)
(* eMMC.                                                                   *)
(***************************************************************************)
MmcGetOpCond ==
    /\ cap.kind = "emmc"
    /\ Command("get_op_cond", card.st = "idle", [card EXCEPT !.st = "ready"])
SetRelativeAddr ==
    /\ cap.kind = "emmc"
    /\ Command("get_rca", card.st = "ident", [card EXCEPT !.st = "stby"])
SetupLs26 == Setting("setup_ls26", SetupClock(h, "MMC_LS26"))
SwitchBuswidth ==
    \/ Done("switch_width8", Talks /\ card.st = "tran", SetBusWidth(h, 8),
            [card EXCEPT !.width = 8], store)
    \/ Failed("switch_width8", Talks /\ card.st = "tran", [card EXCEPT !.width = 8], store, FALSE)
GetExtCsd == DataCommand("get_ext_csd", card)
EnableHS200 ==
    \/ Command("switch_hs200", card.st = "tran", [card EXCEPT !.mode = "HS200"])
    \/ Setting("setup_hs200", SetupClock(h, "MMC_HS200"))
EnableHS ==
    \/ Setting("save_tap", SaveTapValue(h))
    \/ Command("switch_hs52", card.st = "tran", [card EXCEPT !.mode = "HS52"])
    \/ Setting("setup_hs52", SetupClock(h, "MMC_HS52"))
EnableHS400 ==
    \/ Ask("switch_ddr8")
    \/ Command("switch_hs400", card.st = "tran", [card EXCEPT !.mode = "HS400"])
    \/ Setting("setup_hs400", SetupClock(h, "MMC_HS400"))
    \/ Failed("setup_hs400", TRUE, card, store, FALSE) \* the DLL does not lock

SdStep ==
    \/ SendIfCond \/ SdGetOpCond \/ SwitchVoltage \/ EnableLowVoltage \/ GetRca \/ SetupDs12
    \/ ClrCardDetect \/ GetScr \/ SetBusWidth4 \/ SwitchGet \/ SetCurrentLimit \/ SwitchCheck
    \/ SwitchSet \/ SetupUhs \/ SetupHs25 \/ GetSsr
MmcStep ==
    \/ MmcGetOpCond \/ SetRelativeAddr \/ SetupLs26 \/ SwitchBuswidth \/ GetExtCsd
    \/ EnableHS200 \/ EnableHS \/ EnableHS400
CommonStep ==
    \/ SdmmcInit \/ SdmmcStart \/ GoIdleState \/ GetCid \/ GetCsd \/ SelectCard \/ SetBlocklen
    \/ CheckStatus \/ CheckStatus2 \/ CheckStatus3 \/ TuningExecute

\* sdmmc_storage_end: the card is told to idle, then the controller and the slot
\* are switched off.  If the command fails nothing is switched off.
StorageEnd ==
    \/ /\ h.en
       /\ h' = SdmmcEnd(h)
       /\ card' = IF h'.vdd THEN (IF Talks THEN Idled ELSE card) ELSE Unpowered
       /\ store' = [store EXCEPT !.init = FALSE]
       /\ lapses' = IF h'.vdd THEN lapses ELSE {}
       /\ UNCHANGED faults
    \/ /\ IF h.en THEN Spend ELSE UNCHANGED faults
       /\ card' \in IF Talks THEN {card, Idled} ELSE {card}
       /\ lapses' = IF h.vdd THEN lapses \cup {"end"} ELSE lapses
       /\ UNCHANGED <<h, store>>

Goto(step) == op' = [op EXCEPT !.step = step]
Return(r) == /\ op' = [op EXCEPT !.call = "idle", !.step = "idle"]
             /\ result' = r

PowerCycleTwo ==    \* mutant: two levels at once
    /\ StorageEnd
    /\ mode' = IF mode > 1 THEN mode - 2 ELSE SD_INIT_FAIL
    /\ Goto(IF mode' = SD_INIT_FAIL THEN "failed" ELSE "sdmmc_init")
\* sd_init_retry(true): one level down, power cycle, initialise.
PowerCycle ==
    /\ StorageEnd
    /\ mode' = mode - 1
    /\ Goto(IF mode' = SD_INIT_FAIL THEN "failed" ELSE "sdmmc_init")

(***************************************************************************)
(* sd_mount, sd_initialize.                                                *)
(***************************************************************************)
Mount ==
    /\ op.call = "off"
    /\ op' = [op EXCEPT !.call = "mount", !.ret = "loop",
                        !.step = IF mode = SD_INIT_FAIL THEN "failed" ELSE "sdmmc_init"]
    /\ UNCHANGED <<h, card, env, store, mode, mounted, moved, faults, result, lapses>>

ReadyResumes ==    \* mutant: the transfer goes on where it was
    /\ op.step = "ready"
    /\ h' = CardClockPowersave(h, TRUE) /\ store' = [store EXCEPT !.init = TRUE]
    /\ IF op.call = "mount"
         THEN Goto("f_mount") /\ UNCHANGED moved
         ELSE /\ op' = [op EXCEPT !.step = "try", !.tries = 3, !.first = FALSE]
              /\ moved' = {}
    /\ UNCHANGED <<card, env, mode, mounted, faults, result, lapses>>
Ready ==
    /\ op.step = "ready"
    /\ h' = CardClockPowersave(h, TRUE) /\ store' = [store EXCEPT !.init = TRUE]
    /\ IF op.call = "mount"
         THEN Goto("f_mount") /\ UNCHANGED moved
         ELSE /\ op' = [op EXCEPT !.step = "try", !.tries = 3, !.first = FALSE, !.left = Sectors]
              /\ moved' = {}
    /\ UNCHANGED <<card, env, mode, mounted, faults, result, lapses>>

InitLoopOn ==    \* mutant: the loop does not look at the level
    /\ op.step = "failed" /\ op.ret = "loop" /\ cap.kind = "sd"
    /\ card.ins
    /\ PowerCycle
    /\ UNCHANGED <<env, mounted, moved, result>>
\* The loop of sd_initialize goes on with what sd_init_retry returned.
InitLoop ==
    /\ op.step = "failed" /\ op.ret = "loop" /\ cap.kind = "sd"
    /\ card.ins /\ mode # SD_INIT_FAIL
    /\ PowerCycle
    /\ UNCHANGED <<env, mounted, moved, result>>

InitGivesUp ==
    /\ op.step = "failed" /\ op.ret = "loop" /\ cap.kind = "sd"
    /\ ~card.ins \/ mode = SD_INIT_FAIL
    /\ StorageEnd
    /\ mode' = IF card.ins THEN mode ELSE SD_UHS_SDR82
    /\ Return("failed")
    /\ UNCHANGED <<env, mounted, moved>>

\* sd_init_retry called by a transfer, or the eMMC's initialisation.
InitOnceFails ==
    /\ op.step = "failed" /\ (op.ret = "once" \/ cap.kind = "emmc")
    /\ Return("failed")
    /\ UNCHANGED <<h, card, env, store, mode, mounted, moved, faults, lapses>>

FatMount ==
    /\ op.step = "f_mount"
    /\ \/ /\ Talks /\ DataAgrees /\ TapAgrees /\ card.st = "tran"
          /\ mounted' = TRUE /\ Return("ok") /\ UNCHANGED faults
       \/ /\ IF Talks THEN Spend ELSE UNCHANGED faults
          /\ Return("failed") /\ UNCHANGED mounted
    /\ UNCHANGED <<h, card, env, store, mode, moved, lapses>>

(***************************************************************************)
(* _sdmmc_storage_readwrite.                                               *)
(***************************************************************************)
Transfer ==
    /\ op.call = "idle" /\ result # "gone" /\ mounted /\ store.init /\ calls < MaxCalls
    /\ calls' = calls + 1 /\ moved' = {}
    /\ op' = [op EXCEPT !.call = "rw", !.step = "try", !.first = TRUE, !.tries = 5, !.left = Sectors]
    /\ UNCHANGED <<h, card, cap, b01, store, mode, mounted, faults, swaps, result, lapses>>

\* A weak card loses data at high rates.
Carries == /\ Talks /\ DataAgrees /\ TapAgrees /\ card.st = "tran"
           /\ ~(card.weak /\ CardRate(h) > 50000)

TransferRequest ==
    /\ op.step = "try" /\ Carries
    /\ moved' = moved \cup {Sectors - op.left + 1}
    /\ h' = Recalibrate(h)
    /\ IF op.left = 1
         THEN Return("ok")
         ELSE op' = [op EXCEPT !.left = @ - 1, !.tries = 5] /\ UNCHANGED result
    /\ UNCHANGED <<card, env, store, mode, mounted, faults, lapses>>

RequestFailsForever ==    \* mutant: the retries are not counted
    /\ op.step = "try"
    /\ IF Carries THEN Spend ELSE UNCHANGED faults
    /\ h' = Recalibrate(h)
    /\ UNCHANGED <<op, result, card, env, store, mode, mounted, moved, lapses>>
RequestFails ==
    /\ op.step = "try"
    /\ IF Carries THEN Spend ELSE UNCHANGED faults
    /\ h' = Recalibrate(h)
    /\ IF op.tries > 1 THEN op' = [op EXCEPT !.tries = @ - 1] /\ UNCHANGED result
       ELSE IF cap.kind = "sd" THEN Goto("reinit") /\ UNCHANGED result
       ELSE Return("failed")
    /\ UNCHANGED <<card, env, store, mode, mounted, moved, lapses>>

ReinitFirstFast ==    \* mutant: the speed starts from the top again
    /\ op.step = "reinit" /\ op.first
    /\ StorageEnd
    /\ op' = [op EXCEPT !.ret = "loop", !.step = "sdmmc_init"]
    /\ mode' = SD_UHS_SDR82
    /\ UNCHANGED <<env, mounted, moved, result>>
\* sd_initialize(true): power cycle at the same level, then the loop.
ReinitFirst ==
    /\ op.step = "reinit" /\ op.first
    /\ StorageEnd
    /\ op' = [op EXCEPT !.ret = "loop",
                        !.step = IF mode = SD_INIT_FAIL THEN "failed" ELSE "sdmmc_init"]
    /\ UNCHANGED <<env, mode, mounted, moved, result>>

ReinitAgain ==
    /\ op.step = "reinit" /\ ~op.first
    /\ StorageEnd
    /\ mode' = mode - 1
    /\ op' = [op EXCEPT !.ret = "once",
                        !.step = IF mode' = SD_INIT_FAIL THEN "failed" ELSE "sdmmc_init"]
    /\ UNCHANGED <<env, mounted, moved, result>>

\* _sd_deinit, before the launch or the reboot: a card that is not mounted is left as it is.
Deinit ==
    /\ op.call = "idle" /\ result # "gone"
    /\ mode' = IF mode = SD_INIT_FAIL THEN SD_UHS_SDR82 ELSE mode
    /\ IF mounted THEN StorageEnd ELSE UNCHANGED <<h, card, store, faults, lapses>>
    /\ mounted' = FALSE
    /\ result' = "gone"
    /\ UNCHANGED <<env, op, moved>>

(***************************************************************************)
(* The user and the wear of the card.                                      *)
(***************************************************************************)
Remove ==
    /\ cap.kind = "sd" /\ card.ins /\ swaps < MaxSwaps /\ swaps' = swaps + 1
    /\ card' = [Out EXCEPT !.weak = card.weak]
    /\ UNCHANGED <<h, cap, b01, store, mode, mounted, op, moved, calls, faults, result, lapses>>
Insert ==
    /\ ~card.ins
    /\ card' = [card EXCEPT !.ins = TRUE, !.st = IF h.vdd THEN "idle" ELSE "off"]
    /\ UNCHANGED <<h, env, store, mode, mounted, op, moved, faults, result, lapses>>
Weaken ==
    /\ ~card.weak /\ card.ins /\ card' = [card EXCEPT !.weak = TRUE]
    /\ UNCHANGED <<h, env, store, mode, mounted, op, moved, faults, result, lapses>>

Init ==
    /\ cap \in Cards /\ b01 \in B01s
    /\ \E others \in {{}, Ids \ {cap.kind}} : h = Cold(cap.kind, others)
    /\ card = [Out EXCEPT !.ins = TRUE, !.sig = IF cap.kind = "emmc" THEN "1.8" ELSE "3.3"]
    /\ store = [init |-> FALSE, low |-> FALSE, s18 |-> FALSE, sdsc |-> FALSE]
    /\ mode = SD_UHS_SDR82 /\ mounted = FALSE
    /\ op = [call |-> "off", step |-> "idle", ret |-> "loop", first |-> TRUE, tries |-> 0, left |-> 0]
    /\ moved = {} /\ calls = 0 /\ faults = 0 /\ swaps = 0 /\ result = "none" /\ lapses = {}

Program ==
    \/ Mount \/ CommonStep \/ SdStep \/ MmcStep \/ Ready \/ InitLoop \/ InitGivesUp \/ InitOnceFails
    \/ FatMount \/ Transfer \/ TransferRequest \/ RequestFails \/ ReinitFirst \/ ReinitAgain
    \/ Deinit

(***************************************************************************)
(* Properties.                                                             *)
(***************************************************************************)
TypeOK ==
    /\ h.ldo \in Levels /\ h.io \in Levels /\ h.src \in Nat
    /\ cap \in Cards /\ b01 \in B01s
    /\ store \in [init : BOOLEAN, low : BOOLEAN, s18 : BOOLEAN, sdsc : BOOLEAN]
    /\ mode \in SD_INIT_FAIL .. SD_UHS_SDR82
    /\ op.step \in Steps \cup {"idle", "failed", "f_mount", "try", "reinit"}
    /\ moved \subseteq 1 .. Sectors

\* A storage declared usable is one the two sides agree about: state, level,
\* calibration, width, timing and tap (sdmmc.c:1326-1447), until it is told to
\* idle and that fails.
ReadyAgrees ==
    store.init /\ swaps = 0 /\ "end" \notin lapses =>
        /\ card.st = "tran" /\ h.ldo = card.sig /\ h.io = card.sig
        /\ h.cal = card.sig /\ h.ofs = card.sig
        /\ DataAgrees /\ TapAgrees /\ CardRate(h) <= Limit(card.mode)

\* Once the switch is over, 3.3 V never reaches a card that signals with 1.8 V,
\* as long as each power cycle happened and no answer to the switch was lost.
VoltageSafe ==
    h.id = "sd" /\ card.sig = "1.8" /\ h.ldo = "3.3" =>
        lapses # {} \/ op.step \in {"lv_clock", "lv_rail"}

\* A transfer that reports success has moved every sector, restarts included.
TransferComplete ==
    [][op.call = "rw" /\ op'.call = "idle" /\ result' = "ok" => moved' = 1 .. Sectors]_vars

\* Within a transfer the speed level only falls, unless the card is gone.
SlowerOnly ==
    [][op.call = "rw" /\ op'.call = "rw" => mode' <= mode]_vars

\* What holds of every card: high capacity and UHS came with version 2, and a UHS
\* card is not a 1.0 one and has one of the modes at least.
Consistent ==
    /\ cap.hc => cap.v2
    /\ cap.uhs => /\ cap.kind = "sd" /\ cap.v2 /\ ~cap.v10
                  /\ cap.modes \cap {"SDR12", "SDR25", "SDR50", "SDR104"} # {}
\* It offers UHS and cannot do it: too narrow, or it draws too much.
NeedsSlow == cap.uhs /\ (~cap.wide \/ cap.hungry)

\* A card that is left in and answers is mounted, at the level it can do.
HealthyCardMounts ==
    faults = 0 /\ swaps = 0 /\ Consistent =>
        /\ ~(op.call = "idle" /\ ~mounted /\ result = "failed")
        /\ mounted /\ op.call = "idle" /\ calls = 0 =>
              mode = IF NeedsSlow THEN SD_4BIT_HS25 ELSE SD_UHS_SDR82

\* PLLC4 runs exactly as long as a controller that asked for it is enabled.
Pllc4Counted == h.pllOn <=> h.pll # {}

\* The slot gets power only after it has been without for long enough.
PowerOnDischarged == [][~h.vdd /\ h'.vdd => h'.dis]_vars

\* After the session the slot is off and its controller stopped, if the card
\* was mounted until then and each power cycle happened.
PoweredDownAtEnd ==
    [][h.id = "sd" /\ mounted /\ result' = "gone" /\ lapses' = {} =>
          ~h'.vdd /\ h'.ldo = "off" /\ ~h'.on /\ ~h'.ck /\ h'.io = "off"]_vars

\* Every mount and every transfer returns, whatever the card does.
CallReturns == op.call \in {"mount", "rw"} ~> op.call = "idle"

Next == Program \/ Remove \/ Insert \/ Weaken
Spec == Init /\ [][Next]_vars
FairSpec == Spec /\ WF_vars(Program)
=============================================================================
