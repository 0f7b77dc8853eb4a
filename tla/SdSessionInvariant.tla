------------------------- MODULE SdSessionInvariant -------------------------
(***************************************************************************)
(* Why the properties of SdSession hold: what is true of the controller    *)
(* before each step of an initialisation (HostInv), what the card has been *)
(* told by then (CardInv, ToldInv), and how the program's place in a mount *)
(* or a transfer bounds the level and the sectors (PlaceInv).  The layers  *)
(* are inductive together; SdSessionProofs has the proofs.                 *)
(***************************************************************************)
EXTENDS SdSession

(***************************************************************************)
(* The shape of the state.                                                 *)
(***************************************************************************)
Widths == {1, 4, 8}
UhsBits == {"none", "SDR12", "SDR25", "SDR104", "HS400"}
Divisors == {1, 64, 66}
Taps == {"static", "tuned", "saved"}
Clocks == {CardClockDiv(t)[1] : t \in Timings} \cup {0}
HostShape ==
    [id : Ids, vdd : BOOLEAN, ldo : Levels, det : Levels, io : Levels, dis : BOOLEAN,
     width : Widths, hispd : BOOLEAN, uhs : UhsBits,
     v180 : BOOLEAN, ofs : Levels, cal : Levels, ck : BOOLEAN, div : Divisors,
     tap : Taps, trim : BOOLEAN, en : BOOLEAN, save : BOOLEAN,
     stopped : BOOLEAN, b01 : BOOLEAN, saved : BOOLEAN, src : Clocks,
     on : BOOLEAN, rst : BOOLEAN, pll : SUBSET Ids, pllOn : BOOLEAN]
CardStates ==
    [st : {"off", "idle", "ready", "ident", "stby", "tran"}, sig : {"1.8", "3.3"},
     width : Widths, mode : Modes, ins : BOOLEAN, weak : BOOLEAN]
CallNames == {"off", "mount", "rw", "idle"}
StepNames == Steps \cup {"idle", "failed", "f_mount", "try", "reinit"}
Places ==
    [call : CallNames, step : StepNames, ret : {"loop", "once"}, first : BOOLEAN, tries : Nat, left : Nat]

ShapeInv ==
    /\ h \in HostShape /\ cap \in Cards /\ card \in CardStates /\ b01 \in B01s
    /\ store \in [init : BOOLEAN, low : BOOLEAN, s18 : BOOLEAN, sdsc : BOOLEAN]
    /\ op \in Places /\ h.id = cap.kind
    /\ mounted \in BOOLEAN /\ mode \in SD_INIT_FAIL .. SD_UHS_SDR82
    /\ swaps \in Nat /\ faults \in Nat /\ calls \in Nat

(***************************************************************************)
(* Where the program is.                                                   *)
(***************************************************************************)
PlaceInv ==
    /\ op.step = "idle" <=> op.call \in {"off", "idle"}
    /\ op.step = "f_mount" => op.call = "mount"
    /\ op.step \in {"try", "reinit"} => op.call = "rw"
    /\ op.step = "try" => /\ op.left \in 1 .. Sectors
                          /\ moved = 1 .. Sectors - op.left
    /\ moved \subseteq 1 .. Sectors
    /\ op.step \in Steps => mode # SD_INIT_FAIL
    /\ op.step \in {"try", "reinit"} /\ ~op.first => mode # SD_INIT_FAIL
    /\ result = "gone" => ~mounted /\ op.call = "idle"
    /\ op.call = "off" => ~mounted /\ ~store.init
    /\ cap.kind = "emmc" => op.step # "reinit" /\ mode = SD_UHS_SDR82
    /\ op.call = "rw" /\ op.step \notin {"try", "reinit"} => (op.first <=> op.ret = "loop")

(***************************************************************************)
(* The controller.                                                         *)
(***************************************************************************)
\* As SetupClock leaves it for a timing, the tap aside.
TimedFor(g, t) ==
    /\ g.src = CardClockDiv(t)[1] /\ g.div = CardClockDiv(t)[2]
    /\ t \in {"MMC_ID", "MMC_LS26", "SD_ID", "SD_DS12"} => ~g.hispd /\ ~g.v180
    /\ t \in {"MMC_HS52", "SD_HS25"} => g.hispd /\ ~g.v180
    /\ t \in {"SDR12", "SDR25"} => g.uhs = t /\ g.v180
    /\ t = "MMC_HS400" => g.uhs = "HS400" /\ g.v180
    /\ t \in {"SDR50", "SDR82", "SDR104", "MMC_HS200"} => g.uhs = "SDR104" /\ g.v180
Level(g, l) == g.ldo = l /\ g.io = l /\ g.cal = l /\ g.ofs = l

\* A slot without power has nothing on; a controller that runs has not been stopped.
PowerInv ==
    /\ h.id = "sd" /\ ~h.vdd => h.ldo = "off" /\ h.io = "off" /\ ~h.on /\ ~h.ck /\ card.sig = "3.3"
    /\ h.en => ~h.stopped
    /\ (h.pllOn <=> h.pll # {})
    /\ h.id = "emmc" => h.vdd /\ h.ldo = "1.8"

SdOnly == {"send_if_cond", "switch_voltage", "lv_clock", "lv_rail", "lv_check", "setup_ds12",
           "clr_card_detect", "get_scr", "set_bus_width", "switch_get", "current_limit",
           "switch_check", "switch_set", "setup_uhs", "setup_hs25", "get_ssr"}
MmcOnly == {"setup_ls26", "switch_width8", "get_ext_csd", "switch_hs200", "setup_hs200",
            "save_tap", "switch_hs52", "setup_hs52", "check_status2", "switch_ddr8",
            "switch_hs400", "setup_hs400", "check_status3"}
Identifying == {"go_idle", "send_if_cond", "get_op_cond", "switch_voltage", "lv_clock"}
Switching == {"switch_voltage", "lv_clock", "lv_rail", "lv_check"}
Asking == {"get_cid", "get_rca", "get_csd", "setup_ds12"}
Selected == {"set_blocklen", "clr_card_detect", "get_scr", "set_bus_width", "switch_get",
             "current_limit", "switch_check", "switch_set"}

\* SD, by step: 3.3 V and identification timing up to the switch, then the pair of
\* level and timing the record says (low), then what the card has been switched to.
SdHostAt(s) ==
    /\ s = "start" => h.ldo = "3.3" /\ h.cal = "3.3" /\ h.ofs = "3.3" /\ ~h.stopped /\ ~store.low
    /\ s \in Identifying => Level(h, "3.3") /\ TimedFor(h, "SD_ID") /\ ~store.low /\ h.width = 1
    /\ s = "lv_rail" => h.ldo = "3.3" /\ TimedFor(h, "SDR12") /\ ~store.low /\ h.width = 1
    /\ s = "lv_check" => Level(h, "1.8") /\ TimedFor(h, "SDR12") /\ ~store.low /\ h.width = 1
    /\ s \in Switching => store.s18
    /\ s \in Asking =>
          /\ h.width = 1
          /\ IF store.low THEN Level(h, "1.8") /\ TimedFor(h, "SDR12") ELSE Level(h, "3.3") /\ TimedFor(h, "SD_ID")
    /\ s \in Selected \cup {"select_card", "setup_uhs"} =>
          IF store.low THEN Level(h, "1.8") /\ TimedFor(h, "SDR12") ELSE Level(h, "3.3") /\ TimedFor(h, "SD_DS12")
    /\ s = "setup_ds12" => ~store.low
    /\ s = "select_card" => h.width = 1
    /\ s \in {"switch_get", "current_limit"} => store.low \/ ~cap.v10
    /\ s \in {"switch_check", "switch_set"} => store.low \/ (~cap.v10 /\ cap.hs)
    /\ s = "switch_set" /\ store.low => UhsMode \in cap.modes
    /\ s \in {"setup_uhs", "tuning"} => store.low
    /\ s = "setup_hs25" => ~store.low /\ Level(h, "3.3")
    /\ s = "tuning" => Level(h, "1.8") /\ TimedFor(h, UhsTiming)
    /\ s = "check_status" =>
          IF store.low THEN Level(h, "1.8") /\ TimedFor(h, UhsTiming)
          ELSE Level(h, "3.3") /\ TimedFor(h, "SD_DS12") /\ ~cap.v10 /\ cap.hs
    /\ s \in {"get_ssr", "ready"} => Level(h, h.ldo) /\ h.ldo # "off"
MmcHostAt(s) ==
    /\ s = "start" => h.cal = "1.8" /\ h.ofs = "1.8" /\ ~h.stopped
    /\ s \in Steps \ {"sdmmc_init", "start"} => Level(h, "1.8")
    /\ s \in {"go_idle", "get_op_cond", "get_cid", "get_rca", "get_csd"} => TimedFor(h, "MMC_ID") /\ h.width = 1
    /\ s \in {"setup_ls26", "select_card"} => ~h.hispd /\ ~h.v180 /\ h.width = 1
    /\ s \in {"select_card", "set_blocklen", "switch_width8", "get_ext_csd", "switch_hs200"} =>
          TimedFor(h, "MMC_LS26")
    /\ s \in {"tuning", "check_status", "save_tap"} => TimedFor(h, "MMC_HS200")
    /\ s \in {"check_status", "save_tap"} => h.tap = "tuned"
    /\ s = "save_tap" => Hs400
    /\ s \in {"switch_hs52", "setup_hs52", "check_status2", "switch_ddr8", "switch_hs400",
              "setup_hs400", "check_status3"} => h.saved /\ Hs400
    /\ s = "check_status3" => TimedFor(h, "MMC_HS400") /\ h.tap = "saved"
HostInv ==
    /\ op.step \notin IF cap.kind = "sd" THEN MmcOnly ELSE SdOnly
    /\ IF cap.kind = "sd" THEN SdHostAt(op.step) ELSE MmcHostAt(op.step)

(***************************************************************************)
(* The card.                                                               *)
(***************************************************************************)
\* Before it is selected a card is in the state it has after a reset; an SD card
\* that has been switched to 1.8 V is in SDR12.
CardInv ==
    /\ card.st # "tran" => card.width = 1
    /\ card.st \in {"off", "idle"} => card.mode = "DS"
    /\ card.st \in {"ready", "ident", "stby"} =>
          card.mode = IF cap.kind = "sd" /\ card.sig = "1.8" THEN "SDR12" ELSE "DS"
    /\ cap.kind = "emmc" => card.sig = "1.8" /\ card.ins
    /\ swaps = 0 => card.ins
    /\ ~card.ins => card.sig = "3.3" /\ card.st = "off"

\* What a card that has been selected was told: the host's width and level, and a mode.
Told(m) == card.st = "tran" /\ card.sig = h.ldo /\ card.width = h.width /\ card.mode = m

Agreed ==
    /\ card.st = "tran" /\ h.ldo = card.sig /\ h.io = card.sig
    /\ h.cal = card.sig /\ h.ofs = card.sig
    /\ DataAgrees /\ TapAgrees /\ CardRate(h) <= Limit(card.mode)

SdToldAt(s) ==
    /\ s \in Selected => Told(IF store.low THEN "SDR12" ELSE "DS")
    /\ s \in {"setup_uhs", "tuning"} => Told(UhsMode)
    /\ s = "check_status" => /\ Told(IF store.low THEN UhsMode ELSE "HS")
                             /\ store.low => TapAgrees
    /\ s = "setup_hs25" => Told("HS")
    /\ s \in {"get_ssr", "ready"} => Agreed
MmcToldAt(s) ==
    /\ s \in {"set_blocklen", "switch_width8", "get_ext_csd", "switch_hs200"} => Told("DS")
    /\ s \in {"setup_hs200", "tuning", "check_status", "save_tap", "switch_hs52"} => Told("HS200")
    /\ s \in {"setup_hs52", "check_status2", "switch_ddr8", "switch_hs400"} => Told("HS52")
    /\ s \in {"setup_hs400", "check_status3"} => Told("HS400")
    /\ s = "ready" => Agreed
ToldInv ==
    /\ swaps = 0 => IF cap.kind = "sd" THEN SdToldAt(op.step) ELSE MmcToldAt(op.step)
    /\ op.step \in Steps \ {"sdmmc_init"} => ~store.init
    /\ store.init /\ swaps = 0 /\ "end" \notin lapses => Agreed

\* A card at 1.8 V and a rail at 3.3 V meet only between the answer and the rail, or
\* after a lapse; a power cycle that did not lapse has left the slot without power.
LapseInv ==
    /\ cap.kind = "sd" /\ card.sig = "1.8" /\ lapses = {} =>
          h.ldo = "1.8" \/ op.step \in {"lv_clock", "lv_rail"}
    /\ cap.kind = "sd" /\ lapses = {} /\ (op.step = "sdmmc_init" \/ op.call = "off") => card.sig = "3.3"

\* The layers together (the retry levels of nx_sd.c:75 stay above SD_INIT_FAIL).
SessionInv == ShapeInv /\ PlaceInv /\ PowerInv /\ HostInv /\ CardInv /\ ToldInv /\ LapseInv

(***************************************************************************)
(* A mount of a card that is left in and answers: every command finds the  *)
(* card where the driver takes it to be, and the only one that can fail is *)
(* one that asks for a speed the card does not have.                       *)
(***************************************************************************)
Fast == mode = SD_UHS_SDR82 /\ cap.uhs
SpeedSet == {"switch_set", "setup_uhs", "tuning", "check_status", "setup_hs25", "get_ssr", "ready"}
SdReadyFor(s) ==
    /\ s \in {"start", "go_idle", "send_if_cond", "get_op_cond"} =>
          card.st = "idle" /\ card.sig = "3.3" /\ (store.sdsc => ~cap.v2)
    /\ s \in Switching => card.st = "ready" /\ Fast /\ card.sig = IF s = "switch_voltage" THEN "3.3" ELSE "1.8"
    /\ s \in Asking \cup {"select_card"} => card.sig = h.ldo
    /\ s = "get_cid" => card.st = "ready"
    /\ s = "get_rca" => card.st = "ident"
    /\ s \in {"get_csd", "setup_ds12", "select_card"} => card.st = "stby"
    /\ s \in Asking \cup {"select_card"} \cup Selected \cup SpeedSet => (store.low <=> Fast)
    /\ s \in Selected /\ h.width = 4 => cap.wide
    /\ s = "set_bus_width" => cap.wide
    /\ s = "switch_get" /\ Fast /\ cap.wide => h.width = 4
    /\ s \in {"current_limit", "switch_check"} /\ Fast => cap.wide
    /\ s \in SpeedSet /\ Fast => ~NeedsSlow
MmcReadyFor(s) ==
    /\ s \in {"start", "go_idle", "get_op_cond"} => card.st = "idle"
    /\ s = "get_cid" => card.st = "ready"
    /\ s = "get_rca" => card.st = "ident"
    /\ s \in {"get_csd", "setup_ls26", "select_card"} => card.st = "stby"
    /\ s = "switch_hs52" => TimedFor(h, "MMC_HS200")
    /\ s \in {"check_status2", "switch_ddr8", "switch_hs400"} => TimedFor(h, "MMC_HS52")

MountInv ==
    /\ mode = SD_UHS_SDR82 \/ (mode = SD_4BIT_HS25 /\ NeedsSlow)
    /\ op.ret = "loop"
    /\ op.step = "sdmmc_init" => card.st = "off" /\ card.sig = IF cap.kind = "sd" THEN "3.3" ELSE "1.8"
    /\ op.step # "sdmmc_init" => h.on /\ ~h.rst
    /\ op.step \notin {"sdmmc_init", "start"} => h.en
    /\ op.step = "failed" => mode = SD_UHS_SDR82 /\ NeedsSlow
    /\ op.step = "f_mount" => Agreed /\ (Fast => ~NeedsSlow)
    /\ op.step \in Steps => IF cap.kind = "sd" THEN SdReadyFor(op.step) ELSE MmcReadyFor(op.step)

Healthy == faults = 0 /\ swaps = 0 /\ Consistent
HealthyInv ==
    Healthy =>
        /\ op.call = "off" =>
              /\ mode = SD_UHS_SDR82 /\ result # "failed" /\ card.st = "off"
              /\ card.sig = IF cap.kind = "sd" THEN "3.3" ELSE "1.8"
        /\ op.call = "mount" => MountInv
        /\ op.call = "rw" => mounted /\ calls > 0
        /\ op.call = "idle" => mounted \/ result = "gone"
        /\ op.call = "idle" /\ mounted /\ calls = 0 =>
              mode = IF NeedsSlow THEN SD_4BIT_HS25 ELSE SD_UHS_SDR82

(***************************************************************************)
(* The session as a service.                                               *)
(***************************************************************************)
Stage ==
    CASE op.call = "off" -> "off"
      [] op.call = "idle" -> "idle"
      [] op.call = "mount" -> "mounting"
      [] op.call = "rw" -> IF op.step \in {"try", "reinit"} THEN "moving" ELSE "recovering"
Service == INSTANCE CardService WITH
    Top <- SD_UHS_SDR82, Sectors <- Sectors, stage <- Stage, level <- mode,
    mounted <- mounted, moved <- moved, fresh <- op.first, result <- result

\* Between the program and its storage the session is a service: whatever the
\* card does, a transfer moves its sectors in order or starts over, its first new
\* attempt runs at the same speed, each later one at the next lower, and it fails
\* only when no level, no card or no further attempt is left (nx_sd.c:71-125,
\* sdmmc.c:238-300).
KeepsService == Service!ServiceSpec
=============================================================================
