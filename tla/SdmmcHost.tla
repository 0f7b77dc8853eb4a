------------------------------ MODULE SdmmcHost ------------------------------
(***************************************************************************)
(* The SDMMC controller of the SoC as sdmmc_driver.c drives it, with its   *)
(* clock source (clock.c) and the supply of the SD slot.  The operators    *)
(* map a controller record h to the record after the call.                 *)
(*                                                                         *)
(*   rails      vdd  the slot's power pin        ldo  the I/O regulator    *)
(*              det  what the pads are told       io  pwrcon               *)
(*              dis  the slot has been unpowered for 239 ms                *)
(*   registers  width, hispd, uhs, v180, ofs and cal (the level the pads   *)
(*              are calibrated for), ck (CLOCK_CARD_EN), div, trim,        *)
(*              tap (which tap value the receiver uses)                    *)
(*   driver     en (card_clock_enabled), save (powersave_enabled),         *)
(*              stopped (clock_stopped), b01 (t210b01), saved              *)
(*   clock.c    src (the table's clock), on, rst, pll (users of PLLC4),    *)
(*              pllOn                                                      *)
(***************************************************************************)
EXTENDS Naturals

Ids == {"sd", "emmc"}
Levels == {"off", "1.8", "3.3"}

\* What a controller looks like before the first sdmmc_init; others are the
\* controllers that already use PLLC4.
Cold(id, others) ==
    [id |-> id, vdd |-> id = "emmc", ldo |-> IF id = "emmc" THEN "1.8" ELSE "off",
     det |-> "3.3", io |-> "off", dis |-> TRUE,
     width |-> 1, hispd |-> FALSE, uhs |-> "none", v180 |-> FALSE, ofs |-> "off", cal |-> "off",
     ck |-> FALSE, div |-> 1, tap |-> "static", trim |-> FALSE,
     en |-> FALSE, save |-> FALSE, stopped |-> TRUE, b01 |-> FALSE, saved |-> FALSE,
     src |-> 0, on |-> FALSE, rst |-> TRUE, pll |-> others, pllOn |-> others # {}]

(***************************************************************************)
(* clock.c: clocks in kHz.                                                 *)
(***************************************************************************)
\* The clock a timing asks for and the divisor of the card's clock.
CardClockDiv(t) ==
    CASE t = "MMC_ID"   -> <<26000, 66>>
      [] t = "SD_ID"    -> <<25000, 64>>
      [] t = "MMC_LS26" -> <<26000, 1>>
      [] t = "MMC_HS52" -> <<52000, 1>>
      [] t \in {"MMC_HS200", "MMC_HS400", "SDR104"} -> <<200000, 1>>
      [] t \in {"SD_DS12", "SDR12"}  -> <<25000, 1>>
      [] t \in {"SD_HS25", "SDR25"}  -> <<50000, 1>>
      [] t = "SDR50"    -> <<100000, 1>>
      [] t = "SDR82"    -> <<164000, 1>>
Timings == {"MMC_ID", "SD_ID", "MMC_LS26", "MMC_HS52", "MMC_HS200", "MMC_HS400", "SDR104",
            "SD_DS12", "SDR12", "SD_HS25", "SDR25", "SDR50", "SDR82"}

\* The clock the source's divisor gives for the clock asked for.
RealClock(v) ==
    CASE v = 26000  -> 25500
      [] v = 50000  -> 48000
      [] v = 52000  -> 51000
      [] v = 100000 -> 99840
      [] v = 164000 -> 163200
      [] v = 200000 -> 199680
      [] OTHER      -> 24728
FromPllc4 == {100000, 200000}

ConfigHost(h, v) ==
    [h EXCEPT !.src = v,
              !.pll = IF v \in FromPllc4 THEN @ \cup {h.id} ELSE @,
              !.pllOn = @ \/ v \in FromPllc4]
ConfigSource(h, v) == IF h.src = v THEN h ELSE ConfigHost(h, v)
ClockEnable(h, v) == [ConfigHost(h, v) EXCEPT !.on = TRUE, !.rst = FALSE]
ClockDisableAll(h) ==    \* mutant: the PLL stops with its first user
    [h EXCEPT !.on = FALSE, !.rst = TRUE, !.pll = @ \ {h.id}, !.pllOn = FALSE]
ClockDisable(h) ==
    LET users == h.pll \ {h.id}
    IN [h EXCEPT !.on = FALSE, !.rst = TRUE, !.pll = users, !.pllOn = @ /\ users # {}]

\* The frequency at the card, when its clock runs.
CardRate(h) == RealClock(h.src) \div h.div

(***************************************************************************)
(* sdmmc_driver.c                                                          *)
(***************************************************************************)
\* Calibrates the pads, by the hardware or with the stored values; the card's
\* clock is off meanwhile and as before afterwards.
Autocal(h, power) == [h EXCEPT !.cal = power]
SetBusWidth(h, w) == [h EXCEPT !.width = w]
SetIoPower(h, power) == [h EXCEPT !.io = power]
SaveTapValue(h) == [h EXCEPT !.saved = TRUE]
Tuned(h) == [h EXCEPT !.tap = "tuned"]

\* A tap value found by tuning survives only where it has been saved.
ConfigTap(h, t) ==
    [h EXCEPT !.tap = IF t # "MMC_HS400" THEN "static" ELSE IF h.saved THEN "saved" ELSE @]

ModeBits(h, t) ==
    CASE t \in {"MMC_ID", "MMC_LS26", "SD_ID", "SD_DS12"} -> [h EXCEPT !.hispd = FALSE, !.v180 = FALSE]
      [] t \in {"MMC_HS52", "SD_HS25"} -> [h EXCEPT !.hispd = TRUE, !.v180 = FALSE]
      [] t = "MMC_HS400" -> [h EXCEPT !.uhs = "HS400", !.v180 = TRUE]
      [] t \in {"SDR12", "SDR25"} -> [h EXCEPT !.uhs = t, !.v180 = TRUE]
      [] OTHER -> [h EXCEPT !.uhs = "SDR104", !.v180 = TRUE]

SetupClock(h, t) ==
    LET want == CardClockDiv(t)
    IN [ConfigSource(ModeBits(ConfigTap(h, t), t), want[1]) EXCEPT !.div = want[2]]

CardClockPowersave(h, on) ==
    [h EXCEPT !.save = on, !.ck = IF on THEN FALSE ELSE @ \/ h.en]

\* The slot gets power and its pads their reset state for 3.3 V.
ConfigSdmmc1(h) == [h EXCEPT !.vdd = TRUE, !.ldo = "3.3", !.det = "3.3"]
\* The eMMC's rails are on from the start.
ConfigEmmc(h) == [h EXCEPT !.vdd = TRUE, !.ldo = "1.8"]
\* All registers of the controller go back to what they are after reset.
ResetAll(h) ==
    [h EXCEPT !.width = 1, !.hispd = FALSE, !.uhs = "none", !.v180 = FALSE,
              !.io = "off", !.ck = FALSE, !.tap = "static"]
AutocalConfigOffset(h, power) == [h EXCEPT !.ofs = power]

\* sdmmc_init up to the internal clock: the driver's record is cleared, the slot
\* powered, the controller clocked, reset, trimmed and calibrated.  The trim is
\* chosen by what the record said before it was cleared.
PowerOn(h, b01, power, t) ==
    LET clean == [h EXCEPT !.en = FALSE, !.save = FALSE, !.saved = FALSE, !.b01 = b01,
                           !.trim = h.b01, !.stopped = FALSE]
        powered == IF h.id = "sd" THEN ConfigSdmmc1(clean) ELSE ConfigEmmc(clean)
        reset == ResetAll(ClockEnable(powered, CardClockDiv(t)[1]))
    IN Autocal(AutocalConfigOffset(reset, power), power)

\* The card is not in the slot: only the record has been cleared.
NoCard(h, b01) == [h EXCEPT !.en = FALSE, !.save = FALSE, !.saved = FALSE, !.b01 = b01, !.stopped = TRUE]

\* The rest of sdmmc_init.
Start(h, power, w, t) ==
    [CardClockPowersave(SetupClock(SetIoPower(SetBusWidth(h, w), power), t), FALSE)
       EXCEPT !.en = TRUE, !.ck = TRUE]

LowerRailUncalibrated(h) ==    \* mutant: the calibration keeps the offsets for 3.3 V
    SetIoPower(Autocal([h EXCEPT !.ldo = "1.8", !.det = "1.8"], "1.8"), "1.8")
\* sdmmc_enable_low_voltage: the rail, the pads and pwrcon change together.
LowerRail(h) ==
    SetIoPower(Autocal(AutocalConfigOffset([h EXCEPT !.ldo = "1.8", !.det = "1.8"], "1.8"), "1.8"), "1.8")

\* SDMMC1 calibrates again before a command when the clock is being saved.
Recalibrate(h) == IF h.id = "sd" /\ ~h.b01 /\ h.save THEN Autocal(h, h.io) ELSE h

Sdmmc1DisableRail(h) == [h EXCEPT !.ldo = "off", !.det = "3.3"]    \* mutant: the pin stays on
Sdmmc1DisablePower(h) ==
    [h EXCEPT !.ldo = "off", !.vdd = FALSE, !.det = "3.3", !.dis = FALSE]

SdmmcEnd(h) ==
    IF h.stopped THEN h
    ELSE LET off == [h EXCEPT !.en = FALSE, !.ck = FALSE, !.io = "off", !.stopped = TRUE]
         IN ClockDisable(IF h.id = "sd" THEN Sdmmc1DisablePower(off) ELSE off)

InitWaitNot(h) == h    \* mutant: no wait
\* sdmmc_storage_init_wait_sd
InitWait(h) == [h EXCEPT !.dis = TRUE]
=============================================================================
