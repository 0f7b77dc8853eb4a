-------------------------------- MODULE Dram --------------------------------
(***************************************************************************)
(* bdk/mem/sdram.c: the parameters chosen by the DRAM id of the fuses, and *)
(* the sequence of writes, waits and commands that starts the memory.  A   *)
(* group of registers that serve one purpose is one name; what the two     *)
(* memory controllers only stage takes effect with their next trigger.     *)
(***************************************************************************)
EXTENDS Naturals, Sequences

CONSTANT Memories    \* kinds of memory; the tables of the source name one, "lpddr4"

VARIABLE dram    \* the chip, its parameters, the steps to do and what the steps
                 \* done have made of clock, controllers and memory

Chips == {"t210", "t210b01"}
FuseIds == 0..31    \* (odm4 & 0xF8) >> 3
fuse_read_dramid(chip, raw) ==
    IF chip = "t210" THEN (IF raw > 6 THEN 0 ELSE raw)
    ELSE (IF raw > 28 THEN 8 ELSE raw)

\* The gigabytes an id stands for (enum sdram_ids_erista, sdram_ids_mariko).
Capacity(chip, id) ==
    IF chip = "t210" THEN (IF id = 4 THEN 6 ELSE 4)
    ELSE IF id \in {9, 13, 18, 21, 23, 28} THEN 8 ELSE 4

\* The ranks that commands go to, that have ZQ commands, and that addresses reach.
sdram_config_t210 == [ranks |-> {0, 1}, zcal |-> {0, 1}, geometry |-> {0, 1}, size |-> 4]
sdram_vendor_patches_t210(id) == IF id = 4 THEN [sdram_config_t210 EXCEPT !.size = 6] ELSE sdram_config_t210
sdram_config_t210b01 == [ranks |-> {0}, zcal |-> {0}, geometry |-> {0}, size |-> 4]
dram_encoding_t210b01(id) ==
    CASE id \in {9, 13} -> "8GB K4UBE3D4AM" [] id \in {18, 23, 28} -> "8GB K4UBE3D4AA"
      [] id = 21 -> "8GB 1Y_Y"              [] id \in {8, 10, 12, 14} \cup 0..2 \cup {4, 22} -> "no patch"
      [] OTHER -> "4GB"
sdram_vendor_patches_t210b01(code) ==
    IF code \in {"8GB K4UBE3D4AM", "8GB K4UBE3D4AA", "8GB 1Y_Y"}
    THEN [ranks |-> {0, 1}, zcal |-> {0, 1}, geometry |-> {0, 1}, size |-> 8]
    ELSE sdram_config_t210b01
_sdram_get_params_t210(raw) == sdram_vendor_patches_t210(fuse_read_dramid("t210", raw))
sdram_get_params_t210b01(raw) ==
    sdram_vendor_patches_t210b01(dram_encoding_t210b01(fuse_read_dramid("t210b01", raw)))
-----------------------------------------------------------------------------
Do(do, what, us) == [do |-> do, what |-> what, us |-> us]
Write(gs) == <<Do("write", gs, 0)>>          \* takes effect at once
Stage(gs) == <<Do("stage", gs, 0)>>          \* EMC: with the next trigger
Trigger == <<Do("trigger", {}, 0)>>
McStage(gs) == <<Do("mc stage", gs, 0)>>
McTrigger == <<Do("mc trigger", {}, 0)>>
Delay(us) == <<Do("wait", {}, us)>>
Pin(p) == <<Do("pin", {p}, 0)>>
Send(c) == <<Do("send", {c}, 0)>>
Lock(gs) == <<Do("lock", gs, 0)>>
When(c, steps) == IF c THEN steps ELSE <<>>
-----------------------------------------------------------------------------
\* _sdram_config_t210
PowerDown_t210 == Write({"unused pins"}) \o Write({"vttgen power"}) \o Write({"bandgap power"}) \o Delay(1)
Clocks_t210 ==
    <<Do("pll", {"pllm"}, 300)>> \o Write({"emc source"}) \o Write({"emc clock"}) \o Write({"emc out of reset"})
PadPower_t210 == Stage({"vttgen"}) \o Trigger \o Delay(10) \o Write({"write mux"})
Mapping_t210 == Stage({"command mapping"}) \o Stage({"brick mapping"}) \o Stage({"bricks"})
Pads_t210 ==
    Stage({"sample delay"}) \o Stage({"swizzle", "pad control", "autocal control", "drive", "dll"})
        \o Stage({"bricks", "pad power", "ddll", "common pad"}) \o Trigger
MemoryController_t210 ==
    McStage({"video carveout"}) \o McStage({"geometry", "bank swizzle", "aperture"})
        \o McStage({"sec carveout", "mts carveout"}) \o McStage({"arbiter timing"}) \o McTrigger
Calibration_t210 == Stage({"ranks"}) \o Write({"autocal"}) \o Delay(1)
Timings_t210 ==
    Stage({"timing"}) \o Stage({"common pad"}) \o Write({"write mux"}) \o Write({"qrst"})
        \o Stage({"power down timing"}) \o Stage({"address swizzle"})
Release_t210(type) ==
    Write({"pipe bypass"}) \o Write({"command pins"}) \o Delay(1) \o Stage({"bricks"})
        \o When(type \in {"ddr3l", "lpddr4"}, Stage({"zq wait"})) \o Trigger \o Delay(1)
        \o Write({"cke released"}) \o Delay(1)
Pins(type) ==
    When(type \in {"ddr3l", "lpddr4"}, Pin("reset") \o Delay(200) \o Pin("ready"))
        \o When(type = "lpddr4", Delay(2000)) \o When(type = "ddr3l", Delay(500))
        \o Pin("cke") \o Delay(1)
        \o When(type # "lpddr4", Send("nop")) \o When(type = "lpddr2", Delay(200))
\* The mode registers of all selected ranks, then each rank's calibration.
ZqCalibration_first_only(p, type) ==    \* mutant: the second rank is never calibrated
    When(type = "lpddr4", Send("mode registers") \o Send("zq start 0") \o Delay(1) \o Send("zq latch 0"))
ZqCalibration(p, type) ==
    When(type = "lpddr4",
         Send("mode registers") \o Send("zq start 0") \o Delay(1) \o Send("zq latch 0")
             \o When(1 \in p.ranks, Send("zq start 1") \o Delay(1) \o Send("zq latch 1")))
Finish_t210 ==
    Write({"package"}) \o Stage({"zq interval"}) \o Trigger \o Send("refresh") \o Write({"refresh"})
        \o Stage({"power saving"}) \o Stage({"address swizzle lock"}) \o Trigger
        \o Write({"pipe clock gating"}) \o Write({"arbiter"})
        \o Lock({"video carveout", "sec carveout", "mts carveout"})
        \o Lock({"geometry", "ranks", "timing", "bank swizzle", "aperture"})

_sdram_init_t210(p, type) ==
    Write({"sd1 voltage"}) \o Write({"vddp"}) \o Delay(1) \o Write({"io power"}) \o Write({"cke held"})
        \o PowerDown_t210 \o Clocks_t210 \o PadPower_t210 \o Mapping_t210 \o Pads_t210
        \o MemoryController_t210 \o Calibration_t210 \o Timings_t210 \o Release_t210(type)
        \o Pins(type) \o ZqCalibration(p, type) \o Finish_t210
-----------------------------------------------------------------------------
\* _sdram_config_t210b01: the PLL runs already, and EMC has its clock.
Pads_t210b01 ==
    Write({"unused pins"}) \o Delay(1) \o Write({"vttgen power"}) \o Delay(1) \o Write({"bandgap power"}) \o Delay(1)
        \o Stage({"command mapping"}) \o Stage({"brick mapping"}) \o Stage({"vttgen", "bias"}) \o Trigger \o Delay(2)
        \o Write({"emc source"}) \o Write({"write mux"}) \o Stage({"sample delay"})
        \o Stage({"swizzle", "pad control", "autocal control"})
PerBit_t210b01 ==
    Stage({"drive", "dll"}) \o Stage({"bricks", "pad power"}) \o Stage({"per bit pads"})
        \o Stage({"ddll", "common pad"}) \o Trigger
Memory_t210b01 ==
    McStage({"video carveout"}) \o McStage({"geometry", "bank swizzle", "aperture"})
        \o McStage({"sec carveout", "mts carveout"}) \o McStage({"arbiter timing"}) \o McTrigger
        \o Stage({"ranks"}) \o Write({"autocal"}) \o Delay(1)
Timings_t210b01_no_bypass ==    \* mutant: commands go through the pipe
    Stage({"timing"}) \o Write({"write mux"}) \o Write({"qrst"}) \o Stage({"power down timing"})
        \o Stage({"address swizzle"})
Timings_t210b01 ==
    Stage({"timing"}) \o Write({"write mux"}) \o Write({"qrst"}) \o Stage({"power down timing"})
        \o Stage({"address swizzle"}) \o Write({"pipe bypass"})
Start_t210b01(p, type) ==
    Write({"command pins"}) \o Delay(1) \o Stage({"pad power"})
        \o When(type \in {"ddr3l", "lpddr4"}, Stage({"zq wait"})) \o Trigger \o Delay(1)
        \o Write({"cke released"}) \o Delay(1) \o Pins(type) \o ZqCalibration(p, type)
Finish_t210b01 ==
    Write({"package"}) \o Stage({"zq interval"}) \o Trigger \o Send("refresh") \o Write({"refresh"})
        \o Stage({"power saving"}) \o Stage({"address swizzle lock"}) \o Trigger
        \o Write({"pipe clock gating"}) \o Write({"untranslated region"})
        \o Lock({"video carveout", "sec carveout", "mts carveout"})
        \o Lock({"geometry", "ranks", "timing", "bank swizzle", "aperture"}) \o Write({"arbiter"})
_sdram_init_t210b01(p, type) ==
    Write({"vddp"}) \o Delay(1) \o Write({"io power"}) \o Write({"cke held"})
        \o Pads_t210b01 \o PerBit_t210b01 \o Memory_t210b01 \o Timings_t210b01
        \o Start_t210b01(p, type) \o Finish_t210b01
sdram_init(chip, raw, type) ==
    IF chip = "t210" THEN _sdram_init_t210(_sdram_get_params_t210(raw), type)
    ELSE _sdram_init_t210b01(sdram_get_params_t210b01(raw), type)
-----------------------------------------------------------------------------
\* What the hardware wants written before what, and before any command.
McGroups == {"video carveout", "geometry", "bank swizzle", "aperture", "sec carveout",
             "mts carveout", "arbiter timing"}
Before(g) ==
    CASE g = "brick mapping" -> {"command mapping"}
      [] g = "emc source" /\ dram.chip = "t210" -> {"pllm"}
      [] g = "vttgen" /\ dram.chip = "t210" -> {"emc source", "emc clock", "emc out of reset"}
      [] g = "vttgen" /\ dram.chip = "t210b01" -> {"vttgen power"}
      [] g = "pad control" -> {"vttgen", "sample delay"}
      [] g = "arbiter" -> {"refresh", "zq interval"}
      [] OTHER -> {"io power"}
ForCommands == {"pipe bypass", "command pins", "cke released", "autocal", "timing", "ranks",
                "command mapping", "brick mapping", "pad power", "geometry"}
Unpowered == {"sd1 voltage", "vddp", "io power"}

Lapse(c, what) == IF c THEN {} ELSE {what}
Early(gs) == Lapse(\A g \in gs \ Unpowered : Before(g) \subseteq dram.written, "early")
                \cup Lapse(gs \cap dram.locked = {}, "locked")
Rested ==
    CASE dram.type = "lpddr4" -> 2000
      [] dram.type = "ddr3l" -> 500
      [] OTHER -> 0

Did(s) ==
    CASE s.do = "write" ->
           [dram EXCEPT !.written = @ \cup s.what, !.active = @ \cup s.what, !.lapses = @ \cup Early(s.what)]
      [] s.do \in {"stage", "mc stage"} ->
           [dram EXCEPT !.written = @ \cup s.what, !.staged = @ \cup s.what, !.lapses = @ \cup Early(s.what)]
      [] s.do = "trigger" -> [dram EXCEPT !.active = @ \cup (dram.staged \ McGroups), !.staged = @ \cap McGroups]
      [] s.do = "mc trigger" -> [dram EXCEPT !.active = @ \cup (dram.staged \cap McGroups), !.staged = @ \ McGroups]
      [] s.do = "wait" -> [dram EXCEPT !.us = @ + s.us]
      [] s.do = "lock" -> [dram EXCEPT !.locked = @ \cup s.what]
      [] s.do = "pin" ->
           [dram EXCEPT !.pin = s.what, !.us = 0,
                        !.lapses = @ \cup Lapse(s.what = {"ready"} => dram.us >= 200, "reset too short")
                                     \cup Lapse(s.what = {"cke"} => dram.us >= Rested, "cke too early")]
      [] s.do = "send" ->
           [dram EXCEPT !.sent = @ \cup s.what,
                        !.lapses = @ \cup Lapse(ForCommands \subseteq dram.active /\ dram.pin = {"cke"}, "not ready")]
      [] OTHER -> dram
Calibrations(r) == IF r = 0 THEN {"zq start 0", "zq latch 0"} ELSE {"zq start 1", "zq latch 1"}
Gone(d) == [d EXCEPT !.todo = Tail(@)]

DramStep ==
    /\ dram.todo # <<>> /\ Head(dram.todo).do # "pll"
    /\ \E s \in {Head(dram.todo)} : dram' = Gone(Did(s))
\* The PLL locks, or does not within 300 us, and the code goes on either way.
StartPll ==
    /\ dram.todo # <<>> /\ Head(dram.todo).do = "pll"
    /\ \E lapses \in {{}, {"no lock"}} :
          dram' = Gone([dram EXCEPT !.written = @ \cup {"pllm"}, !.lapses = @ \cup lapses])

DramInit ==
    \E chip \in Chips, raw \in FuseIds, type \in Memories :
        dram = [chip |-> chip, raw |-> raw, type |-> type, todo |-> sdram_init(chip, raw, type),
                written |-> {}, active |-> {}, staged |-> {}, locked |-> {}, pin |-> {"hold"}, us |-> 0,
                sent |-> {}, lapses |-> {}]
DramNext == DramStep \/ StartPll
DramSpec == DramInit /\ [][DramNext]_dram
-----------------------------------------------------------------------------
DramTypeOK == dram.active \subseteq dram.written /\ dram.staged \subseteq dram.written

\* Nothing is written before what it needs or behind its lock, the pins keep their
\* times, and no command goes to a memory whose clock enable, pads, calibration and
\* timing are not in effect (the comments at sdram.c:216, :764, :587, :1191, :1201).
DramInOrder == dram.lapses \subseteq {"no lock"}
\* A memory that was started refreshes, has nothing left staged, and every rank that
\* addresses reach is calibrated: the ranks and the size are those of the module the
\* fuses name, whichever id it is and whatever the fuses hold.
DramServes ==
    dram.todo = <<>> =>
        LET p == IF dram.chip = "t210" THEN _sdram_get_params_t210(dram.raw)
                 ELSE sdram_get_params_t210b01(dram.raw)
            size == Capacity(dram.chip, fuse_read_dramid(dram.chip, dram.raw))
        IN /\ dram.staged = {} /\ {"refresh", "arbiter"} \subseteq dram.active
           /\ p.geometry = p.ranks /\ p.size = size
           /\ size > 4 => p.ranks = {0, 1}
           /\ dram.type = "lpddr4" =>
                 \A r \in p.geometry : r \in p.zcal /\ Calibrations(r) \subseteq dram.sent
=============================================================================
