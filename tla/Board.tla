------------------------------- MODULE Board -------------------------------
(* hw_init.c, power_set_state of util.c and the order in which ipl_main uses the
   hardware; and the one place where a call in a script is expanded.

   soc.var.family says which calls are made: "boot" runs ipl_main once, from
   hw_init to the jump into the payload or the end; in the others the calls of
   one group are made in every order. *)
EXTENDS Panel

CONSTANTS Voltages      \* voltages asked of a rail, as offsets from its lowest

(* hw_init.c *)
config_se_brom == clock_enable_fuse(TRUE) \o <<Use({"FUSEVIS"}, "fuse_set_sbk")>>
\* The controllers run, out of reset, while their clock gates are overridden.
Mbist == {"AHUB", "APE", "DISP1", "VIC", "HOST1X"}
mbist_workaround ==
    <<On({"AHUB", "APE"}), PllOn("D"), Free({"APE", "VIC", "HOST1X", "DISP1"}), Settle,
      Use(Mbist, "mbist"), Settle, Hold({"APE", "VIC", "HOST1X", "DISP1"}),
      Only({"PMC", "FUSE", "RTC", "TMR", "GPIO", "CSITE", "MSELECT", "SE", "GPU", "FUSEVIS"}), PllOff("D")>>
\* The bus clocks are set up on the oscillator's PLL before it feeds the BPMP.
config_oscillators == <<Sclk("P"), SetVar("pclk", 3)>>
config_gpios ==
    If(soc.var.hw # "hoag", InputPin({"G0", "D1"})) \o InputPin({"E6", "H6"}) \o InputPin({"X6", "X7"})
config_regulators ==
    If(soc.var.chip = "t210", <<Call("set_voltage", <<"ldo4", 1000000>>)>>)
    \o max77620_low_battery_monitor_config
    \o gpio_write({"E4"}, FALSE) \o <<Call("regulator_enable", <<"ldo2", FALSE>>)>>
    \o Transfer("I2C5", "config_regulators")
    \o (IF soc.var.chip = "t210"
        THEN [i \in 1 .. 5 |-> Call("config_fps", <<"ldo4", "ldo8", "sd0", "sd1", "sd3">>[i])]
             \o <<Call("set_voltage", <<"sd0", 1125000>>), Call("config_gpio", <<5, FALSE>>), Call("config_gpio", <<6, FALSE>>),
                  Call("max77621_config_default", <<"cpu0", TRUE>>), Call("max77621_config_default", <<"gpu0", TRUE>>)>>
        ELSE <<Call("set_voltage", <<"sd0", 1050000>>)>>)
hw_init_late_i2c ==    \* mutant: the PMIC is used before its bus is set up
    config_se_brom \o If(soc.var.chip = "t210", mbist_workaround)
    \o clock_enable("SE") \o clock_enable_fuse(TRUE) \o mc_enable \o config_oscillators \o config_gpios
    \o clock_enable("CLDVFS") \o clock_enable("I2C1") \o clock_enable("I2C5") \o clock_enable("TZRAM")
    \o If(soc.var.hw = "hoag", RailOn("ldo8", 2800000))
    \o i2c_init("I2C1") \o <<Call("config_regulators", 0)>> \o i2c_init("I2C5") \o <<Call("enable_charger", 0)>>
    \o <<Sclk("P"), Use({"EMC", "MEM"}, "sdram_init"), SetVar("dram", TRUE), Call("bpmp_mmu_enable", 0)>>
hw_init ==
    config_se_brom \o If(soc.var.chip = "t210", mbist_workaround)
    \o clock_enable("SE") \o clock_enable_fuse(TRUE) \o mc_enable \o config_oscillators \o config_gpios
    \o clock_enable("CLDVFS") \o clock_enable("I2C1") \o clock_enable("I2C5") \o clock_enable("TZRAM")
    \o i2c_init("I2C5") \o If(soc.var.hw = "hoag", RailOn("ldo8", 2800000))
    \o i2c_init("I2C1") \o <<Call("config_regulators", 0), Call("enable_charger", 0)>>
    \o <<Sclk("P"), Use({"EMC", "MEM"}, "sdram_init"), SetVar("dram", TRUE), Call("bpmp_mmu_enable", 0)>>

\* The magic is the last word of a small payload; a big one is coreboot.
hw_reinit_cached(coreboot, magic) ==    \* mutant: the cache stays on
    <<Call("bpmp_clk_rate_set", 0), Call("minerva_change_freq", 204), On({"AHUB", "APE"})>>
    \o <<Call(IF magic = "sld" THEN "seamless" ELSE "display_end", 0)>>
    \o If(coreboot \/ magic = "hwi", clock_disable("CLDVFS"))
hw_reinit_workaround(coreboot, magic) ==
    <<Call("bpmp_clk_rate_set", 0), Call("bpmp_mmu_disable", 0), Call("minerva_change_freq", 204),
      On({"AHUB", "APE"})>>
    \o If(coreboot, <<Settle>> \o clock_disable("CLDVFS") \o gpio_config({"G0", "D1", "E6", "H6"}, FALSE))
    \o <<Call(IF magic = "sld" THEN "seamless" ELSE "display_end", 0)>>
    \o If(magic = "hwi", <<On({"USBD"})>> \o clock_disable("CLDVFS"))
\* The display stays on, its backlight off and back to what it was.
seamless ==
    display_get_backlight_brightness
    \o <<Call("brightness", 0)>> \o gpio_config({"V0"}, TRUE) \o <<Call("brightness", soc.var.glow)>>

\* util.c.  The enable of the wake event is read, changed and written, once.
power_set_state(state) ==
    <<SetVar("mounted", FALSE), Call("hw_reinit", <<FALSE, "none">>), Call("stop_alarm", 0)>>
    \o If(state = "reboot", <<Bits("I2C5", "onoff", {}, {"wake"})>>)
    \o If(state = "reset", <<Bits("I2C5", "onoff", {"wake", "alarm1", "alarm2"}, {})>>)
    \o Transfer("I2C5", "power_set_state") \o <<SetVar("end", state)>>

(* main.c: ipl_main, launch_payload.  sdok: the card mounts; payload: what the
   file of the payload is. *)
ipl_main ==
    <<Call("hw_init", 0), Call("sd_mount", 0), Call("ipl_main_mounted", 0)>>
ipl_main_mounted ==
    IF ~soc.var.mounted THEN <<Call("power_set_state", "reboot")>>
    ELSE <<Call("minerva_init", 0), Call("minerva_change_freq", 800),
           Call("display_init", soc.var.tries), Call("framebuffer", "pitch"), Call("pwm_init", 0),
           Call("brightness", 100), Call("bpmp_clk_rate_set", 3), Call("jc_init_hw", 0),
           Call(IF soc.var.payload = "missing" THEN "power_set_state" ELSE "launch_payload", "reboot")>>
sd_mount == <<SetVar("mounted", soc.var.sdok)>>
\* A payload that cannot be read leaves ipl_main halted with the display on.
launch_payload ==
    IF soc.var.payload = "unreadable" THEN <<SetVar("end", "halt")>>
    ELSE <<SetVar("mounted", FALSE),
           Call("hw_reinit", IF soc.var.payload = "coreboot" THEN <<TRUE, "none">> ELSE <<FALSE, soc.var.payload>>),
           SetVar("end", "payload")>>

\* What a call does.
Body(f, a) ==
    CASE f = "set_voltage" -> max7762x_regulator_set_voltage(a[1], a[2])
      [] f = "regulator_enable" -> max7762x_regulator_enable(a[1], a[2])
      [] f = "dvs" -> dvs(a)
      [] f = "config_fps" -> max77620_regulator_config_fps(a)
      [] f = "config_gpio" -> max77620_config_gpio(a[1], a[2])
      [] f = "max77621_config_default" -> max77621_config_default(a[1], a[2])
      [] f = "config_default" -> config_default(a)
      [] f = "max77620_config_default" -> max77620_config_default
      [] f = "rtc_get_time" -> max77620_rtc_get_time
      [] f = "stop_alarm" -> max77620_rtc_stop_alarm
      [] f = "enable_charger" -> bq24193_enable_charger
      [] f = "battery_removal" -> bq24193_fake_battery_removal
      [] f = "tmp451" -> IF a THEN tmp451_init ELSE tmp451_end
      [] f = "max17050_fix" -> max17050_fix_configuration
      [] f = "regulator_5v_enable" -> regulator_5v_enable(a)
      [] f = "regulator_5v_disable" -> regulator_5v_disable(a)
      [] f = "usb_src" -> regulator_5v_usb_src_enable(a)
      [] f = "set_fan_duty" -> set_fan_duty(a)
      [] f = "jc_power_supply" -> jc_power_supply(a[1], a[2])
      [] f = "jc_init_hw" -> jc_init_hw
      [] f = "jc_deinit" -> jc_deinit(a)
      [] f = "touch" -> IF a THEN touch_power_on ELSE touch_power_off
      [] f = "als_power_on" -> als_power_on
      [] f = "ccplex_enable_power" -> ccplex_enable_power
      [] f = "ccplex_boot_cpu0" -> ccplex_boot_cpu0
      [] f = "bpmp_clk_rate_get" -> bpmp_clk_rate_get
      [] f = "bpmp_clk_rate_set" -> bpmp_clk_rate_set(a)
      [] f = "bpmp_mmu_enable" -> bpmp_mmu_enable
      [] f = "bpmp_mmu_disable" -> bpmp_mmu_disable
      [] f = "minerva_init" -> minerva_init
      [] f = "minerva_change_freq" -> minerva_change_freq(a)
      [] f = "minerva_prep_boot_freq" -> minerva_prep_boot_freq
      [] f = "minerva_periodic_training" -> minerva_periodic_training
      [] f = "smmu_enable" -> smmu_enable
      [] f = "kfuse_read" -> kfuse_read
      [] f = "tsec_query" -> tsec_query(a[1], a[2])
      [] f = "uart_init" -> clock_enable(a) \o uart_init(a, 1000000)
      [] f = "jc_uart_init" -> uart_init(a, 1000000)
      [] f = "pllu" -> IF a THEN clock_enable_pllu \o clock_enable_utmipll ELSE clock_disable_pllu
      [] f = "display_init" -> display_init(a)
      [] f = "display_hw_end" -> display_hw_end(a)
      [] f = "display_end" -> display_end
      [] f = "pwm_init" -> display_backlight_pwm_init
      [] f = "brightness" -> display_backlight_brightness(a)
      [] f = "get_brightness" -> display_get_backlight_brightness
      [] f = "color_screen" -> display_color_screen
      [] f = "framebuffer" -> display_init_framebuffer(a)
      [] f = "console" -> display_console(a)
      [] f = "cursor" -> display_cursor(a)
      [] f = "dsi_read" -> display_dsi_read(soc.var.video)
      [] f = "dsi_write" -> display_dsi_write
      [] f = "set_decoded" -> display_set_decoded_panel_id(a)
      [] f = "hw_init" -> hw_init
      [] f = "config_regulators" -> config_regulators
      [] f = "hw_reinit" -> hw_reinit_workaround(a[1], a[2])
      [] f = "seamless" -> seamless
      [] f = "sd_mount" -> sd_mount
      [] f = "power_set_state" -> power_set_state(a)
      [] f = "ipl_main" -> ipl_main
      [] f = "ipl_main_mounted" -> ipl_main_mounted
      [] f = "launch_payload" -> launch_payload

(* The groups of calls. *)
Steps(r) == {Regulators[r].min + o : o \in Voltages} \cup {Regulators[r].max}
Calls ==
    CASE soc.var.family = "clocks" ->
           {Call("bpmp_clk_rate_set", f) : f \in 0 .. 4} \cup {Call("bpmp_clk_rate_get", 0)}
           \cup {Call("bpmp_mmu_enable", 0), Call("bpmp_mmu_disable", 0), Call("kfuse_read", 0)}
           \cup {Call("tsec_query", <<t, x>>) : t \in {"old", "new", "emu"}, x \in TsecFails}
      [] soc.var.family = "dram" ->
           {Call("minerva_init", 0), Call("minerva_change_freq", 204), Call("minerva_change_freq", 800),
            Call("minerva_change_freq", 1600), Call("minerva_prep_boot_freq", 0), Call("minerva_periodic_training", 0),
            Call("pllu", TRUE), Call("pllu", FALSE)}
      [] soc.var.family = "panel" ->
           IF soc.var.video /\ soc.var.panel # "sam" /\ "PWM" \notin soc.clk THEN {Call("pwm_init", 0)}
           ELSE IF ~soc.var.video THEN {Call("display_init", n) : n \in {0, 1, 3}} \cup {Call("set_decoded", TRUE), Call("set_decoded", FALSE)}
           ELSE {Call("pwm_init", 0), Call("get_brightness", 0), Call("color_screen", 0), Call("framebuffer", "pitch"),
                 Call("framebuffer", "block"), Call("console", TRUE), Call("console", FALSE), Call("cursor", TRUE),
                 Call("cursor", FALSE), Call("dsi_read", 0), Call("dsi_write", 0), Call("display_end", 0), Call("display_init", 0)}
                \cup {Call("brightness", l) : l \in {0, 100}}
      [] soc.var.family = "rails" ->
           LET r == soc.var.rail
           IN {Call("set_voltage", <<r, uv>>) : uv \in Steps(r)} \cup {Call("regulator_enable", <<r, on>>) : on \in BOOLEAN}
      [] soc.var.family = "chips" ->
           {Call("enable_charger", 0), Call("battery_removal", 0), Call("tmp451", TRUE), Call("tmp451", FALSE),
            Call("max17050_fix", 0), Call("stop_alarm", 0), Call("rtc_get_time", 0)}
      [] soc.var.family = "users" ->
           {Call("set_fan_duty", d) : d \in {0, 1, 2}} \cup {Call("usb_src", on) : on \in BOOLEAN}
           \cup {Call("jc_power_supply", <<j, on>>) : j \in {"jcl", "jcr"}, on \in BOOLEAN}
           \cup {Call("jc_init_hw", 0), Call("jc_deinit", {"UARTB", "UARTC"} \subseteq soc.set)}
           \cup {Call("jc_uart_init", u) : u \in {"UARTB", "UARTC"} \cap soc.clk}
      [] soc.var.family = "sensors" ->
           {Call("touch", on) : on \in BOOLEAN} \cup {Call("als_power_on", 0), Call("uart_init", "UARTB"), Call("uart_init", "UARTC"),
            Call("max77620_config_default", 0)}
      [] OTHER -> {}

(* Behaviour. *)
Families == {"boot", "clocks", "dram", "panel", "rails", "chips", "users", "sensors"}
Devices ==
    {"PMC", "FUSE", "FUSEVIS", "RTC", "TMR", "GPIO", "CSITE", "MSELECT", "SE", "GPU", "EMC", "MEM", "EMC_DLL", "CLDVFS",
     "I2C1", "I2C2", "I2C3", "I2C5", "TZRAM", "UARTB", "UARTC", "PWM", "MIPI_CAL", "DSI", "HOST1X", "DISP1", "DSIA_LP",
     "UART_FST_MIPI_CAL", "AHUB", "APE", "VIC", "TSEC", "SOR0", "SOR1", "SOR_SAFE", "KFUSE", "CPUG", "CRAIL", "C0NC",
     "CE0", "CE1", "CE2", "CE3", "USBD"}
Lit == {"MIPI_CAL", "DSI", "HOST1X", "DISP1"}
\* What never is in reset: no code here holds it.
NoReset == {"PMC", "FUSE", "FUSEVIS", "RTC", "TMR", "GPIO", "GPU", "AHUB", "EMC_DLL", "DSIA_LP", "UART_FST_MIPI_CAL",
            "CRAIL", "C0NC", "CE0", "CE1", "CE2", "CE3"}
FirstClocks == {"PMC", "FUSE", "RTC", "TMR", "GPIO"}
BootedClocks == FirstClocks \cup {"FUSEVIS", "SE", "CSITE", "MSELECT", "GPU", "EMC", "MEM", "EMC_DLL", "CLDVFS", "I2C1", "I2C5", "TZRAM"}
BootedPins == {"E6", "H6", "X6", "X7", "G0", "D1"}
Hardware == {<<"t210", "icosa">>, <<"t210b01", "iowa">>, <<"t210b01", "hoag">>, <<"t210b01", "aula">>}
Payloads == {"missing", "unreadable", "none", "sld", "hwi", "coreboot"}

\* warm: the display was on when this program was started.
FirstVar(family, hw, glass, warm) ==
    [family |-> family, chip |-> hw[1], hw |-> hw[2], glass |-> glass, did |-> {}, want |-> 0, faults |-> 0, end |-> "",
     fid |-> 0, divn |-> 0, pclk |-> 3, cache |-> family # "boot", dirty |-> FALSE, ahb |-> FALSE, uartdiv |-> 2,
     minerva |-> FALSE, module |-> FALSE, ramoc |-> FALSE, rate |-> 204, dram |-> family # "boot",
     source |-> [d \in {"DISP1", "CPUG"} |-> IF warm THEN "D" ELSE "P"], smmu |-> FALSE, tsecasid |-> FALSE,
     asked |-> [r \in DOMAIN Regulators |-> 0], power |-> [r \in DOMAIN Regulators |-> FALSE],
     dvs |-> [r \in {"cpu0", "gpu0"} |-> 0], fps |-> {}, ame |-> 0 .. 7, pgpio |-> [i \in 5 .. 7 |-> FALSE],
     alarm |-> [i \in 1 .. 14 |-> TRUE], por |-> {"otg", "sysmin"}, timer |-> {"watchdog", "term"}, misc |-> {"int"},
     onoff |-> {"wake", "alarm1", "alarm2"}, tmp |-> [shut |-> FALSE, offset |-> 0, rate |-> 2],
     gauge |-> [k \in {"status", "acc", "config", "fullcap", "lock", "vfsoc0", "remcap", "repsoc"} |-> IF k = "lock" THEN "shut" ELSE "old"],
     users |-> {}, usb_src |-> FALSE, duty |-> -1, fan |-> FALSE, blows |-> 0, jc_init_done |-> FALSE,
     aula |-> FALSE, panel |-> "", video |-> warm, glow |-> 0, window |-> "", console |-> FALSE, cursor |-> FALSE,
     rail |-> "", sdok |-> TRUE, payload |-> "none", tries |-> 0, mounted |-> FALSE]
WarmPins(hw) == {"V2"} \cup (IF hw = "aula" THEN {} ELSE {"V0", "V1", "I0", "I1"})
Board0(var, warm) ==
    [clk |-> (IF var.family = "boot" THEN FirstClocks ELSE BootedClocks) \cup (IF warm THEN Lit ELSE {}),
     rst |-> Devices \ (NoReset \cup (IF var.family = "boot" THEN {} ELSE BootedClocks) \cup (IF warm THEN Lit ELSE {})),
     set |-> IF var.family = "boot" THEN {} ELSE {"I2C1", "I2C5"},
     pll |-> {"P"} \cup (IF warm THEN {"D"} ELSE {}), sclk |-> "P",
     pin |-> IF warm THEN WarmPins(var.hw) \ {"V0"} ELSE {}, out |-> IF warm THEN WarmPins(var.hw) ELSE {},
     gpio |-> IF warm THEN WarmPins(var.hw) ELSE IF var.family = "boot" THEN {} ELSE BootedPins,
     rail |-> [r \in DOMAIN Regulators |-> [code |-> IF warm /\ r = "ldo0" THEN 16 ELSE 0, on |-> warm /\ r = "ldo0"]],
     fresh |-> {}, var |-> var, lapse |-> {}]

BoardInit ==
    /\ todo = <<>>
    /\ \E hw \in Hardware :
         LET glass == CASE hw[2] = "icosa" -> "jdi" [] hw[2] = "iowa" -> "known55" [] hw[2] = "hoag" -> "inl62" [] OTHER -> "sam"
             First(family) == FirstVar(family, hw, glass, FALSE)
         IN \/ \E warm \in BOOLEAN, n \in {0, 3}, module \in {b \in BOOLEAN : b => hw[1] = "t210"} :
               \E ends \in {<<FALSE, "none">>} \cup {<<TRUE, p>> : p \in Payloads} :
                 soc = Board0([FirstVar("boot", hw, glass, warm) EXCEPT !.tries = n, !.module = module,
                                                                       !.sdok = ends[1], !.payload = ends[2]], warm)
            \/ /\ hw[2] \in {"icosa", "hoag"}
               /\ \E family \in {"clocks", "chips", "sensors"} :
                    soc = Board0([First(family) EXCEPT !.minerva = FALSE], FALSE)
            \/ \E ramoc, module \in BOOLEAN : soc = Board0([First("dram") EXCEPT !.ramoc = ramoc, !.module = module], FALSE)
            \/ \E g \in IF hw[2] = "aula" THEN {"sam"} ELSE Panels \ {"", "sam"} :
                 soc = Board0(FirstVar("panel", hw, g, FALSE), FALSE)
            \/ hw[2] = "icosa" /\ \E r \in DOMAIN Regulators : soc = Board0([First("rails") EXCEPT !.rail = r], FALSE)
            \/ \E f \in {0, 2} :
                 soc = LET b == Board0([First("users") EXCEPT !.want = f, !.fid = f, !.pclk = IF f = 0 THEN 3 ELSE 4,
                                                             !.divn = IF f = 0 THEN 0 ELSE Divn[f]], FALSE)
                       IN IF f = 0 THEN b ELSE [b EXCEPT !.sclk = "C", !.pll = {"P", "C"}]

\* The next operation of the script.
Step ==
    /\ todo # <<>>
    /\ \E op \in {Head(todo)} :
         IF op[1] = "call"
         THEN soc' = soc /\ \E body \in {Body(op[2], op[3])} : todo' = body \o Tail(todo)
         ELSE soc' \in Exec(op) /\ todo' = Tail(todo)
\* The program starts.
Boot ==
    /\ todo = <<>> /\ soc.var.family = "boot" /\ soc.var.end = "" /\ ~soc.var.dram
    /\ todo' = <<Call("ipl_main", 0)>> /\ soc' = soc
\* A caller of one of the group.
CallOne ==
    /\ todo = <<>>
    /\ \E op \in Calls :
         /\ todo' = <<op>>
         /\ soc' = [soc EXCEPT !.var.did = @ \cup (IF soc.var.family = "chips" THEN {op[2]} ELSE {}),
                               !.var.want = IF op[2] = "bpmp_clk_rate_set" THEN IF op[3] > 3 THEN 3 ELSE op[3] ELSE @]
BoardNext == Step \/ Boot \/ CallOne
BoardSpec == BoardInit /\ [][BoardNext]_socVars

-----------------------------------------------------------------------------
(* Properties. *)
BoardTypeOK ==
    /\ soc.clk \subseteq Devices /\ soc.rst \subseteq Devices /\ soc.set \subseteq NeedsSetup
    /\ soc.sclk \in {"P", "C"} /\ soc.pll \subseteq {"P", "C", "D", "U", "X", "UTMIP"}
    /\ soc.var.fid \in 0 .. 3 /\ soc.var.panel \in Panels
    /\ \A r \in DOMAIN Regulators : soc.rail[r].code \in 0 .. Regulators[r].codes - 1

Idle == todo = <<>>
\* The code's own accesses to what is off: the controllers that are not clocked
\* while hw_init works around their self test; the DSI pads, written after the
\* clocks went; the fan's PWM, whose clock only the backlight turns on; on aula
\* the PWM that is read for the seamless hand-over; and the display that is
\* ended before there is one, when the card does not mount.
KnownLapses ==
    {<<d, "mbist">> : d \in Mbist} \cup {<<"DSI", "pads">>, <<"PWM", "set_fan_duty">>}
    \cup (IF soc.var.hw = "aula" THEN {<<"PWM", "get_brightness">>} ELSE {})
    \cup (IF soc.var.family = "boot" /\ ~soc.var.sdok
          THEN {<<"PWM", "brightness">>, <<"DSI", "display_end">>, <<"DISP1", "display_end">>, <<"PANEL", "display_end">>}
          ELSE {})
\* Apart from those, no access to a device that is in reset, without clock or
\* not set up, no command to a panel that is not powered and out of reset, and
\* no wait for the end of a frame that never comes.
LiveAccess == soc.lapse \subseteq KnownLapses

BpmpMhz == IF soc.sclk = "P" THEN 408 ELSE (64 * soc.var.divn) \div 10
\* The BPMP runs on a PLL that is on, and its bus within the 147 MHz of the table
\* of pll_divn; between calls bpmp_fid_current is the clock it has and the one
\* last asked for, whatever a TSEC query or the Joy-Cons' clocks did on the way.
ClocksAlive ==
    /\ soc.sclk \in soc.pll
    /\ BpmpMhz \div soc.var.pclk <= 147
    /\ Idle /\ soc.var.family # "boot" =>
         /\ soc.var.fid = soc.var.want
         /\ soc.sclk = IF soc.var.fid = 0 THEN "P" ELSE "C"
         /\ soc.var.fid # 0 => soc.var.divn = Divn[soc.var.fid]
    /\ \A t \in {soc.var.rate} : soc.var.minerva /\ Idle => t \in {204, 800, 1600}

RailHolds(r) ==
    LET v == soc.var.asked[r]
    IN /\ v # 0 /\ ~(r = "sd0" /\ v > 1387500) => Volts(r, soc.rail[r].code) \in v .. v + Regulators[r].step - 1
       /\ soc.rail[r].on = soc.var.power[r]
       /\ Regulators[r].type = "BC0" => soc.var.dvs[r] = soc.rail[r].code
\* A panel is powered up and down in order, the backlight burns only in front of
\* a picture, the 5 V of the fan and the Joy-Cons are there for their users and
\* gone with the last, and the PMIC's rails are what was asked of them, but for
\* at most one for each transfer that was lost (max7762x.c:191), and never one of
\* those whose power bits lie apart from their voltage.
PowerOrder ==
    /\ "V2" \in soc.pin => soc.rail.ldo0.on /\ (soc.var.hw # "aula" /\ soc.var.family \in {"boot", "panel"} => {"I0", "I1"} \subseteq soc.pin \ soc.fresh)
    /\ "I1" \in soc.pin => "I0" \in soc.pin
    /\ Idle /\ soc.var.glow > 0 => soc.var.video
    /\ Idle =>
         /\ (soc.var.users # {}) <=> ("A5" \in soc.pin \cap soc.out \cap soc.gpio)
         /\ soc.var.blows > 0 => "fan" \in soc.var.users
         /\ \A j \in {"jcl", "jcr"} : (j \in soc.var.users) <=> (ChargePin(j) \in soc.pin)
         /\ soc.var.usb_src <=> "CC4" \in soc.pin
    /\ Idle /\ soc.var.faults = 0 =>
         /\ \A r \in DOMAIN Regulators : soc.var.family # "boot" => RailHolds(r)
         /\ "max17050_fix" \in soc.var.did =>
              /\ \A k \in DOMAIN soc.var.gauge \ {"lock", "status"} : soc.var.gauge[k] = "new"
              /\ soc.var.gauge.lock = "shut" /\ soc.var.gauge.status = "done"
         /\ "enable_charger" \in soc.var.did => soc.var.por = {"charge", "sysmin"}
         /\ "battery_removal" \in soc.var.did => "batfet" \in soc.var.misc /\ "watchdog" \notin soc.var.timer
    /\ Idle /\ soc.var.faults > 0 =>
         /\ \A r \in Apart : RailHolds(r)
         /\ soc.var.family # "boot" =>
              Cardinality({r \in DOMAIN Regulators : ~RailHolds(r)}) <= soc.var.faults
         /\ "stop_alarm" \in soc.var.did => Cardinality({i \in 1 .. 14 : soc.var.alarm[i]}) <= soc.var.faults

\* What is handed over to the payload or to a reset: the BPMP on PLLP without
\* its cache, the DRAM at 204 MHz once the trained table is in use, the panel
\* dark and its rails off, unless the payload asked for a seamless display;
\* coreboot and the payloads it is asked for get no CL_DVFS clock.
HandOver ==
    Idle /\ soc.var.end \notin {"", "halt"} =>
        /\ soc.sclk = "P" /\ soc.var.fid = 0 /\ ~soc.var.cache /\ ~soc.var.mounted
        /\ soc.var.minerva => soc.var.rate = 204
        /\ IF soc.var.end = "payload" /\ soc.var.payload = "sld" THEN soc.var.video /\ soc.var.glow > 0
           ELSE soc.var.glow = 0 /\ ~soc.var.video /\ {"V2", "I0", "I1"} \cap soc.pin = {}
        /\ ("CLDVFS" \in soc.clk) <=> ~(soc.var.end = "payload" /\ soc.var.payload \in {"coreboot", "hwi"})
=============================================================================
