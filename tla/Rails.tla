------------------------------- MODULE Rails -------------------------------
(* gpio.c, pinmux.c, max7762x.c, max77620-rtc.c, bq24193.c, max17050.c,
   tmp451.c, regulator_5v.c, fan.c, als.c and the power of joycon.c and touch.c:
   pins, the PMIC's regulators and what hangs on the I2C buses.

   A register of a chip on a bus is read, changed and written back; the answer
   of the read is not checked (i2c_recv_byte gives 0 when it fails), and only
   _max7762x_set_reg repeats a write that fails (a hundred times: taken as done). *)
EXTENDS Clocks

(* gpio.c *)
gpio_config(S, gpio) == <<Mode(S, gpio)>>
gpio_output_enable(S, on) == <<Output(S, on)>>
gpio_write(S, high) == <<Drive(S, high)>>
OutputPin(S) == gpio_config(S, TRUE) \o gpio_output_enable(S, TRUE)
InputPin(S) == gpio_config(S, TRUE) \o gpio_output_enable(S, FALSE)

(* i2c.c: what a transfer needs of the bus.  i2c_init sets a bus up whose
   clock runs. *)
i2c_init(bus) == <<Configured(bus)>>
Transfer(bus, where) == <<Use({bus}, where)>>

(* max7762x.c.  uV; the multiplier is masked to the field of the register.
   fps: a power sequencer switches the rail. *)
Regulator(type, step, min, default, max, codes, fps) ==
    [type |-> type, step |-> step, min |-> min, default |-> default, max |-> max, codes |-> codes, fps |-> fps]
Regulators ==
    [sd0  |-> Regulator("SD", 12500, 600000, 625000, 1400000, 64, TRUE),
     sd1  |-> Regulator("SD", 12500, 600000, 1125000, 1250000, 128, TRUE),
     sd2  |-> Regulator("SD", 12500, 600000, 1325000, 1350000, 256, TRUE),
     sd3  |-> Regulator("SD", 12500, 600000, 1800000, 1800000, 256, TRUE),
     ldo0 |-> Regulator("LDO", 25000, 800000, 1200000, 1200000, 64, FALSE),
     ldo1 |-> Regulator("LDO", 25000, 800000, 1050000, 1050000, 64, FALSE),
     ldo2 |-> Regulator("LDO", 50000, 800000, 1800000, 3300000, 64, FALSE),
     ldo3 |-> Regulator("LDO", 50000, 800000, 3100000, 3100000, 64, FALSE),
     ldo4 |-> Regulator("LDO", 12500, 800000, 850000, 1000000, 64, TRUE),
     ldo5 |-> Regulator("LDO", 50000, 800000, 1800000, 1800000, 64, FALSE),
     ldo6 |-> Regulator("LDO", 50000, 800000, 2900000, 2900000, 64, FALSE),
     ldo7 |-> Regulator("LDO", 50000, 800000, 1050000, 1050000, 64, TRUE),
     ldo8 |-> Regulator("LDO", 50000, 800000, 1050000, 2800000, 64, FALSE),
     cpu0 |-> Regulator("BC0", 6250, 606250, 1000000, 1400000, 128, FALSE),
     gpu0 |-> Regulator("BC0", 6250, 606250, 1200000, 1400000, 128, FALSE),
     cpu1 |-> Regulator("BC1", 5000, 250000, 600000, 1525000, 256, FALSE)]
Loop == <<"sd1", "sd2", "sd3", "ldo0", "ldo1", "ldo2", "ldo3", "ldo4", "ldo5", "ldo6", "ldo7", "ldo8">>
\* The voltage a code stands for.
Volts(r, code) == Regulators[r].min + code * Regulators[r].step

\* The FPS register of a rail, from the table.
max77620_regulator_config_fps(r) ==
    <<Change("fps", {r}, {s \in {r} : Regulators[r].fps})>> \o Transfer("I2C5", "config_fps")
Multiplier_unmasked(r, uv) ==    \* mutant: the multiplier runs over its field
    (uv + Regulators[r].step - 1 - Regulators[r].min) \div Regulators[r].step
Multiplier(r, uv) ==
    ((uv + Regulators[r].step - 1 - Regulators[r].min) \div Regulators[r].step) % Regulators[r].codes
max7762x_regulator_set_voltage(r, uv) ==
    If(uv \in Regulators[r].min .. Regulators[r].max,
       <<SetAt("asked", r, uv), Rmw(r, "code", Multiplier(r, uv))>>
       \o If(Regulators[r].type = "BC0", <<Call("dvs", r)>>) \o <<Settle>>)
\* The max77621 gets the same value in its second register, always enabled.
dvs(r) == <<SetAt("dvs", r, soc.rail[r].code)>> \o Transfer("I2C5", "dvs")
\* The power bits: beside the voltage (LDO, BC0) or in a register of their own.
max7762x_regulator_enable(r, on) == <<SetAt("power", r, on), Rmw(r, "on", on), Settle>>
RailOn(r, uv) == <<Call("set_voltage", <<r, uv>>), Call("regulator_enable", <<r, TRUE>>)>>

\* A GPIO of the PMIC: out of its alternate function, then its direction and level.
max77620_config_gpio(id, on) ==
    <<Bits("I2C5", "ame", {id}, {}), Send("I2C5", "pgpio", id, on)>>
max77621_config_default(r, por) ==
    If(por, <<Call("set_voltage", <<r, 1000000>>), Call("regulator_enable", <<r, FALSE>>)>>)
    \o Transfer("I2C5", "max77621_config_default")
config_default(r) ==    \* a turn of the loop below
    <<Call("config_fps", r), Call("set_voltage", <<r, Regulators[r].default>>)>>
    \o If(Regulators[r].fps, <<Call("regulator_enable", <<r, TRUE>>)>>)
\* Only on the PMIC of the T210 (a read that fails says it is another).
max77620_config_default ==
    If(soc.var.chip = "t210",
       [i \in 1 .. Len(Loop) |-> Call("config_default", Loop[i])]
       \o Transfer("I2C5", "max77620_config_default"))
max77620_low_battery_monitor_config == Transfer("I2C5", "low_battery_monitor_config")

(* max77620-rtc.c: the alarm enables, a register at a time. *)
max77620_rtc_get_time == Transfer("I2C5", "rtc_get_time")
\* A read that fails clears its register as well.
Alarms == [i \in 1 .. 14 |-> Send("I2C5", "alarm", i, FALSE)]
max77620_rtc_stop_alarm == Transfer("I2C5", "rtc_stop_alarm") \o Alarms

(* bq24193.c *)
bq24193_enable_charger == <<Bits("I2C1", "por", {"charge", "otg"}, {"charge"})>>
\* The watchdog would connect the battery again.
bq24193_fake_battery_removal ==
    <<Bits("I2C1", "timer", {"watchdog"}, {}), Bits("I2C1", "misc", {}, {"batfet"})>>

(* tmp451.c: the conversion rate is raised for one read. *)
tmp451_init ==
    Transfer("I2C1", "tmp451_init")
    \o <<Send("I2C1", "tmp", "shut", FALSE), Send("I2C1", "tmp", "offset", IF soc.var.chip = "t210" THEN 0 ELSE -125),
         Send("I2C1", "tmp", "rate", 9), Send("I2C1", "tmp", "rate", 2)>>
tmp451_end == <<Send("I2C1", "tmp", "shut", TRUE)>>

(* max17050.c.  VFSOC0 takes a write only while it is unlocked; the unlocking
   is sent once and not read back. *)
max17050_fix_configuration ==
    <<Verify("I2C1", "gauge", "status", "por", ""), Send("I2C1", "gauge", "acc", "new"), Settle,
      Send("I2C1", "gauge", "config", "new"), Verify("I2C1", "gauge", "fullcap", "new", ""), Settle,
      Send("I2C1", "gauge", "lock", "open"), Verify("I2C1", "gauge", "vfsoc0", "new", "lock"),
      Send("I2C1", "gauge", "lock", "shut"),
      Verify("I2C1", "gauge", "remcap", "new", ""), Verify("I2C1", "gauge", "acc", "new", ""),
      Verify("I2C1", "gauge", "fullcap", "new", ""), Send("I2C1", "gauge", "repsoc", "new"),
      Verify("I2C1", "gauge", "status", "done", "")>>

(* regulator_5v.c: users of the 5 V regulator; the rail comes from the battery
   (A5) or, on icosa and iowa, from USB (CC4). *)
UsbRail == soc.var.hw \in {"icosa", "iowa"}
regulator_5v_enable(dev) ==
    If(soc.var.users = {},
       OutputPin({"A5"}) \o gpio_write({"A5"}, TRUE)
       \o If(UsbRail, OutputPin({"CC4"}) \o gpio_write({"CC4"}, FALSE))
       \o <<SetVar("usb_src", FALSE)>>)
    \o <<Change("users", {}, {dev})>>
regulator_5v_disable_unconditionally(dev) ==    \* mutant: the rail goes with any of its users
    <<Change("users", {dev}, {})>>
    \o gpio_write({"A5"}, FALSE) \o gpio_output_enable({"A5"}, FALSE) \o gpio_config({"A5"}, FALSE)
    \o If(UsbRail, gpio_write({"CC4"}, FALSE) \o gpio_output_enable({"CC4"}, FALSE) \o gpio_config({"CC4"}, FALSE)
                   \o <<SetVar("usb_src", FALSE)>>)
regulator_5v_disable(dev) ==
    <<Change("users", {dev}, {})>>
    \o If(soc.var.users \ {dev} = {},
          gpio_write({"A5"}, FALSE) \o gpio_output_enable({"A5"}, FALSE) \o gpio_config({"A5"}, FALSE)
          \o If(UsbRail, gpio_write({"CC4"}, FALSE) \o gpio_output_enable({"CC4"}, FALSE) \o gpio_config({"CC4"}, FALSE)
                         \o <<SetVar("usb_src", FALSE)>>))
regulator_5v_usb_src_enable(on) ==
    If(UsbRail /\ on # soc.var.usb_src, gpio_write({"CC4"}, on) \o <<SetVar("usb_src", on)>>)

(* fan.c: only icosa and iowa have this fan.  Duties are abstracted to steps. *)
set_fan_duty(duty) ==
    If(duty # soc.var.duty,
       <<SetVar("duty", duty)>>
       \o If(UsbRail,
             If(~soc.var.fan, InputPin({"S7"}) \o <<Use({"PWM"}, "set_fan_duty")>> \o gpio_config({"V4"}, FALSE)
                              \o <<SetVar("fan", TRUE)>>)
             \o <<Call(IF duty = 0 THEN "regulator_5v_disable" ELSE "regulator_5v_enable", "fan"),
                  Use({"PWM"}, "set_fan_duty"), SetVar("blows", duty)>>))

(* The power of joycon.c: the charge pins CC3 and K3, the detect pins G0 and
   D1, and UARTs C (left) and B (right). *)
ChargePin(jc) == IF jc = "jcl" THEN "CC3" ELSE "K3"
jc_power_supply(jc, on) ==
    IF on
    THEN If(jc \notin soc.var.users,
            <<Call("regulator_5v_enable", jc)>> \o If(~soc.var.jc_init_done, OutputPin({ChargePin(jc)}))
            \o gpio_write({ChargePin(jc)}, TRUE))
    ELSE If(jc \in soc.var.users,
            <<Call("regulator_5v_disable", jc)>> \o gpio_write({ChargePin(jc)}, FALSE))
jc_init_hw ==
    If(soc.var.hw # "hoag",
       <<Call("jc_power_supply", <<"jcl", TRUE>>), Call("jc_power_supply", <<"jcr", TRUE>>)>>
       \o gpio_config({"H6", "E6"}, TRUE)
       \o <<Call("bpmp_clk_rate_set", 0)>> \o clock_enable("UARTB") \o clock_enable("UARTC")
       \o <<Call("bpmp_clk_rate_set", soc.var.fid)>> \o gpio_config({"G0", "D1"}, TRUE)
       \o <<SetVar("jc_init_done", TRUE)>>)
\* The sleep command goes to the Joy-Cons that are connected.
jc_deinit(connected) ==
    <<Call("jc_power_supply", <<"jcr", FALSE>>), Call("jc_power_supply", <<"jcl", FALSE>>)>>
    \o gpio_config({"G0", "D1"}, FALSE)
    \o If(connected, <<Use({"UARTB", "UARTC"}, "jc_deinit")>>)
    \o clock_disable("UARTB") \o clock_disable("UARTC")

(* The power of touch.c and als.c: LDO6 feeds both. *)
touch_power_on ==
    RailOn("ldo6", 2900000) \o OutputPin({"J7"}) \o gpio_write({"J7"}, TRUE) \o gpio_config({"S3"}, TRUE)
    \o clock_enable("I2C3") \o i2c_init("I2C3") \o Transfer("I2C3", "touch_power_on")
touch_power_off ==
    gpio_write({"J7"}, FALSE) \o <<Call("regulator_enable", <<"ldo6", FALSE>>)>> \o clock_disable("I2C3")
als_power_on ==
    RailOn("ldo6", 2900000) \o clock_enable("I2C2") \o i2c_init("I2C2") \o Transfer("I2C2", "als_power_on")

(* ccplex.c *)
ccplex_enable_power ==
    IF soc.var.chip = "t210"
    THEN <<Call("config_gpio", <<5, TRUE>>), Call("max77621_config_default", <<"cpu0", FALSE>>)>> \o RailOn("cpu0", 950000)
    ELSE RailOn("cpu1", 800000)
ccplex_boot_cpu0 ==
    <<Call("ccplex_enable_power", 0)>> \o clock_enable_pllx
    \o <<On({"MSELECT", "CPUG"}), SetAt("source", "CPUG", "X")>> \o clock_enable("CSITE")
    \o pmc_enable_partition("CRAIL", TRUE) \o pmc_enable_partition("C0NC", TRUE) \o pmc_enable_partition("CE0", TRUE)
    \o <<Free({"MSELECT", "CPUG"}), Use({"CPUG", "MSELECT", "CSITE", "CRAIL", "C0NC", "CE0"}, "ccplex_boot_cpu0")>>
=============================================================================
