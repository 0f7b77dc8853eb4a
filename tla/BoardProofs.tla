---------------------------- MODULE BoardProofs ----------------------------
(***************************************************************************)
(* What holds of the board whatever its voltages and faults: the types of  *)
(* the chip, and that its processor is clocked.                            *)
(***************************************************************************)
EXTENDS Board, SequenceTheorems, TLAPS

(***************************************************************************)
(* The state the operations work on, and what they leave alone of it.      *)
(***************************************************************************)
RailNames == DOMAIN Regulators
Rates == {204, 800, 1600}
Plls == {"P", "C", "D", "U", "X", "UTMIP"}
Fields == {"clk", "rst", "set", "pll", "sclk", "pin", "out", "gpio", "rail", "fresh", "var", "lapse"}
\* The variables that have to be something.
Vars == {"family", "fid", "want", "pclk", "divn", "rate", "panel", "glass", "rail"}
VarOK(v) ==
    /\ Vars \subseteq DOMAIN v
    /\ v.family \in Families /\ v.fid \in 0 .. 3 /\ v.want \in 0 .. 3 /\ v.pclk \in {3, 4} /\ v.divn \in Int
    /\ v.rate \in Rates /\ v.panel \in Panels /\ v.glass \in Panels
    /\ v.family = "rails" => v.rail \in RailNames
RailOK(rail) ==
    /\ DOMAIN rail = RailNames
    /\ \A r \in RailNames :
         DOMAIN rail[r] = {"code", "on"} /\ rail[r].code \in 0 .. Regulators[r].codes - 1
StateOK(s) ==
    /\ DOMAIN s = Fields
    /\ s.clk \subseteq Devices /\ s.rst \subseteq Devices /\ s.set \subseteq NeedsSetup
    /\ s.sclk \in {"P", "C"} /\ s.pll \subseteq Plls /\ "P" \in s.pll
    /\ RailOK(s.rail) /\ VarOK(s.var)
\* The clock of the processor is that of another state.
SameClock(s, t) ==
    /\ s.sclk = t.sclk /\ ("C" \in s.pll <=> "C" \in t.pll)
    /\ s.var.family = t.var.family /\ s.var.fid = t.var.fid /\ s.var.want = t.var.want
    /\ s.var.pclk = t.var.pclk /\ s.var.divn = t.var.divn
\* What a variable may be set to where the clock is left alone.
Fits(n, v) ==
    /\ n \notin {"family", "fid", "want", "pclk", "divn", "glass", "rail"}
    /\ n = "panel" => v \in Panels
    /\ n = "rate" => v \in Rates

(***************************************************************************)
(* Operations that leave the clock of the processor alone.                 *)
(***************************************************************************)
Gate(op) ==
    \/ \E S \in SUBSET Devices : op = On(S) \/ op = Off(S) \/ op = Hold(S) \/ op = Free(S) \/ op = Only(S)
    \/ \E d \in NeedsSetup : op = Configured(d)
    \/ \E p \in Plls \ {"P", "C"} : op = PllOn(p) \/ op = PllOff(p)
Pin(op) == op = Settle \/ \E S, b : op = Drive(S, b) \/ op = Output(S, b) \/ op = Mode(S, b)
Access(op) == \E S, w : op = Use(S, w) \/ op = Vblank(w) \/ op = Tell(w)
Setting(op) ==
    \/ \E n, v : op = SetVar(n, v) /\ Fits(n, v)
    \/ \E n, k, v : op = SetAt(n, k, v) /\ n \notin Vars
    \/ \E n, S, T : op = Change(n, S, T) /\ n \notin Vars
Sent(op) == \E b, n, k, v : op = Send(b, n, k, v) /\ n \notin Vars
Updated(op) == \E b, n, S, T : op = Bits(b, n, S, T) /\ n \notin Vars
Verified(op) == \E b, n, k, v, l : op = Verify(b, n, k, v, l) /\ n \notin Vars
RailWritten(op) ==
    \/ \E r \in RailNames : \E c \in 0 .. Regulators[r].codes - 1 : op = Rmw(r, "code", c)
    \/ \E r \in RailNames : \E b : op = Rmw(r, "on", b)
Plain(op) ==
    Gate(op) \/ Pin(op) \/ Access(op) \/ Setting(op) \/ Sent(op) \/ Updated(op) \/ Verified(op) \/ RailWritten(op)

LEMMA RailTable ==
    /\ RailNames = {"sd0", "sd1", "sd2", "sd3", "ldo0", "ldo1", "ldo2", "ldo3", "ldo4", "ldo5", "ldo6", "ldo7", "ldo8",
                    "cpu0", "gpu0", "cpu1"}
    /\ \A r \in RailNames : /\ Regulators[r].codes \in Nat \ {0} /\ Regulators[r].min \in Nat
                            /\ Regulators[r].step \in Nat \ {0} /\ Regulators[r].max \in Nat /\ Regulators[r].default \in Nat
BY DEF RailNames, Regulators, Regulator

LEMMA VarPut ==
    ASSUME NEW s, StateOK(s), NEW v, VarOK(v),
           v.family = s.var.family, v.fid = s.var.fid, v.want = s.var.want, v.pclk = s.var.pclk, v.divn = s.var.divn
    PROVE  StateOK([s EXCEPT !.var = v]) /\ SameClock([s EXCEPT !.var = v], s)
BY DEF StateOK, SameClock, Fields

\* A field that no decision reads.
LEMMA FieldPut ==
    ASSUME NEW s, StateOK(s), NEW f \in {"pin", "out", "gpio", "fresh", "lapse"}, NEW v
    PROVE  StateOK([s EXCEPT ![f] = v]) /\ SameClock([s EXCEPT ![f] = v], s)
BY DEF StateOK, SameClock, Fields

LEMMA SameTrans ==
    ASSUME NEW s, NEW t, NEW u, SameClock(s, t), SameClock(t, u)
    PROVE  SameClock(s, u)
BY DEF SameClock

\* A variable that is written.
LEMMA PutFits ==
    ASSUME NEW s, StateOK(s), NEW n, NEW v, Fits(n, v)
    PROVE  StateOK([s EXCEPT !.var[n] = v]) /\ SameClock([s EXCEPT !.var[n] = v], s)
<1> DEFINE w == [s.var EXCEPT ![n] = v]
<1>1. VarOK(s.var) BY DEF StateOK
<1>2. VarOK(w) /\ w.family = s.var.family /\ w.fid = s.var.fid /\ w.want = s.var.want /\ w.pclk = s.var.pclk /\ w.divn = s.var.divn
  BY <1>1 DEF VarOK, Vars, Fits
<1>3. [s EXCEPT !.var[n] = v] = [s EXCEPT !.var = w] OBVIOUS
<1> HIDE DEF w
<1> QED BY <1>2, <1>3, VarPut

\* Transfers: the lapse of the bus, and a fault that is counted.
LEMMA BusKeeps ==
    ASSUME NEW bus, NEW S, \A s \in S : StateOK(s) /\ SameClock(s, soc),
           NEW t \in OnBus(bus, S)
    PROVE  StateOK(t) /\ SameClock(t, soc)
<1>1. PICK s \in S : t = [s EXCEPT !.lapse = @ \cup Lapses({bus}, "transfer")] BY DEF OnBus
<1>2. PICK v : t = [s EXCEPT !["lapse"] = v] BY <1>1
<1> QED BY <1>2, FieldPut, SameTrans
LEMMA UnluckyKeeps ==
    ASSUME NEW S, \A s \in S : StateOK(s) /\ SameClock(s, soc), NEW t \in Unlucky(S)
    PROVE  StateOK(t) /\ SameClock(t, soc)
<1>1. PICK s \in S : t = [s EXCEPT !.var.faults = @ + 1] BY DEF Unlucky
<1>2. PICK v : t = [s EXCEPT !.var["faults"] = v] BY <1>1
<1>3. Fits("faults", v) BY DEF Fits
<1> QED BY <1>2, <1>3, PutFits, SameTrans

Harmless(op) == \A t \in Exec(op) : StateOK(t) /\ SameClock(t, soc)
LEMMA GatesKeep == ASSUME StateOK(soc), NEW op, Gate(op) PROVE Harmless(op)
<1> SUFFICES ASSUME NEW t \in Exec(op) PROVE StateOK(t) /\ SameClock(t, soc) BY DEF Harmless
<1>1. CASE \E S \in SUBSET Devices : op = On(S)
  <2>1. PICK S \in SUBSET Devices : op = On(S) BY <1>1
  <2>2. t = With("clk", soc.clk \cup S) BY <2>1 DEF Exec, On
  <2> QED BY <2>2 DEF With, StateOK, SameClock, Fields
<1>2. CASE \E S \in SUBSET Devices : op = Off(S)
  <2>1. PICK S \in SUBSET Devices : op = Off(S) BY <1>2
  <2>2. t = With("clk", soc.clk \ S) BY <2>1 DEF Exec, Off
  <2> QED BY <2>2 DEF With, StateOK, SameClock, Fields
<1>3. CASE \E S \in SUBSET Devices : op = Hold(S)
  <2>1. PICK S \in SUBSET Devices : op = Hold(S) BY <1>3
  <2>2. t = [soc EXCEPT !.rst = @ \cup S, !.set = @ \ S] BY <2>1 DEF Exec, Hold
  <2> QED BY <2>2 DEF StateOK, SameClock, Fields
<1>4. CASE \E S \in SUBSET Devices : op = Free(S)
  <2>1. PICK S \in SUBSET Devices : op = Free(S) BY <1>4
  <2>2. t = With("rst", soc.rst \ S) BY <2>1 DEF Exec, Free
  <2> QED BY <2>2 DEF With, StateOK, SameClock, Fields
<1>5. CASE \E S \in SUBSET Devices : op = Only(S)
  <2>1. PICK S \in SUBSET Devices : op = Only(S) BY <1>5
  <2>2. t = With("clk", S) BY <2>1 DEF Exec, Only
  <2> QED BY <2>2 DEF With, StateOK, SameClock, Fields
<1>6. CASE \E d \in NeedsSetup : op = Configured(d)
  <2>1. PICK d \in NeedsSetup : op = Configured(d) BY <1>6
  <2>2. t = [soc EXCEPT !.set = @ \cup {op[2]}, !.lapse = @ \cup {<<e, "setup">> : e \in {e \in {op[2]} : ~Alive(e)}}]
    BY <2>1 DEF Exec, Configured
  <2>3. op[2] = d BY <2>1 DEF Configured
  <2>4. PICK l : t = [soc EXCEPT !.set = @ \cup {d}, !.lapse = l] BY <2>2, <2>3
  <2> QED BY <2>4 DEF StateOK, SameClock, Fields
<1>7. CASE \E p \in Plls \ {"P", "C"} : op = PllOn(p)
  <2>1. PICK p \in Plls \ {"P", "C"} : op = PllOn(p) BY <1>7
  <2>2. t = With("pll", soc.pll \cup {p}) BY <2>1 DEF Exec, PllOn
  <2> QED BY <2>2 DEF With, StateOK, SameClock, Fields
<1>8. CASE \E p \in Plls \ {"P", "C"} : op = PllOff(p)
  <2>1. PICK p \in Plls \ {"P", "C"} : op = PllOff(p) BY <1>8
  <2>2. t = With("pll", soc.pll \ {p}) BY <2>1 DEF Exec, PllOff
  <2> QED BY <2>2 DEF With, StateOK, SameClock, Fields
<1> QED BY <1>1, <1>2, <1>3, <1>4, <1>5, <1>6, <1>7, <1>8 DEF Gate

LEMMA PinsKeep == ASSUME StateOK(soc), NEW op, Pin(op) PROVE Harmless(op)
<1> SUFFICES ASSUME NEW t \in Exec(op) PROVE StateOK(t) /\ SameClock(t, soc) BY DEF Harmless
<1>1. CASE \E S, b : op = Drive(S, b)
  <2>1. PICK S, b : op = Drive(S, b) BY <1>1
  <2>2. t = [soc EXCEPT !.pin = IF b THEN @ \cup S ELSE @ \ S,
                        !.fresh = @ \cup {p \in S : (p \in soc.pin) # b}] BY <2>1 DEF Exec, Drive
  <2>3. PICK v, w : t = [soc EXCEPT !.pin = v, !.fresh = w] BY <2>2
  <2> QED BY <2>3 DEF StateOK, SameClock, Fields
<1>2. CASE \E S, b : op = Output(S, b)
  <2>1. PICK S, b : op = Output(S, b) BY <1>2
  <2>2. PICK v : t = [soc EXCEPT !["out"] = v] BY <2>1 DEF Exec, Output, With
  <2> QED BY <2>2, FieldPut
<1>3. CASE \E S, b : op = Mode(S, b)
  <2>1. PICK S, b : op = Mode(S, b) BY <1>3
  <2>2. PICK v : t = [soc EXCEPT !["gpio"] = v] BY <2>1 DEF Exec, Mode, With
  <2> QED BY <2>2, FieldPut
<1>4. CASE op = Settle
  <2>1. t = [soc EXCEPT !["fresh"] = {}] BY <1>4 DEF Exec, Settle, With
  <2> QED BY <2>1, FieldPut
<1> QED BY <1>1, <1>2, <1>3, <1>4 DEF Pin

LEMMA AccessesKeep == ASSUME StateOK(soc), NEW op, Access(op) PROVE Harmless(op)
<1> SUFFICES ASSUME NEW t \in Exec(op) PROVE StateOK(t) /\ SameClock(t, soc) BY DEF Harmless
<1>0. SameClock(soc, soc) BY DEF SameClock
<1>1. CASE \E S, w : op = Use(S, w)
  <2>1. PICK S, w : op = Use(S, w) BY <1>1
  <2>2. PICK v : t = [soc EXCEPT !["lapse"] = v] BY <2>1 DEF Exec, Use, With
  <2> QED BY <2>2, FieldPut
<1>2. CASE \E w : op = Vblank(w)
  <2>1. PICK w : op = Vblank(w) BY <1>2
  <2>2. t = soc \/ \E v : t = [soc EXCEPT !["lapse"] = v] BY <2>1 DEF Exec, Vblank, With
  <2> QED BY <1>0, <2>2, FieldPut
<1>3. CASE \E w : op = Tell(w)
  <2>1. PICK w : op = Tell(w) BY <1>3
  <2>2. PICK v : t = [soc EXCEPT !["lapse"] = v] BY <2>1 DEF Exec, Tell, With
  <2> QED BY <2>2, FieldPut
<1> QED BY <1>1, <1>2, <1>3 DEF Access

LEMMA SettingsKeep == ASSUME StateOK(soc), NEW op, Setting(op) PROVE Harmless(op)
<1> SUFFICES ASSUME NEW t \in Exec(op) PROVE StateOK(t) /\ SameClock(t, soc) BY DEF Harmless
<1>1. CASE \E n, v : op = SetVar(n, v) /\ Fits(n, v)
  <2>1. PICK n, v : op = SetVar(n, v) /\ Fits(n, v) BY <1>1
  <2>2. t = [soc EXCEPT !.var[n] = v] BY <2>1 DEF Exec, SetVar, Put
  <2> QED BY <2>1, <2>2, PutFits
<1>2. CASE \E n, k, v : op = SetAt(n, k, v) /\ n \notin Vars
  <2>1. PICK n, k, v : op = SetAt(n, k, v) /\ n \notin Vars BY <1>2
  <2>2. t = [soc EXCEPT !.var[n][k] = v] BY <2>1 DEF Exec, SetAt, PutAt
  <2>3. PICK w : t = [soc EXCEPT !.var[n] = w] BY <2>2
  <2> QED BY <2>1, <2>3, PutFits DEF Fits, Vars
<1>3. CASE \E n, S, T : op = Change(n, S, T) /\ n \notin Vars
  <2>1. PICK n, S, T : op = Change(n, S, T) /\ n \notin Vars BY <1>3
  <2>2. t = Put(n, (soc.var[n] \ S) \cup T) BY <2>1 DEF Exec, Change
  <2>3. PICK w : t = [soc EXCEPT !.var[n] = w] BY <2>2 DEF Put
  <2> QED BY <2>1, <2>3, PutFits DEF Fits, Vars
<1> QED BY <1>1, <1>2, <1>3 DEF Setting

\* A rail that is written, whole or in part.
LEMMA RailPut ==
    ASSUME StateOK(soc), NEW r \in RailNames, NEW old, DOMAIN old = {"code", "on"},
           old.code \in 0 .. Regulators[r].codes - 1, NEW field \in {"code", "on"}, NEW v,
           field = "code" => v \in 0 .. Regulators[r].codes - 1,
           NEW t, t = [soc EXCEPT !.rail[r] = [old EXCEPT ![field] = v], !.fresh = @ \cup {r}]
    PROVE  StateOK(t) /\ SameClock(t, soc)
<1> DEFINE new == [old EXCEPT ![field] = v]
           rail == [soc.rail EXCEPT ![r] = new]
<1>1. DOMAIN new = {"code", "on"} /\ new.code \in 0 .. Regulators[r].codes - 1 OBVIOUS
<1>2. RailOK(soc.rail) BY DEF StateOK
<1>3. RailOK(rail)
  <2> HIDE DEF new
  <2> QED BY <1>1, <1>2 DEF RailOK
<1>4. PICK w : t = [soc EXCEPT !.rail = rail, !.fresh = w] OBVIOUS
<1> HIDE DEF rail
<1> QED BY <1>3, <1>4 DEF StateOK, SameClock, Fields

LEMMA SentKeeps == ASSUME StateOK(soc), NEW op, Sent(op) \/ Updated(op) \/ Verified(op) PROVE Harmless(op)
<1> SUFFICES ASSUME NEW t \in Exec(op) PROVE StateOK(t) /\ SameClock(t, soc) BY DEF Harmless
<1>0. StateOK(soc) /\ SameClock(soc, soc) BY DEF SameClock
<1> DEFINE Fine(s) == StateOK(s) /\ SameClock(s, soc)
<1>1. CASE Sent(op)
  <2>1. PICK b, n, k, v : op = Send(b, n, k, v) /\ n \notin Vars BY <1>1 DEF Sent
  <2>2. t \in OnBus(b, {PutAt(n, k, v)} \cup Unlucky({soc})) BY <2>1 DEF Exec, Send
  <2>3. PICK w : PutAt(n, k, v) = [soc EXCEPT !.var[n] = w] BY DEF PutAt
  <2>4. Fits(n, w) BY <2>1 DEF Fits, Vars
  <2>5. Fine(PutAt(n, k, v)) BY ONLY <1>0, <2>3, <2>4, PutFits
  <2>6. \A s \in {PutAt(n, k, v)} \cup Unlucky({soc}) : Fine(s) BY <1>0, <2>5, UnluckyKeeps
  <2> QED BY <2>2, <2>6, BusKeeps
<1>2. CASE Updated(op)
  <2>1. PICK b, n, S, T : op = Bits(b, n, S, T) /\ n \notin Vars BY <1>2 DEF Updated
  <2> DEFINE Written(old) == Put(n, (old \ S) \cup T)
  <2>2. t \in OnBus(b, {Written(soc.var[n])} \cup Unlucky({soc, Written({})})) BY <2>1 DEF Exec, Bits
  <2>3. ASSUME NEW old PROVE Fine(Written(old))
    <3>1. \E w : Written(old) = [soc EXCEPT !.var[n] = w] BY DEF Put
    <3> HIDE DEF Written
    <3>2. PICK w : Written(old) = [soc EXCEPT !.var[n] = w] BY <3>1
    <3>3. Fits(n, w) BY <2>1 DEF Fits, Vars
    <3>4. Fine([soc EXCEPT !.var[n] = w]) BY ONLY <1>0, <3>3, PutFits
    <3> QED BY ONLY <3>2, <3>4
  <2> HIDE DEF Written
  <2>4. \A s \in {soc, Written({})} : Fine(s) BY <1>0, <2>3
  <2>5. \A s \in {Written(soc.var[n])} \cup Unlucky({soc, Written({})}) : Fine(s) BY <2>3, <2>4, UnluckyKeeps
  <2> QED BY <2>2, <2>5, BusKeeps
<1>3. CASE Verified(op)
  <2>1. PICK b, n, k, v, l : op = Verify(b, n, k, v, l) /\ n \notin Vars BY <1>3 DEF Verified
  <2>2. t \in OnBus(b, {IF l = "" \/ soc.var[n][l] = "open" THEN PutAt(n, k, v) ELSE soc}) BY <2>1 DEF Exec, Verify
  <2>3. PICK w : PutAt(n, k, v) = [soc EXCEPT !.var[n] = w] BY DEF PutAt
  <2>4. Fits(n, w) BY <2>1 DEF Fits, Vars
  <2>5. Fine(PutAt(n, k, v)) BY ONLY <1>0, <2>3, <2>4, PutFits
  <2>6. \A s \in {IF l = "" \/ soc.var[n][l] = "open" THEN PutAt(n, k, v) ELSE soc} : Fine(s) BY <1>0, <2>5
  <2> QED BY <2>2, <2>6, BusKeeps
<1> HIDE DEF Fine
<1> QED BY <1>1, <1>2, <1>3

LEMMA RailsKeep == ASSUME StateOK(soc), NEW op, RailWritten(op) PROVE Harmless(op)
<1> SUFFICES ASSUME NEW t \in Exec(op) PROVE StateOK(t) /\ SameClock(t, soc) BY DEF Harmless
<1> DEFINE Fine(s) == StateOK(s) /\ SameClock(s, soc)
<1>1. ASSUME NEW r \in RailNames, NEW field \in {"code", "on"}, NEW v, field = "code" => v \in 0 .. Regulators[r].codes - 1,
             op = Rmw(r, field, v)
      PROVE  StateOK(t) /\ SameClock(t, soc)
  <2> DEFINE To(old) == [soc EXCEPT !.rail[r] = [old EXCEPT ![field] = v], !.fresh = @ \cup {r}]
             Lost == IF r \in Apart THEN soc.rail[r] ELSE [code |-> 0, on |-> FALSE]
  <2>1. t \in OnBus("I2C5", {To(soc.rail[r])} \cup Unlucky({To(Lost)})) BY <1>1 DEF Exec, Rmw
  <2>2. DOMAIN soc.rail[r] = {"code", "on"} /\ soc.rail[r].code \in 0 .. Regulators[r].codes - 1 BY DEF StateOK, RailOK
  <2>3. DOMAIN Lost = {"code", "on"} /\ Lost.code \in 0 .. Regulators[r].codes - 1 BY <2>2, RailTable
  <2>4. Fine(To(soc.rail[r])) BY <1>1, <2>2, RailPut
  <2>5. Fine(To(Lost))
    <3> HIDE DEF Lost
    <3> QED BY <1>1, <2>3, RailPut
  <2> HIDE DEF To, Lost
  <2>6. \A s \in {To(soc.rail[r])} \cup Unlucky({To(Lost)}) : Fine(s) BY <2>4, <2>5, UnluckyKeeps
  <2> QED BY <2>1, <2>6, BusKeeps
<1> HIDE DEF Fine
<1> QED BY <1>1 DEF RailWritten

\* Whatever they do, the types stay, and the clock of the processor.
LEMMA PlainKeeps == ASSUME StateOK(soc), NEW op, Plain(op) PROVE Harmless(op)
BY GatesKeep, PinsKeep, AccessesKeep, SettingsKeep, SentKeeps, RailsKeep DEF Plain

(***************************************************************************)
(* Calls that are made of such operations and of each other, and the       *)
(* sequences of them.                                                      *)
(***************************************************************************)
Uarts == {"UARTB", "UARTC"}
\* Calls whose arguments do not matter.
Simple ==
    {"dvs", "config_fps", "config_gpio", "max77620_config_default", "rtc_get_time", "stop_alarm", "enable_charger",
     "battery_removal", "tmp451", "max17050_fix", "regulator_5v_enable", "regulator_5v_disable", "usb_src", "set_fan_duty",
     "jc_power_supply", "jc_deinit", "touch", "als_power_on", "ccplex_enable_power", "ccplex_boot_cpu0", "bpmp_mmu_enable",
     "bpmp_mmu_disable", "minerva_init", "minerva_prep_boot_freq", "minerva_periodic_training", "smmu_enable", "kfuse_read",
     "pllu", "display_init", "display_hw_end", "display_end", "pwm_init", "brightness", "get_brightness", "color_screen",
     "framebuffer", "console", "cursor", "dsi_read", "dsi_write", "set_decoded", "config_regulators", "seamless", "sd_mount"}
CleanCall(f, a) ==
    \/ f \in Simple
    \/ f \in {"set_voltage", "regulator_enable", "max77621_config_default"} /\ a[1] \in RailNames
    \/ f = "config_default" /\ a \in RailNames
    \/ f = "minerva_change_freq" /\ a \in Rates
    \/ f \in {"uart_init", "jc_uart_init"} /\ a \in Uarts
Quiet(op) == Plain(op) \/ \E f, a : op = Call(f, a) /\ CleanCall(f, a)

\* Calls that change the clock of the processor: those that leave it as they
\* found it, the one that sets it, and those of the boot path that set it.
Restoring(op) == \E a : op = Call("bpmp_clk_rate_get", a) \/ op = Call("tsec_query", a) \/ op = Call("jc_init_hw", a)
Rate(g) == Call("bpmp_clk_rate_set", g)
RateCall(op) == \E g \in Nat : op = Rate(g)
BootCalls == {"jc_init_hw", "hw_reinit", "power_set_state", "ipl_main_mounted", "launch_payload"}
BootOp(op) == op = Sclk("P") \/ \E f \in BootCalls : \E a : op = Call(f, a)
Allowed(op, kind) ==
    \/ Quiet(op)
    \/ kind \in {"neutral", "loose"} /\ Restoring(op)
    \/ kind \in {"loose", "boot"} /\ RateCall(op)
    \/ kind = "boot" /\ BootOp(op)
Script(s, kind) == \E S : s \in Seq(S) /\ \A op \in S : Allowed(op, kind)

\* Scripts put together, and taken apart.
LEMMA Empty == \A k : Script(<<>>, k)
<1> TAKE k
<1> DEFINE S == {}
<1>1. <<>> \in Seq(S) /\ \A op \in S : Allowed(op, k) OBVIOUS
<1> HIDE DEF S
<1> QED BY <1>1 DEF Script
LEMMA One == ASSUME NEW k, NEW a, Allowed(a, k) PROVE Script(<<a>>, k)
<1> DEFINE S == {a}
<1>1. <<a>> \in Seq(S) /\ \A op \in S : Allowed(op, k) OBVIOUS
<1> HIDE DEF S
<1> QED BY <1>1 DEF Script
LEMMA Joined ==
    ASSUME NEW k, NEW s, NEW t, Script(s, k), Script(t, k)
    PROVE  Script(s \o t, k)
<1>1. PICK S : s \in Seq(S) /\ \A op \in S : Allowed(op, k) BY DEF Script
<1>2. PICK T : t \in Seq(T) /\ \A op \in T : Allowed(op, k) BY DEF Script
<1>3. s \in Seq(S \cup T) /\ t \in Seq(S \cup T) BY <1>1, <1>2
<1>4. s \o t \in Seq(S \cup T) BY <1>3
<1>5. \A op \in S \cup T : Allowed(op, k) BY <1>1, <1>2
<1> QED BY <1>4, <1>5 DEF Script
LEMMA Indexed ==
    ASSUME NEW k, NEW n \in Nat, NEW f, f = [i \in 1 .. n |-> f[i]], \A i \in 1 .. n : Allowed(f[i], k)
    PROVE  Script(f, k)
<1> DEFINE S == {f[i] : i \in 1 .. n}
<1>1. f \in [1 .. n -> S] OBVIOUS
<1>2. \A op \in S : Allowed(op, k) OBVIOUS
<1> HIDE DEF S
<1>3. f \in Seq(S) BY <1>1
<1> QED BY <1>2, <1>3 DEF Script
LEMMA Weaker ==
    ASSUME NEW s, NEW k, Script(s, "quiet") \/ (Script(s, "neutral") /\ k = "loose")
    PROVE  Script(s, k)
BY DEF Script, Allowed
LEMMA Split ==
    ASSUME NEW s, NEW k, Script(s, k), s # <<>>
    PROVE  s = <<Head(s)>> \o Tail(s) /\ Allowed(Head(s), k) /\ Script(Tail(s), k)
<1>1. PICK S : s \in Seq(S) /\ \A op \in S : Allowed(op, k) BY DEF Script
<1>2. Head(s) \in S /\ Tail(s) \in Seq(S) /\ s = <<Head(s)>> \o Tail(s) BY <1>1
<1> QED BY <1>1, <1>2 DEF Script

\* The same for operations and calls that leave the clock alone, as the scripts
\* are written.
Calm(s) == Script(s, "quiet")
LEMMA CalmRules ==
    /\ Calm(<<>>)
    /\ \A s, t : Calm(s) /\ Calm(t) => Calm(s \o t)
    /\ \A c, s : Calm(s) => Calm(If(c, s))
    /\ \A a : Quiet(a) => Calm(<<a>>)
    /\ \A a, b : Quiet(a) /\ Quiet(b) => Calm(<<a, b>>)
    /\ \A a, b, c : Quiet(a) /\ Quiet(b) /\ Quiet(c) => Calm(<<a, b, c>>)
    /\ \A a, b, c, d : Quiet(a) /\ Quiet(b) /\ Quiet(c) /\ Quiet(d) => Calm(<<a, b, c, d>>)
<1>1. Calm(<<>>) BY Empty DEF Calm
<1>2. ASSUME NEW s, NEW t, Calm(s), Calm(t) PROVE Calm(s \o t) BY <1>2, Joined DEF Calm
<1>3. \A c, s : Calm(s) => Calm(If(c, s)) BY <1>1 DEF If
<1>4. ASSUME NEW a, Quiet(a) PROVE Calm(<<a>>) BY <1>4, One DEF Calm, Allowed
<1>5. ASSUME NEW a, NEW b, Quiet(a), Quiet(b) PROVE Calm(<<a, b>>)
  <2> DEFINE S == {a, b}
  <2>1. <<a, b>> \in Seq(S) /\ \A op \in S : Allowed(op, "quiet") BY <1>5 DEF Allowed
  <2> HIDE DEF S
  <2> QED BY <2>1 DEF Calm, Script
<1>6. ASSUME NEW a, NEW b, NEW c, Quiet(a), Quiet(b), Quiet(c) PROVE Calm(<<a, b, c>>)
  <2> DEFINE S == {a, b, c}
  <2>1. <<a, b, c>> \in Seq(S) /\ \A op \in S : Allowed(op, "quiet") BY <1>6 DEF Allowed
  <2> HIDE DEF S
  <2> QED BY <2>1 DEF Calm, Script
<1>7. ASSUME NEW a, NEW b, NEW c, NEW d, Quiet(a), Quiet(b), Quiet(c), Quiet(d) PROVE Calm(<<a, b, c, d>>)
  <2> DEFINE S == {a, b, c, d}
  <2>1. <<a, b, c, d>> \in Seq(S) /\ \A op \in S : Allowed(op, "quiet") BY <1>7 DEF Allowed
  <2> HIDE DEF S
  <2> QED BY <2>1 DEF Calm, Script
<1> QED BY ONLY <1>1, <1>2, <1>3, <1>4, <1>5, <1>6, <1>7

LEMMA QuietGates ==
    /\ \A S \in SUBSET Devices : Quiet(On(S)) /\ Quiet(Off(S)) /\ Quiet(Hold(S)) /\ Quiet(Free(S)) /\ Quiet(Only(S))
    /\ \A d \in NeedsSetup : Quiet(Configured(d))
    /\ \A p \in Plls \ {"P", "C"} : Quiet(PllOn(p)) /\ Quiet(PllOff(p))
BY DEF Quiet, Plain, Gate
LEMMA QuietPins ==
    /\ \A S, b : Quiet(Drive(S, b)) /\ Quiet(Output(S, b)) /\ Quiet(Mode(S, b))
    /\ Quiet(Settle)
BY DEF Quiet, Plain, Pin
LEMMA QuietAccesses == \A w : Quiet(Vblank(w)) /\ Quiet(Tell(w)) /\ \A S : Quiet(Use(S, w))
BY DEF Quiet, Plain, Access
LEMMA QuietSettings ==
    /\ \A n, v : n \notin Vars => Quiet(SetVar(n, v))
    /\ \A p \in Panels : Quiet(SetVar("panel", p))
    /\ \A r \in Rates : Quiet(SetVar("rate", r))
    /\ \A n, k, v : n \notin Vars => Quiet(SetAt(n, k, v))
    /\ \A n, S, T : n \notin Vars => Quiet(Change(n, S, T))
BY DEF Quiet, Plain, Setting, Fits, Vars
LEMMA QuietTransfers ==
    /\ \A b, n, k, v : n \notin Vars => Quiet(Send(b, n, k, v))
    /\ \A b, n, S, T : n \notin Vars => Quiet(Bits(b, n, S, T))
    /\ \A b, n, k, v, l : n \notin Vars => Quiet(Verify(b, n, k, v, l))
    /\ \A r \in RailNames : \A c \in 0 .. Regulators[r].codes - 1 : Quiet(Rmw(r, "code", c))
    /\ \A r \in RailNames : \A b : Quiet(Rmw(r, "on", b))
<1>1. \A b, n, k, v : n \notin Vars => Quiet(Send(b, n, k, v)) BY DEF Quiet, Plain, Sent
<1>2. \A b, n, S, T : n \notin Vars => Quiet(Bits(b, n, S, T)) BY DEF Quiet, Plain, Updated
<1>3. \A b, n, k, v, l : n \notin Vars => Quiet(Verify(b, n, k, v, l)) BY DEF Quiet, Plain, Verified
<1>4. \A op : RailWritten(op) => Quiet(op) BY DEF Quiet, Plain
<1>5. /\ \A r \in RailNames : \A c \in 0 .. Regulators[r].codes - 1 : RailWritten(Rmw(r, "code", c))
      /\ \A r \in RailNames : \A b : RailWritten(Rmw(r, "on", b))
  BY DEF RailWritten
<1> QED BY ONLY <1>1, <1>2, <1>3, <1>4, <1>5
LEMMA QuietCalls ==
    /\ \A f \in Simple : \A a : Quiet(Call(f, a))
    /\ \A f \in {"set_voltage", "regulator_enable", "max77621_config_default"}, r \in RailNames : \A v : Quiet(Call(f, <<r, v>>))
    /\ \A r \in RailNames : Quiet(Call("config_default", r))
    /\ \A r \in Rates : Quiet(Call("minerva_change_freq", r))
    /\ \A f \in {"uart_init", "jc_uart_init"}, u \in Uarts : Quiet(Call(f, u))
<1>1. \A f, a : CleanCall(f, a) => Quiet(Call(f, a)) BY DEF Quiet
<1>2. \A f \in {"set_voltage", "regulator_enable", "max77621_config_default"}, r \in RailNames : \A v : CleanCall(f, <<r, v>>)
  BY DEF CleanCall
<1>3. /\ \A f \in Simple : \A a : CleanCall(f, a)
      /\ \A r \in RailNames : CleanCall("config_default", r)
      /\ \A r \in Rates : CleanCall("minerva_change_freq", r)
      /\ \A f \in {"uart_init", "jc_uart_init"}, u \in Uarts : CleanCall(f, u)
  BY DEF CleanCall
<1> QED BY ONLY <1>1, <1>2, <1>3

(***************************************************************************)
(* The drivers, one after the other.                                       *)
(***************************************************************************)
LEMMA ClockScripts ==
    /\ \A d \in Devices : Calm(clock_enable(d)) /\ Calm(clock_disable(d))
    /\ \A b : Calm(clock_enable_fuse(b))
    /\ \A u, b : Calm(clock_uart_use_src_div(u, b))
    /\ Calm(clock_enable_pllx) /\ Calm(clock_enable_pllu) /\ Calm(clock_disable_pllu) /\ Calm(clock_enable_utmipll)
    /\ Calm(bpmp_mmu_enable) /\ Calm(bpmp_mmu_disable)
<1>1. ASSUME NEW d \in Devices PROVE Calm(clock_enable(d)) /\ Calm(clock_disable(d))
  <2>1. Quiet(Hold({d})) /\ Quiet(Off({d})) /\ Quiet(On({d})) /\ Quiet(Free({d})) BY QuietGates
  <2> QED BY <2>1, CalmRules DEF clock_enable, clock_disable
<1>2. ASSUME NEW b PROVE Calm(clock_enable_fuse(b))
  <2>1. Quiet(On({"FUSEVIS"})) /\ Quiet(Off({"FUSEVIS"})) BY QuietGates DEF Devices
  <2> QED BY <2>1, CalmRules DEF clock_enable_fuse
<1>3. ASSUME NEW u, NEW b PROVE Calm(clock_uart_use_src_div(u, b))
  <2>1. \A v : Quiet(SetVar("uartdiv", v)) BY QuietSettings DEF Vars
  <2> QED BY <2>1, CalmRules, SMT DEF clock_uart_use_src_div
<1>4. Quiet(PllOn("X")) /\ Quiet(PllOn("U")) /\ Quiet(PllOff("U")) /\ Quiet(PllOn("UTMIP"))
  BY QuietGates DEF Plls
<1>5. Calm(clock_enable_pllx) /\ Calm(clock_enable_pllu) /\ Calm(clock_disable_pllu) /\ Calm(clock_enable_utmipll)
  BY <1>4, QuietPins, CalmRules DEF clock_enable_pllx, clock_enable_pllu, clock_disable_pllu, clock_enable_utmipll
<1>6. \A v : Quiet(SetVar("dirty", v)) /\ Quiet(SetVar("cache", v)) BY QuietSettings DEF Vars
<1>7. Calm(bpmp_mmu_enable) /\ Calm(bpmp_mmu_disable) BY <1>6, CalmRules DEF bpmp_mmu_enable, bpmp_mmu_disable
<1> QED BY ONLY <1>1, <1>2, <1>3, <1>5, <1>7

LEMMA MemoryScripts ==
    /\ Calm(mc_enable_ahb_redirect) /\ Calm(mc_disable_ahb_redirect) /\ Calm(mc_enable)
    /\ Calm(minerva_init) /\ (\A r \in Rates : Calm(minerva_change_freq(r)))
    /\ Calm(minerva_prep_boot_freq) /\ Calm(minerva_periodic_training)
    /\ Calm(smmu_enable) /\ Calm(smmu_init_for_tsec) /\ Calm(smmu_deinit_for_tsec)
    /\ \A d \in Devices : \A b : Calm(pmc_enable_partition(d, b))
<1>1. \A v : /\ Quiet(SetVar("ahb", v)) /\ Quiet(SetVar("minerva", v)) /\ Quiet(SetVar("smmu", v)) /\ Quiet(SetVar("tsecasid", v))
  BY QuietSettings DEF Vars
<1>2. Calm(mc_enable_ahb_redirect) /\ Calm(mc_disable_ahb_redirect)
  BY <1>1, CalmRules DEF mc_enable_ahb_redirect, mc_disable_ahb_redirect
<1>3. Quiet(On({"EMC", "MEM", "EMC_DLL"})) /\ Quiet(Free({"EMC", "MEM"})) BY QuietGates DEF Devices
<1>4. Calm(mc_enable) BY <1>2, <1>3, CalmRules DEF mc_enable
<1>5. \A r \in Rates : Calm(minerva_run(r)) BY QuietSettings, CalmRules DEF minerva_run
<1>6. Calm(minerva_run(204)) /\ Calm(minerva_run(800)) /\ Calm(minerva_run(1600)) BY <1>5 DEF Rates
<1>7. Calm(minerva_init)
  <2>1. Calm(<<SetVar("minerva", TRUE)>>) BY <1>1, CalmRules
  <2> QED BY <1>6, <2>1, CalmRules DEF minerva_init
<1>8. \A r \in Rates : Calm(minerva_change_freq(r)) BY <1>5, CalmRules DEF minerva_change_freq
<1>9. Calm(minerva_prep_boot_freq)
  <2>1. Quiet(Call("minerva_change_freq", 204)) /\ Quiet(Call("minerva_change_freq", 800)) BY QuietCalls DEF Rates
  <2> QED BY <2>1, CalmRules DEF minerva_prep_boot_freq
<1>10. Calm(minerva_periodic_training) BY <1>6, CalmRules DEF minerva_periodic_training
<1>11. Calm(smmu_enable)
  <2>1. Quiet(Call("ccplex_boot_cpu0", 0)) BY QuietCalls DEF Simple
  <2> QED BY <1>1, <2>1, QuietPins, CalmRules DEF smmu_enable
<1>12. Calm(smmu_init_for_tsec) /\ Calm(smmu_deinit_for_tsec) BY <1>1, CalmRules DEF smmu_init_for_tsec, smmu_deinit_for_tsec
<1>13. \A d \in Devices : \A b : Calm(pmc_enable_partition(d, b)) BY QuietGates, CalmRules DEF pmc_enable_partition
<1> QED BY ONLY <1>2, <1>4, <1>7, <1>8, <1>9, <1>10, <1>11, <1>12, <1>13

LEMMA EngineScripts ==
    /\ Calm(clock_enable_kfuse) /\ (\A w : Calm(kfuse_wait_ready(w))) /\ Calm(kfuse_read)
    /\ \A u \in NeedsSetup : \A b : Calm(uart_init(u, b))
<1>1. "KFUSE" \in Devices BY DEF Devices
<1>2. clock_enable_kfuse = clock_enable("KFUSE") BY DEF clock_enable_kfuse, clock_enable
<1>3. Calm(clock_enable_kfuse) BY <1>1, <1>2, ClockScripts
<1>4. \A w : Calm(kfuse_wait_ready(w)) BY QuietAccesses, CalmRules DEF kfuse_wait_ready
<1>5. Calm(kfuse_read) BY <1>1, <1>3, <1>4, ClockScripts, CalmRules DEF kfuse_read
<1>6. \A u \in NeedsSetup : \A b : Calm(uart_init(u, b)) BY QuietGates, ClockScripts, CalmRules DEF uart_init
<1> QED BY ONLY <1>3, <1>4, <1>5, <1>6

LEMMA PinScripts ==
    \A S : /\ \A b : Calm(gpio_config(S, b)) /\ Calm(gpio_output_enable(S, b)) /\ Calm(gpio_write(S, b))
           /\ Calm(OutputPin(S)) /\ Calm(InputPin(S))
<1>1. \A S, b : Calm(gpio_config(S, b)) /\ Calm(gpio_output_enable(S, b)) /\ Calm(gpio_write(S, b))
  BY QuietPins, CalmRules DEF gpio_config, gpio_output_enable, gpio_write
<1> QED BY <1>1, CalmRules DEF OutputPin, InputPin
LEMMA BusScripts == /\ \A b \in NeedsSetup : Calm(i2c_init(b))
                    /\ \A b, w : Calm(Transfer(b, w))
BY QuietGates, QuietAccesses, CalmRules DEF i2c_init, Transfer

LEMMA RegulatorScripts ==
    /\ \A r \in RailNames : \A v : /\ Calm(max7762x_regulator_set_voltage(r, v)) /\ Calm(max7762x_regulator_enable(r, v))
                               /\ Calm(max77621_config_default(r, v)) /\ Calm(RailOn(r, v))
    /\ \A r : Calm(max77620_regulator_config_fps(r)) /\ Calm(dvs(r))
    /\ \A r \in RailNames : Calm(config_default(r))
    /\ \A i, b : Calm(max77620_config_gpio(i, b))
    /\ Calm(max77620_config_default) /\ Calm(max77620_low_battery_monitor_config)
<1>1. \A n, k, v : n \in {"asked", "power", "dvs"} => Quiet(SetAt(n, k, v)) BY QuietSettings DEF Vars
<1>2. ASSUME NEW r \in RailNames, NEW v PROVE Calm(max7762x_regulator_set_voltage(r, v))
  <2>1. CASE v \in Regulators[r].min .. Regulators[r].max
    <3>1. Multiplier(r, v) \in 0 .. Regulators[r].codes - 1 BY <2>1, RailTable, SMT DEF Multiplier
    <3>2. Quiet(Rmw(r, "code", Multiplier(r, v))) BY <3>1, QuietTransfers
    <3>3. Calm(<<SetAt("asked", r, v), Rmw(r, "code", Multiplier(r, v))>>) BY <1>1, <3>2, CalmRules
    <3>4. Calm(<<Call("dvs", r)>>) BY QuietCalls, CalmRules DEF Simple
    <3>5. Calm(<<Settle>>) BY QuietPins, CalmRules
    <3> QED BY <3>3, <3>4, <3>5, CalmRules DEF max7762x_regulator_set_voltage
  <2>2. CASE ~(v \in Regulators[r].min .. Regulators[r].max)
    BY <2>2, CalmRules DEF max7762x_regulator_set_voltage, If
  <2> QED BY <2>1, <2>2
<1>3. ASSUME NEW r \in RailNames, NEW v PROVE Calm(max7762x_regulator_enable(r, v))
  BY <1>1, QuietTransfers, QuietPins, CalmRules DEF max7762x_regulator_enable
<1>4. ASSUME NEW r \in RailNames, NEW v PROVE Calm(RailOn(r, v))
  <2>1. Quiet(Call("set_voltage", <<r, v>>)) /\ Quiet(Call("regulator_enable", <<r, TRUE>>)) BY QuietCalls
  <2> QED BY <2>1, CalmRules DEF RailOn
<1>5. ASSUME NEW r \in RailNames, NEW v PROVE Calm(max77621_config_default(r, v))
  <2>1. \A u : Quiet(Call("set_voltage", <<r, u>>)) /\ Quiet(Call("regulator_enable", <<r, u>>)) BY QuietCalls
  <2>2. Calm(<<Call("set_voltage", <<r, 1000000>>), Call("regulator_enable", <<r, FALSE>>)>>) BY <2>1, CalmRules, SMT
  <2>3. Calm(Transfer("I2C5", "max77621_config_default")) BY BusScripts
  <2> QED BY <2>2, <2>3, CalmRules, SMT DEF max77621_config_default
<1>6. ASSUME NEW r PROVE Calm(max77620_regulator_config_fps(r)) /\ Calm(dvs(r))
  <2>1. \A S, T : Quiet(Change("fps", S, T)) BY QuietSettings DEF Vars
  <2>2. Calm(Transfer("I2C5", "config_fps")) /\ Calm(Transfer("I2C5", "dvs")) BY BusScripts
  <2>3. Calm(max77620_regulator_config_fps(r)) BY <2>1, <2>2, CalmRules DEF max77620_regulator_config_fps
  <2>4. Calm(dvs(r)) BY <1>1, <2>2, CalmRules DEF dvs
  <2> QED BY <2>3, <2>4
<1>7. ASSUME NEW r \in RailNames PROVE Calm(config_default(r))
  <2>1. Quiet(Call("config_fps", r)) BY QuietCalls DEF Simple
  <2>2. \A v : Quiet(Call("set_voltage", <<r, v>>)) /\ Quiet(Call("regulator_enable", <<r, v>>)) BY QuietCalls
  <2> QED BY <2>1, <2>2, CalmRules DEF config_default
<1>8. \A i, b : Calm(max77620_config_gpio(i, b))
  <2>1. \A S, T : Quiet(Bits("I2C5", "ame", S, T)) BY QuietTransfers DEF Vars
  <2>2. \A i, b : Quiet(Send("I2C5", "pgpio", i, b)) BY QuietTransfers DEF Vars
  <2> QED BY <2>1, <2>2, CalmRules DEF max77620_config_gpio
<1>9. Calm(max77620_config_default)
  <2> DEFINE loop == [i \in 1 .. Len(Loop) |-> Call("config_default", Loop[i])]
  <2>1. Len(Loop) = 12 /\ \A i \in 1 .. 12 : Loop[i] \in RailNames BY RailTable DEF Loop
  <2>2. \A i \in 1 .. Len(Loop) : Allowed(loop[i], "quiet") BY <2>1, QuietCalls DEF Allowed
  <2>3. Calm(loop) BY <2>1, <2>2, Indexed DEF Calm
  <2>4. Calm(Transfer("I2C5", "max77620_config_default")) BY BusScripts
  <2> HIDE DEF loop
  <2>5. Calm(loop \o Transfer("I2C5", "max77620_config_default")) BY <2>3, <2>4, CalmRules
  <2> QED BY <2>5, CalmRules DEF max77620_config_default, loop
<1>10. Calm(max77620_low_battery_monitor_config) BY BusScripts DEF max77620_low_battery_monitor_config
<1> QED BY ONLY <1>2, <1>3, <1>4, <1>5, <1>6, <1>7, <1>8, <1>9, <1>10

LEMMA ChipScripts ==
    /\ Calm(max77620_rtc_get_time) /\ Calm(max77620_rtc_stop_alarm)
    /\ Calm(bq24193_enable_charger) /\ Calm(bq24193_fake_battery_removal)
    /\ Calm(tmp451_init) /\ Calm(tmp451_end) /\ Calm(max17050_fix_configuration)
<1>1. \A b, k, v : Quiet(Send(b, "alarm", k, v)) /\ Quiet(Send(b, "tmp", k, v)) /\ Quiet(Send(b, "gauge", k, v))
  BY QuietTransfers DEF Vars
<1>2. \A b, S, T : Quiet(Bits(b, "por", S, T)) /\ Quiet(Bits(b, "timer", S, T)) /\ Quiet(Bits(b, "misc", S, T))
  BY QuietTransfers DEF Vars
<1>3. \A b, k, v, l : Quiet(Verify(b, "gauge", k, v, l)) BY QuietTransfers DEF Vars
<1>4. Calm(max77620_rtc_get_time) BY BusScripts DEF max77620_rtc_get_time
<1>5. Calm(max77620_rtc_stop_alarm)
  <2>1. Alarms = [i \in 1 .. 14 |-> Alarms[i]] BY DEF Alarms
  <2>2. \A i \in 1 .. 14 : Allowed(Alarms[i], "quiet") BY <1>1 DEF Alarms, Allowed
  <2>3. Calm(Alarms) BY <2>1, <2>2, Indexed DEF Calm
  <2>4. Calm(Transfer("I2C5", "rtc_stop_alarm")) BY BusScripts
  <2> QED BY <2>3, <2>4, CalmRules DEF max77620_rtc_stop_alarm
<1>6. Calm(bq24193_enable_charger) /\ Calm(bq24193_fake_battery_removal)
  BY <1>2, CalmRules DEF bq24193_enable_charger, bq24193_fake_battery_removal
<1>7. Calm(tmp451_init)
  <2> DEFINE o == IF soc.var.chip = "t210" THEN 0 ELSE -125
  <2>1. /\ Quiet(Send("I2C1", "tmp", "shut", FALSE)) /\ Quiet(Send("I2C1", "tmp", "offset", o))
        /\ Quiet(Send("I2C1", "tmp", "rate", 9)) /\ Quiet(Send("I2C1", "tmp", "rate", 2)) BY <1>1
  <2> HIDE DEF o
  <2> DEFINE s == <<Send("I2C1", "tmp", "shut", FALSE), Send("I2C1", "tmp", "offset", o), Send("I2C1", "tmp", "rate", 9),
                    Send("I2C1", "tmp", "rate", 2)>>
  <2>2. Calm(s) BY <2>1, CalmRules
  <2>3. Calm(Transfer("I2C1", "tmp451_init")) BY BusScripts
  <2>4. tmp451_init = Transfer("I2C1", "tmp451_init") \o s BY Zenon DEF tmp451_init, o
  <2> HIDE DEF s
  <2> QED BY <2>2, <2>3, <2>4, CalmRules
<1>8. Calm(tmp451_end) BY <1>1, CalmRules DEF tmp451_end
<1>9. Calm(max17050_fix_configuration)
  <2> DEFINE s == max17050_fix_configuration
  <2>1. s = [i \in 1 .. 14 |-> s[i]] BY DEF max17050_fix_configuration
  <2>2. /\ Quiet(s[1]) /\ Quiet(s[2]) /\ Quiet(s[3]) /\ Quiet(s[4]) /\ Quiet(s[5]) /\ Quiet(s[6]) /\ Quiet(s[7])
        /\ Quiet(s[8]) /\ Quiet(s[9]) /\ Quiet(s[10]) /\ Quiet(s[11]) /\ Quiet(s[12]) /\ Quiet(s[13]) /\ Quiet(s[14])
    BY <1>1, <1>3, QuietPins DEF max17050_fix_configuration
  <2> HIDE DEF s
  <2>3. \A i \in 1 .. 14 : Allowed(s[i], "quiet") BY <2>2 DEF Allowed
  <2>4. Calm(s) BY <2>1, <2>3, Indexed DEF Calm
  <2> QED BY <2>4 DEF s
<1> QED BY ONLY <1>4, <1>5, <1>6, <1>7, <1>8, <1>9

LEMMA UserScripts ==
    /\ \A d : Calm(regulator_5v_enable(d)) /\ Calm(regulator_5v_disable(d)) /\ Calm(set_fan_duty(d))
    /\ \A b : Calm(regulator_5v_usb_src_enable(b)) /\ Calm(jc_deinit(b))
    /\ \A j, b : Calm(jc_power_supply(j, b))
<1>1. \A v : /\ Quiet(SetVar("usb_src", v)) /\ Quiet(SetVar("duty", v)) /\ Quiet(SetVar("fan", v)) /\ Quiet(SetVar("blows", v))
  BY QuietSettings DEF Vars
<1>2. \A v : Calm(<<SetVar("usb_src", v)>>) /\ Calm(<<SetVar("duty", v)>>) /\ Calm(<<SetVar("fan", v)>>) BY <1>1, CalmRules
<1>3. \A S, T : Calm(<<Change("users", S, T)>>) BY QuietSettings, CalmRules DEF Vars
<1>4. ASSUME NEW d PROVE Calm(regulator_5v_enable(d))
  <2>1. Calm(If(UsbRail, OutputPin({"CC4"}) \o gpio_write({"CC4"}, FALSE))) BY PinScripts, CalmRules
  <2>2. Calm(OutputPin({"A5"}) \o gpio_write({"A5"}, TRUE) \o If(UsbRail, OutputPin({"CC4"}) \o gpio_write({"CC4"}, FALSE))
             \o <<SetVar("usb_src", FALSE)>>) BY <1>2, <2>1, PinScripts, CalmRules
  <2> QED BY <1>3, <2>2, CalmRules DEF regulator_5v_enable
<1>5. ASSUME NEW d PROVE Calm(regulator_5v_disable(d))
  <2> DEFINE usb == If(UsbRail, gpio_write({"CC4"}, FALSE) \o gpio_output_enable({"CC4"}, FALSE) \o gpio_config({"CC4"}, FALSE)
                                \o <<SetVar("usb_src", FALSE)>>)
             all == gpio_write({"A5"}, FALSE) \o gpio_output_enable({"A5"}, FALSE) \o gpio_config({"A5"}, FALSE) \o usb
  <2>1. Calm(usb) BY <1>2, PinScripts, CalmRules
  <2>2. Calm(all)
    <3> HIDE DEF usb
    <3> QED BY <2>1, PinScripts, CalmRules
  <2>3. regulator_5v_disable(d) = <<Change("users", {d}, {})>> \o If(soc.var.users \ {d} = {}, all)
    BY Zenon DEF regulator_5v_disable
  <2> HIDE DEF all
  <2> QED BY <1>3, <2>2, <2>3, CalmRules
<1>6. ASSUME NEW b PROVE Calm(regulator_5v_usb_src_enable(b))
  BY <1>2, PinScripts, CalmRules DEF regulator_5v_usb_src_enable
<1>7. ASSUME NEW d PROVE Calm(set_fan_duty(d))
  <2> DEFINE user == Call(IF d = 0 THEN "regulator_5v_disable" ELSE "regulator_5v_enable", "fan")
             first == If(~soc.var.fan, InputPin({"S7"}) \o <<Use({"PWM"}, "set_fan_duty")>> \o gpio_config({"V4"}, FALSE)
                                       \o <<SetVar("fan", TRUE)>>)
             rest == <<user, Use({"PWM"}, "set_fan_duty"), SetVar("blows", d)>>
  <2>1. Quiet(user) BY QuietCalls DEF Simple
  <2>2. Quiet(Use({"PWM"}, "set_fan_duty")) BY QuietAccesses
  <2>3. Calm(<<Use({"PWM"}, "set_fan_duty")>>) BY <2>2, CalmRules
  <2>4. Calm(first) BY <1>2, <2>3, PinScripts, CalmRules
  <2>5. Calm(rest)
    <3> HIDE DEF user
    <3> QED BY <1>1, <2>1, <2>2, CalmRules
  <2>6. set_fan_duty(d) = If(d # soc.var.duty, <<SetVar("duty", d)>> \o If(UsbRail, first \o rest))
    BY Zenon DEF set_fan_duty
  <2> HIDE DEF first, rest
  <2>7. Calm(<<SetVar("duty", d)>> \o If(UsbRail, first \o rest)) BY <1>2, <2>4, <2>5, CalmRules
  <2> QED BY <2>6, <2>7, CalmRules
<1>8. ASSUME NEW j, NEW b PROVE Calm(jc_power_supply(j, b))
  <2>1. Calm(<<Call("regulator_5v_enable", j)>>) /\ Calm(<<Call("regulator_5v_disable", j)>>)
    BY QuietCalls, CalmRules DEF Simple
  <2>2. /\ Calm(If(~soc.var.jc_init_done, OutputPin({ChargePin(j)})))
        /\ Calm(gpio_write({ChargePin(j)}, TRUE)) /\ Calm(gpio_write({ChargePin(j)}, FALSE)) BY PinScripts, CalmRules
  <2>3. /\ Calm(<<Call("regulator_5v_enable", j)>> \o If(~soc.var.jc_init_done, OutputPin({ChargePin(j)}))
                \o gpio_write({ChargePin(j)}, TRUE))
        /\ Calm(<<Call("regulator_5v_disable", j)>> \o gpio_write({ChargePin(j)}, FALSE)) BY <2>1, <2>2, CalmRules
  <2> QED BY <2>3, CalmRules DEF jc_power_supply
<1>9. ASSUME NEW b PROVE Calm(jc_deinit(b))
  <2>1. Calm(<<Call("jc_power_supply", <<"jcr", FALSE>>), Call("jc_power_supply", <<"jcl", FALSE>>)>>)
    BY QuietCalls, CalmRules DEF Simple
  <2>2. Calm(If(b, <<Use({"UARTB", "UARTC"}, "jc_deinit")>>)) BY QuietAccesses, CalmRules
  <2>3. Calm(clock_disable("UARTB")) /\ Calm(clock_disable("UARTC")) BY ClockScripts DEF Devices
  <2>4. Calm(gpio_config({"G0", "D1"}, FALSE)) BY PinScripts
  <2> QED BY <2>1, <2>2, <2>3, <2>4, CalmRules DEF jc_deinit
<1> QED BY ONLY <1>4, <1>5, <1>6, <1>7, <1>8, <1>9

LEMMA SensorScripts == Calm(touch_power_on) /\ Calm(touch_power_off) /\ Calm(als_power_on)
<1>1. /\ Calm(clock_enable("I2C3")) /\ Calm(clock_disable("I2C3")) /\ Calm(i2c_init("I2C3"))
      /\ Calm(clock_enable("I2C2")) /\ Calm(i2c_init("I2C2"))
  BY ClockScripts, BusScripts DEF Devices, NeedsSetup
<1>2. \A v : Calm(RailOn("ldo6", v)) BY RegulatorScripts, RailTable
<1>3. Calm(RailOn("ldo6", 2900000)) BY <1>2, SMT
<1>4. Calm(Transfer("I2C3", "touch_power_on")) /\ Calm(Transfer("I2C2", "als_power_on")) BY BusScripts
<1>5. Calm(OutputPin({"J7"})) /\ Calm(gpio_write({"J7"}, TRUE)) /\ Calm(gpio_write({"J7"}, FALSE)) /\ Calm(gpio_config({"S3"}, TRUE))
  BY PinScripts
<1>6. Calm(<<Call("regulator_enable", <<"ldo6", FALSE>>)>>) BY QuietCalls, RailTable, CalmRules
<1>7. Calm(touch_power_on)
  <2>1. ASSUME NEW r, Calm(r)
        PROVE  Calm(r \o OutputPin({"J7"}) \o gpio_write({"J7"}, TRUE) \o gpio_config({"S3"}, TRUE)
                    \o clock_enable("I2C3") \o i2c_init("I2C3") \o Transfer("I2C3", "touch_power_on"))
    <3> DEFINE x == r \o OutputPin({"J7"}) \o gpio_write({"J7"}, TRUE) \o gpio_config({"S3"}, TRUE)
    <3>1. Calm(x) BY <1>5, <2>1, CalmRules
    <3> HIDE DEF x
    <3>2. Calm(x \o clock_enable("I2C3") \o i2c_init("I2C3") \o Transfer("I2C3", "touch_power_on")) BY <1>1, <1>4, <3>1, CalmRules
    <3> QED BY <3>2 DEF x
  <2> DEFINE rail == RailOn("ldo6", 2900000)
  <2>2. touch_power_on = rail \o OutputPin({"J7"}) \o gpio_write({"J7"}, TRUE) \o gpio_config({"S3"}, TRUE)
                         \o clock_enable("I2C3") \o i2c_init("I2C3") \o Transfer("I2C3", "touch_power_on")
    BY SMT DEF touch_power_on
  <2>3. Calm(rail) BY <1>3, SMT
  <2> HIDE DEF rail
  <2> QED BY <2>1, <2>2, <2>3
<1>8. Calm(touch_power_off) BY <1>1, <1>5, <1>6, CalmRules DEF touch_power_off
<1>9. Calm(als_power_on) BY <1>1, <1>3, <1>4, CalmRules, SMT DEF als_power_on
<1> QED BY ONLY <1>7, <1>8, <1>9

LEMMA CoreScripts == Calm(ccplex_enable_power) /\ Calm(ccplex_boot_cpu0)
<1>1. \A v : Calm(RailOn("cpu0", v)) /\ Calm(RailOn("cpu1", v)) BY RegulatorScripts, RailTable
<1>2. Calm(<<Call("config_gpio", <<5, TRUE>>), Call("max77621_config_default", <<"cpu0", FALSE>>)>>)
  <2>1. Quiet(Call("config_gpio", <<5, TRUE>>)) BY QuietCalls DEF Simple
  <2>2. Quiet(Call("max77621_config_default", <<"cpu0", FALSE>>)) BY QuietCalls, RailTable
  <2> QED BY <2>1, <2>2, CalmRules
<1>3. Calm(ccplex_enable_power) BY <1>1, <1>2, CalmRules, SMT DEF ccplex_enable_power
<1>4. {"MSELECT", "CPUG", "CSITE", "CRAIL", "C0NC", "CE0"} \subseteq Devices BY DEF Devices
<1>5. Quiet(On({"MSELECT", "CPUG"})) /\ Quiet(Free({"MSELECT", "CPUG"})) BY <1>4, QuietGates
<1>6. Calm(<<On({"MSELECT", "CPUG"}), SetAt("source", "CPUG", "X")>>) BY <1>5, QuietSettings, CalmRules DEF Vars
<1>7. Calm(<<Call("ccplex_enable_power", 0)>>) BY QuietCalls, CalmRules DEF Simple
<1>8. Calm(<<Free({"MSELECT", "CPUG"}), Use({"CPUG", "MSELECT", "CSITE", "CRAIL", "C0NC", "CE0"}, "ccplex_boot_cpu0")>>)
  <2> DEFINE u == Use({"CPUG", "MSELECT", "CSITE", "CRAIL", "C0NC", "CE0"}, "ccplex_boot_cpu0")
  <2>1. Quiet(u) BY QuietAccesses
  <2> HIDE DEF u
  <2>2. Calm(<<Free({"MSELECT", "CPUG"}), u>>) BY <1>5, <2>1, CalmRules
  <2> QED BY <2>2 DEF u
<1>9. /\ Calm(clock_enable("CSITE")) /\ Calm(pmc_enable_partition("CRAIL", TRUE)) /\ Calm(pmc_enable_partition("C0NC", TRUE))
      /\ Calm(pmc_enable_partition("CE0", TRUE)) /\ Calm(clock_enable_pllx)
  BY <1>4, ClockScripts, MemoryScripts
<1>10. Calm(ccplex_boot_cpu0) BY <1>6, <1>7, <1>8, <1>9, CalmRules DEF ccplex_boot_cpu0
<1> QED BY ONLY <1>3, <1>10

LEMMA PanelPins == Calm(lcd_power_on)
<1>1. Calm(<<Settle>>) BY QuietPins, CalmRules
<1>2. Calm(OutputPin({"I0", "I1"}) \o gpio_write({"I0"}, TRUE) \o <<Settle>> \o gpio_write({"I1"}, TRUE) \o <<Settle>>
           \o OutputPin({"V0", "V1", "V2"}) \o gpio_write({"V1"}, TRUE)) BY <1>1, PinScripts, CalmRules
<1>3. Calm(OutputPin({"V2"})) BY PinScripts
<1> QED BY <1>2, <1>3 DEF lcd_power_on

LEMMA CommandScripts ==
    /\ \A w : Calm(dsi_cmd(w)) /\ Calm(display_dsi_vblank_write(w))
    /\ \A v : Calm(display_dsi_read(v))
    /\ Calm(display_dsi_write)
<1>1. \A w : Calm(dsi_cmd(w)) BY QuietAccesses, CalmRules DEF dsi_cmd
<1>2. \A S, w : Calm(<<Use(S, w), Vblank(w)>>) /\ Calm(<<Vblank(w)>>) BY QuietAccesses, CalmRules
<1>3. ASSUME NEW w PROVE Calm(display_dsi_vblank_write(w)) BY <1>1, <1>2, CalmRules DEF display_dsi_vblank_write
<1>4. ASSUME NEW v PROVE Calm(display_dsi_read(v)) BY <1>1, <1>2, CalmRules DEF display_dsi_read
<1>5. Calm(display_dsi_write) BY <1>1 DEF display_dsi_write
<1> QED BY ONLY <1>1, <1>3, <1>4, <1>5

LEMMA PanelIds == ASSUME StateOK(soc) PROVE \A b : Decoded(b) \in Panels
BY DEF Decoded, StateOK, VarOK, Panels

LEMMA PanelScripts ==
    ASSUME StateOK(soc)
    PROVE  /\ \A n : Calm(display_init_panel(n)) /\ Calm(display_init(n))
           /\ \A b : Calm(display_set_decoded_panel_id(b))
<1>1. \A b : Quiet(SetVar("panel", Decoded(b))) BY PanelIds, QuietSettings
<1>2. \A v : Quiet(SetVar("aula", v)) /\ Quiet(SetVar("video", v)) BY QuietSettings DEF Vars
<1>3. ASSUME NEW n PROVE Calm(display_init_panel(n))
  <2>1. Calm(If(n >= 1, display_dsi_read(FALSE))) /\ Calm(If(n >= 2, display_dsi_read(FALSE))) BY CommandScripts, CalmRules
  <2>2. Calm(<<SetVar("panel", Decoded(n < 3))>>) BY <1>1, CalmRules
  <2>3. Calm(<<Use({"DSI", "DISP1", "MIPI_CAL"}, "display_init"), SetVar("video", TRUE)>>) BY <1>2, QuietAccesses, CalmRules
  <2>4. Calm(display_dsi_read(FALSE)) /\ Calm(dsi_cmd("display_init")) BY CommandScripts
  <2> QED BY <2>1, <2>2, <2>3, <2>4, CalmRules DEF display_init_panel
<1>4. ASSUME NEW n PROVE Calm(display_init(n))
  <2> DEFINE first == <<SetVar("aula", soc.var.hw = "aula")>>
             old == If("DISP1" \in soc.clk, <<Call("display_hw_end", soc.var.hw = "aula")>>)
             sd2 == <<Call("set_voltage", <<"sd2", 1325000>>), Rmw("sd2", "on", TRUE), Call("regulator_enable", <<"sd2", TRUE>>)>>
             core == If(soc.var.chip = "t210b01", sd2)
             ldo0 == RailOn("ldo0", 1200000)
             gpio == If(soc.var.chip = "t210", <<Call("config_gpio", <<7, TRUE>>)>>)
             gates == <<Free({"MIPI_CAL", "DSI"}), On({"MIPI_CAL", "DSI"}), Free({"HOST1X", "DISP1"}), On({"HOST1X", "DISP1"}),
                        On({"UART_FST_MIPI_CAL"}), On({"DSIA_LP"})>>
             plls == <<Use({"MIPI_CAL"}, "display_init"), SetAt("source", "DISP1", "D"), PllOn("D"),
                       Use({"DISP1", "DSI"}, "display_init"), Settle>>
  <2>1. Calm(first) BY <1>2, CalmRules
  <2>2. Calm(old) BY QuietCalls, CalmRules DEF Simple
  <2>3. Calm(core) /\ Calm(ldo0)
    <3> DEFINE volts == Call("set_voltage", <<"sd2", 1325000>>)
    <3>1. \A v : Quiet(Call("set_voltage", <<"sd2", v>>)) /\ Quiet(Call("regulator_enable", <<"sd2", v>>)) BY QuietCalls, RailTable
    <3>2. Quiet(Rmw("sd2", "on", TRUE)) BY QuietTransfers, RailTable
    <3>3. Calm(sd2)
      <4>1. Quiet(volts) BY <3>1, SMT
      <4>2. sd2 = <<volts, Rmw("sd2", "on", TRUE), Call("regulator_enable", <<"sd2", TRUE>>)>> BY SMT
      <4> HIDE DEF volts, sd2
      <4> QED BY <3>1, <3>2, <4>1, <4>2, CalmRules
    <3>4. \A v : Calm(RailOn("ldo0", v)) BY RegulatorScripts, RailTable
    <3>5. Calm(RailOn("ldo0", 1200000)) BY <3>4, SMT
    <3> HIDE DEF sd2
    <3> QED BY <3>3, <3>5, CalmRules, SMT
  <2>4. Calm(gpio) BY QuietCalls, CalmRules DEF Simple
  <2>5. Calm(gates)
    <3>1. {"MIPI_CAL", "DSI", "HOST1X", "DISP1", "UART_FST_MIPI_CAL", "DSIA_LP"} \subseteq Devices BY DEF Devices
    <3>2. /\ Quiet(Free({"MIPI_CAL", "DSI"})) /\ Quiet(On({"MIPI_CAL", "DSI"})) /\ Quiet(Free({"HOST1X", "DISP1"}))
          /\ Quiet(On({"HOST1X", "DISP1"})) /\ Quiet(On({"UART_FST_MIPI_CAL"})) /\ Quiet(On({"DSIA_LP"}))
      BY <3>1, QuietGates
    <3>3. gates = [i \in 1 .. 6 |-> gates[i]] /\ \A i \in 1 .. 6 : Allowed(gates[i], "quiet") BY <3>2 DEF Allowed
    <3> HIDE DEF gates
    <3> QED BY <3>3, Indexed DEF Calm
  <2>6. Calm(plls)
    <3>1. /\ Quiet(Use({"MIPI_CAL"}, "display_init")) /\ Quiet(SetAt("source", "DISP1", "D")) /\ Quiet(PllOn("D"))
          /\ Quiet(Use({"DISP1", "DSI"}, "display_init")) /\ Quiet(Settle)
      BY QuietAccesses, QuietSettings, QuietGates, QuietPins DEF Vars, Plls
    <3>2. plls = [i \in 1 .. 5 |-> plls[i]] /\ \A i \in 1 .. 5 : Allowed(plls[i], "quiet") BY <3>1 DEF Allowed
    <3> HIDE DEF plls
    <3> QED BY <3>2, Indexed DEF Calm
  <2>7. display_init(n) = first \o old \o core \o ldo0 \o gpio \o gates \o lcd_power_on \o plls
                          \o gpio_write({"V2"}, TRUE) \o <<Settle>> \o display_init_panel(n)
    BY SMT DEF display_init
  <2>8. Calm(gpio_write({"V2"}, TRUE)) /\ Calm(<<Settle>>) BY QuietPins, PinScripts, CalmRules
  <2> HIDE DEF first, old, core, ldo0, gpio, gates, plls
  <2> DEFINE start == first \o old \o core \o ldo0 \o gpio \o gates
  <2>9. Calm(start) BY <2>1, <2>2, <2>3, <2>4, <2>5, CalmRules
  <2> HIDE DEF start
  <2>10. Calm(start \o lcd_power_on \o plls \o gpio_write({"V2"}, TRUE) \o <<Settle>> \o display_init_panel(n))
    BY <1>3, <2>6, <2>8, <2>9, PanelPins, CalmRules
  <2> QED BY <2>7, <2>10 DEF start
<1>5. \A b : Calm(display_set_decoded_panel_id(b)) BY <1>1, <1>2, CalmRules DEF display_set_decoded_panel_id
<1> QED BY ONLY <1>3, <1>4, <1>5

LEMMA LightScripts ==
    /\ Calm(display_backlight_pwm_init) /\ Calm(display_get_backlight_brightness)
    /\ \A v : Calm(display_backlight(v)) /\ Calm(display_backlight_brightness(v))
<1>1. Calm(display_backlight_pwm_init)
  <2>1. Calm(clock_enable("PWM")) BY ClockScripts DEF Devices
  <2>2. Calm(<<Use({"PWM"}, "display_backlight_pwm_init")>>) BY QuietAccesses, CalmRules
  <2>3. Calm(gpio_config({"V0"}, FALSE)) BY PinScripts
  <2> QED BY <2>1, <2>2, <2>3, CalmRules DEF display_backlight_pwm_init
<1>2. Calm(display_get_backlight_brightness) BY QuietAccesses, CalmRules DEF display_get_backlight_brightness
<1>3. \A v : Calm(display_backlight(v)) BY PinScripts DEF display_backlight
<1>4. ASSUME NEW v PROVE Calm(display_backlight_brightness(v))
  <2>1. Quiet(SetVar("glow", v)) BY QuietSettings DEF Vars
  <2>2. Calm(<<SetVar("glow", v)>>) BY <2>1, CalmRules
  <2>3. Calm(display_dsi_backlight_brightness(v)) BY <2>2, CommandScripts, CalmRules DEF display_dsi_backlight_brightness
  <2>4. Calm(display_pwm_backlight_brightness(v)) BY <2>1, QuietAccesses, CalmRules DEF display_pwm_backlight_brightness
  <2> QED BY <2>3, <2>4 DEF display_backlight_brightness
<1> QED BY ONLY <1>1, <1>2, <1>3, <1>4

LEMMA DisplayEnds ==
    /\ \A b : Calm(display_hw_end(b))
    /\ Calm(display_panel_end) /\ Calm(display_end)
<1>1. \A v : Quiet(SetVar("video", v)) BY QuietSettings DEF Vars
<1>2. ASSUME NEW b PROVE Calm(display_hw_end(b))
  <2> DEFINE gates == <<Hold({"MIPI_CAL", "DSI"}), Off({"MIPI_CAL", "DSI"}), Hold({"HOST1X", "DISP1"}), Off({"HOST1X", "DISP1"}),
                        SetVar("video", FALSE), Use({"DSI"}, "pads")>>
             rails == If(~b, gpio_write({"I1"}, FALSE) \o <<Settle>> \o gpio_write({"I0"}, FALSE) \o <<Settle>>)
             light == If(~b, gpio_config({"V0"}, FALSE))
  <2>1. Calm(gates)
    <3>1. {"MIPI_CAL", "DSI", "HOST1X", "DISP1"} \subseteq Devices BY DEF Devices
    <3>2. /\ Quiet(Hold({"MIPI_CAL", "DSI"})) /\ Quiet(Off({"MIPI_CAL", "DSI"})) /\ Quiet(Hold({"HOST1X", "DISP1"}))
          /\ Quiet(Off({"HOST1X", "DISP1"})) /\ Quiet(SetVar("video", FALSE)) /\ Quiet(Use({"DSI"}, "pads"))
      BY <1>1, <3>1, QuietGates, QuietAccesses
    <3>3. gates = [i \in 1 .. 6 |-> gates[i]] OBVIOUS
    <3>4. Quiet(gates[1]) /\ Quiet(gates[2]) /\ Quiet(gates[3]) /\ Quiet(gates[4]) /\ Quiet(gates[5]) /\ Quiet(gates[6]) BY <3>2
    <3> HIDE DEF gates
    <3>5. \A i \in 1 .. 6 : Allowed(gates[i], "quiet") BY <3>4 DEF Allowed
    <3> QED BY <3>3, <3>5, Indexed DEF Calm
  <2>2. Calm(<<Settle>>) BY QuietPins, CalmRules
  <2>3. Calm(rails) /\ Calm(light) /\ Calm(gpio_write({"V2"}, FALSE)) BY <2>2, PinScripts, CalmRules
  <2>4. display_hw_end(b) = gpio_write({"V2"}, FALSE) \o <<Settle>> \o rails \o gates \o light BY Zenon DEF display_hw_end
  <2> HIDE DEF rails, light, gates
  <2> QED BY <2>1, <2>2, <2>3, <2>4, CalmRules
<1>3. Calm(display_panel_end)
  <2> DEFINE first == <<Call("brightness", 0), Use({"DSI", "DISP1"}, "display_end"), SetVar("video", FALSE)>>
             told == If(soc.var.panel \in {"jdi", "auo62", "known55"}, dsi_cmd("display_end"))
  <2>1. Calm(first)
    <3>1. Quiet(Call("brightness", 0)) /\ Quiet(Use({"DSI", "DISP1"}, "display_end")) BY QuietCalls, QuietAccesses DEF Simple
    <3> QED BY <1>1, <3>1, CalmRules
  <2>2. Calm(told) /\ Calm(dsi_cmd("display_end")) BY CommandScripts, CalmRules
  <2>3. display_panel_end = first \o told \o dsi_cmd("display_end") BY Zenon DEF display_panel_end
  <2> HIDE DEF first, told
  <2> QED BY <2>1, <2>2, <2>3, CalmRules
<1>4. Calm(display_end) BY <1>3, QuietCalls, CalmRules DEF display_end, Simple
<1> QED BY ONLY <1>2, <1>3, <1>4

LEMMA PictureScripts ==
    /\ Calm(display_color_screen)
    /\ \A v : Calm(display_init_framebuffer(v)) /\ Calm(display_console(v)) /\ Calm(display_cursor(v))
<1>1. \A v : Quiet(SetVar("window", v)) /\ Quiet(SetVar("console", v)) /\ Quiet(SetVar("cursor", v)) BY QuietSettings DEF Vars
<1>2. \A v, w : Calm(<<Use({"DISP1"}, w), SetVar("window", v), Settle>>) BY <1>1, QuietAccesses, QuietPins, CalmRules
<1>3. Calm(IF soc.var.panel # "sam" THEN display_backlight(TRUE) ELSE <<Call("brightness", 255)>>)
  <2>1. Calm(<<Call("brightness", 255)>>) BY QuietCalls, CalmRules DEF Simple
  <2> QED BY <2>1, LightScripts
<1>4. Calm(display_color_screen) BY <1>2, <1>3, CalmRules DEF display_color_screen
<1>5. \A v : Calm(display_init_framebuffer(v)) BY <1>2 DEF display_init_framebuffer
<1>6. \A v : Calm(display_console(v)) /\ Calm(display_cursor(v))
  BY <1>1, QuietAccesses, CalmRules DEF display_console, display_cursor
<1> QED BY ONLY <1>4, <1>5, <1>6

LEMMA BootScripts ==
    /\ Calm(config_se_brom) /\ Calm(mbist_workaround) /\ Calm(config_gpios) /\ Calm(config_regulators)
    /\ Calm(seamless) /\ Calm(sd_mount)
<1>1. Calm(config_se_brom) BY ClockScripts, QuietAccesses, CalmRules DEF config_se_brom
<1>2. Calm(mbist_workaround)
  <2> DEFINE s == mbist_workaround
  <2>1. s = [i \in 1 .. 9 |-> s[i]] BY DEF mbist_workaround
  <2>2. /\ {"AHUB", "APE", "VIC", "HOST1X", "DISP1"} \subseteq Devices
        /\ {"PMC", "FUSE", "RTC", "TMR", "GPIO", "CSITE", "MSELECT", "SE", "GPU", "FUSEVIS"} \subseteq Devices
    BY DEF Devices
  <2>3. /\ Quiet(On({"AHUB", "APE"})) /\ Quiet(Free({"APE", "VIC", "HOST1X", "DISP1"}))
        /\ Quiet(Hold({"APE", "VIC", "HOST1X", "DISP1"}))
        /\ Quiet(Only({"PMC", "FUSE", "RTC", "TMR", "GPIO", "CSITE", "MSELECT", "SE", "GPU", "FUSEVIS"}))
    BY <2>2, QuietGates
  <2>4. Quiet(PllOn("D")) /\ Quiet(PllOff("D")) BY QuietGates DEF Plls
  <2>5. Quiet(Use(Mbist, "mbist")) BY QuietAccesses
  <2>6. /\ Quiet(s[1]) /\ Quiet(s[2]) /\ Quiet(s[3]) /\ Quiet(s[4]) /\ Quiet(s[5]) /\ Quiet(s[6]) /\ Quiet(s[7]) /\ Quiet(s[8])
        /\ Quiet(s[9])
    BY <2>3, <2>4, <2>5, QuietPins DEF mbist_workaround
  <2> HIDE DEF s
  <2>7. \A i \in 1 .. 9 : Allowed(s[i], "quiet") BY <2>6 DEF Allowed
  <2>8. Calm(s) BY <2>1, <2>7, Indexed DEF Calm
  <2> QED BY <2>8 DEF s
<1>3. Calm(config_gpios) BY PinScripts, CalmRules DEF config_gpios
<1>4. Calm(config_regulators)
  <2> DEFINE first == If(soc.var.chip = "t210", <<Call("set_voltage", <<"ldo4", 1000000>>)>>)
             off == <<Call("regulator_enable", <<"ldo2", FALSE>>)>>
             fps == [i \in 1 .. 5 |-> Call("config_fps", <<"ldo4", "ldo8", "sd0", "sd1", "sd3">>[i])]
             cpus == <<Call("set_voltage", <<"sd0", 1125000>>), Call("config_gpio", <<5, FALSE>>), Call("config_gpio", <<6, FALSE>>),
                       Call("max77621_config_default", <<"cpu0", TRUE>>), Call("max77621_config_default", <<"gpu0", TRUE>>)>>
             sd0 == <<Call("set_voltage", <<"sd0", 1050000>>)>>
             last == IF soc.var.chip = "t210" THEN fps \o cpus ELSE sd0
  <2>1. {"ldo4", "ldo2", "sd0", "cpu0", "gpu0"} \subseteq RailNames BY RailTable
  <2>2. \A v : /\ Quiet(Call("set_voltage", <<"ldo4", v>>)) /\ Quiet(Call("set_voltage", <<"sd0", v>>))
               /\ Quiet(Call("regulator_enable", <<"ldo2", v>>))
               /\ Quiet(Call("max77621_config_default", <<"cpu0", v>>)) /\ Quiet(Call("max77621_config_default", <<"gpu0", v>>))
    BY <2>1, QuietCalls
  <2>3. Calm(first)
    <3>1. \A v : Calm(If(soc.var.chip = "t210", <<Call("set_voltage", <<"ldo4", v>>)>>)) BY <2>2, CalmRules
    <3> QED BY <3>1, SMT
  <2>4. Calm(off) BY <2>2, CalmRules
  <2>5. Calm(fps)
    <3>1. fps = [i \in 1 .. 5 |-> fps[i]] OBVIOUS
    <3>2. \A i \in 1 .. 5 : Allowed(fps[i], "quiet") BY QuietCalls DEF Allowed, Simple
    <3> HIDE DEF fps
    <3> QED BY <3>1, <3>2, Indexed DEF Calm
  <2>6. Calm(cpus)
    <3> DEFINE volts == Call("set_voltage", <<"sd0", 1125000>>)
               c == <<volts, Call("config_gpio", <<5, FALSE>>), Call("config_gpio", <<6, FALSE>>),
                      Call("max77621_config_default", <<"cpu0", TRUE>>), Call("max77621_config_default", <<"gpu0", TRUE>>)>>
    <3>1. cpus = c BY SMT
    <3>2. Quiet(volts)
      <4>1. \A v : Quiet(Call("set_voltage", <<"sd0", v>>)) BY <2>2
      <4> QED BY <4>1, SMT
    <3> HIDE DEF volts, cpus
    <3>3. Quiet(Call("config_gpio", <<5, FALSE>>)) /\ Quiet(Call("config_gpio", <<6, FALSE>>)) BY QuietCalls DEF Simple
    <3>4. c = [i \in 1 .. 5 |-> c[i]] OBVIOUS
    <3>5. Quiet(c[1]) /\ Quiet(c[2]) /\ Quiet(c[3]) /\ Quiet(c[4]) /\ Quiet(c[5]) BY <2>2, <3>2, <3>3
    <3> HIDE DEF c
    <3>6. \A i \in 1 .. 5 : Allowed(c[i], "quiet") BY <3>5 DEF Allowed
    <3> QED BY <3>1, <3>4, <3>6, Indexed DEF Calm
  <2>7. Calm(sd0)
    <3>1. \A v : Calm(<<Call("set_voltage", <<"sd0", v>>)>>) BY <2>2, CalmRules
    <3> QED BY <3>1, SMT
  <2> HIDE DEF fps, cpus, sd0
  <2>8. Calm(last) BY <2>5, <2>6, <2>7, CalmRules
  <2>9. /\ Calm(max77620_low_battery_monitor_config) /\ Calm(gpio_write({"E4"}, FALSE)) /\ Calm(Transfer("I2C5", "config_regulators"))
    BY RegulatorScripts, PinScripts, BusScripts
  <2>10. config_regulators = first \o max77620_low_battery_monitor_config \o gpio_write({"E4"}, FALSE) \o off
                             \o Transfer("I2C5", "config_regulators") \o last
    BY SMT DEF config_regulators, fps, cpus, sd0
  <2> HIDE DEF first, off, last
  <2> QED BY <2>3, <2>4, <2>8, <2>9, <2>10, CalmRules
<1>5. Calm(seamless)
  <2>1. \A v : Calm(<<Call("brightness", v)>>) BY QuietCalls, CalmRules DEF Simple
  <2> QED BY <2>1, LightScripts, PinScripts, CalmRules DEF seamless
<1>6. Calm(sd_mount) BY QuietSettings, CalmRules DEF sd_mount, Vars
<1> QED BY ONLY <1>1, <1>2, <1>3, <1>4, <1>5, <1>6

\* Every call of those is a script of such operations and calls.
LEMMA SimpleBody == ASSUME StateOK(soc), NEW f \in Simple, NEW a PROVE Calm(Body(f, a))
<1>1. CASE f = "dvs" BY <1>1, RegulatorScripts DEF Body
<1>2. CASE f = "config_fps" BY <1>2, RegulatorScripts DEF Body
<1>3. CASE f = "config_gpio" BY <1>3, RegulatorScripts DEF Body
<1>4. CASE f = "max77620_config_default" BY <1>4, RegulatorScripts DEF Body
<1>5. CASE f = "rtc_get_time" BY <1>5, ChipScripts DEF Body
<1>6. CASE f = "stop_alarm" BY <1>6, ChipScripts DEF Body
<1>7. CASE f = "enable_charger" BY <1>7, ChipScripts DEF Body
<1>8. CASE f = "battery_removal" BY <1>8, ChipScripts DEF Body
<1>9. CASE f = "tmp451" BY <1>9, ChipScripts DEF Body
<1>10. CASE f = "max17050_fix" BY <1>10, ChipScripts DEF Body
<1>11. CASE f = "regulator_5v_enable" BY <1>11, UserScripts DEF Body
<1>12. CASE f = "regulator_5v_disable" BY <1>12, UserScripts DEF Body
<1>13. CASE f = "usb_src" BY <1>13, UserScripts DEF Body
<1>14. CASE f = "set_fan_duty" BY <1>14, UserScripts DEF Body
<1>15. CASE f = "jc_power_supply" BY <1>15, UserScripts DEF Body
<1>16. CASE f = "jc_deinit" BY <1>16, UserScripts DEF Body
<1>17. CASE f = "touch" BY <1>17, SensorScripts DEF Body
<1>18. CASE f = "als_power_on" BY <1>18, SensorScripts DEF Body
<1>19. CASE f = "ccplex_enable_power" BY <1>19, CoreScripts DEF Body
<1>20. CASE f = "ccplex_boot_cpu0" BY <1>20, CoreScripts DEF Body
<1>21. CASE f = "bpmp_mmu_enable" BY <1>21, ClockScripts DEF Body
<1>22. CASE f = "bpmp_mmu_disable" BY <1>22, ClockScripts DEF Body
<1>23. CASE f = "minerva_init" BY <1>23, MemoryScripts DEF Body
<1>24. CASE f = "minerva_prep_boot_freq" BY <1>24, MemoryScripts DEF Body
<1>25. CASE f = "minerva_periodic_training" BY <1>25, MemoryScripts DEF Body
<1>26. CASE f = "smmu_enable" BY <1>26, MemoryScripts DEF Body
<1>27. CASE f = "kfuse_read" BY <1>27, EngineScripts DEF Body
<1>28. CASE f = "pllu" BY <1>28, ClockScripts, CalmRules DEF Body
<1>29. CASE f = "display_init" BY <1>29, PanelScripts DEF Body
<1>30. CASE f = "display_hw_end" BY <1>30, DisplayEnds DEF Body
<1>31. CASE f = "display_end" BY <1>31, DisplayEnds DEF Body
<1>32. CASE f = "pwm_init" BY <1>32, LightScripts DEF Body
<1>33. CASE f = "brightness" BY <1>33, LightScripts DEF Body
<1>34. CASE f = "get_brightness" BY <1>34, LightScripts DEF Body
<1>35. CASE f = "color_screen" BY <1>35, PictureScripts DEF Body
<1>36. CASE f = "framebuffer" BY <1>36, PictureScripts DEF Body
<1>37. CASE f = "console" BY <1>37, PictureScripts DEF Body
<1>38. CASE f = "cursor" BY <1>38, PictureScripts DEF Body
<1>39. CASE f = "dsi_read" BY <1>39, CommandScripts DEF Body
<1>40. CASE f = "dsi_write" BY <1>40, CommandScripts DEF Body
<1>41. CASE f = "set_decoded" BY <1>41, PanelScripts DEF Body
<1>42. CASE f = "config_regulators" BY <1>42, BootScripts DEF Body
<1>43. CASE f = "seamless" BY <1>43, BootScripts DEF Body
<1>44. CASE f = "sd_mount" BY <1>44, BootScripts DEF Body
<1> QED BY <1>1, <1>2, <1>3, <1>4, <1>5, <1>6, <1>7, <1>8, <1>9, <1>10, <1>11, <1>12, <1>13, <1>14, <1>15, <1>16, <1>17, <1>18, <1>19, <1>20, <1>21, <1>22, <1>23, <1>24, <1>25, <1>26, <1>27, <1>28, <1>29, <1>30, <1>31, <1>32, <1>33, <1>34, <1>35, <1>36, <1>37, <1>38, <1>39, <1>40, <1>41, <1>42, <1>43, <1>44 DEF Simple
LEMMA CleanBody == ASSUME StateOK(soc), NEW f, NEW a, CleanCall(f, a) PROVE Calm(Body(f, a))
<1>1. CASE f \in Simple BY <1>1, SimpleBody
<1>2. CASE f = "set_voltage" /\ a[1] \in RailNames BY <1>2, RegulatorScripts DEF Body
<1>3. CASE f = "regulator_enable" /\ a[1] \in RailNames BY <1>3, RegulatorScripts DEF Body
<1>4. CASE f = "max77621_config_default" /\ a[1] \in RailNames BY <1>4, RegulatorScripts DEF Body
<1>5. CASE f = "config_default" /\ a \in RailNames BY <1>5, RegulatorScripts DEF Body
<1>6. CASE f = "minerva_change_freq" /\ a \in Rates BY <1>6, MemoryScripts DEF Body
<1>7. ASSUME a \in Uarts, NEW b PROVE Calm(uart_init(a, b)) /\ Calm(clock_enable(a) \o uart_init(a, b))
  <2>1. a \in Devices /\ a \in NeedsSetup BY <1>7 DEF Uarts, Devices, NeedsSetup
  <2> QED BY <2>1, ClockScripts, EngineScripts, CalmRules
<1>8. CASE f = "uart_init" /\ a \in Uarts BY <1>7, <1>8, SMT DEF Body
<1>9. CASE f = "jc_uart_init" /\ a \in Uarts BY <1>7, <1>9, SMT DEF Body
<1> QED BY <1>1, <1>2, <1>3, <1>4, <1>5, <1>6, <1>8, <1>9 DEF CleanCall

(***************************************************************************)
(* Sequences taken apart.                                                  *)
(***************************************************************************)
IsSeq(s) == \E S : s \in Seq(S)
LEMMA Pair == ASSUME NEW a, NEW b PROVE <<a, b>> = <<a>> \o <<b>>
<1> DEFINE S == {a, b}
           l == <<a, b>>
           r == <<a>> \o <<b>>
<1>1. l \in Seq(S) /\ Len(l) = 2 /\ l[1] = a /\ l[2] = b OBVIOUS
<1>2. <<a>> \in Seq(S) /\ <<b>> \in Seq(S) OBVIOUS
<1>3. r \in Seq(S) BY <1>2
<1>4. Len(r) = 2 /\ r[1] = a /\ r[2] = b OBVIOUS
<1> HIDE DEF S, l, r
<1>5. l = r BY <1>1, <1>3, <1>4
<1> QED BY <1>5 DEF l, r
LEMMA Triple == ASSUME NEW a, NEW b, NEW c PROVE <<a, b, c>> = <<a>> \o <<b, c>>
OBVIOUS
LEMMA Quadruple == ASSUME NEW a, NEW b, NEW c, NEW d PROVE <<a, b, c, d>> = <<a, b>> \o <<c, d>>
<1> DEFINE S == {a, b, c, d}
           l == <<a, b, c, d>>
           r == <<a, b>> \o <<c, d>>
<1>1. l \in Seq(S) /\ Len(l) = 4 /\ l[1] = a /\ l[2] = b /\ l[3] = c /\ l[4] = d OBVIOUS
<1>2. <<a, b>> \in Seq(S) /\ <<c, d>> \in Seq(S) OBVIOUS
<1>3. r \in Seq(S) BY <1>2
<1>4. Len(r) = 4 /\ r[1] = a /\ r[2] = b /\ r[3] = c /\ r[4] = d OBVIOUS
<1> HIDE DEF S, l, r
<1>5. l = r BY <1>1, <1>3, <1>4
<1> QED BY <1>5 DEF l, r
LEMMA Singles == \A a, b : IsSeq(<<>>) /\ IsSeq(<<a>>) /\ IsSeq(<<a, b>>)
<1> TAKE a, b
<1> DEFINE S == {a, b}
<1>1. <<>> \in Seq(S) /\ <<a>> \in Seq(S) /\ <<a, b>> \in Seq(S) OBVIOUS
<1> HIDE DEF S
<1> QED BY <1>1 DEF IsSeq
LEMMA Several == \A a, b, c, d : IsSeq(<<a, b, c>>) /\ IsSeq(<<a, b, c, d>>)
<1> TAKE a, b, c, d
<1> DEFINE S == {a, b, c, d}
<1>1. <<a, b, c>> \in Seq(S) /\ <<a, b, c, d>> \in Seq(S) OBVIOUS
<1> HIDE DEF S
<1> QED BY <1>1 DEF IsSeq
LEMMA Assoc == ASSUME NEW x, NEW y, NEW z, IsSeq(x), IsSeq(y), IsSeq(z) PROVE (x \o y) \o z = x \o (y \o z)
<1>1. PICK S : x \in Seq(S) BY DEF IsSeq
<1>2. PICK T : y \in Seq(T) BY DEF IsSeq
<1>3. PICK U : z \in Seq(U) BY DEF IsSeq
<1> QED BY <1>1, <1>2, <1>3
LEMMA SeqJoined == ASSUME NEW x, NEW y, IsSeq(x), IsSeq(y) PROVE IsSeq(x \o y)
<1>1. PICK S : x \in Seq(S) BY DEF IsSeq
<1>2. PICK T : y \in Seq(T) BY DEF IsSeq
<1> DEFINE U == S \cup T
<1>3. x \o y \in Seq(U) BY <1>1, <1>2
<1> HIDE DEF U
<1> QED BY <1>3 DEF IsSeq
LEMMA Unit == ASSUME NEW x, IsSeq(x) PROVE <<>> \o x = x /\ x \o <<>> = x
BY DEF IsSeq
LEMMA First ==
    ASSUME NEW a, NEW y, IsSeq(y)
    PROVE  /\ Head(<<a>> \o y) = a /\ Tail(<<a>> \o y) = y /\ <<a>> \o y # <<>> /\ IsSeq(<<a>> \o y)
<1>1. PICK S : y \in Seq(S) BY DEF IsSeq
<1>2. Head(<<a>> \o y) = a /\ Tail(<<a>> \o y) = y /\ <<a>> \o y # <<>> BY <1>1
<1> DEFINE T == S \cup {a}
<1>3. <<a>> \o y \in Seq(T) BY <1>1
<1> HIDE DEF T
<1> QED BY <1>2, <1>3 DEF IsSeq
LEMMA FirstOne == \A a : Head(<<a>>) = a /\ Tail(<<a>>) = <<>> /\ <<a>> # <<>>
OBVIOUS
LEMMA ScriptSeq == \A s, k : Script(s, k) => IsSeq(s)
BY DEF Script, IsSeq

\* The last setting of the clock in a script that may change it.
Clip(g) == IF g > 3 THEN 3 ELSE g
LastRate(s, f) ==
    \E a, g, b : /\ g \in Nat /\ Clip(g) = f /\ s = a \o (<<Rate(g)>> \o b)
                 /\ Script(a, "loose") /\ Script(b, "neutral")
LEMMA RateIsLoose == \A g \in Nat : Script(<<Rate(g)>>, "loose") /\ Script(<<Rate(g)>>, "boot")
<1> TAKE g \in Nat
<1>1. Allowed(Rate(g), "loose") /\ Allowed(Rate(g), "boot") BY DEF Allowed, RateCall
<1> QED BY <1>1, One
LEMMA LastAlone == ASSUME NEW g \in Nat PROVE LastRate(<<Rate(g)>>, Clip(g))
<1>1. Script(<<>>, "loose") /\ Script(<<>>, "neutral") BY Empty
<1>2. <<Rate(g)>> = <<>> \o (<<Rate(g)>> \o <<>>) BY Singles, Unit
<1> QED BY <1>1, <1>2 DEF LastRate
LEMMA LastBefore ==
    ASSUME NEW s, NEW f, NEW x, LastRate(s, f), Script(x, "loose")
    PROVE  LastRate(x \o s, f)
<1>1. PICK a, g, b : g \in Nat /\ s = a \o (<<Rate(g)>> \o b) /\ Clip(g) = f /\ Script(a, "loose") /\ Script(b, "neutral")
  BY DEF LastRate
<1> DEFINE y == <<Rate(g)>> \o b
<1>2. IsSeq(x) /\ IsSeq(a) /\ IsSeq(y) BY <1>1, ScriptSeq, First
<1> HIDE DEF y
<1>0. s = a \o y BY <1>1 DEF y
<1>3. x \o s = (x \o a) \o y BY ONLY <1>0, <1>2, Assoc, SMTT(40)
<1>4. Script(x \o a, "loose") BY <1>1, Joined
<1> QED BY <1>1, <1>3, <1>4 DEF LastRate, y
LEMMA LastAfter ==
    ASSUME NEW s, NEW f, NEW x, LastRate(s, f), Script(x, "neutral")
    PROVE  LastRate(s \o x, f)
<1>1. PICK a, g, b : g \in Nat /\ s = a \o (<<Rate(g)>> \o b) /\ Clip(g) = f /\ Script(a, "loose") /\ Script(b, "neutral")
  BY DEF LastRate
<1> DEFINE q == <<Rate(g)>>
           r == q \o b
<1>6. IsSeq(x) /\ IsSeq(b) /\ IsSeq(q) BY <1>1, ScriptSeq, Singles
<1>2. IsSeq(a) /\ IsSeq(x) /\ IsSeq(r) BY <1>1, ScriptSeq, First
<1> HIDE DEF q
<1>4. (q \o b) \o x = q \o (b \o x) BY ONLY <1>6, Assoc, SMTT(40)
<1>0. s = a \o r BY <1>1 DEF q
<1> HIDE DEF r
<1>3. s \o x = a \o (r \o x) BY ONLY <1>0, <1>2, Assoc, SMTT(40)
<1>5. Script(b \o x, "neutral") BY <1>1, Joined
<1> QED BY <1>1, <1>3, <1>4, <1>5 DEF LastRate, q, r
LEMMA LastLoose == ASSUME NEW s, NEW f, LastRate(s, f) PROVE Script(s, "loose")
<1>1. PICK a, g, b : g \in Nat /\ s = a \o (<<Rate(g)>> \o b) /\ Script(a, "loose") /\ Script(b, "neutral")
  BY DEF LastRate
<1>2. Script(b, "loose") BY <1>1, Weaker
<1>3. Script(<<Rate(g)>> \o b, "loose") BY <1>1, <1>2, RateIsLoose, Joined
<1> QED BY <1>1, <1>3, Joined
LEMMA LastSplit ==
    ASSUME NEW s, NEW f, LastRate(s, f)
    PROVE  /\ s # <<>> /\ s = <<Head(s)>> \o Tail(s) /\ IsSeq(Tail(s)) /\ Allowed(Head(s), "loose")
           /\ \/ \E g \in Nat : Head(s) = Rate(g) /\ Clip(g) = f /\ Script(Tail(s), "neutral")
              \/ LastRate(Tail(s), f)
<1>1. PICK a, g, b : g \in Nat /\ s = a \o (<<Rate(g)>> \o b) /\ Clip(g) = f /\ Script(a, "loose") /\ Script(b, "neutral")
  BY DEF LastRate
<1> DEFINE r == <<Rate(g)>> \o b
<1>2. IsSeq(a) /\ IsSeq(b) /\ IsSeq(r) BY <1>1, ScriptSeq, First
<1>0. s = a \o r BY <1>1
<1> HIDE DEF r
<1>3. CASE a = <<>>
  <2>1. s = r BY <1>0, <1>2, <1>3, Unit
  <2>2. Head(s) = Rate(g) /\ Tail(s) = b /\ s # <<>> BY <1>2, <2>1, First DEF r
  <2>3. Allowed(Rate(g), "loose") BY <1>1 DEF Allowed, RateCall
  <2> QED BY <1>1, <1>2, <2>1, <2>2, <2>3 DEF r
<1>4. CASE a # <<>>
  <2>1. a = <<Head(a)>> \o Tail(a) /\ Allowed(Head(a), "loose") /\ Script(Tail(a), "loose") BY <1>1, <1>4, Split
  <2> DEFINE h == Head(a)
             y == Tail(a)
  <2> HIDE DEF h, y
  <2>2. a = <<h>> \o y /\ Allowed(h, "loose") /\ Script(y, "loose") BY <2>1 DEF h, y
  <2>3. IsSeq(y) /\ IsSeq(<<h>>) BY <2>2, ScriptSeq, Singles
  <2>4. s = <<h>> \o (y \o r) BY ONLY <1>0, <1>2, <2>2, <2>3, Assoc
  <2>5. IsSeq(y \o r) BY <1>2, <2>3, SeqJoined
  <2>6. Head(s) = h /\ Tail(s) = y \o r /\ s # <<>> BY <2>4, <2>5, First
  <2>7. LastRate(Tail(s), f) BY <1>1, <2>2, <2>6 DEF LastRate, r
  <2> QED BY <2>2, <2>4, <2>5, <2>6, <2>7
<1> QED BY <1>3, <1>4

\* What is left to do where the family is not "boot": the clock ends at want.
Ends(s, f, want) == (Script(s, "neutral") /\ f = want) \/ LastRate(s, want)
\* And where it is: config_oscillators may still be to come.
Osc == <<Sclk("P"), SetVar("pclk", 3)>>
Booted(s) == \E a, b : s = a \o (Osc \o b) /\ Script(a, "boot") /\ Script(b, "boot")
Boots(s) == Script(s, "boot") \/ Booted(s)
LEMMA BootedBefore ==
    ASSUME NEW s, NEW x, Booted(s), Script(x, "boot")
    PROVE  Booted(x \o s)
<1>1. PICK a, b : s = a \o (Osc \o b) /\ Script(a, "boot") /\ Script(b, "boot") BY DEF Booted
<1> DEFINE r == Osc \o b
<1>2. IsSeq(x) /\ IsSeq(a) /\ IsSeq(r) BY <1>1, ScriptSeq, SeqJoined, Singles DEF Osc
<1>3. s = a \o r BY <1>1
<1> HIDE DEF r
<1>4. x \o s = (x \o a) \o r BY ONLY <1>2, <1>3, Assoc, SMTT(40)
<1>5. Script(x \o a, "boot") BY <1>1, Joined
<1> QED BY <1>1, <1>4, <1>5 DEF Booted, r
LEMMA BootedAfter ==
    ASSUME NEW s, NEW x, Booted(s), Script(x, "boot")
    PROVE  Booted(s \o x)
<1>1. PICK a, b : s = a \o (Osc \o b) /\ Script(a, "boot") /\ Script(b, "boot") BY DEF Booted
<1>2. IsSeq(Osc) BY Singles DEF Osc
<1> DEFINE r == Osc \o b
<1>3. IsSeq(x) /\ IsSeq(a) /\ IsSeq(b) /\ IsSeq(r) BY <1>1, <1>2, ScriptSeq, SeqJoined
<1>4. r \o x = Osc \o (b \o x) BY ONLY <1>2, <1>3, Assoc, SMTT(40)
<1>5. s = a \o r BY <1>1
<1> HIDE DEF r
<1>6. s \o x = a \o (r \o x) BY ONLY <1>3, <1>5, Assoc, SMTT(40)
<1>7. Script(b \o x, "boot") BY <1>1, Joined
<1> QED BY <1>1, <1>4, <1>6, <1>7 DEF Booted
LEMMA BootedSplit ==
    ASSUME NEW s, Booted(s)
    PROVE  /\ s # <<>> /\ s = <<Head(s)>> \o Tail(s) /\ IsSeq(Tail(s))
           /\ \/ /\ Head(s) = Sclk("P")
                 /\ \E b : Tail(s) = <<SetVar("pclk", 3)>> \o b /\ Script(b, "boot")
              \/ Allowed(Head(s), "boot") /\ Booted(Tail(s))
<1>1. PICK a, b : s = a \o (Osc \o b) /\ Script(a, "boot") /\ Script(b, "boot") BY DEF Booted
<1>2. IsSeq(Osc) BY Singles DEF Osc
<1> DEFINE r == Osc \o b
<1>3. IsSeq(a) /\ IsSeq(b) /\ IsSeq(r) BY <1>1, <1>2, ScriptSeq, SeqJoined
<1>0. s = a \o r BY <1>1
<1> HIDE DEF r
<1>4. CASE a = <<>>
  <2>1. s = Osc \o b BY <1>0, <1>3, <1>4, Unit DEF r
  <2> DEFINE q == <<SetVar("pclk", 3)>>
             y == q \o b
  <2>2. Osc = <<Sclk("P")>> \o q BY Pair DEF Osc
  <2>3. IsSeq(q) /\ IsSeq(<<Sclk("P")>>) BY Singles
  <2> HIDE DEF q
  <2>4. s = <<Sclk("P")>> \o y BY ONLY <1>3, <2>1, <2>2, <2>3, Assoc
  <2>5. IsSeq(y) BY <1>3, <2>3, SeqJoined
  <2>6. Head(s) = Sclk("P") /\ Tail(s) = y /\ s # <<>> BY <2>4, <2>5, First
  <2> QED BY <1>1, <2>4, <2>5, <2>6 DEF q
<1>5. CASE a # <<>>
  <2> DEFINE h == Head(a)
             y == Tail(a)
  <2>1. a = <<h>> \o y /\ Allowed(h, "boot") /\ Script(y, "boot") BY <1>1, <1>5, Split
  <2> HIDE DEF h, y
  <2>2. IsSeq(y) /\ IsSeq(<<h>>) BY <2>1, ScriptSeq, Singles
  <2>3. s = <<h>> \o (y \o r) BY ONLY <1>0, <1>3, <2>1, <2>2, Assoc
  <2>4. IsSeq(y \o r) BY <1>3, <2>2, SeqJoined
  <2>5. Head(s) = h /\ Tail(s) = y \o r /\ s # <<>> BY <2>3, <2>4, First
  <2>6. Booted(Tail(s)) BY <1>1, <2>1, <2>5 DEF Booted, r
  <2> QED BY <2>1, <2>3, <2>4, <2>5, <2>6
<1> QED BY <1>4, <1>5

(***************************************************************************)
(* The clock of the processor: what is left to do of a change, and what    *)
(* must hold for that.                                                     *)
(***************************************************************************)
ClockOK(s) == s.sclk = "C" => "C" \in s.pll /\ s.var.divn \in {85, 90, 92} /\ s.var.pclk = 4
Settled(s) ==
    IF s.var.fid = 0 THEN s.sclk = "P"
    ELSE s.var.divn = Divn[s.var.fid] /\ (s.sclk = "C" \/ s.var.family = "boot")
\* Up to PLLC with its multiplier for f.
Up1(f) == <<SetVar("fid", f)>>
Up2(f) == <<Sclk("C")>> \o Up1(f)
Up3(f) == <<SetVar("pclk", 4)>> \o Up2(f)
Up4(f) == <<Settle>> \o Up3(f)
Up5(f) == <<PllOn("C")>> \o Up4(f)
Up6(f) == <<SetVar("divn", Divn[f])>> \o Up5(f)
Up7(f) == <<PllOff("C")>> \o Up6(f)
Up8(f) == <<Settle>> \o Up7(f)
Up9(f) == <<Sclk("P")>> \o Up8(f)
UpAgain(f) == <<Sclk("P")>> \o Up4(f)
\* Down to PLLP.
Down1 == <<SetVar("fid", 0)>>
Down2 == <<Settle>> \o Down1
Down3 == <<PllOff("C")>> \o Down2
Down4 == <<SetVar("pclk", 3)>> \o Down3
Down5 == <<Settle>> \o Down4
Down6 == <<Sclk("P")>> \o Down5
Stage(s, m, f) ==
    \/ m = <<>> /\ Settled(s) /\ f = s.var.fid
    \/ f = 0 /\ m = Down6
    \/ f = 0 /\ s.sclk = "P" /\ (m = Down5 \/ m = Down4 \/ m = Down3 \/ m = Down2 \/ m = Down1)
    \/ f \in 1 .. 3 /\ m = Up9(f)
    \/ f \in 1 .. 3 /\ s.sclk = "P" /\ (m = Up8(f) \/ m = Up7(f) \/ m = Up6(f))
    \/ f \in 1 .. 3 /\ s.sclk = "P" /\ s.var.divn = Divn[f] /\ m = Up5(f)
    \/ f \in 1 .. 3 /\ "C" \in s.pll /\ s.var.divn = Divn[f] /\ m = UpAgain(f)
    \/ f \in 1 .. 3 /\ s.sclk = "P" /\ "C" \in s.pll /\ s.var.divn = Divn[f] /\ (m = Up4(f) \/ m = Up3(f))
    \/ f \in 1 .. 3 /\ s.sclk = "P" /\ "C" \in s.pll /\ s.var.divn = Divn[f] /\ s.var.pclk = 4 /\ m = Up2(f)
    \/ f \in 1 .. 3 /\ s.sclk = "C" /\ s.var.divn = Divn[f] /\ m = Up1(f)

LEMMA DivnTable == \A f \in 1 .. 3 : Divn[f] \in {85, 90, 92} /\ Divn[f] \in Int
BY DEF Divn

\* The operations of such a change.
LEMMA ClockSteps ==
    ASSUME StateOK(soc)
    PROVE  /\ Exec(Settle) = {[soc EXCEPT !.fresh = {}]}
           /\ \A p \in {"P", "C"} : Exec(Sclk(p)) = {[soc EXCEPT !.sclk = p]}
           /\ Exec(PllOn("C")) = {[soc EXCEPT !.pll = soc.pll \cup {"C"}]}
           /\ Exec(PllOff("C")) = {[soc EXCEPT !.pll = soc.pll \ {"C"}]}
           /\ \A n, v : Exec(SetVar(n, v)) = {[soc EXCEPT !.var[n] = v]}
BY DEF Exec, Settle, Sclk, PllOn, PllOff, SetVar, With, Put

\* A change that goes on: a field that is set keeps the types, and the rest.
Same(s, t) == s.var.family = t.var.family /\ s.var.want = t.var.want
LEMMA SclkStep ==
    ASSUME StateOK(soc), NEW p \in {"P", "C"}, NEW t, t \in Exec(Sclk(p))
    PROVE  /\ StateOK(t) /\ Same(t, soc) /\ t.sclk = p /\ t.pll = soc.pll /\ t.var = soc.var
BY ClockSteps DEF StateOK, Fields, Same
LEMMA PllStep ==
    ASSUME StateOK(soc), NEW op \in {PllOn("C"), PllOff("C")}, NEW t, t \in Exec(op)
    PROVE  /\ StateOK(t) /\ Same(t, soc) /\ t.sclk = soc.sclk /\ t.var = soc.var
           /\ op = PllOn("C") => "C" \in t.pll
BY ClockSteps DEF StateOK, Fields, Same, PllOn, PllOff, Plls
LEMMA VarStep ==
    ASSUME StateOK(soc), NEW n \in {"fid", "pclk", "divn"}, NEW v,
           n = "fid" => v \in 0 .. 3, n = "pclk" => v \in {3, 4}, n = "divn" => v \in Int,
           NEW t, t \in Exec(SetVar(n, v))
    PROVE  /\ StateOK(t) /\ Same(t, soc) /\ t.sclk = soc.sclk /\ t.pll = soc.pll
           /\ t.var.fid = IF n = "fid" THEN v ELSE soc.var.fid
           /\ t.var.pclk = IF n = "pclk" THEN v ELSE soc.var.pclk
           /\ t.var.divn = IF n = "divn" THEN v ELSE soc.var.divn
<1> DEFINE w == [soc.var EXCEPT ![n] = v]
<1>1. t = [soc EXCEPT !.var[n] = v] BY ClockSteps
<1>2. t = [soc EXCEPT !.var = w] BY <1>1
<1>3. VarOK(soc.var) BY DEF StateOK
<1>4. /\ VarOK(w) /\ w.family = soc.var.family /\ w.want = soc.var.want
      /\ w.fid = IF n = "fid" THEN v ELSE soc.var.fid
      /\ w.pclk = IF n = "pclk" THEN v ELSE soc.var.pclk
      /\ w.divn = IF n = "divn" THEN v ELSE soc.var.divn
  BY <1>3 DEF VarOK, Vars
<1> HIDE DEF w
<1> QED BY <1>2, <1>4 DEF StateOK, Fields, Same
LEMMA SettleStep ==
    ASSUME StateOK(soc), NEW t, t \in Exec(Settle)
    PROVE  StateOK(t) /\ Same(t, soc) /\ t.sclk = soc.sclk /\ t.pll = soc.pll /\ t.var = soc.var
BY ClockSteps DEF StateOK, Fields, Same
LEMMA StageSeqs ==
    /\ \A f : /\ IsSeq(Up1(f)) /\ IsSeq(Up2(f)) /\ IsSeq(Up3(f)) /\ IsSeq(Up4(f)) /\ IsSeq(Up5(f)) /\ IsSeq(Up6(f)) /\ IsSeq(Up7(f))
              /\ IsSeq(Up8(f)) /\ IsSeq(Up9(f)) /\ IsSeq(UpAgain(f))
    /\ IsSeq(Down1) /\ IsSeq(Down2) /\ IsSeq(Down3) /\ IsSeq(Down4) /\ IsSeq(Down5) /\ IsSeq(Down6)
<1>1. \A a, y : IsSeq(y) => IsSeq(<<a>> \o y) BY First
<1>2. \A f : IsSeq(Up1(f)) BY Singles DEF Up1
<1>3. \A f : IsSeq(Up2(f)) BY <1>1, <1>2 DEF Up2
<1>4. \A f : IsSeq(Up3(f)) BY <1>1, <1>3 DEF Up3
<1>5. \A f : IsSeq(Up4(f)) /\ IsSeq(UpAgain(f)) BY <1>1, <1>4 DEF Up4, UpAgain
<1>6. \A f : IsSeq(Up5(f)) BY <1>1, <1>5 DEF Up5
<1>7. \A f : IsSeq(Up6(f)) BY <1>1, <1>6 DEF Up6
<1>8. \A f : IsSeq(Up7(f)) BY <1>1, <1>7 DEF Up7
<1>9. \A f : IsSeq(Up8(f)) /\ IsSeq(Up9(f)) BY <1>1, <1>8 DEF Up8, Up9
<1>10. IsSeq(Down1) BY Singles DEF Down1
<1>11. IsSeq(Down2) /\ IsSeq(Down3) BY <1>1, <1>10 DEF Down2, Down3
<1>12. IsSeq(Down4) /\ IsSeq(Down5) /\ IsSeq(Down6) BY <1>1, <1>11 DEF Down4, Down5, Down6
<1> QED BY <1>2, <1>3, <1>4, <1>5, <1>6, <1>7, <1>8, <1>9, <1>10, <1>11, <1>12

\* Whatever is left of a change, its next operation keeps the clock alive.
Keeps(op, y, f) ==
    /\ op[1] # "call" /\ IsSeq(y)
    /\ \A t \in Exec(op) : StateOK(t) /\ Same(t, soc) /\ ClockOK(t) /\ Stage(t, y, f)
LEMMA StageStep ==
    ASSUME StateOK(soc), ClockOK(soc), NEW m, NEW f, Stage(soc, m, f), m # <<>>
    PROVE  \E op, y : m = <<op>> \o y /\ Keeps(op, y, f)
<1>1. soc.var.fid \in 0 .. 3 /\ soc.var.pclk \in {3, 4} BY DEF StateOK, VarOK
<1>2. \A n, v : SetVar(n, v)[1] # "call" /\ \A p : Sclk(p)[1] # "call" /\ PllOn(p)[1] # "call" /\ PllOff(p)[1] # "call"
  BY DEF SetVar, Sclk, PllOn, PllOff
<1>3. Settle[1] # "call" BY DEF Settle
<1>4. CASE f = 0 /\ m = Down6
  <2>1. Keeps(Sclk("P"), Down5, f)
    BY <1>2, <1>4, SclkStep, StageSeqs DEF Keeps, ClockOK, Stage
  <2> QED BY <1>4, <2>1 DEF Down6
<1>5. CASE f = 0 /\ soc.sclk = "P" /\ m = Down5
  <2>1. Keeps(Settle, Down4, f) BY <1>3, <1>5, SettleStep, StageSeqs DEF Keeps, ClockOK, Stage
  <2> QED BY <1>5, <2>1 DEF Down5
<1>6. CASE f = 0 /\ soc.sclk = "P" /\ m = Down4
  <2>1. Keeps(SetVar("pclk", 3), Down3, f) BY <1>2, <1>6, VarStep, StageSeqs DEF Keeps, ClockOK, Stage
  <2> QED BY <1>6, <2>1 DEF Down4
<1>7. CASE f = 0 /\ soc.sclk = "P" /\ m = Down3
  <2>1. Keeps(PllOff("C"), Down2, f) BY <1>2, <1>7, PllStep, StageSeqs DEF Keeps, ClockOK, Stage
  <2> QED BY <1>7, <2>1 DEF Down3
<1>8. CASE f = 0 /\ soc.sclk = "P" /\ m = Down2
  <2>1. Keeps(Settle, Down1, f) BY <1>3, <1>8, SettleStep, StageSeqs DEF Keeps, ClockOK, Stage
  <2> QED BY <1>8, <2>1 DEF Down2
<1>9. CASE f = 0 /\ soc.sclk = "P" /\ m = Down1
  <2>1. ASSUME NEW t \in Exec(SetVar("fid", 0)) PROVE StateOK(t) /\ Same(t, soc) /\ ClockOK(t) /\ Stage(t, <<>>, f)
    <3>1. StateOK(t) /\ Same(t, soc) /\ t.sclk = "P" /\ t.var.fid = 0 BY <1>9, <2>1, VarStep
    <3> QED BY <1>9, <3>1 DEF ClockOK, Stage, Settled
  <2>3. Keeps(SetVar("fid", 0), <<>>, f) BY <1>2, <2>1, Singles DEF Keeps
  <2>2. m = <<SetVar("fid", 0)>> \o <<>> BY <1>9, Singles, Unit DEF Down1
  <2> QED BY <2>2, <2>3
<1>10. ASSUME f \in 1 .. 3, m = Up9(f) PROVE \E op, y : m = <<op>> \o y /\ Keeps(op, y, f)
  <2>1. Keeps(Sclk("P"), Up8(f), f) BY <1>2, <1>10, SclkStep, StageSeqs DEF Keeps, ClockOK, Stage
  <2> QED BY <1>10, <2>1 DEF Up9
<1>11. ASSUME f \in 1 .. 3, soc.sclk = "P", m = Up8(f) PROVE \E op, y : m = <<op>> \o y /\ Keeps(op, y, f)
  <2>1. Keeps(Settle, Up7(f), f) BY <1>3, <1>11, SettleStep, StageSeqs DEF Keeps, ClockOK, Stage
  <2> QED BY <1>11, <2>1 DEF Up8
<1>12. ASSUME f \in 1 .. 3, soc.sclk = "P", m = Up7(f) PROVE \E op, y : m = <<op>> \o y /\ Keeps(op, y, f)
  <2>1. Keeps(PllOff("C"), Up6(f), f) BY <1>2, <1>12, PllStep, StageSeqs DEF Keeps, ClockOK, Stage
  <2> QED BY <1>12, <2>1 DEF Up7
<1>13. ASSUME f \in 1 .. 3, soc.sclk = "P", m = Up6(f) PROVE \E op, y : m = <<op>> \o y /\ Keeps(op, y, f)
  <2>1. Divn[f] \in Int BY <1>13, DivnTable
  <2>2. Keeps(SetVar("divn", Divn[f]), Up5(f), f) BY <1>2, <1>13, <2>1, VarStep, StageSeqs DEF Keeps, ClockOK, Stage
  <2> QED BY <1>13, <2>2 DEF Up6
<1>14. ASSUME f \in 1 .. 3, soc.sclk = "P", soc.var.divn = Divn[f], m = Up5(f) PROVE \E op, y : m = <<op>> \o y /\ Keeps(op, y, f)
  <2>1. Keeps(PllOn("C"), Up4(f), f) BY <1>2, <1>14, PllStep, StageSeqs DEF Keeps, ClockOK, Stage
  <2> QED BY <1>14, <2>1 DEF Up5
<1>15. ASSUME f \in 1 .. 3, "C" \in soc.pll, soc.var.divn = Divn[f], m = UpAgain(f) PROVE \E op, y : m = <<op>> \o y /\ Keeps(op, y, f)
  <2>1. Keeps(Sclk("P"), Up4(f), f) BY <1>2, <1>15, SclkStep, StageSeqs DEF Keeps, ClockOK, Stage
  <2> QED BY <1>15, <2>1 DEF UpAgain
<1>16. ASSUME f \in 1 .. 3, soc.sclk = "P", "C" \in soc.pll, soc.var.divn = Divn[f], m = Up4(f)
       PROVE \E op, y : m = <<op>> \o y /\ Keeps(op, y, f)
  <2>1. Keeps(Settle, Up3(f), f) BY <1>3, <1>16, SettleStep, StageSeqs DEF Keeps, ClockOK, Stage
  <2> QED BY <1>16, <2>1 DEF Up4
<1>17. ASSUME f \in 1 .. 3, soc.sclk = "P", "C" \in soc.pll, soc.var.divn = Divn[f], m = Up3(f)
       PROVE \E op, y : m = <<op>> \o y /\ Keeps(op, y, f)
  <2>1. Keeps(SetVar("pclk", 4), Up2(f), f) BY <1>2, <1>17, VarStep, StageSeqs DEF Keeps, ClockOK, Stage
  <2> QED BY <1>17, <2>1 DEF Up3
<1>18. ASSUME f \in 1 .. 3, soc.sclk = "P", "C" \in soc.pll, soc.var.divn = Divn[f], soc.var.pclk = 4, m = Up2(f)
       PROVE \E op, y : m = <<op>> \o y /\ Keeps(op, y, f)
  <2>1. Divn[f] \in {85, 90, 92} BY <1>18, DivnTable
  <2>2. Keeps(Sclk("C"), Up1(f), f) BY <1>2, <1>18, <2>1, SclkStep, StageSeqs DEF Keeps, ClockOK, Stage
  <2> QED BY <1>18, <2>2 DEF Up2
<1>19. ASSUME f \in 1 .. 3, soc.sclk = "C", soc.var.divn = Divn[f], m = Up1(f) PROVE \E op, y : m = <<op>> \o y /\ Keeps(op, y, f)
  <2>1. ASSUME NEW t \in Exec(SetVar("fid", f)) PROVE StateOK(t) /\ Same(t, soc) /\ ClockOK(t) /\ Stage(t, <<>>, f)
    <3>1. StateOK(t) /\ Same(t, soc) /\ t.sclk = "C" /\ t.pll = soc.pll /\ t.var.fid = f /\ t.var.divn = soc.var.divn
          /\ t.var.pclk = soc.var.pclk BY <1>19, <2>1, VarStep
    <3>2. ClockOK(t) BY <3>1, <1>19 DEF ClockOK
    <3>3. Settled(t) BY <3>1, <1>19 DEF Settled
    <3> QED BY <3>1, <3>2, <3>3 DEF Stage
  <2>3. Keeps(SetVar("fid", f), <<>>, f) BY <1>2, <2>1, Singles DEF Keeps
  <2>2. m = <<SetVar("fid", f)>> \o <<>> BY <1>19, Singles, Unit DEF Up1
  <2> QED BY <2>2, <2>3
<1> QED BY <1>4, <1>5, <1>6, <1>7, <1>8, <1>9, <1>10, <1>11, <1>12, <1>13, <1>14, <1>15, <1>16, <1>17, <1>18, <1>19 DEF Stage

\* What the calls that change the clock do.
LEMMA Two == ASSUME NEW a, NEW b, NEW y, IsSeq(y) PROVE <<a, b>> \o y = <<a>> \o (<<b>> \o y)
<1>1. IsSeq(<<a>>) /\ IsSeq(<<b>>) BY Singles
<1>2. (<<a>> \o <<b>>) \o y = <<a>> \o (<<b>> \o y) BY <1>1, Assoc
<1>3. <<a, b>> = <<a>> \o <<b>> BY Pair
<1> QED BY <1>2, <1>3
LEMMA Four ==
    ASSUME NEW a, NEW b, NEW c, NEW d, NEW y, IsSeq(y)
    PROVE  <<a, b, c, d>> \o y = <<a>> \o (<<b>> \o (<<c>> \o (<<d>> \o y)))
<1> DEFINE p == <<a, b>>
           q == <<c, d>>
           z == q \o y
<1>1. IsSeq(p) /\ IsSeq(q) BY Singles
<1>2. <<a, b, c, d>> = p \o q BY Quadruple
<1>3. p \o z = <<a>> \o (<<b>> \o z)
  <2>1. IsSeq(z) BY <1>1, SeqJoined
  <2> HIDE DEF z
  <2> QED BY <2>1, Two
<1>4. z = <<c>> \o (<<d>> \o y) BY Two
<1> HIDE DEF p, q
<1>5. (p \o q) \o y = p \o (q \o y) BY <1>1, Assoc
<1> QED BY <1>2, <1>3, <1>4, <1>5
LEMMA RateBody ==
    ASSUME StateOK(soc), Settled(soc), NEW g \in Nat
    PROVE  \E m : Body("bpmp_clk_rate_set", g) = m /\ IsSeq(m) /\ Stage(soc, m, Clip(g))
<1> DEFINE f == Clip(g)
           last == <<SetVar("pclk", 4), Sclk("C"), SetVar("fid", f)>>
           again == <<Sclk("P"), Settle>>
           pllc == <<PllOff("C"), SetVar("divn", Divn[f]), PllOn("C"), Settle>>
<1>0. f \in 0 .. 3 /\ soc.var.fid \in 0 .. 3 BY DEF Clip, StateOK, VarOK
<1>1. Body("bpmp_clk_rate_set", g) = bpmp_clk_rate_set(g) BY DEF Body
<1>2. CASE soc.var.fid = f
  <2>1. bpmp_clk_rate_set(g) = <<>> BY <1>2 DEF bpmp_clk_rate_set, Clip
  <2> QED BY <1>1, <1>2, <2>1, Singles DEF Stage
<1>3. CASE soc.var.fid # f /\ f = 0
  <2>1. bpmp_clk_rate_set(g) = <<Sclk("P"), Settle, SetVar("pclk", 3)>> \o <<PllOff("C"), Settle>> \o <<SetVar("fid", 0)>>
    BY <1>3 DEF bpmp_clk_rate_set, Clip, clock_disable_pllc
  <2>2. bpmp_clk_rate_set(g) = Down6
    BY <2>1 DEF Down6, Down5, Down4, Down3, Down2, Down1
  <2> QED BY <1>1, <1>3, <2>2, StageSeqs DEF Stage
<1>4. CASE soc.var.fid # f /\ f # 0
  <2>1. last = Up3(f)
    <3>1. <<Sclk("C"), SetVar("fid", f)>> = Up2(f) BY Pair DEF Up2, Up1
    <3>2. last = <<SetVar("pclk", 4)>> \o <<Sclk("C"), SetVar("fid", f)>> BY Triple
    <3> QED BY <3>1, <3>2 DEF Up3
  <2>2. IsSeq(Up3(f)) /\ IsSeq(Up4(f)) /\ IsSeq(Up7(f)) BY StageSeqs
  <2>3. pllc \o Up3(f) = Up7(f) BY <2>2, Four DEF Up7, Up6, Up5, Up4
  <2>4. again \o Up7(f) = Up9(f) BY <2>2, Two DEF Up9, Up8
  <2>5. again \o Up3(f) = UpAgain(f) BY <2>2, Two DEF UpAgain, Up4
  <2>6. IsSeq(pllc) /\ IsSeq(again) /\ IsSeq(last) BY Singles, Several
  <2>7. bpmp_clk_rate_set(g) = If(soc.var.fid # 0, again) \o If("C" \notin soc.pll \/ soc.var.divn # Divn[f], pllc) \o last
    BY <1>4 DEF bpmp_clk_rate_set, Clip, clock_enable_pllc
  <2> HIDE DEF last, again, pllc
  <2>8. soc.var.fid = 0 => soc.sclk = "P" BY DEF Settled
  <2> DEFINE start == If(soc.var.fid # 0, again)
  <2>9. start = IF soc.var.fid # 0 THEN again ELSE <<>> BY DEF If
  <2>10. IsSeq(start) BY <2>6, <2>9, Singles
  <2> HIDE DEF start
  <2>11. CASE "C" \notin soc.pll \/ soc.var.divn # Divn[f]
    <3>1. bpmp_clk_rate_set(g) = (start \o pllc) \o last BY <2>7, <2>11 DEF If, start
    <3>2. bpmp_clk_rate_set(g) = start \o (pllc \o last) BY ONLY <2>6, <2>10, <3>1, Assoc, SMTT(40)
    <3>3. bpmp_clk_rate_set(g) = start \o Up7(f) BY <2>1, <2>3, <3>2
    <3>4. CASE soc.var.fid # 0
      <4>1. bpmp_clk_rate_set(g) = Up9(f) BY <2>4, <2>9, <3>3, <3>4
      <4> QED BY <1>0, <1>1, <1>4, <4>1, StageSeqs DEF Stage
    <3>5. CASE soc.var.fid = 0
      <4>1. bpmp_clk_rate_set(g) = Up7(f) BY <2>2, <2>9, <3>3, <3>5, Unit
      <4> QED BY <1>0, <1>1, <1>4, <2>8, <3>5, <4>1, StageSeqs DEF Stage
    <3> QED BY <3>4, <3>5
  <2>12. CASE "C" \in soc.pll /\ soc.var.divn = Divn[f]
    <3>1. bpmp_clk_rate_set(g) = (start \o <<>>) \o last BY <2>7, <2>12 DEF If, start
    <3>2. bpmp_clk_rate_set(g) = start \o Up3(f) BY <2>1, <2>10, <3>1, Unit
    <3>3. CASE soc.var.fid # 0
      <4>1. bpmp_clk_rate_set(g) = UpAgain(f) BY <2>5, <2>9, <3>2, <3>3
      <4> QED BY <1>0, <1>1, <1>4, <2>12, <4>1, StageSeqs DEF Stage
    <3>4. CASE soc.var.fid = 0
      <4>1. bpmp_clk_rate_set(g) = Up3(f) BY <2>2, <2>9, <3>2, <3>4, Unit
      <4> QED BY <1>0, <1>1, <1>4, <2>8, <2>12, <3>4, <4>1, StageSeqs DEF Stage
    <3> QED BY <3>3, <3>4
  <2> QED BY <2>11, <2>12
<1> QED BY <1>2, <1>3, <1>4

\* What is known of the clock is read back from it.
LEMMA GetBody ==
    ASSUME StateOK(soc), Settled(soc), soc.var.family # "boot", NEW a
    PROVE  \E m : Body("bpmp_clk_rate_get", a) = m /\ IsSeq(m) /\ Stage(soc, m, soc.var.fid)
<1> DEFINE known == {f \in DOMAIN Divn : Divn[f] = soc.var.divn}
           read == IF soc.sclk = "P" THEN 0 ELSE IF known = {} THEN 1 ELSE CHOOSE f \in known : TRUE
<1>1. soc.var.fid \in 0 .. 3 BY DEF StateOK, VarOK
<1>2. Body("bpmp_clk_rate_get", a) = <<SetVar("fid", read)>> BY DEF Body, bpmp_clk_rate_get
<1>3. CASE soc.var.fid = 0
  <2>1. soc.sclk = "P" BY <1>3 DEF Settled
  <2>2. read = 0 BY <2>1
  <2> HIDE DEF read
  <2>3. Body("bpmp_clk_rate_get", a) = Down1 BY <1>2, <2>2 DEF Down1
  <2> QED BY <1>3, <2>1, <2>3, StageSeqs DEF Stage
<1>4. CASE soc.var.fid # 0
  <2> DEFINE f == soc.var.fid
  <2>1. f \in 1 .. 3 /\ soc.sclk = "C" /\ soc.var.divn = Divn[f] BY <1>1, <1>4 DEF Settled
  <2>2. known = {f}
    <3>1. DOMAIN Divn = 1 .. 3 BY DEF Divn
    <3>2. \A i, j \in 1 .. 3 : Divn[i] = Divn[j] => i = j BY DEF Divn
    <3> QED BY <2>1, <3>1, <3>2
  <2>3. read = f
    <3> HIDE DEF known
    <3> QED BY <2>1, <2>2
  <2> HIDE DEF read, f
  <2>4. Body("bpmp_clk_rate_get", a) = Up1(f) BY <1>2, <2>3 DEF Up1
  <2> QED BY <2>1, <2>4, StageSeqs DEF Stage, f
<1> QED BY <1>3, <1>4

\* Calls that set the clock and then what it was.
LEMMA LooseRules ==
    /\ \A s : Calm(s) => Script(s, "loose") /\ Script(s, "neutral") /\ Script(s, "boot")
    /\ \A k, s, t : Script(s, k) /\ Script(t, k) => Script(s \o t, k)
BY Weaker, Joined DEF Calm
LEMMA TsecBody ==
    ASSUME StateOK(soc), NEW a
    PROVE  LastRate(Body("tsec_query", a), soc.var.fid)
<1> DEFINE fid == soc.var.fid
           type == a[1]
           fails == a[2]
<1>1. fid \in Nat /\ Clip(fid) = fid BY DEF StateOK, VarOK, Clip
<1>2. /\ {"KFUSE", "SOR0", "SOR1", "SOR_SAFE", "TSEC", "HOST1X", "CE0", "CE1", "CE2", "CE3"} \subseteq Devices
      /\ \A f \in {"bpmp_mmu_enable", "bpmp_mmu_disable", "smmu_enable"} : Quiet(Call(f, 0))
  BY QuietCalls DEF Devices, Simple
<1>3. LastRate(tsec_out(type, fid), fid)
  <2> DEFINE off == clock_disable("KFUSE") \o clock_disable("SOR1") \o clock_disable("SOR0") \o clock_disable("SOR_SAFE")
                    \o clock_disable("TSEC")
             on == <<Call("bpmp_mmu_enable", 0), Rate(fid)>>
             end == If(type = "new", mc_disable_ahb_redirect)
  <2>1. Calm(off) BY <1>2, ClockScripts, CalmRules
  <2>2. Calm(end) BY MemoryScripts, CalmRules
  <2>3. Calm(<<Call("bpmp_mmu_enable", 0)>>) BY <1>2, CalmRules
  <2>4. on = <<Call("bpmp_mmu_enable", 0)>> \o <<Rate(fid)>> BY Pair
  <2>6. tsec_out(type, fid) = (off \o on) \o end BY DEF tsec_out, Rate
  <2> HIDE DEF off, on, end, fid
  <2>8. LastRate(<<Rate(fid)>>, fid)
    <3>1. LastRate(<<Rate(fid)>>, Clip(fid)) BY <1>1, LastAlone
    <3> QED BY <1>1, <3>1
  <2>5. LastRate(on, fid) BY <2>3, <2>4, <2>8, LastBefore, LooseRules
  <2>7. LastRate(off \o on, fid) BY <2>1, <2>5, LastBefore, LooseRules
  <2> QED BY <2>2, <2>6, <2>7, LastAfter, LooseRules
<1> DEFINE start == <<Call("bpmp_mmu_disable", 0), Call("bpmp_clk_rate_set", 0)>>
           parts == If(type = "new", pmc_enable_partition("CE0", FALSE) \o pmc_enable_partition("CE1", FALSE)
                                     \o pmc_enable_partition("CE2", FALSE) \o pmc_enable_partition("CE3", FALSE)
                                     \o mc_enable_ahb_redirect)
           falcon == <<Use({"TSEC"}, "tsec_query")>>
           query == If(fails \notin {"idle", "dma"},
                       If(type = "emu", smmu_init_for_tsec \o <<Call("smmu_enable", 0)>>)
                       \o <<Use({"HOST1X", "TSEC"}, "tsec_query")>>
                       \o If(type = "emu", smmu_deinit_for_tsec)
                       \o If(type # "emu" /\ fails = "none", <<Use({"HOST1X", "SOR1"}, "tsec_query")>>))
<1>4. Script(start, "loose")
  <2>1. Calm(<<Call("bpmp_mmu_disable", 0)>>) BY <1>2, CalmRules
  <2>2. start = <<Call("bpmp_mmu_disable", 0)>> \o <<Rate(0)>> BY Pair DEF Rate
  <2> QED BY <2>1, <2>2, LooseRules, RateIsLoose
<1>5. Calm(parts)
  <2>1. /\ Calm(pmc_enable_partition("CE0", FALSE)) /\ Calm(pmc_enable_partition("CE1", FALSE))
        /\ Calm(pmc_enable_partition("CE2", FALSE)) /\ Calm(pmc_enable_partition("CE3", FALSE))
    BY <1>2, MemoryScripts
  <2> QED BY <2>1, MemoryScripts, CalmRules
<1>6. Calm(falcon) BY QuietAccesses, CalmRules
<1>7. Calm(query)
  <2>1. Calm(<<Use({"HOST1X", "TSEC"}, "tsec_query")>>) /\ Calm(<<Use({"HOST1X", "SOR1"}, "tsec_query")>>) BY QuietAccesses, CalmRules
  <2>2. Calm(<<Call("smmu_enable", 0)>>) BY <1>2, CalmRules
  <2> QED BY <2>1, <2>2, MemoryScripts, CalmRules
<1>8. /\ Calm(clock_enable("HOST1X")) /\ Calm(clock_enable("TSEC")) /\ Calm(clock_enable("SOR_SAFE"))
      /\ Calm(clock_enable("SOR0")) /\ Calm(clock_enable("SOR1")) /\ Calm(clock_enable_kfuse)
      /\ Calm(kfuse_wait_ready("tsec_query"))
  BY <1>2, ClockScripts, EngineScripts
<1>9. tsec_query(type, fails)
      = start \o clock_enable("HOST1X") \o clock_enable("TSEC") \o clock_enable("SOR_SAFE") \o clock_enable("SOR0")
        \o clock_enable("SOR1") \o clock_enable_kfuse \o kfuse_wait_ready("tsec_query") \o parts \o falcon \o query
        \o tsec_out(type, fid)
  BY DEF tsec_query
<1>11. Body("tsec_query", a) = tsec_query(type, fails) BY DEF Body
<1> HIDE DEF start, parts, falcon, query, fid
<1>10. Script(start \o clock_enable("HOST1X") \o clock_enable("TSEC") \o clock_enable("SOR_SAFE") \o clock_enable("SOR0")
              \o clock_enable("SOR1") \o clock_enable_kfuse \o kfuse_wait_ready("tsec_query") \o parts \o falcon \o query, "loose")
  BY <1>4, <1>5, <1>6, <1>7, <1>8, LooseRules
<1> QED BY <1>3, <1>9, <1>10, <1>11, LastBefore DEF fid
LEMMA JoyConBody ==
    ASSUME StateOK(soc), NEW a
    PROVE  /\ Calm(Body("jc_init_hw", a)) \/ LastRate(Body("jc_init_hw", a), soc.var.fid)
           /\ Script(Body("jc_init_hw", a), "boot")
<1> DEFINE fid == soc.var.fid
           power == <<Call("jc_power_supply", <<"jcl", TRUE>>), Call("jc_power_supply", <<"jcr", TRUE>>)>>
           stop == <<Rate(0)>>
           go == <<Rate(fid)>>
           done == <<SetVar("jc_init_done", TRUE)>>
           init == power \o gpio_config({"H6", "E6"}, TRUE) \o stop \o clock_enable("UARTB") \o clock_enable("UARTC")
                   \o go \o gpio_config({"G0", "D1"}, TRUE) \o done
<1>1. fid \in Nat /\ Clip(fid) = fid BY DEF StateOK, VarOK, Clip
<1>2. Calm(power)
  <2>1. \A v : Quiet(Call("jc_power_supply", v)) BY QuietCalls DEF Simple
  <2> QED BY <2>1, CalmRules
<1>3. Calm(done) BY QuietSettings, CalmRules DEF Vars
<1>4. /\ Calm(clock_enable("UARTB")) /\ Calm(clock_enable("UARTC")) /\ Calm(gpio_config({"H6", "E6"}, TRUE))
      /\ Calm(gpio_config({"G0", "D1"}, TRUE))
  BY ClockScripts, PinScripts DEF Devices
<1>5. Script(stop, "loose") /\ Script(stop, "boot") /\ Script(go, "boot") BY <1>1, RateIsLoose
<1>6. LastRate(go, fid) BY <1>1, LastAlone
<1>7. Body("jc_init_hw", a) = IF soc.var.hw # "hoag" THEN init ELSE <<>>
  BY DEF Body, jc_init_hw, Rate, If
<1> HIDE DEF power, stop, go, done, fid
<1>8. Script(init, "boot") BY <1>2, <1>3, <1>4, <1>5, LooseRules
<1>9. Script(power \o gpio_config({"H6", "E6"}, TRUE) \o stop \o clock_enable("UARTB") \o clock_enable("UARTC"), "loose")
  BY <1>2, <1>4, <1>5, LooseRules
<1>10. LastRate(power \o gpio_config({"H6", "E6"}, TRUE) \o stop \o clock_enable("UARTB") \o clock_enable("UARTC") \o go, fid)
  BY <1>6, <1>9, LastBefore
<1>11. LastRate(init, fid) BY <1>3, <1>4, <1>10, LastAfter, LooseRules
<1>12. Script(<<>>, "boot") /\ Calm(<<>>) BY Empty DEF Calm
<1> QED BY <1>7, <1>8, <1>11, <1>12 DEF fid

\* What the calls of the boot path do.
LEMMA BootRules ==
    /\ \A a : Quiet(a) \/ RateCall(a) \/ BootOp(a) => Script(<<a>>, "boot")
    /\ \A a, b : Script(<<a>>, "boot") /\ Script(<<b>>, "boot") => Script(<<a, b>>, "boot")
    /\ \A a, b, c, d : Script(<<a, b>>, "boot") /\ Script(<<c, d>>, "boot") => Script(<<a, b, c, d>>, "boot")
    /\ \A c, s : Script(s, "boot") => Script(If(c, s), "boot")
    /\ \A f \in BootCalls : \A a : Script(<<Call(f, a)>>, "boot")
<1>1. ASSUME NEW a, Quiet(a) \/ RateCall(a) \/ BootOp(a) PROVE Script(<<a>>, "boot") BY <1>1, One DEF Allowed
<1>2. ASSUME NEW a, NEW b, Script(<<a>>, "boot"), Script(<<b>>, "boot") PROVE Script(<<a, b>>, "boot")
  BY <1>2, Pair, Joined
<1>3. ASSUME NEW a, NEW b, NEW c, NEW d, Script(<<a, b>>, "boot"), Script(<<c, d>>, "boot") PROVE Script(<<a, b, c, d>>, "boot")
  <2>1. <<a, b, c, d>> = <<a, b>> \o <<c, d>> BY Quadruple
  <2>2. Script(<<a, b>> \o <<c, d>>, "boot") BY <1>3, Joined
  <2> QED BY <2>1, <2>2
<1>4. \A c, s : Script(s, "boot") => Script(If(c, s), "boot") BY Empty DEF If
<1>5. \A f \in BootCalls : \A a : BootOp(Call(f, a)) BY DEF BootOp
<1> QED BY ONLY <1>1, <1>2, <1>3, <1>4, <1>5
LEMMA ReinitBody == \A a : Script(Body("hw_reinit", a), "boot")
<1> SUFFICES ASSUME NEW a PROVE Script(Body("hw_reinit", a), "boot") OBVIOUS
<1> DEFINE first == <<Rate(0), Call("bpmp_mmu_disable", 0), Call("minerva_change_freq", 204), On({"AHUB", "APE"})>>
           core == If(a[1], <<Settle>> \o clock_disable("CLDVFS") \o gpio_config({"G0", "D1", "E6", "H6"}, FALSE))
           show == <<Call(IF a[2] = "sld" THEN "seamless" ELSE "display_end", 0)>>
           last == If(a[2] = "hwi", <<On({"USBD"})>> \o clock_disable("CLDVFS"))
<1>1. Script(first, "boot")
  <2>1. RateCall(Rate(0)) BY DEF RateCall
  <2>2. Quiet(Call("bpmp_mmu_disable", 0)) /\ Quiet(Call("minerva_change_freq", 204)) BY QuietCalls DEF Simple, Rates
  <2>3. Quiet(On({"AHUB", "APE"})) BY QuietGates DEF Devices
  <2>4. /\ Script(<<Rate(0), Call("bpmp_mmu_disable", 0)>>, "boot")
        /\ Script(<<Call("minerva_change_freq", 204), On({"AHUB", "APE"})>>, "boot")
    BY <2>1, <2>2, <2>3, BootRules
  <2> QED BY ONLY <2>4, BootRules
<1>2. Calm(clock_disable("CLDVFS")) /\ Calm(<<On({"USBD"})>>) /\ Calm(<<Settle>>)
  BY ClockScripts, QuietGates, QuietPins, CalmRules DEF Devices
<1>3. Calm(core) BY <1>2, PinScripts, CalmRules
<1>4. Calm(show)
  <2>1. Quiet(Call("seamless", 0)) /\ Quiet(Call("display_end", 0)) BY QuietCalls DEF Simple
  <2> QED BY <2>1, CalmRules
<1>5. Calm(last) BY <1>2, CalmRules
<1>6. hw_reinit_workaround(a[1], a[2]) = first \o core \o show \o last BY DEF hw_reinit_workaround, Rate
<1>7. Body("hw_reinit", a) = hw_reinit_workaround(a[1], a[2]) BY DEF Body
<1> HIDE DEF first, core, show, last
<1> QED BY <1>1, <1>3, <1>4, <1>5, <1>6, <1>7, LooseRules
LEMMA PowerBody == \A a : Script(Body("power_set_state", a), "boot")
<1> SUFFICES ASSUME NEW a PROVE Script(Body("power_set_state", a), "boot") OBVIOUS
<1> DEFINE first == <<SetVar("mounted", FALSE), Call("hw_reinit", <<FALSE, "none">>), Call("stop_alarm", 0)>>
           wake == If(a = "reboot", <<Bits("I2C5", "onoff", {}, {"wake"})>>)
           sleep == If(a = "reset", <<Bits("I2C5", "onoff", {"wake", "alarm1", "alarm2"}, {})>>)
           end == <<SetVar("end", a)>>
<1>1. \A v : Quiet(SetVar("mounted", v)) /\ Quiet(SetVar("end", v)) BY QuietSettings DEF Vars
<1>2. Script(first, "boot")
  <2>1. Quiet(Call("stop_alarm", 0)) BY QuietCalls DEF Simple
  <2>2. first = <<SetVar("mounted", FALSE)>> \o <<Call("hw_reinit", <<FALSE, "none">>), Call("stop_alarm", 0)>> BY Triple
  <2>3. \A x : Script(<<Call("hw_reinit", x)>>, "boot") BY BootRules DEF BootCalls
  <2> QED BY <1>1, <2>1, <2>2, <2>3, BootRules, LooseRules
<1>3. \A S, T : Quiet(Bits("I2C5", "onoff", S, T)) BY QuietTransfers DEF Vars
<1>4. Calm(wake) /\ Calm(sleep) /\ Calm(end) BY <1>1, <1>3, CalmRules
<1>5. Calm(Transfer("I2C5", "power_set_state")) BY BusScripts
<1>6. power_set_state(a) = first \o wake \o sleep \o Transfer("I2C5", "power_set_state") \o end BY DEF power_set_state
<1>7. Body("power_set_state", a) = power_set_state(a) BY DEF Body
<1> HIDE DEF first, wake, sleep, end
<1> QED BY <1>2, <1>4, <1>5, <1>6, <1>7, LooseRules
LEMMA LaunchBody == \A a : Script(Body("launch_payload", a), "boot")
<1> SUFFICES ASSUME NEW a PROVE Script(Body("launch_payload", a), "boot") OBVIOUS
<1>1. \A v : Quiet(SetVar("mounted", v)) /\ Quiet(SetVar("end", v)) BY QuietSettings DEF Vars
<1>2. \A x : Script(<<Call("hw_reinit", x)>>, "boot") BY BootRules DEF BootCalls
<1>3. \A u, v : Script(<<SetVar("mounted", u)>>, "boot") /\ Script(<<SetVar("end", v)>>, "boot") BY <1>1, BootRules
<1>4. \A u, x, v : Script(<<SetVar("mounted", u), Call("hw_reinit", x), SetVar("end", v)>>, "boot")
  BY <1>2, <1>3, BootRules, LooseRules, Triple
<1>5. Body("launch_payload", a) = launch_payload BY DEF Body
<1> QED BY <1>3, <1>4, <1>5 DEF launch_payload
LEMMA MountedBody == \A a : Script(Body("ipl_main_mounted", a), "boot")
<1> SUFFICES ASSUME NEW a PROVE Script(Body("ipl_main_mounted", a), "boot") OBVIOUS
<1> DEFINE s == <<Call("minerva_init", 0), Call("minerva_change_freq", 800),
                  Call("display_init", soc.var.tries), Call("framebuffer", "pitch"), Call("pwm_init", 0),
                  Call("brightness", 100), Rate(3), Call("jc_init_hw", 0),
                  Call(IF soc.var.payload = "missing" THEN "power_set_state" ELSE "launch_payload", "reboot")>>
<1>1. Script(<<Call("power_set_state", "reboot")>>, "boot") BY BootRules DEF BootCalls
<1>2. s = [i \in 1 .. 9 |-> s[i]] OBVIOUS
<1>3. /\ Quiet(s[1]) /\ Quiet(s[2]) /\ Quiet(s[3]) /\ Quiet(s[4]) /\ Quiet(s[5]) /\ Quiet(s[6])
  BY QuietCalls DEF Simple, Rates
<1>4. RateCall(s[7]) BY DEF RateCall
<1>5. BootOp(s[8])
  <2>1. BootOp(Call("jc_init_hw", 0)) BY DEF BootOp, BootCalls
  <2> QED BY <2>1
<1>6. BootOp(s[9])
  <2>1. BootOp(Call("power_set_state", "reboot")) /\ BootOp(Call("launch_payload", "reboot")) BY DEF BootOp, BootCalls
  <2> QED BY <2>1
<1>7. Body("ipl_main_mounted", a) = IF ~soc.var.mounted THEN <<Call("power_set_state", "reboot")>> ELSE s
  BY DEF Body, ipl_main_mounted, Rate
<1> HIDE DEF s
<1>8. \A i \in 1 .. 9 : Allowed(s[i], "boot") BY <1>3, <1>4, <1>5, <1>6 DEF Allowed
<1>9. Script(s, "boot") BY <1>2, <1>8, Indexed
<1> QED BY <1>1, <1>7, <1>9
LEMMA InitBody == \A a : Booted(Body("hw_init", a))
<1> SUFFICES ASSUME NEW a PROVE Booted(Body("hw_init", a)) OBVIOUS
<1> DEFINE self == If(soc.var.chip = "t210", mbist_workaround)
           calls == <<Call("config_regulators", 0), Call("enable_charger", 0)>>
           last == <<Sclk("P"), Use({"EMC", "MEM"}, "sdram_init"), SetVar("dram", TRUE), Call("bpmp_mmu_enable", 0)>>
           ldo8(v) == If(soc.var.hw = "hoag", RailOn("ldo8", v))
<1>1. Booted(config_oscillators)
  <2>1. config_oscillators = <<>> \o (Osc \o <<>>) BY Singles, Unit DEF config_oscillators, Osc
  <2> QED BY <2>1, Empty DEF Booted
<1>2. Script(self, "boot") BY BootScripts, LooseRules, BootRules
<1>3. Script(calls, "boot") BY QuietCalls, CalmRules, LooseRules DEF Simple
<1>4. Script(last, "boot")
  <2>1. BootOp(Sclk("P")) BY DEF BootOp
  <2>2. Quiet(Use({"EMC", "MEM"}, "sdram_init")) /\ Quiet(SetVar("dram", TRUE)) /\ Quiet(Call("bpmp_mmu_enable", 0))
    BY QuietAccesses, QuietSettings, QuietCalls DEF Vars, Simple
  <2> QED BY <2>1, <2>2, BootRules
<1>5. \A v : Script(ldo8(v), "boot") BY RegulatorScripts, RailTable, CalmRules, LooseRules
<1>6. /\ Script(clock_enable("SE"), "boot") /\ Script(clock_enable("CLDVFS"), "boot") /\ Script(clock_enable("I2C1"), "boot")
      /\ Script(clock_enable("I2C5"), "boot") /\ Script(clock_enable("TZRAM"), "boot") /\ Script(clock_enable_fuse(TRUE), "boot")
  BY ClockScripts, LooseRules DEF Devices
<1>7. Script(i2c_init("I2C1"), "boot") /\ Script(i2c_init("I2C5"), "boot") BY BusScripts, LooseRules DEF NeedsSetup
<1>8. Script(config_se_brom, "boot") /\ Script(mc_enable, "boot") /\ Script(config_gpios, "boot")
  BY BootScripts, MemoryScripts, LooseRules
<1> DEFINE Init(v) == config_se_brom \o self \o clock_enable("SE") \o clock_enable_fuse(TRUE) \o mc_enable
                      \o config_oscillators \o config_gpios \o clock_enable("CLDVFS") \o clock_enable("I2C1")
                      \o clock_enable("I2C5") \o clock_enable("TZRAM") \o i2c_init("I2C5") \o ldo8(v) \o i2c_init("I2C1")
                      \o calls \o last
<1>9. \E v : Body("hw_init", a) = Init(v)
  <2>1. Body("hw_init", a) = hw_init BY DEF Body
  <2>2. hw_init = Init(2800000) BY SMT DEF hw_init
  <2> HIDE DEF Init
  <2> QED BY <2>1, <2>2, SMT
<1>10. ASSUME NEW v PROVE Booted(Init(v))
  <2> DEFINE r == ldo8(v)
  <2>1. Script(r, "boot") BY <1>5
  <2> HIDE DEF self, calls, last, r
  <2>2. Script(config_se_brom \o self \o clock_enable("SE") \o clock_enable_fuse(TRUE) \o mc_enable, "boot")
    BY <1>2, <1>6, <1>8, LooseRules
  <2>3. Booted(config_se_brom \o self \o clock_enable("SE") \o clock_enable_fuse(TRUE) \o mc_enable \o config_oscillators)
    BY <1>1, <2>2, BootedBefore
  <2> DEFINE x == config_se_brom \o self \o clock_enable("SE") \o clock_enable_fuse(TRUE) \o mc_enable \o config_oscillators
  <2>4. Booted(x) BY <2>3
  <2> HIDE DEF x
  <2>5. Booted(x \o config_gpios \o clock_enable("CLDVFS") \o clock_enable("I2C1")) BY <1>6, <1>8, <2>4, BootedAfter
  <2> DEFINE y == x \o config_gpios \o clock_enable("CLDVFS") \o clock_enable("I2C1")
  <2>6. Booted(y) BY <2>5
  <2> HIDE DEF y
  <2>7. Booted(y \o clock_enable("I2C5") \o clock_enable("TZRAM") \o i2c_init("I2C5")) BY <1>6, <1>7, <2>6, BootedAfter
  <2> DEFINE z == y \o clock_enable("I2C5") \o clock_enable("TZRAM") \o i2c_init("I2C5")
  <2>8. Booted(z) BY <2>7
  <2> HIDE DEF z
  <2>9. Booted(z \o r \o i2c_init("I2C1") \o calls \o last) BY <1>3, <1>4, <1>7, <2>1, <2>8, BootedAfter
  <2> QED BY <2>9 DEF x, y, z, r
<1> HIDE DEF Init
<1> QED BY <1>9, <1>10
LEMMA MainBody == \A a : \E y : Body("ipl_main", a) = <<Call("hw_init", 0)>> \o y /\ Script(y, "boot")
<1> SUFFICES ASSUME NEW a PROVE \E y : Body("ipl_main", a) = <<Call("hw_init", 0)>> \o y /\ Script(y, "boot") OBVIOUS
<1> DEFINE y == <<Call("sd_mount", 0), Call("ipl_main_mounted", 0)>>
<1>1. Quiet(Call("sd_mount", 0)) BY QuietCalls DEF Simple
<1>2. Script(<<Call("ipl_main_mounted", 0)>>, "boot") BY BootRules DEF BootCalls
<1>3. Script(y, "boot") BY <1>1, <1>2, BootRules
<1>4. Body("ipl_main", a) = <<Call("hw_init", 0)>> \o y BY Triple DEF Body, ipl_main
<1> QED BY <1>3, <1>4

(***************************************************************************)
(* The inductive invariant: a change of the clock that is under way, and a *)
(* script after it that leaves the clock where it has to be.               *)
(***************************************************************************)
Left(s, m, r, f) ==
    /\ IsSeq(m) /\ Stage(s, m, f)
    /\ IF s.var.family = "boot" THEN Boots(r) ELSE Ends(r, f, s.var.want)
Starts(s, q) ==
    /\ s.var.family = "boot" /\ Settled(s)
    /\ \/ q = <<Call("ipl_main", 0)>>
       \/ \E y : q = <<Call("hw_init", 0)>> \o y /\ Script(y, "boot")
       \/ s.sclk = "P" /\ \E b : q = <<SetVar("pclk", 3)>> \o b /\ Script(b, "boot")
Good(s, q) ==
    /\ StateOK(s) /\ ClockOK(s)
    /\ Starts(s, q) \/ \E m, r, f : q = m \o r /\ Left(s, m, r, f)
\* A step from <<op>> \o rest.
Goes(op, rest, t, q) ==
    IF op[1] = "call" THEN t = soc /\ q = Body(op[2], op[3]) \o rest ELSE t \in Exec(op) /\ q = rest

LEMMA AfterSeqs ==
    /\ \A s, f, want : Ends(s, f, want) => IsSeq(s)
    /\ \A s : Boots(s) => IsSeq(s)
<1>1. ASSUME NEW s, NEW f, NEW want, Ends(s, f, want) PROVE IsSeq(s)
  <2>1. CASE Script(s, "neutral") BY <2>1, ScriptSeq
  <2>2. CASE LastRate(s, want) BY <2>2, LastLoose, ScriptSeq
  <2> QED BY <1>1, <2>1, <2>2 DEF Ends
<1>2. ASSUME NEW s, Boots(s) PROVE IsSeq(s)
  <2>1. CASE Script(s, "boot") BY <2>1, ScriptSeq
  <2>2. CASE Booted(s)
    <3>1. s = <<Head(s)>> \o Tail(s) /\ IsSeq(Tail(s)) BY <2>2, BootedSplit
    <3> DEFINE h == Head(s)
               y == Tail(s)
    <3> HIDE DEF h, y
    <3>2. s = <<h>> \o y /\ IsSeq(y) BY <3>1 DEF h, y
    <3> QED BY <3>2, First
  <2> QED BY <1>2, <2>1, <2>2 DEF Boots
<1> QED BY ONLY <1>1, <1>2
\* A script of which nothing has begun.
LEMMA Fresh ==
    ASSUME NEW s, NEW q, StateOK(s), ClockOK(s), Settled(s),
           IF s.var.family = "boot" THEN Boots(q) ELSE Ends(q, s.var.fid, s.var.want)
    PROVE  Good(s, q)
<1>1. IsSeq(q) BY AfterSeqs
<1>2. q = <<>> \o q BY <1>1, Unit
<1>3. Left(s, <<>>, q, s.var.fid) BY Singles DEF Left, Stage
<1> QED BY <1>2, <1>3 DEF Good
LEMMA BootsBefore == ASSUME NEW x, NEW r, Script(x, "boot"), Boots(r) PROVE Boots(x \o r)
BY Joined, BootedBefore DEF Boots
LEMMA PlainIsNoCall == ASSUME NEW op, Plain(op) PROVE op[1] # "call"
<1>1. Gate(op) => op[1] # "call" BY DEF Gate, On, Off, Hold, Free, Only, Configured, PllOn, PllOff
<1>2. Pin(op) => op[1] # "call" BY DEF Pin, Settle, Drive, Output, Mode
<1>3. Access(op) => op[1] # "call" BY DEF Access, Use, Vblank, Tell
<1>4. Setting(op) => op[1] # "call" BY DEF Setting, SetVar, SetAt, Change
<1>5. Sent(op) \/ Updated(op) \/ Verified(op) => op[1] # "call" BY DEF Sent, Updated, Verified, Send, Bits, Verify
<1>6. RailWritten(op) => op[1] # "call" BY DEF RailWritten, Rmw
<1> QED BY <1>1, <1>2, <1>3, <1>4, <1>5, <1>6 DEF Plain
LEMMA CallParts == \A f, a : Call(f, a)[1] = "call" /\ Call(f, a)[2] = f /\ Call(f, a)[3] = a
BY DEF Call
LEMMA CallGoes ==
    ASSUME NEW f, NEW a, NEW rest, NEW t, NEW q, Goes(Call(f, a), rest, t, q)
    PROVE  t = soc /\ q = Body(f, a) \o rest
BY CallParts DEF Goes

\* A quiet operation or call leaves as much to do.
LEMMA QuietGoes ==
    ASSUME StateOK(soc), ClockOK(soc), Settled(soc), NEW op, Quiet(op), NEW rest, NEW t, NEW q, Goes(op, rest, t, q)
    PROVE  /\ StateOK(t) /\ ClockOK(t) /\ Settled(t) /\ SameClock(t, soc)
           /\ \E x : Calm(x) /\ (q = x \o rest \/ q = rest)
<1>1. CASE Plain(op)
  <2>1. t \in Exec(op) /\ q = rest BY <1>1, PlainIsNoCall DEF Goes
  <2>2. StateOK(t) /\ SameClock(t, soc) BY <1>1, <2>1, PlainKeeps DEF Harmless
  <2>3. ClockOK(t) /\ Settled(t) BY <2>2 DEF ClockOK, Settled, SameClock
  <2> QED BY <2>1, <2>2, <2>3, CalmRules
<1>2. ASSUME NEW f, NEW a, op = Call(f, a), CleanCall(f, a)
      PROVE  t = soc /\ \E x : Calm(x) /\ q = x \o rest
  <2>1. t = soc /\ q = Body(f, a) \o rest BY <1>2, CallGoes
  <2> QED BY <1>2, <2>1, CleanBody
<1> QED BY <1>1, <1>2 DEF Quiet, SameClock
LEMMA RateGoes ==
    ASSUME StateOK(soc), ClockOK(soc), Settled(soc), NEW g \in Nat, NEW rest, NEW t, NEW q, Goes(Rate(g), rest, t, q),
           IF soc.var.family = "boot" THEN Boots(rest) ELSE Ends(rest, Clip(g), soc.var.want)
    PROVE  Good(t, q)
<1>1. t = soc /\ q = Body("bpmp_clk_rate_set", g) \o rest BY CallGoes DEF Rate
<1>2. PICK m : Body("bpmp_clk_rate_set", g) = m /\ IsSeq(m) /\ Stage(soc, m, Clip(g)) BY RateBody
<1>3. Left(soc, m, rest, Clip(g)) BY <1>2 DEF Left
<1> QED BY <1>1, <1>2, <1>3 DEF Good

\* Where the clock is set later, and where it is as it has to be.
LEMMA LooseGoes ==
    ASSUME StateOK(soc), ClockOK(soc), Settled(soc), soc.var.family # "boot",
           NEW op, NEW rest, NEW t, NEW q, Goes(op, rest, t, q), Allowed(op, "loose"), LastRate(rest, soc.var.want)
    PROVE  Good(t, q)
<1>1. CASE Quiet(op)
  <2>1. /\ StateOK(t) /\ ClockOK(t) /\ Settled(t) /\ SameClock(t, soc)
        /\ \E x : Calm(x) /\ (q = x \o rest \/ q = rest) BY <1>1, QuietGoes
  <2>2. LastRate(q, soc.var.want) BY <2>1, LastBefore, LooseRules
  <2> QED BY <2>1, <2>2, Fresh DEF SameClock, Ends
<1>2. CASE RateCall(op)
  <2>1. PICK g \in Nat : op = Rate(g) BY <1>2 DEF RateCall
  <2> QED BY <2>1, RateGoes DEF Ends
<1>3. ASSUME NEW a, op = Call("bpmp_clk_rate_get", a) PROVE Good(t, q)
  <2>1. t = soc /\ q = Body("bpmp_clk_rate_get", a) \o rest BY <1>3, CallGoes
  <2>2. PICK m : Body("bpmp_clk_rate_get", a) = m /\ IsSeq(m) /\ Stage(soc, m, soc.var.fid) BY GetBody
  <2>3. Left(soc, m, rest, soc.var.fid) BY <2>2 DEF Left, Ends
  <2> QED BY <2>1, <2>2, <2>3 DEF Good
<1>4. ASSUME NEW f \in {"tsec_query", "jc_init_hw"}, NEW a, op = Call(f, a) PROVE Good(t, q)
  <2>1. t = soc /\ q = Body(f, a) \o rest BY <1>4, CallGoes
  <2>2. Script(Body(f, a), "loose") BY TsecBody, JoyConBody, LastLoose, LooseRules
  <2>3. LastRate(q, soc.var.want) BY <2>1, <2>2, LastBefore
  <2> QED BY <2>1, <2>3, Fresh DEF Ends
<1> QED BY <1>1, <1>2, <1>3, <1>4 DEF Allowed, Restoring
LEMMA NeutralGoes ==
    ASSUME StateOK(soc), ClockOK(soc), Settled(soc), soc.var.family # "boot", soc.var.fid = soc.var.want,
           NEW op, NEW rest, NEW t, NEW q, Goes(op, rest, t, q), Allowed(op, "neutral"), Script(rest, "neutral")
    PROVE  Good(t, q)
<1>1. CASE Quiet(op)
  <2>1. /\ StateOK(t) /\ ClockOK(t) /\ Settled(t) /\ SameClock(t, soc)
        /\ \E x : Calm(x) /\ (q = x \o rest \/ q = rest) BY <1>1, QuietGoes
  <2>2. Script(q, "neutral") BY <2>1, LooseRules
  <2> QED BY <2>1, <2>2, Fresh DEF SameClock, Ends
<1>2. ASSUME NEW a, op = Call("bpmp_clk_rate_get", a) PROVE Good(t, q)
  <2>1. t = soc /\ q = Body("bpmp_clk_rate_get", a) \o rest BY <1>2, CallGoes
  <2>2. PICK m : Body("bpmp_clk_rate_get", a) = m /\ IsSeq(m) /\ Stage(soc, m, soc.var.fid) BY GetBody
  <2>3. Left(soc, m, rest, soc.var.fid) BY <2>2 DEF Left, Ends
  <2> QED BY <2>1, <2>2, <2>3 DEF Good
<1>3. ASSUME NEW f \in {"tsec_query", "jc_init_hw"}, NEW a, op = Call(f, a) PROVE Good(t, q)
  <2>1. t = soc /\ q = Body(f, a) \o rest BY <1>3, CallGoes
  <2>2. Calm(Body(f, a)) \/ LastRate(Body(f, a), soc.var.fid) BY TsecBody, JoyConBody
  <2>3. Script(q, "neutral") \/ LastRate(q, soc.var.want) BY <2>1, <2>2, LastAfter, LooseRules
  <2> QED BY <2>1, <2>3, Fresh DEF Ends
<1> QED BY <1>1, <1>2, <1>3 DEF Allowed, Restoring
\* On the boot path.
LEMMA BootGoes ==
    ASSUME StateOK(soc), ClockOK(soc), Settled(soc), soc.var.family = "boot",
           NEW op, NEW rest, NEW t, NEW q, Goes(op, rest, t, q), Allowed(op, "boot"), Boots(rest)
    PROVE  Good(t, q)
<1>1. CASE Quiet(op)
  <2>1. /\ StateOK(t) /\ ClockOK(t) /\ Settled(t) /\ SameClock(t, soc)
        /\ \E x : Calm(x) /\ (q = x \o rest \/ q = rest) BY <1>1, QuietGoes
  <2>2. Boots(q) BY <2>1, BootsBefore, LooseRules
  <2> QED BY <2>1, <2>2, Fresh DEF SameClock
<1>2. CASE RateCall(op)
  <2>1. PICK g \in Nat : op = Rate(g) BY <1>2 DEF RateCall
  <2> QED BY <2>1, RateGoes
<1>3. CASE op = Sclk("P")
  <2>1. t \in Exec(Sclk("P")) /\ q = rest BY <1>3 DEF Goes, Sclk
  <2>2. StateOK(t) /\ t.sclk = "P" /\ t.var = soc.var BY <2>1, SclkStep
  <2>3. ClockOK(t) /\ Settled(t) BY <2>2 DEF ClockOK, Settled
  <2> QED BY <2>1, <2>2, <2>3, Fresh
<1>4. ASSUME NEW f \in BootCalls, NEW a, op = Call(f, a) PROVE Good(t, q)
  <2>1. t = soc /\ q = Body(f, a) \o rest BY <1>4, CallGoes
  <2>2. Script(Body(f, a), "boot") BY JoyConBody, ReinitBody, PowerBody, LaunchBody, MountedBody DEF BootCalls
  <2>3. Boots(q) BY <2>1, <2>2, BootsBefore
  <2> QED BY <2>1, <2>3, Fresh
<1> QED BY <1>1, <1>2, <1>3, <1>4 DEF Allowed, BootOp

LEMMA StepGoes ==
    ASSUME Step, NEW op, NEW rest, IsSeq(rest), todo = <<op>> \o rest
    PROVE  Goes(op, rest, soc', todo')
<1>1. Head(todo) = op /\ Tail(todo) = rest BY First
<1> QED BY <1>1 DEF Step, Goes
LEMMA StageOver == ASSUME NEW s, NEW f, Stage(s, <<>>, f) PROVE Settled(s) /\ f = s.var.fid
<1>1. \A n : /\ Up1(n) # <<>> /\ Up2(n) # <<>> /\ Up3(n) # <<>> /\ Up4(n) # <<>> /\ Up5(n) # <<>> /\ Up6(n) # <<>>
             /\ Up7(n) # <<>> /\ Up8(n) # <<>> /\ Up9(n) # <<>> /\ UpAgain(n) # <<>>
  BY First, FirstOne, StageSeqs DEF Up1, Up2, Up3, Up4, Up5, Up6, Up7, Up8, Up9, UpAgain
<1>2. Down1 # <<>> /\ Down2 # <<>> /\ Down3 # <<>> /\ Down4 # <<>> /\ Down5 # <<>> /\ Down6 # <<>>
  BY First, FirstOne, StageSeqs DEF Down1, Down2, Down3, Down4, Down5, Down6
<1> QED BY <1>1, <1>2 DEF Stage
\* The next operation of the script: within a change, after it, or at the start.
LEMMA StepKeepsGood == ASSUME Good(soc, todo), Step PROVE Good(soc', todo')
<1>0. StateOK(soc) /\ ClockOK(soc) /\ todo # <<>> BY DEF Step, Good
<1>1. ASSUME NEW m, NEW r, NEW f, todo = m \o r, Left(soc, m, r, f), m # <<>> PROVE Good(soc', todo')
  <2>1. PICK op, y : m = <<op>> \o y /\ Keeps(op, y, f) BY <1>0, <1>1, StageStep DEF Left
  <2>2. IsSeq(<<op>>) /\ IsSeq(y) /\ IsSeq(r) BY <1>1, <2>1, Singles, AfterSeqs DEF Keeps, Left
  <2>3. (<<op>> \o y) \o r = <<op>> \o (y \o r) BY <2>2, Assoc
  <2>4. todo = <<op>> \o (y \o r) BY <1>1, <2>1, <2>3
  <2>5. IsSeq(y \o r) BY <2>2, SeqJoined
  <2>6. Goes(op, y \o r, soc', todo') BY <2>4, <2>5, StepGoes
  <2>7. soc' \in Exec(op) /\ todo' = y \o r BY <2>1, <2>6 DEF Keeps, Goes
  <2>8. StateOK(soc') /\ Same(soc', soc) /\ ClockOK(soc') /\ Stage(soc', y, f) BY <2>1, <2>7 DEF Keeps
  <2>9. Left(soc', y, r, f) BY <1>1, <2>2, <2>8 DEF Left, Same
  <2> QED BY <2>7, <2>8, <2>9 DEF Good
<1>2. ASSUME NEW r, NEW f, todo = r, Settled(soc), f = soc.var.fid,
             IF soc.var.family = "boot" THEN Boots(r) ELSE Ends(r, f, soc.var.want)
      PROVE  Good(soc', todo')
  <2>1. CASE soc.var.family # "boot" /\ Script(r, "neutral") /\ f = soc.var.want
    <3>1. r = <<Head(r)>> \o Tail(r) /\ Allowed(Head(r), "neutral") /\ Script(Tail(r), "neutral") BY <1>0, <1>2, <2>1, Split
    <3>2. IsSeq(Tail(r)) BY <3>1, ScriptSeq
    <3>3. Goes(Head(r), Tail(r), soc', todo') BY <1>2, <3>1, <3>2, StepGoes
    <3> QED BY <1>0, <1>2, <2>1, <3>1, <3>3, NeutralGoes
  <2>2. CASE soc.var.family # "boot" /\ LastRate(r, soc.var.want)
    <3>1. /\ r = <<Head(r)>> \o Tail(r) /\ IsSeq(Tail(r)) /\ Allowed(Head(r), "loose")
          /\ \/ \E g \in Nat : Head(r) = Rate(g) /\ Clip(g) = soc.var.want /\ Script(Tail(r), "neutral")
             \/ LastRate(Tail(r), soc.var.want)
      BY <2>2, LastSplit
    <3>2. Goes(Head(r), Tail(r), soc', todo') BY <1>2, <3>1, StepGoes
    <3>3. ASSUME NEW g \in Nat, Head(r) = Rate(g), Clip(g) = soc.var.want, Script(Tail(r), "neutral") PROVE Good(soc', todo')
      <4>1. Ends(Tail(r), Clip(g), soc.var.want) BY <3>3 DEF Ends
      <4>2. Goes(Rate(g), Tail(r), soc', todo') BY <3>2, <3>3
      <4> QED BY <1>0, <1>2, <2>2, <4>1, <4>2, RateGoes
    <3> QED BY <1>0, <1>2, <2>2, <3>1, <3>2, <3>3, LooseGoes
  <2>3. CASE soc.var.family = "boot" /\ Script(r, "boot")
    <3>1. r = <<Head(r)>> \o Tail(r) /\ Allowed(Head(r), "boot") /\ Script(Tail(r), "boot") BY <1>0, <1>2, <2>3, Split
    <3>2. IsSeq(Tail(r)) BY <3>1, ScriptSeq
    <3>3. Goes(Head(r), Tail(r), soc', todo') BY <1>2, <3>1, <3>2, StepGoes
    <3> QED BY <1>0, <1>2, <2>3, <3>1, <3>3, BootGoes DEF Boots
  <2>4. CASE soc.var.family = "boot" /\ Booted(r)
    <3>1. /\ r = <<Head(r)>> \o Tail(r) /\ IsSeq(Tail(r))
          /\ \/ /\ Head(r) = Sclk("P")
                /\ \E b : Tail(r) = <<SetVar("pclk", 3)>> \o b /\ Script(b, "boot")
             \/ Allowed(Head(r), "boot") /\ Booted(Tail(r))
      BY <2>4, BootedSplit
    <3>2. Goes(Head(r), Tail(r), soc', todo') BY <1>2, <3>1, StepGoes
    <3>3. ASSUME Head(r) = Sclk("P"), \E b : Tail(r) = <<SetVar("pclk", 3)>> \o b /\ Script(b, "boot") PROVE Good(soc', todo')
      <4>0. Goes(Sclk("P"), Tail(r), soc', todo') BY <3>2, <3>3
      <4>1. soc' \in Exec(Sclk("P")) /\ todo' = Tail(r) BY ONLY <4>0 DEF Goes, Sclk
      <4>2. StateOK(soc') /\ soc'.sclk = "P" /\ soc'.var = soc.var BY <1>0, <4>1, SclkStep
      <4>3. ClockOK(soc') /\ Settled(soc') BY <1>2, <2>4, <4>2 DEF ClockOK, Settled
      <4>4. Starts(soc', todo') BY <2>4, <3>3, <4>1, <4>2, <4>3 DEF Starts
      <4> QED BY <4>2, <4>3, <4>4 DEF Good
    <3> QED BY <1>0, <1>2, <2>4, <3>1, <3>2, <3>3, BootGoes DEF Boots
  <2> QED BY <1>2, <2>1, <2>2, <2>3, <2>4 DEF Ends, Boots
<1>3. ASSUME NEW r, NEW f, todo = <<>> \o r, Left(soc, <<>>, r, f) PROVE Good(soc', todo')
  <2>1. todo = r BY <1>3, AfterSeqs, Unit DEF Left
  <2>2. Settled(soc) /\ f = soc.var.fid BY <1>3, StageOver DEF Left
  <2> QED BY <1>2, <1>3, <2>1, <2>2 DEF Left
<1>4. CASE Starts(soc, todo)
  <2>0. soc.var.family = "boot" /\ Settled(soc) BY <1>4 DEF Starts
  <2>1. CASE todo = <<Call("ipl_main", 0)>>
    <3>1. todo = <<Call("ipl_main", 0)>> \o <<>> /\ IsSeq(<<>>) BY <2>1, Singles, Unit
    <3>2. soc' = soc /\ todo' = Body("ipl_main", 0) \o <<>> BY <3>1, StepGoes, CallGoes
    <3>3. PICK y : Body("ipl_main", 0) = <<Call("hw_init", 0)>> \o y /\ Script(y, "boot") BY MainBody
    <3>4. todo' = <<Call("hw_init", 0)>> \o y BY <3>2, <3>3, ScriptSeq, First, Unit
    <3>5. Starts(soc', todo') BY <2>0, <3>2, <3>3, <3>4 DEF Starts
    <3> QED BY <1>0, <3>2, <3>5 DEF Good
  <2>2. ASSUME NEW y, todo = <<Call("hw_init", 0)>> \o y, Script(y, "boot") PROVE Good(soc', todo')
    <3>1. soc' = soc /\ todo' = Body("hw_init", 0) \o y BY <2>2, ScriptSeq, StepGoes, CallGoes
    <3>2. Booted(todo') BY <2>2, <3>1, InitBody, BootedAfter
    <3> QED BY <1>0, <2>0, <3>1, <3>2, Fresh DEF Boots
  <2>3. ASSUME NEW b, soc.sclk = "P", todo = <<SetVar("pclk", 3)>> \o b, Script(b, "boot") PROVE Good(soc', todo')
    <3>1. Goes(SetVar("pclk", 3), b, soc', todo') BY <2>3, ScriptSeq, StepGoes
    <3>2. soc' \in Exec(SetVar("pclk", 3)) /\ todo' = b BY <3>1 DEF Goes, SetVar
    <3>3. /\ StateOK(soc') /\ Same(soc', soc) /\ soc'.sclk = "P" /\ soc'.var.fid = soc.var.fid /\ soc'.var.divn = soc.var.divn
      BY <1>0, <2>3, <3>2, VarStep
    <3>4. ClockOK(soc') /\ Settled(soc') BY <2>0, <3>3 DEF ClockOK, Settled, Same
    <3> QED BY <2>0, <2>3, <3>2, <3>3, <3>4, Fresh DEF Boots, Same
  <2> QED BY <1>4, <2>1, <2>2, <2>3 DEF Starts
<1> QED BY <1>1, <1>3, <1>4 DEF Good

\* With nothing left to do the clock is what was asked for.
LEMMA AtRest ==
    ASSUME Good(soc, todo), todo = <<>>
    PROVE  Settled(soc) /\ (soc.var.family # "boot" => soc.var.fid = soc.var.want)
<1>1. ~Starts(soc, todo)
  <2>1. <<Call("ipl_main", 0)>> # <<>> BY FirstOne
  <2>2. \A x, y, k : Script(y, k) => <<x>> \o y # <<>> BY First, ScriptSeq
  <2> QED BY <2>1, <2>2 DEF Starts
<1>2. PICK m, r, f : todo = m \o r /\ Left(soc, m, r, f) BY <1>1 DEF Good
<1>3. IsSeq(m) /\ IsSeq(r) BY <1>2, AfterSeqs DEF Left
<1>4. m = <<>> /\ r = <<>>
  <2>1. PICK S : m \in Seq(S) BY <1>3 DEF IsSeq
  <2>2. PICK T : r \in Seq(T) BY <1>3 DEF IsSeq
  <2>3. m \o r = <<>> BY <1>2
  <2>4. Len(m) + Len(r) = 0 /\ Len(m) \in Nat /\ Len(r) \in Nat
    <3>1. Len(m \o r) = Len(m) + Len(r) BY <2>1, <2>2
    <3>2. Len(m \o r) = 0 BY <2>3
    <3> QED BY <2>1, <2>2, <3>1, <3>2
  <2>5. Len(m) = 0 /\ Len(r) = 0 BY <2>4
  <2> QED BY <2>1, <2>2, <2>5
<1>5. Settled(soc) /\ f = soc.var.fid BY <1>2, <1>4, StageOver DEF Left
<1>6. ~LastRate(<<>>, soc.var.want) BY LastSplit
<1> QED BY <1>2, <1>4, <1>5, <1>6 DEF Left, Ends

\* The callers, and what they ask for.
LEMMA CallsFit ==
    ASSUME StateOK(soc), NEW op \in Calls
    PROVE  /\ soc.var.family # "boot"
           /\ \/ \E g \in Nat : op = Rate(g)
              \/ (Quiet(op) \/ Restoring(op)) /\ op[2] # "bpmp_clk_rate_set"
<1> DEFINE Fit(x) == (\E g \in Nat : x = Rate(g)) \/ ((Quiet(x) \/ Restoring(x)) /\ x[2] # "bpmp_clk_rate_set")
<1>1. soc.var.family \in Families /\ (soc.var.family = "rails" => soc.var.rail \in RailNames) BY DEF StateOK, VarOK
<1>2. \A f \in Simple : \A a : Fit(Call(f, a))
  <2>1. "bpmp_clk_rate_set" \notin Simple BY DEF Simple
  <2> QED BY <2>1, QuietCalls, CallParts
<1>3. \A f \in {"bpmp_clk_rate_get", "tsec_query", "jc_init_hw"} : \A a : Fit(Call(f, a)) BY CallParts DEF Restoring
<1>4. \A g \in 0 .. 4 : Fit(Call("bpmp_clk_rate_set", g)) BY DEF Rate
<1>5. \A f \in {"set_voltage", "regulator_enable"}, r \in RailNames : \A v : Fit(Call(f, <<r, v>>)) BY QuietCalls, CallParts
<1>6. \A r \in Rates : Fit(Call("minerva_change_freq", r)) BY QuietCalls, CallParts
<1>7. \A f \in {"uart_init", "jc_uart_init"}, u \in Uarts : Fit(Call(f, u)) BY QuietCalls, CallParts
<1> HIDE DEF Fit
<1>8. ASSUME soc.var.family = "clocks" PROVE Fit(op)
  <2> DEFINE Types == {"old", "new", "emu"}
  <2>1. Calls = {Call("bpmp_clk_rate_set", f) : f \in 0 .. 4} \cup {Call("bpmp_clk_rate_get", 0)}
                \cup {Call("bpmp_mmu_enable", 0), Call("bpmp_mmu_disable", 0), Call("kfuse_read", 0)}
                \cup {Call("tsec_query", <<t, x>>) : t \in Types, x \in TsecFails}
    BY <1>8 DEF Calls
  <2>2. Fit(Call("bpmp_mmu_enable", 0)) /\ Fit(Call("bpmp_mmu_disable", 0)) /\ Fit(Call("kfuse_read", 0)) BY <1>2 DEF Simple
  <2>3. Fit(Call("bpmp_clk_rate_get", 0)) /\ \A a : Fit(Call("tsec_query", a)) BY <1>3
  <2>4. \A x \in {Call("bpmp_clk_rate_set", f) : f \in 0 .. 4} : Fit(x) BY ONLY <1>4
  <2> HIDE DEF Types
  <2>5. ASSUME NEW x \in {Call("tsec_query", <<t, y>>) : t \in Types, y \in TsecFails} PROVE Fit(x)
    <3>1. PICK t \in Types, y \in TsecFails : x = Call("tsec_query", <<t, y>>) BY ONLY <2>5
    <3> QED BY ONLY <2>3, <3>1
  <2>6. \A x \in {Call("bpmp_mmu_enable", 0), Call("bpmp_mmu_disable", 0), Call("kfuse_read", 0), Call("bpmp_clk_rate_get", 0)} : Fit(x)
    BY ONLY <2>2, <2>3
  <2> QED BY ONLY <2>1, <2>4, <2>5, <2>6, op \in Calls
<1>9. ASSUME soc.var.family = "dram" PROVE Fit(op)
  <2> DEFINE low == 204
             mid == 800
             high == 1600
  <2>1. Calls = {Call("minerva_init", 0), Call("minerva_change_freq", low), Call("minerva_change_freq", mid),
                 Call("minerva_change_freq", high), Call("minerva_prep_boot_freq", 0), Call("minerva_periodic_training", 0),
                 Call("pllu", TRUE), Call("pllu", FALSE)}
    BY <1>9 DEF Calls
  <2>2. \A a : /\ Fit(Call("minerva_init", a)) /\ Fit(Call("minerva_prep_boot_freq", a))
               /\ Fit(Call("minerva_periodic_training", a)) /\ Fit(Call("pllu", a))
    BY <1>2 DEF Simple
  <2>3. low \in Rates /\ mid \in Rates /\ high \in Rates BY DEF Rates
  <2> HIDE DEF low, mid, high
  <2>4. Fit(Call("minerva_change_freq", low)) /\ Fit(Call("minerva_change_freq", mid)) /\ Fit(Call("minerva_change_freq", high))
    BY <1>6, <2>3
  <2> QED BY ONLY <2>1, <2>2, <2>4, op \in Calls
<1>10. ASSUME soc.var.family = "panel" PROVE Fit(op)
  <2> DEFINE Dark == {Call("display_init", n) : n \in {0, 1, 3}} \cup {Call("set_decoded", TRUE), Call("set_decoded", FALSE)}
             Shown == {Call("pwm_init", 0), Call("get_brightness", 0), Call("color_screen", 0), Call("framebuffer", "pitch"),
                       Call("framebuffer", "block"), Call("console", TRUE), Call("console", FALSE), Call("cursor", TRUE),
                       Call("cursor", FALSE), Call("dsi_read", 0), Call("dsi_write", 0), Call("display_end", 0), Call("display_init", 0)}
                      \cup {Call("brightness", l) : l \in {0, 100}}
  <2>1. Calls = IF soc.var.video /\ soc.var.panel # "sam" /\ "PWM" \notin soc.clk THEN {Call("pwm_init", 0)}
                ELSE IF ~soc.var.video THEN Dark ELSE Shown
    BY <1>10 DEF Calls
  <2>2. \A a : /\ Fit(Call("pwm_init", a)) /\ Fit(Call("display_init", a)) /\ Fit(Call("set_decoded", a))
               /\ Fit(Call("get_brightness", a)) /\ Fit(Call("color_screen", a)) /\ Fit(Call("framebuffer", a))
               /\ Fit(Call("console", a)) /\ Fit(Call("cursor", a)) /\ Fit(Call("dsi_read", a)) /\ Fit(Call("dsi_write", a))
               /\ Fit(Call("display_end", a)) /\ Fit(Call("brightness", a))
    BY <1>2 DEF Simple
  <2>3. \A x \in Dark : Fit(x) BY ONLY <2>2
  <2>4. \A x \in Shown : Fit(x) BY ONLY <2>2
  <2> HIDE DEF Dark, Shown
  <2> QED BY ONLY <2>1, <2>2, <2>3, <2>4, op \in Calls
<1>11. ASSUME soc.var.family = "rails" PROVE Fit(op)
  <2>1. Calls = {Call("set_voltage", <<soc.var.rail, uv>>) : uv \in Steps(soc.var.rail)}
                \cup {Call("regulator_enable", <<soc.var.rail, on>>) : on \in BOOLEAN}
    BY <1>11 DEF Calls
  <2>2. \A v : Fit(Call("set_voltage", <<soc.var.rail, v>>)) /\ Fit(Call("regulator_enable", <<soc.var.rail, v>>))
    BY <1>1, <1>5, <1>11
  <2> QED BY ONLY <2>1, <2>2, op \in Calls
<1>12. ASSUME soc.var.family = "chips" PROVE Fit(op)
  <2>1. Calls = {Call("enable_charger", 0), Call("battery_removal", 0), Call("tmp451", TRUE), Call("tmp451", FALSE),
                 Call("max17050_fix", 0), Call("stop_alarm", 0), Call("rtc_get_time", 0)}
    BY <1>12 DEF Calls
  <2>2. \A a : /\ Fit(Call("enable_charger", a)) /\ Fit(Call("battery_removal", a)) /\ Fit(Call("tmp451", a))
               /\ Fit(Call("max17050_fix", a)) /\ Fit(Call("stop_alarm", a)) /\ Fit(Call("rtc_get_time", a))
    BY <1>2 DEF Simple
  <2> QED BY ONLY <2>1, <2>2, op \in Calls
<1>13. ASSUME soc.var.family = "users" PROVE Fit(op)
  <2> DEFINE Sides == {"jcl", "jcr"}
  <2>1. Calls = {Call("set_fan_duty", d) : d \in {0, 1, 2}} \cup {Call("usb_src", on) : on \in BOOLEAN}
                \cup {Call("jc_power_supply", <<j, on>>) : j \in Sides, on \in BOOLEAN}
                \cup {Call("jc_init_hw", 0), Call("jc_deinit", {"UARTB", "UARTC"} \subseteq soc.set)}
                \cup {Call("jc_uart_init", u) : u \in {"UARTB", "UARTC"} \cap soc.clk}
    BY <1>13 DEF Calls
  <2>2. \A a : /\ Fit(Call("set_fan_duty", a)) /\ Fit(Call("usb_src", a)) /\ Fit(Call("jc_power_supply", a))
               /\ Fit(Call("jc_deinit", a))
    BY <1>2 DEF Simple
  <2>3. Fit(Call("jc_init_hw", 0)) BY <1>3
  <2>4. \A u \in {"UARTB", "UARTC"} : Fit(Call("jc_uart_init", u)) BY <1>7 DEF Uarts
  <2>5. /\ \A x \in {Call("set_fan_duty", d) : d \in {0, 1, 2}} : Fit(x)
        /\ \A x \in {Call("usb_src", on) : on \in BOOLEAN} : Fit(x)
    BY ONLY <2>2
  <2> HIDE DEF Sides
  <2>6. ASSUME NEW x \in {Call("jc_power_supply", <<j, on>>) : j \in Sides, on \in BOOLEAN} PROVE Fit(x)
    <3>1. PICK j \in Sides, on \in BOOLEAN : x = Call("jc_power_supply", <<j, on>>) BY ONLY <2>6
    <3> QED BY ONLY <2>2, <3>1
  <2>7. \A x \in {Call("jc_init_hw", 0), Call("jc_deinit", {"UARTB", "UARTC"} \subseteq soc.set)} : Fit(x) BY ONLY <2>2, <2>3
  <2>8. \A x \in {Call("jc_uart_init", u) : u \in {"UARTB", "UARTC"} \cap soc.clk} : Fit(x) BY ONLY <2>4
  <2> QED BY ONLY <2>1, <2>5, <2>6, <2>7, <2>8, op \in Calls
<1>14. ASSUME soc.var.family = "sensors" PROVE Fit(op)
  <2>1. Calls = {Call("touch", on) : on \in BOOLEAN} \cup {Call("als_power_on", 0), Call("uart_init", "UARTB"),
                 Call("uart_init", "UARTC"), Call("max77620_config_default", 0)}
    BY <1>14 DEF Calls
  <2>2. \A a : Fit(Call("touch", a)) /\ Fit(Call("als_power_on", a)) /\ Fit(Call("max77620_config_default", a))
    BY <1>2 DEF Simple
  <2>3. Fit(Call("uart_init", "UARTB")) /\ Fit(Call("uart_init", "UARTC")) BY <1>7 DEF Uarts
  <2> QED BY ONLY <2>1, <2>2, <2>3, op \in Calls
<1>15. soc.var.family # "boot"
  <2>1. soc.var.family = "boot" => Calls = {} BY DEF Calls
  <2> QED BY <2>1
<1>16. Fit(op) BY <1>1, <1>8, <1>9, <1>10, <1>11, <1>12, <1>13, <1>14, <1>15 DEF Families
<1> QED BY <1>15, <1>16 DEF Fit
LEMMA CallKeepsGood == ASSUME Good(soc, todo), CallOne PROVE Good(soc', todo')
<1>1. StateOK(soc) /\ ClockOK(soc) /\ Settled(soc) /\ (soc.var.family # "boot" => soc.var.fid = soc.var.want)
  BY AtRest DEF Good, CallOne
<1>2. PICK op \in Calls :
         /\ todo' = <<op>>
         /\ soc' = [soc EXCEPT !.var.did = @ \cup (IF soc.var.family = "chips" THEN {op[2]} ELSE {}),
                               !.var.want = IF op[2] = "bpmp_clk_rate_set" THEN IF op[3] > 3 THEN 3 ELSE op[3] ELSE @]
  BY DEF CallOne
<1>3. ASSUME NEW want \in 0 .. 3, soc'.var.want = want,
             \E d : soc' = [soc EXCEPT !.var = [soc.var EXCEPT !.did = d, !.want = want]]
      PROVE  StateOK(soc') /\ ClockOK(soc') /\ Settled(soc') /\ soc'.var.family = soc.var.family /\ soc'.var.fid = soc.var.fid
  <2>1. PICK d : soc' = [soc EXCEPT !.var = [soc.var EXCEPT !.did = d, !.want = want]] BY <1>3
  <2> DEFINE w == [soc.var EXCEPT !.did = d, !.want = want]
  <2>2. VarOK(soc.var) BY <1>1 DEF StateOK
  <2>3. VarOK(w) /\ w.family = soc.var.family /\ w.fid = soc.var.fid /\ w.divn = soc.var.divn /\ w.pclk = soc.var.pclk
    BY <2>2 DEF VarOK, Vars
  <2> HIDE DEF w
  <2>4. soc' = [soc EXCEPT !.var = w] BY <2>1 DEF w
  <2> QED BY <1>1, <2>3, <2>4 DEF StateOK, Fields, ClockOK, Settled
<1>4. soc.var.family # "boot" BY <1>1, CallsFit
<1>5. soc.var.want \in 0 .. 3 /\ "want" \in DOMAIN soc.var /\ DOMAIN soc = Fields BY <1>1 DEF StateOK, VarOK, Vars
<1> DEFINE want == IF op[2] = "bpmp_clk_rate_set" THEN IF op[3] > 3 THEN 3 ELSE op[3] ELSE soc.var.want
<1>8. soc'.var.want = want /\ \E d : soc' = [soc EXCEPT !.var = [soc.var EXCEPT !.did = d, !.want = want]]
  <2>1. soc' = [soc EXCEPT !.var.did = @ \cup (IF soc.var.family = "chips" THEN {op[2]} ELSE {}), !.var.want = want] BY <1>2
  <2> HIDE DEF want
  <2>2. PICK d : soc' = [soc EXCEPT !.var.did = d, !.var.want = want] BY <2>1
  <2> QED BY <1>5, <2>2 DEF Fields
<1>6. ASSUME NEW g \in Nat, op = Rate(g) PROVE Good(soc', todo')
  <2>1. op[2] = "bpmp_clk_rate_set" /\ op[3] = g BY <1>6, CallParts DEF Rate
  <2>2. /\ soc'.var.want = Clip(g) /\ Clip(g) \in 0 .. 3
        /\ \E d : soc' = [soc EXCEPT !.var = [soc.var EXCEPT !.did = d, !.want = Clip(g)]]
    <3>1. want = Clip(g) /\ Clip(g) \in 0 .. 3 BY <2>1 DEF Clip
    <3> HIDE DEF want
    <3> QED BY ONLY <1>8, <3>1
  <2>3. LastRate(todo', soc'.var.want) BY <1>2, <1>6, <2>2, LastAlone
  <2> QED BY <1>3, <1>4, <2>2, <2>3, Fresh DEF Ends
<1>7. ASSUME Quiet(op) \/ Restoring(op), op[2] # "bpmp_clk_rate_set" PROVE Good(soc', todo')
  <2>1. /\ soc'.var.want = soc.var.want
        /\ \E d : soc' = [soc EXCEPT !.var = [soc.var EXCEPT !.did = d, !.want = soc.var.want]]
    <3>1. want = soc.var.want BY <1>7
    <3> HIDE DEF want
    <3> QED BY ONLY <1>8, <3>1
  <2>2. Script(todo', "neutral")
    <3>1. Allowed(op, "neutral") BY <1>7 DEF Allowed
    <3> QED BY <1>2, <3>1, One
  <2> QED BY <1>1, <1>3, <1>4, <1>5, <2>1, <2>2, Fresh DEF Ends
<1> QED BY <1>1, <1>6, <1>7, CallsFit
LEMMA BootKeepsGood == ASSUME Good(soc, todo), Boot PROVE Good(soc', todo')
<1>1. StateOK(soc) /\ ClockOK(soc) /\ Settled(soc) /\ soc.var.family = "boot" BY AtRest DEF Good, Boot
<1>2. soc' = soc /\ todo' = <<Call("ipl_main", 0)>> BY DEF Boot
<1> QED BY <1>1, <1>2 DEF Good, Starts

\* The states it starts in.
Cold(v) ==
    /\ Vars \subseteq DOMAIN v /\ v.family \in Families /\ v.fid = 0 /\ v.want = 0 /\ v.pclk = 3 /\ v.divn = 0
    /\ v.rate = 204 /\ v.panel \in Panels /\ v.glass \in Panels
LEMMA FirstVars ==
    ASSUME NEW family \in Families, NEW hw, NEW glass \in Panels, NEW warm
    PROVE  Cold(FirstVar(family, hw, glass, warm)) /\ FirstVar(family, hw, glass, warm).family = family
<1> DEFINE v == FirstVar(family, hw, glass, warm)
<1>1. Vars \subseteq DOMAIN v BY DEF FirstVar, Vars
<1>2. v.family = family /\ v.fid = 0 /\ v.want = 0 /\ v.pclk = 3 /\ v.divn = 0 /\ v.panel = "" /\ v.glass = glass BY DEF FirstVar
<1>3. v.rate = 204 BY DEF FirstVar
<1>4. "" \in Panels BY DEF Panels
<1> HIDE DEF v
<1> QED BY <1>1, <1>2, <1>3, <1>4 DEF Cold, v
LEMMA FirstBoards ==
    ASSUME NEW v, VarOK(v), NEW warm \in BOOLEAN
    PROVE  /\ StateOK(Board0(v, warm)) /\ Board0(v, warm).sclk = "P" /\ Board0(v, warm).var = v
           /\ DOMAIN Board0(v, warm) = Fields
<1> DEFINE b == Board0(v, warm)
<1>1. DOMAIN b = Fields BY DEF Board0, Fields
<1>2. Devices \ (NoReset \cup (IF v.family = "boot" THEN {} ELSE BootedClocks) \cup (IF warm THEN Lit ELSE {})) \subseteq Devices
  OBVIOUS
<1>3. FirstClocks \subseteq Devices /\ BootedClocks \subseteq Devices /\ Lit \subseteq Devices
  BY DEF FirstClocks, BootedClocks, Lit, Devices
<1>4. b.clk = (IF v.family = "boot" THEN FirstClocks ELSE BootedClocks) \cup (IF warm THEN Lit ELSE {}) BY DEF Board0
<1>5. b.rst = Devices \ (NoReset \cup (IF v.family = "boot" THEN {} ELSE BootedClocks) \cup (IF warm THEN Lit ELSE {}))
  BY DEF Board0
<1>6. b.set \subseteq NeedsSetup BY DEF Board0, NeedsSetup
<1>7. b.pll \subseteq Plls /\ "P" \in b.pll BY DEF Board0, Plls
<1>8. b.sclk = "P" /\ b.var = v BY DEF Board0
<1>9. b.rail = [r \in DOMAIN Regulators |-> [code |-> IF warm /\ r = "ldo0" THEN 16 ELSE 0, on |-> warm /\ r = "ldo0"]]
  BY DEF Board0
<1>10. 16 \in 0 .. Regulators["ldo0"].codes - 1 BY DEF Regulators, Regulator
<1> HIDE DEF b
<1>11. RailOK(b.rail)
  <2>1. DOMAIN b.rail = RailNames BY <1>9 DEF RailNames
  <2>2. \A r \in RailNames : 0 \in 0 .. Regulators[r].codes - 1 BY RailTable
  <2>3. ASSUME NEW r \in RailNames PROVE DOMAIN b.rail[r] = {"code", "on"} /\ b.rail[r].code \in 0 .. Regulators[r].codes - 1
    <3>1. b.rail[r] = [code |-> IF warm /\ r = "ldo0" THEN 16 ELSE 0, on |-> warm /\ r = "ldo0"] BY <1>9 DEF RailNames
    <3>2. (IF warm /\ r = "ldo0" THEN 16 ELSE 0) \in 0 .. Regulators[r].codes - 1 BY <1>10, <2>2
    <3> QED BY <3>1, <3>2
  <2> QED BY <2>1, <2>3 DEF RailOK
<1>12. StateOK(b)
  <2>1. b.clk \subseteq Devices BY <1>3, <1>4
  <2>2. b.rst \subseteq Devices BY <1>5
  <2> QED BY <1>1, <1>6, <1>7, <1>8, <1>11, <2>1, <2>2 DEF StateOK
<1> QED BY <1>1, <1>8, <1>12 DEF b
LEMMA ColdIsGood ==
    ASSUME NEW v, Cold(v), v.family = "rails" => v.rail \in RailNames, "rail" \in DOMAIN v, NEW warm \in BOOLEAN
    PROVE  Good(Board0(v, warm), <<>>)
<1>1. VarOK(v) BY DEF Cold, VarOK, Rates
<1>2. StateOK(Board0(v, warm)) /\ Board0(v, warm).sclk = "P" /\ Board0(v, warm).var = v BY <1>1, FirstBoards
<1>3. Script(<<>>, "neutral") /\ Script(<<>>, "boot") BY Empty
<1> DEFINE s == Board0(v, warm)
<1> HIDE DEF s
<1>4. StateOK(s) /\ s.sclk = "P" /\ s.var = v BY <1>2 DEF s
<1>5. ClockOK(s) /\ Settled(s) /\ s.var.fid = s.var.want BY <1>4 DEF ClockOK, Settled, Cold
<1>6. Good(s, <<>>) BY <1>3, <1>4, <1>5, Fresh DEF Boots, Ends
<1> QED BY <1>6 DEF s
LEMMA InitIsGood == ASSUME BoardInit PROVE Good(soc, todo)
<1>1. todo = <<>> BY DEF BoardInit
<1> DEFINE glassOf(hw) ==
      CASE hw[2] = "icosa" -> "jdi" [] hw[2] = "iowa" -> "known55" [] hw[2] = "hoag" -> "inl62" [] OTHER -> "sam"
<1>2. \A hw : glassOf(hw) \in Panels BY DEF Panels
<1>3. "rail" \in Vars BY DEF Vars
<1>4. \A f \in {"boot", "clocks", "chips", "sensors", "dram", "panel", "rails", "users"} : f \in Families BY DEF Families
<1>5. PICK hw \in Hardware :
         LET VarOf(family) == FirstVar(family, hw, glassOf(hw), FALSE)
         IN \/ \E warm \in BOOLEAN, n \in {0, 3}, module \in {b \in BOOLEAN : b => hw[1] = "t210"} :
               \E ends \in {<<FALSE, "none">>} \cup {<<TRUE, p>> : p \in Payloads} :
                 soc = Board0([FirstVar("boot", hw, glassOf(hw), warm) EXCEPT !.tries = n, !.module = module,
                                                                       !.sdok = ends[1], !.payload = ends[2]], warm)
            \/ /\ hw[2] \in {"icosa", "hoag"}
               /\ \E family \in {"clocks", "chips", "sensors"} :
                    soc = Board0([VarOf(family) EXCEPT !.minerva = FALSE], FALSE)
            \/ \E ramoc, module \in BOOLEAN : soc = Board0([VarOf("dram") EXCEPT !.ramoc = ramoc, !.module = module], FALSE)
            \/ \E g \in IF hw[2] = "aula" THEN {"sam"} ELSE Panels \ {"", "sam"} :
                 soc = Board0(FirstVar("panel", hw, g, FALSE), FALSE)
            \/ hw[2] = "icosa" /\ \E r \in DOMAIN Regulators : soc = Board0([VarOf("rails") EXCEPT !.rail = r], FALSE)
            \/ \E f \in {0, 2} :
                 soc = LET b == Board0([VarOf("users") EXCEPT !.want = f, !.fid = f, !.pclk = IF f = 0 THEN 3 ELSE 4,
                                                             !.divn = IF f = 0 THEN 0 ELSE Divn[f]], FALSE)
                       IN IF f = 0 THEN b ELSE [b EXCEPT !.sclk = "C", !.pll = {"P", "C"}]
  BY DEF BoardInit
<1> DEFINE glass == glassOf(hw)
<1>6. glass \in Panels BY <1>2
<1> HIDE DEF glassOf, glass
<1>7. \A family \in Families : \A warm : /\ Cold(FirstVar(family, hw, glass, warm))
                                     /\ FirstVar(family, hw, glass, warm).family = family
  BY <1>6, FirstVars
<1>8. ASSUME NEW v, NEW w, Cold(w), v = w, v.family # "rails", NEW warm \in BOOLEAN, soc = Board0(v, warm)
      PROVE  Good(soc, todo)
  BY <1>1, <1>3, <1>8, ColdIsGood DEF Cold
<1>9. ASSUME NEW warm \in BOOLEAN, NEW n, NEW module, NEW ends,
             soc = Board0([FirstVar("boot", hw, glass, warm) EXCEPT !.tries = n, !.module = module,
                                                                    !.sdok = ends[1], !.payload = ends[2]], warm)
      PROVE  Good(soc, todo)
  <2> DEFINE w == FirstVar("boot", hw, glass, warm)
             v == [w EXCEPT !.tries = n, !.module = module, !.sdok = ends[1], !.payload = ends[2]]
  <2>1. Cold(w) /\ w.family = "boot" BY <1>4, <1>7
  <2> HIDE DEF w
  <2>2. Cold(v) /\ v.family = "boot" BY <2>1 DEF Cold
  <2>3. soc = Board0(v, warm) BY <1>9 DEF w
  <2> HIDE DEF v
  <2> QED BY <1>8, <2>2, <2>3
<1>10. ASSUME NEW family \in {"clocks", "chips", "sensors"},
              soc = Board0([FirstVar(family, hw, glass, FALSE) EXCEPT !.minerva = FALSE], FALSE)
       PROVE  Good(soc, todo)
  <2> DEFINE w == FirstVar(family, hw, glass, FALSE)
             v == [w EXCEPT !.minerva = FALSE]
  <2>1. Cold(w) /\ w.family = family BY <1>4, <1>7
  <2> HIDE DEF w
  <2>2. Cold(v) /\ v.family = family BY <2>1 DEF Cold
  <2>3. soc = Board0(v, FALSE) BY <1>10 DEF w
  <2> HIDE DEF v
  <2> QED BY <1>8, <2>2, <2>3
<1>11. ASSUME NEW ramoc, NEW module,
              soc = Board0([FirstVar("dram", hw, glass, FALSE) EXCEPT !.ramoc = ramoc, !.module = module], FALSE)
       PROVE  Good(soc, todo)
  <2> DEFINE w == FirstVar("dram", hw, glass, FALSE)
             v == [w EXCEPT !.ramoc = ramoc, !.module = module]
  <2>1. Cold(w) /\ w.family = "dram" BY <1>4, <1>7
  <2> HIDE DEF w
  <2>2. Cold(v) /\ v.family = "dram" BY <2>1 DEF Cold
  <2>3. soc = Board0(v, FALSE) BY <1>11 DEF w
  <2> HIDE DEF v
  <2> QED BY <1>8, <2>2, <2>3
<1>12. ASSUME NEW g \in Panels, soc = Board0(FirstVar("panel", hw, g, FALSE), FALSE) PROVE Good(soc, todo)
  <2> DEFINE v == FirstVar("panel", hw, g, FALSE)
  <2>0. "panel" \in Families BY <1>4
  <2>1. Cold(v) /\ v.family = "panel" BY ONLY <1>12, <2>0, FirstVars
  <2>2. soc = Board0(v, FALSE) BY <1>12
  <2> HIDE DEF v
  <2> QED BY <1>8, <2>1, <2>2
<1>13. ASSUME NEW r \in RailNames, soc = Board0([FirstVar("rails", hw, glass, FALSE) EXCEPT !.rail = r], FALSE)
       PROVE  Good(soc, todo)
  <2> DEFINE w == FirstVar("rails", hw, glass, FALSE)
             v == [w EXCEPT !.rail = r]
  <2>1. Cold(w) /\ w.family = "rails" BY <1>4, <1>7
  <2> HIDE DEF w
  <2>2. "rail" \in DOMAIN w BY <1>3, <2>1 DEF Cold
  <2>3. Cold(v) /\ v.rail = r BY <2>1, <2>2 DEF Cold
  <2>4. soc = Board0(v, FALSE) BY <1>13 DEF w
  <2>5. "rail" \in DOMAIN v BY <2>2
  <2> HIDE DEF v
  <2>6. Good(Board0(v, FALSE), <<>>) BY <2>3, <2>5, ColdIsGood
  <2> QED BY <1>1, <2>4, <2>6
<1>14. ASSUME NEW f \in {0, 2}, NEW b,
              b = Board0([FirstVar("users", hw, glass, FALSE) EXCEPT !.want = f, !.fid = f, !.pclk = IF f = 0 THEN 3 ELSE 4,
                                                                     !.divn = IF f = 0 THEN 0 ELSE Divn[f]], FALSE),
              soc = IF f = 0 THEN b ELSE [b EXCEPT !.sclk = "C", !.pll = {"P", "C"}]
       PROVE  Good(soc, todo)
  <2> DEFINE w == FirstVar("users", hw, glass, FALSE)
             v == [w EXCEPT !.want = f, !.fid = f, !.pclk = IF f = 0 THEN 3 ELSE 4, !.divn = IF f = 0 THEN 0 ELSE Divn[f]]
  <2>1. Cold(w) /\ w.family = "users" BY <1>4, <1>7
  <2> HIDE DEF w
  <2>2. b = Board0(v, FALSE) BY <1>14 DEF w
  <2>3. {"want", "fid", "pclk", "divn"} \subseteq DOMAIN w BY <2>1 DEF Cold, Vars
  <2>4. Divn[2] \in {85, 90, 92} /\ Divn[2] \in Int BY DivnTable
  <2>5. /\ DOMAIN v = DOMAIN w /\ v.family = "users" /\ v.fid = f /\ v.want = f /\ v.pclk = (IF f = 0 THEN 3 ELSE 4)
        /\ v.divn = (IF f = 0 THEN 0 ELSE Divn[f]) /\ v.rate = w.rate /\ v.panel = w.panel /\ v.glass = w.glass
    BY <2>1, <2>3
  <2> HIDE DEF v
  <2>6. CASE f = 0
    <3>1. Cold(v) BY <2>1, <2>5, <2>6 DEF Cold
    <3>2. soc = Board0(v, FALSE) BY <1>14, <2>2, <2>6
    <3> QED BY <1>8, <2>5, <3>1, <3>2
  <2>7. CASE f = 2
    <3>1. /\ Vars \subseteq DOMAIN v /\ v.family \in Families /\ v.fid = 2 /\ v.want = 2 /\ v.pclk = 4 /\ v.divn = Divn[2]
          /\ v.rate \in Rates /\ v.panel \in Panels /\ v.glass \in Panels /\ v.family = "users"
      <4>1. w.rate \in Rates BY <2>1 DEF Cold, Rates
      <4> QED BY <1>4, <2>1, <2>5, <2>7, <4>1 DEF Cold
    <3>2. VarOK(v) BY <2>4, <3>1 DEF VarOK
    <3>3. StateOK(b) /\ b.var = v /\ DOMAIN b = Fields BY <2>2, <3>2, FirstBoards
    <3>4. soc = [b EXCEPT !.sclk = "C", !.pll = {"P", "C"}] BY <1>14, <2>7
    <3>5. StateOK(soc) /\ soc.sclk = "C" /\ soc.pll = {"P", "C"} /\ soc.var = v BY <3>3, <3>4 DEF StateOK, Fields, Plls
    <3>6. ClockOK(soc) /\ Settled(soc) BY <2>4, <3>1, <3>5 DEF ClockOK, Settled
    <3>7. Ends(<<>>, soc.var.fid, soc.var.want) BY <3>1, <3>5, Empty DEF Ends
    <3> QED BY <1>1, <3>1, <3>5, <3>6, <3>7, Fresh
  <2> QED BY <1>14, <2>6, <2>7
<1>15. CASE \E warm \in BOOLEAN, n \in {0, 3}, module \in {b \in BOOLEAN : b => hw[1] = "t210"} :
               \E ends \in {<<FALSE, "none">>} \cup {<<TRUE, p>> : p \in Payloads} :
                 soc = Board0([FirstVar("boot", hw, glass, warm) EXCEPT !.tries = n, !.module = module,
                                                                       !.sdok = ends[1], !.payload = ends[2]], warm)
  <2>1. \E warm \in BOOLEAN : \E n, module, ends :
          soc = Board0([FirstVar("boot", hw, glass, warm) EXCEPT !.tries = n, !.module = module,
                                                                 !.sdok = ends[1], !.payload = ends[2]], warm)
    BY <1>15
  <2> QED BY <1>9, <2>1
<1>16. CASE \E family \in {"clocks", "chips", "sensors"} :
              soc = Board0([FirstVar(family, hw, glass, FALSE) EXCEPT !.minerva = FALSE], FALSE)
  BY <1>10, <1>16
<1>17. CASE \E ramoc, module \in BOOLEAN :
              soc = Board0([FirstVar("dram", hw, glass, FALSE) EXCEPT !.ramoc = ramoc, !.module = module], FALSE)
  BY <1>11, <1>17
<1>18. CASE \E g \in IF hw[2] = "aula" THEN {"sam"} ELSE Panels \ {"", "sam"} :
              soc = Board0(FirstVar("panel", hw, g, FALSE), FALSE)
  <2>1. "sam" \in Panels BY DEF Panels
  <2> QED BY <1>12, <1>18, <2>1
<1>19. CASE \E r \in DOMAIN Regulators : soc = Board0([FirstVar("rails", hw, glass, FALSE) EXCEPT !.rail = r], FALSE)
  BY <1>13, <1>19 DEF RailNames
<1>20. CASE \E f \in {0, 2} :
              soc = LET b == Board0([FirstVar("users", hw, glass, FALSE) EXCEPT !.want = f, !.fid = f,
                                     !.pclk = IF f = 0 THEN 3 ELSE 4, !.divn = IF f = 0 THEN 0 ELSE Divn[f]], FALSE)
                    IN IF f = 0 THEN b ELSE [b EXCEPT !.sclk = "C", !.pll = {"P", "C"}]
  BY <1>14, <1>20
<1> QED BY <1>5, <1>15, <1>16, <1>17, <1>18, <1>19, <1>20 DEF glass

(***************************************************************************)
(* What follows.                                                           *)
(***************************************************************************)
BoardInv == Good(soc, todo)
LEMMA InvBoardTypeOK == BoardInv => BoardTypeOK
<1> SUFFICES ASSUME BoardInv PROVE BoardTypeOK OBVIOUS
<1>1. StateOK(soc) BY DEF BoardInv, Good
<1>2. soc.var.fid \in 0 .. 3 /\ soc.var.panel \in Panels BY <1>1 DEF StateOK, VarOK
<1>3. \A r \in DOMAIN Regulators : soc.rail[r].code \in 0 .. Regulators[r].codes - 1
  BY <1>1 DEF StateOK, RailOK, RailNames
<1> QED BY <1>1, <1>2, <1>3 DEF BoardTypeOK, StateOK, Plls
LEMMA InvClocksAlive == BoardInv => ClocksAlive
<1> SUFFICES ASSUME BoardInv PROVE ClocksAlive OBVIOUS
<1>1. StateOK(soc) /\ ClockOK(soc) BY DEF BoardInv, Good
<1>2. soc.sclk \in {"P", "C"} /\ "P" \in soc.pll /\ soc.var.pclk \in {3, 4} /\ soc.var.rate \in Rates /\ soc.var.fid \in 0 .. 3
  BY <1>1 DEF StateOK, VarOK
<1>3. soc.sclk \in soc.pll BY <1>1, <1>2 DEF ClockOK
<1>4. BpmpMhz \div soc.var.pclk <= 147
  <2>1. CASE soc.sclk = "P"
    <3>1. BpmpMhz = 408 BY <2>1, SMT DEF BpmpMhz
    <3>2. 408 \div 3 = 136 /\ 408 \div 4 = 102 BY SMT
    <3> QED BY <1>2, <3>1, <3>2, SMT
  <2>2. CASE soc.sclk = "C"
    <3>1. soc.var.divn \in {85, 90, 92} /\ soc.var.pclk = 4 BY <1>1, <2>2 DEF ClockOK
    <3>2. BpmpMhz = (64 * soc.var.divn) \div 10 BY <2>2, SMT DEF BpmpMhz
    <3>3. (64 * 85) \div 10 = 544 /\ (64 * 90) \div 10 = 576 /\ (64 * 92) \div 10 = 588 BY SMT
    <3>4. 544 \div 4 = 136 /\ 576 \div 4 = 144 /\ 588 \div 4 = 147 BY SMT
    <3> QED BY <3>1, <3>2, <3>3, <3>4, SMT
  <2> QED BY <1>2, <2>1, <2>2
<1>5. ASSUME Idle, soc.var.family # "boot"
      PROVE  /\ soc.var.fid = soc.var.want
             /\ soc.sclk = IF soc.var.fid = 0 THEN "P" ELSE "C"
             /\ soc.var.fid # 0 => soc.var.divn = Divn[soc.var.fid]
  <2>1. Settled(soc) /\ soc.var.fid = soc.var.want BY <1>5, AtRest DEF BoardInv, Idle
  <2> QED BY <1>5, <2>1 DEF Settled
<1>6. \A t \in {soc.var.rate} : t \in {204, 800, 1600} BY <1>2 DEF Rates
<1> QED BY <1>3, <1>4, <1>5, <1>6 DEF ClocksAlive

\* ipl_main and every family of calls keep what the clock needs: a change that is
\* under way can be finished, and what comes after it sets the clock right again.
THEOREM BoardInductive == BoardSpec => []BoardInv
<1>1. BoardInit => BoardInv BY InitIsGood DEF BoardInv
<1>2. BoardInv /\ [BoardNext]_socVars => BoardInv'
  <2> SUFFICES ASSUME BoardInv, [BoardNext]_socVars PROVE BoardInv' OBVIOUS
  <2>1. CASE Step BY <2>1, StepKeepsGood DEF BoardInv
  <2>2. CASE Boot BY <2>2, BootKeepsGood DEF BoardInv
  <2>3. CASE CallOne BY <2>3, CallKeepsGood DEF BoardInv
  <2>4. CASE UNCHANGED socVars BY <2>4 DEF BoardInv, socVars
  <2> QED BY <2>1, <2>2, <2>3, <2>4 DEF BoardNext
<1> QED BY <1>1, <1>2, PTL DEF BoardSpec

\* The chip's state has its types whatever the families call and whatever of it
\* is lost on the buses (Body and Exec of every driver).
THEOREM BoardTypes == BoardSpec => []BoardTypeOK
BY BoardInductive, InvBoardTypeOK, PTL

\* bpmp_clk_rate_set, tsec_query and jc_init_hw: the processor runs on a PLL that
\* is on, its bus within its limit, and between calls at the clock last asked for.
THEOREM ClocksStayAlive == BoardSpec => []ClocksAlive
BY BoardInductive, InvClocksAlive, PTL
====
