-------------------------------- MODULE Soc --------------------------------
(* The chip and the board as the drivers of bdk/ see them, and the scripts the
   drivers are made of.  A script is the sequence of what a function does to
   the hardware: clock gates and resets, PLLs, pins, rails, registers of a
   device (of which only the access counts), transfers on the I2C buses, and
   the variables that decide what it does next.  A call in a script is expanded
   when it is reached, so that it sees the state its caller left.

   soc.clk    devices whose clock is enabled     soc.rst  devices held in reset
   soc.set    devices configured since their last reset
   soc.pll    running PLLs                       soc.sclk what clocks the BPMP
   soc.pin    pins driven high                   soc.out  pins that are outputs
   soc.gpio   pins in GPIO mode
   soc.rail   the PMIC's regulators: voltage code and power bit
   soc.fresh  what was switched since the last delay
   soc.var    registers and variables the code reads back
   soc.lapse  accesses to a device without clock or in reset, and where       *)
EXTENDS Integers, Sequences, FiniteSets

CONSTANTS MaxFaults,   \* I2C transfers that are lost, in the groups of calls in
          Unreliable,
          Apart        \* regulators with the voltage and the power bits in two registers

VARIABLES soc, todo
socVars == <<soc, todo>>

(* Operations. *)
On(S) == <<"on", S>>
Off(S) == <<"off", S>>
Hold(S) == <<"hold", S>>
Free(S) == <<"free", S>>
Only(S) == <<"only", S>>
Configured(d) == <<"configured", d>>
Use(S, where) == <<"use", S, where>>
PllOn(p) == <<"pllon", p>>
PllOff(p) == <<"plloff", p>>
Sclk(src) == <<"sclk", src>>
Settle == <<"settle">>
Drive(S, high) == <<"drive", S, high>>
Output(S, on) == <<"output", S, on>>
Mode(S, gpio) == <<"mode", S, gpio>>
SetVar(name, v) == <<"var", name, v>>
SetAt(name, key, v) == <<"at", name, key, v>>
\* A register of bits, or a set.
Change(name, less, more) == <<"change", name, less, more>>
\* Waits for the end of a frame, for ever if there is none.
Vblank(where) == <<"vblank", where>>
\* A command to the panel.
Tell(where) == <<"tell", where>>
Call(f, arg) == <<"call", f, arg>>
\* I2C transfers: a write nobody checks; a read, its answer unchecked, and a
\* write; a read and a write that is retried; a write that is read back.
Send(bus, name, key, v) == <<"send", bus, name, key, v>>
Bits(bus, name, less, more) == <<"bits", bus, name, less, more>>
Rmw(r, field, v) == <<"rmw", r, field, v>>
Verify(bus, name, key, v, lock) == <<"verify", bus, name, key, v, lock>>

If(c, script) == IF c THEN script ELSE <<>>
With(f, v) == [soc EXCEPT ![f] = v]
Put(name, v) == [soc EXCEPT !.var[name] = v]
PutAt(name, key, v) == [soc EXCEPT !.var[name][key] = v]
\* What clocks a device beyond its gate: the PLL its source is set to.
Fed(d) == d \in DOMAIN soc.var.source => soc.var.source[d] \in soc.pll
Alive(d) == d \in soc.clk /\ d \notin soc.rst /\ Fed(d)
\* Devices that do nothing sensible before they are set up.
NeedsSetup == {"I2C1", "I2C2", "I2C3", "I2C5", "UARTB", "UARTC"}
Useful(d) == Alive(d) /\ (d \in NeedsSetup => d \in soc.set)
Lapses(S, where) == {<<d, where>> : d \in {d \in S : ~Useful(d)}}
\* The panel takes a command out of reset, powered, with both rails settled.
PanelUp ==
    /\ "V2" \in soc.pin /\ "V2" \in soc.out /\ "V2" \notin soc.fresh
    /\ soc.rail.ldo0.on
    /\ soc.var.hw # "aula" => {"I0", "I1"} \subseteq soc.pin \ soc.fresh
OnBus(bus, S) == {[s EXCEPT !.lapse = @ \cup Lapses({bus}, "transfer")] : s \in S}
\* One more transfer may be lost.
Unlucky(S) ==
    IF soc.var.family \in Unreliable /\ soc.var.faults < MaxFaults THEN {[s EXCEPT !.var.faults = @ + 1] : s \in S} ELSE {}

\* The states an operation can leave; a call is Begin's.
Exec(op) ==
    CASE op[1] = "on"     -> {With("clk", soc.clk \cup op[2])}
      [] op[1] = "off"    -> {With("clk", soc.clk \ op[2])}
      [] op[1] = "hold"   -> {[soc EXCEPT !.rst = @ \cup op[2], !.set = @ \ op[2]]}
      [] op[1] = "free"   -> {With("rst", soc.rst \ op[2])}
      [] op[1] = "only"   -> {With("clk", op[2])}
      [] op[1] = "configured" -> {[soc EXCEPT !.set = @ \cup {op[2]}, !.lapse = @ \cup {<<d, "setup">> : d \in {d \in {op[2]} : ~Alive(d)}}]}
      [] op[1] = "use"    -> {With("lapse", soc.lapse \cup Lapses(op[2], op[3]))}
      [] op[1] = "pllon"  -> {With("pll", soc.pll \cup {op[2]})}
      [] op[1] = "plloff" -> {With("pll", soc.pll \ {op[2]})}
      [] op[1] = "sclk"   -> {With("sclk", op[2])}
      [] op[1] = "settle" -> {With("fresh", {})}
      [] op[1] = "drive"  -> {[soc EXCEPT !.pin = IF op[3] THEN @ \cup op[2] ELSE @ \ op[2],
                                       !.fresh = @ \cup {p \in op[2] : (p \in soc.pin) # op[3]}]}
      [] op[1] = "output" -> {With("out", IF op[3] THEN soc.out \cup op[2] ELSE soc.out \ op[2])}
      [] op[1] = "mode"   -> {With("gpio", IF op[3] THEN soc.gpio \cup op[2] ELSE soc.gpio \ op[2])}
      [] op[1] = "var"    -> {Put(op[2], op[3])}
      [] op[1] = "at"     -> {PutAt(op[2], op[3], op[4])}
      [] op[1] = "change" -> {Put(op[2], (soc.var[op[2]] \ op[3]) \cup op[4])}
      [] op[1] = "vblank" -> {IF Useful("DISP1") /\ soc.var.video THEN soc
                              ELSE With("lapse", soc.lapse \cup {<<"vblank", op[2]>>})}
      [] op[1] = "tell"   -> {With("lapse", soc.lapse \cup Lapses({"DSI"}, op[2])
                                            \cup {<<"PANEL", op[2]>> : n \in {n \in {1} : ~PanelUp}})}
      [] op[1] = "send"   -> OnBus(op[2], {PutAt(op[3], op[4], op[5])} \cup Unlucky({soc}))
      [] op[1] = "bits"   ->
           LET Written(old) == Put(op[3], (old \ op[4]) \cup op[5])
           IN OnBus(op[2], {Written(soc.var[op[3]])} \cup Unlucky({soc, Written({})}))
      \* Eight attempts; a register that is locked never reads back what was written.
      [] op[1] = "verify" ->
           OnBus(op[2], {IF op[6] = "" \/ soc.var[op[3]][op[6]] = "open" THEN PutAt(op[3], op[4], op[5]) ELSE soc})
      [] op[1] = "rmw"    ->
           \* A read that fails gives 0: the other field of the same register goes with it.
           LET r == op[2]
               to(old) == [soc EXCEPT !.rail[r] = [old EXCEPT ![op[3]] = op[4]], !.fresh = @ \cup {r}]
           IN OnBus("I2C5", {to(soc.rail[r])}
                    \cup Unlucky({to(IF r \in Apart THEN soc.rail[r] ELSE [code |-> 0, on |-> FALSE])}))
=============================================================================
