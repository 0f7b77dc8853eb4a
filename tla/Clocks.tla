------------------------------- MODULE Clocks -------------------------------
(* clock.c, bpmp.c, mc.c, minerva.c, smmu.c, tsec.c, kfuse.c and uart.c: the
   clock gates and PLLs, the BPMP's own clock and cache, the DRAM clock, and the
   TSEC query that goes through all of them.

   soc.var.fid is bpmp_fid_current, pclk the divider of the APB clock, divn the
   multiplier of PLLC, rate what minerva remembers the DRAM to run at. *)
EXTENDS Soc

(* clock.c *)
clock_enable(d) == <<Hold({d}), Off({d}), On({d}), Free({d})>>
clock_disable(d) == <<Hold({d}), Off({d})>>
\* The fuse registers are visible; not a clock of their own.
clock_enable_fuse(on) == <<IF on THEN On({"FUSEVIS"}) ELSE Off({"FUSEVIS"})>>
clock_uart_use_src_div(u, baud) == <<SetVar("uartdiv", IF baud = 1000000 THEN 49 ELSE 2)>>

\* A PLL that runs is left alone, PLLC if it runs with these dividers.
clock_enable_pllx == If("X" \notin soc.pll, <<PllOn("X")>>)
clock_enable_pllc(divn) ==
    If("C" \notin soc.pll \/ soc.var.divn # divn,
       <<PllOff("C"), SetVar("divn", divn), PllOn("C"), Settle>>)
clock_disable_pllc == <<PllOff("C"), Settle>>
clock_enable_pllu == <<PllOn("U"), Settle>>
clock_disable_pllu == <<PllOff("U")>>
clock_enable_utmipll == <<PllOn("UTMIP")>>

(* bpmp.c *)
\* pll_divn, from BPMP_CLK_HIGH_BOOST on.
Divn == <<85, 90, 92>>
\* MHz of the PLL's BPMP clock: 408 on PLLP.
Mhz == [f \in 0 .. 3 |-> <<408, 544, 576, 589>>[f + 1]]
bpmp_clk_rate_get ==
    LET known == {f \in DOMAIN Divn : Divn[f] = soc.var.divn}
    IN <<SetVar("fid", IF soc.sclk = "P" THEN 0 ELSE IF known = {} THEN 1 ELSE CHOOSE f \in known : TRUE)>>
bpmp_clk_rate_set_unparked(arg) ==    \* mutant: PLLC is reprogrammed under the running BPMP
    LET f == IF arg > 3 THEN 3 ELSE arg
    IN IF soc.var.fid = f THEN <<>>
       ELSE IF f # 0
         THEN clock_enable_pllc(Divn[f]) \o <<SetVar("pclk", 4), Sclk("C"), SetVar("fid", f)>>
         ELSE <<Sclk("P"), Settle, SetVar("pclk", 3)>> \o clock_disable_pllc \o <<SetVar("fid", f)>>
\* The BPMP stands on PLLP while PLLC changes.
bpmp_clk_rate_set(arg) ==
    LET f == IF arg > 3 THEN 3 ELSE arg
        prev == soc.var.fid
    IN IF prev = f THEN <<>>
       ELSE IF f # 0
         THEN If(prev # 0, <<Sclk("P"), Settle>>) \o clock_enable_pllc(Divn[f])
              \o <<SetVar("pclk", 4), Sclk("C"), SetVar("fid", f)>>
         ELSE <<Sclk("P"), Settle, SetVar("pclk", 3)>> \o clock_disable_pllc \o <<SetVar("fid", f)>>

\* The cache is invalid before it is on and clean before it is off.
bpmp_mmu_enable == If(~soc.var.cache, <<SetVar("dirty", FALSE), SetVar("cache", TRUE)>>)
bpmp_mmu_disable == If(soc.var.cache, <<SetVar("dirty", FALSE), SetVar("cache", FALSE)>>)

(* mc.c *)
mc_enable_ahb_redirect == <<SetVar("ahb", TRUE)>>
mc_disable_ahb_redirect == <<SetVar("ahb", FALSE)>>
mc_enable == <<On({"EMC", "MEM", "EMC_DLL"}), Free({"EMC", "MEM"})>> \o mc_disable_ahb_redirect

(* minerva.c: the module that trains the DRAM is loaded from the card and is
   not part of the source; it sets the rate and remembers it in rate_from. *)
minerva_run(rate) == <<SetVar("rate", rate)>>
\* T210 only; the module is absent or too old, or it fills the table.
minerva_init ==
    If(soc.var.chip = "t210" /\ soc.var.module,
       <<SetVar("minerva", TRUE)>> \o minerva_run(204) \o minerva_run(800) \o minerva_run(1600)
       \o minerva_run(800) \o minerva_run(1600))
\* Switching to the frequency that is already set would hang.
minerva_change_freq(rate) == If(soc.var.minerva /\ soc.var.rate # rate, minerva_run(rate))
minerva_prep_boot_freq ==
    If(soc.var.minerva /\ soc.var.ramoc, <<Call("minerva_change_freq", 204), Call("minerva_change_freq", 800)>>)
minerva_periodic_training == If(soc.var.minerva /\ soc.var.rate = 1600, minerva_run(1600))

\* pmc.c: toggles a power partition if it is not as asked.
pmc_enable_partition(part, on) == <<IF on THEN On({part}) ELSE Off({part})>>

(* smmu.c *)
smmu_enable == If(~soc.var.smmu, <<Call("ccplex_boot_cpu0", 0), SetVar("smmu", TRUE), Settle>>)
smmu_init_for_tsec == <<SetVar("tsecasid", TRUE)>>
smmu_deinit_for_tsec == <<SetVar("tsecasid", FALSE)>>

(* kfuse.c *)
clock_enable_kfuse == <<Hold({"KFUSE"}), Off({"KFUSE"}), On({"KFUSE"}), Free({"KFUSE"})>>
kfuse_wait_ready(where) == <<Use({"KFUSE"}, where)>>
kfuse_read == clock_enable_kfuse \o kfuse_wait_ready("kfuse_read") \o clock_disable("KFUSE")

(* tsec.c.  What can fail: the Falcon's being idle, its DMA, its answer (the
   keys an emulated one shows).  What its firmware does is not modelled. *)
TsecFails == {"none", "idle", "dma", "answer"}
tsec_out_new_only(type, prev) ==    \* mutant: the clock of the BPMP is restored for new firmware only
    clock_disable("KFUSE") \o clock_disable("SOR1") \o clock_disable("SOR0") \o clock_disable("SOR_SAFE")
    \o clock_disable("TSEC") \o <<Call("bpmp_mmu_enable", 0)>>
    \o If(type = "new", <<Call("bpmp_clk_rate_set", prev)>> \o mc_disable_ahb_redirect)
tsec_out(type, prev) ==
    clock_disable("KFUSE") \o clock_disable("SOR1") \o clock_disable("SOR0") \o clock_disable("SOR_SAFE")
    \o clock_disable("TSEC") \o <<Call("bpmp_mmu_enable", 0), Call("bpmp_clk_rate_set", prev)>>
    \o If(type = "new", mc_disable_ahb_redirect)
tsec_query(type, fails) ==
    <<Call("bpmp_mmu_disable", 0), Call("bpmp_clk_rate_set", 0)>>
    \o clock_enable("HOST1X") \o clock_enable("TSEC") \o clock_enable("SOR_SAFE") \o clock_enable("SOR0")
    \o clock_enable("SOR1") \o clock_enable_kfuse \o kfuse_wait_ready("tsec_query")
    \o If(type = "new", pmc_enable_partition("CE0", FALSE) \o pmc_enable_partition("CE1", FALSE)
                        \o pmc_enable_partition("CE2", FALSE) \o pmc_enable_partition("CE3", FALSE)
                        \o mc_enable_ahb_redirect)
    \o <<Use({"TSEC"}, "tsec_query")>>
    \o If(fails \notin {"idle", "dma"},
          If(type = "emu", smmu_init_for_tsec \o <<Call("smmu_enable", 0)>>)
          \o <<Use({"HOST1X", "TSEC"}, "tsec_query")>>
          \o If(type = "emu", smmu_deinit_for_tsec)
          \o If(type # "emu" /\ fails = "none", <<Use({"HOST1X", "SOR1"}, "tsec_query")>>))
    \o tsec_out(type, soc.var.fid)

(* uart.c: the port is set up once its clock runs. *)
uart_init(u, baud) ==
    <<Configured(u)>> \o clock_uart_use_src_div(u, baud)
=============================================================================
