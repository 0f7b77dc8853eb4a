------------------------------ MODULE MCStorage ------------------------------
(* A session with a card (SdSession), or commands on the controller
   (SdmmcCommand), one at a time.

   Cards for SdSession: UHS cards of different speed, one that cannot use them
   (one bit wide), one that draws too much at them, a high speed card, an old
   one, and an eMMC with and without HS400. *)
EXTENDS SdSessionInvariant, SdmmcCommand

VARIABLE part
storageVars == <<vars, commandVars, part>>

Card(uhs, wide, v10, hs, modes, hungry) ==
    [kind |-> "sd", v2 |-> ~v10, hc |-> ~v10, uhs |-> uhs, wide |-> wide, v10 |-> v10,
     hs |-> hs, modes |-> modes, hungry |-> hungry]
Emmc(modes) ==
    [kind |-> "emmc", v2 |-> TRUE, hc |-> TRUE, uhs |-> FALSE, wide |-> TRUE, v10 |-> FALSE,
     hs |-> TRUE, modes |-> modes, hungry |-> FALSE]

MCCards == { Card(TRUE, TRUE, FALSE, TRUE, {"SDR12", "SDR25", "SDR50", "SDR104"}, FALSE),
             Card(TRUE, TRUE, FALSE, TRUE, {"SDR12", "SDR25"}, FALSE),
             Card(TRUE, TRUE, FALSE, TRUE, {"SDR50", "SDR104"}, TRUE),
             Card(TRUE, FALSE, FALSE, TRUE, {"SDR12", "SDR50"}, FALSE),
             Card(FALSE, TRUE, FALSE, TRUE, {}, FALSE),
             Card(FALSE, FALSE, TRUE, FALSE, {}, FALSE),
             Emmc({"HS200"}), Emmc({"HS200", "HS400"}) }
MCB01s == BOOLEAN

NoSession == Init /\ cap = Emmc({"HS200"}) /\ ~b01 /\ h.pll = {}
NoCommand == CommandInit /\ reg.save
StorageInit ==
    \/ part = "session" /\ Init /\ NoCommand
    \/ part = "command" /\ NoSession /\ CommandInit

SessionStep == part = "session" /\ Program /\ UNCHANGED <<commandVars, part>>
CardStep == part = "session" /\ (Remove \/ Insert \/ Weaken) /\ UNCHANGED <<commandVars, part>>
DriverStep == part = "command" /\ Driver /\ UNCHANGED <<vars, part>>
HardwareStep == part = "command" /\ Hardware /\ UNCHANGED <<vars, part>>
StorageNext == SessionStep \/ CardStep \/ DriverStep \/ HardwareStep
StorageSpec ==
    /\ StorageInit /\ [][StorageNext]_storageVars
    /\ WF_storageVars(SessionStep) /\ WF_storageVars(DriverStep)

\* Every call of nx_sd.c and every command of sdmmc_driver.c returns, whatever the
\* card does.
Returns == CallReturns /\ CommandReturns
=============================================================================
