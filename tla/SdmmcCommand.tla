---------------------------- MODULE SdmmcCommand ----------------------------
(***************************************************************************)
(* One command on the SDMMC controller: sdmmc_execute_cmd and, when a      *)
(* transfer fails, sdmmc_stop_transmission (_sdmmc_storage_readwrite_ex).  *)
(* The driver polls; the controller and the card go on between any two of  *)
(* its steps, and either may stay silent until the driver gives up.        *)
(* Addresses and lengths are in blocks; the DMA engine stops at every      *)
(* multiple of Window (512 KB).                                            *)
(***************************************************************************)
EXTENDS Naturals

CONSTANTS
    Window,      \* blocks between two stops of the DMA engine
    Starts512,   \* block addresses of buffers
    Lengths,     \* blocks asked for; 0 is refused
    MaxBlocks,   \* what the block counter can hold (0xFFFF)
    MaxCmds      \* commands one after another

ASSUME CommandAssumption ==
    /\ Window \in Nat \ {0} /\ MaxBlocks \in Nat \ {0} /\ MaxCmds \in Nat
    /\ Starts512 \subseteq Nat /\ Lengths \subseteq Nat

VARIABLES
    drv,     \* the driver: step, stop (the command is CMD12), had, result, blkcnt, out, seen, next
    req,     \* the request: data, write, busy, buf, num, aligned
    reg,     \* the controller: en, ck, save, ints, cmd, dat (inhibit), sts, cnt, adma
    bus,     \* the card: phase, low (DAT0 is held down), moved
    issued

commandVars == <<drv, req, reg, bus, issued>>

NoRequest == [data |-> FALSE, write |-> FALSE, busy |-> FALSE, buf |-> 0, num |-> 0, aligned |-> TRUE]
Requests ==
    [data : {TRUE}, write : BOOLEAN, busy : {FALSE}, buf : Starts512, num : Lengths, aligned : BOOLEAN]
    \cup {[NoRequest EXCEPT !.busy = b] : b \in BOOLEAN}

CommandInit ==
    /\ drv = [step |-> "idle", stop |-> FALSE, had |-> FALSE, result |-> TRUE, blkcnt |-> 0,
              out |-> 0, seen |-> 0, next |-> 0]
    /\ req = NoRequest
    /\ \E save \in BOOLEAN :
          reg = [en |-> TRUE, ck |-> ~save, save |-> save, ints |-> FALSE, cmd |-> FALSE,
                 dat |-> FALSE, sts |-> {}, cnt |-> 0, adma |-> 0]
    /\ bus = [phase |-> "none", low |-> FALSE, moved |-> {}]
    /\ issued = 0

At(step) == drv.step = step
To(step) == drv' = [drv EXCEPT !.step = step]
Reply(step, r) == drv' = [drv EXCEPT !.step = step, !.result = r]

\* _sdmmc_reset: both lines are given up, what was pending is forgotten.
ResetLines == /\ reg' = [reg EXCEPT !.cmd = FALSE, !.dat = FALSE, !.sts = {}]
              /\ bus' = [bus EXCEPT !.phase = "none"]

(***************************************************************************)
(* sdmmc_execute_cmd                                                       *)
(***************************************************************************)
\* The card's clock runs for the command, also when it is being saved.
ExecuteCmd ==
    /\ At("idle") /\ reg.en /\ issued < MaxCmds /\ issued' = issued + 1
    /\ req' \in Requests
    /\ drv' = [drv EXCEPT !.step = "inhibit", !.stop = FALSE, !.had = reg.ck, !.out = 0]
    /\ reg' = [reg EXCEPT !.ck = TRUE]
    /\ bus' = [bus EXCEPT !.moved = {}]

\* _sdmmc_wait_cmd_data_inhibit: CMD12 does not wait for the data lines.
Inhibited == reg.cmd \/ (reg.dat /\ ~drv.stop /\ (req.data \/ req.busy))
WaitInhibit ==
    /\ At("inhibit") /\ ~Inhibited
    /\ To(IF req.data /\ ~drv.stop THEN "dma" ELSE "send")
    /\ UNCHANGED <<req, reg, bus, issued>>
InhibitTimeout ==
    /\ At("inhibit") /\ Inhibited
    /\ ResetLines /\ Reply("end", FALSE)
    /\ UNCHANGED <<req, issued>>

ConfigDmaBack ==    \* mutant: the first stop is taken for the start of the window
    /\ At("dma")
    /\ IF req.num = 0 \/ ~req.aligned
         THEN Reply("end", FALSE) /\ UNCHANGED reg
         ELSE LET n == IF req.num >= MaxBlocks THEN MaxBlocks ELSE req.num
              IN /\ reg' = [reg EXCEPT !.adma = req.buf, !.cnt = n]
                 /\ drv' = [drv EXCEPT !.step = "send", !.blkcnt = n,
                                       !.next = (req.buf \div Window) * Window]
    /\ UNCHANGED <<req, bus, issued>>
\* _sdmmc_config_dma
ConfigDma ==
    /\ At("dma")
    /\ IF req.num = 0 \/ ~req.aligned
         THEN Reply("end", FALSE) /\ UNCHANGED reg
         ELSE LET n == IF req.num >= MaxBlocks THEN MaxBlocks ELSE req.num
              IN /\ reg' = [reg EXCEPT !.adma = req.buf, !.cnt = n]
                 /\ drv' = [drv EXCEPT !.step = "send", !.blkcnt = n,
                                       !.next = ((req.buf + Window) \div Window) * Window]
    /\ UNCHANGED <<req, bus, issued>>

\* _sdmmc_enable_interrupts acknowledges what is pending from before.
EnableInterruptsKeep ==    \* mutant: nothing is acknowledged
    reg' = [reg EXCEPT !.ints = TRUE, !.cmd = TRUE,
                                       !.dat = @ \/ (~drv.stop /\ (req.data \/ req.busy))]
EnableInterrupts == reg' = [reg EXCEPT !.ints = TRUE, !.sts = {}, !.cmd = TRUE,
                                       !.dat = @ \/ (~drv.stop /\ (req.data \/ req.busy))]
\* _sdmmc_send_cmd: CMD12 also ends a transfer that is still going on.
SendCmd ==
    /\ At("send") /\ EnableInterrupts
    /\ To("response")
    /\ bus' = [bus EXCEPT !.phase = "command"]
    /\ UNCHANGED <<req, issued>>

\* _sdmmc_wait_response
WaitResponse ==
    /\ At("response") /\ "error" \notin reg.sts /\ "response" \in reg.sts
    /\ reg' = [reg EXCEPT !.sts = @ \ {"response"}]
    /\ drv' = [drv EXCEPT !.step = IF req.data /\ ~drv.stop THEN "data" ELSE "mask",
                          !.result = TRUE, !.seen = reg.cnt]
    /\ UNCHANGED <<req, bus, issued>>
ResponseFails ==
    /\ At("response") /\ ("error" \in reg.sts \/ "response" \notin reg.sts)
    /\ ResetLines /\ Reply("mask", FALSE)
    /\ UNCHANGED <<req, issued>>

(***************************************************************************)
(* _sdmmc_update_dma                                                       *)
(***************************************************************************)
DmaPoll == At("data") /\ "error" \notin reg.sts
DataEnd ==
    /\ DmaPoll /\ "end" \in reg.sts
    /\ reg' = [reg EXCEPT !.sts = @ \ {"end", "dma"}]
    /\ To("mask")
    /\ UNCHANGED <<req, bus, issued>>
DmaEnd ==
    /\ DmaPoll /\ "dma" \in reg.sts /\ "end" \notin reg.sts
    /\ reg' = [reg EXCEPT !.sts = @ \ {"dma"}, !.adma = drv.next]
    /\ drv' = [drv EXCEPT !.next = @ + Window]
    /\ UNCHANGED <<req, bus, issued>>
DmaSlowForever ==    \* mutant: the block counter is not looked at
    /\ DmaPoll /\ reg.sts \cap {"end", "dma"} = {}
    /\ UNCHANGED commandVars
\* 1500 ms without the end: goes on as long as the block counter moves.
DmaSlow ==
    /\ DmaPoll /\ reg.sts \cap {"end", "dma"} = {} /\ reg.cnt # drv.seen
    /\ drv' = [drv EXCEPT !.seen = reg.cnt]
    /\ UNCHANGED <<req, reg, bus, issued>>
DmaFails ==
    /\ At("data")
    /\ "error" \in reg.sts \/ (reg.sts \cap {"end", "dma"} = {} /\ reg.cnt = drv.seen)
    /\ ResetLines /\ Reply("mask", FALSE)
    /\ UNCHANGED <<req, issued>>

\* _sdmmc_mask_interrupts, on every path that has enabled them.
MaskInterrupts ==
    /\ At("mask")
    /\ reg' = [reg EXCEPT !.ints = FALSE]
    /\ drv' = [drv EXCEPT !.step = IF ~drv.result THEN "end"
                                   ELSE IF drv.stop \/ req.busy \/ req.data THEN "busy" ELSE "end",
                          !.out = IF drv.result /\ req.data /\ ~drv.stop THEN drv.blkcnt ELSE @]
    /\ UNCHANGED <<req, bus, issued>>

\* _sdmmc_wait_card_busy
WaitCardBusy ==
    /\ At("busy") /\ ~bus.low
    /\ To("end")
    /\ UNCHANGED <<req, reg, bus, issued>>
BusyTimeout ==
    /\ At("busy") /\ bus.low
    /\ ResetLines /\ Reply("end", FALSE)
    /\ UNCHANGED <<req, issued>>

\* The callers that move sectors (sdmmc.c:217) and those of the vendor commands (:187,
\* :1469) stop a transfer that failed; those that read a block of the card's own do not.
Afterwards ==
    IF ~req.data \/ drv.result \/ drv.stop THEN {"idle"}
    ELSE {"stop"} \cup (IF req.write \/ req.num > 1 THEN {} ELSE {"idle"})
EndCmdClocked ==    \* mutant: the clock stays on after an error
    /\ At("end")
    /\ reg' = [reg EXCEPT !.ck = drv.had \/ ~drv.result]
    /\ \E next \in Afterwards : Reply(next, drv.result /\ ~drv.stop)
    /\ UNCHANGED <<req, bus, issued>>
\* The clock goes back to what it was.
EndCmd ==
    /\ At("end")
    /\ reg' = [reg EXCEPT !.ck = drv.had]
    /\ \E next \in Afterwards : Reply(next, drv.result /\ ~drv.stop)
    /\ UNCHANGED <<req, bus, issued>>
\* sdmmc_stop_transmission: the transfer has failed, whatever becomes of CMD12.
StopTransmission ==
    /\ At("stop")
    /\ drv' = [drv EXCEPT !.step = "inhibit", !.stop = TRUE]
    /\ reg' = [reg EXCEPT !.ck = TRUE]
    /\ UNCHANGED <<req, bus, issued>>

(***************************************************************************)
(* The controller and the card.                                            *)
(***************************************************************************)
Latch(s) == IF reg.ints THEN reg.sts \cup s ELSE reg.sts
Answers ==
    /\ bus.phase = "command" /\ reg.ck /\ (bus.low => drv.stop \/ ~(req.data \/ req.busy))
    /\ reg' = [reg EXCEPT !.cmd = FALSE, !.sts = Latch({"response"})]
    /\ bus' = [bus EXCEPT !.phase = IF req.data /\ ~drv.stop THEN "data" ELSE "none",
                          !.low = @ \/ req.busy \/ (drv.stop /\ req.write)]
    /\ UNCHANGED <<drv, req, issued>>
Errs ==
    /\ bus.phase \in {"command", "data"} /\ "error" \notin reg.sts
    /\ reg' = [reg EXCEPT !.sts = Latch({"error"})]
    /\ UNCHANGED <<drv, req, bus, issued>>
MovesBlock ==
    /\ bus.phase = "data" /\ reg.ck /\ reg.cnt > 0 /\ "dma" \notin reg.sts
    /\ LET last == reg.cnt = 1
           stop == (reg.adma + 1) % Window = 0 /\ ~last
       IN /\ reg' = [reg EXCEPT !.cnt = @ - 1, !.adma = @ + 1, !.dat = @ /\ ~last,
                                !.sts = Latch((IF last THEN {"end"} ELSE {})
                                              \cup (IF stop THEN {"dma"} ELSE {}))]
          /\ bus' = [bus EXCEPT !.moved = @ \cup {reg.adma},
                                !.phase = IF last THEN "none" ELSE @,
                                !.low = @ \/ (last /\ req.write)]
    /\ UNCHANGED <<drv, req, issued>>
\* The end of the busy signal is reported like the end of a transfer, unless a
\* reset has made the controller forget that it waits for it.
GetsReady ==
    /\ bus.low /\ bus' = [bus EXCEPT !.low = FALSE]
    /\ reg' = IF reg.dat /\ req.busy THEN [reg EXCEPT !.dat = FALSE, !.sts = Latch({"end"})] ELSE reg
    /\ UNCHANGED <<drv, req, issued>>

Driver ==
    \/ ExecuteCmd \/ WaitInhibit \/ InhibitTimeout \/ ConfigDma \/ SendCmd \/ WaitResponse
    \/ ResponseFails \/ DataEnd \/ DmaEnd \/ DmaSlow \/ DmaFails \/ MaskInterrupts
    \/ WaitCardBusy \/ BusyTimeout \/ EndCmd \/ StopTransmission
Hardware == Answers \/ Errs \/ MovesBlock \/ GetsReady
CommandNext == Driver \/ Hardware
CommandSpec == CommandInit /\ [][CommandNext]_commandVars /\ WF_commandVars(Driver)

(***************************************************************************)
(* Properties.                                                             *)
(***************************************************************************)
DriverSteps == {"idle", "inhibit", "dma", "send", "response", "data", "mask", "busy", "end", "stop"}
CommandTypeOK ==
    /\ drv \in [step : DriverSteps, stop : BOOLEAN, had : BOOLEAN, result : BOOLEAN, blkcnt : 0 .. MaxBlocks,
                 out : 0 .. MaxBlocks, seen : 0 .. MaxBlocks, next : Nat]
    /\ req \in Requests
    /\ reg \in [en : BOOLEAN, ck : BOOLEAN, save : BOOLEAN, ints : BOOLEAN, cmd : BOOLEAN, dat : BOOLEAN,
                 sts : SUBSET {"response", "error", "end", "dma"}, cnt : 0 .. MaxBlocks, adma : Nat]
    /\ bus \in [phase : {"none", "command", "data"}, low : BOOLEAN, moved : SUBSET Nat]
    /\ issued \in 0 .. MaxCmds

\* A transfer that is reported done has moved every block it says it has, from
\* or to consecutive addresses, across any number of DMA stops (957-1060); it
\* is not taken for done by an interrupt of the command before.
TransferWhole ==
    At("idle") /\ drv.result /\ req.data =>
        /\ drv.out = IF req.num > MaxBlocks THEN MaxBlocks ELSE req.num
        /\ bus.moved = req.buf .. req.buf + drv.out - 1

\* Nothing outside the buffer is ever touched.
StaysInBuffer == bus.moved \subseteq req.buf .. req.buf + req.num - 1

\* Outside of a command the interrupts are masked and the card's clock runs only
\* when it is not being saved, whatever path the command took.
QuietOutside == At("idle") => ~reg.ints /\ (reg.ck <=> ~reg.save)

\* A transfer the driver calls done moved every block, and the DMA, restarted at
\* each boundary (sdmmc_driver.c:981), never left the buffer it was given; between
\* commands no interrupt is enabled and a card that saves power has no clock.
CommandSound == TransferWhole /\ StaysInBuffer /\ QuietOutside

\* Every command returns, with a card and a controller that may never answer.
CommandReturns == At("inhibit") ~> At("idle")

(***************************************************************************)
(* Why: the inductive invariant.                                           *)
(***************************************************************************)
\* The driver and the bus are in step: the card is only busy with a command while the
\* driver waits for it, and the interrupts are enabled just as long.
InStep ==
    /\ bus.phase # "none" => drv.step \in {"response", "data"}
    /\ bus.phase = "data" => req.data /\ ~drv.stop
    /\ bus.phase = "command" => "response" \notin reg.sts /\ drv.step = "response"
    /\ drv.step \in {"dma", "data"} => req.data /\ ~drv.stop
    /\ reg.ints => drv.step \in {"response", "data", "mask"}
    /\ drv.step \in {"response", "data"} => reg.ints
    /\ IF drv.step = "idle" THEN reg.ck <=> ~reg.save ELSE drv.had <=> ~reg.save

\* While a transfer is set up and goes on, what has been moved is what the block counter
\* has counted, and the DMA engine stands before the boundary the driver expects, or at it.
Asked == IF req.num >= MaxBlocks THEN MaxBlocks ELSE req.num
InTransfer == req.data /\ ~drv.stop /\ drv.step \in {"send", "response", "data"}
Transferred ==
    InTransfer =>
        /\ req.num > 0 /\ drv.blkcnt = Asked
        /\ reg.adma >= req.buf /\ reg.adma + reg.cnt = req.buf + drv.blkcnt
        /\ bus.moved = req.buf .. reg.adma - 1
        /\ drv.next % Window = 0
        /\ drv.step = "send" \/ bus.phase # "none" => reg.cnt > 0
        /\ drv.step # "send" => /\ "end" \in reg.sts => reg.cnt = 0
                                /\ "dma" \in reg.sts => reg.adma = drv.next
        /\ (drv.step = "send" \/ "dma" \notin reg.sts) /\ reg.cnt > 0 =>
              reg.adma < drv.next /\ drv.next <= reg.adma + Window

\* From there on all of it has been moved, if the driver thinks so.
Over ==
    /\ req.data /\ ~drv.stop /\ drv.step \in {"inhibit", "dma"} => bus.moved = {}
    /\ ~req.data => bus.moved = {}
    /\ req.data /\ drv.result /\ ~drv.stop /\ drv.step \in {"mask", "busy", "end", "idle"} =>
          /\ drv.blkcnt = Asked /\ bus.moved = req.buf .. req.buf + Asked - 1
          /\ drv.step # "mask" => drv.out = Asked
    /\ drv.step = "idle" /\ drv.result => ~drv.stop
CommandInv == CommandTypeOK /\ InStep /\ Transferred /\ Over /\ StaysInBuffer
=============================================================================
