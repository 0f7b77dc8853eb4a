---------------------------- MODULE DeviceProofs ----------------------------
(***************************************************************************)
(* The blocks of the chip the drivers program.  CommandInv is inductive    *)
(* for a command of the SDMMC host, for every buffer, length and boundary  *)
(* of its DMA engine; IrqInv for the interrupt table; BusInv for the       *)
(* transfers of I2C and the receiver of the UART.  CommandSound,           *)
(* HandlersWhole, SourcesOwned, TransferTrue and ReceivesWhatCame follow   *)
(* from them.                                                              *)
(***************************************************************************)
EXTENDS SdmmcCommand, Irq, Buses, FiniteSetTheorems, TLAPS

(***************************************************************************)
(* A command of the SDMMC host.                                            *)
(***************************************************************************)
Phases == {"none", "command", "data"}
Bits == {"response", "error", "end", "dma"}
DriverShape ==
    [step : DriverSteps, stop : BOOLEAN, had : BOOLEAN, result : BOOLEAN, blkcnt : 0 .. MaxBlocks,
     out : 0 .. MaxBlocks, seen : 0 .. MaxBlocks, next : Nat]
RegShape ==
    [en : BOOLEAN, ck : BOOLEAN, save : BOOLEAN, ints : BOOLEAN, cmd : BOOLEAN, dat : BOOLEAN,
     sts : SUBSET Bits, cnt : 0 .. MaxBlocks, adma : Nat]
BusShape == [phase : Phases, low : BOOLEAN, moved : SUBSET Nat]

\* The shape, by parts.
LEMMA Shapes == CommandTypeOK <=> /\ drv \in DriverShape /\ req \in Requests /\ reg \in RegShape
                                 /\ bus \in BusShape /\ issued \in 0 .. MaxCmds
  BY DEF CommandTypeOK, DriverShape, RegShape, BusShape, Phases, Bits

\* What a request is.
LEMMA RequestFields ==
  ASSUME NEW r \in Requests
  PROVE  /\ r.data \in BOOLEAN /\ r.busy \in BOOLEAN /\ r.write \in BOOLEAN /\ r.buf \in Nat /\ r.num \in Nat
         /\ r.busy => ~r.data
         /\ ~r.data => r.buf = 0 /\ r.num = 0
<1>1. CASE r \in [data : {TRUE}, write : BOOLEAN, busy : {FALSE}, buf : Starts512, num : Lengths, aligned : BOOLEAN]
  BY <1>1, CommandAssumption
<1>2. CASE r \in {[NoRequest EXCEPT !.busy = b] : b \in BOOLEAN}
  <2>1. PICK b \in BOOLEAN : r = [NoRequest EXCEPT !.busy = b]
    BY <1>2
  <2>2. /\ ~r.data /\ r.data \in BOOLEAN /\ r.write \in BOOLEAN /\ r.busy \in BOOLEAN
        /\ r.buf = 0 /\ r.num = 0
    BY <2>1 DEF NoRequest
  <2>. QED
    BY <2>2
<1>. QED
  BY <1>1, <1>2 DEF Requests

\* Two multiples of the window that are less than a window apart are the same.
LEMMA Boundaries ==
  ASSUME NEW m \in Nat, NEW n \in Nat, m % Window = 0, n % Window = 0, m <= n, n < m + Window
  PROVE  m = n
<1>. DEFINE q == m \div Window
            r == n \div Window
<1>w. Window \in Nat \ {0}
  BY CommandAssumption
<1>m. q \in Int /\ m = Window * q
  BY <1>w
<1>n. r \in Int /\ n = Window * r
  BY <1>w
<1>1. q \in Int /\ r \in Int /\ m = Window * q /\ n = Window * r /\ Window \in Nat /\ Window > 0
  BY <1>w, <1>m, <1>n
<1>. HIDE DEF q, r
<1>2. r - q < 1
  BY <1>1
<1>3. r - q >= 0
  BY <1>1
<1>. QED
  BY <1>1, <1>2, <1>3

\* The first boundary after an address (sdmmc_driver.c:928).
LEMMA FirstBoundary ==
  ASSUME NEW a \in Nat
  PROVE  LET n == ((a + Window) \div Window) * Window
         IN n \in Nat /\ n % Window = 0 /\ a < n /\ n <= a + Window
<1>. DEFINE q == (a + Window) \div Window
            n == q * Window
<1>1. Window \in Nat \ {0}
  BY CommandAssumption
<1>2. q \in Nat /\ a + Window = Window * q + ((a + Window) % Window) /\ (a + Window) % Window \in 0 .. Window - 1
  <2>. DEFINE b == a + Window
  <2>1. b \in Nat
    BY <1>1
  <2>. HIDE DEF b
  <2>2. b % Window \in 0 .. Window - 1
    BY <1>1, <2>1
  <2>3. b \div Window \in Nat
    BY <1>1, <2>1
  <2>4. b = Window * (b \div Window) + (b % Window)
    BY <1>1, <2>1
  <2>. QED
    BY <2>2, <2>3, <2>4 DEF b
<1>. HIDE DEF q
<1>3. n \in Nat /\ n = Window * q
  BY <1>1, <1>2
<1>4. n % Window = 0
  <2>. DEFINE d == n \div Window
              r == n % Window
  <2>1. /\ d \in Nat /\ r \in 0 .. Window - 1
        /\ n = Window * d + r
    <3>. HIDE DEF n
    <3>1. n % Window \in 0 .. Window - 1
      BY <1>1, <1>3
    <3>2. n \div Window \in Nat
      BY <1>1, <1>3
    <3>3. n = Window * (n \div Window) + (n % Window)
      BY <1>1, <1>3
    <3>. QED
      BY <3>1, <3>2, <3>3
  <2>2. n = Window * d + r
    BY <2>1
  <2>. HIDE DEF d
  <2>3. r \in Nat /\ r < Window /\ Window * (q - d) = r /\ n = Window * q
    BY <1>1, <1>2, <1>3, <2>1, <2>2
  <2>. HIDE DEF r
  <2>4. q - d < 1 /\ q - d >= 0
    BY <1>1, <1>2, <2>1, <2>3
  <2>5. q - d = 0
    BY <1>2, <2>1, <2>4
  <2>6. r = 0
    BY <1>1, <2>3, <2>5
  <2>. QED
    BY <2>6 DEF r
<1>5. a < n /\ n <= a + Window
  BY <1>1, <1>2, <1>3
<1>. QED
  BY <1>3, <1>4, <1>5 DEF q

\* The next boundary.
LEMMA NextBoundary ==
  ASSUME NEW n \in Nat, n % Window = 0
  PROVE  (n + Window) % Window = 0
<1>. DEFINE q == n \div Window
<1>1. Window \in Nat \ {0} /\ q \in Nat /\ n = Window * q
  BY CommandAssumption
<1>. HIDE DEF q
<1>2. n + Window = Window * (q + 1)
  BY <1>1
<1>. QED
  BY <1>1, <1>2

\* The driver's and the controller's registers keep their shape.
LEMMA ShapeKeeps ==
  ASSUME CommandTypeOK, [CommandNext]_commandVars
  PROVE  CommandTypeOK'
<1>0. /\ drv \in DriverShape /\ req \in Requests /\ reg \in RegShape
      /\ bus \in BusShape /\ issued \in 0 .. MaxCmds
      /\ Window \in Nat \ {0} /\ MaxBlocks \in Nat \ {0} /\ MaxCmds \in Nat
      /\ req.data \in BOOLEAN /\ req.busy \in BOOLEAN /\ req.write \in BOOLEAN /\ req.buf \in Nat /\ req.num \in Nat
  BY Shapes, RequestFields, CommandAssumption
<1>s. drv' \in DriverShape /\ req' \in Requests /\ reg' \in RegShape /\ bus' \in BusShape
      /\ issued' \in 0 .. MaxCmds => CommandTypeOK'
  BY DEF CommandTypeOK, DriverShape, RegShape, BusShape, Phases, Bits
<1>d. drv \in DriverShape
  BY <1>0
<1>r. reg \in RegShape
  BY <1>0
<1>b. bus \in BusShape
  BY <1>0
<1>f. /\ drv.stop \in BOOLEAN /\ drv.had \in BOOLEAN /\ drv.result \in BOOLEAN
      /\ drv.blkcnt \in 0 .. MaxBlocks /\ drv.next \in Nat
      /\ reg.ck \in BOOLEAN /\ reg.cmd \in BOOLEAN /\ reg.dat \in BOOLEAN /\ reg.save \in BOOLEAN
      /\ reg.ints \in BOOLEAN /\ reg.sts \in SUBSET Bits
      /\ reg.cnt \in 0 .. MaxBlocks /\ reg.adma \in Nat
      /\ bus.low \in BOOLEAN /\ bus.moved \in SUBSET Nat
  BY <1>0 DEF DriverShape, RegShape, BusShape
<1>m. 0 \in 0 .. MaxBlocks /\ {} \in SUBSET Nat /\ {} \in SUBSET Bits /\ MaxBlocks \in 0 .. MaxBlocks
  BY <1>0
<1>. USE DEF DriverSteps, Phases
<1>1. ResetLines => reg' \in RegShape /\ bus' \in BusShape
  BY <1>0, <1>m DEF ResetLines, RegShape, BusShape
<1>2. \A s \in DriverSteps : To(s) => drv' \in DriverShape
  BY <1>d DEF To, DriverShape
<1>3. \A s \in DriverSteps, x \in BOOLEAN : Reply(s, x) => drv' \in DriverShape
  BY <1>d DEF Reply, DriverShape
<1>4. CASE ExecuteCmd
  <2>1. drv' \in DriverShape
    BY <1>d, <1>f, <1>m, <1>4 DEF ExecuteCmd, DriverShape
  <2>2. reg' \in RegShape /\ bus' \in BusShape
    BY <1>r, <1>b, <1>m, <1>4 DEF ExecuteCmd, RegShape, BusShape
  <2>3. req' \in Requests /\ issued' \in 0 .. MaxCmds
    BY <1>0, <1>4 DEF ExecuteCmd
  <2>. QED
    BY <2>1, <2>2, <2>3, <1>s
<1>5. CASE WaitInhibit \/ InhibitTimeout
  BY <1>0, <1>1, <1>2, <1>3, <1>5, <1>s DEF WaitInhibit, InhibitTimeout
<1>6. CASE ConfigDma
  <2>1. CASE req.num = 0 \/ ~req.aligned
    BY <1>0, <1>3, <1>6, <2>1, <1>s DEF ConfigDma
  <2>2. CASE ~(req.num = 0 \/ ~req.aligned)
    <3>. DEFINE n == IF req.num >= MaxBlocks THEN MaxBlocks ELSE req.num
                x == ((req.buf + Window) \div Window) * Window
    <3>1. n \in 0 .. MaxBlocks
      BY <1>0
    <3>2. x \in Nat
      BY <1>0, FirstBoundary
    <3>3. /\ reg' = [reg EXCEPT !.adma = req.buf, !.cnt = n]
          /\ drv' = [drv EXCEPT !.step = "send", !.blkcnt = n, !.next = x]
          /\ UNCHANGED <<req, bus, issued>>
      BY <1>6, <2>2 DEF ConfigDma
    <3>. HIDE DEF n, x
    <3>4. drv' \in DriverShape
      BY <1>d, <3>1, <3>2, <3>3 DEF DriverShape
    <3>5. reg' \in RegShape
      BY <1>r, <1>0, <3>1, <3>3 DEF RegShape
    <3>. QED
      BY <1>0, <3>3, <3>4, <3>5, <1>s
  <2>. QED
    BY <2>1, <2>2
<1>7. CASE SendCmd
  <2>1. PICK x \in BOOLEAN : reg' = [reg EXCEPT !.ints = TRUE, !.sts = {}, !.cmd = TRUE, !.dat = x]
    BY <1>0, <1>f, <1>7 DEF SendCmd, EnableInterrupts
  <2>2. reg' \in RegShape
    BY <1>r, <1>m, <2>1 DEF RegShape
  <2>3. drv' \in DriverShape /\ bus' \in BusShape
    BY <1>b, <1>2, <1>7 DEF SendCmd, BusShape
  <2>. QED
    BY <1>0, <1>7, <2>2, <2>3, <1>s DEF SendCmd
<1>8. CASE WaitResponse
  <2>1. PICK s \in DriverSteps : drv' = [drv EXCEPT !.step = s, !.result = TRUE, !.seen = reg.cnt]
    BY <1>8 DEF WaitResponse
  <2>2. drv' \in DriverShape
    BY <1>d, <1>f, <2>1 DEF DriverShape
  <2>3. reg' \in RegShape
    BY <1>r, <1>f, <1>8 DEF WaitResponse, RegShape
  <2>. QED
    BY <1>0, <1>8, <2>2, <2>3, <1>s DEF WaitResponse
<1>9. CASE ResponseFails \/ DmaFails \/ BusyTimeout
  BY <1>0, <1>1, <1>3, <1>9, <1>s DEF ResponseFails, DmaFails, BusyTimeout
<1>10. CASE DataEnd \/ WaitCardBusy
  <2>1. drv' \in DriverShape
    BY <1>2, <1>10 DEF DataEnd, WaitCardBusy
  <2>2. reg' \in RegShape
    BY <1>r, <1>f, <1>10 DEF DataEnd, WaitCardBusy, RegShape
  <2>. QED
    BY <1>0, <1>10, <2>1, <2>2, <1>s DEF DataEnd, WaitCardBusy
<1>11. CASE DmaEnd \/ DmaSlow
  <2>1. drv' \in DriverShape
    <3>1. drv.next + Window \in Nat
      BY <1>0, <1>f
    <3>. QED
      BY <1>d, <1>f, <1>11, <3>1 DEF DmaEnd, DmaSlow, DriverShape
  <2>2. reg' \in RegShape
    BY <1>r, <1>f, <1>11 DEF DmaEnd, DmaSlow, RegShape
  <2>. QED
    BY <1>0, <1>11, <2>1, <2>2, <1>s DEF DmaEnd, DmaSlow
<1>12. CASE MaskInterrupts
  <2>1. PICK s \in DriverSteps, o \in 0 .. MaxBlocks : drv' = [drv EXCEPT !.step = s, !.out = o]
    <3>1. drv.out \in 0 .. MaxBlocks
      BY <1>d DEF DriverShape
    <3>. QED
      BY <1>f, <1>12, <3>1 DEF MaskInterrupts
  <2>2. drv' \in DriverShape
    BY <1>d, <2>1 DEF DriverShape
  <2>3. reg' \in RegShape
    BY <1>r, <1>12 DEF MaskInterrupts, RegShape
  <2>. QED
    BY <1>0, <1>12, <2>2, <2>3, <1>s DEF MaskInterrupts
<1>13. CASE EndCmd \/ StopTransmission
  <2>1. drv' \in DriverShape
    <3>1. CASE EndCmd
      BY <1>f, <1>3, <3>1 DEF EndCmd, Afterwards
    <3>2. CASE StopTransmission
      BY <1>d, <3>2 DEF StopTransmission, DriverShape
    <3>. QED
      BY <1>13, <3>1, <3>2
  <2>2. reg' \in RegShape
    BY <1>r, <1>f, <1>13 DEF EndCmd, StopTransmission, RegShape
  <2>. QED
    BY <1>0, <1>13, <2>1, <2>2, <1>s DEF EndCmd, StopTransmission
<1>l. \A s \in SUBSET Bits : Latch(s) \in SUBSET Bits
  BY <1>f DEF Latch
<1>14. CASE Answers
  <2>1. PICK s \in SUBSET Bits : reg' = [reg EXCEPT !.cmd = FALSE, !.sts = s]
    <3>1. {"response"} \in SUBSET Bits
      BY DEF Bits
    <3>. QED
      BY <1>l, <1>14, <3>1 DEF Answers
  <2>2. PICK p \in Phases, l \in BOOLEAN : bus' = [bus EXCEPT !.phase = p, !.low = l]
    BY <1>0, <1>f, <1>14 DEF Answers
  <2>3. reg' \in RegShape /\ bus' \in BusShape
    BY <1>r, <1>b, <2>1, <2>2 DEF RegShape, BusShape
  <2>. QED
    BY <1>0, <1>14, <2>3, <1>s DEF Answers
<1>15. CASE Errs
  <2>1. PICK s \in SUBSET Bits : reg' = [reg EXCEPT !.sts = s]
    <3>1. {"error"} \in SUBSET Bits
      BY DEF Bits
    <3>. QED
      BY <1>l, <1>15, <3>1 DEF Errs
  <2>2. reg' \in RegShape
    BY <1>r, <2>1 DEF RegShape
  <2>. QED
    BY <1>0, <1>15, <2>2, <1>s DEF Errs
<1>16. CASE MovesBlock
  <2>. DEFINE last == reg.cnt = 1
  <2>1. PICK s \in SUBSET Bits, x \in BOOLEAN :
           reg' = [reg EXCEPT !.cnt = reg.cnt - 1, !.adma = reg.adma + 1, !.dat = x, !.sts = s]
    <3>. DEFINE t == (IF last THEN {"end"} ELSE {}) \cup
                     (IF (reg.adma + 1) % Window = 0 /\ ~last THEN {"dma"} ELSE {})
    <3>1. t \in SUBSET Bits
      BY DEF Bits
    <3>2. reg' = [reg EXCEPT !.cnt = reg.cnt - 1, !.adma = reg.adma + 1, !.dat = reg.dat /\ ~last, !.sts = Latch(t)]
      BY <1>16 DEF MovesBlock
    <3>3. (reg.dat /\ ~last) \in BOOLEAN
      BY <1>f
    <3>. QED
      BY <1>l, <3>1, <3>2, <3>3
  <2>2. reg.cnt - 1 \in 0 .. MaxBlocks /\ reg.adma + 1 \in Nat
    BY <1>f, <1>m, <1>0, <1>16 DEF MovesBlock
  <2>3. reg' \in RegShape
    <3>. DEFINE c == reg.cnt - 1
                a == reg.adma + 1
    <3>1. c \in 0 .. MaxBlocks /\ a \in Nat
      BY <2>2
    <3>2. reg' = [reg EXCEPT !.cnt = c, !.adma = a, !.dat = x, !.sts = s]
      BY <2>1
    <3>. HIDE DEF c, a
    <3>. QED
      BY <1>r, <3>1, <3>2 DEF RegShape
  <2>4. PICK p \in Phases, l \in BOOLEAN, m \in SUBSET Nat : bus' = [bus EXCEPT !.moved = m, !.phase = p, !.low = l]
    <3>1. bus.moved \cup {reg.adma} \in SUBSET Nat /\ bus.phase \in Phases
      BY <1>f, <1>b DEF BusShape
    <3>. QED
      BY <1>0, <1>f, <1>16, <3>1 DEF MovesBlock
  <2>5. bus' \in BusShape
    BY <1>b, <2>4 DEF BusShape
  <2>. QED
    BY <1>0, <1>16, <2>3, <2>5, <1>s DEF MovesBlock
<1>17. CASE GetsReady
  <2>1. bus' \in BusShape
    BY <1>b, <1>17 DEF GetsReady, BusShape
  <2>2. reg' \in RegShape
    <3>1. {"end"} \in SUBSET Bits
      BY DEF Bits
    <3>2. Latch({"end"}) \in SUBSET Bits
      BY <1>l, <3>1
    <3>. QED
      BY <1>r, <1>17, <3>2 DEF GetsReady, RegShape
  <2>. QED
    BY <1>0, <1>17, <2>1, <2>2, <1>s DEF GetsReady
<1>18. CASE UNCHANGED commandVars
  BY <1>0, <1>18, <1>s DEF commandVars
<1>. QED
  BY <1>4, <1>5, <1>6, <1>7, <1>8, <1>9, <1>10, <1>11, <1>12, <1>13, <1>14, <1>15, <1>16, <1>17, <1>18
     DEF CommandNext, Driver, Hardware

\* Every step of the driver and of the controller keeps the invariant.
LEMMA CommandKeeps ==
  ASSUME CommandInv, [CommandNext]_commandVars
  PROVE  CommandInv'
<1>. USE DEF CommandInv
<1>s. CommandTypeOK'
  BY ShapeKeeps
<1>0. /\ Window \in Nat \ {0} /\ MaxBlocks \in Nat \ {0}
      /\ req.data \in BOOLEAN /\ req.busy \in BOOLEAN /\ req.buf \in Nat /\ req.num \in Nat
      /\ (req.busy => ~req.data) /\ (~req.data => req.buf = 0 /\ req.num = 0)
  <2>1. req \in Requests
    BY DEF CommandTypeOK
  <2>. QED
    BY <2>1, RequestFields, CommandAssumption
<1>d. drv \in DriverShape
  BY Shapes
<1>r. reg \in RegShape
  BY Shapes
<1>b. bus \in BusShape
  BY Shapes
<1>f. /\ drv.step \in DriverSteps /\ drv.stop \in BOOLEAN /\ drv.had \in BOOLEAN /\ drv.result \in BOOLEAN
      /\ drv.blkcnt \in Nat /\ drv.next \in Nat /\ drv.out \in Nat
      /\ reg.ck \in BOOLEAN /\ reg.save \in BOOLEAN
      /\ reg.ints \in BOOLEAN /\ reg.sts \in SUBSET Bits /\ reg.cnt \in Nat /\ reg.adma \in Nat
      /\ bus.moved \in SUBSET Nat /\ bus.phase \in Phases
  BY <1>0, <1>d, <1>r, <1>b DEF DriverShape, RegShape, BusShape
<1>a. Asked \in Nat /\ Asked <= req.num /\ (req.num > 0 => Asked > 0)
  BY <1>0 DEF Asked
<1>. USE DEF DriverSteps, Phases
<1>rl. ResetLines => /\ bus'.phase = "none" /\ bus'.moved = bus.moved
                    /\ reg'.sts = {} /\ reg'.ints = reg.ints /\ reg'.ck = reg.ck /\ reg'.save = reg.save
                    /\ reg'.cnt = reg.cnt /\ reg'.adma = reg.adma
  BY <1>r, <1>b DEF ResetLines, RegShape, BusShape
<1>to. \A s : To(s) => /\ drv'.step = s /\ drv'.stop = drv.stop /\ drv'.had = drv.had /\ drv'.result = drv.result
                       /\ drv'.blkcnt = drv.blkcnt /\ drv'.out = drv.out /\ drv'.next = drv.next
  BY <1>d DEF To, DriverShape
<1>re. \A s, x : Reply(s, x) => /\ drv'.step = s /\ drv'.result = x /\ drv'.stop = drv.stop /\ drv'.had = drv.had
                                /\ drv'.blkcnt = drv.blkcnt /\ drv'.out = drv.out /\ drv'.next = drv.next
  BY <1>d DEF Reply, DriverShape
<1>1. CASE ExecuteCmd
  <2>1. /\ drv.step = "idle" /\ drv'.step = "inhibit" /\ ~drv'.stop /\ drv'.had = reg.ck /\ bus'.moved = {}
        /\ bus'.phase = bus.phase /\ reg'.ints = reg.ints /\ reg'.save = reg.save
    BY <1>d, <1>r, <1>b, <1>1 DEF ExecuteCmd, At, DriverShape, RegShape, BusShape
  <2>. QED
    BY <1>s, <1>f, <2>1 DEF InStep, Transferred, InTransfer, Over, StaysInBuffer
<1>2. CASE WaitInhibit
  <2>1. /\ drv.step = "inhibit" /\ UNCHANGED <<req, reg, bus, issued>>
        /\ To(IF req.data /\ ~drv.stop THEN "dma" ELSE "send")
    BY <1>2 DEF WaitInhibit, At
  <2>2. drv'.step = IF req.data /\ ~drv.stop THEN "dma" ELSE "send"
    BY <2>1, <1>to
  <2>3. drv'.stop = drv.stop /\ drv'.had = drv.had
    BY <2>1, <1>to
  <2>4. ~InTransfer'
    BY <2>1, <2>2, <2>3 DEF InTransfer
  <2>. QED
    BY <1>s, <1>f, <2>1, <2>2, <2>3, <2>4 DEF InStep, Transferred, Over, StaysInBuffer
<1>3. CASE InhibitTimeout \/ BusyTimeout
  <2>1. drv.step \in {"inhibit", "busy"} /\ ResetLines /\ Reply("end", FALSE) /\ UNCHANGED <<req, issued>>
    BY <1>3 DEF InhibitTimeout, BusyTimeout, At
  <2>2. /\ drv'.step = "end" /\ ~drv'.result /\ drv'.stop = drv.stop /\ drv'.had = drv.had
        /\ bus'.phase = "none" /\ bus'.moved = bus.moved /\ reg'.ints = reg.ints /\ reg'.save = reg.save
    BY <2>1, <1>rl, <1>re
  <2>. QED
    BY <1>s, <1>f, <2>1, <2>2 DEF InStep, Transferred, InTransfer, Over, StaysInBuffer
<1>4. CASE ConfigDma
  <2>0. drv.step = "dma" /\ UNCHANGED <<req, bus, issued>> /\ req.data /\ ~drv.stop /\ bus.moved = {} /\ bus.phase = "none"
    BY <1>4, <1>f DEF ConfigDma, At, InStep, Over
  <2>1. CASE req.num = 0 \/ ~req.aligned
    <3>1. drv'.step = "end" /\ ~drv'.result /\ drv'.stop = drv.stop /\ drv'.had = drv.had /\ reg' = reg
      BY <1>4, <2>1, <1>re DEF ConfigDma
    <3>. QED
      BY <1>s, <1>f, <2>0, <3>1 DEF InStep, Transferred, InTransfer, Over, StaysInBuffer
  <2>2. CASE ~(req.num = 0 \/ ~req.aligned)
    <3>. DEFINE x == ((req.buf + Window) \div Window) * Window
    <3>1. x \in Nat /\ x % Window = 0 /\ req.buf < x /\ x <= req.buf + Window
      BY <1>0, FirstBoundary
    <3>2. /\ reg' = [reg EXCEPT !.adma = req.buf, !.cnt = Asked]
          /\ drv' = [drv EXCEPT !.step = "send", !.blkcnt = Asked, !.next = x]
      BY <1>4, <2>2 DEF ConfigDma, Asked
    <3>. HIDE DEF x
    <3>3. /\ drv'.step = "send" /\ drv'.blkcnt = Asked /\ drv'.next = x /\ drv'.stop = drv.stop /\ drv'.had = drv.had
          /\ reg'.adma = req.buf /\ reg'.cnt = Asked /\ reg'.ints = reg.ints /\ reg'.save = reg.save
      BY <1>d, <1>r, <3>2 DEF DriverShape, RegShape
    <3>4. InStep' /\ Over' /\ StaysInBuffer'
      BY <1>f, <2>0, <3>3 DEF InStep, Over, StaysInBuffer
    <3>5. Transferred'
      <4>1. Asked' = Asked /\ req' = req /\ bus'.moved = {} /\ req.num > 0
        BY <1>0, <2>0, <2>2 DEF Asked
      <4>2. {} = req.buf .. req.buf - 1
        BY <1>0
      <4>. QED
        BY <1>0, <1>a, <3>1, <3>3, <4>1, <4>2 DEF Transferred
    <3>. QED
      BY <1>s, <3>4, <3>5
  <2>. QED
    BY <2>1, <2>2
<1>5. CASE SendCmd
  <2>1. drv.step = "send" /\ To("response") /\ UNCHANGED <<req, issued>>
    BY <1>5 DEF SendCmd, At
  <2>2. /\ drv'.step = "response" /\ drv'.stop = drv.stop /\ drv'.had = drv.had /\ drv'.next = drv.next
        /\ drv'.blkcnt = drv.blkcnt
    BY <2>1, <1>to
  <2>3. /\ bus'.phase = "command" /\ bus'.moved = bus.moved /\ reg'.sts = {} /\ reg'.save = reg.save
        /\ reg'.ints /\ reg'.cnt = reg.cnt /\ reg'.adma = reg.adma
    BY <1>r, <1>b, <1>5 DEF SendCmd, EnableInterrupts, RegShape, BusShape
  <2>4. InStep' /\ Over' /\ StaysInBuffer'
    BY <1>f, <2>1, <2>2, <2>3 DEF InStep, Over, StaysInBuffer
  <2>5. Transferred'
    <3>1. Asked' = Asked /\ (InTransfer' => InTransfer)
      BY <2>1, <2>2 DEF Asked, InTransfer
    <3>. QED
      BY <2>1, <2>2, <2>3, <3>1 DEF Transferred
  <2>. QED
    BY <1>s, <2>4, <2>5
<1>6. CASE WaitResponse
  <2>1. /\ drv.step = "response" /\ "response" \in reg.sts /\ UNCHANGED <<req, bus, issued>>
        /\ reg' = [reg EXCEPT !.sts = reg.sts \ {"response"}]
        /\ drv' = [drv EXCEPT !.step = IF req.data /\ ~drv.stop THEN "data" ELSE "mask",
                              !.result = TRUE, !.seen = reg.cnt]
    BY <1>6 DEF WaitResponse, At
  <2>2. /\ drv'.step = (IF req.data /\ ~drv.stop THEN "data" ELSE "mask") /\ drv'.stop = drv.stop /\ drv'.had = drv.had
        /\ drv'.next = drv.next /\ drv'.blkcnt = drv.blkcnt
    BY <1>d, <2>1 DEF DriverShape
  <2>3. /\ reg'.sts = reg.sts \ {"response"} /\ reg'.save = reg.save /\ reg'.ints = reg.ints
        /\ reg'.cnt = reg.cnt /\ reg'.adma = reg.adma
    BY <1>r, <2>1 DEF RegShape
  <2>4. InStep' /\ Over' /\ StaysInBuffer'
    BY <1>f, <2>1, <2>2, <2>3 DEF InStep, Over, StaysInBuffer
  <2>5. Transferred'
    <3>1. Asked' = Asked /\ (InTransfer' => InTransfer)
      BY <2>1, <2>2 DEF Asked, InTransfer
    <3>. QED
      BY <2>1, <2>2, <2>3, <3>1 DEF Transferred
  <2>. QED
    BY <1>s, <2>4, <2>5
<1>7. CASE ResponseFails \/ DmaFails
  <2>1. drv.step \in {"response", "data"} /\ ResetLines /\ Reply("mask", FALSE) /\ UNCHANGED <<req, issued>>
    BY <1>7 DEF ResponseFails, DmaFails, At
  <2>2. /\ drv'.step = "mask" /\ ~drv'.result /\ drv'.stop = drv.stop /\ drv'.had = drv.had
        /\ bus'.phase = "none" /\ bus'.moved = bus.moved /\ reg'.ints = reg.ints /\ reg'.save = reg.save
    BY <2>1, <1>rl, <1>re
  <2>. QED
    BY <1>s, <1>f, <2>1, <2>2 DEF InStep, Transferred, InTransfer, Over, StaysInBuffer
<1>8. CASE DataEnd
  <2>1. drv.step = "data" /\ "end" \in reg.sts /\ To("mask") /\ UNCHANGED <<req, bus, issued>>
    BY <1>8 DEF DataEnd, DmaPoll, At
  <2>2. /\ drv'.step = "mask" /\ drv'.result = drv.result /\ drv'.stop = drv.stop /\ drv'.had = drv.had
        /\ drv'.blkcnt = drv.blkcnt
    BY <2>1, <1>to
  <2>3. reg'.ints = reg.ints /\ reg'.save = reg.save
    BY <1>r, <1>8 DEF DataEnd, RegShape
  <2>4. /\ req.data /\ ~drv.stop /\ reg.cnt = 0 /\ drv.blkcnt = Asked /\ bus.moved = req.buf .. reg.adma - 1
        /\ reg.adma + reg.cnt = req.buf + drv.blkcnt
    BY <2>1 DEF InStep, Transferred, InTransfer
  <2>5. bus.moved = req.buf .. req.buf + Asked - 1
    BY <1>0, <1>f, <1>a, <2>4
  <2>6. bus.phase = "none"
    BY <2>1, <2>4 DEF InStep, Transferred, InTransfer
  <2>. QED
    BY <1>s, <1>f, <2>1, <2>2, <2>3, <2>4, <2>5, <2>6 DEF InStep, Transferred, InTransfer, Over, StaysInBuffer, Asked
<1>9. CASE DmaEnd
  <2>1. /\ drv.step = "data" /\ "dma" \in reg.sts /\ UNCHANGED <<req, bus, issued>>
        /\ reg' = [reg EXCEPT !.sts = reg.sts \ {"dma"}, !.adma = drv.next]
        /\ drv' = [drv EXCEPT !.next = drv.next + Window]
    BY <1>9 DEF DmaEnd, DmaPoll, At
  <2>2. /\ drv'.step = "data" /\ drv'.result = drv.result /\ drv'.stop = drv.stop /\ drv'.had = drv.had
        /\ drv'.blkcnt = drv.blkcnt /\ drv'.next = drv.next + Window
    BY <1>d, <2>1 DEF DriverShape
  <2>3. /\ reg'.sts = reg.sts \ {"dma"} /\ reg'.save = reg.save /\ reg'.ints = reg.ints
        /\ reg'.cnt = reg.cnt /\ reg'.adma = drv.next
    BY <1>r, <2>1 DEF RegShape
  <2>4. InStep' /\ Over' /\ StaysInBuffer'
    BY <1>f, <2>1, <2>2, <2>3 DEF InStep, Over, StaysInBuffer
  <2>5. Transferred'
    <3>1. Asked' = Asked /\ InTransfer
      BY <2>1 DEF Asked, InTransfer, InStep
    <3>2. drv'.next % Window = 0
      BY <1>f, <2>2, <3>1, NextBoundary DEF Transferred
    <3>3. /\ reg.adma = drv.next /\ req.num > 0 /\ drv.blkcnt = Asked
          /\ reg.adma >= req.buf /\ reg.adma + reg.cnt = req.buf + drv.blkcnt
          /\ bus.moved = req.buf .. reg.adma - 1
          /\ (bus.phase # "none" => reg.cnt > 0) /\ ("end" \in reg.sts => reg.cnt = 0)
      BY <2>1, <3>1 DEF Transferred
    <3>4. drv.next < drv'.next /\ drv'.next <= drv.next + Window
      BY <1>0, <1>f, <2>2
    <3>. QED
      BY <2>1, <2>2, <2>3, <3>1, <3>2, <3>3, <3>4 DEF Transferred
  <2>. QED
    BY <1>s, <2>4, <2>5
<1>10. CASE DmaSlow
  <2>1. /\ drv' = [drv EXCEPT !.seen = reg.cnt] /\ UNCHANGED <<req, reg, bus, issued>>
    BY <1>10 DEF DmaSlow
  <2>2. /\ drv'.step = drv.step /\ drv'.result = drv.result /\ drv'.stop = drv.stop /\ drv'.had = drv.had
        /\ drv'.blkcnt = drv.blkcnt /\ drv'.next = drv.next /\ drv'.out = drv.out
    BY <1>d, <2>1 DEF DriverShape
  <2>. QED
    BY <1>s, <2>1, <2>2 DEF InStep, Transferred, InTransfer, Over, StaysInBuffer, Asked
<1>11. CASE MaskInterrupts
  <2>1. /\ drv.step = "mask" /\ UNCHANGED <<req, bus, issued>>
        /\ reg' = [reg EXCEPT !.ints = FALSE]
    BY <1>11 DEF MaskInterrupts, At
  <2>2. /\ drv'.step \in {"busy", "end"} /\ drv'.result = drv.result /\ drv'.stop = drv.stop /\ drv'.had = drv.had
        /\ drv'.blkcnt = drv.blkcnt
        /\ drv'.out = IF drv.result /\ req.data /\ ~drv.stop THEN drv.blkcnt ELSE drv.out
    BY <1>d, <1>11 DEF MaskInterrupts, DriverShape
  <2>3. ~reg'.ints /\ reg'.save = reg.save
    BY <1>r, <2>1 DEF RegShape
  <2>. QED
    BY <1>s, <1>f, <2>1, <2>2, <2>3 DEF InStep, Transferred, InTransfer, Over, StaysInBuffer, Asked
<1>12. CASE WaitCardBusy
  <2>1. drv.step = "busy" /\ To("end") /\ UNCHANGED <<req, reg, bus, issued>>
    BY <1>12 DEF WaitCardBusy, At
  <2>2. /\ drv'.step = "end" /\ drv'.result = drv.result /\ drv'.stop = drv.stop /\ drv'.had = drv.had
        /\ drv'.blkcnt = drv.blkcnt /\ drv'.out = drv.out
    BY <2>1, <1>to
  <2>. QED
    BY <1>s, <1>f, <2>1, <2>2 DEF InStep, Transferred, InTransfer, Over, StaysInBuffer, Asked
<1>13. CASE EndCmd
  <2>1. /\ drv.step = "end" /\ UNCHANGED <<req, bus, issued>> /\ reg' = [reg EXCEPT !.ck = drv.had]
        /\ \E next \in Afterwards : Reply(next, drv.result /\ ~drv.stop)
    BY <1>13 DEF EndCmd, At
  <2>2. /\ drv'.step \in Afterwards /\ drv'.step \in {"idle", "stop"}
        /\ drv'.step = "stop" => req.data /\ ~drv.result /\ ~drv.stop
        /\ (drv'.result <=> drv.result /\ ~drv.stop)
        /\ drv'.stop = drv.stop /\ drv'.had = drv.had /\ drv'.blkcnt = drv.blkcnt /\ drv'.out = drv.out
    <3>1. PICK next \in Afterwards : Reply(next, drv.result /\ ~drv.stop)
      BY <2>1
    <3>2. /\ drv'.step = next /\ (drv'.result <=> drv.result /\ ~drv.stop)
          /\ drv'.stop = drv.stop /\ drv'.had = drv.had /\ drv'.blkcnt = drv.blkcnt /\ drv'.out = drv.out
      BY <3>1, <1>re
    <3>3. next \in {"idle", "stop"} /\ (next = "stop" => req.data /\ ~drv.result /\ ~drv.stop)
      BY <3>1 DEF Afterwards
    <3>. QED
      BY <3>1, <3>2, <3>3
  <2>3. reg'.ck = drv.had /\ reg'.ints = reg.ints /\ reg'.save = reg.save
    BY <1>r, <2>1 DEF RegShape
  <2>. QED
    BY <1>s, <1>f, <2>1, <2>2, <2>3 DEF InStep, Transferred, InTransfer, Over, StaysInBuffer, Asked
<1>14. CASE StopTransmission
  <2>1. /\ drv.step = "stop" /\ drv'.step = "inhibit" /\ drv'.stop /\ drv'.had = drv.had
    BY <1>d, <1>14 DEF StopTransmission, At, DriverShape
  <2>2. UNCHANGED <<req, bus, issued>> /\ reg'.ints = reg.ints /\ reg'.save = reg.save
    BY <1>r, <1>14 DEF StopTransmission, RegShape
  <2>. QED
    BY <1>s, <1>f, <2>1, <2>2 DEF InStep, Transferred, InTransfer, Over, StaysInBuffer
<1>l. \A x : Latch({x}) \in {reg.sts, reg.sts \cup {x}}
  BY DEF Latch
<1>15. CASE Answers
  <2>1. /\ bus.phase = "command" /\ UNCHANGED <<drv, req, issued>>
        /\ reg' = [reg EXCEPT !.cmd = FALSE, !.sts = Latch({"response"})]
    BY <1>15 DEF Answers
  <2>2. /\ reg'.sts \in {reg.sts, reg.sts \cup {"response"}} /\ reg'.ck = reg.ck /\ reg'.ints = reg.ints /\ reg'.save = reg.save
        /\ reg'.cnt = reg.cnt /\ reg'.adma = reg.adma
    BY <1>r, <1>l, <2>1 DEF RegShape
  <2>3. bus'.phase = (IF req.data /\ ~drv.stop THEN "data" ELSE "none") /\ bus'.moved = bus.moved
    BY <1>b, <1>15 DEF Answers, BusShape
  <2>4. InStep' /\ Over' /\ StaysInBuffer'
    BY <2>1, <2>2, <2>3 DEF InStep, Over, StaysInBuffer, Asked
  <2>5. Transferred'
    BY <2>1, <2>2, <2>3 DEF InStep, Transferred, InTransfer, Asked
  <2>. QED
    BY <1>s, <2>4, <2>5
<1>16. CASE Errs
  <2>1. UNCHANGED <<drv, req, bus, issued>> /\ reg' = [reg EXCEPT !.sts = Latch({"error"})]
    BY <1>16 DEF Errs
  <2>2. /\ reg'.sts \in {reg.sts, reg.sts \cup {"error"}} /\ reg'.ck = reg.ck /\ reg'.ints = reg.ints /\ reg'.save = reg.save
        /\ reg'.cnt = reg.cnt /\ reg'.adma = reg.adma
    BY <1>r, <1>l, <2>1 DEF RegShape
  <2>3. InStep' /\ Over' /\ StaysInBuffer'
    BY <2>1, <2>2 DEF InStep, Over, StaysInBuffer, Asked
  <2>4. Transferred'
    BY <2>1, <2>2 DEF Transferred, InTransfer, Asked
  <2>. QED
    BY <1>s, <2>3, <2>4
<1>17. CASE MovesBlock
  <2>. DEFINE last == reg.cnt = 1
              stop == (reg.adma + 1) % Window = 0 /\ ~last
              t == (IF last THEN {"end"} ELSE {}) \cup (IF stop THEN {"dma"} ELSE {})
  <2>1. /\ bus.phase = "data" /\ reg.cnt > 0 /\ "dma" \notin reg.sts /\ UNCHANGED <<drv, req, issued>>
        /\ reg' = [reg EXCEPT !.cnt = reg.cnt - 1, !.adma = reg.adma + 1, !.dat = reg.dat /\ ~last, !.sts = Latch(t)]
    BY <1>17 DEF MovesBlock
  <2>2. /\ reg'.sts = Latch(t) /\ reg'.ck = reg.ck /\ reg'.ints = reg.ints /\ reg'.save = reg.save
        /\ reg'.cnt = reg.cnt - 1 /\ reg'.adma = reg.adma + 1
    <3>. HIDE DEF t, last
    <3>. QED
      BY <1>r, <2>1 DEF RegShape
  <2>3. bus'.moved = bus.moved \cup {reg.adma} /\ bus'.phase = IF last THEN "none" ELSE "data"
    BY <1>b, <1>17 DEF MovesBlock, BusShape
  <2>4. /\ InTransfer /\ drv.step \in {"response", "data"} /\ reg.adma < drv.next /\ drv.next <= reg.adma + Window
        /\ reg.adma >= req.buf /\ reg.adma + reg.cnt = req.buf + drv.blkcnt /\ drv.blkcnt = Asked /\ req.num > 0
        /\ bus.moved = req.buf .. reg.adma - 1 /\ drv.next % Window = 0
        /\ "end" \notin reg.sts
    BY <2>1 DEF InStep, Transferred, InTransfer
  <2>5. bus'.moved = req.buf .. reg.adma /\ reg.adma \in req.buf .. req.buf + req.num - 1
 
    <3>1. (req.buf .. reg.adma - 1) \cup {reg.adma} = req.buf .. reg.adma
      BY <1>0, <1>f, <2>4
    <3>2. reg.adma \in req.buf .. req.buf + req.num - 1
      BY <1>0, <1>f, <1>a, <2>1, <2>4
    <3>. QED
      BY <2>3, <2>4, <3>1, <3>2
  <2>6. "end" \in Latch(t) => last
    BY <2>4 DEF Latch
  <2>7. "dma" \in Latch(t) => stop
    BY <2>1 DEF Latch
  <2>8. stop => reg.adma + 1 = drv.next
    BY <1>0, <1>f, <2>4, Boundaries
  <2>10. InStep' /\ Over'
    <3>1. "response" \in Latch(t) <=> "response" \in reg.sts
      BY DEF Latch
    <3>. QED
      BY <2>1, <2>2, <2>3, <2>4, <3>1 DEF InStep, Over, InTransfer, Asked
  <2>11. StaysInBuffer'
    BY <1>0, <1>f, <2>1, <2>5 DEF StaysInBuffer
  <2>12. Transferred'
    <3>1. Asked' = Asked /\ drv' = drv /\ req' = req
      BY <2>1 DEF Asked
    <3>2. "dma" \notin Latch(t) /\ reg.cnt - 1 > 0 => reg.adma + 1 < drv.next
      <4>1. ASSUME reg.adma + 1 = drv.next, reg.cnt - 1 > 0 PROVE "dma" \in Latch(t)
        <5>1. stop
          BY <1>f, <2>4, <4>1
        <5>2. reg.ints
          BY <2>1 DEF InStep
        <5>. QED
          BY <5>1, <5>2 DEF Latch
      <4>. QED
        BY <1>f, <2>4, <4>1
    <3>3. /\ reg'.adma >= req.buf /\ reg'.adma + reg'.cnt = req.buf + drv.blkcnt
          /\ bus'.moved = req.buf .. reg'.adma - 1
          /\ bus'.phase # "none" => reg'.cnt > 0
      <4>1. reg.adma = reg.adma + 1 - 1
        BY <1>f
      <4>2. bus'.moved = req.buf .. reg'.adma - 1
        BY <2>2, <2>5, <4>1
      <4>3. bus'.phase # "none" => reg.cnt - 1 > 0
        BY <1>f, <2>1, <2>3
      <4>4. reg'.adma >= req.buf /\ reg'.adma + reg'.cnt = req.buf + drv.blkcnt
        <5>1. /\ reg'.cnt = reg.cnt - 1 /\ reg'.adma = reg.adma + 1 /\ reg.cnt \in Nat /\ reg.adma \in Nat
              /\ req.buf \in Nat /\ drv.blkcnt \in Nat
              /\ reg.adma >= req.buf /\ reg.adma + reg.cnt = req.buf + drv.blkcnt
          BY <1>0, <1>f, <2>2, <2>4
        <5>. QED
          BY ONLY <5>1
      <4>. QED
        BY <2>2, <4>2, <4>3, <4>4
    <3>4. /\ "end" \in reg'.sts => reg'.cnt = 0
          /\ "dma" \in reg'.sts => reg'.adma = drv.next
      <4>1. last => reg.cnt - 1 = 0
        OBVIOUS
      <4>. QED
        BY <2>2, <2>6, <2>7, <2>8, <4>1
    <3>5. "dma" \notin reg'.sts /\ reg'.cnt > 0 => reg'.adma < drv.next /\ drv.next <= reg'.adma + Window
      <4>1. drv.next <= reg.adma + 1 + Window
        BY <1>0, <1>f, <2>4
      <4>. QED
        BY <2>2, <3>2, <4>1
    <3>. HIDE DEF last, stop, t
    <3>. QED
      BY <2>4, <3>1, <3>3, <3>4, <3>5 DEF Transferred
  <2>. QED
    BY <1>s, <2>10, <2>11, <2>12
<1>18. CASE GetsReady
  <2>1. UNCHANGED <<drv, req, issued>> /\ bus'.phase = bus.phase /\ bus'.moved = bus.moved
    BY <1>b, <1>18 DEF GetsReady, BusShape
  <2>2. /\ reg'.sts \in {reg.sts, reg.sts \cup {"end"}} /\ (~req.busy => reg'.sts = reg.sts)
        /\ reg'.ck = reg.ck /\ reg'.ints = reg.ints /\ reg'.save = reg.save
        /\ reg'.cnt = reg.cnt /\ reg'.adma = reg.adma
    BY <1>r, <1>l, <1>18 DEF GetsReady, RegShape
  <2>3. InStep' /\ Over' /\ StaysInBuffer'
    BY <2>1, <2>2 DEF InStep, Over, StaysInBuffer, Asked
  <2>4. Transferred'
    BY <1>0, <2>1, <2>2 DEF Transferred, InTransfer, Asked
  <2>. QED
    BY <1>s, <2>3, <2>4
<1>19. CASE UNCHANGED commandVars
  BY <1>s, <1>19 DEF commandVars, InStep, Transferred, InTransfer, Over, StaysInBuffer, Asked
<1>. QED
  BY <1>1, <1>2, <1>3, <1>4, <1>5, <1>6, <1>7, <1>8, <1>9, <1>10, <1>11, <1>12, <1>13, <1>14, <1>15, <1>16,
     <1>17, <1>18, <1>19 DEF CommandNext, Driver, Hardware

\* A controller without a command is in step.
LEMMA CommandStarts ==
  ASSUME CommandInit
  PROVE  CommandInv
<1>0. MaxBlocks \in Nat \ {0} /\ MaxCmds \in Nat /\ req = NoRequest /\ req \in Requests
  <2>. DEFINE S == [data : BOOLEAN, write : BOOLEAN, busy : BOOLEAN, buf : Nat, num : Nat, aligned : BOOLEAN]
  <2>0. \A r \in S : ~r.busy => [r EXCEPT !.busy = FALSE] = r
    OBVIOUS
  <2>1. NoRequest \in S /\ ~NoRequest.busy
    BY DEF NoRequest
  <2>2. NoRequest \in Requests
    BY <2>0, <2>1 DEF Requests
  <2>. QED
    BY <2>2, CommandAssumption DEF CommandInit
<1>1. PICK save \in BOOLEAN :
         reg = [en |-> TRUE, ck |-> ~save, save |-> save, ints |-> FALSE, cmd |-> FALSE,
                dat |-> FALSE, sts |-> {}, cnt |-> 0, adma |-> 0]
  BY DEF CommandInit
<1>2. reg \in RegShape /\ ~reg.ints /\ (reg.ck <=> ~reg.save)
  <2>1. (~save) \in BOOLEAN /\ {} \in SUBSET Bits /\ 0 \in 0 .. MaxBlocks
    BY <1>0
  <2>2. reg \in RegShape
    BY <1>1, <2>1 DEF RegShape
  <2>3. ~reg.ints /\ reg.ck = ~save /\ reg.save = save
    BY <1>1
  <2>. QED
    BY <2>2, <2>3
<1>3. /\ drv \in DriverShape /\ drv.step = "idle" /\ ~drv.stop
  BY <1>0 DEF CommandInit, DriverShape, DriverSteps
<1>4. bus \in BusShape /\ bus.phase = "none" /\ bus.moved = {}
  BY DEF CommandInit, BusShape, Phases
<1>5. CommandTypeOK
  BY <1>0, <1>2, <1>3, <1>4, Shapes DEF CommandInit
<1>6. ~req.data
  BY <1>0 DEF NoRequest
<1>. QED
  BY <1>2, <1>3, <1>4, <1>5, <1>6 DEF CommandInv, InStep, Transferred, InTransfer, Over, StaysInBuffer

\* CommandInv holds in every reachable state.
THEOREM CommandInvariantHolds == CommandSpec => []CommandInv
<1>1. CommandInit => CommandInv
  BY CommandStarts
<1>2. CommandInv /\ [CommandNext]_commandVars => CommandInv'
  BY CommandKeeps
<1>. QED
  BY <1>1, <1>2, PTL DEF CommandSpec

\* What the driver promises of a command: a transfer that is reported done moved every
\* block it says, in order and from where it was asked to, whatever came late, was lost
\* or failed on the way (sdmmc_driver.c:957-1060); nothing outside the buffer is touched;
\* between commands no interrupt is enabled and the clock runs only when it is not saved.
THEOREM CommandIsSound == CommandSpec => []CommandSound
<1>1. CommandInv => CommandSound
  <2>. SUFFICES ASSUME CommandInv PROVE TransferWhole /\ StaysInBuffer /\ QuietOutside
    BY DEF CommandSound
  <2>1. TransferWhole
    <3>1. MaxBlocks \in Nat /\ req.num \in Nat
      BY CommandAssumption, RequestFields DEF CommandInv, CommandTypeOK
    <3>2. Asked = IF req.num > MaxBlocks THEN MaxBlocks ELSE req.num
      BY <3>1 DEF Asked
    <3>. QED
      BY <3>2 DEF TransferWhole, At, CommandInv, Over
  <2>2. QuietOutside
    BY DEF QuietOutside, At, CommandInv, InStep
  <2>. QED
    BY <2>1, <2>2 DEF CommandInv
<1>. QED
  BY <1>1, CommandInvariantHolds, PTL

(***************************************************************************)
(* The interrupt table and the buses.                                      *)
(***************************************************************************)
\* The types of the parts of the state.
SlotType == [irq : Sources \cup {0}, handler : 0..MaxRequests, data : 0..MaxRequests, flags : Flags]
LicType == [on : SUBSET Sources, raised : SUBSET Sources]
CpuType == [ready : BOOLEAN, open : BOOLEAN]
IsrType == [irq : Sources \cup {0}, slot : 0..SlotCount + 1, said : {"none", "handled"}]
TaskType == [op : Flags \cup {"free", "wait"}, irq : Sources \cup {0}, slot : Slots \cup {0},
             step : {"none", "irq", "handler", "data", "flags", "enable", "disable", "halt"}]

\* What every step starts from.
LEMMA Facts ==
  ASSUME IrqInv
  PROVE  /\ irqs \in [Slots -> SlotType] /\ lic \in LicType /\ cpu \in CpuType /\ isr \in IsrType
         /\ task \in TaskType /\ Requested \in 0..MaxRequests
         /\ past \in [flags : [1..Requested -> Flags], served : [1..Requested -> 0..2],
                      lapses : SUBSET {"twice", "torn"}]
         /\ "twice" \notin past.lapses /\ ~Replaced => past.lapses = {}
<1>1. "twice" \notin past.lapses /\ ~Replaced => past.lapses = {}
  BY DEF IrqInv, Placed, OwnInv
<1>. QED
  BY <1>1 DEF IrqInv, Placed, IrqTypeOK, SlotType, LicType, CpuType, IsrType, TaskType

LEMMA Counted ==
  ASSUME NEW n \in Nat, NEW f, DOMAIN f = 1..n
  PROVE  Cardinality(DOMAIN f) = n
<1>1. Cardinality(1..n) = n
  BY FS_Interval
<1>. QED
  BY <1>1

LEMMA InitInv == IrqInit => IrqInv
<1>. SUFFICES ASSUME IrqInit PROVE IrqInv
  OBVIOUS
<1>. USE IrqAssumption
<1>1. Requested = 0
  <2>1. DOMAIN past.flags = 1..0
    BY DEF IrqInit
  <2>. QED
    BY ONLY <2>1, Counted DEF Requested
<1>2. IrqTypeOK
  BY DEF IrqInit, IrqTypeOK, FreeSlot, NoIsr, Flags, NULLH, Slots
<1>3. past.flags \in [1..Requested -> Flags] /\ past.served \in [1..Requested -> 0..2]
  BY <1>1 DEF IrqInit
<1>4. Placed
  BY <1>1, <1>2, <1>3 DEF IrqInit, Placed, NoTask, NoIsr, Interrupted, Filling, Flags, Slots
<1>5. TableInv
  BY <1>1 DEF IrqInit, TableInv, SlotsWhole, SourcesOnce, HandlersOnce, AnsweredInv, ServedOnce, Whole, Filling, NoTask, NoIsr, FreeSlot, Slots
<1>6. OwnInv
  BY DEF IrqInit, OwnInv, NoTask, Filling
<1>. QED
  BY <1>4, <1>5, <1>6 DEF IrqInv

\* The table stays right when neither it, nor the slot in hand, nor an answer changes.
LEMMA TableUntouched ==
  ASSUME IrqInv, UNCHANGED <<irqs, past>>, Placed',
         UNCHANGED task \/ (~Filling /\ ~Filling'),
         isr' = isr \/ (isr.said = "none" /\ isr'.said = "none")
  PROVE  TableInv'
<1>. USE DEF IrqInv
<1>1. /\ \A s \in Slots : Whole(s)' <=> Whole(s)
      /\ Requested' = Requested
  BY DEF Whole, Requested
<1>2. Filling' <=> Filling
  BY DEF Filling
<1>3. Filling => task.slot \in Slots /\ task' = task
  BY DEF Placed, Filling
<1>4. Filling /\ InHand => InHand'
  BY <1>1, <1>2, <1>3 DEF InHand, Replaced
<1>5. isr'.said = "handled" => isr' = isr
  OBVIOUS
<1>6. isr.said = "handled" => isr' = isr
  OBVIOUS
<1>7. task'.step = "irq" => Filling
  BY <1>2 DEF Filling
<1>. QED
  BY <1>1, <1>2, <1>3, <1>4, <1>5, <1>6, <1>7 DEF TableInv, SlotsWhole, SourcesOnce, HandlersOnce, AnsweredInv, ServedOnce

\* Actions that leave table and history alone.
QuietAction ==
    \/ EnableSource \/ DisableSource \/ irq_wait_event \/ Woken \/ irq_disable_wait_event
    \/ irq_handler \/ NextSlot \/ NotHandled \/ Raise

LEMMA QuietStep ==
  ASSUME IrqInv, QuietAction
  PROVE  IrqInv'
<1>. USE IrqAssumption DEF IrqInv
<1>1. lic \in LicType /\ cpu \in CpuType /\ isr \in IsrType /\ task \in TaskType
  BY DEF Placed, IrqTypeOK, LicType, CpuType, IsrType, TaskType
<1>2. NoTask \in TaskType /\ NoIsr \in IsrType 
  BY DEF NoTask, NoIsr, TaskType, IsrType, Flags
<1>3. UNCHANGED <<irqs, past>>
  BY DEF QuietAction, EnableSource, DisableSource, irq_wait_event, Woken, irq_disable_wait_event, irq_handler, NextSlot, NotHandled, Raise
<1>4. \A i \in Sources \cup {0} :
        /\ DisableAck(i) \in LicType
        /\ [lic EXCEPT !.on = @ \ {i}] \in LicType
        /\ i # 0 => On(i) \in LicType /\ [lic EXCEPT !.raised = @ \cup {i}] \in LicType
  BY <1>1 DEF LicType, DisableAck, On
<1>5. lic' \in LicType
  <2>1. task.irq \in Sources \cup {0} /\ (task.step = "enable" => task.irq \in Sources)
    BY DEF Placed, Filling
  <2>2. lic.on \subseteq Sources
    BY <1>1 DEF LicType
  <2>3. CASE EnableSource \/ DisableSource \/ irq_wait_event \/ Woken \/ irq_handler \/ Raise
    BY <1>4, <2>1, <2>2, <2>3 DEF EnableSource, DisableSource, irq_wait_event, Woken, irq_handler, Raise
  <2>. QED
    BY <1>1, <2>3 DEF QuietAction, irq_disable_wait_event, NextSlot, NotHandled
<1>6. cpu' \in CpuType
  BY <1>1 DEF CpuType, QuietAction, EnableSource, DisableSource, irq_wait_event, Woken, irq_disable_wait_event, irq_handler, NextSlot, NotHandled, Raise
<1>7. isr' \in IsrType
  <2>1. CASE irq_handler
    BY <1>1, <1>2, <2>1 DEF irq_handler, LicType, IsrType, NoIsr
  <2>2. CASE NextSlot
    BY <1>1, <2>2 DEF NextSlot, Looking, Interrupted, IsrType
  <2>. QED
    BY <1>1, <1>2, <2>1, <2>2 DEF QuietAction, EnableSource, DisableSource, irq_wait_event, Woken, irq_disable_wait_event, NotHandled, Raise
<1>8. task' \in TaskType
  BY <1>1, <1>2 DEF TaskType, NoTask, QuietAction, EnableSource, DisableSource, irq_wait_event, Woken, irq_disable_wait_event, irq_handler, NextSlot, NotHandled, Raise
<1>9. \/ UNCHANGED task
      \/ ~Filling /\ task'.step \in {"none", "disable", "halt"} /\ (task'.step = "none" => task' = NoTask)
  BY DEF Filling, NoTask, QuietAction, EnableSource, DisableSource, irq_wait_event, Woken, irq_disable_wait_event, irq_handler, NextSlot, NotHandled, Raise
<1>10. isr'.irq = 0 => isr'.said = "none"
  BY <1>1 DEF Placed, IsrType, NoIsr, Interrupted, QuietAction, EnableSource, DisableSource, irq_wait_event, Woken, irq_disable_wait_event, irq_handler, NextSlot, NotHandled, Raise
<1>11. isr'.irq # 0 => isr'.slot > 0
  BY <1>1 DEF Placed, IsrType, NoIsr, Interrupted, QuietAction, EnableSource, DisableSource, irq_wait_event, Woken, irq_disable_wait_event, irq_handler, NextSlot, NotHandled, Raise
<1>12. isr' = isr \/ (isr.said = "none" /\ isr'.said = "none")
  BY <1>1 DEF Placed, IsrType, NoIsr, Interrupted, Looking, Slots, QuietAction, EnableSource, DisableSource, irq_wait_event, Woken, irq_disable_wait_event, irq_handler, NextSlot, NotHandled, Raise
<1>13. isr'.irq \notin lic'.on
  BY <1>1 DEF Placed, LicType, IsrType, NoIsr, Interrupted, DisableAck, On, QuietAction, EnableSource, DisableSource, irq_wait_event, Woken, irq_disable_wait_event, irq_handler, NextSlot, NotHandled, Raise
<1>14. task'.step = "halt" => ~cpu'.open /\ ~Interrupted'
  BY <1>1 DEF Placed, CpuType, IsrType, NoIsr, NoTask, Interrupted, QuietAction, EnableSource, DisableSource, irq_wait_event, Woken, irq_disable_wait_event, irq_handler, NextSlot, NotHandled, Raise
<1>15. Placed'
  <2>1. Requested' = Requested
    BY <1>3 DEF Requested
  <2>2. IrqTypeOK'
    BY <1>3, <1>5, <1>6, <1>7 DEF Placed, IrqTypeOK, LicType, CpuType, IsrType
  <2>3. isr'.said = "handled" => isr'.slot \in Slots
    BY <1>12 DEF Placed
  <2>4. /\ task'.step = "none" => task' = NoTask
        /\ Filling' \/ task'.step = "enable" => UNCHANGED task
    BY <1>9 DEF Placed, Filling
  <2>. QED
    BY <1>3, <1>8, <1>10, <1>11, <1>13, <1>14, <2>1, <2>2, <2>3, <2>4 DEF Placed, Filling, TaskType
<1>16. TableInv'
  <2>1. UNCHANGED task \/ (~Filling /\ ~Filling')
    BY <1>9 DEF Filling
  <2>. QED
    BY <1>3, <1>12, <1>15, <2>1, TableUntouched
<1>17. OwnInv'
  <2>1. CASE EnableSource \/ DisableSource \/ irq_wait_event \/ Woken
    BY <1>1, <2>1 DEF OwnInv, EnableSource, DisableSource, irq_wait_event, Woken, Placed, LicType, IsrType, NoTask, Has, Replaced, Filling, On, DisableAck
  <2>2. CASE irq_disable_wait_event \/ NextSlot \/ Raise
    BY <1>1, <2>2 DEF OwnInv, irq_disable_wait_event, NextSlot, Raise, LicType, IsrType, Has, Replaced, Filling
  <2>3. CASE irq_handler \/ NotHandled
    <3>1. lic'.on \subseteq lic.on /\ UNCHANGED task
      BY <1>1, <2>3 DEF irq_handler, NotHandled, LicType, DisableAck
    <3>2. isr'.irq = 0 \/ isr'.irq \in lic.on
      BY <2>3 DEF irq_handler, NotHandled, NoIsr
    <3>3. Filling \/ task.step = "enable" => task.irq # 0
      BY DEF Placed
    <3>. QED
      BY <1>3, <3>1, <3>2, <3>3 DEF OwnInv, Has, Replaced, Filling
  <2>. QED
    BY <2>1, <2>2, <2>3 DEF QuietAction
<1>. QED
  BY <1>15, <1>16, <1>17

(***************************************************************************)
(* The calls of the program.                                               *)
(***************************************************************************)
LEMMA FreeStep ==
  ASSUME IrqInv, irq_free
  PROVE  IrqInv'
<1>. USE IrqAssumption, Facts DEF IrqInv
<1>1. PICK i \in Sources :
        /\ irqs' = [s \in Slots |-> IF irqs[s].irq = i /\ irqs[s].handler # NULLH THEN FreeSlot
                                     ELSE irqs[s]]
        /\ task' = [op |-> "free", irq |-> i, slot |-> 0, step |-> "disable"]
  BY DEF irq_free, FreeMatching
<1>2. task.step = "none" /\ isr.irq = 0 /\ isr.said = "none" /\ task = NoTask
  BY DEF irq_free, Interrupted, Placed
<1>3. UNCHANGED <<lic, cpu, isr, past>> /\ Requested' = Requested
  BY DEF irq_free, Requested
<1>4. FreeSlot \in SlotType
  BY DEF FreeSlot, SlotType, NULLH, Flags
<1>5. irqs' \in [Slots -> SlotType]
  BY <1>1, <1>4
<1>6. Placed'
  <2>1. task' \in TaskType
    BY <1>1 DEF TaskType
  <2>. QED
    BY <1>1, <1>2, <1>3, <1>5, <2>1 DEF Placed, IrqTypeOK, SlotType, TaskType, Filling
<1>7. \A s \in Slots : irqs'[s] = irqs[s] \/ irqs'[s] = FreeSlot
  BY <1>1
<1>8. TableInv'
  <2>1. ~Filling /\ ~Filling'
    BY <1>1, <1>2 DEF Filling
  <2>2. \A s \in Slots : Whole(s) => Whole(s)'
    BY <1>3, <1>7 DEF Whole
  <2>3. \A s \in Slots : \/ irqs'[s].irq = 0 /\ irqs'[s].handler = NULLH
                         \/ irqs'[s] = irqs[s]
    BY <1>7 DEF FreeSlot
  <2>. SUFFICES ASSUME past.lapses = {} PROVE TableInv'
    BY <1>3 DEF TableInv, SlotsWhole, SourcesOnce, HandlersOnce, AnsweredInv, ServedOnce
  <2>4. \A s \in Slots : Whole(s)'
    BY <2>1, <2>2 DEF TableInv, SlotsWhole, SourcesOnce, HandlersOnce, AnsweredInv, ServedOnce
  <2>5. \A s, t \in Slots : irqs'[s].irq = irqs'[t].irq /\ irqs'[s].irq # 0 => s = t
    BY <2>3 DEF TableInv, SlotsWhole, SourcesOnce, HandlersOnce, AnsweredInv, ServedOnce
  <2>6. \A s, t \in Slots : irqs'[s].handler = irqs'[t].handler /\ irqs'[s].handler # NULLH => s = t
    BY <2>3 DEF TableInv, SlotsWhole, SourcesOnce, HandlersOnce, AnsweredInv, ServedOnce
  <2>7. \A r \in 1..Requested : past.flags[r] = "once" /\ past.served[r] # 0 =>
           past.served[r] = 1 /\ \A s \in Slots : irqs'[s].handler # r
    BY <1>2, <2>3 DEF TableInv, SlotsWhole, SourcesOnce, HandlersOnce, AnsweredInv, ServedOnce, NULLH
  <2>. QED
    BY <1>1, <1>2, <1>3, <2>1, <2>4, <2>5, <2>6, <2>7 DEF TableInv, SlotsWhole, SourcesOnce, HandlersOnce, AnsweredInv, ServedOnce, Filling
<1>9. OwnInv'
  <2>1. ~Filling'
    BY <1>1 DEF Filling
  <2>2. \A j \in lic.on : j # i /\ Has(j) => Has(j)'
    BY <1>1 DEF Has
  <2>3. \A j \in lic.on : j # task.irq
    BY <1>2 DEF NoTask, LicType
  <2>. QED
    BY <1>1, <1>2, <1>3, <2>1, <2>2, <2>3 DEF OwnInv, Replaced
<1>. QED
  BY <1>6, <1>8, <1>9

LEMMA EndStep ==
  ASSUME IrqInv, irq_end
  PROVE  IrqInv'
<1>. USE IrqAssumption, Facts DEF IrqInv
<1>1. /\ irqs' = [s \in Slots |-> FreeSlot]
      /\ lic' = [lic EXCEPT !.on = @ \ {irqs[s].irq : s \in {t \in Slots : irqs[t].handler # NULLH}}]
      /\ cpu' = [ready |-> FALSE, open |-> FALSE]
      /\ UNCHANGED <<task, isr, past>> /\ Requested' = Requested
  BY DEF irq_end, Requested
<1>2. task.step = "none" /\ isr.irq = 0 /\ isr.said = "none" /\ task = NoTask
  BY DEF irq_end, Interrupted, Placed
<1>3. FreeSlot \in SlotType
  BY DEF FreeSlot, SlotType, NULLH, Flags
<1>4. lic' \in LicType /\ lic'.on = lic.on \ {irqs[s].irq : s \in {t \in Slots : irqs[t].handler # NULLH}}
  BY <1>1 DEF LicType
<1>5. irqs' \in [Slots -> SlotType] /\ cpu' \in CpuType
  BY <1>1, <1>3 DEF CpuType
<1>6. Placed'
  BY <1>1, <1>2, <1>4, <1>5 DEF Placed, IrqTypeOK, SlotType, LicType, CpuType, Filling
<1>7. TableInv'
  <2>1. ~Filling /\ ~Filling'
    BY <1>1, <1>2 DEF Filling
  <2>. QED
    BY <1>1, <1>2, <2>1 DEF TableInv, SlotsWhole, SourcesOnce, HandlersOnce, AnsweredInv, ServedOnce, FreeSlot, Whole, NULLH
<1>8. OwnInv'
  <2>1. \A j \in lic'.on : ~Has(j) /\ j # task.irq
    BY <1>2, <1>4 DEF Has, NoTask, LicType
  <2>. QED
    BY <1>1, <1>2, <1>4, <2>1 DEF OwnInv, Replaced, Filling
<1>. QED
  BY <1>6, <1>7, <1>8

LEMMA RequestStep ==
  ASSUME IrqInv, irq_request
  PROVE  IrqInv'
<1>. USE IrqAssumption, Facts DEF IrqInv
<1>1. PICK i \in Sources, f \in Flags, s \in Slots :
        /\ Stops(s, i) /\ Usable(s, i)
        /\ task' = [op |-> f, irq |-> i, slot |-> s, step |-> "irq"]
        /\ past' = [past EXCEPT !.lapses =
                      IF irqs[s].irq # i /\ Has(i) THEN @ \cup {"twice"} ELSE @]
  BY DEF irq_request
<1>2. task.step = "none" /\ isr.irq = 0 /\ isr.said = "none" /\ task = NoTask /\ Requested < MaxRequests
  BY DEF irq_request, Interrupted, Placed
<1>3. UNCHANGED <<irqs, isr>> /\ cpu' = [cpu EXCEPT !.ready = TRUE]
  BY DEF irq_request
<1>4. lic' \in LicType /\ lic'.on \subseteq lic.on
  BY DEF irq_request, LicType
<1>5. /\ past'.flags = past.flags /\ past'.served = past.served /\ Requested' = Requested
      /\ past' \in [flags : [1..Requested -> Flags], served : [1..Requested -> 0..2],
                    lapses : SUBSET {"twice", "torn"}]
      /\ past.lapses \subseteq past'.lapses
      /\ irqs[s].irq # i /\ Has(i) => "twice" \in past'.lapses
  BY <1>1 DEF Requested
<1>6. Placed'
  <2>1. task' \in TaskType /\ cpu' \in CpuType
    BY <1>1, <1>3 DEF TaskType, CpuType
  <2>2. \A t \in Sources : 0 # t
    OBVIOUS
  <2>3. isr'.irq \notin lic'.on
    BY <1>2, <1>3, <1>4, <2>2 DEF LicType
  <2>. QED
    BY <1>1, <1>2, <1>3, <1>4, <1>5, <2>1, <2>3 DEF Placed, IrqTypeOK, LicType, CpuType, TaskType, Filling
<1>7. ~Filling /\ Filling' /\ (Replaced' <=> Replaced)
  BY <1>1, <1>2, <1>5 DEF Filling, Replaced
\* A slot that is free or whole, and stops the search, holds nothing or the source.
<1>8. past.lapses = {} => irqs[s] = FreeSlot \/ (Whole(s) /\ irqs[s].irq = i /\ irqs[s].flags = "replaceable")
  BY <1>1, <1>7 DEF TableInv, SlotsWhole, Whole, Stops, Usable, NULLH
<1>9. TableInv'
  <2>. SUFFICES ASSUME past.lapses = {}, "twice" \notin past'.lapses PROVE TableInv'
    BY <1>5 DEF TableInv
  <2>1. \A t \in Slots : Whole(t) /\ Whole(t)'
    BY <1>3, <1>5, <1>7 DEF TableInv, SlotsWhole, Whole
  <2>2. \A t \in Slots : irqs[t].irq = i => t = s
    <3>1. CASE irqs[s].irq = i
      BY <3>1 DEF TableInv, SourcesOnce
    <3>2. CASE irqs[s].irq # i
      BY <1>5, <2>1, <3>2 DEF Has, Whole, FreeSlot, NULLH
    <3>. QED
      BY <3>1, <3>2
  <2>3. InHand'
    BY <1>1, <1>3, <1>8, <2>1 DEF InHand
  <2>. QED
    BY <1>1, <1>2, <1>3, <1>5, <2>1, <2>2, <2>3 DEF TableInv, SlotsWhole, SourcesOnce, HandlersOnce, AnsweredInv, ServedOnce
<1>10. OwnInv'
  <2>. SUFFICES ASSUME "twice" \notin past'.lapses, ~Replaced PROVE OwnInv'
    BY <1>7 DEF OwnInv
  <2>1. past.lapses = {}
    BY <1>5
  <2>2. ~Has(i)
    <3>1. Whole(s) /\ irqs[s].flags = "replaceable" => irqs[s] = FreeSlot \/ Replaced
      BY DEF Whole, Replaced, Requested
    <3>2. irqs[s] = FreeSlot
      BY <1>8, <2>1, <3>1 DEF FreeSlot
    <3>. QED
      BY <1>5, <3>2 DEF FreeSlot
  <2>3. i \notin lic.on
    BY <1>2, <2>1, <2>2 DEF OwnInv, NoTask
  <2>4. \A j \in lic.on : Has(j) /\ Has(j)'
    BY <1>2, <1>3, <2>1 DEF OwnInv, NoTask, Has, LicType
  <2>. QED
    BY <1>1, <1>2, <1>3, <1>4, <1>5, <2>1, <2>3, <2>4 DEF OwnInv, Filling, Replaced
<1>. QED
  BY <1>6, <1>9, <1>10

(***************************************************************************)
(* The four writes of a slot.                                              *)
(***************************************************************************)
LEMMA FillIrq ==
  ASSUME IrqInv, FillStep("irq", "handler", [Entry EXCEPT !.irq = task.irq]), UNCHANGED past
  PROVE  IrqInv'
<1>. USE IrqAssumption, Facts DEF IrqInv
<1>1. task.step = "irq" /\ isr.irq = 0 /\ isr.said = "none" /\ Filling
  BY DEF FillStep, Interrupted, Placed, Filling
<1>2. UNCHANGED <<lic, cpu, isr, past>> /\ Requested' = Requested
  BY DEF FillStep, Requested
<1>3. task.slot \in Slots /\ task.irq \in Sources /\ task.op \in Flags
  BY <1>1 DEF Placed
<1>4. /\ task' \in TaskType /\ task'.step = "handler" /\ Filling'
      /\ task'.slot = task.slot /\ task'.irq = task.irq /\ task'.op = task.op
  BY DEF FillStep, TaskType, Filling
<1>5. irqs' = [irqs EXCEPT ![task.slot] = [irqs[task.slot] EXCEPT !.irq = task.irq]]
  BY DEF FillStep, Entry
<1>6. /\ irqs' \in [Slots -> SlotType]
      /\ \A s \in Slots : s # task.slot => irqs'[s] = irqs[s]
      /\ irqs'[task.slot].irq = task.irq
      /\ irqs'[task.slot].handler = irqs[task.slot].handler
      /\ irqs'[task.slot].data = irqs[task.slot].data
      /\ irqs'[task.slot].flags = irqs[task.slot].flags
  BY <1>3, <1>5 DEF SlotType
<1>7. Placed'
  BY <1>1, <1>2, <1>3, <1>4, <1>6 DEF Placed, IrqTypeOK, SlotType, TaskType
<1>8. TableInv'
  <2>. SUFFICES ASSUME past.lapses = {} PROVE TableInv'
    BY <1>2 DEF TableInv
  <2>1. \A s \in Slots : s # task.slot => Whole(s) /\ Whole(s)'
    BY <1>2, <1>6 DEF TableInv, SlotsWhole, Whole
  <2>2. InHand'
    <3>1. irqs[task.slot] = FreeSlot \/ (Whole(task.slot) /\ irqs[task.slot].irq = task.irq /\ irqs[task.slot].flags = "replaceable")
      BY <1>1 DEF TableInv, SlotsWhole, InHand
    <3>2. CASE irqs[task.slot] = FreeSlot
      BY <1>4, <1>6, <3>2 DEF InHand, FreeSlot, NULLH
    <3>3. CASE irqs[task.slot] # FreeSlot
      <4>1. irqs' = irqs
        BY <1>3, <1>5, <3>1, <3>3 DEF SlotType
      <4>2. Whole(task.slot)'
        BY <1>2, <1>4, <3>1, <3>3, <4>1 DEF Whole
      <4>. QED
        BY <1>4, <1>6, <3>1, <3>3, <4>2 DEF InHand
    <3>. QED
      BY <3>2, <3>3
  <2>3. SourcesOnce'
    BY <1>1, <1>3, <1>4, <1>6 DEF TableInv, SourcesOnce
  <2>4. HandlersOnce'
    BY <1>3, <1>6 DEF TableInv, HandlersOnce
  <2>5. ServedOnce' /\ AnsweredInv'
    BY <1>1, <1>2, <1>3, <1>6 DEF TableInv, ServedOnce, AnsweredInv
  <2>. QED
    BY <1>4, <2>1, <2>2, <2>3, <2>4, <2>5 DEF TableInv, SlotsWhole
<1>9. OwnInv'
  <2>. SUFFICES ASSUME "twice" \notin past.lapses, ~Replaced PROVE OwnInv'
    BY <1>2 DEF OwnInv, Replaced
  <2>1. past.lapses = {}
    OBVIOUS
  <2>2. irqs[task.slot] = FreeSlot \/ irqs[task.slot].irq = task.irq
    BY <1>1, <2>1 DEF TableInv, SlotsWhole, InHand
  <2>3. \A j \in lic.on : Has(j) => Has(j)'
    BY <1>3, <1>6, <2>2 DEF Has, LicType, FreeSlot, NULLH
  <2>. QED
    BY <1>1, <1>2, <1>4, <2>1, <2>3 DEF OwnInv
<1>. QED
  BY <1>7, <1>8, <1>9

LEMMA FillHandler ==
  ASSUME IrqInv, FillStep("handler", "data", [Entry EXCEPT !.handler = Requested + 1]),
         past' = [flags |-> [r \in 1..Requested + 1 |->
                                 IF r <= Requested THEN past.flags[r] ELSE task.op],
                  served |-> [r \in 1..Requested + 1 |->
                                 IF r <= Requested THEN past.served[r] ELSE 0],
                  lapses |-> past.lapses]
  PROVE  IrqInv'
<1>. USE IrqAssumption, Facts DEF IrqInv
<1>1. task.step = "handler" /\ isr.irq = 0 /\ isr.said = "none" /\ Filling
  BY DEF FillStep, Interrupted, Placed, Filling
<1>2. UNCHANGED <<lic, cpu, isr>>
  BY DEF FillStep
<1>3. task.slot \in Slots /\ task.irq \in Sources /\ task.op \in Flags /\ Requested < MaxRequests
  BY <1>1 DEF Placed
<1>4. /\ task' \in TaskType /\ task'.step = "data" /\ Filling'
      /\ task'.slot = task.slot /\ task'.irq = task.irq /\ task'.op = task.op
  BY DEF FillStep, TaskType, Filling
<1>5. irqs' = [irqs EXCEPT ![task.slot] = [irqs[task.slot] EXCEPT !.handler = Requested + 1]]
  BY DEF FillStep, Entry
<1>6. /\ irqs' \in [Slots -> SlotType]
      /\ \A s \in Slots : s # task.slot => irqs'[s] = irqs[s]
      /\ irqs'[task.slot].irq = irqs[task.slot].irq
      /\ irqs'[task.slot].handler = Requested + 1
      /\ irqs'[task.slot].data = irqs[task.slot].data
      /\ irqs'[task.slot].flags = irqs[task.slot].flags
  <2>1. Requested + 1 \in 0..MaxRequests
    BY <1>3
  <2>2. \A e \in SlotType, n \in 0..MaxRequests : [e EXCEPT !.handler = n] \in SlotType
    BY ONLY DEF SlotType
  <2>3. irqs[task.slot] \in SlotType
    BY <1>3
  <2>4. [irqs[task.slot] EXCEPT !.handler = Requested + 1] \in SlotType
    BY <2>1, <2>2, <2>3
  <2>5. irqs' \in [Slots -> SlotType]
    BY <1>3, <1>5, <2>4
  <2>6. \A s \in Slots : s # task.slot => irqs'[s] = irqs[s]
    BY <1>3, <1>5
  <2>7. irqs'[task.slot] = [irqs[task.slot] EXCEPT !.handler = Requested + 1]
    BY <1>3, <1>5
  <2>. QED
    BY <2>3, <2>5, <2>6, <2>7 DEF SlotType
<1>7. past'.flags = [r \in 1..Requested + 1 |-> IF r <= Requested THEN past.flags[r] ELSE task.op]
  OBVIOUS
<1>8. past'.served = [r \in 1..Requested + 1 |-> IF r <= Requested THEN past.served[r] ELSE 0]
  OBVIOUS
<1>9. Requested' = Requested + 1
  <2>1. DOMAIN past'.flags = 1..(Requested + 1) /\ Requested + 1 \in Nat
    BY <1>7
  <2>. QED
    BY <2>1, Counted DEF Requested
<1>10. /\ past'.flags \in [1..Requested' -> Flags] /\ past'.served \in [1..Requested' -> 0..2]
       /\ \A r \in 1..Requested : past'.flags[r] = past.flags[r] /\ past'.served[r] = past.served[r]
       /\ past'.flags[Requested + 1] = task.op /\ past'.served[Requested + 1] = 0
       /\ past'.lapses = past.lapses
  <2>1. past'.lapses = past.lapses
    OBVIOUS
  <2>2. past'.flags \in [1..Requested' -> Flags]
    BY <1>3, <1>7, <1>9
  <2>3. past'.served \in [1..Requested' -> 0..2]
    BY <1>8, <1>9
  <2>. QED
    BY <1>7, <1>8, <2>1, <2>2, <2>3
<1>11. past' \in [flags : [1..Requested' -> Flags], served : [1..Requested' -> 0..2],
                  lapses : SUBSET {"twice", "torn"}]
  BY <1>10
<1>12. Placed'
  BY <1>1, <1>2, <1>3, <1>4, <1>6, <1>9, <1>11 DEF Placed, IrqTypeOK, SlotType, TaskType
<1>13. Replaced => Replaced'
  BY <1>9, <1>10, <1>11 DEF Replaced
<1>14. TableInv'
  <2>. SUFFICES ASSUME past.lapses = {} PROVE TableInv'
    BY <1>10 DEF TableInv
  <2>1. \A s \in Slots : s # task.slot => Whole(s) /\ Whole(s)'
    BY <1>6, <1>9, <1>10 DEF TableInv, SlotsWhole, Whole
  <2>2. InHand'
    <3>1. \/ irqs[task.slot].handler = NULLH /\ irqs[task.slot].data = NULLH /\ irqs[task.slot].flags = "none"
          \/ Whole(task.slot) /\ irqs[task.slot].flags = "replaceable"
      BY <1>1 DEF TableInv, SlotsWhole, InHand
    <3>2. irqs[task.slot].irq = task.irq
      BY <1>1 DEF TableInv, SlotsWhole, InHand
    <3>3. irqs[task.slot].data # Requested + 1
      BY <1>3, <3>1 DEF Whole, NULLH, FreeSlot
    <3>4. irqs[task.slot].flags = "none" \/ (irqs[task.slot].flags = "replaceable" /\ Replaced)
      BY <1>3, <3>1 DEF Whole, FreeSlot, Replaced
    <3>. QED
      BY <1>4, <1>6, <1>9, <1>10, <1>13, <3>2, <3>3, <3>4 DEF InHand
  <2>3. SourcesOnce'
    BY <1>3, <1>4, <1>6 DEF TableInv, SourcesOnce
  <2>4. \A s \in Slots : s # task.slot => irqs'[s].handler # Requested + 1
    BY <1>6, <2>1 DEF Whole, FreeSlot, NULLH
  <2>5. HandlersOnce'
    BY <1>3, <1>6, <2>4 DEF TableInv, HandlersOnce
  <2>6. \A r \in 1..Requested : past.flags[r] = "once" /\ past.served[r] # 0 =>
           past.served[r] = 1 /\ \A s \in Slots : irqs[s].handler # r
    BY <1>1 DEF TableInv, ServedOnce
  <2>7. \A r \in 1..Requested' : r \in 1..Requested \/ past'.served[r] = 0
    BY <1>9, <1>10
  <2>8. \A s \in Slots, r \in 1..Requested : irqs'[s].handler = r => irqs[s].handler = r
    <3>1. Requested + 1 \notin 1..Requested
      OBVIOUS
    <3>. QED
      BY <1>3, <1>6, <3>1
  <2>9. ServedOnce' /\ AnsweredInv'
    <3>1. \A r \in 1..Requested' : past'.flags[r] = "once" /\ past'.served[r] # 0 =>
             /\ past'.served[r] = 1
             /\ \A s \in Slots : irqs'[s].handler # r
      <4>1. SUFFICES ASSUME NEW r \in 1..Requested', past'.flags[r] = "once", past'.served[r] # 0
                     PROVE  past'.served[r] = 1 /\ \A s \in Slots : irqs'[s].handler # r
        OBVIOUS
      <4>2. r \in 1..Requested
        BY <2>7, <4>1
      <4>3. past.flags[r] = "once" /\ past.served[r] # 0 /\ past'.served[r] = past.served[r]
        BY <1>10, <4>1, <4>2
      <4>. QED
        BY ONLY <2>6, <2>8, <4>2, <4>3
    <3>. QED
      BY <1>1, <1>2, <3>1 DEF ServedOnce, AnsweredInv
  <2>. QED
    BY <1>4, <2>1, <2>2, <2>3, <2>5, <2>9 DEF TableInv, SlotsWhole
<1>15. OwnInv'
  <2>. SUFFICES ASSUME "twice" \notin past.lapses, ~Replaced PROVE OwnInv'
    BY <1>10, <1>13 DEF OwnInv
  <2>1. past.lapses = {}
    OBVIOUS
  <2>2. \A j \in lic.on : Has(j) => Has(j)'
    BY <1>3, <1>6 DEF Has, NULLH
  <2>. QED
    BY <1>1, <1>2, <1>4, <1>10, <2>1, <2>2 DEF OwnInv
<1>. QED
  BY <1>12, <1>14, <1>15

LEMMA FillData ==
  ASSUME IrqInv, FillStep("data", "flags", [Entry EXCEPT !.data = Requested]), UNCHANGED past
  PROVE  IrqInv'
<1>. USE IrqAssumption, Facts DEF IrqInv
<1>1. task.step = "data" /\ isr.irq = 0 /\ isr.said = "none" /\ Filling
  BY DEF FillStep, Interrupted, Placed, Filling
<1>2. UNCHANGED <<lic, cpu, isr, past>> /\ Requested' = Requested
  BY DEF FillStep, Requested
<1>3. task.slot \in Slots /\ task.irq \in Sources /\ task.op \in Flags /\ Requested > 0
  BY <1>1 DEF Placed
<1>4. /\ task' \in TaskType /\ task'.step = "flags" /\ Filling'
      /\ task'.slot = task.slot /\ task'.irq = task.irq /\ task'.op = task.op
  BY DEF FillStep, TaskType, Filling
<1>5. irqs' = [irqs EXCEPT ![task.slot] = [irqs[task.slot] EXCEPT !.data = Requested]]
  BY DEF FillStep, Entry
<1>6. /\ irqs' \in [Slots -> SlotType]
      /\ \A s \in Slots : s # task.slot => irqs'[s] = irqs[s]
      /\ irqs'[task.slot].irq = irqs[task.slot].irq
      /\ irqs'[task.slot].handler = irqs[task.slot].handler
      /\ irqs'[task.slot].data = Requested
      /\ irqs'[task.slot].flags = irqs[task.slot].flags
  <2>1. irqs[task.slot] \in SlotType
    BY <1>3
  <2>2. [irqs[task.slot] EXCEPT !.data = Requested] \in SlotType
    BY <2>1 DEF SlotType
  <2>3. irqs' \in [Slots -> SlotType]
    BY <1>3, <1>5, <2>2
  <2>4. \A s \in Slots : s # task.slot => irqs'[s] = irqs[s]
    BY <1>3, <1>5
  <2>5. irqs'[task.slot] = [irqs[task.slot] EXCEPT !.data = Requested]
    BY <1>3, <1>5
  <2>. QED
    BY <2>1, <2>3, <2>4, <2>5 DEF SlotType
<1>7. Placed'
  BY <1>1, <1>2, <1>3, <1>4, <1>6 DEF Placed, IrqTypeOK, SlotType, TaskType
<1>8. TableInv'
  <2>. SUFFICES ASSUME past.lapses = {} PROVE TableInv'
    BY <1>2 DEF TableInv
  <2>1. \A s \in Slots : s # task.slot => Whole(s)'
    BY <1>2, <1>6 DEF TableInv, SlotsWhole, Whole
  <2>2. InHand'
    BY <1>1, <1>2, <1>4, <1>6 DEF TableInv, SlotsWhole, InHand, Replaced
  <2>3. SourcesOnce'
    BY <1>3, <1>4, <1>6 DEF TableInv, SourcesOnce
  <2>4. HandlersOnce'
    BY <1>3, <1>6 DEF TableInv, HandlersOnce
  <2>5. ServedOnce' /\ AnsweredInv'
    BY <1>1, <1>2, <1>3, <1>6 DEF TableInv, ServedOnce, AnsweredInv
  <2>. QED
    BY <1>4, <2>1, <2>2, <2>3, <2>4, <2>5 DEF TableInv, SlotsWhole
<1>9. OwnInv'
  <2>1. \A j \in lic.on : Has(j) => Has(j)'
    BY <1>3, <1>6 DEF Has
  <2>. QED
    BY <1>1, <1>2, <1>4, <2>1 DEF OwnInv, Replaced
<1>. QED
  BY <1>7, <1>8, <1>9

LEMMA FillFlags ==
  ASSUME IrqInv, FillStep("flags", "enable", [Entry EXCEPT !.flags = task.op]), UNCHANGED past
  PROVE  IrqInv'
<1>. USE IrqAssumption, Facts DEF IrqInv
<1>1. task.step = "flags" /\ isr.irq = 0 /\ isr.said = "none" /\ Filling
  BY DEF FillStep, Interrupted, Placed, Filling
<1>2. UNCHANGED <<lic, cpu, isr, past>> /\ Requested' = Requested
  BY DEF FillStep, Requested
<1>3. task.slot \in Slots /\ task.irq \in Sources /\ task.op \in Flags /\ Requested > 0
  BY <1>1 DEF Placed
<1>4. /\ task' \in TaskType /\ task'.step = "enable" /\ ~Filling'
      /\ task'.slot = task.slot /\ task'.irq = task.irq /\ task'.op = task.op
  BY DEF FillStep, TaskType, Filling
<1>5. irqs' = [irqs EXCEPT ![task.slot] = [irqs[task.slot] EXCEPT !.flags = task.op]]
  BY DEF FillStep, Entry
<1>6. /\ irqs' \in [Slots -> SlotType]
      /\ \A s \in Slots : s # task.slot => irqs'[s] = irqs[s]
      /\ irqs'[task.slot].irq = irqs[task.slot].irq
      /\ irqs'[task.slot].handler = irqs[task.slot].handler
      /\ irqs'[task.slot].data = irqs[task.slot].data
      /\ irqs'[task.slot].flags = task.op
  BY <1>3, <1>5 DEF SlotType
<1>7. Placed'
  BY <1>1, <1>2, <1>3, <1>4, <1>6 DEF Placed, IrqTypeOK, SlotType, TaskType
<1>8. past.lapses = {} =>
        /\ irqs[task.slot].irq = task.irq /\ irqs[task.slot].handler = Requested
        /\ irqs[task.slot].data = Requested /\ past.flags[Requested] = task.op
  BY <1>1 DEF TableInv, SlotsWhole, InHand
<1>9. TableInv'
  <2>. SUFFICES ASSUME past.lapses = {} PROVE TableInv'
    BY <1>2 DEF TableInv
  <2>1. \A s \in Slots : s # task.slot => Whole(s)'
    BY <1>2, <1>6 DEF TableInv, SlotsWhole, Whole
  <2>2. Whole(task.slot)'
    BY <1>2, <1>3, <1>6, <1>8, <1>4 DEF Whole
  <2>3. SourcesOnce'
    BY <1>3, <1>4, <1>6 DEF TableInv, SourcesOnce
  <2>4. HandlersOnce'
    BY <1>3, <1>6 DEF TableInv, HandlersOnce
  <2>5. ServedOnce' /\ AnsweredInv'
    BY <1>1, <1>2, <1>3, <1>6 DEF TableInv, ServedOnce, AnsweredInv
  <2>. QED
    BY <1>4, <2>1, <2>2, <2>3, <2>4, <2>5 DEF TableInv, SlotsWhole
<1>10. OwnInv'
  <2>. SUFFICES ASSUME "twice" \notin past.lapses, ~Replaced PROVE OwnInv'
    BY <1>2 DEF OwnInv, Replaced
  <2>1. past.lapses = {}
    OBVIOUS
  <2>2. \A j \in lic.on : Has(j) => Has(j)'
    BY <1>3, <1>6 DEF Has
  <2>. QED
    BY <1>1, <1>2, <1>3, <1>4, <1>6, <1>8, <2>1, <2>2 DEF OwnInv, NULLH
<1>. QED
  BY <1>7, <1>9, <1>10

(***************************************************************************)
(* The handler: who is called, and what its answer does to the table.      *)
(***************************************************************************)
LEMMA CallStep ==
  ASSUME IrqInv, CallHandler
  PROVE  IrqInv'
<1>. USE IrqAssumption, Facts DEF IrqInv
<1>. DEFINE e == irqs[isr.slot]
            torn == e.handler = NULLH \/ e.data # e.handler \/ e.flags # past.flags[e.handler]
<1>1. isr.irq # 0 /\ isr.slot \in Slots /\ isr.said = "none" /\ e.irq = isr.irq /\ isr.irq \in Sources
  BY DEF CallHandler, Looking, Interrupted, Placed, IsrType, Slots
<1>2. UNCHANGED <<irqs, lic, cpu, task>>
  BY DEF CallHandler
<1>3. PICK said \in {"handled", "none"} :
        /\ past' = [past EXCEPT !.lapses = IF torn THEN @ \cup {"torn"} ELSE @,
                                !.served = [r \in DOMAIN @ |->
                                    IF r = e.handler /\ said = "handled" /\ e.flags = "once" /\ @[r] < 2
                                    THEN @[r] + 1 ELSE @[r]]]
        /\ isr' = [isr EXCEPT !.said = said, !.slot = IF said = "handled" THEN @ ELSE @ + 1]
  BY DEF CallHandler
<1>4. /\ past'.flags = past.flags /\ Requested' = Requested
      /\ past'.lapses = IF torn THEN past.lapses \cup {"torn"} ELSE past.lapses
      /\ past'.served = [r \in 1..Requested |->
                           IF r = e.handler /\ said = "handled" /\ e.flags = "once" /\ past.served[r] < 2
                           THEN past.served[r] + 1 ELSE past.served[r]]
  BY <1>3 DEF Requested
<1>5. past' \in [flags : [1..Requested -> Flags], served : [1..Requested -> 0..2],
                 lapses : SUBSET {"twice", "torn"}]
  <2>1. \A r \in 1..Requested : past.served[r] < 2 => past.served[r] + 1 \in 0..2
    OBVIOUS
  <2>2. past'.served \in [1..Requested -> 0..2]
    BY <1>4, <2>1
  <2>3. past'.lapses \in SUBSET {"twice", "torn"}
    BY <1>4
  <2>4. past' = [flags |-> past.flags, served |-> past'.served, lapses |-> past'.lapses]
    BY <1>3
  <2>. QED
    BY <2>2, <2>3, <2>4
<1>6. /\ isr' \in IsrType /\ isr'.irq = isr.irq /\ isr'.said = said
      /\ isr'.slot > 0 /\ (said = "handled" => isr'.slot = isr.slot)
  <2>1. isr' = [irq |-> isr.irq, slot |-> IF said = "handled" THEN isr.slot ELSE isr.slot + 1, said |-> said]
    BY <1>3 DEF IsrType
  <2>2. isr.slot + 1 \in 0..SlotCount + 1 /\ isr.slot > 0 /\ isr.slot + 1 > 0
    BY <1>1 DEF Slots
  <2>. QED
    BY <1>1, <2>1, <2>2 DEF IsrType
<1>. HIDE DEF torn
<1>7. Placed'
  BY <1>1, <1>2, <1>4, <1>5, <1>6 DEF Placed, IrqTypeOK, IsrType, Filling, Interrupted
<1>8. Whole(isr.slot) => ~torn
  BY <1>1 DEF Whole, FreeSlot, torn, NULLH
<1>9. TableInv'
  <2>. SUFFICES ASSUME past.lapses = {}, ~torn PROVE TableInv'
    BY <1>4, <1>5 DEF TableInv
  <2>. USE DEF TableInv
  <2>1. e.handler # NULLH /\ e.data = e.handler /\ e.flags = past.flags[e.handler]
    BY DEF torn
  <2>2. e.handler \in 1..Requested
    BY <1>1, <2>1 DEF SlotsWhole, InHand, Whole, FreeSlot, Filling, NULLH, Placed
  <2>3. \A s \in Slots : irqs[s].handler = e.handler => s = isr.slot
    BY <1>1, <2>1 DEF HandlersOnce
  <2>4. \A r \in 1..Requested : past.flags[r] = "once" /\ past.served[r] # 0 =>
           past.served[r] = 1 /\ \A s \in Slots : irqs[s].handler # r
    BY <1>1 DEF ServedOnce
  <2>5. \A r \in 1..Requested :
          \/ past'.served[r] = past.served[r]
          \/ r = e.handler /\ said = "handled" /\ past'.served[r] = past.served[r] + 1
    BY <1>4
  <2>6. SlotsWhole'
    <3>1. \A s \in Slots : Whole(s)' <=> Whole(s)
      BY <1>2, <1>4 DEF Whole
    <3>3. Filling /\ task.step = "data" => e.handler # Requested
      BY <2>1, <2>3 DEF SlotsWhole, InHand, Placed
    <3>. QED
      BY <1>2, <1>4, <2>2, <2>5, <3>1, <3>3 DEF SlotsWhole, InHand, Filling, Replaced, Placed
  <2>7. SourcesOnce' /\ HandlersOnce'
    BY <1>2 DEF SourcesOnce, HandlersOnce
  <2>8. AnsweredInv'
    BY <1>1, <1>2, <1>4, <1>6, <2>1, <2>2 DEF AnsweredInv
  <2>9. ServedOnce'
    <3>1. SUFFICES ASSUME NEW r \in 1..Requested, past.flags[r] = "once", past'.served[r] # 0
                   PROVE  /\ past'.served[r] = 1
                          /\ \A s \in Slots : irqs[s].handler = r => said = "handled" /\ isr.slot = s
      BY <1>2, <1>4, <1>6 DEF ServedOnce
    <3>2. CASE past'.served[r] = past.served[r]
      BY <2>4, <3>1, <3>2
    <3>3. CASE r = e.handler /\ said = "handled" /\ past'.served[r] = past.served[r] + 1
      <4>1. past.served[r] = 0
        BY <1>1, <2>4, <3>1, <3>3
      <4>2. past'.served[r] = 1
        BY ONLY <3>3, <4>1
      <4>. QED
        BY <2>3, <3>3, <4>2
    <3>. QED
      BY <2>5, <3>2, <3>3
  <2>. QED
    BY <2>6, <2>7, <2>8, <2>9
<1>10. OwnInv'
  <2>. SUFFICES ASSUME "twice" \notin past'.lapses, ~Replaced PROVE OwnInv'
    BY <1>4 DEF OwnInv, Replaced
  <2>1. past.lapses = {}
    BY <1>4
  <2>2. Filling => task.irq # isr.irq
    BY <2>1 DEF OwnInv
  <2>3. Whole(isr.slot)
    BY <1>1, <2>1, <2>2 DEF TableInv, SlotsWhole, InHand, FreeSlot
  <2>4. past'.lapses = {}
    BY <1>4, <1>8, <2>1, <2>3
  <2>. QED
    BY <1>2, <1>6, <2>1, <2>4 DEF OwnInv, Filling, Has
<1>. QED
  BY <1>7, <1>9, <1>10

LEMMA HandledStep ==
  ASSUME IrqInv, Handled
  PROVE  IrqInv'
<1>. USE IrqAssumption, Facts DEF IrqInv
<1>1. isr.irq # 0 /\ isr.slot \in Slots /\ isr.said = "handled" /\ isr.irq \in Sources
  BY DEF Handled, Interrupted, Placed, IsrType
<1>2. isr' = NoIsr /\ UNCHANGED <<cpu, task, past>> /\ Requested' = Requested
  BY DEF Handled, Requested
<1>3. \/ /\ irqs[isr.slot].flags = "once" /\ UNCHANGED lic
         /\ irqs' = [s \in Slots |-> IF irqs[s].irq = isr.irq /\ irqs[s].handler # NULLH THEN FreeSlot
                                     ELSE irqs[s]]
      \/ irqs[isr.slot].flags # "once" /\ lic' = On(isr.irq) /\ UNCHANGED irqs
  BY DEF Handled, FreeMatching
<1>4. /\ lic' \in LicType
      /\ lic'.on = lic.on \/ (irqs[isr.slot].flags # "once" /\ lic'.on = lic.on \cup {isr.irq})
  BY <1>1, <1>3 DEF LicType, On
<1>5. FreeSlot \in SlotType /\ FreeSlot.irq = 0 /\ FreeSlot.handler = NULLH
  BY DEF FreeSlot, SlotType, NULLH, Flags
<1>6. /\ irqs' \in [Slots -> SlotType]
      /\ \A s \in Slots :
           \/ irqs'[s] = irqs[s]
           \/ /\ irqs'[s] = FreeSlot /\ irqs[isr.slot].flags = "once"
              /\ irqs[s].irq = isr.irq /\ irqs[s].handler # NULLH
  BY <1>3, <1>5
<1>7. isr'.irq = 0 /\ isr'.said = "none" /\ isr' \in IsrType /\ 0 \notin lic'.on
  BY <1>2, <1>4 DEF NoIsr, IsrType, LicType
<1>8. Placed'
  BY <1>1, <1>2, <1>4, <1>6, <1>7 DEF Placed, IrqTypeOK, SlotType, LicType, IsrType, Filling, Interrupted
<1>9. TableInv'
  <2>. SUFFICES ASSUME past.lapses = {} PROVE TableInv'
    BY <1>2 DEF TableInv
  <2>. USE DEF TableInv
  <2>1. irqs[isr.slot].irq = isr.irq /\ irqs[isr.slot].handler # NULLH
    BY <1>1 DEF AnsweredInv, NULLH
  <2>2. \A s \in Slots : Whole(s) => Whole(s)'
    BY <1>2, <1>6 DEF Whole
  \* A slot being written is not one a one-off handler leaves.
  <2>3. Filling /\ task.step # "irq" => irqs'[task.slot] = irqs[task.slot]
    <3>1. SUFFICES ASSUME Filling, task.step # "irq", irqs'[task.slot] # irqs[task.slot]
                   PROVE  FALSE
      OBVIOUS
    <3>2. task.slot \in Slots
      BY <3>1 DEF Placed
    <3>3. irqs[task.slot].irq = isr.irq /\ irqs[isr.slot].flags = "once" /\ irqs[task.slot].handler # NULLH
      BY <1>6, <3>1, <3>2
    <3>4. task.slot = isr.slot
      BY <1>1, <2>1, <3>2, <3>3 DEF SourcesOnce
    <3>. QED
      BY <3>1, <3>3, <3>4 DEF SlotsWhole, InHand, Filling
  <2>4. Filling => InHand'
    <3>1. CASE task.step = "irq"
      <4>1. irqs'[task.slot] = FreeSlot \/ irqs'[task.slot] = irqs[task.slot]
        BY <1>6, <3>1 DEF Placed, Filling
      <4>. QED
        BY <1>2, <2>2, <3>1, <4>1 DEF SlotsWhole, InHand, Filling, Placed
    <3>2. CASE task.step # "irq"
      BY <1>2, <2>2, <2>3, <3>2 DEF SlotsWhole, InHand, Filling, Placed, Replaced
    <3>. QED
      BY <3>1, <3>2
  <2>5. SlotsWhole'
    BY <1>2, <2>2, <2>4 DEF SlotsWhole, Filling
  <2>6. SourcesOnce'
    <3>1. \A s \in Slots : irqs'[s].irq # 0 => irqs'[s].irq = irqs[s].irq
      BY <1>5, <1>6
    <3>2. task.step = "irq" => task.irq # 0
      BY DEF Placed, Filling
    <3>. QED
      BY <1>2, <3>1, <3>2 DEF SourcesOnce
  <2>7. \A s \in Slots : irqs'[s].handler # NULLH => irqs'[s].handler = irqs[s].handler
    BY <1>5, <1>6
  <2>8. HandlersOnce'
    BY <2>7 DEF HandlersOnce
  <2>9. ServedOnce'
    <3>1. SUFFICES ASSUME NEW r \in 1..Requested, past.flags[r] = "once", past.served[r] # 0,
                          NEW s \in Slots, irqs'[s].handler = r
                   PROVE  FALSE
      BY <1>2, <1>7 DEF ServedOnce
    <3>2. irqs[s].handler = r /\ irqs'[s] = irqs[s]
      BY <1>5, <1>6, <3>1 DEF NULLH
    <3>3. s = isr.slot
      BY <3>1, <3>2 DEF ServedOnce
    <3>4. irqs[isr.slot].flags = "once"
      BY <1>1, <3>1, <3>2, <3>3 DEF AnsweredInv
    <3>5. irqs'[isr.slot] = FreeSlot
      BY <1>1, <1>3, <2>1, <3>4
    <3>. QED
      BY <1>5, <3>1, <3>3, <3>5 DEF NULLH
  <2>10. AnsweredInv'
    BY <1>7 DEF AnsweredInv
  <2>. QED
    BY <2>5, <2>6, <2>8, <2>9, <2>10
<1>10. OwnInv'
  <2>. SUFFICES ASSUME "twice" \notin past.lapses, ~Replaced PROVE OwnInv'
    BY <1>2 DEF OwnInv, Replaced
  <2>1. past.lapses = {}
    OBVIOUS
  <2>2. Has(isr.irq) /\ (Filling \/ task.step = "enable" => task.irq # isr.irq)
    BY <1>1, <2>1 DEF TableInv, AnsweredInv, Has, NULLH, OwnInv
  <2>3. \A j \in lic.on : j # isr.irq
    BY DEF Placed
  <2>4. \A j \in Sources : j # isr.irq /\ Has(j) => Has(j)'
    BY <1>6 DEF Has
  <2>5. lic'.on = lic.on \/ (UNCHANGED irqs /\ lic'.on = lic.on \cup {isr.irq})
    BY <1>3, <1>4
  <2>6. \A j \in lic'.on : Has(j)' \/ task.irq = j
    <3>1. SUFFICES ASSUME NEW j \in lic'.on, ~(task.irq = j) PROVE Has(j)'
      OBVIOUS
    <3>2. CASE j \in lic.on
      <4>1. j # isr.irq /\ Has(j) /\ j \in Sources
        BY <2>1, <2>3, <3>1, <3>2 DEF OwnInv, LicType
      <4>. QED
        BY <2>4, <4>1
    <3>3. CASE j \notin lic.on
      <4>1. j = isr.irq /\ UNCHANGED irqs
        BY <2>5, <3>3
      <4>. QED
        BY <2>2, <4>1 DEF Has
    <3>. QED
      BY <3>2, <3>3
  <2>7. Filling \/ task.step = "enable" => task.irq \notin lic'.on
    BY <2>1, <2>2, <2>5 DEF OwnInv
  <2>8. task.step = "enable" => irqs'[task.slot].irq = task.irq /\ irqs'[task.slot].handler # NULLH
    BY <1>6, <2>1, <2>2 DEF OwnInv, Placed
  <2>9. Filling \/ task.step = "enable" => task.irq # 0
    BY DEF Placed
  <2>. QED
    BY <1>2, <1>7, <2>1, <2>6, <2>7, <2>8, <2>9 DEF OwnInv, Filling
<1>. QED
  BY <1>8, <1>9, <1>10

(***************************************************************************)
(* The theorems.                                                           *)
(***************************************************************************)
\* The interrupt table, whatever is interrupted and in whatever order requests come
\* (irq.c): the invariant that every step keeps.
THEOREM InterruptTable == IrqSpec => []IrqInv
<1>1. IrqInit => IrqInv
  BY InitInv
<1>2. IrqInv /\ [IrqNext]_irqVars => IrqInv'
  <2>. SUFFICES ASSUME IrqInv, [IrqNext]_irqVars PROVE IrqInv'
    OBVIOUS
  <2>1. CASE IrqCalls
    BY <2>1, RequestStep, FreeStep, EndStep, QuietStep DEF IrqCalls, QuietAction
  <2>2. CASE Task
    BY <2>2, FillIrq, FillHandler, FillData, FillFlags, QuietStep DEF Task, FillSlot, QuietAction
  <2>3. CASE Isr
    BY <2>3, CallStep, HandledStep, QuietStep DEF Isr, QuietAction
  <2>4. CASE Raise
    BY <2>4, QuietStep DEF QuietAction
  <2>5. CASE UNCHANGED irqVars
    BY <2>5 DEF irqVars, IrqInv, Placed, TableInv, OwnInv, SlotsWhole, SourcesOnce, HandlersOnce, AnsweredInv, ServedOnce, IrqTypeOK, Requested, Filling, Interrupted, InHand, Whole, Replaced, Has
  <2>. QED
    BY <2>1, <2>2, <2>3, <2>4, <2>5 DEF IrqNext
<1>. QED
  BY <1>1, <1>2, PTL DEF IrqSpec

\* A handler is called whole, whatever the interrupt interrupts, but for a replaced one and
\* for a source registered twice; a one-off handler serves one interrupt (irq.c:162-229).
THEOREM HandlersAreWhole == IrqSpec => []HandlersWhole
<1>1. IrqInv => HandlersWhole
  <2>. SUFFICES ASSUME IrqInv PROVE HandlersWhole
    OBVIOUS
  <2>. USE Facts DEF IrqInv
  <2>1. "torn" \in past.lapses => "twice" \in past.lapses \/ Replaced
    OBVIOUS
  <2>2. DOMAIN past.flags = 1..Requested
    OBVIOUS
  <2>3. past.lapses = {} => \A r \in 1..Requested : past.flags[r] = "once" => past.served[r] <= 1
    BY DEF TableInv, ServedOnce
  <2>. QED
    BY <2>1, <2>2, <2>3 DEF HandlersWhole, TableInv, SourcesOnce
<1>. QED
  BY <1>1, InterruptTable, PTL

\* A source is on only for a handler, a wait or a call about to end (irq.c:106, 227, 276).
THEOREM SourcesAreOwned == IrqSpec => []SourcesOwned
<1>1. IrqInv => SourcesOwned
  BY DEF IrqInv, OwnInv, SourcesOwned
<1>. QED
  BY <1>1, InterruptTable, PTL

-----------------------------------------------------------------------------
LEMMA BusStart == BusInit => BusInv
  BY BusAssumption DEF BusInit, NoXfer, Still, Quiet, BusInv, XferInv, CtrlInv, FifoInv, UartInv, ReceivesWhatCame, Step, Singles, Packets

LEMMA StartKeeps ==
  ASSUME BusInv, StartCall
  PROVE  BusInv'
<1>1. PICK c \in DOMAIN Calls, n \in Sizes :
          xfer' = [NoXfer EXCEPT !.call = Calls[c].call, !.then = Calls[c].then,
                                 !.size = n, !.left = n, !.step = "setup"]
  BY DEF StartCall
<1>2. /\ Calls[c].call \in Singles \cup Packets
      /\ Calls[c].then \in {"none", "_i2c_recv_single"}
      /\ Calls[c].call \in Packets => Calls[c].then = "none"
  BY DEF Calls, Singles, Packets
<1>3. xfer' = [call |-> Calls[c].call, size |-> n, left |-> n, late |-> FALSE,
               step |-> "setup", then |-> Calls[c].then, res |-> 0]
  BY <1>1 DEF NoXfer
<1>4. n \in Nat /\ line' = 0 /\ uart' = uart /\ Step("none")
  BY BusAssumption DEF StartCall
<1>5. ctrl' = [busy |-> ctrl.busy, old |-> FALSE, nak |-> ctrl.nak, packet |-> ctrl.packet, ie |-> ctrl.ie, tx |-> ctrl.tx, rx |-> ctrl.rx]
  BY DEF StartCall, BusInv, CtrlInv
<1>6. XferInv'
  BY <1>2, <1>3, <1>4 DEF XferInv, Step, Singles, Packets
<1>7. CtrlInv'
  BY <1>4, <1>5, BusAssumption DEF BusInv, CtrlInv, Step
<1>8. FifoInv'
  BY <1>2, <1>3, <1>4, <1>5 DEF FifoInv, Step, Singles, Packets
<1>9. UartInv'
  BY <1>4 DEF BusInv, UartInv, ReceivesWhatCame
<1>. QED
  BY <1>6, <1>7, <1>8, <1>9 DEF BusInv

\* A call that is refused has touched nothing.
LEMMA RefusedKeeps ==
  ASSUME BusInv, _i2c_refused
  PROVE  BusInv'
<1>1. xfer' = [call |-> xfer.call, size |-> xfer.size, left |-> xfer.left, late |-> xfer.late, step |-> "done", then |-> xfer.then, res |-> 0]
  BY DEF _i2c_refused, Finish, BusInv, XferInv
<1>2. /\ Step("setup") /\ ctrl' = ctrl /\ line' = line /\ uart' = uart
      /\ xfer.call \in Packets => xfer.size > 32
  BY DEF _i2c_refused, TooMuch, Packets
<1>3. XferInv' /\ CtrlInv' /\ UartInv'
  BY <1>1, <1>2 DEF BusInv, XferInv, CtrlInv, UartInv, ReceivesWhatCame, Step, Singles, Packets
<1>4. FifoInv'
  BY <1>1, <1>2 DEF BusInv, XferInv, FifoInv, Step, Singles, Packets
<1>. QED
  BY <1>3, <1>4 DEF BusInv

LEMMA SingleKeeps ==
  ASSUME BusInv, _i2c_single_setup \/ _i2c_single_wait
  PROVE  BusInv'
<1>1. CASE _i2c_single_setup
  <2>1. /\ xfer' = [call |-> xfer.call, size |-> xfer.size, left |-> xfer.left, late |-> FALSE, step |-> "busy", then |-> xfer.then, res |-> xfer.res]
        /\ ctrl' = [busy |-> TRUE, old |-> ctrl.old \/ ctrl.busy, nak |-> FALSE, packet |-> ctrl.packet, ie |-> ctrl.ie, tx |-> ctrl.tx, rx |-> ctrl.rx]
        /\ line' = line /\ uart' = uart
    BY <1>1 DEF _i2c_single_setup, BusInv, XferInv, CtrlInv
  <2>2. Step("setup") /\ xfer.call \in Singles
    BY <1>1 DEF _i2c_single_setup
  <2>. QED
    BY <2>1, <2>2 DEF BusInv, XferInv, CtrlInv, FifoInv, UartInv, ReceivesWhatCame, Step, Singles, Packets
<1>2. CASE _i2c_single_wait
  <2>1. Step("busy") /\ ctrl' = ctrl /\ line' = line /\ uart' = uart
    BY <1>2 DEF _i2c_single_wait
  <2>2. CASE Finish(0)
    <3>1. xfer' = [call |-> xfer.call, size |-> xfer.size, left |-> xfer.left, late |-> xfer.late, step |-> "done", then |-> xfer.then, res |-> 0]
      BY <2>2 DEF Finish, BusInv, XferInv
    <3>. QED
      BY <2>1, <3>1 DEF BusInv, XferInv, CtrlInv, FifoInv, UartInv, ReceivesWhatCame, Step, Singles, Packets
  <2>3. CASE /\ ~ctrl.busy /\ ~ctrl.nak /\ xfer.then # "none"
             /\ xfer' = [xfer EXCEPT !.call = xfer.then, !.then = "none", !.step = "setup"]
    <3>1. xfer' = [call |-> xfer.then, size |-> xfer.size, left |-> xfer.left, late |-> xfer.late, step |-> "setup", then |-> "none", res |-> xfer.res]
      BY <2>3 DEF BusInv, XferInv
    <3>. QED
      BY <2>1, <2>3, <3>1 DEF BusInv, XferInv, CtrlInv, FifoInv, UartInv, ReceivesWhatCame, Step, Singles, Packets
  <2>4. CASE ~ctrl.busy /\ ~ctrl.nak /\ xfer.then = "none" /\ Finish(1)
    <3>1. xfer' = [call |-> xfer.call, size |-> xfer.size, left |-> xfer.left, late |-> xfer.late, step |-> "done", then |-> xfer.then, res |-> 1]
      BY <2>4 DEF Finish, BusInv, XferInv
    <3>. QED
      BY <2>1, <2>4, <3>1 DEF BusInv, XferInv, CtrlInv, FifoInv, UartInv, ReceivesWhatCame, Step, Singles, Packets
  <2>. QED
    BY <1>2, <2>2, <2>3, <2>4 DEF _i2c_single_wait
<1>. QED
  BY <1>1, <1>2

LEMMA PacketKeeps ==
  ASSUME BusInv, _i2c_pkt_setup \/ _i2c_recv_request \/ _i2c_pkt_words_over \/ _i2c_pkt_close \/ Returned
  PROVE  BusInv'
<1>1. CASE _i2c_pkt_setup
  <2>. DEFINE s == IF xfer.call = "_i2c_send_pkt" THEN "words" ELSE "request"
              t == IF xfer.call = "_i2c_send_pkt" THEN 3 ELSE 4
  <2>1. /\ xfer' = [call |-> xfer.call, size |-> xfer.size, left |-> xfer.left, late |-> FALSE, step |-> s, then |-> xfer.then, res |-> xfer.res]
        /\ ctrl' = [busy |-> ctrl.busy, old |-> ctrl.old, nak |-> FALSE, packet |-> TRUE, ie |-> TRUE, tx |-> t, rx |-> 0]
        /\ line' = line /\ uart' = uart
    BY <1>1 DEF _i2c_pkt_setup, BusInv, XferInv, CtrlInv
  <2>2. Step("setup") /\ xfer.call \in Packets /\ t \in 0..Depth
    BY <1>1, BusAssumption DEF _i2c_pkt_setup, BusInv, XferInv, Step
  <2>. QED
    BY <2>1, <2>2, BusAssumption DEF BusInv, XferInv, CtrlInv, FifoInv, UartInv, ReceivesWhatCame, Step, Singles, Packets
<1>2. CASE _i2c_recv_request
  <2>. DEFINE t == IF ctrl.tx + 3 > Depth THEN Depth ELSE ctrl.tx + 3
  <2>1. /\ xfer' = [call |-> xfer.call, size |-> xfer.size, left |-> xfer.left, late |-> FALSE, step |-> "words", then |-> xfer.then, res |-> xfer.res]
        /\ ctrl' = [busy |-> ctrl.busy, old |-> ctrl.old, nak |-> ctrl.nak, packet |-> ctrl.packet, ie |-> ctrl.ie, tx |-> t, rx |-> ctrl.rx]
        /\ line' = line /\ uart' = uart
    BY <1>2 DEF _i2c_recv_request, BusInv, XferInv, CtrlInv
  <2>2. Step("request") /\ t \in 0..Depth
    BY <1>2, BusAssumption DEF _i2c_recv_request, BusInv, CtrlInv
  <2>. QED
    BY <2>1, <2>2 DEF BusInv, XferInv, CtrlInv, FifoInv, UartInv, ReceivesWhatCame, Step, Singles, Packets
<1>3. CASE _i2c_pkt_words_over
  <2>1. /\ xfer' = [call |-> xfer.call, size |-> xfer.size, left |-> xfer.left, late |-> xfer.late, step |-> "close", then |-> xfer.then, res |-> IF xfer.late THEN 1 ELSE 0]
        /\ ctrl' = ctrl /\ line' = line /\ uart' = uart
    BY <1>3 DEF _i2c_pkt_words_over, BusInv, XferInv
  <2>2. Step("words") /\ (xfer.left = 0 \/ xfer.late)
    BY <1>3 DEF _i2c_pkt_words_over
  <2>. QED
    BY <2>1, <2>2 DEF BusInv, XferInv, CtrlInv, FifoInv, UartInv, ReceivesWhatCame, Step, Singles, Packets
<1>4. CASE _i2c_pkt_close
  <2>1. /\ xfer' = [call |-> xfer.call, size |-> xfer.size, left |-> xfer.left, late |-> xfer.late, step |-> "done", then |-> xfer.then, res |-> IF ctrl.nak THEN 1 ELSE xfer.res]
        /\ ctrl' = [busy |-> ctrl.busy, old |-> ctrl.old, nak |-> ctrl.nak, packet |-> FALSE, ie |-> FALSE, tx |-> ctrl.tx, rx |-> ctrl.rx]
        /\ line' = line /\ uart' = uart
    BY <1>4 DEF _i2c_pkt_close, Finish, BusInv, XferInv, CtrlInv
  <2>2. Step("close")
    BY <1>4 DEF _i2c_pkt_close
  <2>. QED
    BY <2>1, <2>2 DEF BusInv, XferInv, CtrlInv, FifoInv, UartInv, ReceivesWhatCame, Step, Singles, Packets
<1>5. CASE Returned
  <2>1. /\ xfer' = NoXfer /\ Step("done")
        /\ ctrl' = ctrl /\ line' = line /\ uart' = uart
    BY <1>5 DEF Returned
  <2>. QED
    BY <2>1 DEF BusInv, XferInv, CtrlInv, FifoInv, UartInv, ReceivesWhatCame, Step, Singles, Packets, NoXfer
<1>. QED
  BY <1>1, <1>2, <1>3, <1>4, <1>5

\* The FIFO of the receiver holds what came over the line and was not taken yet.
LEMMA WordKeeps ==
  ASSUME BusInv, _i2c_pkt_word
  PROVE  BusInv'
<1>1. /\ xfer' = [call |-> xfer.call, size |-> xfer.size, left |-> xfer.left - Word(xfer.left), late |-> xfer.late, step |-> xfer.step, then |-> xfer.then, res |-> xfer.res]
      /\ Step("words") /\ xfer.left > 0 /\ MovedWord /\ line' = line /\ uart' = uart
  BY DEF _i2c_pkt_word, BusInv, XferInv
<1>2. xfer.left - Word(xfer.left) \in Nat /\ xfer.left - Word(xfer.left) <= xfer.size
  BY <1>1 DEF Word, BusInv, XferInv
<1>3. CASE xfer.call = "_i2c_send_pkt"
  <2>1. ctrl' = [busy |-> ctrl.busy, old |-> ctrl.old, nak |-> ctrl.nak, packet |-> ctrl.packet, ie |-> ctrl.ie, tx |-> ctrl.tx + 1, rx |-> ctrl.rx] /\ ctrl.tx + 1 \in 0..Depth
    BY <1>1, <1>3, BusAssumption DEF MovedWord, BusInv, CtrlInv
  <2>. QED
    BY <1>1, <1>2, <1>3, <2>1 DEF BusInv, XferInv, CtrlInv, FifoInv, UartInv, ReceivesWhatCame, Step, Singles, Packets
<1>4. CASE xfer.call = "_i2c_recv_pkt"
  <2>1. ctrl' = [busy |-> ctrl.busy, old |-> ctrl.old, nak |-> ctrl.nak, packet |-> ctrl.packet, ie |-> ctrl.ie, tx |-> ctrl.tx, rx |-> ctrl.rx - 1] /\ ctrl.rx > 0 /\ ctrl.rx - 1 \in 0..Depth
    BY <1>1, <1>4, BusAssumption DEF MovedWord, BusInv, CtrlInv
  <2>2. XferInv' /\ CtrlInv'
    BY <1>1, <1>2, <1>4, <2>1 DEF BusInv, XferInv, CtrlInv, FifoInv, UartInv, ReceivesWhatCame, Step, Singles, Packets
  <2>3. line = IF xfer.left = 0 \/ xfer.left < 4 * ctrl.rx THEN xfer.size
               ELSE xfer.size - xfer.left + 4 * ctrl.rx
    BY <1>1, <1>4 DEF BusInv, FifoInv, Step
  <2>4. line' = IF xfer'.left = 0 \/ xfer'.left < 4 * ctrl'.rx THEN xfer'.size
                ELSE xfer'.size - xfer'.left + 4 * ctrl'.rx
    BY <1>1, <2>1, <2>3, BusAssumption DEF Word, BusInv, XferInv, CtrlInv
  <2>5. FifoInv'
    BY <1>1, <1>4, <2>1, <2>4 DEF BusInv, FifoInv, Step, Singles
  <2>. QED
    BY <1>1, <2>2, <2>5 DEF BusInv, UartInv, ReceivesWhatCame
<1>. QED
  BY <1>1, <1>3, <1>4 DEF BusInv, XferInv, Step, Packets

LEMMA LineKeeps ==
  ASSUME BusInv, EndSingle \/ SendWord \/ GiveWord \/ TimeOut
  PROVE  BusInv'
<1>1. CASE EndSingle
  <2>1. PICK nak \in BOOLEAN :
           /\ ctrl' = [ctrl EXCEPT !.busy = FALSE, !.nak = nak \/ (ctrl.packet /\ @)]
           /\ line' = IF Step("busy") /\ ~ctrl.old /\ ~nak /\ xfer.then = "none"
                      THEN xfer.size ELSE line
    BY <1>1 DEF EndSingle
  <2>. DEFINE n == nak \/ (ctrl.packet /\ ctrl.nak)
  <2>2. /\ ctrl' = [busy |-> FALSE, old |-> ctrl.old, nak |-> n, packet |-> ctrl.packet, ie |-> ctrl.ie, tx |-> ctrl.tx, rx |-> ctrl.rx]
        /\ ctrl.busy /\ xfer' = xfer /\ uart' = uart /\ n \in BOOLEAN
    BY <1>1, <2>1 DEF EndSingle, BusInv, CtrlInv
  <2>3. XferInv' /\ UartInv'
    BY <2>2 DEF BusInv, XferInv, UartInv, ReceivesWhatCame, Step
  <2>4. CtrlInv'
    BY <2>2 DEF BusInv, CtrlInv
  <2>5. /\ line' \in Nat
        /\ Step("busy") /\ xfer.then = "none" /\ ~n /\ ~ctrl.old => line' = xfer.size
        /\ ~Step("busy") => line' = line
        /\ ~(xfer.call \in Singles /\ xfer.res = 1 /\ Step("done"))
        /\ Step("busy") => xfer.call \in Singles
    BY <2>1, <2>2 DEF BusInv, XferInv, CtrlInv, FifoInv
  <2>6. FifoInv'
    <3>. HIDE DEF n
    <3>1. CASE Step("busy")
      BY <2>2, <2>5, <3>1 DEF FifoInv, Step, Singles
    <3>2. CASE ~Step("busy")
      BY <2>2, <2>5, <3>2 DEF BusInv, FifoInv, Step, Singles
    <3>. QED
      BY <3>1, <3>2
  <2>. QED
    BY <2>3, <2>4, <2>6 DEF BusInv
<1>2. CASE SendWord
  <2>1. ctrl.packet /\ ctrl.tx > 0 /\ xfer' = xfer /\ line' = line /\ uart' = uart
    BY <1>2 DEF SendWord
  <2>2. \/ ctrl' = [busy |-> ctrl.busy, old |-> ctrl.old, nak |-> TRUE, packet |-> ctrl.packet, ie |-> ctrl.ie, tx |-> 0, rx |-> ctrl.rx]
        \/ ctrl' = [busy |-> ctrl.busy, old |-> ctrl.old, nak |-> ctrl.nak, packet |-> ctrl.packet, ie |-> ctrl.ie, tx |-> ctrl.tx - 1, rx |-> ctrl.rx]
    BY <1>2 DEF SendWord, BusInv, CtrlInv
  <2>3. ctrl.tx - 1 \in 0..Depth
    BY <2>1, BusAssumption DEF BusInv, CtrlInv
  <2>4. XferInv' /\ UartInv'
    BY <2>1 DEF BusInv, XferInv, UartInv, ReceivesWhatCame, Step
  <2>5. /\ ctrl' \in [busy : BOOLEAN, old : BOOLEAN, nak : BOOLEAN, packet : BOOLEAN, ie : BOOLEAN,
                      tx : 0..Depth, rx : 0..Depth]
        /\ ctrl'.busy = ctrl.busy /\ ctrl'.packet = ctrl.packet /\ ctrl'.ie = ctrl.ie
        /\ ctrl'.rx = ctrl.rx
    <3>1. 0 \in 0..Depth
      BY BusAssumption
    <3>2. CASE ctrl' = [busy |-> ctrl.busy, old |-> ctrl.old, nak |-> TRUE, packet |-> ctrl.packet, ie |-> ctrl.ie,
                        tx |-> 0, rx |-> ctrl.rx]
      BY <3>1, <3>2 DEF BusInv, CtrlInv
    <3>3. CASE ctrl' = [busy |-> ctrl.busy, old |-> ctrl.old, nak |-> ctrl.nak, packet |-> ctrl.packet, ie |-> ctrl.ie,
                        tx |-> ctrl.tx - 1, rx |-> ctrl.rx]
      BY <2>3, <3>3 DEF BusInv, CtrlInv
    <3>. QED
      BY <2>2, <3>2, <3>3
  <2>6. CtrlInv'
    BY <2>1, <2>5 DEF BusInv, CtrlInv
  <2>7. xfer.call \in Packets
    BY <2>1 DEF BusInv, XferInv, CtrlInv, Step
  <2>8. FifoInv'
    BY <2>1, <2>5, <2>7 DEF BusInv, FifoInv, Step, Singles, Packets
  <2>. QED
    BY <2>4, <2>6, <2>8 DEF BusInv
<1>3. CASE GiveWord
  <2>1. /\ ctrl' = [busy |-> ctrl.busy, old |-> ctrl.old, nak |-> ctrl.nak, packet |-> ctrl.packet, ie |-> ctrl.ie, tx |-> ctrl.tx, rx |-> ctrl.rx + 1]
        /\ ctrl.rx < Depth
    BY <1>3 DEF GiveWord, BusInv, CtrlInv
  <2>a. ctrl.rx + 1 \in 0..Depth
    BY <2>1, BusAssumption DEF BusInv, CtrlInv
  <2>2. /\ xfer.call = "_i2c_recv_pkt" /\ Step("words") /\ line < xfer.size
        /\ line' = line + Word(xfer.size - line) /\ xfer' = xfer /\ uart' = uart
    BY <1>3 DEF GiveWord
  <2>3. XferInv' /\ CtrlInv' /\ UartInv'
    BY <2>1, <2>a, <2>2 DEF BusInv, XferInv, CtrlInv, FifoInv, UartInv, ReceivesWhatCame, Step, Singles, Packets
  <2>4. line = IF xfer.left = 0 \/ xfer.left < 4 * ctrl.rx THEN xfer.size
               ELSE xfer.size - xfer.left + 4 * ctrl.rx
    BY <2>2 DEF BusInv, FifoInv, Step
  <2>5. /\ line' \in Nat
        /\ line' = IF xfer'.left = 0 \/ xfer'.left < 4 * ctrl'.rx THEN xfer'.size
                   ELSE xfer'.size - xfer'.left + 4 * ctrl'.rx
    BY <2>1, <2>2, <2>4, BusAssumption DEF Word, BusInv, XferInv, CtrlInv, FifoInv
  <2>6. FifoInv'
    BY <2>1, <2>2, <2>5 DEF FifoInv, Step, Singles
  <2>. QED
    BY <2>3, <2>6 DEF BusInv
<1>4. CASE TimeOut
  <2>1. xfer' = [call |-> xfer.call, size |-> xfer.size, left |-> xfer.left, late |-> TRUE, step |-> xfer.step, then |-> xfer.then, res |-> xfer.res] /\ ctrl' = ctrl /\ line' = line /\ uart' = uart
    BY <1>4 DEF TimeOut, BusInv, XferInv
  <2>. QED
    BY <2>1 DEF BusInv, XferInv, CtrlInv, FifoInv, UartInv, ReceivesWhatCame, Step, Singles, Packets
<1>. QED
  BY <1>1, <1>2, <1>3, <1>4

LEMMA UartKeeps ==
  ASSUME BusInv, uart_recv \/ UartDriver \/ LineByte \/ LinePause
  PROVE  BusInv'
<1>1. xfer' = xfer /\ ctrl' = ctrl /\ line' = line
  BY DEF uart_recv, UartDriver, RecvByte, RecvOver, RecvReturns, LineByte, LinePause
<1>2. UartInv'
  <2>1. /\ uart \in [step : {"none", "wait", "done"}, got : 0..Room + 3, late : BOOLEAN, held : {0, 1},
                      sent : 0..Room + 3]
        /\ uart.sent <= Room => uart.got + uart.held = uart.sent
        /\ Room \in Nat
    BY BusAssumption DEF BusInv, UartInv, ReceivesWhatCame
  <2>2. CASE uart_recv
    <3>1. uart' = [step |-> "wait", got |-> uart.got, late |-> uart.late, held |-> uart.held, sent |-> uart.sent]
      BY <2>1, <2>2 DEF uart_recv
    <3>. QED
      BY <2>1, <3>1 DEF UartInv, ReceivesWhatCame
  <2>3. CASE RecvByte
    <3>1. /\ uart' = [step |-> uart.step, got |-> uart.got + 1, late |-> uart.late, held |-> 0, sent |-> uart.sent]
          /\ uart.held = 1 \/ Room < uart.got
          /\ uart.got < Room + 3
      BY <2>1, <2>3 DEF RecvByte, Overfull
    <3>2. uart.got + 1 \in 0..Room + 3
      BY <2>1, <3>1
    <3>3. uart.sent <= Room => uart.held = 1
      BY <2>1, <3>1
    <3>4. uart.sent <= Room => (uart.got + 1) + 0 = uart.sent
      BY <2>1, <3>3
    <3>. QED
      BY <2>1, <3>1, <3>2, <3>4 DEF UartInv, ReceivesWhatCame
  <2>4. CASE RecvOver
    <3>1. uart' = [step |-> "done", got |-> uart.got, late |-> FALSE, held |-> uart.held, sent |-> uart.sent]
      BY <2>1, <2>4 DEF RecvOver
    <3>. QED
      BY <2>1, <3>1 DEF UartInv, ReceivesWhatCame
  <2>5. CASE RecvReturns
    <3>1. uart' = [step |-> "none", got |-> 0, late |-> uart.late, held |-> uart.held, sent |-> uart.held]
      BY <2>1, <2>5 DEF RecvReturns
    <3>2. 0 \in 0..Room + 3 /\ uart.held \in 0..Room + 3 /\ 0 + uart.held = uart.held
      BY <2>1
    <3>. QED
      BY <2>1, <3>1, <3>2 DEF UartInv, ReceivesWhatCame
  <2>6. CASE LineByte
    <3>1. /\ uart' = [step |-> uart.step, got |-> uart.got, late |-> uart.late, held |-> 1, sent |-> uart.sent + 1]
          /\ uart.held = 0 /\ uart.sent < Room + 3
      BY <2>1, <2>6 DEF LineByte
    <3>2. /\ uart.sent + 1 \in 0..Room + 3
          /\ uart.sent + 1 <= Room => uart.got + 1 = uart.sent + 1
      BY <2>1, <3>1
    <3>. QED
      BY <2>1, <3>1, <3>2 DEF UartInv, ReceivesWhatCame
  <2>7. CASE LinePause
    <3>1. uart' = [step |-> uart.step, got |-> uart.got, late |-> TRUE, held |-> uart.held, sent |-> uart.sent]
      BY <2>1, <2>7 DEF LinePause
    <3>. QED
      BY <2>1, <3>1 DEF UartInv, ReceivesWhatCame
  <2>. QED
    BY <2>2, <2>3, <2>4, <2>5, <2>6, <2>7 DEF UartDriver
<1>. QED
  BY <1>1, <1>2 DEF BusInv, XferInv, CtrlInv, FifoInv, Step

\* Only a single transfer makes the controller busy and only a packet sets its mode, and
\* what the line gave and the driver has not taken is in the FIFO, for every size of the
\* transfers, depth of the FIFO and room of the receiver.
THEOREM BusInvariantHolds == BusSpec => []BusInv
<1>1. BusInv /\ [BusNext]_busVars => BusInv'
  <2>1. ASSUME BusInv, BusNext PROVE BusInv'
    BY <2>1, StartKeeps, RefusedKeeps, SingleKeeps, PacketKeeps, WordKeeps, LineKeeps, UartKeeps DEF BusNext, I2cDriver
  <2>2. ASSUME BusInv, UNCHANGED busVars PROVE BusInv'
    BY <2>2 DEF busVars, BusInv, XferInv, CtrlInv, FifoInv, UartInv, ReceivesWhatCame, Step
  <2>. QED
    BY <2>1, <2>2
<1>. QED
  BY <1>1, BusStart, PTL DEF BusSpec

\* A single transfer that gives 1 was acknowledged and moved its bytes, a received packet
\* that gives 0 brought all of them, and no call leaves the packet mode on.
THEOREM TransfersAreTrue == BusSpec => []TransferTrue
<1>1. BusInv => TransferTrue
  BY DEF TransferTrue, BusInv, XferInv, CtrlInv, FifoInv, Step
<1>. QED
  BY <1>1, BusInvariantHolds, PTL

\* As long as the sender has not sent more than the buffer holds, uart_recv stores what
\* came and nothing else, and leaves what came too late for the next call.
THEOREM ReceiverInRoom == BusSpec => []ReceivesWhatCame
<1>1. BusInv => ReceivesWhatCame
  BY DEF BusInv, UartInv
<1>. QED
  BY <1>1, BusInvariantHolds, PTL
=============================================================================
