------------------------------- MODULE Buses -------------------------------
(***************************************************************************)
(* The transfers of bdk/soc/i2c.c and the receiver of bdk/soc/uart.c,      *)
(* against a controller that is slow, a chip that does not acknowledge and *)
(* a sender that does not stop.  Data are counted, not carried.            *)
(***************************************************************************)
EXTENDS Naturals

CONSTANTS
    Sizes,     \* the sizes callers ask for, in bytes
    Depth,     \* words the FIFO of the controller holds
    Room       \* the size of the buffer uart_recv is given

ASSUME BusAssumption == Sizes \subseteq Nat \ {0} /\ Depth \in Nat /\ Depth >= 5 /\ Room \in Nat \ {0}

VARIABLES
    xfer,   \* the call under way, [call, size, left, late, step, then, res]
    ctrl,   \* the controller: [busy, nak, packet, ie, tx, rx], and old: this call
            \* met a transfer still busy that an earlier one gave up waiting for
    line,   \* the chip: bytes it took or gave in this call
    uart    \* uart_recv: [step, got, late], the bytes in the FIFO, held, and how
            \* many the sender has put there up to now, sent

busVars == <<xfer, ctrl, line, uart>>

NoXfer == [call |-> "none", size |-> 0, left |-> 0, late |-> FALSE, step |-> "none",
           then |-> "none", res |-> 0]
Still == [busy |-> FALSE, old |-> FALSE, nak |-> FALSE, packet |-> FALSE, ie |-> FALSE, tx |-> 0, rx |-> 0]
Word(n) == IF n < 4 THEN n ELSE 4
Singles == {"_i2c_send_single", "_i2c_recv_single"}
Step(s) == xfer.step = s
Goes(s) == xfer' = [xfer EXCEPT !.step = s]
Finish(res) == xfer' = [xfer EXCEPT !.step = "done", !.res = res]
-----------------------------------------------------------------------------
\* i2c_recv_buf_small sends the register and receives; the other calls are one transfer.
Calls ==
    [i2c_recv_buf |-> [call |-> "_i2c_recv_single", then |-> "none"],
     i2c_send_buf_small |-> [call |-> "_i2c_send_single", then |-> "none"],
     i2c_recv_buf_small |-> [call |-> "_i2c_send_single", then |-> "_i2c_recv_single"],
     i2c_send_buf_big |-> [call |-> "_i2c_send_pkt", then |-> "none"],
     i2c_recv_buf_big |-> [call |-> "_i2c_recv_pkt", then |-> "none"]]
\* Nothing waits for a transfer that an earlier call gave up.  i2c_send_buf_small copies
\* behind the register into 4 bytes: it is given 3 at most, or more than it takes.
StartCall ==
    /\ Step("none") /\ uart.step = "none"
    /\ \E c \in DOMAIN Calls, n \in Sizes :
          /\ c = "i2c_send_buf_small" => n \notin 4 .. 7
          /\ xfer' = [NoXfer EXCEPT !.call = Calls[c].call, !.then = Calls[c].then,
                                    !.size = n, !.left = n, !.step = "setup"]
    /\ ctrl' = [ctrl EXCEPT !.old = FALSE] /\ line' = 0
    /\ UNCHANGED uart

\* More than a transfer can move gives 0, which for packets is success.
TooMuch ==
    /\ xfer.then = "none"
    /\ xfer.size > IF xfer.call = "_i2c_send_single" THEN 7
                   ELSE IF xfer.call = "_i2c_recv_single" THEN 8 ELSE 32
_i2c_refused ==
    /\ Step("setup") /\ TooMuch /\ Finish(0)
    /\ UNCHANGED <<ctrl, line, uart>>
_i2c_single_setup ==
    /\ Step("setup") /\ xfer.call \in Singles /\ ~TooMuch
    /\ ctrl' = [ctrl EXCEPT !.busy = TRUE, !.nak = FALSE, !.old = @ \/ ctrl.busy]
    /\ xfer' = [xfer EXCEPT !.step = "busy", !.late = FALSE]
    /\ UNCHANGED <<line, uart>>
_i2c_single_wait_no_ack ==    \* mutant: the acknowledge is not looked at
    /\ Step("busy")
    /\ IF ctrl.busy THEN xfer.late /\ Finish(0)
       ELSE IF xfer.then # "none"
       THEN xfer' = [xfer EXCEPT !.call = xfer.then, !.then = "none", !.step = "setup"]
       ELSE Finish(1)
    /\ UNCHANGED <<ctrl, line, uart>>
_i2c_single_wait ==
    /\ Step("busy")
    /\ IF ctrl.busy THEN xfer.late /\ Finish(0)
       ELSE IF ctrl.nak THEN Finish(0)
       ELSE IF xfer.then # "none"
       THEN xfer' = [xfer EXCEPT !.call = xfer.then, !.then = "none", !.step = "setup"]
       ELSE Finish(1)
    /\ UNCHANGED <<ctrl, line, uart>>

\* Packet mode: headers, then words as the FIFO takes or gives them.
_i2c_pkt_setup ==
    /\ Step("setup") /\ xfer.call \notin Singles /\ ~TooMuch
    /\ ctrl' = [ctrl EXCEPT !.nak = FALSE, !.packet = TRUE, !.ie = TRUE, !.rx = 0,
                            !.tx = IF xfer.call = "_i2c_send_pkt" THEN 3 ELSE 4]
    /\ xfer' = [xfer EXCEPT !.late = FALSE,
                            !.step = IF xfer.call = "_i2c_send_pkt" THEN "words" ELSE "request"]
    /\ UNCHANGED <<line, uart>>
\* The read request follows when the FIFO has room, or after 400 ms without.
_i2c_recv_request ==
    /\ Step("request") /\ (ctrl.tx < Depth \/ xfer.late)
    /\ ctrl' = [ctrl EXCEPT !.tx = IF @ + 3 > Depth THEN Depth ELSE @ + 3]
    /\ xfer' = [xfer EXCEPT !.late = FALSE, !.step = "words"]
    /\ UNCHANGED <<line, uart>>
MovedWord ==
    IF xfer.call = "_i2c_send_pkt"
    THEN ctrl.tx < Depth /\ ctrl' = [ctrl EXCEPT !.tx = @ + 1]
    ELSE ctrl.rx > 0 /\ ctrl' = [ctrl EXCEPT !.rx = @ - 1]
_i2c_pkt_word ==
    /\ Step("words") /\ xfer.left > 0 /\ MovedWord
    /\ xfer' = [xfer EXCEPT !.left = @ - Word(@)]
    /\ UNCHANGED <<line, uart>>
_i2c_pkt_words_over ==
    /\ Step("words") /\ (xfer.left = 0 \/ xfer.late)
    /\ xfer' = [xfer EXCEPT !.step = "close", !.res = IF xfer.late THEN 1 ELSE 0]
    /\ UNCHANGED <<ctrl, line, uart>>
_i2c_pkt_close_early ==    \* mutant: a transfer without acknowledge leaves the mode on
    /\ Step("close")
    /\ ctrl' = IF ctrl.nak THEN ctrl ELSE [ctrl EXCEPT !.packet = FALSE, !.ie = FALSE]
    /\ Finish(IF ctrl.nak THEN 1 ELSE xfer.res)
    /\ UNCHANGED <<line, uart>>
_i2c_pkt_close ==
    /\ Step("close")
    /\ ctrl' = [ctrl EXCEPT !.packet = FALSE, !.ie = FALSE]
    /\ Finish(IF ctrl.nak THEN 1 ELSE xfer.res)
    /\ UNCHANGED <<line, uart>>
Returned ==
    /\ Step("done") /\ xfer' = NoXfer
    /\ UNCHANGED <<ctrl, line, uart>>

\* The controller: a single transfer ends, or a word of a packet goes over the bus.
EndSingle ==
    /\ ctrl.busy
    /\ \E nak \in BOOLEAN :
          /\ ctrl' = [ctrl EXCEPT !.busy = FALSE, !.nak = nak \/ (ctrl.packet /\ @)]
          /\ line' = IF Step("busy") /\ ~ctrl.old /\ ~nak /\ xfer.then = "none"
                     THEN xfer.size ELSE line
    /\ UNCHANGED <<xfer, uart>>
SendWord ==
    /\ ctrl.packet /\ ~ctrl.nak /\ ctrl.tx > 0
    /\ \/ ctrl' = [ctrl EXCEPT !.nak = TRUE, !.tx = 0]
       \/ ctrl' = [ctrl EXCEPT !.tx = @ - 1]
    /\ UNCHANGED <<xfer, line, uart>>
GiveWord ==
    /\ ctrl.packet /\ ~ctrl.nak /\ ctrl.tx = 0 /\ ctrl.rx < Depth
    /\ xfer.call = "_i2c_recv_pkt" /\ Step("words") /\ line < xfer.size
    /\ ctrl' = [ctrl EXCEPT !.rx = @ + 1]
    /\ line' = line + Word(xfer.size - line)
    /\ UNCHANGED <<xfer, uart>>
TimeOut ==
    /\ xfer.step \in {"busy", "request", "words"} /\ ~xfer.late
    /\ xfer' = [xfer EXCEPT !.late = TRUE]
    /\ UNCHANGED <<ctrl, line, uart>>
-----------------------------------------------------------------------------
\* uart_recv: every byte moves the deadline, and one that comes when it has passed
\* stays in the FIFO for the next call.  With more than Room bytes it stops waiting for
\* bytes and stores what the register holds.
Quiet == [step |-> "none", got |-> 0, late |-> FALSE, held |-> 0, sent |-> 0]
uart_recv ==
    /\ uart.step = "none" /\ Step("none")
    /\ uart' = [uart EXCEPT !.step = "wait"]
    /\ UNCHANGED <<xfer, ctrl, line>>
OverfullEarly == Room <= uart.got    \* mutant: it stops waiting one byte early
Overfull == Room < uart.got
RecvByte ==
    /\ uart.step = "wait" /\ ~uart.late
    /\ uart.held = 1 \/ Overfull
    /\ uart.got < Room + 3                       \* the bound of the model
    /\ uart' = [uart EXCEPT !.got = @ + 1, !.held = 0]
    /\ UNCHANGED <<xfer, ctrl, line>>
RecvOver ==
    /\ uart.step = "wait" /\ uart.late
    /\ uart' = [uart EXCEPT !.step = "done", !.late = FALSE]
    /\ UNCHANGED <<xfer, ctrl, line>>
RecvReturns ==
    /\ uart.step = "done" /\ uart' = [uart EXCEPT !.step = "none", !.got = 0, !.sent = uart.held]
    /\ UNCHANGED <<xfer, ctrl, line>>
\* A byte comes, or none does for 250 us.
LineByte ==
    /\ uart.step # "none" /\ uart.held = 0 /\ uart.sent < Room + 3
    /\ uart' = [uart EXCEPT !.held = 1, !.sent = @ + 1]
    /\ UNCHANGED <<xfer, ctrl, line>>
LinePause ==
    /\ uart.step = "wait" /\ uart.held = 0 /\ ~uart.late /\ ~Overfull
    /\ uart' = [uart EXCEPT !.late = TRUE]
    /\ UNCHANGED <<xfer, ctrl, line>>

I2cDriver ==
    \/ _i2c_refused \/ _i2c_single_setup \/ _i2c_single_wait
    \/ _i2c_pkt_setup \/ _i2c_recv_request \/ _i2c_pkt_word \/ _i2c_pkt_words_over \/ _i2c_pkt_close
    \/ Returned
UartDriver == RecvByte \/ RecvOver \/ RecvReturns
BusInit == xfer = NoXfer /\ ctrl = Still /\ line = 0 /\ uart = Quiet
BusNext ==
    \/ StartCall \/ I2cDriver \/ EndSingle \/ SendWord \/ GiveWord \/ TimeOut
    \/ uart_recv \/ UartDriver \/ LineByte \/ LinePause
BusSpec == BusInit /\ [][BusNext]_busVars /\ WF_busVars(I2cDriver) /\ WF_busVars(TimeOut)
-----------------------------------------------------------------------------
BusTypeOK ==
    /\ xfer.call \in Singles \cup {"none", "_i2c_send_pkt", "_i2c_recv_pkt"}
    /\ xfer.left <= xfer.size /\ xfer.res \in {0, 1}
    /\ ctrl \in [busy : BOOLEAN, old : BOOLEAN, nak : BOOLEAN, packet : BOOLEAN, ie : BOOLEAN,
                 tx : 0..Depth, rx : 0..Depth]
    /\ uart.step \in {"none", "wait", "done"} /\ uart.got \in 0..Room + 3

\* What a call says is what happened: a single transfer that gives 1 was
\* acknowledged and moved its bytes, and a received packet that gives 0 brought all of
\* them (one that was sent may still be in the FIFO, and one of more than 32 bytes
\* gives 0 too, i2c.c:204); after every call the packet mode and its interrupts are
\* off.  A call that met an earlier transfer still busy (i2c.c:142) may have taken that
\* one's end for its own.
TransferTrue ==
    Step("done") =>
        /\ xfer.call \in Singles /\ xfer.res = 1 /\ ~ctrl.old => ~ctrl.nak /\ line = xfer.size
        /\ xfer.call = "_i2c_recv_pkt" /\ xfer.res = 0 /\ xfer.size <= 32 => line = xfer.size
        /\ ~ctrl.packet /\ ~ctrl.ie
\* As long as the sender has not sent more than the buffer holds, uart_recv stores
\* the bytes that came and nothing else, so that it stays within the buffer, and a byte
\* it was too late for is there for the next call (uart.c:90-104).
ReceivesWhatCame == uart.sent <= Room => uart.got + uart.held = uart.sent
\* A call on the bus is under way; whatever the chip does, it returns.
Transferring == xfer.step # "none"

\* Why: the controller is not busy when a single transfer has succeeded, and only a
\* packet sets its mode; what the line gave and the driver has not taken is in the FIFO.
Packets == {"_i2c_send_pkt", "_i2c_recv_pkt"}
XferInv ==
    /\ xfer \in [call : Singles \cup Packets \cup {"none"}, size : Nat, left : Nat, late : BOOLEAN,
                 step : {"none", "setup", "busy", "request", "words", "close", "done"},
                 then : {"none", "_i2c_recv_single"}, res : {0, 1}]
    /\ Step("setup") => xfer.call # "none"
    /\ Step("busy") => xfer.call \in Singles
    /\ xfer.step \in {"request", "words", "close"} => xfer.call \in Packets
    /\ xfer.call \in Packets => xfer.then = "none"
    /\ xfer.left <= xfer.size
CtrlInv ==
    /\ ctrl \in [busy : BOOLEAN, old : BOOLEAN, nak : BOOLEAN, packet : BOOLEAN, ie : BOOLEAN,
                 tx : 0..Depth, rx : 0..Depth]
    /\ ctrl.packet \/ ctrl.ie => xfer.step \in {"request", "words", "close"}
FifoInv ==
    /\ line \in Nat
    /\ /\ xfer.call \in Singles /\ xfer.then = "none" /\ Step("busy")
       /\ ~ctrl.busy /\ ~ctrl.nak /\ ~ctrl.old
       => line = xfer.size
    /\ xfer.call \in Singles /\ xfer.res = 1 /\ Step("done") =>
          ~ctrl.busy /\ ~ctrl.nak /\ (ctrl.old \/ line = xfer.size)
    /\ xfer.call = "_i2c_recv_pkt" /\ Step("setup") => line = 0 /\ xfer.left = xfer.size
    /\ xfer.call = "_i2c_recv_pkt" /\ xfer.step \in {"request", "words"} =>
          line = IF xfer.left = 0 \/ xfer.left < 4 * ctrl.rx THEN xfer.size
                 ELSE xfer.size - xfer.left + 4 * ctrl.rx
    /\ xfer.call = "_i2c_recv_pkt" /\ xfer.step \in {"close", "done"} /\ xfer.res = 0 /\ xfer.size <= 32 =>
          line = xfer.size
UartInv ==
    /\ uart \in [step : {"none", "wait", "done"}, got : 0..Room + 3, late : BOOLEAN, held : {0, 1},
                 sent : 0..Room + 3]
    /\ ReceivesWhatCame
BusInv == XferInv /\ CtrlInv /\ FifoInv /\ UartInv
=============================================================================
