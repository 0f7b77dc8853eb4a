------------------------------- MODULE Joycon -------------------------------
(***************************************************************************)
(* bdk/input/joycon.c as main.c uses it: joycon_poll is called again and   *)
(* again, and between any two reads of its pins a controller may come, go, *)
(* answer late or not at all.  What a packet says is one button (A) and    *)
(* what the battery makes of the 5 V supply.                               *)
(***************************************************************************)
EXTENDS Naturals

CONSTANTS
    MaxPlugs,   \* how often a controller is attached or taken off
    MaxLate     \* how many answers miss the poll that asked for them

Sides == {"R", "L"}
Kinds == {"joycon", "hori"}

VARIABLES
    plug,    \* what is attached to each side, or "none"
    finger,  \* a finger is on A of the right side
    fifo,    \* the packet in each side's UART
    jc,      \* jc_l, jc_r and jc_gamepad
    supply,  \* the sides 5 V is switched on for
    spio,    \* the sides whose detect pin is given to the UART
    gone,    \* history: the sides the last jc_conn_check read as detached
    pc,      \* the next step of joycon_poll
    cap      \* what is left of MaxPlugs and MaxLate

joyVars == <<plug, finger, fifo, jc, supply, spio, gone, pc, cap>>
device == <<plug, finger, cap>>
driver == <<fifo, jc, supply, spio, gone, pc>>

Idle == <<"idle", "R">>
Other(s) == IF s = "R" THEN "L" ELSE "R"
\* joycon_poll does each of its steps for the right side, then for the left, but the
\* last the other way around.
After(step, s) ==
    CASE s = "R" /\ step # "check" -> <<step, "L">>
      [] s = "L" /\ step = "init" -> <<"req", "R">>
      [] s = "L" /\ step = "req" -> <<"rcv", "R">>
      [] s = "L" /\ step = "rcv" -> <<"check", "L">>
      [] s = "L" /\ step = "check" -> <<"check", "R">>
      [] OTHER -> Idle
-----------------------------------------------------------------------------
jc_parse_wired_hid(j, s, p) ==
    [j EXCEPT !.held = CASE j.type[s] = "none" -> @
                         [] p = "pressed" -> @ \cup {s}
                         [] OTHER -> @ \ {s},
              !.conn = j.connected,
              !.quiet[s] = 0]
jc_parse_wired_init(j, s, p) == [j EXCEPT !.type[s] = p, !.connected = @ \cup {s}]

\* A report switches the supply of its side on, off or leaves it.
jc_charging_decider(s) == {supply, supply \cup {s}, supply \ {s}}

\* jc_rcv_pkt and jc_uart_pkt_parse: the packet f[s] is read, if it is there yet
\* and the side is attached.
jc_rcv_pkt(s, f) ==
    \/ /\ plug[s] = "none" \/ f[s] = "none"
       /\ fifo' = f
       /\ UNCHANGED <<jc, supply, cap>>
    \/ /\ plug[s] # "none" /\ f[s] # "none" /\ cap.late > 0
       /\ fifo' = f /\ cap' = [cap EXCEPT !.late = @ - 1]
       /\ UNCHANGED <<jc, supply>>
    \/ /\ plug[s] # "none" /\ f[s] # "none"
       /\ fifo' = [f EXCEPT ![s] = "none"]
       /\ CASE f[s] \in {"pressed", "released"} ->
                  jc' = jc_parse_wired_hid(jc, s, f[s]) /\ supply' \in jc_charging_decider(s)
            [] f[s] \in Kinds -> jc' = jc_parse_wired_init(jc, s, f[s]) /\ UNCHANGED supply
            [] OTHER -> jc' = [jc EXCEPT !.quiet[s] = 0] /\ UNCHANGED supply
       /\ UNCHANGED cap

Skip(step, s) == pc = <<step, s>> /\ pc' = After(step, s)
Answer(s, p) == IF plug[s] = "none" THEN fifo ELSE [fifo EXCEPT ![s] = p]
-----------------------------------------------------------------------------
\* jc_init_conn, which a side that has been silent for a second goes through.
jc_init_conn_not(s) ==
    /\ Skip("init", s)
    /\ plug[s] = "none" \/ jc.quiet[s] < 2
    /\ UNCHANGED <<device, fifo, jc, supply, spio, gone>>
jc_init_conn_remembers(s) ==    \* mutant: the buttons of the last report stay
    /\ pc = <<"init", s>> /\ plug[s] # "none" /\ jc.quiet[s] = 2
    /\ pc' = <<"info", s>>
    /\ supply' = supply \cup {s}
    /\ jc' = [jc EXCEPT !.conn = @ \ {s}]
    /\ spio' = spio \cup {s}
    /\ fifo' = [fifo EXCEPT ![s] = "none"]
    /\ UNCHANGED <<device, gone>>
jc_init_conn_new_only(s) ==    \* mutant: a side that is connected is not asked again
    /\ pc = <<"init", s>> /\ plug[s] # "none" /\ jc.quiet[s] = 2 /\ s \notin jc.connected
    /\ pc' = <<"info", s>>
    /\ supply' = supply \cup {s}
    /\ jc' = [jc EXCEPT !.held = @ \ {s}, !.conn = @ \ {s}]
    /\ spio' = spio \cup {s}
    /\ fifo' = [fifo EXCEPT ![s] = "none"]
    /\ UNCHANGED <<device, gone>>
jc_init_conn(s) ==
    /\ pc = <<"init", s>> /\ plug[s] # "none" /\ jc.quiet[s] = 2
    /\ pc' = <<"info", s>>
    /\ supply' = supply \cup {s}
    /\ jc' = [jc EXCEPT !.held = @ \ {s}, !.conn = @ \ {s}]
    /\ spio' = spio \cup {s}
    /\ fifo' = [fifo EXCEPT ![s] = "none"]    \* uart_init; the handshake says nothing more
    /\ UNCHANGED <<device, gone>>
jc_get_info(s) ==
    /\ pc = <<"info", s>> /\ pc' = <<"finalize", s>>
    /\ jc_rcv_pkt(s, Answer(s, plug[s]))
    /\ UNCHANGED <<plug, finger, spio, gone>>
jc_finalize(s) ==
    /\ pc = <<"finalize", s>> /\ pc' = <<"ready", s>>
    /\ IF jc.type[s] = "hori" THEN UNCHANGED <<fifo, jc, supply, cap>>
       ELSE jc_rcv_pkt(s, fifo)
    /\ UNCHANGED <<plug, finger, spio, gone>>
jc_init_done(s) ==
    /\ pc = <<"ready", s>> /\ pc' = After("init", s)
    /\ spio' = spio \ {s}
    /\ jc' = [jc EXCEPT !.quiet[s] = 0]
    /\ supply' = IF s \in jc.connected THEN supply \ {s} ELSE supply
    /\ UNCHANGED <<device, fifo, gone>>
-----------------------------------------------------------------------------
\* jc_req_nx_pad_status
Unrumbled == jc.connected \ jc.rumbled
jc_req_not(s) ==
    /\ Skip("req", s)
    /\ \/ plug[s] = "none"
       \/ /\ s \in jc.asked \/ s \notin jc.connected
          /\ jc.type[s] = "hori" \/ Unrumbled = {}
    /\ UNCHANGED <<device, fifo, jc, supply, spio, gone>>
\* Both sides that have not rumbled do, and only the other side's pin comes back.
jc_send_init_rumble(s) ==
    /\ Skip("req", s) /\ plug[s] # "none"
    /\ jc.type[s] # "hori" /\ Unrumbled # {}
    /\ spio' = {s}
    /\ fifo' = [t \in Sides |-> IF t \in Unrumbled /\ plug[t] # "none" THEN "ack" ELSE fifo[t]]
    /\ jc' = [jc EXCEPT !.rumbled = @ \cup jc.connected]
    /\ UNCHANGED <<device, supply, gone>>
Report(s) == IF s = "R" /\ finger THEN "pressed" ELSE "released"
jc_req_nx_pad_status(s) ==
    /\ Skip("req", s) /\ plug[s] # "none"
    /\ jc.type[s] = "hori" \/ Unrumbled = {}
    /\ s \in jc.connected \ jc.asked
    /\ spio' = spio \ {s}
    /\ fifo' = IF (jc.type[s] = "hori") = (plug[s] = "hori") THEN Answer(s, Report(s)) ELSE fifo
    /\ jc' = [jc EXCEPT !.asked = @ \cup {s}]
    /\ UNCHANGED <<device, supply, gone>>

Receive(s) ==
    /\ Skip("rcv", s) /\ jc_rcv_pkt(s, fifo)
    /\ UNCHANGED <<plug, finger, spio, gone>>

jc_conn_check_left_over(out) ==    \* mutant: what the pad reported is not cleared
    [jc EXCEPT !.connected = @ \ out, !.rumbled = @ \ out]
jc_conn_check_cleared(out) ==
    [jc EXCEPT !.connected = @ \ out, !.rumbled = @ \ out,
               !.conn = @ \ out, !.held = @ \ out]
jc_conn_check(s) ==
    /\ Skip("check", s)
    /\ LET out == {t \in {s} : plug[t] = "none"}
       IN /\ gone' = IF s = "L" THEN out ELSE (gone \ {s}) \cup out
          /\ supply' = supply \ out /\ jc' = jc_conn_check_cleared(out)
    /\ UNCHANGED <<device, fifo, spio>>

Poll ==
    \E s \in Sides :
        \/ jc_init_conn_not(s) \/ jc_init_conn(s) \/ jc_get_info(s) \/ jc_finalize(s)
        \/ jc_init_done(s)
        \/ jc_req_not(s) \/ jc_send_init_rumble(s) \/ jc_req_nx_pad_status(s)
        \/ Receive(s) \/ jc_conn_check(s)
joycon_poll ==
    /\ pc = Idle /\ pc' = <<"init", "R">>
    /\ UNCHANGED <<device, fifo, jc, supply, spio, gone>>
-----------------------------------------------------------------------------
\* Half a second goes by between two polls.
Tick ==
    /\ pc = Idle
    /\ jc' = [jc EXCEPT !.quiet = [s \in Sides |-> IF @[s] = 2 THEN 2 ELSE @[s] + 1],
                        !.asked = {}]
    /\ UNCHANGED <<device, fifo, supply, spio, gone, pc>>

Change(s, k) ==
    /\ (plug[s] = "none") # (k = "none") /\ cap.plugs > 0
    /\ plug' = [plug EXCEPT ![s] = k]
    /\ cap' = [cap EXCEPT !.plugs = @ - 1]
    /\ finger' = (finger /\ plug'["R"] # "none")
    /\ UNCHANGED driver
Press ==
    /\ plug["R"] # "none" /\ finger' = ~finger
    /\ UNCHANGED <<plug, cap, driver>>
Hands == Press \/ \E s \in Sides, k \in Kinds \cup {"none"} : Change(s, k)

\* What jc_init_hw leaves.
JoyInit ==
    /\ plug \in {[R |-> "joycon", L |-> "none"], [R |-> "none", L |-> "hori"],
                 [R |-> "joycon", L |-> "joycon"]}
    /\ finger = FALSE /\ fifo = [s \in Sides |-> "none"]
    /\ jc = [connected |-> {}, rumbled |-> {}, type |-> [s \in Sides |-> "none"],
             quiet |-> [s \in Sides |-> 2], asked |-> {}, conn |-> {}, held |-> {}]
    /\ supply = Sides /\ spio = {} /\ gone = {} /\ pc = Idle
    /\ cap = [plugs |-> MaxPlugs, late |-> MaxLate]
JoyNext == Poll \/ joycon_poll \/ Tick \/ Hands
JoySpec == JoyInit /\ [][JoyNext]_joyVars /\ WF_joyVars(Poll \/ joycon_poll) /\ SF_joyVars(Tick)
-----------------------------------------------------------------------------
JoyTypeOK ==
    /\ plug \in [Sides -> Kinds \cup {"none"}] /\ finger \in BOOLEAN
    /\ fifo \in [Sides -> Kinds \cup {"none", "ack", "pressed", "released"}]
    /\ jc \in [connected : SUBSET Sides, rumbled : SUBSET Sides,
               type : [Sides -> Kinds \cup {"none"}], quiet : [Sides -> 0..2],
               asked : SUBSET Sides, conn : SUBSET Sides, held : SUBSET Sides]
    /\ {supply, spio, gone} \subseteq SUBSET Sides

\* Where gone is about this poll: after the left side's pin was read.
Checked == {<<"check", "R">>, Idle}
\* A side that jc_conn_check saw detached has no power, is not connected and
\* holds no button, whatever was on its way (joycon.c:768-799); the gamepad calls
\* only connected sides so (:406).
PadTrue ==
    /\ jc.conn \subseteq jc.connected
    /\ \A s \in jc.connected : jc.type[s] # "none"
    /\ pc \in Checked => gone \cap (supply \cup jc.connected \cup jc.rumbled \cup jc.conn \cup jc.held) = {}
\* The places of a poll, and what its steps keep.
Places == {"init", "info", "finalize", "ready", "req", "rcv", "check"} \X Sides \cup {Idle}
JoyInv == JoyTypeOK /\ pc \in Places /\ PadTrue

\* A controller that stays on its side is in the end heard of again and again,
\* whatever came late, and its detect pin comes back.
AttachedIsHeard ==
    \A s \in Sides : <>[](plug[s] # "none") => []<>(s \in jc.conn) /\ []<>(s \notin spio)
=============================================================================
