----------------------------- MODULE InputProofs -----------------------------
(***************************************************************************)
(* The input devices.  JoyInv is inductive for the Joy-Cons, PromptInv,    *)
(* FreshInv and QuestionInv for the questions at the buttons, and          *)
(* TouchInv for the start of the touch screen; PadTrue, AnswersAreFresh    *)
(* and OnIsOn follow from them.                                            *)
(***************************************************************************)
EXTENDS Prompts, Touch, TLAPS

JcType == [connected : SUBSET Sides, rumbled : SUBSET Sides,
           type : [Sides -> Kinds \cup {"none"}], quiet : [Sides -> 0..2],
           asked : SUBSET Sides, conn : SUBSET Sides, held : SUBSET Sides]
FifoType == [Sides -> Kinds \cup {"none", "ack", "pressed", "released"}]
\* What a pad keeps but at the end of a poll.
PadKept == jc.conn \subseteq jc.connected /\ \A s \in jc.connected : jc.type[s] # "none"

(***************************************************************************)
(* A packet is received.                                                   *)
(***************************************************************************)
LEMMA Received ==
    ASSUME JoyInv, NEW s \in Sides, NEW f \in FifoType, jc_rcv_pkt(s, f)
    PROVE  /\ fifo' \in FifoType /\ jc' \in JcType /\ supply' \in SUBSET Sides
           /\ PadKept'
           /\ fifo'["R"] = "pressed" => f["R"] = "pressed"
           /\ "R" \in jc'.held => "R" \in jc.held \/ f["R"] = "pressed"
<1>. USE DEF JcType, FifoType, PadKept
<1>1. /\ plug \in [Sides -> Kinds \cup {"none"}] /\ fifo \in FifoType /\ jc \in JcType
      /\ supply \in SUBSET Sides /\ PadKept
  BY DEF JoyInv, JoyTypeOK, PadTrue
<1>2. \/ fifo' = f /\ UNCHANGED <<jc, supply>>
      \/ /\ fifo' = [f EXCEPT ![s] = "none"]
         /\ \/ /\ f[s] \in {"pressed", "released"}
               /\ jc' = jc_parse_wired_hid(jc, s, f[s]) /\ supply' \in jc_charging_decider(s)
            \/ f[s] \in Kinds /\ jc' = jc_parse_wired_init(jc, s, f[s]) /\ UNCHANGED supply
            \/ jc' = [jc EXCEPT !.quiet[s] = 0] /\ UNCHANGED supply
  BY DEF jc_rcv_pkt
<1>3. [f EXCEPT ![s] = "none"] \in FifoType /\ ([f EXCEPT ![s] = "none"]["R"] = "pressed" => f["R"] = "pressed")
  BY DEF Sides
<1>4. CASE fifo' = f /\ UNCHANGED <<jc, supply>>
  BY <1>1, <1>4
<1>5. CASE /\ f[s] \in {"pressed", "released"} /\ fifo' = [f EXCEPT ![s] = "none"]
           /\ jc' = jc_parse_wired_hid(jc, s, f[s]) /\ supply' \in jc_charging_decider(s)
  <2>. DEFINE h == CASE jc.type[s] = "none" -> jc.held
                    [] f[s] = "pressed" -> jc.held \cup {s}
                    [] OTHER -> jc.held \ {s}
  <2>1. /\ h \in SUBSET Sides
        /\ s \in h => s \in jc.held \/ f[s] = "pressed"
        /\ \A t \in Sides : t # s => (t \in h <=> t \in jc.held)
    BY <1>1
  <2>2. jc' = [jc EXCEPT !.held = h, !.conn = jc.connected, !.quiet[s] = 0]
    BY <1>5 DEF jc_parse_wired_hid
  <2>. HIDE DEF h
  <2>3. /\ jc'.held = h /\ jc'.conn = jc.connected /\ jc'.connected = jc.connected
        /\ jc'.type = jc.type /\ jc' \in JcType
    <3>1. jc' = [connected |-> jc.connected, rumbled |-> jc.rumbled, type |-> jc.type,
                 quiet |-> [jc.quiet EXCEPT ![s] = 0], asked |-> jc.asked,
                 conn |-> jc.connected, held |-> h]
      BY <1>1, <2>2
    <3>. QED
      BY <1>1, <2>1, <3>1
  <2>4. supply' \in SUBSET Sides
    BY <1>1, <1>5 DEF jc_charging_decider
  <2>5. "R" \in h => "R" \in jc.held \/ f["R"] = "pressed"
    BY <2>1 DEF Sides
  <2>. QED
    BY <1>1, <1>3, <1>5, <2>3, <2>4, <2>5
<1>6. CASE /\ f[s] \in Kinds /\ fifo' = [f EXCEPT ![s] = "none"]
           /\ jc' = jc_parse_wired_init(jc, s, f[s]) /\ UNCHANGED supply
  <2>1. /\ jc'.held = jc.held /\ jc'.conn = jc.conn /\ jc'.connected = jc.connected \cup {s}
        /\ jc'.type = [jc.type EXCEPT ![s] = f[s]] /\ jc' \in JcType
    BY <1>1, <1>6 DEF jc_parse_wired_init
  <2>. QED
    BY <1>1, <1>3, <1>6, <2>1 DEF Kinds
<1>7. CASE /\ fifo' = [f EXCEPT ![s] = "none"] /\ jc' = [jc EXCEPT !.quiet[s] = 0] /\ UNCHANGED supply
  <2>1. /\ jc'.held = jc.held /\ jc'.conn = jc.conn /\ jc'.connected = jc.connected
        /\ jc'.type = jc.type /\ jc' \in JcType
    BY <1>1, <1>7
  <2>. QED
    BY <1>1, <1>3, <1>7, <2>1
<1>. QED
  BY <1>2, <1>4, <1>5, <1>6, <1>7


(***************************************************************************)
(* The steps of a poll.                                                    *)
(***************************************************************************)
LEMMA Order ==
    ASSUME NEW s \in Sides, NEW step \in {"init", "req", "rcv"}
    PROVE  After(step, s) \in Places /\ After(step, s) \notin Checked /\ After(step, s) # Idle
  BY DEF After, Places, Idle, Sides, Checked

\* What a step has to show.
LEMMA JoyNow ==
    ASSUME plug' \in [Sides -> Kinds \cup {"none"}], finger' \in BOOLEAN, fifo' \in FifoType,
           jc' \in JcType, supply' \in SUBSET Sides, spio' \in SUBSET Sides,
           gone' \in SUBSET Sides, pc' \in Places, PadKept',
           pc' \in Checked => gone' \cap (supply' \cup jc'.connected \cup jc'.rumbled \cup jc'.conn \cup jc'.held) = {}
    PROVE  JoyInv'
  BY DEF JoyInv, JoyTypeOK, PadTrue, PadKept, JcType, FifoType

LEMMA JoyParts ==
    ASSUME JoyInv
    PROVE  /\ plug \in [Sides -> Kinds \cup {"none"}] /\ finger \in BOOLEAN /\ fifo \in FifoType
           /\ jc \in JcType /\ supply \in SUBSET Sides /\ spio \in SUBSET Sides
           /\ gone \in SUBSET Sides /\ pc \in Places /\ PadKept
           /\ pc \in Checked => gone \cap (supply \cup jc.connected \cup jc.rumbled \cup jc.conn \cup jc.held) = {}
  BY DEF JoyInv, JoyTypeOK, PadTrue, PadKept, JcType, FifoType

\* A poll sees a press of A only while a finger is on A or an old press is held;
\* the first step clears both for a controller that was silent, the last for one
\* that is gone.
LEMMA PollKeeps ==
    ASSUME JoyInv, Poll
    PROVE  /\ JoyInv' /\ UNCHANGED <<plug, finger>>
           /\ pc = <<"init", "R">> /\ plug["R"] # "none" /\ jc.quiet["R"] = 2 => ~OldPress'
           /\ OldPress' => OldPress \/ finger
           /\ pc' = Idle /\ plug["R"] = "none" => "R" \notin jc'.held
<1>. DEFINE Goal == /\ JoyInv' /\ UNCHANGED <<plug, finger>>
                    /\ pc = <<"init", "R">> /\ plug["R"] # "none" /\ jc.quiet["R"] = 2 => ~OldPress'
                    /\ OldPress' => OldPress \/ finger
                    /\ pc' = Idle /\ plug["R"] = "none" => "R" \notin jc'.held
<1>. USE JoyParts
<1>1. ASSUME NEW s \in Sides, jc_init_conn_not(s) PROVE Goal
  <2>1. UNCHANGED <<plug, finger, fifo, jc, supply, spio, gone>> /\ pc' = After("init", s)
    BY <1>1 DEF jc_init_conn_not, Skip, device
  <2>2. pc' \in Places /\ pc' \notin Checked /\ pc' # Idle
    BY <2>1, Order
  <2>3. ~(pc = <<"init", "R">> /\ plug["R"] # "none" /\ jc.quiet["R"] = 2)
    BY <1>1 DEF jc_init_conn_not, Skip
  <2>4. JoyInv'
    BY <2>1, <2>2, JoyNow DEF PadKept
  <2>. QED
    BY <2>1, <2>2, <2>3, <2>4 DEF OldPress
<1>2. ASSUME NEW s \in Sides, jc_init_conn(s) PROVE Goal
  <2>1. /\ UNCHANGED <<plug, finger, gone>> /\ pc = <<"init", s>> /\ pc' = <<"info", s>>
        /\ supply' = supply \cup {s} /\ spio' = spio \cup {s}
        /\ fifo' = [fifo EXCEPT ![s] = "none"]
        /\ jc' = [jc EXCEPT !.held = @ \ {s}, !.conn = @ \ {s}]
    BY <1>2 DEF jc_init_conn, device
  <2>2. /\ jc' \in JcType /\ jc'.held = jc.held \ {s} /\ jc'.conn = jc.conn \ {s}
        /\ jc'.connected = jc.connected /\ jc'.type = jc.type
    BY <2>1 DEF JcType
  <2>3. fifo' \in FifoType /\ fifo'[s] = "none" /\ \A t \in Sides : t # s => fifo'[t] = fifo[t]
    BY <2>1 DEF FifoType
  <2>4. pc' \in Places /\ pc' \notin Checked /\ pc' # Idle
    BY <2>1 DEF Places, Idle, Checked
  <2>5. JoyInv'
    BY <2>1, <2>2, <2>3, <2>4, JoyNow DEF PadKept
  <2>6. OldPress' => OldPress /\ s # "R"
    BY <2>2, <2>3 DEF OldPress, Sides
  <2>. QED
    BY <2>1, <2>4, <2>5, <2>6
<1>3. ASSUME NEW s \in Sides, jc_get_info(s) \/ jc_finalize(s) \/ Receive(s) PROVE Goal
  <2>1. UNCHANGED <<plug, finger, spio, gone>>
    BY <1>3 DEF jc_get_info, jc_finalize, Receive
  <2>2. pc # <<"init", "R">> /\ pc' \in Places /\ pc' \notin Checked /\ pc' # Idle
    BY <1>3, Order DEF jc_get_info, jc_finalize, Receive, Skip, Places, Idle, Checked
  <2>3. /\ Answer(s, plug[s]) \in FifoType
        /\ Answer(s, plug[s])["R"] = "pressed" => fifo["R"] = "pressed"
    BY DEF Answer, FifoType, Kinds, Sides
  <2>4. \/ UNCHANGED <<fifo, jc, supply>>
        \/ jc_rcv_pkt(s, fifo) \/ jc_rcv_pkt(s, Answer(s, plug[s]))
    BY <1>3 DEF jc_get_info, jc_finalize, Receive
  <2>5. /\ fifo' \in FifoType /\ jc' \in JcType /\ supply' \in SUBSET Sides /\ PadKept'
        /\ OldPress' => OldPress
    <3>1. CASE UNCHANGED <<fifo, jc, supply>>
      BY <3>1 DEF PadKept, OldPress
    <3>2. CASE jc_rcv_pkt(s, fifo)
      BY <3>2, Received DEF OldPress
    <3>3. CASE jc_rcv_pkt(s, Answer(s, plug[s]))
      BY <2>3, <3>3, Received DEF OldPress
    <3>. QED
      BY <2>4, <3>1, <3>2, <3>3
  <2>6. JoyInv'
    BY <2>1, <2>2, <2>5, JoyNow
  <2>. QED
    BY <2>1, <2>2, <2>5, <2>6
<1>4. ASSUME NEW s \in Sides, jc_init_done(s) PROVE Goal
  <2>1. /\ UNCHANGED <<plug, finger, fifo, gone>> /\ pc = <<"ready", s>> /\ pc' = After("init", s)
        /\ spio' \in SUBSET Sides /\ supply' \in SUBSET Sides
        /\ jc' = [jc EXCEPT !.quiet[s] = 0]
    BY <1>4 DEF jc_init_done, device
  <2>2. /\ jc' \in JcType /\ jc'.held = jc.held /\ jc'.conn = jc.conn
        /\ jc'.connected = jc.connected /\ jc'.type = jc.type
    BY <2>1 DEF JcType
  <2>3. pc' \in Places /\ pc' \notin Checked /\ pc' # Idle
    BY <2>1, Order
  <2>4. JoyInv'
    BY <2>1, <2>2, <2>3, JoyNow DEF PadKept
  <2>. QED
    BY <2>1, <2>2, <2>3, <2>4 DEF OldPress
<1>5. ASSUME NEW s \in Sides, jc_req_not(s) PROVE Goal
  <2>1. /\ UNCHANGED <<plug, finger, fifo, jc, supply, spio, gone>>
        /\ pc = <<"req", s>> /\ pc' = After("req", s)
    BY <1>5 DEF jc_req_not, Skip, device
  <2>2. pc' \in Places /\ pc' \notin Checked /\ pc' # Idle
    BY <2>1, Order
  <2>3. JoyInv'
    BY <2>1, <2>2, JoyNow DEF PadKept
  <2>. QED
    BY <2>1, <2>2, <2>3 DEF OldPress
<1>6. ASSUME NEW s \in Sides, jc_send_init_rumble(s) PROVE Goal
  <2>1. /\ UNCHANGED <<plug, finger, supply, gone>> /\ pc = <<"req", s>> /\ pc' = After("req", s)
        /\ spio' = {s}
        /\ fifo' = [t \in Sides |-> IF t \in Unrumbled /\ plug[t] # "none" THEN "ack" ELSE fifo[t]]
        /\ jc' = [jc EXCEPT !.rumbled = @ \cup jc.connected]
    BY <1>6 DEF jc_send_init_rumble, Skip, device
  <2>2. /\ jc' \in JcType /\ jc'.held = jc.held /\ jc'.conn = jc.conn
        /\ jc'.connected = jc.connected /\ jc'.type = jc.type
    BY <2>1 DEF JcType
  <2>3. fifo' \in FifoType /\ (fifo'["R"] = "pressed" => fifo["R"] = "pressed")
    BY <2>1 DEF FifoType, Sides
  <2>4. pc' \in Places /\ pc' \notin Checked /\ pc' # Idle
    BY <2>1, Order
  <2>5. JoyInv'
    BY <2>1, <2>2, <2>3, <2>4, JoyNow DEF PadKept
  <2>. QED
    BY <2>1, <2>2, <2>3, <2>4, <2>5 DEF OldPress
<1>7. ASSUME NEW s \in Sides, jc_req_nx_pad_status(s) PROVE Goal
  <2>1. /\ UNCHANGED <<plug, finger, supply, gone>> /\ pc = <<"req", s>> /\ pc' = After("req", s)
        /\ spio' = spio \ {s}
        /\ fifo' = fifo \/ fifo' = Answer(s, Report(s))
        /\ jc' = [jc EXCEPT !.asked = @ \cup {s}]
    BY <1>7 DEF jc_req_nx_pad_status, Skip, device
  <2>2. /\ jc' \in JcType /\ jc'.held = jc.held /\ jc'.conn = jc.conn
        /\ jc'.connected = jc.connected /\ jc'.type = jc.type
    BY <2>1 DEF JcType
  <2>3. fifo' \in FifoType /\ (fifo'["R"] = "pressed" => fifo["R"] = "pressed" \/ finger)
    BY <2>1 DEF FifoType, Sides, Answer, Report
  <2>4. pc' \in Places /\ pc' \notin Checked /\ pc' # Idle
    BY <2>1, Order
  <2>5. JoyInv'
    BY <2>1, <2>2, <2>3, <2>4, JoyNow DEF PadKept
  <2>. QED
    BY <2>1, <2>2, <2>3, <2>4, <2>5 DEF OldPress
<1>8. ASSUME NEW s \in Sides, jc_conn_check(s) PROVE Goal
  <2>. DEFINE out == {t \in {s} : plug[t] = "none"}
  <2>1. /\ UNCHANGED <<plug, finger, fifo, spio>> /\ pc = <<"check", s>>
        /\ gone' = (IF s = "L" THEN out ELSE (gone \ {s}) \cup out) /\ supply' = supply \ out
        /\ jc' = [jc EXCEPT !.connected = @ \ out, !.rumbled = @ \ out,
                            !.conn = @ \ out, !.held = @ \ out]
    BY <1>8 DEF jc_conn_check, jc_conn_check_cleared, device, Skip
  <2>2. pc' = (IF s = "L" THEN <<"check", "R">> ELSE Idle) /\ (s = "R" => pc \in Checked)
    BY <1>8 DEF jc_conn_check, Skip, After, Idle, Sides, Checked
  <2>3. out \in SUBSET Sides /\ (plug["R"] = "none" /\ s = "R" => "R" \in out)
    OBVIOUS
  <2>. HIDE DEF out
  <2>4. jc' = [connected |-> jc.connected \ out, rumbled |-> jc.rumbled \ out, type |-> jc.type,
               quiet |-> jc.quiet, asked |-> jc.asked, conn |-> jc.conn \ out,
               held |-> jc.held \ out]
    BY <2>1 DEF JcType
  <2>5. jc' \in JcType
    BY <2>4 DEF JcType
  <2>6. /\ jc'.held = jc.held \ out /\ jc'.conn = jc.conn \ out
        /\ jc'.connected = jc.connected \ out /\ jc'.rumbled = jc.rumbled \ out /\ jc'.type = jc.type
    BY <2>4
  <2>7. gone' \cap (supply' \cup jc'.connected \cup jc'.rumbled \cup jc'.conn \cup jc'.held) = {}
    BY <2>1, <2>2, <2>6 DEF Sides
  <2>8. gone' \in SUBSET Sides /\ pc' \in Places
    BY <2>1, <2>2, <2>3 DEF Places, Sides, Idle
  <2>9. JoyInv'
    BY <2>1, <2>3, <2>5, <2>6, <2>7, <2>8, JoyNow DEF PadKept
  <2>. QED
    BY <2>1, <2>2, <2>3, <2>6, <2>9 DEF OldPress, Idle, Sides
<1>. QED
  BY <1>1, <1>2, <1>3, <1>4, <1>5, <1>6, <1>7, <1>8 DEF Poll


(***************************************************************************)
(* Everything but a poll.                                                  *)
(***************************************************************************)
LEMMA JoyStart == JoyInit => JoyInv
<1>. SUFFICES ASSUME JoyInit PROVE JoyInv
  OBVIOUS
<1>1. plug \in [Sides -> Kinds \cup {"none"}]
  BY DEF JoyInit, Sides, Kinds
<1>2. jc \in JcType /\ jc.conn = {} /\ jc.connected = {}
  BY DEF JoyInit, JcType
<1>3. fifo \in FifoType /\ finger \in BOOLEAN /\ pc \in Places
  BY DEF JoyInit, FifoType, Places
<1>4. {supply, spio, gone} \subseteq SUBSET Sides /\ gone = {}
  BY DEF JoyInit
<1>. QED
  BY <1>1, <1>2, <1>3, <1>4 DEF JoyInv, JoyTypeOK, PadTrue, JcType, FifoType

\* Only the deadlines of jc change: time goes by.
LEMMA LaterKeeps ==
    ASSUME JoyInv, UNCHANGED <<plug, finger, fifo, supply, spio, gone, pc>>,
           NEW q \in [Sides -> 0..2], jc' = [jc EXCEPT !.quiet = q, !.asked = {}]
    PROVE  JoyInv' /\ jc'.held = jc.held /\ jc'.quiet = q
<1>. USE JoyParts
<1>1. /\ jc' \in JcType /\ jc'.held = jc.held /\ jc'.conn = jc.conn /\ jc'.quiet = q
      /\ jc'.connected = jc.connected /\ jc'.rumbled = jc.rumbled /\ jc'.type = jc.type
  BY DEF JcType
<1>. QED
  BY <1>1, JoyNow DEF PadKept

LEMMA TickKeeps ==
    ASSUME JoyInv, Tick
    PROVE  /\ JoyInv' /\ UNCHANGED <<plug, finger, fifo, pc>> /\ pc = Idle
           /\ jc'.held = jc.held /\ (jc.quiet["R"] = 2 => jc'.quiet["R"] = 2)
<1>. DEFINE q == [s \in Sides |-> IF jc.quiet[s] = 2 THEN 2 ELSE jc.quiet[s] + 1]
<1>1. /\ UNCHANGED <<plug, finger, fifo, supply, spio, gone, pc>> /\ pc = Idle
      /\ jc' = [jc EXCEPT !.quiet = q, !.asked = {}]
  BY DEF Tick, device
<1>2. q \in [Sides -> 0..2]
  BY JoyParts DEF JcType
<1>3. JoyInv' /\ jc'.held = jc.held /\ jc'.quiet = q
  BY <1>1, <1>2, LaterKeeps
<1>. QED
  BY <1>1, <1>3 DEF Sides

LEMMA PollStarts ==
    ASSUME JoyInv, joycon_poll
    PROVE  /\ JoyInv' /\ UNCHANGED <<plug, finger, fifo, jc>>
           /\ pc = Idle /\ pc' = <<"init", "R">> /\ pc' # Idle
<1>. USE JoyParts
<1>1. /\ UNCHANGED <<plug, finger, fifo, jc, supply, spio, gone>>
      /\ pc = Idle /\ pc' = <<"init", "R">>
  BY DEF joycon_poll, device
<1>2. pc' \in Places /\ pc' # Idle
  BY <1>1 DEF Places, Idle, Sides
<1>. QED
  BY <1>1, <1>2, JoyNow DEF PadKept, Checked

LEMMA ChangeKeeps ==
    ASSUME JoyInv, NEW s \in Sides, NEW k \in Kinds \cup {"none"}, Change(s, k)
    PROVE  JoyInv' /\ UNCHANGED driver /\ (finger' => finger)
<1>. USE JoyParts
<1>1. /\ plug' = [plug EXCEPT ![s] = k] /\ finger' = (finger /\ plug'["R"] # "none")
      /\ UNCHANGED <<fifo, jc, supply, spio, gone, pc>>
  BY DEF Change, driver
<1>2. plug' \in [Sides -> Kinds \cup {"none"}]
  BY <1>1
<1>3. finger' \in BOOLEAN /\ (finger' => finger)
  BY <1>1
<1>4. JoyInv'
  BY <1>1, <1>2, <1>3, JoyNow DEF PadKept
<1>. QED
  BY <1>1, <1>3, <1>4 DEF driver

LEMMA PressKeeps ==
    ASSUME JoyInv, Press
    PROVE  JoyInv' /\ UNCHANGED <<plug, driver>>
<1>. USE JoyParts
<1>1. UNCHANGED <<plug, fifo, jc, supply, spio, gone, pc>> /\ finger' \in BOOLEAN
  BY DEF Press, driver
<1>. QED
  BY <1>1, JoyNow DEF PadKept, driver

\* A side that jc_conn_check read as detached has no power, is not connected and holds no
\* button; a side that is connected has told its type (joycon.c:768-799, 406).
THEOREM PadIsTrue == JoySpec => []JoyInv
<1>1. JoyInv /\ [JoyNext]_joyVars => JoyInv'
  <2>1. ASSUME JoyInv, UNCHANGED joyVars PROVE JoyInv'
    BY <2>1, JoyParts, JoyNow DEF joyVars, PadKept
  <2>. QED
    BY <2>1, PollKeeps, PollStarts, TickKeeps, ChangeKeeps, PressKeeps DEF JoyNext, Hands
<1>. QED
  BY <1>1, JoyStart, PTL DEF JoySpec

(***************************************************************************)
(* The questions.                                                          *)
(***************************************************************************)
LEMMA PromptStart == PromptInit => PromptInv
<1>. SUFFICES ASSUME PromptInit PROVE PromptInv
  OBVIOUS
<1>1. JoyInv /\ pc = Idle /\ ~finger /\ jc.held = {} /\ fifo["R"] = "none"
  BY JoyStart DEF PromptInit, JoyInit, Sides
<1>. QED
  BY <1>1 DEF PromptInit, PromptInv, QuestionInv, FreshInv, OldPress, AnswersAreFresh

LEMMA AnswerKeeps ==
    ASSUME PromptInv, Released \/ ReadPower \/ Leave
    PROVE  PromptInv'
<1>1. UNCHANGED joyVars
  BY DEF Released, ReadPower, Leave
<1>2. JoyInv' /\ (OldPress' <=> OldPress) /\ UNCHANGED <<plug, finger, fifo, jc, pc>>
  BY <1>1, JoyParts, JoyNow DEF PromptInv, joyVars, PadKept, OldPress
<1>3. CASE Released
  <2>1. /\ at[2] = "release" /\ at' = <<at[1], "power">>
        /\ asked' = [asked EXCEPT !.let = TRUE]
    BY <1>3 DEF Released, Reached, To
  <2>2. asked' = [down |-> asked.down, before |-> asked.before, rested |-> asked.rested, by |-> asked.by, let |-> TRUE]
    BY <2>1 DEF PromptInv, QuestionInv
  <2>3. QuestionInv'
    <3>1. asked.by = "nobody" /\ at[1] \in {"confirm", "finish", "missing", "reboot"}
      BY <2>1 DEF PromptInv, QuestionInv
    <3>. QED
      BY <1>2, <2>1, <2>2, <3>1 DEF PromptInv, QuestionInv
  <2>4. FreshInv' /\ AnswersAreFresh'
    BY <1>2, <2>1, <2>2 DEF PromptInv, FreshInv, AnswersAreFresh
  <2>. QED
    BY <1>2, <2>3, <2>4 DEF PromptInv
<1>4. CASE ReadPower
  BY <1>2, <1>4 DEF PromptInv, ReadPower, Reached, To, QuestionInv, FreshInv, AnswersAreFresh
<1>5. CASE Leave
  BY <1>2, <1>5 DEF PromptInv, Leave, Reached, To, QuestionInv, FreshInv, AnswersAreFresh
<1>. QED
  BY <1>3, <1>4, <1>5

LEMMA PollingKeeps ==
    ASSUME PromptInv, PollPad \/ PollStep
    PROVE  PromptInv'
<1>. USE DEF PromptInv
<1>1. CASE PollPad
  <2>1. /\ JoyInv' /\ UNCHANGED <<plug, finger, fifo, jc, asked>> /\ pc' = <<"init", "R">> /\ pc' # Idle
        /\ at[2] = "joycon" /\ at' = <<at[1], "polled">>
    BY <1>1, PollStarts DEF PollPad, Reached, To
  <2>2. QuestionInv'
    BY <2>1 DEF QuestionInv, OldPress
  <2>3. FreshInv'
    BY <2>1 DEF FreshInv, OldPress, QuestionInv
  <2>. QED
    BY <2>1, <2>2, <2>3 DEF AnswersAreFresh
<1>2. CASE PollStep
  <2>1. UNCHANGED <<at, asked>> /\ at[2] = "polled" /\ Poll
    BY <1>2 DEF PollStep
  <2>2. /\ JoyInv' /\ UNCHANGED <<plug, finger>>
        /\ pc = <<"init", "R">> /\ plug["R"] # "none" /\ jc.quiet["R"] = 2 => ~OldPress'
        /\ OldPress' => OldPress \/ finger
        /\ pc' = Idle /\ plug["R"] = "none" => "R" \notin jc'.held
    BY <2>1, PollKeeps
  <2>3. QuestionInv' /\ AnswersAreFresh'
    BY <2>1, <2>2 DEF QuestionInv, AnswersAreFresh
  <2>4. FreshInv'
    BY <2>1, <2>2 DEF FreshInv, QuestionInv
  <2>. QED
    BY <2>2, <2>3, <2>4
<1>. QED
  BY <1>1, <1>2

LEMMA ReadPadKeeps ==
    ASSUME PromptInv, ReadPad
    PROVE  PromptInv'
<1>. USE DEF PromptInv
<1>1. /\ UNCHANGED <<plug, finger, fifo, supply, spio, gone, pc>> /\ at[2] = "polled" /\ pc = Idle
      /\ \/ /\ "R" \in jc.held /\ at' = <<at[1], "answered">> /\ asked' = [asked EXCEPT !.by = "A"]
         \/ "R" \notin jc.held /\ at' = <<at[1], "power">> /\ UNCHANGED asked
      /\ jc' = [jc EXCEPT !.asked = {}]
  BY DEF ReadPad, Reached, To, device
<1>2. JoyInv' /\ jc'.held = jc.held
  <2>1. jc' = [jc EXCEPT !.quiet = jc.quiet, !.asked = {}] /\ jc.quiet \in [Sides -> 0..2]
    BY <1>1, JoyParts DEF JcType
  <2>. QED
    BY <1>1, <2>1, LaterKeeps
<1>3. \/ UNCHANGED asked
      \/ asked' = [down |-> asked.down, before |-> asked.before, rested |-> asked.rested,
                   by |-> "A", let |-> asked.let]
  BY <1>1 DEF QuestionInv
<1>4. QuestionInv'
  BY <1>1, <1>2, <1>3 DEF QuestionInv, OldPress
<1>5. asked.rested /\ ~asked.down /\ "R" \in jc.held => FALSE
  BY <1>1 DEF FreshInv, QuestionInv, OldPress, Idle
<1>6. AnswersAreFresh'
  BY <1>1, <1>5, <1>3 DEF AnswersAreFresh, QuestionInv, OldPress
<1>7. FreshInv'
  BY <1>1, <1>2 DEF FreshInv, OldPress, QuestionInv, Idle
<1>. QED
  BY <1>2, <1>4, <1>6, <1>7

LEMMA AskKeeps ==
    ASSUME PromptInv, Install \/ AskReboot
    PROVE  PromptInv'
<1>. USE DEF PromptInv
<1>1. /\ UNCHANGED <<plug, finger, fifo, supply, spio, gone, pc>> /\ pc = Idle
      /\ at' \in {<<"finish", "release">>, <<"reboot", "release">>}
      /\ \E r \in BOOLEAN :
            /\ asked' = [down |-> finger, before |-> asked.before \/ asked.down, rested |-> r,
                         by |-> "nobody", let |-> FALSE]
            /\ \/ ~r /\ UNCHANGED jc
               \/ jc' = [jc EXCEPT !.quiet = [s \in Sides |-> 2], !.asked = {}]
  BY DEF Install, AskReboot, Reached, Question, device, joyVars
<1>2. CASE UNCHANGED jc /\ ~asked'.rested
  <2>1. JoyInv'
    BY <1>1, <1>2, JoyParts, JoyNow DEF PadKept
  <2>. QED
    BY <1>1, <1>2, <2>1 DEF QuestionInv, FreshInv, AnswersAreFresh, OldPress, JoyInv, JoyTypeOK
<1>3. CASE jc' = [jc EXCEPT !.quiet = [s \in Sides |-> 2], !.asked = {}]
  <2>1. [s \in Sides |-> 2] \in [Sides -> 0..2]
    OBVIOUS
  <2>2. JoyInv' /\ jc'.held = jc.held /\ jc'.quiet = [s \in Sides |-> 2]
    BY <1>1, <1>3, <2>1, LaterKeeps
  <2>3. jc'.quiet["R"] = 2
    BY <2>2 DEF Sides
  <2>. QED
    BY <1>1, <2>2, <2>3 DEF QuestionInv, FreshInv, AnswersAreFresh, OldPress, JoyInv, JoyTypeOK
<1>. QED
  BY <1>1, <1>2, <1>3

LEMMA OutsideKeeps ==
    ASSUME PromptInv, PressPower \/ PressA \/ Replug \/ PromptTick
    PROVE  PromptInv'
<1>. USE DEF PromptInv
<1>1. CASE PressPower
  <2>1. UNCHANGED <<joyVars, at, asked>>
    BY <1>1 DEF PressPower
  <2>2. JoyInv'
    BY <2>1, JoyParts, JoyNow DEF joyVars, PadKept
  <2>. QED
    BY <2>1, <2>2 DEF joyVars, QuestionInv, FreshInv, AnswersAreFresh, OldPress
<1>2. CASE PressA
  <2>1. /\ JoyInv' /\ UNCHANGED <<plug, driver, at>>
        /\ asked' = [asked EXCEPT !.down = @ \/ finger']
    BY <1>2, PressKeeps DEF PressA
  <2>2. finger' \in BOOLEAN
    BY <2>1, JoyParts DEF JoyInv, JoyTypeOK
  <2>. QED
    BY <2>1, <2>2 DEF driver, QuestionInv, FreshInv, AnswersAreFresh, OldPress
<1>3. CASE Replug
  <2>1. /\ JoyInv' /\ UNCHANGED <<driver, at>> /\ (finger' => finger)
        /\ asked' = [asked EXCEPT !.rested = FALSE]
    BY <1>3, ChangeKeeps DEF Replug, Kinds, Sides
  <2>. QED
    BY <2>1 DEF driver, QuestionInv, FreshInv, AnswersAreFresh, OldPress
<1>4. CASE PromptTick
  <2>1. /\ JoyInv' /\ UNCHANGED <<plug, finger, fifo, pc, at, asked>> /\ pc = Idle
        /\ jc'.held = jc.held /\ (jc.quiet["R"] = 2 => jc'.quiet["R"] = 2)
    BY <1>4, TickKeeps DEF PromptTick
  <2>. QED
    BY <2>1 DEF QuestionInv, FreshInv, AnswersAreFresh, OldPress, Idle
<1>. QED
  BY <1>1, <1>2, <1>3, <1>4

\* A question is answered by a press that is newer than the question (main.c:378-430).
THEOREM PromptInvariantHolds == PromptSpec => []PromptInv
<1>1. PromptInv /\ [PromptNext]_promptVars => PromptInv'
  <2>1. ASSUME PromptInv, UNCHANGED promptVars PROVE PromptInv'
    <3>1. JoyInv'
      BY <2>1, JoyParts, JoyNow DEF PromptInv, promptVars, joyVars, PadKept
    <3>. QED
      BY <2>1, <3>1 DEF PromptInv, promptVars, joyVars, QuestionInv, FreshInv, AnswersAreFresh, OldPress
  <2>. QED
    BY <2>1, AnswerKeeps, PollingKeeps, ReadPadKeeps, AskKeeps, OutsideKeeps DEF PromptNext, IplMain
<1>. QED
  BY <1>1, PromptStart, PTL DEF PromptSpec

\* The power button answers after it was let go, A only if it was down while the question
\* was shown, when the question had a second's rest before it.
THEOREM AnswersFresh == PromptSpec => []AnswersAreFresh
<1>1. PromptInv => AnswersAreFresh
  BY DEF PromptInv
<1>. QED
  BY <1>1, PromptInvariantHolds, PTL

-----------------------------------------------------------------------------
LEMMA Table ==
  /\ DOMAIN Program = {"reset", "reset_wait", "ito", "ito_cmd", "ito_wait", "ito_end", "ito_late",
                       "tune", "lp", "ms", "ms_wait", "ss", "ss_wait", "save", "saved",
                       "finger", "sense", "clear", "init", "boot"}
  /\ Program["reset"] = Cmd("reset", "reset_wait", "reset_again")
  /\ Program["reset_wait"] = Wait("ready", "reset_ok", "reset_again")
  /\ Program["ito"] = Reset("ito_cmd", "init")
  /\ Program["ito_cmd"] = Cmd("ito", "ito_wait", "init")
  /\ Program["ito_wait"] = Wait("ito", "ito_end", "ito_late")
  /\ Program["ito_end"] = Reset("ito_verdict", "ito_verdict")
  /\ Program["ito_late"] = Reset("init", "init")
  /\ Program["tune"] = Reset("lp", "failed")
  /\ Program["lp"] = Cmd("lp", "ms", "failed")
  /\ Program["ms"] = Cmd("ms", "ms_wait", "failed")
  /\ Program["ms_wait"] = Wait("ms", "ss", "failed")
  /\ Program["ss"] = Cmd("ss", "ss_wait", "failed")
  /\ Program["ss_wait"] = Wait("ss", "save", "failed")
  /\ Program["save"] = Cmd("save", "saved", "failed")
  /\ Program["saved"] = Wait("save", "finger", "failed")
  /\ Program["finger"] = Cmd("finger", "sense", "not_on")
  /\ Program["sense"] = Cmd("sense", "clear", "not_on")
  /\ Program["clear"] = Cmd("clear", "on", "not_on")
  /\ Program["boot"] = Wait("ready", "buttons", "buttons")
  /\ Program["init"] = Reset("finger", "again")
<1>1. /\ DOMAIN touch_sys_reset = {"reset", "reset_wait"}
      /\ DOMAIN touch_panel_ito_test = {"ito", "ito_cmd", "ito_wait", "ito_end", "ito_late"}
      /\ DOMAIN touch_execute_autotune = {"tune", "lp", "ms", "ms_wait", "ss", "ss_wait", "save", "saved"}
      /\ DOMAIN touch_sense_enable = {"finger", "sense", "clear"}
      /\ DOMAIN touch_init = {"init"} /\ DOMAIN touch_power_on = {"boot"}
  BY DEF touch_sys_reset, touch_panel_ito_test, touch_execute_autotune, touch_sense_enable, touch_init,
         touch_power_on
<1>2. PICK t : t = Joined(touch_init, touch_power_on)
  OBVIOUS
<1>3. PICK d : d = Joined(touch_sense_enable, t)
  OBVIOUS
<1>4. PICK c : c = Joined(touch_execute_autotune, d)
  OBVIOUS
<1>5. PICK b : b = Joined(touch_panel_ito_test, c)
  OBVIOUS
<1>6. Program = Joined(touch_sys_reset, b)
  BY ONLY <1>2, <1>3, <1>4, <1>5 DEF Program
<1>7. /\ DOMAIN t = DOMAIN touch_init \cup DOMAIN touch_power_on
      /\ \A p \in DOMAIN touch_init : t[p] = touch_init[p]
      /\ \A p \in DOMAIN touch_power_on \ DOMAIN touch_init : t[p] = touch_power_on[p]
  BY ONLY <1>2 DEF Joined
<1>8. /\ DOMAIN d = DOMAIN touch_sense_enable \cup DOMAIN t
      /\ \A p \in DOMAIN touch_sense_enable : d[p] = touch_sense_enable[p]
      /\ \A p \in DOMAIN t \ DOMAIN touch_sense_enable : d[p] = t[p]
  BY ONLY <1>3 DEF Joined
<1>9. /\ DOMAIN c = DOMAIN touch_execute_autotune \cup DOMAIN d
      /\ \A p \in DOMAIN touch_execute_autotune : c[p] = touch_execute_autotune[p]
      /\ \A p \in DOMAIN d \ DOMAIN touch_execute_autotune : c[p] = d[p]
  BY ONLY <1>4 DEF Joined
<1>10. /\ DOMAIN b = DOMAIN touch_panel_ito_test \cup DOMAIN c
       /\ \A p \in DOMAIN touch_panel_ito_test : b[p] = touch_panel_ito_test[p]
       /\ \A p \in DOMAIN c \ DOMAIN touch_panel_ito_test : b[p] = c[p]
  BY ONLY <1>5 DEF Joined
<1>11. /\ DOMAIN Program = DOMAIN touch_sys_reset \cup DOMAIN b
       /\ \A p \in DOMAIN touch_sys_reset : Program[p] = touch_sys_reset[p]
       /\ \A p \in DOMAIN b \ DOMAIN touch_sys_reset : Program[p] = b[p]
  BY ONLY <1>6 DEF Joined
<1>12. /\ DOMAIN Program = DOMAIN touch_sys_reset \cup DOMAIN touch_panel_ito_test
                             \cup DOMAIN touch_execute_autotune \cup DOMAIN touch_sense_enable
                             \cup DOMAIN touch_init \cup DOMAIN touch_power_on
       /\ \A p \in DOMAIN touch_sys_reset : Program[p] = touch_sys_reset[p]
       /\ \A p \in DOMAIN touch_panel_ito_test : Program[p] = touch_panel_ito_test[p]
       /\ \A p \in DOMAIN touch_execute_autotune : Program[p] = touch_execute_autotune[p]
       /\ \A p \in DOMAIN touch_sense_enable : Program[p] = touch_sense_enable[p]
       /\ \A p \in DOMAIN touch_init : Program[p] = touch_init[p]
       /\ \A p \in DOMAIN touch_power_on : Program[p] = touch_power_on[p]
  BY ONLY <1>1, <1>7, <1>8, <1>9, <1>10, <1>11
<1>13. DOMAIN Program = {"reset", "reset_wait", "ito", "ito_cmd", "ito_wait", "ito_end", "ito_late",
                         "tune", "lp", "ms", "ms_wait", "ss", "ss_wait", "save", "saved",
                         "finger", "sense", "clear", "init", "boot"}
  BY ONLY <1>1, <1>12
<1>14. /\ Program["reset"] = touch_sys_reset["reset"]
       /\ Program["reset_wait"] = touch_sys_reset["reset_wait"]
       /\ \A p \in {"ito", "ito_cmd", "ito_wait", "ito_end", "ito_late"} : Program[p] = touch_panel_ito_test[p]
  BY ONLY <1>1, <1>12
<1>15. \A p \in {"tune", "lp", "ms", "ms_wait", "ss", "ss_wait", "save", "saved"} :
          Program[p] = touch_execute_autotune[p]
  BY ONLY <1>1, <1>12
<1>16. /\ \A p \in {"finger", "sense", "clear"} : Program[p] = touch_sense_enable[p]
       /\ Program["init"] = touch_init["init"] /\ Program["boot"] = touch_power_on["boot"]
  BY ONLY <1>1, <1>12
<1>. QED
  BY <1>13, <1>14, <1>15, <1>16 DEF touch_sys_reset, touch_panel_ito_test, touch_execute_autotune,
     touch_sense_enable, touch_init, touch_power_on

(***************************************************************************)
(* Where the program goes.                                                 *)
(***************************************************************************)
LEMMA Commands ==
  ASSUME Runs("cmd")
  PROVE  \/ At("reset") /\ Now = Cmd("reset", "reset_wait", "reset_again")
         \/ At("ito_cmd") /\ Now = Cmd("ito", "ito_wait", "init")
         \/ At("lp") /\ Now = Cmd("lp", "ms", "failed")
         \/ At("ms") /\ Now = Cmd("ms", "ms_wait", "failed")
         \/ At("ss") /\ Now = Cmd("ss", "ss_wait", "failed")
         \/ At("save") /\ Now = Cmd("save", "saved", "failed")
         \/ At("finger") /\ Now = Cmd("finger", "sense", "not_on")
         \/ At("sense") /\ Now = Cmd("sense", "clear", "not_on")
         \/ At("clear") /\ Now = Cmd("clear", "on", "not_on")
  BY Table DEF Runs, Now, At, Cmd, Wait, Reset

LEMMA Waits ==
  ASSUME Runs("wait")
  PROVE  \/ At("boot") /\ Now = Wait("ready", "buttons", "buttons")
         \/ At("reset_wait") /\ Now = Wait("ready", "reset_ok", "reset_again")
         \/ At("ito_wait") /\ Now = Wait("ito", "ito_end", "ito_late")
         \/ At("ms_wait") /\ Now = Wait("ms", "ss", "failed")
         \/ At("ss_wait") /\ Now = Wait("ss", "save", "failed")
         \/ At("saved") /\ Now = Wait("save", "finger", "failed")
  BY Table DEF Runs, Now, At, Cmd, Wait, Reset

LEMMA Calls ==
  ASSUME Runs("call")
  PROVE  \/ At("ito") /\ Now = Reset("ito_cmd", "init")
         \/ At("ito_end") /\ Now = Reset("ito_verdict", "ito_verdict")
         \/ At("ito_late") /\ Now = Reset("init", "init")
         \/ At("tune") /\ Now = Reset("lp", "failed")
         \/ At("init") /\ Now = Reset("finger", "again")
  BY Table DEF Runs, Now, At, Cmd, Wait, Reset

LEMMA Goes ==
  ASSUME PlaceInv, NEW p \in TouchPlaces, Goto(p)
  PROVE  /\ prog' \in [at : TouchPlaces, ok : Ends, fail : Ends, tries : 0..3, retries : 1..3,
                       passed : BOOLEAN, tuning : BOOLEAN]
         /\ prog'.at = p /\ prog'.tuning = prog.tuning
         /\ prog'.ok = prog.ok /\ prog'.fail = prog.fail
  BY DEF PlaceInv, Goto

LEMMA PlaceKept ==
  ASSUME PlaceInv, TouchNext
  PROVE  PlaceInv'
<1>. USE DEF At
<1>1. CASE touch_command
  <2>1. PICK p : Goto(p) /\ p \in {Now.ok, Now.fail}
    BY <1>1 DEF touch_command
  <2>2. Runs("cmd")
    BY <1>1 DEF touch_command
  <2>. QED
    BY <2>1, <2>2, Commands, Goes DEF Cmd, PlaceInv, Ways, TouchPlaces, Starting, Resetting, Tuning, Enabling
<1>2. CASE touch_wait_event
  <2>1. Runs("wait") /\ (Goto(Now.ok) \/ UNCHANGED prog)
    BY <1>2 DEF touch_wait_event
  <2>. QED
    BY <2>1, Waits, Goes DEF Wait, PlaceInv, Ways, TouchPlaces, Starting, Resetting, Tuning, Enabling
<1>3. CASE Late
  <2>1. Runs("wait") /\ Goto(Now.fail)
    BY <1>3 DEF Late
  <2>. QED
    BY <2>1, Waits, Goes DEF Wait, PlaceInv, Ways, TouchPlaces, Starting, Resetting, Tuning, Enabling
<1>4. CASE CallReset
  <2>1. /\ prog' = [prog EXCEPT !.at = "reset", !.tries = 3, !.ok = Now.ok, !.fail = Now.fail]
        /\ Runs("call")
    BY <1>4 DEF CallReset
  <2>2. /\ Now.ok \in Ends /\ Now.fail \in Ends
        /\ prog.at \in Starting \cup Tuning /\ <<Now.ok, Now.fail>> \in Ways
    BY <2>1, Calls DEF Reset, Ends, Ways, PlaceInv, Starting, Tuning
  <2>3. prog' = [at |-> "reset", ok |-> Now.ok, fail |-> Now.fail, tries |-> 3, retries |-> prog.retries,
                 passed |-> prog.passed, tuning |-> prog.tuning]
    BY <2>1 DEF PlaceInv
  <2>. QED
    BY <2>2, <2>3 DEF PlaceInv, Ways, TouchPlaces, Starting, Resetting, Tuning
<1>5. CASE ResetAgain
  <2>1. CASE prog.tries > 1
    <3>1. prog' = [at |-> "reset", ok |-> prog.ok, fail |-> prog.fail, tries |-> prog.tries - 1,
                   retries |-> prog.retries, passed |-> prog.passed, tuning |-> prog.tuning]
      BY <1>5, <2>1 DEF ResetAgain, PlaceInv
    <3>2. prog.tries - 1 \in 0..3
      BY <2>1 DEF PlaceInv
    <3>. QED
      BY <1>5, <3>1, <3>2 DEF ResetAgain, PlaceInv, Ways, TouchPlaces, Starting, Resetting, Tuning
  <2>2. CASE ~(prog.tries > 1)
    <3>1. Goto(prog.fail)
      BY <1>5, <2>2 DEF ResetAgain, Goto
    <3>. QED
      BY <1>5, <3>1, Goes DEF ResetAgain, PlaceInv, Ends, Ways, TouchPlaces, Starting, Resetting, Tuning, Enabling
  <2>. QED
    BY <2>1, <2>2
<1>6. CASE ResetOk
  BY <1>6, Goes DEF ResetOk, PlaceInv, Ends, Ways, TouchPlaces, Starting, Resetting, Tuning, Enabling
<1>7. CASE Buttons
  <2>1. PICK place \in {"ito", "init"}, passed \in BOOLEAN :
           prog' = [prog EXCEPT !.at = place, !.passed = passed]
    BY <1>7 DEF Buttons
  <2>2. prog' = [at |-> place, ok |-> prog.ok, fail |-> prog.fail, tries |-> prog.tries,
                 retries |-> prog.retries, passed |-> passed, tuning |-> prog.tuning]
    BY <2>1 DEF PlaceInv
  <2>. QED
    BY <1>7, <2>2 DEF Buttons, PlaceInv, Ways, TouchPlaces, Starting, Resetting, Tuning
<1>8. CASE Verdict
  <2>1. CASE prog.passed
    <3>1. prog' = [at |-> "tune", ok |-> prog.ok, fail |-> prog.fail, tries |-> prog.tries,
                   retries |-> prog.retries, passed |-> prog.passed, tuning |-> TRUE]
      BY <1>8, <2>1 DEF Verdict, PlaceInv
    <3>. QED
      BY <3>1 DEF PlaceInv, Ways, TouchPlaces, Starting, Resetting, Tuning
  <2>2. CASE ~prog.passed
    <3>1. Goto("init") /\ "init" \in TouchPlaces
      BY <1>8, <2>2 DEF Verdict, Goto, TouchPlaces, Starting
    <3>. QED
      BY <1>8, <3>1, Goes DEF Verdict, PlaceInv, Ways, TouchPlaces, Starting, Resetting, Tuning
  <2>. QED
    BY <2>1, <2>2
<1>9. CASE NotOn
  BY <1>9, Goes DEF NotOn, PlaceInv, Ways, TouchPlaces, Starting, Resetting, Tuning
<1>10. CASE Again
  <2>1. CASE prog.retries > 1
    <3>1. prog' = [at |-> "init", ok |-> prog.ok, fail |-> prog.fail, tries |-> prog.tries,
                   retries |-> prog.retries - 1, passed |-> prog.passed, tuning |-> prog.tuning]
      BY <1>10, <2>1 DEF Again, PlaceInv
    <3>2. prog.retries - 1 \in 1..3
      BY <2>1 DEF PlaceInv
    <3>. QED
      BY <1>10, <3>1, <3>2 DEF Again, PlaceInv, Ways, TouchPlaces, Starting, Resetting, Tuning
  <2>2. CASE ~(prog.retries > 1)
    <3>1. Goto("failed") /\ "failed" \in TouchPlaces
      BY <1>10, <2>2 DEF Again, Goto, TouchPlaces
    <3>. QED
      BY <3>1, Goes DEF PlaceInv, Ways, TouchPlaces, Starting, Resetting, Tuning
  <2>. QED
    BY <2>1, <2>2
<1>11. CASE TouchPowerOff
  <2>1. Goto("off") /\ "off" \in TouchPlaces
    BY <1>11 DEF TouchPowerOff, TouchPlaces
  <2>. QED
    BY <2>1, Goes DEF PlaceInv, Ways, TouchPlaces, Starting, Resetting, Tuning
<1>12. CASE WorkDone \/ Finger
  BY <1>12 DEF WorkDone, Finger, PlaceInv, Ways
<1>. QED
  BY <1>1, <1>2, <1>3, <1>4, <1>5, <1>6, <1>7, <1>8, <1>9, <1>10, <1>11, <1>12 DEF TouchNext, TouchStep

(***************************************************************************)
(* What the controller does.                                               *)
(***************************************************************************)
\* A command only touches what it is about.
LEMMA Takes ==
  ASSUME chip \in TouchChips
  PROVE  /\ Taken("reset") = [on |-> chip.on, mode |-> "none", sense |-> FALSE, tuned |-> {},
                              saved |-> chip.saved, work |-> "ready", events |-> <<>>,
                              trouble |-> chip.trouble]
         /\ Taken("finger") = [chip EXCEPT !.mode = "finger"]
         /\ Taken("sense") = [chip EXCEPT !.sense = TRUE]
         /\ Taken("clear") = [chip EXCEPT !.events = <<>>]
         /\ Taken("lp") = chip
         /\ \A c \in {"ito", "ms", "ss", "save"} : Taken(c) = [chip EXCEPT !.work = c]
<1>1. Taken("reset") = [on |-> chip.on, mode |-> "none", sense |-> FALSE, tuned |-> {},
                        saved |-> chip.saved, work |-> "ready", events |-> <<>>,
                        trouble |-> chip.trouble]
  BY DEF Taken, TouchChips
<1>2. \A c \in {"ito", "ms", "ss", "save"} : Taken(c) = [chip EXCEPT !.work = c]
  BY DEF Taken
<1>3. Taken("finger") = [chip EXCEPT !.mode = "finger"]
  BY DEF Taken
<1>4. Taken("sense") = [chip EXCEPT !.sense = TRUE]
  BY DEF Taken
<1>5. Taken("clear") = [chip EXCEPT !.events = <<>>]
  BY DEF Taken
<1>6. Taken("lp") = chip
  BY DEF Taken
<1>. QED
  BY <1>1, <1>2, <1>3, <1>4, <1>5, <1>6

Commanded == {"reset", "finger", "sense", "clear", "lp", "ito", "ms", "ss", "save"}

LEMMA TakenShape ==
  ASSUME chip \in TouchChips, NEW c \in Commanded
  PROVE  /\ Taken(c) \in TouchChips
         /\ Taken(c).on = chip.on /\ Taken(c).trouble = chip.trouble
<1>1. CASE c = "reset"
  <2>1. Taken(c) = [on |-> chip.on, mode |-> "none", sense |-> FALSE, tuned |-> {},
                    saved |-> chip.saved, work |-> "ready", events |-> <<>>, trouble |-> chip.trouble]
    BY <1>1, Takes
  <2>2. <<>> \in Seq(Works \cup {"touch"})
    OBVIOUS
  <2>. QED
    BY <2>1, <2>2 DEF TouchChips, Works
<1>2. CASE c \in {"ito", "ms", "ss", "save"}
  <2>1. Taken(c) = [chip EXCEPT !.work = c] /\ c \in Works
    BY <1>2, Takes DEF Works
  <2>. QED
    BY <2>1 DEF TouchChips
<1>3. CASE c = "finger"
  <2>1. Taken(c) = [chip EXCEPT !.mode = "finger"]
    BY <1>3, Takes
  <2>. QED
    BY <2>1 DEF TouchChips
<1>4. CASE c = "sense"
  <2>1. Taken(c) = [chip EXCEPT !.sense = TRUE]
    BY <1>4, Takes
  <2>. QED
    BY <2>1 DEF TouchChips
<1>5. CASE c = "clear"
  <2>1. Taken(c) = [chip EXCEPT !.events = <<>>]
    BY <1>5, Takes
  <2>2. <<>> \in Seq(Works \cup {"touch"})
    OBVIOUS
  <2>. QED
    BY <2>1, <2>2 DEF TouchChips
<1>6. CASE c = "lp"
  BY <1>6, Takes
<1>. QED
  BY <1>1, <1>2, <1>3, <1>4, <1>5, <1>6 DEF Commanded

\* Trouble takes nothing but one of the troubles.
LEMMA Troubled ==
  ASSUME NEW c \in TouchChips, c.trouble > 0
  PROVE  /\ Trouble(c) \in TouchChips
         /\ Trouble(c).on = c.on /\ Trouble(c).mode = c.mode /\ Trouble(c).sense = c.sense
         /\ Trouble(c).tuned = c.tuned /\ Trouble(c).saved = c.saved /\ Trouble(c).work = c.work
         /\ Trouble(c).events = c.events
<1>1. c.trouble - 1 \in Nat
  BY DEF TouchChips
<1>. QED
  BY <1>1 DEF Trouble, TouchChips

LEMMA Finishes ==
  ASSUME chip \in TouchChips, WorkDone
  PROVE  /\ chip' \in TouchChips
         /\ chip'.work = "none" /\ chip'.on = chip.on /\ chip'.mode = chip.mode
         /\ chip'.sense = chip.sense
         /\ \/ /\ chip'.events = Append(chip.events, chip.work)
               /\ chip'.tuned = IF chip.work \in {"ms", "ss"} THEN chip.tuned \cup {chip.work}
                                ELSE chip.tuned
               /\ chip'.saved = IF chip.work = "save" THEN chip.tuned ELSE chip.saved
            \/ /\ chip'.events = chip.events
               /\ chip'.tuned = chip.tuned /\ chip'.saved = chip.saved
<1>. DEFINE tuned == IF chip.work \in {"ms", "ss"} THEN chip.tuned \cup {chip.work} ELSE chip.tuned
            saved == IF chip.work = "save" THEN chip.tuned ELSE chip.saved
<1>1. CASE chip' = [on |-> chip.on, mode |-> chip.mode, sense |-> chip.sense, tuned |-> tuned,
                    saved |-> saved, work |-> "none", events |-> Append(chip.events, chip.work),
                    trouble |-> chip.trouble]
  <2>1. Append(chip.events, chip.work) \in Seq(Works \cup {"touch"})
    BY DEF WorkDone, TouchChips
  <2>2. tuned \in SUBSET {"ms", "ss"} /\ saved \in SUBSET {"ms", "ss"}
    BY DEF TouchChips
  <2>. QED
    BY <1>1, <2>1, <2>2 DEF TouchChips
<1>2. CASE chip.trouble > 0 /\ chip' = [Trouble(chip) EXCEPT !.work = "none"]
  <2>. QED
    BY <1>2, Troubled DEF TouchChips
<1>3. \/ chip' = [on |-> chip.on, mode |-> chip.mode, sense |-> chip.sense, tuned |-> tuned,
                  saved |-> saved, work |-> "none", events |-> Append(chip.events, chip.work),
                  trouble |-> chip.trouble]
      \/ chip.trouble > 0 /\ chip' = [Trouble(chip) EXCEPT !.work = "none"]
  BY DEF WorkDone, TouchChips
<1>. QED
  BY <1>1, <1>2, <1>3

LEMMA ShapeKept ==
  ASSUME PlaceInv, ChipShape, TouchNext
  PROVE  ChipShape'
<1>0. chip \in TouchChips /\ (prog'.at # "off" => chip.on)
  <2>1. CASE prog.at = "off"
    <3>1. prog.at \notin DOMAIN Program
      BY <2>1, Table
    <3>. QED
      BY <2>1, <3>1 DEF ChipShape, TouchNext, TouchStep, touch_command, touch_wait_event, Late, CallReset,
           ResetAgain, ResetOk, Buttons, Verdict, NotOn, Again, TouchPowerOff, WorkDone, Finger, At, Runs
  <2>. QED
    BY <2>1 DEF ChipShape
<1>1. CASE touch_command
  <2>1. Now.what \in Commanded
    BY <1>1, Commands DEF touch_command, Cmd, Commanded
  <2>2. Taken(Now.what) \in TouchChips /\ Taken(Now.what).on = chip.on /\ Taken(Now.what).trouble = chip.trouble
    BY <1>0, <2>1, TakenShape
  <2>. QED
    BY <1>0, <1>1, <2>2, Troubled DEF touch_command, ChipShape
<1>2. CASE touch_wait_event
  <2>1. Tail(chip.events) \in Seq(Works \cup {"touch"})
    BY <1>0, <1>2 DEF touch_wait_event, TouchChips
  <2>. QED
    BY <1>0, <1>2, <2>1 DEF touch_wait_event, ChipShape, TouchChips
<1>3. CASE Late
  BY <1>0, <1>3, Troubled DEF Late, ChipShape
<1>4. CASE CallReset \/ ResetAgain \/ ResetOk \/ Buttons \/ Verdict \/ NotOn \/ Again
  BY <1>0, <1>4 DEF CallReset, ResetAgain, ResetOk, Buttons, Verdict, NotOn, Again, ChipShape
<1>5. CASE TouchPowerOff
  <2>1. chip' \in TouchChips
    <3>1. chip' = [on |-> FALSE, mode |-> chip.mode, sense |-> FALSE, tuned |-> chip.tuned,
                   saved |-> chip.saved, work |-> "none", events |-> <<>>, trouble |-> chip.trouble]
      BY <1>0, <1>5 DEF TouchPowerOff, TouchChips
    <3>2. <<>> \in Seq(Works \cup {"touch"})
      OBVIOUS
    <3>. QED
      BY <1>0, <3>1, <3>2 DEF TouchChips
  <2>2. prog'.at = "off"
    BY <1>5 DEF TouchPowerOff, Goto, PlaceInv
  <2>. QED
    BY <2>1, <2>2 DEF ChipShape
<1>6. CASE WorkDone
  BY <1>0, <1>6, Finishes DEF WorkDone, ChipShape
<1>7. CASE Finger
  <2>1. Append(chip.events, "touch") \in Seq(Works \cup {"touch"})
    BY <1>0 DEF TouchChips
  <2>. QED
    BY <1>0, <1>7, <2>1 DEF Finger, ChipShape, TouchChips
<1>. QED
  BY <1>1, <1>2, <1>3, <1>4, <1>5, <1>6, <1>7 DEF TouchNext, TouchStep

(***************************************************************************)
(* What is known at each place stays known.                                *)
(***************************************************************************)
\* Nothing is asked of the controller at the places a failure leads to.
LEMMA Fallen ==
  ASSUME prog'.at \in {"init", "failed", "reset_again", "not_on", "ito_late", "buttons", "again",
                       "reset", "off", "ito", "ito_cmd", "ito_end", "ito_verdict", "ito_wait", "boot"}
  PROVE  ChipInv'
  BY DEF ChipInv, At, Enabling, Tuning

LEMMA CommandKeeps ==
  ASSUME PlaceInv, ChipShape, ChipInv, touch_command
  PROVE  ChipInv'
<1>. USE DEF At
<1>1. Runs("cmd")
  BY DEF touch_command
<1>2. chip \in TouchChips
  BY DEF ChipShape
<1>3. CASE Goto(Now.fail)
  BY <1>1, <1>3, Commands, Goes, Fallen DEF Cmd, TouchPlaces, Starting, Resetting
<1>4. CASE Goto(Now.ok) /\ chip' = Taken(Now.what)
  <2>1. CASE prog.at = "reset"
    <3>1. Goto("reset_wait") /\ chip' = Taken("reset") /\ "reset_wait" \in TouchPlaces
      BY <1>1, <1>4, <2>1, Commands DEF Cmd, TouchPlaces, Starting, Resetting, Tuning, Enabling
    <3>2. prog'.at = "reset_wait" /\ prog'.tuning = prog.tuning
      BY <3>1, Goes
    <3>. QED
      BY <1>2, <2>1, <3>1, <3>2, Takes DEF ChipInv, TouchChips, AtRest, Expecting, Tuning, Enabling, Both, PlaceInv
  <2>2. CASE prog.at = "ito_cmd"
    <3>1. Goto("ito_wait") /\ chip' = Taken("ito") /\ "ito_wait" \in TouchPlaces
      BY <1>1, <1>4, <2>2, Commands DEF Cmd, TouchPlaces, Starting, Resetting, Tuning, Enabling
    <3>2. prog'.at = "ito_wait" /\ prog'.tuning = prog.tuning
      BY <3>1, Goes
    <3>. QED
      BY <1>2, <2>2, <3>1, <3>2, Takes DEF ChipInv, TouchChips, AtRest, Expecting, Tuning, Enabling, Both, PlaceInv
  <2>3. CASE prog.at = "lp"
    <3>1. Goto("ms") /\ chip' = Taken("lp") /\ "ms" \in TouchPlaces
      BY <1>1, <1>4, <2>3, Commands DEF Cmd, TouchPlaces, Starting, Resetting, Tuning, Enabling
    <3>2. prog'.at = "ms" /\ prog'.tuning = prog.tuning
      BY <3>1, Goes
    <3>. QED
      BY <1>2, <2>3, <3>1, <3>2, Takes DEF ChipInv, TouchChips, AtRest, Expecting, Tuning, Enabling, Both, PlaceInv
  <2>4. CASE prog.at = "ms"
    <3>1. Goto("ms_wait") /\ chip' = Taken("ms") /\ "ms_wait" \in TouchPlaces
      BY <1>1, <1>4, <2>4, Commands DEF Cmd, TouchPlaces, Starting, Resetting, Tuning, Enabling
    <3>2. prog'.at = "ms_wait" /\ prog'.tuning = prog.tuning
      BY <3>1, Goes
    <3>. QED
      BY <1>2, <2>4, <3>1, <3>2, Takes DEF ChipInv, TouchChips, AtRest, Expecting, Tuning, Enabling, Both, PlaceInv
  <2>5. CASE prog.at = "ss"
    <3>1. Goto("ss_wait") /\ chip' = Taken("ss") /\ "ss_wait" \in TouchPlaces
      BY <1>1, <1>4, <2>5, Commands DEF Cmd, TouchPlaces, Starting, Resetting, Tuning, Enabling
    <3>2. prog'.at = "ss_wait" /\ prog'.tuning = prog.tuning
      BY <3>1, Goes
    <3>. QED
      BY <1>2, <2>5, <3>1, <3>2, Takes DEF ChipInv, TouchChips, AtRest, Expecting, Tuning, Enabling, Both, PlaceInv
  <2>6. CASE prog.at = "save"
    <3>1. Goto("saved") /\ chip' = Taken("save") /\ "saved" \in TouchPlaces
      BY <1>1, <1>4, <2>6, Commands DEF Cmd, TouchPlaces, Starting, Resetting, Tuning, Enabling
    <3>2. prog'.at = "saved" /\ prog'.tuning = prog.tuning
      BY <3>1, Goes
    <3>. QED
      BY <1>2, <2>6, <3>1, <3>2, Takes DEF ChipInv, TouchChips, AtRest, Expecting, Tuning, Enabling, Both, PlaceInv
  <2>7. CASE prog.at = "finger"
    <3>1. Goto("sense") /\ chip' = Taken("finger") /\ "sense" \in TouchPlaces
      BY <1>1, <1>4, <2>7, Commands DEF Cmd, TouchPlaces, Starting, Resetting, Tuning, Enabling
    <3>2. prog'.at = "sense" /\ prog'.tuning = prog.tuning
      BY <3>1, Goes
    <3>. QED
      BY <1>2, <2>7, <3>1, <3>2, Takes DEF ChipInv, TouchChips, AtRest, Expecting, Tuning, Enabling, Both, PlaceInv
  <2>8. CASE prog.at = "sense"
    <3>1. Goto("clear") /\ chip' = Taken("sense") /\ "clear" \in TouchPlaces
      BY <1>1, <1>4, <2>8, Commands DEF Cmd, TouchPlaces, Starting, Resetting, Tuning, Enabling
    <3>2. prog'.at = "clear" /\ prog'.tuning = prog.tuning
      BY <3>1, Goes
    <3>. QED
      BY <1>2, <2>8, <3>1, <3>2, Takes DEF ChipInv, TouchChips, AtRest, Expecting, Tuning, Enabling, Both, PlaceInv
  <2>9. CASE prog.at = "clear"
    <3>1. Goto("on") /\ chip' = Taken("clear") /\ "on" \in TouchPlaces
      BY <1>1, <1>4, <2>9, Commands DEF Cmd, TouchPlaces, Starting, Resetting, Tuning, Enabling
    <3>2. prog'.at = "on" /\ prog'.tuning = prog.tuning
      BY <3>1, Goes
    <3>. QED
      BY <1>2, <2>9, <3>1, <3>2, Takes DEF ChipInv, TouchChips, AtRest, Expecting, Tuning, Enabling, Both, PlaceInv
  <2>. QED
    BY <1>1, <2>1, <2>2, <2>3, <2>4, <2>5, <2>6, <2>7, <2>8, <2>9, Commands
<1>. QED
  BY <1>3, <1>4 DEF touch_command

LEMMA WaitKeeps ==
  ASSUME PlaceInv, ChipShape, ChipInv, touch_wait_event
  PROVE  ChipInv'
<1>. USE DEF At
<1>1. /\ Runs("wait") /\ chip.events # <<>>
      /\ chip' = [chip EXCEPT !.events = Tail(@)]
      /\ IF Head(chip.events) = Now.what THEN Goto(Now.ok) ELSE UNCHANGED prog
  BY DEF touch_wait_event
<1>2. chip \in TouchChips
  BY DEF ChipShape
<1>3. CASE prog.at = "reset_wait"
  <2>1. chip.events = <<"ready">> /\ chip.work = "none" /\ Now = Wait("ready", "reset_ok", Now.fail)
    BY <1>1, <1>3, Waits DEF ChipInv, Expecting, Wait
  <2>2. Goto("reset_ok") /\ "reset_ok" \in TouchPlaces
    BY <1>1, <2>1 DEF Wait, TouchPlaces, Resetting, Tuning, Enabling
  <2>3. prog'.at = "reset_ok" /\ prog'.tuning = prog.tuning
    BY <2>2, Goes
  <2>4. chip' = [chip EXCEPT !.events = <<>>]
    BY <1>1, <2>1
  <2>. QED
    BY <1>2, <1>3, <2>1, <2>3, <2>4 DEF ChipInv, TouchChips, AtRest, Expecting, Tuning, Enabling, Both, PlaceInv
<1>4. CASE prog.at = "ms_wait"
  <2>1. chip.events = <<"ms">> /\ chip.work = "none" /\ Now = Wait("ms", "ss", Now.fail)
    BY <1>1, <1>4, Waits DEF ChipInv, Expecting, Wait
  <2>2. Goto("ss") /\ "ss" \in TouchPlaces
    BY <1>1, <2>1 DEF Wait, TouchPlaces, Resetting, Tuning, Enabling
  <2>3. prog'.at = "ss" /\ prog'.tuning = prog.tuning
    BY <2>2, Goes
  <2>4. chip' = [chip EXCEPT !.events = <<>>]
    BY <1>1, <2>1
  <2>. QED
    BY <1>2, <1>4, <2>1, <2>3, <2>4 DEF ChipInv, TouchChips, AtRest, Expecting, Tuning, Enabling, Both, PlaceInv
<1>5. CASE prog.at = "ss_wait"
  <2>1. chip.events = <<"ss">> /\ chip.work = "none" /\ Now = Wait("ss", "save", Now.fail)
    BY <1>1, <1>5, Waits DEF ChipInv, Expecting, Wait
  <2>2. Goto("save") /\ "save" \in TouchPlaces
    BY <1>1, <2>1 DEF Wait, TouchPlaces, Resetting, Tuning, Enabling
  <2>3. prog'.at = "save" /\ prog'.tuning = prog.tuning
    BY <2>2, Goes
  <2>4. chip' = [chip EXCEPT !.events = <<>>]
    BY <1>1, <2>1
  <2>. QED
    BY <1>2, <1>5, <2>1, <2>3, <2>4 DEF ChipInv, TouchChips, AtRest, Expecting, Tuning, Enabling, Both, PlaceInv
<1>6. CASE prog.at = "saved"
  <2>1. chip.events = <<"save">> /\ chip.work = "none" /\ Now = Wait("save", "finger", Now.fail)
    BY <1>1, <1>6, Waits DEF ChipInv, Expecting, Wait
  <2>2. Goto("finger") /\ "finger" \in TouchPlaces
    BY <1>1, <2>1 DEF Wait, TouchPlaces, Resetting, Tuning, Enabling
  <2>3. prog'.at = "finger" /\ prog'.tuning = prog.tuning
    BY <2>2, Goes
  <2>4. chip' = [chip EXCEPT !.events = <<>>]
    BY <1>1, <2>1
  <2>. QED
    BY <1>2, <1>6, <2>1, <2>3, <2>4 DEF ChipInv, TouchChips, AtRest, Expecting, Tuning, Enabling, Both, PlaceInv
<1>7. CASE prog.at \in {"boot", "ito_wait"}
  BY <1>1, <1>7, Waits, Goes, Fallen DEF Wait, TouchPlaces, Starting
<1>. QED
  BY <1>1, <1>3, <1>4, <1>5, <1>6, <1>7, Waits

LEMMA LateKeeps ==
  ASSUME PlaceInv, Late
  PROVE  ChipInv'
<1>1. Runs("wait") /\ Goto(Now.fail)
  BY DEF Late
<1>. QED
  BY <1>1, Waits, Goes, Fallen DEF Wait, TouchPlaces, Starting, Resetting

LEMMA ControlKeeps ==
  ASSUME PlaceInv, ChipInv,
         CallReset \/ ResetAgain \/ ResetOk \/ Buttons \/ Verdict \/ NotOn \/ Again \/ TouchPowerOff
  PROVE  ChipInv'
<1>. USE DEF At
<1>1. CASE CallReset
  BY <1>1, Fallen DEF CallReset, PlaceInv
<1>2. CASE ResetAgain
  <2>1. prog'.at \in {"reset", "failed", "init", "ito_verdict", "again"}
    BY <1>2 DEF ResetAgain, PlaceInv, Resetting, Ways
  <2>. QED
    BY <2>1, Fallen
<1>3. CASE ResetOk
  <2>1. prog' = [prog EXCEPT !.at = prog.ok] /\ chip' = chip /\ prog.at = "reset_ok"
    BY <1>3 DEF ResetOk, Goto
  <2>2. /\ prog.ok \in {"lp", "finger", "ito_cmd", "ito_verdict", "init"}
        /\ prog.ok = "finger" => ~prog.tuning
    BY <2>1 DEF PlaceInv, Resetting, Ways
  <2>3. prog'.at = prog.ok /\ prog'.tuning = prog.tuning
    BY <2>1 DEF PlaceInv
  <2>4. AtRest /\ ~chip.sense /\ chip.tuned = {}
    BY <2>1 DEF ChipInv
  <2>5. CASE prog.ok \in {"lp", "finger"}
    BY <2>1, <2>2, <2>3, <2>4, <2>5 DEF ChipInv, AtRest, Tuning, Enabling
  <2>. QED
    BY <2>2, <2>3, <2>5, Fallen
<1>4. CASE Buttons
  BY <1>4, Fallen DEF Buttons, PlaceInv
<1>5. CASE Verdict
  <2>1. prog'.at \in {"tune", "init"} /\ chip' = chip
    BY <1>5 DEF Verdict, PlaceInv
  <2>. QED
    BY <2>1 DEF ChipInv, Tuning, Enabling
<1>6. CASE NotOn \/ Again \/ TouchPowerOff
  <2>1. prog'.at \in {"failed", "again", "init", "off"}
    BY <1>6 DEF NotOn, Again, TouchPowerOff, Goto, PlaceInv
  <2>. QED
    BY <2>1, Fallen
<1>. QED
  BY <1>1, <1>2, <1>3, <1>4, <1>5, <1>6

LEMMA WorkKeeps ==
  ASSUME PlaceInv, ChipShape, ChipInv, WorkDone
  PROVE  ChipInv'
<1>. USE DEF At
<1>1. chip.on /\ chip.work # "none" /\ prog' = prog
  BY DEF WorkDone
<1>2. chip \in TouchChips
  BY DEF ChipShape
<1>3. prog.at \notin {"reset_ok", "lp", "ms", "ss", "save"} \cup Enabling
  BY <1>1 DEF ChipInv, AtRest
<1>4. CASE prog.at = "reset_wait"
  <2>1. chip.work = "ready" /\ chip.events = <<>>
    BY <1>1, <1>4 DEF ChipInv, Expecting
  <2>2. Append(chip.events, chip.work) = <<"ready">>
    BY <2>1
  <2>. QED
    BY <1>1, <1>2, <1>4, <2>1, <2>2, Finishes DEF ChipInv, Expecting, Tuning, Enabling, Both
<1>5. CASE prog.at = "ms_wait"
  <2>1. chip.work = "ms" /\ chip.events = <<>>
    BY <1>1, <1>5 DEF ChipInv, Expecting
  <2>2. Append(chip.events, chip.work) = <<"ms">>
    BY <2>1
  <2>. QED
    BY <1>1, <1>2, <1>5, <2>1, <2>2, Finishes DEF ChipInv, Expecting, Tuning, Enabling, Both
<1>6. CASE prog.at = "ss_wait"
  <2>1. chip.work = "ss" /\ chip.events = <<>>
    BY <1>1, <1>6 DEF ChipInv, Expecting
  <2>2. Append(chip.events, chip.work) = <<"ss">>
    BY <2>1
  <2>. QED
    BY <1>1, <1>2, <1>6, <2>1, <2>2, Finishes DEF ChipInv, Expecting, Tuning, Enabling, Both
<1>7. CASE prog.at = "saved"
  <2>1. chip.work = "save" /\ chip.events = <<>>
    BY <1>1, <1>7 DEF ChipInv, Expecting
  <2>2. Append(chip.events, chip.work) = <<"save">>
    BY <2>1
  <2>. QED
    BY <1>1, <1>2, <1>7, <2>1, <2>2, Finishes DEF ChipInv, Expecting, Tuning, Enabling, Both
<1>8. CASE prog.at \notin {"reset_wait", "ms_wait", "ss_wait", "saved"}
  BY <1>1, <1>2, <1>3, <1>8, Finishes DEF ChipInv, Tuning, Enabling
<1>. QED
  BY <1>4, <1>5, <1>6, <1>7, <1>8

LEMMA FingerKeeps ==
  ASSUME PlaceInv, ChipShape, ChipInv, Finger
  PROVE  ChipInv'
<1>. USE DEF At
<1>1. chip.sense /\ prog' = prog /\ chip' = [chip EXCEPT !.events = Append(@, "touch")]
  BY DEF Finger
<1>2. chip \in TouchChips
  BY DEF ChipShape
<1>3. prog.at \notin {"reset_wait", "reset_ok", "finger"} \cup (Tuning \ {"tune"})
  BY <1>1 DEF ChipInv
<1>4. CASE prog.at = "on"
  <2>1. \A i \in DOMAIN Append(chip.events, "touch") : Append(chip.events, "touch")[i] = "touch"
    BY <1>2, <1>4 DEF ChipInv, TouchChips
  <2>. QED
    BY <1>1, <1>2, <1>4, <2>1 DEF ChipInv, TouchChips, Tuning, Enabling
<1>5. CASE prog.at # "on"
  BY <1>1, <1>2, <1>3, <1>5 DEF ChipInv, TouchChips, Tuning, Enabling
<1>. QED
  BY <1>4, <1>5

-----------------------------------------------------------------------------
\* What is known of the controller at each place of the program stays true, whatever
\* commands are lost, answers late and fingers on the glass, for every number of troubles.
THEOREM TouchInvariantHolds == TouchSpec => []TouchInv
<1>1. TouchInit => TouchInv
  <2>. SUFFICES ASSUME TouchInit PROVE TouchInv
    OBVIOUS
  <2>1. PlaceInv
    BY DEF TouchInit, PlaceInv, TouchPlaces, Starting, Resetting, Tuning, Enabling, Ends
  <2>2. ChipShape
    <3>1. <<>> \in Seq(Works \cup {"touch"})
      OBVIOUS
    <3>. QED
      BY <3>1, TouchAssumption DEF TouchInit, ChipShape, TouchChips, Works
  <2>3. ChipInv
    BY DEF TouchInit, ChipInv, At, Tuning, Enabling
  <2>. QED
    BY <2>1, <2>2, <2>3 DEF TouchInv
<1>2. TouchInv /\ [TouchNext]_touchVars => TouchInv'
  <2>1. ASSUME TouchInv, TouchNext PROVE TouchInv'
    <3>1. PlaceInv /\ ChipShape /\ ChipInv
      BY <2>1 DEF TouchInv
    <3>2. PlaceInv' /\ ChipShape'
      BY <2>1, <3>1, PlaceKept, ShapeKept
    <3>3. ChipInv'
      BY <2>1, <3>1, CommandKeeps, WaitKeeps, LateKeeps, ControlKeeps, WorkKeeps, FingerKeeps
         DEF TouchNext, TouchStep
    <3>. QED
      BY <3>2, <3>3 DEF TouchInv
  <2>2. ASSUME TouchInv, UNCHANGED touchVars PROVE TouchInv'
    BY <2>2 DEF touchVars, TouchInv, PlaceInv, ChipShape, ChipInv, At, Ways, AtRest, Expecting
  <2>. QED
    BY <2>1, <2>2
<1>. QED
  BY <1>1, <1>2, PTL DEF TouchSpec

\* When touch_power_on says the touch screen is on, it senses fingers and has nothing else
\* to say; after the tuning both compensations are in the EEPROM.
THEOREM TouchOnIsOn == TouchSpec => []OnIsOn
<1>1. TouchInv => OnIsOn
  BY DEF TouchInv, PlaceInv, ChipShape, ChipInv, OnIsOn, At, Enabling, Both
<1>. QED
  BY <1>1, TouchInvariantHolds, PTL
=============================================================================
