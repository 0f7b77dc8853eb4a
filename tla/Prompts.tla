------------------------------ MODULE Prompts ------------------------------
(***************************************************************************)
(* The questions main.c asks: each waits for the power button to be let    *)
(* go, then for the power button or for A on the right Joy-Con, reading    *)
(* both in turn, joycon_poll included (Joycon).                            *)
(***************************************************************************)
EXTENDS Joycon

VARIABLES
    at,       \* the place in ipl_main: a question and the step of its loop
    power,    \* the power button is down
    asked     \* history: of the question shown, [down: A was down since it was,
              \* before: A was down during an earlier one, rested: a second without
              \* a poll went before it and no Joy-Con was moved since,
              \* let: the power button was let go since], and the answer it was given

promptVars == <<joyVars, at, power, asked>>

Question(q, rested) ==
    /\ at' = <<q, "release">>
    /\ asked' = [down |-> finger, before |-> asked.before \/ asked.down, rested |-> rested,
                 by |-> "nobody", let |-> FALSE]
Reached(step) == at[2] = step /\ pc = Idle
To(step) == at' = <<at[1], step>>

Released ==
    /\ Reached("release") /\ ~power
    /\ To("power") /\ asked' = [asked EXCEPT !.let = TRUE] /\ UNCHANGED <<joyVars, power>>
ReadPower ==
    /\ Reached("power")
    /\ IF power THEN To("answered") /\ asked' = [asked EXCEPT !.by = "power"]
       ELSE To("joycon") /\ UNCHANGED asked
    /\ UNCHANGED <<joyVars, power>>
PollPad == Reached("joycon") /\ joycon_poll /\ To("polled") /\ UNCHANGED <<power, asked>>
PollStep == at[2] = "polled" /\ Poll /\ UNCHANGED <<at, power, asked>>
ReadPad ==
    /\ Reached("polled")
    /\ IF "R" \in jc.held THEN To("answered") /\ asked' = [asked EXCEPT !.by = "A"]
       ELSE To("power") /\ UNCHANGED asked
    /\ jc' = [jc EXCEPT !.asked = {}]    \* msleep(50): the deadline of 15 ms is over
    /\ UNCHANGED <<device, fifo, supply, spio, gone, pc, power>>

\* The pack is there: the installation runs, for long or for less than a second.
Install ==
    /\ Reached("answered") /\ at[1] = "confirm"
    /\ \/ Question("finish", FALSE) /\ UNCHANGED jc
       \/ Question("finish", TRUE) /\ jc' = [jc EXCEPT !.quiet = [s \in Sides |-> 2], !.asked = {}]
    /\ UNCHANGED <<device, fifo, supply, spio, gone, pc, power>>
\* There is no payload to launch (half a second after the answer).
AskReboot ==
    /\ Reached("answered") /\ at[1] = "finish"
    /\ Question("reboot", FALSE) /\ UNCHANGED <<joyVars, power>>
Leave ==
    /\ Reached("answered") /\ at[1] \in {"finish", "missing", "reboot"}
    /\ at' = <<"gone", "gone">> /\ UNCHANGED <<joyVars, power, asked>>

PressPower == power' = ~power /\ UNCHANGED <<joyVars, at, asked>>
PressA ==
    /\ Press /\ UNCHANGED <<at, power>>
    /\ asked' = [asked EXCEPT !.down = @ \/ finger']
Replug ==
    /\ \E k \in {"joycon", "none"} : Change("R", k)
    /\ asked' = [asked EXCEPT !.rested = FALSE]
    /\ UNCHANGED <<at, power>>
PromptTick == Tick /\ UNCHANGED <<at, power, asked>>

IplMain == Released \/ ReadPower \/ PollPad \/ PollStep \/ ReadPad \/ Install \/ AskReboot \/ Leave
PromptInit ==
    /\ JoyInit /\ plug["L"] = "none"
    /\ \E q \in {"confirm", "missing"} : at = <<q, "release">>
    /\ power \in BOOLEAN
    /\ asked = [down |-> FALSE, before |-> FALSE, rested |-> TRUE, by |-> "nobody", let |-> FALSE]
PromptNext == IplMain \/ PressPower \/ PressA \/ Replug \/ PromptTick
PromptSpec ==
    PromptInit /\ [][PromptNext]_promptVars /\ WF_promptVars(IplMain) /\ SF_promptVars(PromptTick)
-----------------------------------------------------------------------------
\* A question is answered by the power button only after it was let go, and by A
\* only if A was down while the question was shown.  A question shown within a second
\* of the last answer (main.c:417 before :424, and a fast installation) may also take
\* the press that answered the one before: jc_gamepad still holds it until jc_init_conn
\* or the next report clears it.  So may one at which the Joy-Con is taken off for the
\* one moment jc_init_conn looks.  No question takes a press that never was.
AnswersAreFresh ==
    /\ asked.by # "nobody" => asked.let
    /\ asked.by = "A" => asked.down \/ (~asked.rested /\ asked.before)

\* Why: while a question is open, a press that is older than the question is
\* held, or waits in the UART, only until the first poll looks for the controller
\* (it has been silent for a second), or as long as there is no controller.
OldPress == "R" \in jc.held \/ fifo["R"] = "pressed"
QuestionInv ==
    /\ at \in {"confirm", "finish", "missing", "reboot"}
              \X {"release", "power", "joycon", "polled", "answered"} \cup {<<"gone", "gone">>}
    /\ asked \in [down : BOOLEAN, before : BOOLEAN, rested : BOOLEAN, by : {"nobody", "power", "A"}, let : BOOLEAN]
    /\ at[2] # "polled" => pc = Idle
    /\ at[2] \in {"release", "power", "joycon", "polled"} => asked.by = "nobody"
    /\ at[2] \in {"power", "joycon", "polled"} => asked.let
    /\ finger => asked.down
    /\ OldPress => asked.down \/ asked.before
FreshInv ==
    asked.rested /\ ~asked.down /\ asked.by = "nobody" /\ OldPress =>
        \/ jc.quiet["R"] = 2 /\ (at[2] # "polled" \/ pc = <<"init", "R">>)
        \/ plug["R"] = "none" /\ ("R" \in jc.held => pc # Idle)
PromptInv == JoyInv /\ QuestionInv /\ FreshInv /\ AnswersAreFresh

\* A finger that stays on A of a Joy-Con that stays answers every question, however
\* long the power button was held before.
PressIsHeard ==
    <>[](finger /\ plug["R"] = "joycon") /\ <>[]~power => <>(at[1] = "gone")
=============================================================================
