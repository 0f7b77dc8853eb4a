------------------------------- MODULE Touch -------------------------------
(***************************************************************************)
(* How bdk/input/touch.c brings up and tunes the touch controller: a       *)
(* program of commands and waits, each with the place it goes on at when   *)
(* it works and when it fails, against a controller that answers late, or  *)
(* never, and a bus that loses commands.                                   *)
(***************************************************************************)
EXTENDS Naturals, Sequences

CONSTANT MaxTrouble    \* commands that fail and answers that come late or never

ASSUME TouchAssumption == MaxTrouble \in Nat

VARIABLES
    prog,    \* [at, ok, fail: the places after touch_sys_reset, tries, retries,
             \* passed: the ITO test found no error, tuning]
    chip     \* [on, mode, sense, tuned, saved, work, events, trouble]

touchVars == <<prog, chip>>

Cmd(c, ok, fail) == [do |-> "cmd", what |-> c, ok |-> ok, fail |-> fail]
Wait(e, ok, fail) == [do |-> "wait", what |-> e, ok |-> ok, fail |-> fail]
Reset(ok, fail) == [do |-> "call", what |-> "reset", ok |-> ok, fail |-> fail]

touch_sys_reset ==
    [reset      |-> Cmd("reset", "reset_wait", "reset_again"),
     reset_wait |-> Wait("ready", "reset_ok", "reset_again")]
touch_panel_ito_test ==
    [ito      |-> Reset("ito_cmd", "init"),
     ito_cmd  |-> Cmd("ito", "ito_wait", "init"),
     ito_wait |-> Wait("ito", "ito_end", "ito_late"),
     ito_end  |-> Reset("ito_verdict", "ito_verdict"),
     ito_late |-> Reset("init", "init")]
touch_execute_autotune_unsaved ==    \* mutant: the tuning is saved before the second half
    [tune     |-> Reset("lp", "failed"),
     lp       |-> Cmd("lp", "ms", "failed"),
     ms       |-> Cmd("ms", "ms_wait", "failed"),
     ms_wait  |-> Wait("ms", "save", "failed"),
     save     |-> Cmd("save", "saved", "failed"),
     saved    |-> Wait("save", "ss", "failed"),
     ss       |-> Cmd("ss", "ss_wait", "failed"),
     ss_wait  |-> Wait("ss", "finger", "failed")]
touch_execute_autotune ==
    [tune     |-> Reset("lp", "failed"),
     lp       |-> Cmd("lp", "ms", "failed"),
     ms       |-> Cmd("ms", "ms_wait", "failed"),
     ms_wait  |-> Wait("ms", "ss", "failed"),
     ss       |-> Cmd("ss", "ss_wait", "failed"),
     ss_wait  |-> Wait("ss", "save", "failed"),
     save     |-> Cmd("save", "saved", "failed"),
     saved    |-> Wait("save", "finger", "failed")]
touch_sense_enable ==
    [finger |-> Cmd("finger", "sense", "not_on"),
     sense  |-> Cmd("sense", "clear", "not_on"),
     clear  |-> Cmd("clear", "on", "not_on")]
touch_init == [init |-> Reset("finger", "again")]
touch_power_on == [boot |-> Wait("ready", "buttons", "buttons")]
Joined(f, g) == [p \in DOMAIN f \cup DOMAIN g |-> IF p \in DOMAIN f THEN f[p] ELSE g[p]]
Program ==
    Joined(touch_sys_reset, Joined(touch_panel_ito_test, Joined(touch_execute_autotune,
           Joined(touch_sense_enable, Joined(touch_init, touch_power_on)))))

At(place) == prog.at = place
Runs(do) == prog.at \in DOMAIN Program /\ Program[prog.at].do = do
Now == Program[prog.at]
Goto(place) == prog' = [prog EXCEPT !.at = place]
-----------------------------------------------------------------------------
\* What the controller makes of a command: a reset forgets all that is not saved.
Taken(c) ==
    CASE c = "reset" -> [chip EXCEPT !.mode = "none", !.sense = FALSE, !.tuned = {},
                                     !.work = "ready", !.events = <<>>]
      [] c = "finger" -> [chip EXCEPT !.mode = c]
      [] c = "sense" -> [chip EXCEPT !.sense = TRUE]
      [] c = "clear" -> [chip EXCEPT !.events = <<>>]
      [] c = "lp" -> chip
      [] OTHER -> [chip EXCEPT !.work = c]
Trouble(c) == [c EXCEPT !.trouble = @ - 1]

touch_command ==
    /\ Runs("cmd")
    /\ \/ Goto(Now.ok) /\ chip' = Taken(Now.what)
       \/ /\ chip.trouble > 0 /\ Goto(Now.fail)
          /\ chip' \in {Trouble(chip), Trouble(Taken(Now.what))}
\* Each read takes one event off the controller's stack, wanted or not.
touch_wait_event ==
    /\ Runs("wait") /\ chip.events # <<>>
    /\ IF Head(chip.events) = Now.what THEN Goto(Now.ok) ELSE UNCHANGED prog
    /\ chip' = [chip EXCEPT !.events = Tail(@)]
Late ==
    /\ Runs("wait") /\ chip.events = <<>>
    /\ \/ chip.trouble > 0 /\ chip' = Trouble(chip)
       \/ chip.work # Now.what /\ UNCHANGED chip
    /\ Goto(Now.fail)
CallReset ==
    /\ Runs("call")
    /\ prog' = [prog EXCEPT !.at = "reset", !.tries = 3, !.ok = Now.ok, !.fail = Now.fail]
    /\ UNCHANGED chip
ResetAgain ==
    /\ At("reset_again")
    /\ prog' = IF prog.tries > 1 THEN [prog EXCEPT !.at = "reset", !.tries = @ - 1]
               ELSE [prog EXCEPT !.at = prog.fail]
    /\ UNCHANGED chip
ResetOk == At("reset_ok") /\ Goto(prog.ok) /\ UNCHANGED chip

\* Both volume buttons are down, and the test may find errors.
Buttons ==
    /\ At("buttons")
    /\ \E place \in {"ito", "init"}, passed \in BOOLEAN :
          prog' = [prog EXCEPT !.at = place, !.passed = passed]
    /\ UNCHANGED chip
Verdict ==
    /\ At("ito_verdict")
    /\ prog' = IF prog.passed THEN [prog EXCEPT !.at = "tune", !.tuning = TRUE]
               ELSE [prog EXCEPT !.at = "init"]
    /\ UNCHANGED chip
NotOn == At("not_on") /\ Goto(IF prog.tuning THEN "failed" ELSE "again") /\ UNCHANGED chip
Again ==
    /\ At("again")
    /\ prog' = IF prog.retries > 1 THEN [prog EXCEPT !.at = "init", !.retries = @ - 1]
               ELSE [prog EXCEPT !.at = "failed"]
    /\ UNCHANGED chip

TouchPowerOff ==
    /\ prog.at \in {"on", "failed"} /\ Goto("off")
    /\ chip' = [chip EXCEPT !.on = FALSE, !.sense = FALSE, !.work = "none", !.events = <<>>]

\* The controller ends its work with an event, if trouble does not take it.
WorkDone ==
    /\ chip.on /\ chip.work # "none"
    /\ LET done == [chip EXCEPT !.work = "none",
                                !.tuned = IF chip.work \in {"ms", "ss"} THEN @ \cup {chip.work} ELSE @,
                                !.saved = IF chip.work = "save" THEN chip.tuned ELSE @]
       IN \/ chip' = [done EXCEPT !.events = Append(@, chip.work)]
          \/ chip.trouble > 0 /\ chip' = [Trouble(chip) EXCEPT !.work = "none"]
    /\ UNCHANGED prog
Finger ==
    /\ chip.on /\ chip.sense /\ Len(chip.events) < 2
    /\ chip' = [chip EXCEPT !.events = Append(@, "touch")]
    /\ UNCHANGED prog

TouchStep ==
    \/ touch_command \/ touch_wait_event \/ Late \/ CallReset \/ ResetAgain \/ ResetOk
    \/ Buttons \/ Verdict \/ NotOn \/ Again
TouchInit ==
    /\ prog = [at |-> "boot", ok |-> "failed", fail |-> "failed", tries |-> 0, retries |-> 3,
               passed |-> FALSE, tuning |-> FALSE]
    /\ chip = [on |-> TRUE, mode |-> "none", sense |-> FALSE, tuned |-> {}, saved |-> {},
               work |-> "ready", events |-> <<>>, trouble |-> MaxTrouble]
TouchNext == TouchStep \/ WorkDone \/ Finger \/ TouchPowerOff
TouchSpec == TouchInit /\ [][TouchNext]_touchVars /\ WF_touchVars(TouchStep) /\ WF_touchVars(WorkDone)
-----------------------------------------------------------------------------
TouchTypeOK ==
    /\ prog.tries \in 0..3 /\ prog.retries \in 1..3
    /\ prog.at \in DOMAIN Program \cup {"reset_again", "reset_ok", "buttons", "ito_verdict",
                                        "not_on", "again", "on", "failed", "off"}
    /\ chip.tuned \subseteq {"ms", "ss"} /\ chip.saved \subseteq {"ms", "ss"}
    /\ Len(chip.events) <= 4

\* When touch_power_on says the touch screen is on it senses fingers, and nothing from
\* before is left to be read as one; after the tuning (touch.c:361) both
\* compensations are in the EEPROM, whatever was lost or late on the way.
OnIsOn ==
    At("on") =>
        /\ chip.on /\ chip.sense /\ chip.mode = "finger"
        /\ \A i \in DOMAIN chip.events : chip.events[i] = "touch"
        /\ prog.tuning => chip.saved = {"ms", "ss"}
\* Why: what is known of the controller at each place.  A reset that worked leaves it
\* with nothing to do and nothing to say; from then on it has at most the work of the
\* last command, and what it says is about that.
Starting == {"boot", "buttons", "ito", "ito_cmd", "ito_wait", "ito_end", "ito_late", "ito_verdict",
            "init", "again"}
Resetting == {"reset", "reset_wait", "reset_again", "reset_ok"}
Tuning == {"tune", "lp", "ms", "ms_wait", "ss", "ss_wait", "save", "saved"}
Enabling == {"finger", "sense", "clear", "on"}
Works == {"ready", "ito", "ms", "ss", "save"}
\* Where each call of touch_sys_reset goes on.
Ways == IF prog.tuning THEN {<<"lp", "failed">>}
        ELSE {<<"ito_cmd", "init">>, <<"ito_verdict", "ito_verdict">>, <<"init", "init">>,
              <<"finger", "again">>}
TouchPlaces == Starting \cup Resetting \cup Tuning \cup Enabling \cup {"not_on", "failed", "off"}
Ends == {"lp", "ito_cmd", "ito_verdict", "init", "finger", "again", "failed"}
PlaceInv ==
    /\ prog \in [at : TouchPlaces, ok : Ends, fail : Ends, tries : 0..3, retries : 1..3,
                 passed : BOOLEAN, tuning : BOOLEAN]
    /\ prog.at \in Starting => ~prog.tuning
    /\ prog.at \in Tuning => prog.tuning
    /\ prog.at \in Resetting => <<prog.ok, prog.fail>> \in Ways
TouchChips == [on : BOOLEAN, mode : {"none", "finger"}, sense : BOOLEAN, tuned : SUBSET {"ms", "ss"},
          saved : SUBSET {"ms", "ss"}, work : Works \cup {"none"},
          events : Seq(Works \cup {"touch"}), trouble : Nat]
ChipShape == chip \in TouchChips /\ (prog.at # "off" => chip.on)
AtRest == chip.work = "none" /\ chip.events = <<>>
Expecting(e) ==
    \/ chip.work = e /\ chip.events = <<>>
    \/ chip.work = "none" /\ chip.events \in {<<>>, <<e>>}
Both == {"ms", "ss"}
ChipInv ==
    /\ At("reset_wait") => Expecting("ready")
    /\ prog.at \in {"reset_ok", "lp", "ms", "ss", "save", "finger"} => AtRest
    /\ At("ms_wait") => Expecting("ms")
    /\ At("ss_wait") => Expecting("ss")
    /\ At("saved") => Expecting("save")
    /\ prog.at \in {"reset_wait", "reset_ok", "finger"} \cup (Tuning \ {"tune"}) => ~chip.sense
    /\ prog.at \in {"reset_wait", "reset_ok", "lp", "ms"} => chip.tuned = {}
    /\ At("ms_wait") /\ chip.work # "none" => chip.tuned = {}
    /\ At("ms_wait") /\ chip.events # <<>> => chip.tuned = {"ms"}
    /\ At("ss") => chip.tuned = {"ms"}
    /\ At("ss_wait") /\ chip.work # "none" => chip.tuned = {"ms"}
    /\ At("ss_wait") /\ chip.events # <<>> => chip.tuned = Both
    /\ prog.at \in {"save", "saved"} => chip.tuned = Both
    /\ At("saved") /\ chip.events # <<>> => chip.saved = Both
    /\ prog.at \in Enabling /\ prog.tuning => chip.saved = Both
    /\ prog.at \in Enabling => chip.work = "none"
    /\ prog.at \in {"sense", "clear", "on"} => chip.mode = "finger"
    /\ prog.at \in {"clear", "on"} => chip.sense
    /\ At("on") => \A i \in DOMAIN chip.events : chip.events[i] = "touch"
TouchInv == PlaceInv /\ ChipShape /\ ChipInv

\* touch_power_on is under way; it always says something in the end.
PoweringOn == prog.at \notin {"on", "failed", "off"}
=============================================================================
