----------------------------- MODULE MCSoftware -----------------------------
(***************************************************************************)
(* The parts of the payload that share nothing but the processor, one at a *)
(* time: the part that runs is chosen at the start, the others do nothing. *)
(* The heap is bounded by HeapRoom units.                                  *)
(***************************************************************************)
EXTENDS Prompts, Irq, Buses, Touch, Heap, Dram, Console, Decoders, IniFiles

CONSTANT HeapRoom
VARIABLE part

devices == <<promptVars, irqVars, busVars, touchVars, dram>>
programs == <<heapVars, conVars, calc, iniVars>>
vars == <<part, devices, programs>>

\* The sources are alike: the first request is for source 1.
OneFirst == (Requested = 0 /\ task'.op \in Flags) => task'.irq \in {0, 1}
InRoom == \A a \in DOMAIN nodes' : a + nodes'[a].size < HeapRoom
Unused == "unused"
NoConsole ==
    /\ con = Unused /\ outside = FALSE /\ rows = {} /\ covered = FALSE
    /\ todo = <<>> /\ fallbacks = 0 /\ pen = PenUp
NoFiles ==
    /\ ini = Parsing(<<>>, FALSE, "idle") /\ list = Listing(<<>>, "idle")
    /\ keys = [Held({}, TRUE) EXCEPT !.answer = {}]

SoftwareInit ==
    /\ part \in {"joycon", "prompts", "irq", "buses", "touch", "dram", "heap", "console", "decoders", "files"}
    /\ IrqInit /\ BusInit /\ TouchInit /\ HeapInit
    /\ IF part = "joycon" THEN JoyInit /\ at = <<"confirm", "release">> /\ power = FALSE
                               /\ asked = [down |-> FALSE, before |-> FALSE, rested |-> TRUE, by |-> "nobody", let |-> FALSE]
       ELSE PromptInit /\ (part # "prompts" => at[1] = "confirm" /\ ~power /\ plug["R"] = "joycon")
    /\ IF part = "dram" THEN DramInit ELSE dram = Unused
    /\ IF part = "console" THEN ConsoleInit ELSE NoConsole
    /\ IF part = "decoders" THEN DecodeInit ELSE calc = Unused
    /\ IF part = "files" THEN IniInit ELSE NoFiles
SoftwareNext ==
    \/ /\ part = "joycon" /\ JoyNext
       /\ UNCHANGED <<part, at, power, asked, irqVars, busVars, touchVars, dram, programs>>
    \/ /\ part = "prompts" /\ PromptNext
       /\ UNCHANGED <<part, irqVars, busVars, touchVars, dram, programs>>
    \/ /\ part = "irq" /\ IrqNext /\ OneFirst
       /\ UNCHANGED <<part, promptVars, busVars, touchVars, dram, programs>>
    \/ /\ part = "buses" /\ BusNext
       /\ UNCHANGED <<part, promptVars, irqVars, touchVars, dram, programs>>
    \/ /\ part = "touch" /\ TouchNext
       /\ UNCHANGED <<part, promptVars, irqVars, busVars, dram, programs>>
    \/ /\ part = "dram" /\ DramNext
       /\ UNCHANGED <<part, promptVars, irqVars, busVars, touchVars, programs>>
    \/ /\ part = "heap" /\ HeapNext /\ InRoom
       /\ UNCHANGED <<part, devices, conVars, calc, iniVars>>
    \/ /\ part = "console" /\ ConsoleNext
       /\ UNCHANGED <<part, devices, heapVars, calc, iniVars>>
    \/ /\ part = "decoders" /\ Decode
       /\ UNCHANGED <<part, devices, heapVars, conVars, iniVars>>
    \/ /\ part = "files" /\ IniNext
       /\ UNCHANGED <<part, devices, heapVars, conVars, calc>>
SoftwareSpec ==
    /\ SoftwareInit /\ [][SoftwareNext]_vars
    /\ WF_joyVars(part = "joycon" /\ (Poll \/ joycon_poll))
    /\ WF_promptVars(part = "prompts" /\ IplMain)
    /\ SF_joyVars(part \in {"joycon", "prompts"} /\ Tick)
    /\ WF_busVars(part = "buses" /\ I2cDriver) /\ WF_busVars(part = "buses" /\ TimeOut)
    /\ WF_touchVars(part = "touch" /\ TouchStep) /\ WF_touchVars(part = "touch" /\ WorkDone)
    /\ WF_conVars(part = "console" /\ (gfx_line \/ EndLine))
    /\ WF_iniVars(part = "files" /\ (ini_parse \/ ReadLine \/ FreeSection))
-----------------------------------------------------------------------------
\* The types of all parts.
SoftwareTypeOK ==
    /\ JoyTypeOK /\ IrqTypeOK /\ BusTypeOK /\ TouchTypeOK /\ HeapTypeOK
    /\ part = "dram" => DramTypeOK
    /\ part = "console" => ConsoleTypeOK
\* What the program holds of its devices is true of them: Joy-Cons that are reported
\* are there and their answers are fresh, interrupt handlers are whole and serve the
\* sources they own, a transfer that reports success carried every byte, touch is on
\* when it says so, and the memory was started in order and serves every rank.
DevicesTrue ==
    /\ PadTrue /\ JoyInv /\ AnswersAreFresh /\ (part = "prompts" => PromptInv)
    /\ (part = "irq" => IrqInv) /\ HandlersWhole /\ SourcesOwned
    /\ TransferTrue /\ ReceivesWhatCame /\ (part = "buses" => BusInv)
    /\ OnIsOn /\ (part = "touch" => TouchInv)
    /\ part = "dram" => DramInOrder /\ DramServes
\* The chain of the heap stays whole, freed neighbours are merged and the monitor
\* counts every node; text stays on the screen and messages on it; calculations,
\* parsed files and sorted lists are what they stand for.
ProgramsRight ==
    /\ HeapInv /\ Merged /\ MonitorCountsAll
    /\ DrawnInside /\ MessagesKept /\ SectionsRight /\ ListSorted /\ AnswerIsNew
    /\ part = "decoders" => DecodersRight
\* Every wait of the program ends: an attached Joy-Con is heard, a press answers its
\* question (joycon.c, main.c:378-430), a transfer and the start of touch return, a line
\* is drawn and a file that can be read is parsed (i2c.c, touch.c:329, gfx.c:611, ini.c:112).
Waiting == Transferring \/ (part = "touch" /\ PoweringOn) \/ Drawing \/ Unparsed
SoftwareReturns ==
    /\ part = "joycon" => AttachedIsHeard
    /\ part = "prompts" => PressIsHeard
    /\ Waiting ~> ~Waiting
=============================================================================
