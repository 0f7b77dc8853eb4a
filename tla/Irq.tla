-------------------------------- MODULE Irq --------------------------------
(***************************************************************************)
(* bdk/soc/irq.c.  Interrupts arrive between any two writes of the code    *)
(* they interrupt.  A handler is known by the request it came with.  The   *)
(* code that asks for interrupts frees and waits for what it has a right   *)
(* to: it frees what it registered, and waits for a source no handler has. *)
(***************************************************************************)
EXTENDS Naturals, FiniteSets

CONSTANTS
    Sources,      \* interrupt numbers; 0 marks a free slot
    SlotCount,    \* IRQ_MAX_HANDLERS
    MaxRequests   \* how often irq_request is called

ASSUME IrqAssumption == SlotCount \in Nat \ {0} /\ MaxRequests \in Nat /\ Sources \subseteq Nat \ {0}

Slots == 1..SlotCount
NULLH == 0                            \* no handler: requests count from 1
Flags == {"none", "once", "replaceable"}
FreeSlot == [irq |-> 0, handler |-> NULLH, data |-> NULLH, flags |-> "none"]

VARIABLES
    irqs,      \* the table
    lic,       \* the controller: [on: sources enabled, raised: sources raised]
    cpu,       \* [ready: irq_init_done, open: the processor takes interrupts]
    task,      \* what the interrupted code does
    isr,       \* what irq_handler does
    past       \* history: [flags of each request, interrupts each one-off handler
               \* served, counted up to 2, lapses]

irqVars == <<irqs, lic, cpu, task, isr, past>>

NoTask == [op |-> "none", irq |-> 0, slot |-> 0, step |-> "none"]
NoIsr == [irq |-> 0, slot |-> 0, said |-> "none"]
Interrupted == isr.irq # 0
Has(i) == \E s \in Slots : irqs[s].irq = i /\ irqs[s].handler # NULLH
Requested == Cardinality(DOMAIN past.flags)
On(i) == [lic EXCEPT !.on = @ \cup {i}]
DisableAck(i) == [on |-> lic.on \ {i}, raised |-> lic.raised \ {i}]
-----------------------------------------------------------------------------
\* irq_request looks for a slot: the first that is free, or holds a replaceable
\* handler of this interrupt; one that holds another handler of it ends the search.
Stops(s, i) == irqs[s].handler = NULLH \/ irqs[s].irq = i
Usable(s, i) == irqs[s].handler = NULLH \/ irqs[s].flags = "replaceable"
irq_request ==
    /\ task.step = "none" /\ ~Interrupted /\ Requested < MaxRequests
    /\ \E i \in Sources, f \in Flags, s \in Slots :
          /\ Stops(s, i) /\ \A t \in 1..(s - 1) : ~Stops(t, i)
          /\ Usable(s, i)
          /\ task' = [op |-> f, irq |-> i, slot |-> s, step |-> "irq"]
          /\ past' = [past EXCEPT !.lapses =
                        IF irqs[s].irq # i /\ Has(i) THEN @ \cup {"twice"} ELSE @]
    /\ cpu' = [cpu EXCEPT !.ready = TRUE]    \* _irq_init, the first time
    /\ lic' = IF cpu.ready THEN lic ELSE [on |-> {}, raised |-> lic.raised \ lic.on]
    /\ UNCHANGED <<irqs, isr>>
FillStep(from, to, e) ==
    /\ task.step = from /\ ~Interrupted
    /\ irqs' = [irqs EXCEPT ![task.slot] = e]
    /\ task' = [task EXCEPT !.step = to]
    /\ UNCHANGED <<lic, cpu, isr>>
Entry == irqs[task.slot]
FillSlot ==
    \/ FillStep("irq", "handler", [Entry EXCEPT !.irq = task.irq]) /\ UNCHANGED past
    \/ /\ FillStep("handler", "data", [Entry EXCEPT !.handler = Requested + 1])
       /\ past' = [flags |-> [r \in 1..Requested + 1 |->
                                 IF r <= Requested THEN past.flags[r] ELSE task.op],
                   served |-> [r \in 1..Requested + 1 |->
                                 IF r <= Requested THEN past.served[r] ELSE 0],
                   lapses |-> past.lapses]
    \/ FillStep("data", "flags", [Entry EXCEPT !.data = Requested]) /\ UNCHANGED past
    \/ FillStep("flags", "enable", [Entry EXCEPT !.flags = task.op]) /\ UNCHANGED past
EnableSource ==
    /\ task.step = "enable" /\ ~Interrupted
    /\ lic' = On(task.irq) /\ task' = NoTask
    /\ UNCHANGED <<irqs, cpu, isr, past>>

FreeMatching(i) ==
    irqs' = [s \in Slots |-> IF irqs[s].irq = i /\ irqs[s].handler # NULLH THEN FreeSlot
                             ELSE irqs[s]]
\* irq_free clears the slot, and the source after it.
irq_free ==
    /\ task.step = "none" /\ ~Interrupted
    /\ \E i \in Sources :
          /\ Has(i) /\ FreeMatching(i)
          /\ task' = [op |-> "free", irq |-> i, slot |-> 0, step |-> "disable"]
    /\ UNCHANGED <<lic, cpu, isr, past>>
DisableSource ==
    /\ task.step = "disable" /\ ~Interrupted
    /\ lic' = [lic EXCEPT !.on = @ \ {task.irq}] /\ task' = NoTask
    /\ UNCHANGED <<irqs, cpu, isr, past>>

irq_end ==
    /\ task.step = "none" /\ ~Interrupted /\ cpu.ready
    /\ irqs' = [s \in Slots |-> FreeSlot]
    /\ lic' = [lic EXCEPT !.on = @ \ {irqs[s].irq : s \in {t \in Slots : irqs[t].handler # NULLH}}]
    /\ cpu' = [ready |-> FALSE, open |-> FALSE]
    /\ UNCHANGED <<task, isr, past>>

\* irq_wait_event halts the processor until the source is raised.
irq_wait_event ==
    /\ task.step = "none" /\ ~Interrupted
    /\ \E i \in Sources :
          /\ ~Has(i) /\ lic' = On(i)
          /\ task' = [op |-> "wait", irq |-> i, slot |-> 0, step |-> "halt"]
    /\ cpu' = [cpu EXCEPT !.open = FALSE]
    /\ UNCHANGED <<irqs, isr, past>>
Woken ==
    /\ task.step = "halt" /\ lic.on \cap lic.raised # {}
    /\ lic' = DisableAck(task.irq)
    /\ cpu' = [cpu EXCEPT !.open = TRUE]
    /\ task' = NoTask
    /\ UNCHANGED <<irqs, isr, past>>
irq_disable_wait_event ==
    /\ task.step = "none" /\ ~Interrupted /\ ~cpu.open
    /\ cpu' = [cpu EXCEPT !.open = TRUE]
    /\ UNCHANGED <<irqs, lic, task, isr, past>>
-----------------------------------------------------------------------------
irq_handler ==
    /\ cpu.open /\ ~Interrupted
    /\ \E i \in lic.on \cap lic.raised :
          /\ lic' = DisableAck(i)
          /\ isr' = IF cpu.ready THEN [irq |-> i, slot |-> 1, said |-> "none"] ELSE NoIsr
    /\ UNCHANGED <<irqs, cpu, task, past>>

Looking == Interrupted /\ isr.slot <= SlotCount /\ isr.said # "handled"
NextSlot ==
    /\ Looking /\ irqs[isr.slot].irq # isr.irq
    /\ isr' = [isr EXCEPT !.slot = @ + 1]
    /\ UNCHANGED <<irqs, lic, cpu, task, past>>
\* The handler of the slot is called and says whether the interrupt was its own.
CallHandler ==
    LET e == irqs[isr.slot]
        torn == e.handler = NULLH \/ e.data # e.handler \/ e.flags # past.flags[e.handler]
    IN /\ Looking /\ e.irq = isr.irq
       /\ \E said \in {"handled", "none"} :
             /\ past' = [past EXCEPT !.lapses = IF torn THEN @ \cup {"torn"} ELSE @,
                                     !.served = [r \in DOMAIN @ |->
                                         IF r = e.handler /\ said = "handled" /\ e.flags = "once" /\ @[r] < 2
                                         THEN @[r] + 1 ELSE @[r]]]
             /\ isr' = [isr EXCEPT !.said = said, !.slot = IF said = "handled" THEN @ ELSE @ + 1]
       /\ UNCHANGED <<irqs, lic, cpu, task>>
NotHandled ==
    /\ Interrupted /\ isr.slot > SlotCount
    /\ isr' = NoIsr
    /\ UNCHANGED <<irqs, lic, cpu, task, past>>
Handled_not_freed ==    \* mutant: a one-off handler stays in its slot
    /\ Interrupted /\ isr.said = "handled"
    /\ lic' = On(isr.irq) /\ UNCHANGED irqs
    /\ isr' = NoIsr
    /\ UNCHANGED <<cpu, task, past>>
Handled ==
    /\ Interrupted /\ isr.said = "handled"
    /\ IF irqs[isr.slot].flags = "once" THEN FreeMatching(isr.irq) /\ UNCHANGED lic
       ELSE lic' = On(isr.irq) /\ UNCHANGED irqs
    /\ isr' = NoIsr
    /\ UNCHANGED <<cpu, task, past>>

Raise ==
    /\ \E i \in Sources : lic' = [lic EXCEPT !.raised = @ \cup {i}]
    /\ UNCHANGED <<irqs, cpu, task, isr, past>>

IrqCalls == irq_request \/ irq_free \/ irq_end \/ irq_wait_event \/ irq_disable_wait_event
Task == FillSlot \/ EnableSource \/ DisableSource \/ Woken
Isr == irq_handler \/ NextSlot \/ CallHandler \/ NotHandled \/ Handled
IrqInit ==
    /\ irqs = [s \in Slots |-> FreeSlot] /\ lic = [on |-> {}, raised |-> {}]
    /\ cpu = [ready |-> FALSE, open |-> TRUE] /\ task = NoTask /\ isr = NoIsr
    /\ past = [flags |-> <<>>, served |-> <<>>, lapses |-> {}]
IrqNext == IrqCalls \/ Task \/ Isr \/ Raise
IrqSpec == IrqInit /\ [][IrqNext]_irqVars
-----------------------------------------------------------------------------
IrqTypeOK ==
    /\ irqs \in [Slots -> [irq : Sources \cup {0}, handler : 0..MaxRequests,
                           data : 0..MaxRequests, flags : Flags]]
    /\ lic \in [on : SUBSET Sources, raised : SUBSET Sources]
    /\ cpu \in [ready : BOOLEAN, open : BOOLEAN]
    /\ isr \in [irq : Sources \cup {0}, slot : 0..SlotCount + 1, said : {"none", "handled"}]

\* Whatever is interrupted, a handler is called whole: there is one, with its own
\* data and flags, and a one-off handler serves one interrupt.  The exceptions are two: a
\* replaceable handler replaced while its source is on (irq.c:222 writes the slot
\* field by field), and an interrupt requested again while a lower slot is free
\* (irq.c:215 takes the free slot before it looks further), which is then registered
\* twice.
Replaced == \E r \in DOMAIN past.flags : past.flags[r] = "replaceable"
HandlersWhole ==
    /\ "torn" \in past.lapses => "twice" \in past.lapses \/ Replaced
    /\ past.lapses = {} =>
          /\ \A r \in DOMAIN past.flags : past.flags[r] = "once" => past.served[r] <= 1
          /\ \A s, t \in Slots : irqs[s].irq = irqs[t].irq /\ irqs[s].irq # 0 => s = t
\* A source is on only for somebody: a handler, a wait, or a call about to end
\* (and after a one-off handler that was served before irq.c:227, which puts the
\* source on again: it replaced one whose source was on).
SourcesOwned ==
    past.lapses = {} /\ ~Replaced => \A i \in lic.on : Has(i) \/ task.irq = i

(***************************************************************************)
(* Why: the inductive invariant.                                           *)
(***************************************************************************)
\* What the program is at, what the interrupt is at, and what they exclude: a task
\* rests while an interrupt is served, and the source being served is off.
Filling == task.step \in {"irq", "handler", "data", "flags"}
Placed ==
    /\ IrqTypeOK
    /\ task \in [op : Flags \cup {"free", "wait"}, irq : Sources \cup {0}, slot : Slots \cup {0},
                 step : {"none", "irq", "handler", "data", "flags", "enable", "disable", "halt"}]
    /\ past \in [flags : [1..Requested -> Flags], served : [1..Requested -> 0..2],
                 lapses : SUBSET {"twice", "torn"}]
    /\ Requested \in 0..MaxRequests
    /\ task.step = "none" => task = NoTask
    /\ Filling \/ task.step = "enable" =>
          task.irq \in Sources /\ task.slot \in Slots /\ task.op \in Flags
    /\ task.step \in {"irq", "handler"} => Requested < MaxRequests
    /\ task.step \in {"data", "flags"} => Requested > 0
    /\ task.step = "halt" => ~cpu.open /\ ~Interrupted
    /\ isr.irq = 0 => isr.said = "none"
    /\ isr.irq # 0 => isr.slot > 0
    /\ isr.said = "handled" => isr.slot \in Slots
    /\ isr.irq \notin lic.on

\* A slot is free, or has one request's handler, data and flags.
Whole(s) ==
    \/ irqs[s] = FreeSlot
    \/ /\ irqs[s].irq \in Sources /\ irqs[s].handler \in 1..Requested
       /\ irqs[s].data = irqs[s].handler /\ irqs[s].flags = past.flags[irqs[s].handler]
\* The slot being written, before each of the writes.
InHand ==
    LET e == irqs[task.slot]
    IN /\ task.step = "irq" =>
             e = FreeSlot \/ (Whole(task.slot) /\ e.irq = task.irq /\ e.flags = "replaceable")
       /\ task.step # "irq" => e.irq = task.irq
       /\ task.step = "handler" =>
             \/ e.handler = NULLH /\ e.data = NULLH /\ e.flags = "none"
             \/ Whole(task.slot) /\ e.flags = "replaceable"
       /\ task.step \in {"data", "flags"} =>
             /\ e.handler = Requested /\ past.flags[Requested] = task.op
             /\ e.flags = "none" \/ (e.flags = "replaceable" /\ Replaced)
             /\ past.served[Requested] = 0 \/ task.step = "flags"
       /\ task.step = "data" => e.data # Requested
       /\ task.step = "flags" => e.data = Requested

\* As long as nothing was registered twice or called in pieces: every other slot is
\* whole, a source and a request are in one slot at most, the handler that has
\* answered is still in its slot, and a one-off handler that has served is about to
\* leave it.
SlotsWhole ==
    /\ \A s \in Slots : Whole(s) \/ (Filling /\ task.slot = s)
    /\ Filling => InHand
SourcesOnce ==
    /\ \A s, t \in Slots : irqs[s].irq = irqs[t].irq /\ irqs[s].irq # 0 => s = t
    /\ task.step = "irq" => \A s \in Slots : irqs[s].irq = task.irq => s = task.slot
HandlersOnce ==
    \A s, t \in Slots : irqs[s].handler = irqs[t].handler /\ irqs[s].handler # NULLH => s = t
AnsweredInv ==
    isr.said = "handled" =>
        /\ irqs[isr.slot].irq = isr.irq /\ irqs[isr.slot].handler \in 1..Requested
        /\ irqs[isr.slot].flags = past.flags[irqs[isr.slot].handler]
ServedOnce ==
    \A r \in 1..Requested : past.flags[r] = "once" /\ past.served[r] # 0 =>
        /\ past.served[r] = 1
        /\ \A s \in Slots : irqs[s].handler = r => isr.said = "handled" /\ isr.slot = s
TableInv ==
    past.lapses = {} => SlotsWhole /\ SourcesOnce /\ HandlersOnce /\ AnsweredInv /\ ServedOnce

\* As long as nothing was replaced either: a handler is called whole, a source that is
\* on has an owner, and the one being registered is off.
OwnInv ==
    "twice" \notin past.lapses /\ ~Replaced =>
        /\ "torn" \notin past.lapses
        /\ \A i \in lic.on : Has(i) \/ task.irq = i
        /\ Filling \/ task.step = "enable" => task.irq \notin lic.on /\ isr.irq # task.irq
        /\ task.step = "enable" => irqs[task.slot].irq = task.irq /\ irqs[task.slot].handler # NULLH
IrqInv == Placed /\ TableInv /\ OwnInv
=============================================================================
