------------------------------ MODULE Interrupts ------------------------------
(***************************************************************************)
(* Hardware interrupts of the kernel: the two 8259 chips as PIC::Init      *)
(* programs them (edge triggered, normal end of interrupt), the stubs and  *)
(* dispatchers of OS/irq, and the three devices with handlers - timer,     *)
(* keyboard, real-time clock - raising requests at any moment while        *)
(* SYSTEM::Init runs and after it.                                         *)
(*                                                                         *)
(* A device line is an edge: what is not acknowledged at the chip AND at   *)
(* the device is never requested again.                                    *)
(***************************************************************************)
EXTENDS Integers, Sequences

CONSTANT Burst  \* bound: requests of one device before the CPU idles again
ASSUME BurstAssumption == Burst \in Nat \ {0}

PIT == 0        \* IRQ_PIT
KEYBOARD == 1   \* IRQ_KEYBOARD
SLAVE == 2      \* IRQ_SLAVE, the second chip's output
RTC == 8        \* IRQ_RTC
Device == {PIT, KEYBOARD, RTC}
Master == {PIT, KEYBOARD, SLAVE}

VARIABLES
  line,      \* keyboard buffer full / clock's register C flag and enable bit set
  flag,      \* register C of the clock: a period has elapsed
  enabled,   \* bit 6 of the clock's register B
  irr, isr, imr,  \* requested, in service, masked (both chips)
  boot,      \* where SYSTEM::Init stands
  handlers,  \* interrupts whose handler is registered
  iflag,     \* IF
  shadow,    \* the instruction after sti: no interrupt is taken before it
  frames,    \* interrupt frames on the stack, newest first
  budget,    \* requests a device may still make before the CPU idles
  missed     \* history: a key was waiting when PIC::Init reset the edges

chips == <<irr, isr, imr>>
device == <<line, flag, enabled>>
cpu == <<boot, handlers, iflag, shadow, frames, missed>>
vars == <<device, chips, cpu, budget>>

Init ==
  /\ line \in {{}, {KEYBOARD}} /\ flag \in BOOLEAN /\ enabled = FALSE
  /\ irr = line /\ isr = {} /\ imr = {}
  /\ boot = "pic" /\ handlers = {}
  /\ iflag = FALSE /\ shadow = FALSE /\ frames = <<>>
  /\ budget = [d \in Device |-> Burst]
  /\ missed = FALSE

-------------------------------------------------------------------------------
(* The chips *)

\* The second chip asks the first when it has a request to pass on.
SlaveAsks(requested, inService, masked) ==
  RTC \in requested /\ RTC \notin inService /\ RTC \notin masked

\* New requests on the chips; a rising output of the second chip is one too.
Request(new, inService, masked) ==
  irr' = new \cup (IF SlaveAsks(new, inService, masked) /\ ~SlaveAsks(irr, isr, imr)
                     THEN {SLAVE} ELSE {})

\* What the first chip may signal: not masked, nothing as urgent in service.
Pending == {i \in irr \cap Master : i \notin imr /\ \A j \in isr \cap Master : i < j}

Urgent(i, S) == i \in S /\ \A j \in S : i <= j

-------------------------------------------------------------------------------
(* The devices *)

Spend(d) == budget[d] > 0 /\ budget' = [budget EXCEPT ![d] = @ - 1]

Tick ==
  /\ Spend(PIT)
  /\ Request(irr \cup {PIT}, isr, imr)
  /\ UNCHANGED <<device, isr, imr, cpu>>

\* A byte from the keyboard fills the output buffer of the 8042.
Key ==
  /\ KEYBOARD \notin line
  /\ Spend(KEYBOARD)
  /\ line' = line \cup {KEYBOARD}
  /\ Request(irr \cup {KEYBOARD}, isr, imr)
  /\ UNCHANGED <<flag, enabled, isr, imr, cpu>>

\* The clock's line goes up when both the flag and the enable bit are set.
ClockLine(f, e) ==
  IF f /\ e /\ RTC \notin line
    THEN line' = line \cup {RTC} /\ Request(irr \cup {RTC}, isr, imr)
    ELSE UNCHANGED <<line, irr>>

Period ==
  /\ ~flag /\ Spend(RTC)
  /\ flag' = TRUE
  /\ ClockLine(TRUE, enabled)
  /\ UNCHANGED <<enabled, isr, imr, cpu>>

-------------------------------------------------------------------------------
(* SYSTEM::Init, with interrupts off *)

BootStep(now, next) == boot = now /\ boot' = next /\ UNCHANGED <<frames, budget>>

\* PIC::Init: a line that is already up makes no edge any more.
PicInit ==
  /\ BootStep("pic", "pit")
  /\ irr' = {} /\ isr' = {} /\ imr' = (Master \cup {RTC}) \ {SLAVE}
  /\ missed' = (KEYBOARD \in line)
  /\ UNCHANGED <<device, handlers, iflag, shadow>>

\* The masks enable_irq opens; for the second chip it clears bit 1 (0xFD).
Opened(irq) == IF irq < 8 THEN {irq} ELSE {irq, KEYBOARD}

enable_irq(irq) ==
  /\ imr' = imr \ Opened(irq)
  /\ Request(irr, isr, imr \ Opened(irq))
  /\ UNCHANGED isr

register_irq(irq) == handlers' = handlers \cup {irq} /\ enable_irq(irq)

PitInit ==
  /\ BootStep("pit", "rtc") /\ register_irq(PIT)
  /\ UNCHANGED <<device, iflag, shadow, missed>>

\* RTC::_Init turns the periodic interrupt on before its handler is known.
RtcEnable ==
  /\ BootStep("rtc", "rtc handler")
  /\ enabled' = TRUE /\ ClockLine(flag, TRUE)
  /\ UNCHANGED <<flag, isr, imr, handlers, iflag, shadow, missed>>

RtcRegister ==
  /\ BootStep("rtc handler", "kbd") /\ register_irq(RTC)
  /\ UNCHANGED <<device, iflag, shadow, missed>>

KbdInit ==
  /\ BootStep("kbd", "enable") /\ register_irq(KEYBOARD)
  /\ UNCHANGED <<device, iflag, shadow, missed>>

\* main: _enable(), then panic.
Enable ==
  /\ BootStep("enable", "panic")
  /\ iflag' = TRUE /\ shadow' = TRUE
  /\ UNCHANGED <<device, chips, handlers, missed>>

Panic ==
  /\ boot = "panic" /\ frames = <<>>
  /\ boot' = "done" /\ shadow' = FALSE
  /\ UNCHANGED <<device, chips, handlers, iflag, frames, budget, missed>>

Boot == PicInit \/ PitInit \/ RtcEnable \/ RtcRegister \/ KbdInit \/ Enable \/ Panic

\* jmp $ with nothing pending: the devices may ask again.
Idle ==
  /\ boot = "done" /\ frames = <<>> /\ Pending = {}
  /\ budget' = [d \in Device |-> Burst]
  /\ UNCHANGED <<device, chips, cpu>>

-------------------------------------------------------------------------------
(* The processor: delivery, stub, dispatcher, handler *)

At(pc) == frames # <<>> /\ Head(frames).pc = pc
Top == Head(frames)
Goto(pc) == frames' = <<[Top EXCEPT !.pc = pc]>> \o Tail(frames)
Push(irq) == frames' = <<[irq |-> irq, pc |-> "dispatch"]>> \o frames

\* Mutant: a trap gate, interrupts stay on.
Deliver_trap ==
  /\ iflag /\ ~shadow
  /\ \E i \in Master :
       /\ Urgent(i, Pending)
       /\ LET acked == IF i = SLAVE THEN {SLAVE, RTC} ELSE {i}
          IN  /\ irr' = irr \ acked /\ isr' = isr \cup acked
              /\ Push(IF i = SLAVE THEN RTC ELSE i)
  /\ UNCHANGED <<device, imr, boot, handlers, iflag, shadow, budget, missed>>

\* An interrupt is taken between two instructions; set_intr_gate makes
\* interrupt gates, which clear IF on entry.
Deliver ==
  /\ iflag /\ ~shadow
  /\ \E i \in Master :
       /\ Urgent(i, Pending)
       /\ LET acked == IF i = SLAVE THEN {SLAVE, RTC} ELSE {i}
          IN  /\ irr' = irr \ acked /\ isr' = isr \cup acked
              /\ Push(IF i = SLAVE THEN RTC ELSE i)
  /\ iflag' = FALSE
  /\ UNCHANGED <<device, imr, boot, handlers, shadow, budget, missed>>

Instruction == UNCHANGED <<boot, handlers, budget, missed>>

Dispatch ==
  /\ At("dispatch")
  /\ Goto(IF Top.irq \in handlers THEN "handler" ELSE "eoi1")
  /\ UNCHANGED <<device, chips, iflag, shadow>> /\ Instruction

PitHandler ==
  /\ At("handler") /\ Top.irq = PIT
  /\ Goto("eoi1")
  /\ UNCHANGED <<device, chips, iflag, shadow>> /\ Instruction

\* Mutant: the interrupt returns without reading the byte.
KbdHandler_unread ==
  /\ At("handler") /\ Top.irq = KEYBOARD
  /\ Goto("eoi1")
  /\ UNCHANGED <<device, chips, iflag, shadow>> /\ Instruction

\* Mutant: the loop tests a bit that reading the data does not clear.
KbdHandler_endless ==
  /\ At("handler") /\ Top.irq = KEYBOARD
  /\ line' = line \ {KEYBOARD} /\ Goto("handler")
  /\ UNCHANGED <<flag, enabled, chips, iflag, shadow>> /\ Instruction

\* One turn of the loop of KBD::irq_handler.  When the buffer empties the line
\* falls, and a request not yet taken may or may not survive in the chip.
KbdHandler ==
  /\ At("handler") /\ Top.irq = KEYBOARD
  /\ IF KEYBOARD \in line
       THEN /\ line' = line \ {KEYBOARD} /\ Goto("handler")
            /\ irr' \in {irr, irr \ {KEYBOARD}}
       ELSE Goto("eoi1") /\ UNCHANGED <<line, irr>>
  /\ UNCHANGED <<flag, enabled, isr, imr, iflag, shadow>> /\ Instruction

\* Mutant: register C is not read.
RtcHandler_unread ==
  /\ At("handler") /\ Top.irq = RTC
  /\ Goto("eoi1")
  /\ UNCHANGED <<device, chips, iflag, shadow>> /\ Instruction

\* RTC::int_handler reads register C, which clears it.
RtcHandler ==
  /\ At("handler") /\ Top.irq = RTC
  /\ flag' = FALSE /\ line' = line \ {RTC}
  /\ Goto("eoi1")
  /\ UNCHANGED <<enabled, chips, iflag, shadow>> /\ Instruction

\* End of interrupt, first chip: clears its most urgent bit in service.
Eoi1 ==
  /\ At("eoi1")
  /\ isr' = isr \ {i \in isr : Urgent(i, isr \cap Master)}
  /\ Goto("eoi2")
  /\ UNCHANGED <<device, irr, imr, iflag, shadow>> /\ Instruction

\* Mutant: the second chip is not told.
Eoi2_skipped ==
  /\ At("eoi2")
  /\ Goto("sti")
  /\ UNCHANGED <<device, chips, iflag, shadow>> /\ Instruction

\* End of interrupt, second chip, whatever the interrupt was.
Eoi2 ==
  /\ At("eoi2")
  /\ isr' = isr \ {RTC}
  /\ Request(irr, isr \ {RTC}, imr)
  /\ Goto("sti")
  /\ UNCHANGED <<device, imr, iflag, shadow>> /\ Instruction

\* Mutant: sti is not the last instruction before iretd.
Sti_early ==
  /\ At("sti")
  /\ iflag' = TRUE /\ shadow' = FALSE
  /\ Goto("iretd")
  /\ UNCHANGED <<device, chips>> /\ Instruction

Sti ==
  /\ At("sti")
  /\ iflag' = TRUE /\ shadow' = TRUE
  /\ Goto("iretd")
  /\ UNCHANGED <<device, chips>> /\ Instruction

Iretd ==
  /\ At("iretd")
  /\ frames' = Tail(frames) /\ shadow' = FALSE
  /\ UNCHANGED <<device, chips, iflag>> /\ Instruction

Handler ==
  Dispatch \/ PitHandler \/ KbdHandler \/ RtcHandler \/ Eoi1 \/ Eoi2 \/ Sti \/ Iretd

\* A pending interrupt comes before the next instruction.
Processor ==
  \/ Deliver
  \/ ~(iflag /\ ~shadow /\ Pending # {}) /\ (Boot \/ Handler \/ Idle)

Next == Processor \/ Tick \/ Key \/ Period

\* The processor runs and the clock's oscillator does; nobody has to type.
Spec == Init /\ [][Next]_vars /\ WF_vars(Processor) /\ WF_vars(Period)

-------------------------------------------------------------------------------
(* Properties *)

Pc == {"dispatch", "handler", "eoi1", "eoi2", "sti", "iretd"}

TypeOK ==
  /\ line \subseteq {KEYBOARD, RTC} /\ flag \in BOOLEAN /\ enabled \in BOOLEAN
  /\ irr \subseteq Master \cup {RTC} /\ isr \subseteq Master \cup {RTC}
  /\ imr \subseteq Master \cup {RTC}
  /\ boot \in {"pic", "pit", "rtc", "rtc handler", "kbd", "enable", "panic", "done"}
  /\ handlers \subseteq Device
  /\ iflag \in BOOLEAN /\ shadow \in BOOLEAN /\ missed \in BOOLEAN
  /\ frames \in Seq([irq : Device, pc : Pc])
  /\ budget \in [Device -> 0 .. Burst]

\* Handlers never nest, so the stack holds one interrupt frame at most and the
\* handlers need no locks among themselves: the gates clear IF and the sti of
\* the stubs takes effect only after iretd.
NoNesting == Len(frames) <= 1

\* What the chips have in service is what the processor is handling: the two
\* end-of-interrupt commands, sent whatever the interrupt was, never end
\* another one and leave nothing behind.
InService ==
  isr = IF frames = <<>> \/ Top.pc \in {"sti", "iretd"} THEN {}
        ELSE IF Top.irq # RTC THEN (IF Top.pc = "eoi2" THEN {} ELSE {Top.irq})
        ELSE IF Top.pc = "eoi2" THEN {RTC} ELSE {SLAVE, RTC}

\* Nothing is dispatched before its handler is registered, although enable_irq
\* opens the keyboard's interrupt when the clock registers.
NoneUnhandled == At("dispatch") => Top.irq \in handlers

\* A line that is up is known to somebody: the request is in a chip, or the
\* handler that will look at the device again is running.  A waiting key at
\* PIC::Init is the exception.
EdgeKept ==
  boot # "pic" =>
    /\ KEYBOARD \in line /\ ~missed =>
         KEYBOARD \in irr \/ (frames # <<>> /\ Top.irq = KEYBOARD /\ Top.pc \in {"dispatch", "handler"})
    /\ RTC \in line =>
         RTC \in irr \/ (frames # <<>> /\ Top.irq = RTC /\ Top.pc \in {"dispatch", "handler"})

\* "What is important is that if register C is not read after an IRQ 8, then
\* the interrupt will not happen again" (rtc.cpp): it happens again and again.
ClockTicks == []<>(At("handler") /\ Top.irq = RTC)

\* Every byte in the keyboard's buffer is read in the end, unless one was
\* waiting there when PIC::Init reset the edge detectors.
KeysRead == (KEYBOARD \in line) ~> (KEYBOARD \notin line \/ missed)

\* The interrupted program runs again: no handler loops for ever.
ProgramRuns == []<>(frames = <<>>)

===============================================================================
