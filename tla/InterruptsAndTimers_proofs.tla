--------------------- MODULE InterruptsAndTimers_proofs ---------------------
(***************************************************************************)
(* Proofs about the ways of time into the kernel.                          *)
(*                                                                         *)
(* Interrupts, for every Burst: handlers do not nest, the chips and the    *)
(* processor agree on what is in service, nothing is dispatched without a  *)
(* handler, and no edge is lost.                                           *)
(*                                                                         *)
(* PitTimers, for every table, every set of timers and periods and every   *)
(* interleaving of calls and ticks: the table is well-typed, a timer has   *)
(* one slot, no handler is called that was not meant, timers ring on time. *)
(***************************************************************************)
EXTENDS Interrupts, PitTimers, SequenceTheorems, TLAPS

USE DEF PIT, KEYBOARD, SLAVE, RTC

-------------------------------------------------------------------------------
(* Type correctness *)

LEMMA GotoType ==
  ASSUME TypeOK, NEW to \in Pc, NEW q, At(q), Goto(to)
  PROVE  frames' \in Seq([irq : Device, pc : Pc])
<1>1. Top \in [irq : Device, pc : Pc] /\ Tail(frames) \in Seq([irq : Device, pc : Pc])
  BY HeadTailProperties DEF TypeOK, At, Top
<1>2. [Top EXCEPT !.pc = to] \in [irq : Device, pc : Pc]
  BY <1>1
<1>3. <<[Top EXCEPT !.pc = to]>> \in Seq([irq : Device, pc : Pc])
  BY <1>2
<1> QED
  BY <1>1, <1>3, ConcatProperties DEF Goto

LEMMA PushType ==
  ASSUME TypeOK, NEW irq \in Device, Push(irq)
  PROVE  frames' \in Seq([irq : Device, pc : Pc])
<1>1. [irq |-> irq, pc |-> "dispatch"] \in [irq : Device, pc : Pc]
  BY DEF Pc
<1>2. <<[irq |-> irq, pc |-> "dispatch"]>> \in Seq([irq : Device, pc : Pc])
  BY <1>1
<1> QED
  BY <1>2, ConcatProperties DEF Push, TypeOK

LEMMA RequestType ==
  ASSUME TypeOK, NEW new \in SUBSET (Master \cup {RTC}), NEW i, NEW m, Request(new, i, m)
  PROVE  irr' \subseteq Master \cup {RTC}
BY DEF Request, Master

LEMMA DeviceType == TypeOK /\ (Tick \/ Key \/ Period) => TypeOK'
<1> SUFFICES ASSUME TypeOK, Tick \/ Key \/ Period PROVE TypeOK'
  OBVIOUS
<1>1. budget' \in [Device -> 0 .. Burst]
  <2>1. ASSUME NEW d \in Device, Spend(d) PROVE budget' \in [Device -> 0 .. Burst]
    <3>1. budget \in [Device -> 0 .. Burst] /\ budget[d] > 0
      BY <2>1 DEF TypeOK, Spend
    <3>2. budget[d] - 1 \in 0 .. Burst
      BY <3>1, BurstAssumption
    <3> QED
      BY <2>1, <3>1, <3>2 DEF Spend
  <2> QED
    BY <2>1 DEF Tick, Key, Period, Device
<1>2. irr' \subseteq Master \cup {RTC}
  BY RequestType DEF TypeOK, Tick, Key, Period, ClockLine, Master
<1>3. line' \subseteq {KEYBOARD, RTC} /\ flag' \in BOOLEAN /\ UNCHANGED <<enabled, isr, imr, cpu>>
  BY DEF TypeOK, Tick, Key, Period, ClockLine, device
<1> QED
  BY <1>1, <1>2, <1>3 DEF TypeOK, cpu

LEMMA BootType == TypeOK /\ (Boot \/ Idle) => TypeOK'
<1> SUFFICES ASSUME TypeOK, Boot \/ Idle PROVE TypeOK'
  OBVIOUS
<1>1. CASE PicInit
  BY <1>1 DEF PicInit, BootStep, TypeOK, device, Master
<1>2. ASSUME NEW irq \in Device, register_irq(irq)
      PROVE  /\ irr' \subseteq Master \cup {RTC} /\ imr' \subseteq Master \cup {RTC}
             /\ isr' = isr /\ handlers' \subseteq Device
  BY <1>2, RequestType DEF register_irq, enable_irq, TypeOK
<1>3. CASE PitInit
  BY <1>2, <1>3 DEF PitInit, BootStep, TypeOK, device, Device
<1>4. CASE RtcEnable
  <2>1. irr' \subseteq Master \cup {RTC} /\ line' \subseteq {KEYBOARD, RTC}
    BY <1>4, RequestType DEF RtcEnable, ClockLine, TypeOK
  <2> QED
    BY <1>4, <2>1 DEF RtcEnable, BootStep, TypeOK
<1>5. CASE RtcRegister
  BY <1>2, <1>5 DEF RtcRegister, BootStep, TypeOK, device, Device
<1>6. CASE KbdInit
  BY <1>2, <1>6 DEF KbdInit, BootStep, TypeOK, device, Device
<1>7. CASE Enable \/ Panic
  BY <1>7 DEF Enable, Panic, BootStep, TypeOK, device, chips
<1>8. CASE Idle
  BY <1>8, BurstAssumption DEF Idle, TypeOK, device, chips, cpu
<1> QED
  BY <1>1, <1>3, <1>4, <1>5, <1>6, <1>7, <1>8 DEF Boot

LEMMA HandlerType == TypeOK /\ (Deliver \/ Handler) => TypeOK'
<1> SUFFICES ASSUME TypeOK, Deliver \/ Handler PROVE TypeOK'
  OBVIOUS
<1> USE DEF Instruction, device, chips
<1>1. CASE Deliver
  <2>1. frames' \in Seq([irq : Device, pc : Pc])
    BY <1>1, PushType DEF Deliver, Master, Device
  <2> QED
    BY <1>1, <2>1 DEF Deliver, TypeOK, Master
<1>2. CASE Dispatch
  BY <1>2, GotoType DEF Dispatch, TypeOK, Pc
<1>3. CASE PitHandler
  BY <1>3, GotoType DEF PitHandler, TypeOK, Pc
<1>4. CASE KbdHandler
  BY <1>4, GotoType DEF KbdHandler, TypeOK, Pc
<1>5. CASE RtcHandler
  BY <1>5, GotoType DEF RtcHandler, TypeOK, Pc
<1>6. CASE Eoi1
  BY <1>6, GotoType DEF Eoi1, TypeOK, Pc
<1>7. CASE Eoi2
  BY <1>7, GotoType, RequestType DEF Eoi2, TypeOK, Pc
<1>8. CASE Sti
  BY <1>8, GotoType DEF Sti, TypeOK, Pc
<1>9. CASE Iretd
  <2>1. frames' \in Seq([irq : Device, pc : Pc])
    BY <1>9, HeadTailProperties DEF Iretd, At, TypeOK
  <2> QED
    BY <1>9, <2>1 DEF Iretd, TypeOK
<1> QED
  BY <1>1, <1>2, <1>3, <1>4, <1>5, <1>6, <1>7, <1>8, <1>9 DEF Handler

LEMMA TypeNext == TypeOK /\ [Next]_vars => TypeOK'
<1>1. TypeOK /\ UNCHANGED vars => TypeOK'
  BY DEF TypeOK, vars, device, chips, cpu
<1> QED
  BY <1>1, DeviceType, BootType, HandlerType DEF Next, Processor

LEMMA TypeInit == Init => TypeOK
BY BurstAssumption DEF Init, TypeOK, Master, Device

\* Every state the interrupt system reaches is well typed.
THEOREM TypeCorrect == Spec => []TypeOK
BY TypeInit, TypeNext, PTL DEF Spec

-------------------------------------------------------------------------------
(* Control: one frame, its relation to IF, the chips and the boot sequence *)

OneFrame ==
  frames = <<>> \/ \E i \in Device, p \in Pc : frames = <<[irq |-> i, pc |-> p]>>

\* Interrupts are on only in the main program after _enable, and for the one
\* instruction between sti and iretd, where shadow holds them off.
Flags ==
  /\ frames = <<>> => /\ iflag <=> boot \in {"panic", "done"}
                      /\ shadow <=> boot = "panic"
  /\ frames # <<>> => /\ boot = "done"
                      /\ iflag <=> Top.pc = "iretd"
                      /\ shadow <=> Top.pc = "iretd"

Registered ==
  /\ boot \in {"rtc", "rtc handler", "kbd", "enable", "panic", "done"} => PIT \in handlers
  /\ boot \in {"kbd", "enable", "panic", "done"} => RTC \in handlers
  /\ boot \in {"enable", "panic", "done"} => KEYBOARD \in handlers

Control == OneFrame /\ Flags /\ Registered /\ InService

\* What the moves on the stack do when there is one frame.
LEMMA OneGoto ==
  ASSUME OneFrame, NEW q, At(q), NEW to \in Pc, Goto(to)
  PROVE  \E i \in Device : /\ frames = <<[irq |-> i, pc |-> q]>>
                           /\ frames' = <<[irq |-> i, pc |-> to]>>
<1>1. PICK i \in Device, p \in Pc : frames = <<[irq |-> i, pc |-> p]>>
  BY DEF OneFrame, At
<1>2. p = q /\ Top = [irq |-> i, pc |-> q]
  BY <1>1 DEF At, Top
<1>3. frames' = <<[irq |-> i, pc |-> to]>>
  BY <1>1, <1>2 DEF Goto
<1> QED
  BY <1>1, <1>2, <1>3

LEMMA FirstPush ==
  ASSUME NEW irq \in Device, frames = <<>>, Push(irq)
  PROVE  frames' = <<[irq |-> irq, pc |-> "dispatch"]>>
BY DEF Push

LEMMA DeviceControl ==
  ASSUME Control, Tick \/ Key \/ Period
  PROVE  Control'
<1>1. UNCHANGED <<isr, cpu>>
  BY DEF Tick, Key, Period
<1> QED
  BY <1>1 DEF Control, OneFrame, Flags, Registered, InService, cpu, Top

\* While SYSTEM::Init runs there is no frame and nothing in service.
LEMMA BootControl ==
  ASSUME TypeOK, Control, Boot \/ Idle
  PROVE  Control'
<1> USE DEF device, chips, cpu
<1>1. CASE Idle
  BY <1>1 DEF Idle, Control, OneFrame, Flags, Registered, InService, Top
<1>2. CASE Boot
  <2>1. frames = <<>> /\ isr = {} /\ UNCHANGED frames /\ isr' = {}
    BY <1>2 DEF Boot, PicInit, PitInit, RtcEnable, RtcRegister, KbdInit, Enable, Panic,
                BootStep, register_irq, enable_irq, Control, Flags, InService
  <2>2. Registered'
    BY <1>2 DEF Boot, PicInit, PitInit, RtcEnable, RtcRegister, KbdInit, Enable, Panic,
                BootStep, register_irq, Control, Registered
  <2>3. Flags'
    <3>1. CASE PicInit \/ PitInit \/ RtcEnable \/ RtcRegister \/ KbdInit
      <4>1. UNCHANGED <<iflag, shadow>> /\ boot \notin {"panic", "done"} /\ boot' \notin {"panic", "done"}
        BY <3>1 DEF PicInit, PitInit, RtcEnable, RtcRegister, KbdInit, BootStep
      <4> QED
        BY <2>1, <4>1 DEF Control, Flags
    <3>2. CASE Enable
      BY <2>1, <3>2 DEF Enable, BootStep, Flags
    <3>3. CASE Panic
      BY <2>1, <3>3 DEF Panic, Control, Flags
    <3> QED
      BY <1>2, <3>1, <3>2, <3>3 DEF Boot
  <2> QED
    BY <2>1, <2>2, <2>3 DEF Control, OneFrame, InService
<1> QED
  BY <1>1, <1>2

\* An interrupt is taken only when no other is being handled.
LEMMA DeliverControl ==
  ASSUME TypeOK, Control, Deliver
  PROVE  /\ Control' /\ frames = <<>> /\ isr = {}
         /\ \E i \in Device : /\ frames' = <<[irq |-> i, pc |-> "dispatch"]>>
                              /\ irr' = irr \ (IF i = RTC THEN {SLAVE, RTC} ELSE {i})
<1>1. frames = <<>> /\ isr = {} /\ boot = "done" /\ ~shadow
  BY DEF Control, OneFrame, Flags, InService, Deliver
<1>2. PICK i \in Device : /\ Push(i)
                          /\ irr' = irr \ (IF i = RTC THEN {SLAVE, RTC} ELSE {i})
                          /\ isr' = IF i = RTC THEN {SLAVE, RTC} ELSE {i}
  BY <1>1 DEF Deliver, Master, Device
<1>3. frames' = <<[irq |-> i, pc |-> "dispatch"]>>
  BY <1>1, <1>2, FirstPush
<1>4. Top' = [irq |-> i, pc |-> "dispatch"] /\ frames' # <<>>
  BY <1>3 DEF Top
<1>5. OneFrame' /\ InService'
  BY <1>2, <1>3, <1>4 DEF OneFrame, InService, Pc
<1>6. Flags' /\ Registered'
  BY <1>1, <1>4 DEF Deliver, Flags, Registered, Control
<1> QED
  BY <1>1, <1>2, <1>3, <1>5, <1>6 DEF Control

LEMMA HandlerControl ==
  ASSUME TypeOK, Control, Handler
  PROVE  Control'
<1> USE DEF Instruction, device, chips
<1>0. Registered'
  BY DEF Handler, Dispatch, PitHandler, KbdHandler, RtcHandler, Eoi1, Eoi2, Sti, Iretd,
         Control, Registered
<1>1. CASE Iretd
  <2>1. PICK i \in Device, p \in Pc : frames = <<[irq |-> i, pc |-> p]>>
    BY <1>1 DEF Iretd, At, Control, OneFrame
  <2>2. frames' = <<>> /\ Top.pc = "iretd" /\ frames # <<>>
    BY <1>1, <2>1 DEF Iretd, At, Top
  <2>3. isr' = {} /\ iflag' /\ ~shadow' /\ boot' = "done"
    BY <1>1, <2>2 DEF Iretd, Control, InService, Flags
  <2> QED
    BY <1>0, <2>2, <2>3 DEF Control, OneFrame, InService, Flags
<1>2. ASSUME NEW q \in Pc, NEW to \in Pc, At(q), Goto(to), UNCHANGED boot,
             q # "iretd",
             iflag' = (IF to = "iretd" THEN TRUE ELSE iflag),
             shadow' = (IF to = "iretd" THEN TRUE ELSE shadow),
             \A i \in Device : isr = (IF q = "sti" THEN {}
                 ELSE IF i # RTC THEN (IF q = "eoi2" THEN {} ELSE {i})
                 ELSE IF q = "eoi2" THEN {RTC} ELSE {SLAVE, RTC}) /\ Top.irq = i =>
               isr' = (IF to \in {"sti", "iretd"} THEN {}
                 ELSE IF i # RTC THEN (IF to = "eoi2" THEN {} ELSE {i})
                 ELSE IF to = "eoi2" THEN {RTC} ELSE {SLAVE, RTC})
      PROVE  Control'
  <2>1. PICK i \in Device : /\ frames = <<[irq |-> i, pc |-> q]>>
                            /\ frames' = <<[irq |-> i, pc |-> to]>>
    BY <1>2, OneGoto DEF Control
  <2>2. /\ Top = [irq |-> i, pc |-> q] /\ frames # <<>>
        /\ Top' = [irq |-> i, pc |-> to] /\ frames' # <<>>
    BY <2>1 DEF Top
  <2>3. OneFrame'
    BY <2>1 DEF OneFrame
  <2>4. Flags'
    BY <1>2, <2>2 DEF Control, Flags
  <2>5. InService'
    BY <1>2, <2>2 DEF Control, InService
  <2> QED
    BY <1>0, <2>3, <2>4, <2>5 DEF Control
<1>3. CASE Dispatch
  BY <1>2, <1>3 DEF Dispatch, Pc
<1>4. CASE PitHandler \/ KbdHandler \/ RtcHandler
  BY <1>2, <1>4 DEF PitHandler, KbdHandler, RtcHandler, Pc
<1>5. CASE Eoi1
  BY <1>2, <1>5 DEF Eoi1, Pc, Urgent, Master, Device
<1>6. CASE Eoi2
  BY <1>2, <1>6 DEF Eoi2, Pc, Device
<1>7. CASE Sti
  BY <1>2, <1>7 DEF Sti, Pc
<1> QED
  BY <1>1, <1>3, <1>4, <1>5, <1>6, <1>7 DEF Handler

LEMMA ControlNext == TypeOK /\ Control /\ [Next]_vars => Control'
<1>1. ASSUME Control, UNCHANGED vars PROVE Control'
  <2>1. UNCHANGED <<isr, cpu>> /\ Top' = Top
    BY <1>1 DEF vars, chips, cpu, Top
  <2> QED
    BY <1>1, <2>1 DEF Control, OneFrame, Flags, Registered, InService, cpu
<1> QED
  BY <1>1, DeviceControl, BootControl, DeliverControl, HandlerControl DEF Next, Processor

LEMMA ControlInit == Init => Control
BY DEF Init, Control, OneFrame, Flags, Registered, InService

LEMMA ControlAlways == Spec => [](TypeOK /\ Control)
BY TypeInit, TypeNext, ControlInit, ControlNext, PTL DEF Spec

\* Handlers never nest, however fast the devices ask.
THEOREM HandlersDoNotNest == Spec => []NoNesting
<1>1. ASSUME Control PROVE NoNesting
  <2>1. CASE frames = <<>>
    BY <2>1 DEF NoNesting
  <2>2. ASSUME NEW x, frames = <<x>> PROVE NoNesting
    BY <2>2 DEF NoNesting
  <2> QED
    BY <1>1, <2>1, <2>2 DEF Control, OneFrame
<1> QED
  BY <1>1, ControlAlways, PTL

\* The chips have in service exactly what the processor is handling.
THEOREM ServiceMatches == Spec => []InService
<1>1. Control => InService
  BY DEF Control
<1> QED
  BY <1>1, ControlAlways, PTL

\* Nothing is dispatched before its handler is registered.
THEOREM AllHandled == Spec => []NoneUnhandled
<1>1. TypeOK /\ Control => NoneUnhandled
  <2> SUFFICES ASSUME Control, At("dispatch") PROVE Top.irq \in handlers
    BY DEF NoneUnhandled
  <2>1. PICK i \in Device, p \in Pc : frames = <<[irq |-> i, pc |-> p]>>
    BY DEF Control, OneFrame, At
  <2>2. Top.irq \in Device /\ boot = "done"
    BY <2>1 DEF Top, Control, Flags
  <2> QED
    BY <2>2 DEF Control, Registered, Device
<1> QED
  BY <1>1, ControlAlways, PTL

-------------------------------------------------------------------------------
(* No edge is lost *)

\* Until RTC::_Init turns it on, the clock cannot raise its line.
ClockOff ==
  /\ RTC \in line => enabled
  /\ boot \in {"pic", "pit", "rtc"} => ~enabled

EdgeInv == ClockOff /\ EdgeKept

LEMMA RequestKeeps ==
  ASSUME NEW new, NEW i, NEW m, Request(new, i, m)
  PROVE  new \subseteq irr'
BY DEF Request

LEMMA ClockOffNext ==
  ASSUME TypeOK, ClockOff, [Next]_vars
  PROVE  ClockOff'
<1>1. CASE Tick \/ Key \/ Period
  BY <1>1 DEF Tick, Key, Period, ClockLine, ClockOff, device, cpu, Spend
<1>2. CASE Boot
  <2>1. CASE RtcEnable
    BY <2>1 DEF RtcEnable, BootStep, ClockOff
  <2>2. CASE ~RtcEnable
    <3>1. UNCHANGED <<line, enabled>>
      BY <1>2, <2>2 DEF Boot, PicInit, PitInit, RtcRegister, KbdInit, Enable, Panic, device
    <3>2. boot' \in {"pic", "pit", "rtc"} => boot \in {"pic", "pit", "rtc"}
      BY <1>2, <2>2 DEF Boot, PicInit, PitInit, RtcRegister, KbdInit, Enable, Panic, BootStep
    <3> QED
      BY <3>1, <3>2 DEF ClockOff
  <2> QED
    BY <2>1, <2>2
<1>3. CASE Idle \/ Deliver \/ UNCHANGED vars
  BY <1>3 DEF Idle, Deliver, vars, ClockOff, device, cpu
<1>4. CASE Handler
  BY <1>4 DEF Handler, Dispatch, PitHandler, KbdHandler, RtcHandler, Eoi1, Eoi2, Sti, Iretd,
              Instruction, ClockOff, device
<1> QED
  BY <1>1, <1>2, <1>3, <1>4 DEF Next, Processor

\* Devices: a line that goes up leaves a request in a chip.
LEMMA DeviceEdges ==
  ASSUME EdgeKept, Tick \/ Key \/ Period
  PROVE  EdgeKept'
<1>1. UNCHANGED <<boot, frames, missed>> /\ Top' = Top
  BY DEF Tick, Key, Period, cpu, Top
<1>2. irr \subseteq irr'
  BY RequestKeeps DEF Tick, Key, Period, ClockLine
<1>3. \A d \in line' : d \in line \/ d \in irr'
  BY RequestKeeps DEF Tick, Key, Period, ClockLine, device
<1> QED
  BY <1>1, <1>2, <1>3 DEF EdgeKept

\* SYSTEM::Init: PIC::Init records a waiting key, the rest drops no request.
LEMMA BootEdges ==
  ASSUME ClockOff, EdgeKept, Boot \/ Idle
  PROVE  EdgeKept'
<1>1. CASE PicInit
  BY <1>1 DEF PicInit, BootStep, ClockOff, EdgeKept, device
<1>2. CASE PitInit \/ RtcEnable \/ RtcRegister \/ KbdInit \/ Enable \/ Panic \/ Idle
  <2>1. UNCHANGED <<frames, missed>> /\ Top' = Top /\ boot # "pic"
    BY <1>2 DEF PitInit, RtcEnable, RtcRegister, KbdInit, Enable, Panic, Idle, BootStep, cpu, Top
  <2>2. irr \subseteq irr'
    BY <1>2, RequestKeeps DEF PitInit, RtcEnable, RtcRegister, KbdInit, Enable, Panic, Idle,
                              register_irq, enable_irq, ClockLine, chips
  <2>3. \A d \in line' : d \in line \/ d \in irr'
    BY <1>2, RequestKeeps DEF PitInit, RtcEnable, RtcRegister, KbdInit, Enable, Panic, Idle,
                              ClockLine, device
  <2> QED
    BY <2>1, <2>2, <2>3 DEF EdgeKept
<1> QED
  BY <1>1, <1>2 DEF Boot

\* The request of an interrupt that is taken passes to its handler.
LEMMA DeliverEdges ==
  ASSUME TypeOK, Control, EdgeKept, Deliver
  PROVE  EdgeKept'
<1>1. PICK i \in Device : /\ frames' = <<[irq |-> i, pc |-> "dispatch"]>>
                          /\ irr' = irr \ (IF i = RTC THEN {SLAVE, RTC} ELSE {i})
  BY DeliverControl
<1>2. Top' = [irq |-> i, pc |-> "dispatch"] /\ frames' # <<>>
  BY <1>1 DEF Top
<1>3. frames = <<>> /\ UNCHANGED <<line, boot, missed>>
  BY DeliverControl DEF Deliver, device
<1> QED
  BY <1>1, <1>2, <1>3 DEF EdgeKept, Device

\* A handler leaves its device quiet; the other steps touch no request.
LEMMA HandlerEdges ==
  ASSUME TypeOK, Control, NoneUnhandled, EdgeKept, Handler
  PROVE  EdgeKept'
<1> USE DEF Instruction, device, chips
<1>0. UNCHANGED <<boot, missed>>
  BY DEF Handler, Dispatch, PitHandler, KbdHandler, RtcHandler, Eoi1, Eoi2, Sti, Iretd
<1>1. ASSUME NEW q \in Pc, NEW to \in Pc, At(q), Goto(to),
             line' \subseteq line,
             \A d \in line' : d \in irr => d \in irr',
             q \in {"dispatch", "handler"} =>
               to \in {"dispatch", "handler"} \/ Top.irq \notin line'
      PROVE  EdgeKept'
  <2>1. PICK i \in Device : /\ frames = <<[irq |-> i, pc |-> q]>>
                            /\ frames' = <<[irq |-> i, pc |-> to]>>
    BY <1>1, OneGoto DEF Control
  <2>2. /\ Top = [irq |-> i, pc |-> q] /\ frames # <<>>
        /\ Top' = [irq |-> i, pc |-> to] /\ frames' # <<>>
    BY <2>1 DEF Top
  <2> QED
    BY <1>0, <1>1, <2>2 DEF EdgeKept
<1>2. CASE Dispatch
  BY <1>1, <1>2 DEF Dispatch, Pc, NoneUnhandled
<1>3. CASE PitHandler
  <2>1. Top.irq \notin line'
    <3>1. line \subseteq {KEYBOARD, RTC}
      BY DEF TypeOK
    <3>2. line' = line /\ Top.irq = PIT
      BY <1>3 DEF PitHandler
    <3> QED
      BY <3>1, <3>2
  <2> QED
    BY <1>1, <1>3, <2>1 DEF PitHandler, Pc
<1>4. CASE KbdHandler
  BY <1>1, <1>4 DEF KbdHandler, Pc
<1>5. CASE RtcHandler
  BY <1>1, <1>5 DEF RtcHandler, Pc
<1>6. CASE Eoi1 \/ Sti
  BY <1>1, <1>6 DEF Eoi1, Sti, Pc
<1>7. CASE Eoi2
  <2>1. irr \subseteq irr'
    BY <1>7, RequestKeeps DEF Eoi2
  <2> QED
    BY <1>1, <1>7, <2>1 DEF Eoi2, Pc
<1>8. CASE Iretd
  BY <1>0, <1>8 DEF Iretd, At, Top, EdgeKept
<1> QED
  BY <1>2, <1>3, <1>4, <1>5, <1>6, <1>7, <1>8 DEF Handler

LEMMA EdgeNext ==
  TypeOK /\ Control /\ NoneUnhandled /\ EdgeInv /\ [Next]_vars => EdgeInv'
<1>1. ASSUME EdgeKept, UNCHANGED vars PROVE EdgeKept'
  <2>1. UNCHANGED <<line, irr, boot, frames, missed>> /\ Top' = Top
    BY <1>1 DEF vars, device, chips, cpu, Top
  <2> QED
    BY <1>1, <2>1 DEF EdgeKept
<1> QED
  BY <1>1, ClockOffNext, DeviceEdges, BootEdges, DeliverEdges, HandlerEdges
     DEF EdgeInv, Next, Processor

\* Nobody's request is forgotten: a line that is up is latched in a chip or
\* its handler is about to look at the device.
THEOREM NoEdgeLost == Spec => []EdgeKept
<1>1. Init => EdgeInv
  BY DEF Init, EdgeInv, ClockOff, EdgeKept
<1>2. EdgeInv => EdgeKept
  BY DEF EdgeInv
<1> QED
  BY <1>1, <1>2, EdgeNext, ControlAlways, AllHandled, PTL DEF Spec

-------------------------------------------------------------------------------
(* PitTimers: the invariant *)

USE TimersAssumption

Busy(s) == pc # "idle" /\ call.slot = s

\* How far the running call has come in its slot.
CallInv ==
  pc # "idle" =>
    /\ call.id = 0 <=> call.handler = NULL
    /\ call.id = 0 => call.period = 0
    /\ pc # "id" => id[call.slot] = call.id
    /\ pc = "id" /\ call.id = 0 => id[call.slot] = call.timer
    /\ pc = "id" /\ call.id # 0 => id[call.slot] = 0 /\ handler[call.slot] = NULL
    /\ \A s \in Slots : id[s] = call.timer => s = call.slot
    /\ pc \in {"handler", "counter"} => period[call.slot] = call.period
    /\ pc = "counter" => handler[call.slot] = call.handler
    /\ handler[call.slot] \in {NULL, call.handler, promise[call.timer].handler}

\* A slot no call is working on is unused, or it is what its timer was promised.
SlotInv ==
  \A s \in Slots : ~Busy(s) =>
    IF id[s] = 0 THEN handler[s] = NULL
    ELSE /\ handler[s] # NULL
         /\ promise[id[s]] = [period |-> period[s], handler |-> handler[s]]
         /\ counter[s] = clock[id[s]]
         /\ counter[s] = 0 \/ counter[s] < period[s]

\* A timer that is promised has a slot.
PromiseInv == \A i \in Ids : Settled(i) => \E s \in Slots : id[s] = i

IInv == TimersTypeOK /\ OneSlotPerTimer /\ CallInv /\ SlotInv /\ PromiseInv

-------------------------------------------------------------------------------
(* The invariant is inductive: one lemma for the calls' beginnings, one for *)
(* each write, one for the interrupt.                                        *)

LEMMA InitInv == TimersInit => IInv
<1> SUFFICES ASSUME TimersInit PROVE IInv
  OBVIOUS
<1>1. TimersTypeOK
  BY DEF TimersInit, TimersTypeOK, None
<1>2. OneSlotPerTimer /\ CallInv /\ SlotInv /\ PromiseInv
  BY DEF TimersInit, OneSlotPerTimer, CallInv, SlotInv, PromiseInv, Busy, Settled, None
<1> QED
  BY <1>1, <1>2 DEF IInv

\* What the slot invariant says of one slot.
LEMMA SlotPromised ==
  ASSUME IInv, NEW s \in Slots, ~Busy(s), id[s] # 0
  PROVE  /\ id[s] \in Ids /\ promise[id[s]] # None /\ handler[s] # NULL
         /\ period[s] = promise[id[s]].period /\ handler[s] = promise[id[s]].handler
         /\ counter[s] = clock[id[s]]
         /\ counter[s] \in Nat /\ period[s] \in Nat
         /\ counter[s] = 0 \/ counter[s] < period[s]
<1>1. /\ id[s] \in Ids /\ counter[s] \in 0 .. Width - 1 /\ period[s] \in Periods \cup {0}
  BY DEF IInv, TimersTypeOK
<1>2. /\ handler[s] # NULL /\ promise[id[s]] = [period |-> period[s], handler |-> handler[s]]
      /\ counter[s] = clock[id[s]]
      /\ counter[s] = 0 \/ counter[s] < period[s]
  BY DEF IInv, SlotInv
<1>3. promise[id[s]].period = period[s] /\ promise[id[s]].handler = handler[s]
  BY <1>2
<1>4. promise[id[s]] # None
  BY <1>2, <1>3 DEF None
<1>5. counter[s] \in Nat
  BY <1>1
<1>6. \A p \in Periods \cup {0} : p \in Nat
  OBVIOUS
<1>7. period[s] \in Nat
  BY <1>1, <1>6
<1> QED
  BY <1>1, <1>2, <1>3, <1>4, <1>5, <1>7

LEMMA SetStep ==
  ASSUME IInv, NEW i \in Ids, NEW p \in Periods, NEW h \in Handlers, set_timer(i, p, h)
  PROVE  IInv'
<1> USE DEF set_timer, First, Named, Unused, table
<1>1. TimersTypeOK'
  BY DEF IInv, TimersTypeOK
<1>2. OneSlotPerTimer'
  BY DEF IInv, OneSlotPerTimer
<1>3. CallInv'
  <2>1. /\ call'.slot \in Slots /\ call'.timer = i /\ call'.id = i /\ call'.handler = h
        /\ i # 0 /\ h # NULL /\ i \in Ids
    OBVIOUS
  <2>2. handler[call'.slot] \in {NULL, promise[i].handler}
    <3>1. handler[call'.slot] = NULL \/ id[call'.slot] = i
      OBVIOUS
    <3> QED
      BY <2>1, <3>1, SlotPromised DEF Busy
  <2>3. pc' = "id" => /\ handler[call'.slot] = NULL
                      /\ \A s \in Slots : id[s] # i
    OBVIOUS
  <2>4. pc' = "id" => id[call'.slot] = 0
    BY <2>1, <2>3 DEF IInv, SlotInv, Busy
  <2>5. pc' = "period" => id[call'.slot] = i
    OBVIOUS
  <2>6. \A s \in Slots : id[s] = i => s = call'.slot
    BY <2>1, <2>3, <2>5 DEF IInv, OneSlotPerTimer
  <2>7. pc' \in {"id", "period"} /\ UNCHANGED <<id, handler, period, promise>>
    OBVIOUS
  <2> QED
    BY <2>1, <2>2, <2>3, <2>4, <2>5, <2>6, <2>7 DEF CallInv
<1>4. SlotInv'
  BY DEF IInv, SlotInv, Busy
<1>5. PromiseInv'
  BY DEF IInv, PromiseInv, Settled
<1> QED
  BY <1>1, <1>2, <1>3, <1>4, <1>5 DEF IInv

LEMMA KillStep ==
  ASSUME IInv, NEW i \in Ids, kill_timer(i)
  PROVE  IInv'
<1> USE DEF kill_timer, First, Named, table
<1>1. TimersTypeOK'
  BY DEF IInv, TimersTypeOK
<1>2. OneSlotPerTimer'
  BY DEF IInv, OneSlotPerTimer
<1>3. CallInv'
  <2>1. /\ call'.slot \in Slots /\ call'.timer = i /\ call'.id = 0 /\ call'.handler = NULL
        /\ call'.period = 0 /\ id[call'.slot] = i /\ i \in Ids /\ i # 0
    OBVIOUS
  <2>2. handler[call'.slot] = promise[i].handler
    BY <2>1, SlotPromised DEF Busy
  <2>3. \A s \in Slots : id[s] = i => s = call'.slot
    BY <2>1 DEF IInv, OneSlotPerTimer
  <2>4. pc' = "id" /\ UNCHANGED <<id, handler, period, promise>>
    OBVIOUS
  <2> QED
    BY <2>1, <2>2, <2>3, <2>4 DEF CallInv
<1>4. SlotInv'
  BY DEF IInv, SlotInv, Busy
<1>5. PromiseInv'
  BY DEF IInv, PromiseInv, Settled
<1> QED
  BY <1>1, <1>2, <1>3, <1>4, <1>5 DEF IInv

LEMMA WriteIdStep == ASSUME IInv, WriteId PROVE IInv'
<1> USE DEF WriteId
<1>1. TimersTypeOK'
  BY DEF IInv, TimersTypeOK
<1>2. OneSlotPerTimer'
  BY DEF IInv, TimersTypeOK, OneSlotPerTimer, CallInv
<1>3. CallInv'
  BY DEF IInv, TimersTypeOK, CallInv
<1>4. SlotInv'
  BY DEF IInv, TimersTypeOK, SlotInv, Busy
<1>5. PromiseInv'
  BY DEF IInv, TimersTypeOK, PromiseInv, CallInv, Settled
<1> QED
  BY <1>1, <1>2, <1>3, <1>4, <1>5 DEF IInv

LEMMA WritePeriodStep == ASSUME IInv, WritePeriod PROVE IInv'
<1> USE DEF WritePeriod
<1>1. TimersTypeOK'
  BY DEF IInv, TimersTypeOK
<1>2. OneSlotPerTimer'
  BY DEF IInv, OneSlotPerTimer
<1>3. CallInv'
  BY DEF IInv, TimersTypeOK, CallInv
<1>4. SlotInv'
  BY DEF IInv, TimersTypeOK, SlotInv, Busy
<1>5. PromiseInv'
  BY DEF IInv, PromiseInv, Settled
<1> QED
  BY <1>1, <1>2, <1>3, <1>4, <1>5 DEF IInv

LEMMA WriteHandlerStep == ASSUME IInv, WriteHandler PROVE IInv'
<1> USE DEF WriteHandler
<1>1. TimersTypeOK'
  BY DEF IInv, TimersTypeOK
<1>2. OneSlotPerTimer'
  BY DEF IInv, OneSlotPerTimer
<1>3. CallInv'
  BY DEF IInv, TimersTypeOK, CallInv
<1>4. SlotInv'
  BY DEF IInv, TimersTypeOK, SlotInv, Busy
<1>5. PromiseInv'
  BY DEF IInv, PromiseInv, Settled
<1> QED
  BY <1>1, <1>2, <1>3, <1>4, <1>5 DEF IInv

LEMMA WriteCounterStep == ASSUME IInv, WriteCounter PROVE IInv'
<1> USE DEF WriteCounter, Return
<1>1. TimersTypeOK'
  BY DEF IInv, TimersTypeOK
<1>2. OneSlotPerTimer'
  BY DEF IInv, OneSlotPerTimer
<1>3. CallInv'
  BY DEF CallInv
<1>4. SlotInv'
  BY DEF IInv, TimersTypeOK, SlotInv, CallInv, Busy
<1>5. PromiseInv'
  BY DEF IInv, TimersTypeOK, PromiseInv, CallInv, Settled, None
<1> QED
  BY <1>1, <1>2, <1>3, <1>4, <1>5 DEF IInv

\* Adding modulo Width; below the wrap-around the sum is the sum.
LEMMA Small == \A n \in 0 .. Width - 1 : n % Width = n
OBVIOUS

LEMMA Sum == \A n \in 0 .. Width - 1 : (n + Step) % Width \in 0 .. Width - 1
OBVIOUS

LEMMA TickStep == ASSUME IInv, irq_handler PROVE IInv'
<1> USE DEF irq_handler
<1>1. TimersTypeOK'
  BY Sum DEF IInv, TimersTypeOK, Due, Advanced
<1>2. OneSlotPerTimer'
  BY DEF IInv, OneSlotPerTimer
<1>3. CallInv'
  BY DEF IInv, CallInv
<1>4. SlotInv'
  <2> SUFFICES ASSUME NEW s \in Slots, ~Busy(s)
               PROVE  IF id[s] = 0 THEN handler[s] = NULL
                      ELSE /\ handler[s] # NULL
                           /\ promise[id[s]] = [period |-> period[s], handler |-> handler[s]]
                           /\ counter'[s] = clock'[id[s]]
                           /\ counter'[s] = 0 \/ counter'[s] < period[s]
    BY DEF SlotInv, Busy
  <2>1. CASE id[s] = 0
    BY <2>1 DEF IInv, SlotInv
  <2>2. CASE id[s] # 0 /\ s \in Due
    <3>1. counter'[s] = 0 /\ id[s] \in rang'
      BY <2>2
    <3>2. clock'[id[s]] = 0
      BY <2>2, <3>1, SlotPromised
    <3> QED
      BY <2>2, <3>1, <3>2 DEF IInv, SlotInv
  <2>3. CASE id[s] # 0 /\ s \notin Due
    <3>1. counter'[s] = Advanced(s) /\ ~(Advanced(s) >= period[s])
      BY <2>3, SlotPromised DEF Due
    <3>2. id[s] \notin rang'
      BY <2>3 DEF IInv, OneSlotPerTimer, Due
    <3>3. clock'[id[s]] = (clock[id[s]] + Step) % Width
      BY <2>3, <3>2, SlotPromised
    <3>4. counter'[s] = clock'[id[s]]
      BY <2>3, <3>1, <3>3, SlotPromised DEF Advanced
    <3>5. counter'[s] < period[s]
      BY <2>3, <3>1, SlotPromised, Sum DEF IInv, TimersTypeOK, Advanced
    <3> QED
      BY <2>3, <3>4, <3>5 DEF IInv, SlotInv
  <2> QED
    BY <2>1, <2>2, <2>3
<1>5. PromiseInv'
  BY DEF IInv, PromiseInv, Settled
<1> QED
  BY <1>1, <1>2, <1>3, <1>4, <1>5 DEF IInv

LEMMA Inductive == IInv /\ [TimersNext]_timersVars => IInv'
<1> SUFFICES ASSUME IInv, [TimersNext]_timersVars PROVE IInv'
  OBVIOUS
<1>1. CASE Program
  <2>1. ASSUME NEW i \in Ids, NEW p \in Periods, NEW h \in Handlers, set_timer(i, p, h)
        PROVE  IInv'
    BY <2>1, SetStep
  <2>2. ASSUME NEW i \in Ids, kill_timer(i) PROVE IInv'
    BY <2>2, KillStep
  <2>3. ASSUME NEW i \in Ids, refused(i) PROVE IInv'
    BY <2>3 DEF refused, timersVars, table, IInv, TimersTypeOK, OneSlotPerTimer, CallInv, SlotInv,
                PromiseInv, Busy, Settled
  <2> QED
    BY <1>1, <2>1, <2>2, <2>3 DEF Program
<1>2. CASE UNCHANGED timersVars
  BY <1>2 DEF timersVars, table, IInv, TimersTypeOK, OneSlotPerTimer, CallInv, SlotInv,
              PromiseInv, Busy, Settled
<1> QED
  BY <1>1, <1>2, WriteIdStep, WritePeriodStep, WriteHandlerStep, WriteCounterStep, TickStep
  DEF TimersNext

\* The strengthened invariant holds of the running system.
THEOREM Invariant == TimersSpec => []IInv
BY InitInv, Inductive, PTL DEF TimersSpec

-------------------------------------------------------------------------------
\* PIT's table keeps its type, and every call works on a slot of it.
THEOREM TimersTypeCorrect == TimersSpec => []TimersTypeOK
<1>1. IInv => TimersTypeOK
  BY DEF IInv
<1> QED
  BY <1>1, Invariant, PTL

\* No interleaving of set_timer, kill_timer and ticks gives a timer two slots.
THEOREM SlotsUnique == TimersSpec => []OneSlotPerTimer
<1>1. IInv => OneSlotPerTimer
  BY DEF IInv
<1> QED
  BY <1>1, Invariant, PTL

\* The interrupt calls no handler that set_timer did not install for that
\* timer, between whichever two writes it comes.
THEOREM NoStrayCall == TimersSpec => []CallsMeant
<1>1. ASSUME IInv PROVE CallsMeant
  <2> SUFFICES ASSUME NEW s \in Slots, handler[s] # NULL
               PROVE  \/ id[s] = 0 /\ pc \in {"period", "handler"} /\ call.slot = s
                                   /\ call.handler = NULL
                      \/ id[s] \in Ids /\ handler[s] = promise[id[s]].handler
                      \/ pc # "idle" /\ call.slot = s /\ id[s] = call.timer
                                     /\ handler[s] = call.handler
    BY DEF CallsMeant, Due
  <2>1. CASE Busy(s)
    BY <1>1, <2>1 DEF IInv, TimersTypeOK, CallInv, Busy
  <2>2. CASE ~Busy(s)
    BY <1>1, <2>2, SlotPromised DEF IInv, SlotInv
  <2> QED
    BY <2>1, <2>2
<1> QED
  BY <1>1, Invariant, PTL

\* A timer that is set and left alone rings on exactly the ticks that complete
\* its period.
THEOREM Punctual == TimersSpec => []RingsOnTime
<1>1. ASSUME IInv PROVE RingsOnTime
  <2> SUFFICES ASSUME NEW i \in Ids, Settled(i)
               PROVE  (\E s \in Due : id[s] = i) <=> clock[i] + Step >= promise[i].period
    BY DEF RingsOnTime
  <2>1. PICK s \in Slots : id[s] = i
    BY <1>1 DEF IInv, PromiseInv
  <2>2. ~Busy(s)
    BY <1>1, <2>1 DEF IInv, TimersTypeOK, CallInv, OneSlotPerTimer, Busy, Settled
  <2>3. /\ handler[s] # NULL /\ promise[i].period = period[s] /\ counter[s] = clock[i]
        /\ counter[s] = 0 \/ counter[s] < period[s]
    BY <1>1, <2>1, <2>2, SlotPromised
  <2>4. Advanced(s) = counter[s] + Step
    <3>1. counter[s] \in Nat /\ counter[s] + Step < Width
      BY <1>1, <2>1, <2>2, <2>3, SlotPromised DEF IInv, TimersTypeOK
    <3> QED
      BY <3>1, Small DEF Advanced
  <2>5. \A t \in Slots : id[t] = i => t = s
    BY <1>1, <2>1 DEF IInv, OneSlotPerTimer
  <2> QED
    BY <2>1, <2>3, <2>4, <2>5 DEF Due
<1> QED
  BY <1>1, Invariant, PTL

===============================================================================
