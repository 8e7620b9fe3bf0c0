------------------------------ MODULE PitTimers ------------------------------
(***************************************************************************)
(* The software timers of PIT (OS/timer/8253.cpp).  set_timer and          *)
(* kill_timer run in the program and write a slot of m_handlers field by   *)
(* field, in the order of the source; irq_handler may interrupt them       *)
(* between any two writes and walks the whole table.                       *)
(*                                                                         *)
(* Timer 0 is not used here: an unused slot has id 0, too.                 *)
(***************************************************************************)
EXTENDS Integers

CONSTANTS
  Slots,     \* indices of m_handlers, 0 .. MAX_PIT_HANDLERS - 1
  Ids,       \* timers the program uses
  Handlers,  \* functions it registers
  Periods,   \* in milliseconds
  Step,      \* 1000 / TIMER_FREQ
  Width      \* a uint32 counts modulo this number

NULL == "NULL"
ASSUME TimersAssumption ==
  /\ Slots \subseteq Nat /\ Ids \subseteq Nat \ {0} /\ NULL \notin Handlers
  /\ Step \in Nat \ {0} /\ Width \in Nat /\ Step < Width
  /\ Periods \subseteq 0 .. Width - Step   \* a longer one may be stepped over

VARIABLES
  id, period, handler, counter,  \* the fields of m_handlers
  pc,       \* the field the program writes next; "idle" between calls
  call,     \* what it is doing: arguments and the slot it has found
  promise,  \* history: what the last finished set_timer asked for, by timer
  clock,    \* history: milliseconds since that call or since the timer rang
  rang      \* history: the timers that rang on the last tick

table == <<id, period, handler, counter>>
timersVars == <<table, pc, call, promise, clock, rang>>

None == [period |-> 0, handler |-> NULL]

TimersInit ==
  /\ id = [s \in Slots |-> 0] /\ period = [s \in Slots |-> 0]
  /\ handler = [s \in Slots |-> NULL] /\ counter = [s \in Slots |-> 0]
  /\ pc = "idle"
  /\ call = [slot |-> 0, timer |-> 0, id |-> 0, period |-> 0, handler |-> NULL]
  /\ promise = [i \in Ids |-> None] /\ clock = [i \in Ids |-> 0] /\ rang = {}

-------------------------------------------------------------------------------
(* The program's calls: find the slot, then one field per step *)

First(s, S) == s \in S /\ \A t \in S : s <= t
Named(i) == {s \in Slots : id[s] = i}
Unused == {s \in Slots : handler[s] = NULL}

\* Mutant: the first unused slot is taken before the rest is searched.
set_timer_eager(i, p, h) ==
  /\ pc = "idle"
  /\ \E s \in Slots :
       /\ First(s, Named(i) \cup Unused)
       /\ call' = [slot |-> s, timer |-> i, id |-> i, period |-> p, handler |-> h]
       /\ pc' = "id"
  /\ UNCHANGED <<table, promise, clock, rang>>

\* The slot that has the timer, else the first unused one.
set_timer(i, p, h) ==
  /\ pc = "idle"
  /\ \E s \in Slots :
       /\ First(s, IF Named(i) # {} THEN Named(i) ELSE Unused)
       /\ call' = [slot |-> s, timer |-> i, id |-> i, period |-> p, handler |-> h]
       /\ pc' = IF Named(i) # {} THEN "period" ELSE "id"
  /\ UNCHANGED <<table, promise, clock, rang>>

\* No slot: set_timer or kill_timer returns false.
refused(i) == pc = "idle" /\ Named(i) = {} /\ UNCHANGED timersVars

kill_timer(i) ==
  /\ pc = "idle"
  /\ \E s \in Slots :
       /\ First(s, Named(i))
       /\ call' = [slot |-> s, timer |-> i, id |-> 0, period |-> 0, handler |-> NULL]
  /\ pc' = "id"
  /\ UNCHANGED <<table, promise, clock, rang>>

WriteId ==
  /\ pc = "id" /\ pc' = "period"
  /\ id' = [id EXCEPT ![call.slot] = call.id]
  /\ UNCHANGED <<period, handler, counter, call, promise, clock, rang>>

WritePeriod ==
  /\ pc = "period" /\ pc' = "handler"
  /\ period' = [period EXCEPT ![call.slot] = call.period]
  /\ UNCHANGED <<id, handler, counter, call, promise, clock, rang>>

\* Mutant: kill_timer leaves the handler in place.
WriteHandler_kept ==
  /\ pc = "handler" /\ pc' = "counter"
  /\ handler' = IF call.handler = NULL THEN handler
                ELSE [handler EXCEPT ![call.slot] = call.handler]
  /\ UNCHANGED <<id, period, counter, call, promise, clock, rang>>

WriteHandler ==
  /\ pc = "handler" /\ pc' = "counter"
  /\ handler' = [handler EXCEPT ![call.slot] = call.handler]
  /\ UNCHANGED <<id, period, counter, call, promise, clock, rang>>

\* The call returns: what it asked for holds from here on.
Return ==
  /\ promise' = [promise EXCEPT ![call.timer] =
                   [period |-> call.period, handler |-> call.handler]]
  /\ clock' = [clock EXCEPT ![call.timer] = 0]
  /\ pc' = "idle"

\* Mutant: the time that has passed for the old timer counts for the new one.
WriteCounter_kept ==
  /\ pc = "counter"
  /\ Return
  /\ UNCHANGED <<table, call, rang>>

WriteCounter ==
  /\ pc = "counter"
  /\ counter' = [counter EXCEPT ![call.slot] = 0]
  /\ Return
  /\ UNCHANGED <<id, period, handler, call, rang>>

-------------------------------------------------------------------------------
(* PIT::irq_handler *)

Advanced(s) == (counter[s] + Step) % Width

\* Mutant: a counter that does not meet the period exactly is not noticed.
Due_exact == {s \in Slots : handler[s] # NULL /\ Advanced(s) = period[s]}

\* The slots whose handler the timer interrupt calls when it comes now.
Due == {s \in Slots : handler[s] # NULL /\ Advanced(s) >= period[s]}

irq_handler ==
  /\ counter' = [s \in Slots |-> IF s \in Due THEN 0
                                 ELSE IF handler[s] # NULL THEN Advanced(s) ELSE counter[s]]
  /\ rang' = {id[s] : s \in Due}
  /\ clock' = [i \in Ids |-> IF i \in rang' \/ promise[i] = None THEN 0
                             ELSE (clock[i] + Step) % Width]
  /\ UNCHANGED <<id, period, handler, pc, call, promise>>

Program ==
  \/ \E i \in Ids, p \in Periods, h \in Handlers : set_timer(i, p, h)
  \/ \E i \in Ids : kill_timer(i) \/ refused(i)

TimersNext == irq_handler \/ Program \/ WriteId \/ WritePeriod \/ WriteHandler \/ WriteCounter

\* The timer chip keeps interrupting.
TimersSpec == TimersInit /\ [][TimersNext]_timersVars /\ WF_timersVars(irq_handler)

-------------------------------------------------------------------------------
(* Properties *)

TimersTypeOK ==
  /\ id \in [Slots -> Ids \cup {0}]
  /\ period \in [Slots -> Periods \cup {0}]
  /\ handler \in [Slots -> Handlers \cup {NULL}]
  /\ counter \in [Slots -> 0 .. Width - 1]
  /\ pc \in {"idle", "id", "period", "handler", "counter"}
  /\ call \in [slot : Slots \cup {0}, timer : Ids \cup {0}, id : Ids \cup {0},
               period : Periods \cup {0}, handler : Handlers \cup {NULL}]
  /\ pc # "idle" => call.slot \in Slots /\ call.timer \in Ids /\ call.id \in {0, call.timer}
  /\ promise \in [Ids -> [period : Periods \cup {0}, handler : Handlers \cup {NULL}]]
  /\ clock \in [Ids -> 0 .. Width - 1]
  /\ rang \subseteq Ids \cup {0}

\* However calls and ticks alternate, a timer never occupies two slots, so
\* kill_timer, which stops at the first, leaves none behind.
OneSlotPerTimer ==
  \A s, t \in Slots : s # t /\ id[s] = id[t] => id[s] = 0

\* A half-written slot never makes the interrupt call a handler for a timer it
\* was not set for: the handler is the one promised, or the one the running
\* set_timer installs.  Only the slot kill_timer is clearing rings as timer 0.
CallsMeant ==
  \A s \in Due :
    \/ id[s] = 0 /\ pc \in {"period", "handler"} /\ call.slot = s /\ call.handler = NULL
    \/ id[s] \in Ids /\ handler[s] = promise[id[s]].handler
    \/ pc # "idle" /\ call.slot = s /\ id[s] = call.timer /\ handler[s] = call.handler

\* The timer has been set and the program is not setting or killing it again.
Settled(i) == promise[i] # None /\ ~(pc # "idle" /\ call.timer = i)

\* A timer that is set rings on the first tick that completes its period,
\* counted from the return of set_timer or from the last ring: never earlier,
\* whatever an older timer left in the slot, and never later.
RingsOnTime ==
  \A i \in Ids : Settled(i) =>
    ((\E s \in Due : id[s] = i) <=> clock[i] + Step >= promise[i].period)

\* A timer left alone rings again and again.
RingsForEver == \A i \in Ids : <>[]Settled(i) => []<>(i \in rang)

===============================================================================
