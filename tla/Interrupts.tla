------------------------------- MODULE Interrupts -------------------------------
(***************************************************************************)
(* The way of an interrupt: the devices, the two 8259 controllers of       *)
(* src/src/pic.c, the gates and handlers of src/src/interrupts.c and       *)
(* interrupts.asm, and the part of kmain that sets them up, in its order.  *)
(* The gates are interrupt gates: a handler runs with interrupts off,      *)
(* while the devices go on.                                                *)
(*                                                                         *)
(* A controller latches a request when a line rises.  The clock and the    *)
(* keyboard hold their lines up until they are read; the timer and the     *)
(* drive let them fall by themselves, and a request whose line has fallen  *)
(* may be answered as the controller's last line, a spurious interrupt.    *)
(***************************************************************************)
EXTENDS Rtc

Timer == 0
Keyboard == 1
Cascade == 2
Clock == 8
Mouse == 12
Drive == 14
Line == {Timer, Keyboard, Clock, Mouse, Drive}
Held == {Keyboard, Clock}

Master == 0 .. 7
Slave == 8 .. 15
Exception == 0 .. 31
None == -1

VARIABLES
  high,            \* the lines that are up
  irr, isr, imr,   \* the controllers: requests, lines in service, masks
  base,            \* the vectors of their first lines
  gates,           \* the vectors with a gate
  iflag,           \* are interrupts on?
  handler,         \* irq_handler: the line it serves and its next step
  fault,           \* the vector that ended in exception_handler
  boot,            \* kmain's place in Script
  lost             \* lines that were up when init_pic forgot their rise

pic == <<irr, isr, imr, base>>
vars == <<rtc, high, pic, gates, iflag, handler, fault, boot, lost>>

NoHandler == [irq |-> None, step |-> "none"]

-----------------------------------------------------------------------------
(* kmain and idt_init *)

Fields(order) ==
  <<<<"select", order[1]>>, <<"read", order[1]>>,
    <<"select", order[2]>>, <<"read", order[2]>>,
    <<"select", order[3]>>, <<"write", order[3]>>>>

ReadTime == Fields(<<"hour", "minute", "second">>)

IdtInit ==
  <<<<"call", "exception_gates">>, <<"call", "init_pic">>,
    <<"call", "irq_gates">>, <<"call", "enable_interrupts">>>>

\* Mutation: the time is read after interrupts have been turned on.
ScriptTimeLast ==
  <<<<"call", "rtc_init">>, <<"call", "checks">>>> \o IdtInit \o ReadTime

Script ==
  <<<<"call", "rtc_init">>, <<"call", "checks">>>> \o ReadTime \o IdtInit

Stopped == 0

Init ==
  /\ RtcInit
  /\ high = {} /\ irr = {} /\ isr = {} /\ imr = Master \cup Slave
  /\ base = [master |-> 8, slave |-> 112]
  /\ gates = {}
  /\ iflag = FALSE
  /\ handler = NoHandler
  /\ fault = None
  /\ boot = 1
  /\ lost = {}

\* kmain goes on where it is, unless an interrupt has the processor.
Step(what) ==
  /\ handler = NoHandler /\ fault = None
  /\ boot \in DOMAIN Script /\ Script[boot] = what
  /\ boot' = boot + 1

RtcStep ==
  /\ \/ Step(<<"call", "rtc_init">>) /\ SetPeriodic
     \/ \E f \in Field : \/ Step(<<"select", f>>) /\ Select(RegisterOf[f])
                         \/ Step(<<"read", f>>) /\ ReadField(f)
                         \/ Step(<<"write", f>>) /\ ReadAndWrite(f)
  /\ UNCHANGED <<high, pic, gates, iflag, handler, fault, lost>>

\* Without screen or font the kernel stops, before it has turned on interrupts.
Checks ==
  /\ \/ Step(<<"call", "checks">>)
     \/ /\ boot \in DOMAIN Script /\ Script[boot] = <<"call", "checks">>
        /\ boot' = Stopped
  /\ UNCHANGED <<rtc, high, pic, gates, iflag, handler, fault, lost>>

SetExceptionGates ==
  /\ Step(<<"call", "exception_gates">>)
  /\ gates' = Exception
  /\ UNCHANGED <<rtc, high, pic, iflag, handler, fault, lost>>

\* The first command word makes a controller forget the rises it has seen; a
\* line that is up may count as risen again, or not until it has fallen.
InitPic ==
  /\ Step(<<"call", "init_pic">>)
  /\ \E seen \in SUBSET high : irr' = seen /\ lost' = high \ seen
  /\ isr' = {} /\ imr' = {}
  /\ base' = [master |-> 32, slave |-> 40]
  /\ UNCHANGED <<rtc, high, gates, iflag, handler, fault>>

\* Mutation: the clock's gate is left out.
GatesWithoutClock == {32, 33, 46, 47}

IrqGates == {32, 33, 40, 46, 47}

\* set_idt_entry, and pic_unmask_irq for the timer and the keyboard.
SetIrqGates ==
  /\ Step(<<"call", "irq_gates">>)
  /\ gates' = gates \cup IrqGates
  /\ imr' = imr \ {Timer, Keyboard}
  /\ UNCHANGED <<rtc, high, irr, isr, base, iflag, handler, fault, lost>>

EnableInterrupts ==
  /\ Step(<<"call", "enable_interrupts">>)
  /\ iflag' = TRUE
  /\ UNCHANGED <<rtc, high, pic, gates, handler, fault, lost>>

Boot ==
  \/ RtcStep \/ Checks \/ SetExceptionGates
  \/ InitPic \/ SetIrqGates \/ EnableInterrupts

-----------------------------------------------------------------------------
(* Delivery *)

\* The slave's lines come in through one line of the master's.
MasterLine(l) == IF l \in Master THEN l ELSE Cascade

Eligible(l) ==
  /\ l \in irr \ imr /\ MasterLine(l) \notin imr
  /\ \A m \in isr \cap Master : MasterLine(l) < m
  /\ l \in Slave => \A m \in isr \cap Slave : l < m

Above(l) == {m \in Line : \/ MasterLine(m) < MasterLine(l)
                          \/ MasterLine(m) = MasterLine(l) /\ m < l}

Vector(l) == IF l \in Master THEN base.master + l ELSE base.slave + l - 8

FirstStep(irq) ==
  CASE irq = Keyboard -> "read_scancode"
    [] irq = Clock    -> "select_c"
    [] OTHER          -> "eoi"

\* exception_handler: the registers to the serial port, and the processor
\* halts with interrupts off.
Halt(vector) ==
  /\ fault' = vector
  /\ UNCHANGED handler

\* Through the gate to irq_handler, which finds its line by the vector.  A
\* missing gate is an exception of its own.
Enter(vector) ==
  /\ iflag' = FALSE
  /\ IF vector \in gates \ Exception
       THEN /\ handler' = [irq |-> vector - 32, step |-> FirstStep(vector - 32)]
            /\ UNCHANGED fault
       ELSE Halt(vector)

Interruptible == iflag /\ handler = NoHandler /\ fault = None

IsNext(l) == Interruptible /\ Eligible(l) /\ \A m \in Above(l) : ~Eligible(m)

Deliver(l) ==
  /\ IsNext(l)
  /\ irr' = irr \ {l}
  /\ isr' = isr \cup {l, MasterLine(l)}
  /\ Enter(Vector(l))
  /\ UNCHANGED <<rtc, high, imr, base, gates, boot, lost>>

\* A spurious interrupt is in service at the master only, if it came from the
\* slave, and nowhere if it came from the master.
DeliverSpurious(l) ==
  /\ IsNext(l) /\ l \notin high
  /\ irr' = irr \ {l}
  /\ isr' = isr \cup ({Cascade} \cap {MasterLine(l)})
  /\ Enter(Vector(IF l \in Master THEN 7 ELSE 15))
  /\ UNCHANGED <<rtc, high, imr, base, gates, boot, lost>>

-----------------------------------------------------------------------------
(* irq_handler *)

AtStep(s) == handler.step = s
Goto(s) == handler' = [handler EXCEPT !.step = s]

\* Mutation: the scan code is left in the keyboard.
ReadScancodeNot ==
  /\ AtStep("read_scancode")
  /\ Goto("eoi")
  /\ UNCHANGED <<rtc, high, pic, gates, iflag, fault, boot, lost>>

\* inb(0x60); what keyboard_handle_irq makes of it is in Keyboard and Console.
ReadScancode ==
  /\ AtStep("read_scancode")
  /\ high' = high \ {Keyboard}
  /\ Goto("eoi")
  /\ UNCHANGED <<rtc, pic, gates, iflag, fault, boot, lost>>

\* rtc_handler: reading register C lets the line fall.
SelectC ==
  /\ AtStep("select_c")
  /\ Select(RegisterC)
  /\ Goto("read_c")
  /\ UNCHANGED <<high, pic, gates, iflag, fault, boot, lost>>

\* Mutation: register C is not read.
ReadCNot ==
  /\ AtStep("read_c")
  /\ Goto("eoi")
  /\ UNCHANGED <<rtc, high, pic, gates, iflag, fault, boot, lost>>

ReadC ==
  /\ AtStep("read_c") /\ selected = RegisterC
  /\ high' = high \ {Clock}
  /\ Goto("eoi")
  /\ UNCHANGED <<rtc, pic, gates, iflag, fault, boot, lost>>

\* What an end-of-interrupt command takes out of service.
First(lines) == {l \in lines : \A m \in lines : l <= m}

\* Mutation: only the master is told.
SendEoiToMaster ==
  /\ AtStep("eoi")
  /\ isr' = isr \ First(isr \cap Master)
  /\ Goto("iret")
  /\ UNCHANGED <<rtc, high, irr, imr, base, gates, iflag, fault, boot, lost>>

SendEoi ==
  /\ AtStep("eoi")
  /\ isr' = isr \ (First(isr \cap Master) \cup
                   IF handler.irq \in Slave THEN First(isr \cap Slave) ELSE {})
  /\ Goto("iret")
  /\ UNCHANGED <<rtc, high, irr, imr, base, gates, iflag, fault, boot, lost>>

Iret ==
  /\ AtStep("iret")
  /\ iflag' = TRUE
  /\ handler' = NoHandler
  /\ UNCHANGED <<rtc, high, pic, gates, fault, boot, lost>>

IrqHandler == ReadScancode \/ SelectC \/ ReadC \/ SendEoi \/ Iret

-----------------------------------------------------------------------------
(* The devices *)

Raise(l) ==
  /\ l \notin high
  /\ l = Clock => periodic
  /\ high' = high \cup {l}
  /\ irr' = irr \cup {l}
  /\ UNCHANGED <<rtc, isr, imr, base, gates, iflag, handler, fault, boot, lost>>

\* The timer's wave; the drive's status, which the driver polls.
Fall(l) ==
  /\ l \in high
  /\ high' = high \ {l}
  /\ UNCHANGED <<rtc, pic, gates, iflag, handler, fault, boot, lost>>

ClockRuns ==
  /\ SecondPasses
  /\ UNCHANGED <<high, pic, gates, iflag, handler, fault, boot, lost>>

Device ==
  \/ \E l \in Line : Raise(l)
  \/ \E l \in {Timer, Drive} : Fall(l)
  \/ ClockRuns

Interrupt == \E l \in Line : Deliver(l) \/ DeliverSpurious(l)

Next == Boot \/ Interrupt \/ IrqHandler \/ Device

\* The processor goes on, and answers a line that is the next one again and
\* again.
Fairness ==
  /\ WF_vars(Boot) /\ WF_vars(IrqHandler)
  /\ \A l \in Held : SF_vars(Deliver(l))

Spec == Init /\ [][Next]_vars /\ Fairness

-----------------------------------------------------------------------------
(* Properties *)

\* A keyboard or clock that holds its line up has its request latched, or its
\* handler has yet to read it: with edge-triggered lines nothing else would
\* ever make it heard again.  The one exception is a line that was up when
\* init_pic ran, which may stay unheard for good (pic.c:18, rtc.c:12,
\* interrupts.c:194).
NoRequestForgotten ==
  \A l \in Held \cap high :
    \/ l \in irr \cup lost
    \/ handler.irq = l /\ handler.step \in {"read_scancode", "select_c", "read_c"}
    \/ fault # None

\* Whenever interrupts are on, neither controller holds a line in service, be
\* the last interrupt spurious or not: no handler has left a line blocked
\* (pic.c:48-53).
NothingLeftInService == iflag => isr = {}

\* Only a line that idt_init gave no gate halts the machine: the mouse's, and
\* the master's spurious one.  No device's interrupt comes before its gate is
\* there or is taken for an exception (interrupts.c:230-246).
HaltsOnlyWithoutGate == fault \in {None, 32 + Mouse, 32 + 7}

\* The keyboard and the clock are read each time they ask, if the requests of
\* the lines above theirs let up now and then, as a timer of 100 Hz does.
LetsUp(l) == []<>(Interruptible /\ Above(l) \cap irr = {})

RequestsServed ==
  \A l \in Held : LetsUp(l) => (l \in high ~> (l \notin high \/ l \in lost))

=============================================================================
