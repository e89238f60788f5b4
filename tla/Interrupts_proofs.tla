--------------------------- MODULE Interrupts_proofs ---------------------------
(***************************************************************************)
(* What the handlers leave behind, for a clock that starts at any time and *)
(* runs for as long as it likes before the time is written; and the time   *)
(* that is written, if that takes no longer than a minute.                 *)
(***************************************************************************)
EXTENDS Interrupts, SequenceTheorems, TLAPS

Served == {Timer, Keyboard, Clock, Drive}
Spurious == 15
End == 13

\* What kmain has set up at each place of Script, and that nothing interrupts
\* it before the end.
BootInv ==
  /\ boot \in 0 .. End
  /\ boot \in {10, 11} => gates = Exception
  /\ boot \in {11, 12, End} => base = [master |-> 32, slave |-> 40]
  /\ boot \in {12, End} => gates = Exception \cup IrqGates
  /\ iflag \/ handler # NoHandler \/ fault # None => boot = End

\* Each step of a handler belongs to its line, and runs with interrupts off.
HandlerInv ==
  /\ iflag \in BOOLEAN
  /\ handler # NoHandler =>
       /\ handler \in [irq  : Served \cup {Spurious},
                       step : {"read_scancode", "select_c", "read_c", "eoi", "iret"}]
       /\ fault = None /\ ~iflag
  /\ AtStep("read_scancode") => handler.irq = Keyboard
  /\ AtStep("select_c") \/ AtStep("read_c") => handler.irq = Clock
  /\ fault # None => ~iflag

\* Until its end of interrupt, a handler has its own line in service, and the
\* cascade if that is the slave's; a spurious interrupt has the cascade only.
ServiceInv ==
  fault = None =>
    /\ handler = NoHandler \/ AtStep("iret") => isr = {}
    /\ handler # NoHandler /\ ~AtStep("iret") =>
         \/ handler.irq \in Served /\ isr = {handler.irq, MasterLine(handler.irq)}
         \/ handler.irq = Spurious /\ isr = {Cascade}

IInv == BootInv /\ HandlerInv /\ ServiceInv /\ HaltsOnlyWithoutGate

-----------------------------------------------------------------------------
(* Places of the script *)

Instruction ==
  {"call", "select", "read", "write"} \X
    (Field \cup {"rtc_init", "checks", "exception_gates", "init_pic",
                "irq_gates", "enable_interrupts"})

LEMMA ReadTimeLen ==
  /\ ReadTime \in Seq(Instruction) /\ Len(ReadTime) = 6
  /\ ReadTime[1] = <<"select", "hour">> /\ ReadTime[2] = <<"read", "hour">>
  /\ ReadTime[3] = <<"select", "minute">> /\ ReadTime[4] = <<"read", "minute">>
  /\ ReadTime[5] = <<"select", "second">> /\ ReadTime[6] = <<"write", "second">>
  /\ \A i \in 1 .. 6 : ReadTime[i][1] # "call"
<1>1. ReadTime = <<<<"select", "hour">>, <<"read", "hour">>,
                   <<"select", "minute">>, <<"read", "minute">>,
                   <<"select", "second">>, <<"write", "second">>>>
  BY DEF ReadTime, Fields
<1>2. /\ <<"select", "hour">> \in Instruction
      /\ <<"read", "hour">> \in Instruction
      /\ <<"select", "minute">> \in Instruction
      /\ <<"read", "minute">> \in Instruction
      /\ <<"select", "second">> \in Instruction
      /\ <<"write", "second">> \in Instruction
  BY DEF Instruction, Field
<1>3. ReadTime \in Seq(Instruction) /\ Len(ReadTime) = 6
  BY <1>1, <1>2
<1>4. \A i \in 1 .. 6 : ReadTime[i][1] # "call"
  BY <1>1
<1>5. /\ ReadTime[1] = <<"select", "hour">> /\ ReadTime[2] = <<"read", "hour">>
      /\ ReadTime[3] = <<"select", "minute">> /\ ReadTime[4] = <<"read", "minute">>
      /\ ReadTime[5] = <<"select", "second">> /\ ReadTime[6] = <<"write", "second">>
  BY <1>1
<1>. QED BY <1>3, <1>4, <1>5

LEMMA IdtInitLen ==
  /\ IdtInit \in Seq(Instruction) /\ Len(IdtInit) = 4
  /\ IdtInit[1] = <<"call", "exception_gates">>
  /\ IdtInit[2] = <<"call", "init_pic">>
  /\ IdtInit[3] = <<"call", "irq_gates">>
  /\ IdtInit[4] = <<"call", "enable_interrupts">>
<1>1. /\ <<"call", "exception_gates">> \in Instruction
      /\ <<"call", "init_pic">> \in Instruction
      /\ <<"call", "irq_gates">> \in Instruction
      /\ <<"call", "enable_interrupts">> \in Instruction
  BY DEF Instruction, Field
<1>2. IdtInit \in Seq(Instruction) /\ Len(IdtInit) = 4
  BY <1>1 DEF IdtInit
<1>3. /\ IdtInit[1] = <<"call", "exception_gates">>
      /\ IdtInit[2] = <<"call", "init_pic">>
      /\ IdtInit[3] = <<"call", "irq_gates">>
      /\ IdtInit[4] = <<"call", "enable_interrupts">>
  BY DEF IdtInit
<1>. QED BY <1>2, <1>3

\* Where kmain does what.
LEMMA Places ==
  /\ DOMAIN Script = 1 .. 12
  /\ Script[1] = <<"call", "rtc_init">> /\ Script[2] = <<"call", "checks">>
  /\ Script[3] = <<"select", "hour">> /\ Script[4] = <<"read", "hour">>
  /\ Script[5] = <<"select", "minute">> /\ Script[6] = <<"read", "minute">>
  /\ Script[7] = <<"select", "second">> /\ Script[8] = <<"write", "second">>
  /\ \A i \in 1 .. 8 : Script[i] \notin {IdtInit[j] : j \in 1 .. 4}
  /\ \A j \in 1 .. 4 : Script[8 + j] = IdtInit[j]
  /\ Script[9] = <<"call", "exception_gates">>
  /\ Script[10] = <<"call", "init_pic">>
  /\ Script[11] = <<"call", "irq_gates">>
  /\ Script[12] = <<"call", "enable_interrupts">>
<1>. DEFINE first == <<<<"call", "rtc_init">>, <<"call", "checks">>>>
            front == first \o ReadTime
<1>1. /\ first \in Seq(Instruction) /\ Len(first) = 2
      /\ first[1] = <<"call", "rtc_init">> /\ first[2] = <<"call", "checks">>
  BY DEF Instruction, Field
<1>. HIDE DEF first
<1>2. /\ front \in Seq(Instruction) /\ Len(front) = 8
      /\ \A i \in 1 .. 8 : front[i] = IF i <= 2 THEN first[i] ELSE ReadTime[i - 2]
  <2>1. /\ front \in Seq(Instruction) /\ Len(front) = Len(first) + Len(ReadTime)
        /\ \A i \in 1 .. Len(first) + Len(ReadTime) :
             front[i] = IF i <= Len(first) THEN first[i] ELSE ReadTime[i - Len(first)]
    BY <1>1, ReadTimeLen, ConcatProperties, Zenon
  <2>. HIDE DEF front
  <2>2. Len(first) = 2 /\ Len(ReadTime) = 6
    BY <1>1, ReadTimeLen
  <2>3. Len(front) = 8
    BY <2>1, <2>2
  <2>4. \A i \in 1 .. 8 : front[i] = IF i <= 2 THEN first[i] ELSE ReadTime[i - 2]
    BY <2>1, <2>2
  <2>. QED BY <2>1, <2>3, <2>4
<1>3. Script = front \o IdtInit
  BY DEF Script, first
<1>. HIDE DEF front
<1>4. /\ Script \in Seq(Instruction) /\ Len(Script) = 12
      /\ \A i \in 1 .. 12 : Script[i] = IF i <= 8 THEN front[i] ELSE IdtInit[i - 8]
  <2>1. /\ Script \in Seq(Instruction) /\ Len(Script) = Len(front) + Len(IdtInit)
        /\ \A i \in 1 .. Len(front) + Len(IdtInit) :
             Script[i] = IF i <= Len(front) THEN front[i] ELSE IdtInit[i - Len(front)]
    BY <1>2, <1>3, IdtInitLen, ConcatProperties, Zenon
  <2>. QED BY <2>1, <1>2, IdtInitLen
<1>5. DOMAIN Script = 1 .. 12
  BY <1>4
<1>6. \A j \in 1 .. 4 : Script[8 + j] = IdtInit[j]
  BY <1>4
<1>7. ASSUME NEW i \in 1 .. 8, NEW j \in 1 .. 4
      PROVE  Script[i] # IdtInit[j]
  <2>1. Script[i] = front[i]
    BY <1>4
  <2>2. CASE i <= 2
    <3>1. Script[i] \in {<<"call", "rtc_init">>, <<"call", "checks">>}
      BY <2>1, <2>2, <1>1, <1>2
    <3>. QED BY <3>1, IdtInitLen
  <2>3. CASE i > 2
    <3>1. Script[i] = ReadTime[i - 2] /\ i - 2 \in 1 .. 6
      BY <2>1, <2>3, <1>2
    <3>2. Script[i][1] # "call"
      BY <3>1, ReadTimeLen
    <3>3. IdtInit[j][1] = "call"
      BY IdtInitLen
    <3>. QED BY <3>2, <3>3
  <2>. QED BY <2>2, <2>3
<1>8. /\ Script[1] = first[1] /\ Script[2] = first[2]
      /\ \A i \in 1 .. 6 : Script[2 + i] = ReadTime[i]
  <2>1. \A i \in 1 .. 8 : Script[i] = front[i]
    BY <1>4
  <2>2. front[1] = first[1] /\ front[2] = first[2]
    BY <1>2
  <2>3. \A i \in 1 .. 6 : front[2 + i] = ReadTime[i]
    BY <1>2
  <2>. QED BY <2>1, <2>2, <2>3
<1>9. /\ Script[3] = ReadTime[1] /\ Script[4] = ReadTime[2] /\ Script[5] = ReadTime[3]
      /\ Script[6] = ReadTime[4] /\ Script[7] = ReadTime[5] /\ Script[8] = ReadTime[6]
  BY <1>8
<1>. QED BY <1>1, <1>5, <1>6, <1>7, <1>8, <1>9, IdtInitLen, ReadTimeLen

\* Each part of idt_init has one place only.
LEMMA PlaceOf ==
  ASSUME NEW i \in 1 .. 12
  PROVE  /\ Script[i] = <<"call", "exception_gates">> => i = 9
         /\ Script[i] = <<"call", "init_pic">> => i = 10
         /\ Script[i] = <<"call", "irq_gates">> => i = 11
         /\ Script[i] = <<"call", "enable_interrupts">> => i = 12
<1>1. CASE i \in 1 .. 8
  <2>1. \A j \in 1 .. 4 : Script[i] # IdtInit[j]
    BY <1>1, Places
  <2>2. /\ Script[i] # IdtInit[1] /\ Script[i] # IdtInit[2]
        /\ Script[i] # IdtInit[3] /\ Script[i] # IdtInit[4]
    BY <2>1
  <2>. QED BY <2>2, IdtInitLen
<1>2. CASE i \in 9 .. 12
  BY <1>2, Places
<1>. QED BY <1>1, <1>2

-----------------------------------------------------------------------------
(* The set-up *)

\* kmain runs only before the end of Script, with interrupts off.
LEMMA Steps ==
  ASSUME BootInv, NEW what, Step(what)
  PROVE  /\ boot \in 1 .. 12 /\ Script[boot] = what /\ boot' = boot + 1
         /\ boot # End /\ handler = NoHandler /\ fault = None /\ ~iflag
BY Places DEF Step, BootInv, End

\* A step of kmain keeps the set-up in order, and leaves no line in service.
LEMMA BootKeeps ==
  ASSUME IInv, Boot
  PROVE  IInv'
<1>. USE DEF IInv
<1>1. CASE RtcStep
  <2>1. PICK what : /\ Step(what)
                    /\ what \notin {IdtInit[j] : j \in 1 .. 4}
    <3>1. CASE Step(<<"call", "rtc_init">>)
      <4>1. <<"call", "rtc_init">> \notin {IdtInit[j] : j \in 1 .. 4}
        BY IdtInitLen
      <4>. QED BY <3>1, <4>1
    <3>2. CASE \E f \in Field : \/ Step(<<"select", f>>)
                                \/ Step(<<"read", f>>)
                                \/ Step(<<"write", f>>)
      <4>1. \A f \in Field : /\ <<"select", f>> \notin {IdtInit[j] : j \in 1 .. 4}
                             /\ <<"read", f>> \notin {IdtInit[j] : j \in 1 .. 4}
                             /\ <<"write", f>> \notin {IdtInit[j] : j \in 1 .. 4}
        BY IdtInitLen
      <4>. QED BY <3>2, <4>1
    <3>. QED BY <1>1, <3>1, <3>2 DEF RtcStep
  <2>2. boot \in 1 .. 8 /\ boot' = boot + 1
    <3>1. boot \in 1 .. 12 /\ Script[boot] = what /\ boot' = boot + 1
      BY <2>1, Steps
    <3>2. ASSUME boot \notin 1 .. 8 PROVE FALSE
      <4>1. PICK j \in 1 .. 4 : boot = 8 + j
        BY <3>1, <3>2
      <4>2. Script[boot] = IdtInit[j]
        BY <4>1, Places
      <4>. QED BY <4>2, <3>1, <2>1
    <3>. QED BY <3>1, <3>2
  <2>3. UNCHANGED <<high, pic, gates, iflag, handler, fault, lost>>
    BY <1>1 DEF RtcStep
  <2>4. ~iflag /\ handler = NoHandler /\ fault = None
    BY <2>1, Steps
  <2>. QED
    BY <2>2, <2>3, <2>4
    DEF BootInv, HandlerInv, ServiceInv, HaltsOnlyWithoutGate, End, pic, AtStep
<1>2. CASE Checks
  <2>1. boot \in 1 .. 8 /\ (boot' = boot + 1 \/ boot' = 0)
    <3>1. boot \in 1 .. 12 /\ Script[boot] = <<"call", "checks">>
      BY <1>2, Places DEF Checks, Step
    <3>2. boot' = boot + 1 \/ boot' = 0
      BY <1>2 DEF Checks, Step, Stopped
    <3>3. \A j \in 1 .. 4 : IdtInit[j] # <<"call", "checks">>
      BY IdtInitLen
    <3>4. ASSUME boot \notin 1 .. 8 PROVE FALSE
      <4>1. PICK j \in 1 .. 4 : boot = 8 + j
        BY <3>1, <3>4
      <4>2. Script[boot] = IdtInit[j]
        BY <4>1, Places
      <4>. QED BY <4>2, <3>1, <3>3
    <3>. QED BY <3>1, <3>2, <3>4
  <2>2. UNCHANGED <<high, pic, gates, iflag, handler, fault, lost>>
    BY <1>2 DEF Checks
  <2>. QED
    BY <2>1, <2>2
    DEF BootInv, HandlerInv, ServiceInv, HaltsOnlyWithoutGate, End, pic, AtStep
<1>3. CASE SetExceptionGates
  <2>1. /\ boot \in 1 .. 12 /\ Script[boot] = <<"call", "exception_gates">>
        /\ boot' = boot + 1 /\ ~iflag /\ handler = NoHandler /\ fault = None
    BY <1>3, Steps DEF SetExceptionGates
  <2>2. boot = 9
    BY <2>1, Places, PlaceOf
  <2>. QED
    BY <1>3, <2>1, <2>2
    DEF SetExceptionGates, BootInv, HandlerInv, ServiceInv,
        HaltsOnlyWithoutGate, End, pic, AtStep
<1>4. CASE InitPic
  <2>1. /\ boot \in 1 .. 12 /\ Script[boot] = <<"call", "init_pic">>
        /\ boot' = boot + 1 /\ ~iflag /\ handler = NoHandler /\ fault = None
    BY <1>4, Steps DEF InitPic
  <2>2. boot = 10
    BY <2>1, Places, PlaceOf
  <2>. QED
    BY <1>4, <2>1, <2>2
    DEF InitPic, BootInv, HandlerInv, ServiceInv, HaltsOnlyWithoutGate, End, AtStep
<1>5. CASE SetIrqGates
  <2>1. /\ boot \in 1 .. 12 /\ Script[boot] = <<"call", "irq_gates">>
        /\ boot' = boot + 1 /\ ~iflag /\ handler = NoHandler /\ fault = None
    BY <1>5, Steps DEF SetIrqGates
  <2>2. boot = 11
    BY <2>1, Places, PlaceOf
  <2>. QED
    BY <1>5, <2>1, <2>2
    DEF SetIrqGates, BootInv, HandlerInv, ServiceInv, HaltsOnlyWithoutGate, End, AtStep
<1>6. CASE EnableInterrupts
  <2>1. /\ boot \in 1 .. 12 /\ Script[boot] = <<"call", "enable_interrupts">>
        /\ boot' = boot + 1 /\ ~iflag /\ handler = NoHandler /\ fault = None
    BY <1>6, Steps DEF EnableInterrupts
  <2>2. boot = 12
    BY <2>1, Places, PlaceOf
  <2>. QED
    BY <1>6, <2>1, <2>2
    DEF EnableInterrupts, BootInv, HandlerInv, ServiceInv,
        HaltsOnlyWithoutGate, End, pic, AtStep
<1>. QED BY <1>1, <1>2, <1>3, <1>4, <1>5, <1>6 DEF Boot
-----------------------------------------------------------------------------
(* Interrupts and their handlers *)

\* A line with a gate goes to its handler, the mouse's does not.
LEMMA Gated ==
  ASSUME BootInv, boot = End, NEW l \in Line
  PROVE  /\ Vector(l) = 32 + l
         /\ l \in Served => Vector(l) \in gates \ Exception
         /\ l = Mouse => Vector(l) \notin gates \ Exception
         /\ 39 \notin gates \ Exception /\ 47 \in gates \ Exception
<1>1. gates = Exception \cup IrqGates /\ base = [master |-> 32, slave |-> 40]
  BY DEF BootInv
<1>2. Vector(l) = 32 + l
  BY <1>1 DEF Vector, Line, Master, Timer, Keyboard, Clock, Mouse, Drive
<1>3. gates \ Exception = IrqGates
  BY <1>1 DEF Exception, IrqGates
<1>. QED
  BY <1>2, <1>3
  DEF IrqGates, Served, Line, Timer, Keyboard, Clock, Mouse, Drive

\* A vector with a gate enters irq_handler.
LEMMA Entered ==
  ASSUME NEW vector \in gates \ Exception, Enter(vector)
  PROVE  /\ handler' = [irq |-> vector - 32, step |-> FirstStep(vector - 32)]
         /\ fault' = fault
BY DEF Enter, Halt

\* A line with a gate is handed to its own handler.
LEMMA Delivered ==
  ASSUME IInv, NEW l \in Served, Deliver(l)
  PROVE  handler' = [irq |-> l, step |-> FirstStep(l)] /\ fault' = None
<1>1. handler = NoHandler /\ fault = None /\ boot = End /\ l \in Line
  BY DEF IInv, BootInv, Deliver, IsNext, Interruptible, Served, Line
<1>2. Vector(l) = 32 + l /\ Vector(l) \in gates \ Exception
  BY <1>1, Gated DEF IInv
<1>3. PICK vector : vector = Vector(l)
  OBVIOUS
<1>4. vector \in gates \ Exception /\ Enter(vector)
  BY <1>2, <1>3 DEF Deliver
<1>5. vector - 32 = l
  BY <1>2, <1>3 DEF Served, Timer, Keyboard, Clock, Drive
<1>6. /\ handler' = [irq |-> vector - 32, step |-> FirstStep(vector - 32)]
      /\ fault' = fault
  BY <1>4, Entered
<1>. QED BY <1>1, <1>5, <1>6

LEMMA DeliverKeeps ==
  ASSUME IInv, NEW l \in Line, Deliver(l)
  PROVE  IInv'
<1>1. /\ iflag /\ handler = NoHandler /\ fault = None /\ boot = End /\ isr = {}
  BY DEF IInv, BootInv, ServiceInv, Deliver, IsNext, Interruptible
<1>2. /\ Vector(l) = 32 + l
      /\ l \in Served => Vector(l) \in gates \ Exception
      /\ l = Mouse => Vector(l) \notin gates \ Exception
  BY <1>1, Gated DEF IInv
<1>3. /\ iflag' = FALSE /\ isr' = {l, MasterLine(l)}
      /\ UNCHANGED <<base, gates, boot>>
  BY <1>1 DEF Deliver, Enter
<1>4. BootInv'
  BY <1>1, <1>3 DEF IInv, BootInv
<1>5. CASE l \in Served
  <2>1. handler' = [irq |-> l, step |-> FirstStep(l)] /\ fault' = None
    BY <1>5, Delivered
  <2>2. /\ FirstStep(l) \in {"read_scancode", "select_c", "eoi"}
        /\ FirstStep(l) = "read_scancode" => l = Keyboard
        /\ FirstStep(l) = "select_c" => l = Clock
    BY DEF FirstStep
  <2>3. HandlerInv'
    BY <2>1, <2>2, <1>3, <1>5 DEF HandlerInv, AtStep
  <2>4. ServiceInv'
    BY <2>1, <2>2, <1>3, <1>5 DEF ServiceInv, AtStep, NoHandler, MasterLine
  <2>5. HaltsOnlyWithoutGate'
    BY <2>1 DEF HaltsOnlyWithoutGate
  <2>. QED BY <1>4, <2>3, <2>4, <2>5 DEF IInv
<1>6. CASE l = Mouse
  <2>1. handler' = NoHandler /\ fault' = 32 + Mouse
    BY <1>1, <1>2, <1>6 DEF Deliver, Enter, Halt
  <2>2. fault' # None
    BY <2>1 DEF Mouse, None
  <2>. QED
    BY <1>3, <1>4, <2>1, <2>2
    DEF IInv, HandlerInv, ServiceInv, HaltsOnlyWithoutGate, AtStep, NoHandler
<1>. QED BY <1>5, <1>6 DEF Line, Served

LEMMA DeliverSpuriousKeeps ==
  ASSUME IInv, NEW l \in Line, DeliverSpurious(l)
  PROVE  IInv'
<1>1. /\ iflag /\ handler = NoHandler /\ fault = None /\ boot = End /\ isr = {}
  BY DEF IInv, BootInv, ServiceInv, DeliverSpurious, IsNext, Interruptible
<1>2. /\ base = [master |-> 32, slave |-> 40]
      /\ 39 \notin gates \ Exception /\ 47 \in gates \ Exception
  BY <1>1, Gated DEF IInv, BootInv
<1>3. /\ iflag' = FALSE /\ UNCHANGED <<base, gates, boot>>
  BY DEF DeliverSpurious, Enter
<1>4. BootInv'
  BY <1>1, <1>3 DEF IInv, BootInv
<1>5. CASE l \in Master
  <2>1. Enter(39)
    <3>1. Vector(7) = 39
      BY <1>2 DEF Vector, Master
    <3>. QED BY <1>5, <3>1 DEF DeliverSpurious
  <2>2. handler' = NoHandler /\ fault' = 39
    BY <1>1, <1>2, <2>1 DEF Enter, Halt
  <2>3. fault' # None /\ HaltsOnlyWithoutGate'
    BY <2>2 DEF HaltsOnlyWithoutGate, None, Mouse
  <2>4. HandlerInv'
    BY <1>3, <2>2, <2>3 DEF HandlerInv, AtStep, NoHandler
  <2>. QED BY <1>4, <2>3, <2>4 DEF IInv, ServiceInv
<1>6. CASE l \notin Master
  <2>1. Enter(47) /\ isr' = {Cascade}
    <3>1. Vector(15) = 47
      BY <1>2 DEF Vector, Master
    <3>2. isr' = {Cascade}
      BY <1>1, <1>6 DEF DeliverSpurious, MasterLine
    <3>. QED BY <1>6, <3>1, <3>2 DEF DeliverSpurious
  <2>2. handler' = [irq |-> Spurious, step |-> "eoi"] /\ fault' = None
    BY <1>1, <1>2, <2>1 DEF Enter, FirstStep, Spurious, Keyboard, Clock
  <2>3. HandlerInv'
    BY <2>2, <1>3 DEF HandlerInv, AtStep
  <2>4. ServiceInv'
    BY <2>1, <2>2 DEF ServiceInv, AtStep, NoHandler
  <2>5. HaltsOnlyWithoutGate'
    BY <2>2 DEF HaltsOnlyWithoutGate
  <2>. QED BY <1>4, <2>3, <2>4, <2>5 DEF IInv
<1>. QED BY <1>5, <1>6

\* The end of interrupt takes out of service what the handler had there.
LEMMA EoiClears ==
  ASSUME IInv, SendEoi
  PROVE  isr' = {}
<1>1. /\ handler.step = "eoi" /\ handler # NoHandler /\ fault = None
  BY DEF IInv, HandlerInv, SendEoi, AtStep, NoHandler
<1>2. isr' = isr \ (First(isr \cap Master) \cup
                   IF handler.irq \in Slave THEN First(isr \cap Slave) ELSE {})
  BY DEF SendEoi
<1>3. CASE handler.irq = Spurious /\ isr = {Cascade}
  <2>1. isr \cap Master = {Cascade}
    BY <1>3 DEF Cascade, Master
  <2>2. First({Cascade}) = {Cascade}
    BY DEF First, Cascade
  <2>. QED BY <1>2, <1>3, <2>1, <2>2
<1>4. CASE handler.irq \in {Timer, Keyboard} /\ isr = {handler.irq, MasterLine(handler.irq)}
  <2>1. isr = {handler.irq} /\ isr \cap Master = {handler.irq}
    <3>1. handler.irq \in Master
      BY <1>4 DEF Master, Timer, Keyboard
    <3>2. isr = {handler.irq}
      BY <1>4, <3>1 DEF MasterLine
    <3>. QED BY <3>1, <3>2
  <2>2. First({handler.irq}) = {handler.irq}
    BY <1>4 DEF First, Timer, Keyboard
  <2>. QED BY <1>2, <2>1, <2>2
<1>5. CASE handler.irq \in {Clock, Drive} /\ isr = {handler.irq, MasterLine(handler.irq)}
  <2>1. /\ handler.irq \in Slave /\ isr = {handler.irq, Cascade}
        /\ isr \cap Master = {Cascade} /\ isr \cap Slave = {handler.irq}
    <3>1. handler.irq \in Slave /\ handler.irq \notin Master
      BY <1>5 DEF Master, Slave, Clock, Drive
    <3>2. isr = {handler.irq, Cascade}
      BY <1>5, <3>1 DEF MasterLine
    <3>3. Cascade \in Master /\ Cascade \notin Slave
      BY DEF Master, Slave, Cascade
    <3>. QED BY <3>1, <3>2, <3>3
  <2>2. First({handler.irq}) = {handler.irq} /\ First({Cascade}) = {Cascade}
    BY <1>5 DEF First, Clock, Drive, Cascade
  <2>. QED BY <1>2, <2>1, <2>2
<1>. QED
  BY <1>1, <1>3, <1>4, <1>5 DEF IInv, ServiceInv, AtStep, Served

LEMMA HandlerKeeps ==
  ASSUME IInv, IrqHandler
  PROVE  IInv'
<1>. DEFINE steps == {"read_scancode", "select_c", "read_c", "eoi", "iret"}
<1>1. /\ handler # NoHandler /\ handler.step \in steps
      /\ handler \in [irq : Served \cup {Spurious}, step : steps]
      /\ fault = None /\ ~iflag /\ boot = End
  <2>1. handler.step \in steps
    BY DEF IrqHandler, ReadScancode, SelectC, ReadC, SendEoi, Iret, AtStep
  <2>2. handler # NoHandler
    BY <2>1 DEF NoHandler
  <2>. QED BY <2>1, <2>2 DEF IInv, HandlerInv, BootInv
<1>2. UNCHANGED <<base, gates, fault, boot>>
  BY DEF IrqHandler, ReadScancode, SelectC, ReadC, SendEoi, Iret, pic
<1>3. HaltsOnlyWithoutGate'
  BY <1>2 DEF IInv, HaltsOnlyWithoutGate
<1>4. BootInv'
  BY <1>1, <1>2 DEF IInv, BootInv
<1>5. CASE ReadScancode \/ SelectC \/ ReadC
  <2>1. UNCHANGED <<isr, iflag>>
    BY <1>5 DEF ReadScancode, SelectC, ReadC, pic
  <2>2. ~AtStep("iret") /\ (AtStep("read_scancode") \/ AtStep("select_c") \/ AtStep("read_c"))
    BY <1>5 DEF ReadScancode, SelectC, ReadC, AtStep
  <2>3. PICK s \in {"read_c", "eoi"} :
          /\ handler' = [handler EXCEPT !.step = s]
          /\ s = "read_c" => AtStep("select_c")
    BY <1>5 DEF ReadScancode, SelectC, ReadC, Goto
  <2>4. handler'.irq = handler.irq /\ handler'.step = s /\ handler' # NoHandler
    BY <2>3, <1>1 DEF NoHandler
  <2>5. HandlerInv'
    BY <1>1, <1>2, <2>1, <2>3, <2>4 DEF IInv, HandlerInv, AtStep
  <2>6. ServiceInv'
    BY <1>1, <1>2, <2>1, <2>2, <2>4 DEF IInv, ServiceInv, AtStep
  <2>. QED BY <1>3, <1>4, <2>5, <2>6 DEF IInv
<1>6. CASE SendEoi
  <2>1. isr' = {}
    BY <1>6, EoiClears
  <2>2. handler' = [handler EXCEPT !.step = "iret"] /\ UNCHANGED iflag
    BY <1>6 DEF SendEoi, Goto
  <2>3. handler'.irq = handler.irq /\ handler'.step = "iret" /\ handler' # NoHandler
    BY <2>2, <1>1 DEF NoHandler
  <2>4. HandlerInv'
    BY <1>1, <1>2, <2>2, <2>3 DEF IInv, HandlerInv, AtStep
  <2>5. ServiceInv'
    BY <2>1, <2>3 DEF ServiceInv, AtStep
  <2>. QED BY <1>3, <1>4, <2>4, <2>5 DEF IInv
<1>7. CASE Iret
  <2>1. isr = {}
    BY <1>1, <1>7 DEF IInv, ServiceInv, Iret
  <2>2. iflag' = TRUE /\ handler' = NoHandler /\ isr' = {} /\ fault' = None
    BY <1>1, <1>7, <2>1 DEF Iret, pic
  <2>3. HandlerInv'
    BY <2>2 DEF HandlerInv, AtStep, NoHandler
  <2>4. ServiceInv'
    BY <2>2 DEF ServiceInv, AtStep, NoHandler
  <2>. QED BY <1>3, <1>4, <2>3, <2>4 DEF IInv
<1>. QED BY <1>5, <1>6, <1>7 DEF IrqHandler

\* The devices touch nothing of this.
LEMMA DeviceKeeps ==
  ASSUME IInv, Device \/ UNCHANGED vars
  PROVE  IInv'
<1>1. UNCHANGED <<isr, base, gates, iflag, handler, fault, boot>>
  BY DEF Device, Raise, Fall, ClockRuns, vars, pic
<1>. QED
  BY <1>1
  DEF IInv, BootInv, HandlerInv, ServiceInv, HaltsOnlyWithoutGate, AtStep

-----------------------------------------------------------------------------
(* Theorems *)

LEMMA Inductive == Spec => []IInv
<1>1. Init => IInv
  <2>. SUFFICES ASSUME Init PROVE IInv
    OBVIOUS
  <2>1. /\ boot = 1 /\ iflag = FALSE /\ handler = NoHandler
        /\ fault = None /\ isr = {}
    BY DEF Init
  <2>2. BootInv
    BY <2>1 DEF BootInv, End
  <2>3. HandlerInv
    BY <2>1 DEF HandlerInv, AtStep, NoHandler
  <2>4. ServiceInv /\ HaltsOnlyWithoutGate
    BY <2>1 DEF ServiceInv, HaltsOnlyWithoutGate
  <2>. QED BY <2>2, <2>3, <2>4 DEF IInv
<1>2. IInv /\ [Next]_vars => IInv'
  BY BootKeeps, DeliverKeeps, DeliverSpuriousKeeps, HandlerKeeps, DeviceKeeps
  DEF Next, Interrupt
<1>. QED BY <1>1, <1>2, PTL DEF Spec

\* Nothing is in service while interrupts are on, at either controller.
THEOREM ServiceCorrect == Spec => []NothingLeftInService
<1>1. IInv => NothingLeftInService
  BY DEF IInv, HandlerInv, ServiceInv, NothingLeftInService
<1>. QED BY <1>1, Inductive, PTL

\* Only the two lines without a gate halt the machine.
THEOREM HaltsCorrect == Spec => []HaltsOnlyWithoutGate
<1>1. IInv => HaltsOnlyWithoutGate
  BY DEF IInv
<1>. QED BY <1>1, Inductive, PTL

-----------------------------------------------------------------------------
(* No request is forgotten *)

\* A step that takes neither request nor handler away changes nothing of it.
LEMMA Undisturbed ==
  ASSUME NoRequestForgotten, high' \subseteq high, irr \subseteq irr',
         UNCHANGED <<handler, fault, lost>>
  PROVE  NoRequestForgotten'
BY DEF NoRequestForgotten

LEMMA DeliverRemembers ==
  ASSUME IInv, NoRequestForgotten, NEW l \in Line, Deliver(l)
  PROVE  NoRequestForgotten'
<1>1. /\ handler = NoHandler /\ fault = None
      /\ high' = high /\ irr' = irr \ {l} /\ lost' = lost
  BY DEF Deliver, IsNext, Interruptible
<1>2. \A m \in Held \cap high : m \in irr \cup lost
  BY <1>1 DEF NoRequestForgotten, NoHandler
<1>3. CASE l \in Held
  <2>1. handler' = [irq |-> l, step |-> FirstStep(l)]
    BY <1>3, Delivered DEF Held, Served
  <2>2. FirstStep(l) \in {"read_scancode", "select_c"}
    BY <1>3 DEF FirstStep, Held, Keyboard, Clock
  <2>. QED BY <1>1, <1>2, <2>1, <2>2 DEF NoRequestForgotten
<1>4. CASE l \notin Held
  BY <1>1, <1>2, <1>4 DEF NoRequestForgotten
<1>. QED BY <1>3, <1>4

LEMMA DeliverSpuriousRemembers ==
  ASSUME IInv, NoRequestForgotten, NEW l \in Line, DeliverSpurious(l)
  PROVE  NoRequestForgotten'
<1>1. /\ handler = NoHandler /\ fault = None /\ l \notin high
      /\ high' = high /\ irr' = irr \ {l} /\ lost' = lost
  BY DEF DeliverSpurious, IsNext, Interruptible
<1>2. \A m \in Held \cap high : m \in irr \cup lost
  BY <1>1 DEF NoRequestForgotten, NoHandler
<1>. QED BY <1>1, <1>2 DEF NoRequestForgotten

LEMMA HandlerRemembers ==
  ASSUME IInv, NoRequestForgotten, IrqHandler
  PROVE  NoRequestForgotten'
<1>1. UNCHANGED <<irr, lost, fault>> /\ high' \subseteq high
  BY DEF IrqHandler, ReadScancode, SelectC, ReadC, SendEoi, Iret, pic
<1>2. CASE ReadScancode \/ ReadC
  <2>1. PICK l : handler.irq = l /\ high' = high \ {l}
    BY <1>2 DEF IInv, HandlerInv, ReadScancode, ReadC
  <2>2. \A m \in Held \cap high' : m \in irr \cup lost \/ fault # None
    BY <2>1 DEF NoRequestForgotten
  <2>. QED BY <1>1, <2>2 DEF NoRequestForgotten
<1>3. CASE SelectC
  <2>1. handler'.irq = handler.irq /\ handler'.step = "read_c" /\ high' = high
    <3>1. handler \in [irq  : Served \cup {Spurious},
                       step : {"read_scancode", "select_c", "read_c", "eoi", "iret"}]
      BY <1>3 DEF IInv, HandlerInv, SelectC, AtStep, NoHandler
    <3>. QED BY <1>3, <3>1 DEF SelectC, Goto
  <2>. QED BY <1>1, <2>1 DEF NoRequestForgotten
<1>4. CASE SendEoi \/ Iret
  <2>1. handler.step \in {"eoi", "iret"}
    BY <1>4 DEF SendEoi, Iret, AtStep
  <2>2. \A m \in Held \cap high' : m \in irr \cup lost \/ fault # None
    BY <1>1, <2>1 DEF NoRequestForgotten
  <2>. QED BY <1>1, <2>2 DEF NoRequestForgotten
<1>. QED BY <1>2, <1>3, <1>4 DEF IrqHandler

\* A keyboard or clock that waits to be read is remembered, except one that
\* init_pic found up.
THEOREM RequestsRemembered == Spec => []NoRequestForgotten
<1>1. Init => NoRequestForgotten
  BY DEF Init, NoRequestForgotten
<1>2. IInv /\ NoRequestForgotten /\ [Next]_vars => NoRequestForgotten'
  <2>. SUFFICES ASSUME IInv, NoRequestForgotten, [Next]_vars
                PROVE  NoRequestForgotten'
    OBVIOUS
  <2>1. CASE RtcStep \/ Checks \/ SetExceptionGates \/ SetIrqGates \/ EnableInterrupts
    BY <2>1, Undisturbed
    DEF RtcStep, Checks, SetExceptionGates, SetIrqGates, EnableInterrupts, pic
  <2>2. CASE InitPic
    BY <2>2 DEF InitPic, NoRequestForgotten
  <2>3. CASE Interrupt
    BY <2>3, DeliverRemembers, DeliverSpuriousRemembers DEF Interrupt
  <2>4. CASE IrqHandler
    BY <2>4, HandlerRemembers
  <2>5. CASE \E l \in Line : Raise(l)
    BY <2>5 DEF Raise, NoRequestForgotten
  <2>6. CASE (\E l \in {Timer, Drive} : Fall(l)) \/ ClockRuns \/ UNCHANGED vars
    BY <2>6, Undisturbed DEF Fall, ClockRuns, vars, pic
  <2>. QED
    BY <2>1, <2>2, <2>3, <2>4, <2>5, <2>6 DEF Next, Boot, Device
<1>. QED BY <1>1, <1>2, Inductive, PTL DEF Spec

-----------------------------------------------------------------------------
(* Decimals, and seconds of a day *)

\* A byte of two binary-coded digits converts back to the number.
LEMMA BcdConverts ==
  ASSUME NEW n \in 0 .. 99
  PROVE  /\ Bcd(n) \in Nat /\ (Bcd(n) % 16) + (Bcd(n) \div 16) * 10 = n
         /\ n < 24 => Bcd(n) < 128
<1>1. PICK q \in 0 .. 9, r \in 0 .. 9 : n = 10 * q + r
  <2>1. n \div 10 \in 0 .. 9 /\ n % 10 \in 0 .. 9 /\ n = 10 * (n \div 10) + (n % 10)
    OBVIOUS
  <2> QED BY <2>1
<1>2. n \div 10 = q /\ n % 10 = r
  BY <1>1
<1>3. Bcd(n) = 16 * q + r
  BY <1>2 DEF Bcd
<1>4. (16 * q + r) % 16 = r /\ (16 * q + r) \div 16 = q
  OBVIOUS
<1>5. n < 24 => q <= 2
  BY <1>1
<1> QED BY <1>1, <1>3, <1>4, <1>5

LEMMA AppendDigit ==
  ASSUME NEW a \in Nat, NEW b \in Nat
  PROVE  Append(<<a>>, b) = <<a, b>>
<1> DEFINE app == Append(<<a>>, b)
<1>1. <<a>> \in Seq(Nat) /\ Len(<<a>>) = 1 /\ <<a, b>> \in Seq(Nat) /\ Len(<<a, b>>) = 2
  OBVIOUS
<1>2. app \in Seq(Nat) /\ Len(app) = 2 /\ app[1] = a /\ app[2] = b
  BY <1>1, AppendProperties
<1> HIDE DEF app
<1>3. \A i \in 1 .. 2 : app[i] = <<a, b>>[i]
  BY <1>2
<1>4. app = <<a, b>>
  BY <1>1, <1>2, <1>3, SeqEqual
<1> QED BY <1>4 DEF app

\* The equation of Decimal, which terminal_write_dec solves.
Digits(f) ==
  f = [n \in 0 .. 255 |->
         IF n < 10 THEN <<n>> ELSE Append(f[n \div 10], n % 10)]

One(n) == <<n>>
Two(n) == IF n < 10 THEN One(n) ELSE Append(One(n \div 10), n % 10)
Three(n) == IF n < 10 THEN One(n) ELSE Append(Two(n \div 10), n % 10)

\* It has a solution, as three digits are enough for a byte.
LEMMA DigitsExist == \E f : Digits(f)
<1> DEFINE all == [n \in 0 .. 255 |-> Three(n)]
<1>1. \A n \in 0 .. 99 : Three(n) = Two(n)
  <2> SUFFICES ASSUME NEW n \in 0 .. 99 PROVE Three(n) = Two(n)
    OBVIOUS
  <2>1. CASE n >= 10
    <3>1. PICK q : q = n \div 10
      OBVIOUS
    <3>2. q \in 0 .. 9
      BY <2>1, <3>1
    <3>3. Two(q) = One(q)
      BY <3>2 DEF Two
    <3>4. PICK r : r = n % 10
      OBVIOUS
    <3>5. Three(n) = Append(Two(q), r) /\ Two(n) = Append(One(q), r)
      BY <2>1, <3>1, <3>4 DEF Three, Two
    <3> QED BY <3>3, <3>5
  <2>2. CASE n < 10
    BY <2>2 DEF Three, Two
  <2> QED BY <2>1, <2>2
<1>2. ASSUME NEW n \in 0 .. 255
      PROVE  Three(n) = IF n < 10 THEN <<n>> ELSE Append(all[n \div 10], n % 10)
  <2>1. CASE n >= 10
    <3>1. PICK q : q = n \div 10
      OBVIOUS
    <3>2. q \in 0 .. 25
      BY <2>1, <3>1
    <3>3. all[q] = Two(q)
      BY <1>1, <3>2
    <3>4. PICK r : r = n % 10
      OBVIOUS
    <3>5. Three(n) = Append(Two(q), r)
      BY <2>1, <3>1, <3>4 DEF Three
    <3> HIDE DEF all
    <3>6. ~(n < 10)
      BY <2>1
    <3> QED BY <3>1, <3>3, <3>4, <3>5, <3>6, Zenon
  <2>2. CASE n < 10
    <3>1. Three(n) = <<n>>
      BY <2>2 DEF Three, One
    <3> HIDE DEF all
    <3> QED BY <2>2, <3>1, Zenon
  <2>3. n < 10 \/ n >= 10
    OBVIOUS
  <2> HIDE DEF all
  <2> QED BY <2>1, <2>2, <2>3, Zenon
<1>3. Digits(all)
  BY <1>2, Zenon DEF Digits
<1> QED BY <1>3

\* The digits of a number below 100 are one or two.
LEMMA DecimalDigits ==
  ASSUME NEW n \in 0 .. 99
  PROVE  /\ n < 10 => Decimal[n] = <<n>>
         /\ n >= 10 => Decimal[n] = <<n \div 10, n % 10>>
<1>1. Digits(Decimal)
  <2>1. Decimal = CHOOSE f : Digits(f)
    BY DEF Decimal, Digits
  <2> QED BY <2>1, DigitsExist
<1>2. \A k \in 0 .. 255 : k < 10 => Decimal[k] = <<k>>
  BY <1>1, Zenon DEF Digits
<1>5. \A k \in 0 .. 255 :
        ~(k < 10) => Decimal[k] = Append(Decimal[k \div 10], k % 10)
  BY <1>1, Zenon DEF Digits
<1>3. CASE n >= 10
  <2>1. PICK q : q = n \div 10
    OBVIOUS
  <2>2. PICK r : r = n % 10
    OBVIOUS
  <2>3. q \in 0 .. 9 /\ r \in Nat
    BY <1>3, <2>1, <2>2
  <2>4. Decimal[q] = <<q>>
    BY <1>2, <2>3
  <2>5. Decimal[n] = Append(Decimal[q], r)
    <3>1. n \in 0 .. 255 /\ ~(n < 10)
      BY <1>3
    <3> QED BY <1>5, <3>1, <2>1, <2>2, Zenon
  <2>6. Append(<<q>>, r) = <<q, r>>
    BY <2>3, AppendDigit
  <2>7. Decimal[n] = <<n \div 10, n % 10>> /\ ~(n < 10)
    BY <1>3, <2>1, <2>2, <2>4, <2>5, <2>6
  <2> QED BY <2>7
<1>4. CASE n < 10
  BY <1>2, <1>4
<1> QED BY <1>3, <1>4

\* One or two digits are read as the number they are.
LEMMA ShownDigit ==
  ASSUME NEW a \in Nat
  PROVE  Shown(<<a>>) = a
<1> DEFINE d == <<a>>
           Eq(f) == f = [i \in 0 .. Len(d) |->
                           IF i = 0 THEN 0 ELSE 10 * f[i - 1] + d[i]]
           value == CHOOSE f : Eq(f)
           w == [i \in 0 .. Len(d) |-> IF i = 0 THEN 0 ELSE a]
<1>1. Len(d) = 1 /\ d[1] = a
  OBVIOUS
<1> HIDE DEF d
<1>2. Eq(w)
  BY <1>1
<1> HIDE DEF Eq
<1>3. Eq(value)
  BY <1>2
<1>4. Shown(d) = value[Len(d)]
  BY DEF Shown, Eq
<1> USE DEF Eq
<1> HIDE DEF value
<1>5. value[0] = 0 /\ value[1] = 10 * value[0] + d[1]
  BY <1>1, <1>3
<1>6. Shown(d) = a
  BY <1>1, <1>4, <1>5
<1> QED BY <1>6 DEF d

LEMMA ShownDigits ==
  ASSUME NEW a \in Nat, NEW b \in Nat
  PROVE  Shown(<<a, b>>) = 10 * a + b
<1> DEFINE d == <<a, b>>
           Eq(f) == f = [i \in 0 .. Len(d) |->
                           IF i = 0 THEN 0 ELSE 10 * f[i - 1] + d[i]]
           value == CHOOSE f : Eq(f)
           w == [i \in 0 .. Len(d) |-> IF i = 0 THEN 0 ELSE IF i = 1 THEN a ELSE 10 * a + b]
<1>1. Len(d) = 2 /\ d[1] = a /\ d[2] = b
  OBVIOUS
<1> HIDE DEF d
<1>2. Eq(w)
  BY <1>1
<1> HIDE DEF Eq
<1>3. Eq(value)
  BY <1>2
<1>4. Shown(d) = value[Len(d)]
  BY DEF Shown, Eq
<1> USE DEF Eq
<1> HIDE DEF value
<1>5. value[0] = 0 /\ value[1] = 10 * value[0] + d[1] /\ value[2] = 10 * value[1] + d[2]
  BY <1>1, <1>3
<1>6. Shown(d) = 10 * a + b
  BY <1>1, <1>4, <1>5
<1> QED BY <1>6 DEF d

\* What is written on the screen reads as the number.
LEMMA DecimalIsShown ==
  ASSUME NEW n \in 0 .. 99
  PROVE  Shown(Decimal[n]) = n
<1>1. n \div 10 \in Nat /\ n % 10 \in Nat /\ n = 10 * (n \div 10) + (n % 10)
  OBVIOUS
<1>2. CASE n < 10
  <2>1. Decimal[n] = <<n>>
    BY <1>2, DecimalDigits
  <2>2. Shown(<<n>>) = n
    <3>1. n \in Nat
      OBVIOUS
    <3> QED BY <3>1, ShownDigit
  <2> QED BY <2>1, <2>2, Zenon
<1>3. CASE n >= 10
  <2>1. PICK a : a = n \div 10
    OBVIOUS
  <2>2. PICK b : b = n % 10
    OBVIOUS
  <2>3. a \in Nat /\ b \in Nat /\ n = 10 * a + b
    BY <1>1, <2>1, <2>2
  <2>4. Decimal[n] = <<a, b>>
    BY <1>3, <2>1, <2>2, DecimalDigits
  <2>5. Shown(<<a, b>>) = 10 * a + b
    BY <2>3, ShownDigits
  <2>6. Shown(Decimal[n]) = 10 * a + b
    BY <2>4, <2>5, Zenon
  <2> QED BY <2>3, <2>6
<1> QED BY <1>2, <1>3

\* Seconds since midnight in hours, minutes and seconds.
IsTime(t, h, m, s) ==
  /\ t = 3600 * h + 60 * m + s
  /\ h = t \div 3600 /\ m = (t \div 60) % 60 /\ s = t % 60

LEMMA HourMinuteSecond ==
  ASSUME NEW t \in Nat, t < Day
  PROVE  \E h \in 0 .. 23, m \in 0 .. 59, s \in 0 .. 59 : IsTime(t, h, m, s)
<1>1. /\ t \div 3600 \in 0 .. 23 /\ t % 3600 \in 0 .. 3599
      /\ t = 3600 * (t \div 3600) + (t % 3600)
  BY DEF Day
<1>2. PICK h : h = t \div 3600
  OBVIOUS
<1>3. PICK r : r = t % 3600
  OBVIOUS
<1>4. h \in 0 .. 23 /\ r \in 0 .. 3599 /\ t = 3600 * h + r
  BY <1>1, <1>2, <1>3
<1>5. /\ r \div 60 \in 0 .. 59 /\ r % 60 \in 0 .. 59
      /\ r = 60 * (r \div 60) + (r % 60)
  BY <1>4
<1>6. PICK m : m = r \div 60
  OBVIOUS
<1>7. PICK s : s = r % 60
  OBVIOUS
<1>8. m \in 0 .. 59 /\ s \in 0 .. 59 /\ r = 60 * m + s
  BY <1>5, <1>6, <1>7
<1>9. t \div 60 = 60 * h + m /\ t % 60 = s
  BY <1>4, <1>8
<1>10. (60 * h + m) % 60 = m
  BY <1>4, <1>8
<1>11. IsTime(t, h, m, s)
  BY <1>2, <1>4, <1>8, <1>9, <1>10 DEF IsTime
<1>12. h \in 0 .. 23 /\ m \in 0 .. 59 /\ s \in 0 .. 59
  BY <1>4, <1>8
<1> HIDE DEF IsTime
<1> QED BY <1>11, <1>12, Zenon

\* Three readings, the last d seconds after the first and e after the second.
WithinAMinute(h0, m0, s0, h1, m1, s1, h, m, s) ==
  /\ h0 \in Nat /\ h1 \in Nat /\ h \in Nat
  /\ m0 \in 0 .. 59 /\ m1 \in 0 .. 59 /\ m \in 0 .. 59
  /\ s0 \in 0 .. 59 /\ s1 \in 0 .. 59 /\ s \in 0 .. 59
  /\ \E d \in Nat, e \in Nat :
       /\ d <= 60 /\ e <= d
       /\ 3600 * h + 60 * m + s = 3600 * h0 + 60 * m0 + s0 + d
       /\ 3600 * h + 60 * m + s = 3600 * h1 + 60 * m1 + s1 + e

\* Of three readings within a minute, the hour of the first, the minute of the
\* second and the seconds of the third make a time that is right, or behind by
\* the one carry that may have come between them.
LEMMA OneCarry ==
  ASSUME NEW h0, NEW m0, NEW s0, NEW h1, NEW m1, NEW s1, NEW h, NEW m, NEW s,
         WithinAMinute(h0, m0, s0, h1, m1, s1, h, m, s)
  PROVE  3600 * (h - h0) + 60 * (m - m1) \in {0, 60, 3600}
<1>0. PICK d \in Nat, e \in Nat :
        /\ d <= 60 /\ e <= d
        /\ 3600 * h + 60 * m + s = 3600 * h0 + 60 * m0 + s0 + d
        /\ 3600 * h + 60 * m + s = 3600 * h1 + 60 * m1 + s1 + e
  BY DEF WithinAMinute
<1>. /\ h0 \in Nat /\ h1 \in Nat /\ h \in Nat
     /\ m0 \in 0 .. 59 /\ m1 \in 0 .. 59 /\ m \in 0 .. 59
     /\ s0 \in 0 .. 59 /\ s1 \in 0 .. 59 /\ s \in 0 .. 59
  BY DEF WithinAMinute
<1>1. PICK n0 \in Nat, n1 \in Nat, n \in Nat :
        n0 = 60 * h0 + m0 /\ n1 = 60 * h1 + m1 /\ n = 60 * h + m
  <2>1. 60 * h0 + m0 \in Nat /\ 60 * h1 + m1 \in Nat /\ 60 * h + m \in Nat
    OBVIOUS
  <2> QED BY <2>1
<1>2. 60 * n + s = 60 * n0 + s0 + d /\ 60 * n + s = 60 * n1 + s1 + e
  BY <1>0, <1>1
<1>3. n0 <= n1 /\ n1 <= n /\ n <= n0 + 1
  BY <1>0, <1>2
<1>4. CASE n1 = n
  <2>1. h1 = h /\ m1 = m
    BY <1>1, <1>4
  <2>2. h = h0 \/ h = h0 + 1
    BY <1>1, <1>3
  <2> QED BY <2>1, <2>2
<1>5. CASE n1 = n0 /\ n = n0 + 1
  <2>1. h1 = h0 /\ m1 = m0
    BY <1>1, <1>5
  <2>2. 60 * (h - h0) + (m - m1) = 1
    BY <1>1, <1>5, <2>1
  <2> QED BY <2>2
<1>6. n1 = n \/ (n1 = n0 /\ n = n0 + 1)
  BY <1>3
<1> QED BY <1>4, <1>5, <1>6

LEMMA DayApart ==
  ASSUME NEW x \in Int, x \in {0, 60, 3600} \/ x + 86400 \in {0, 60, 3600}
  PROVE  x % Day \in {0, 60, 3600}
<1>1. CASE x \in {0, 60, 3600}
  BY <1>1 DEF Day
<1>2. CASE x + 86400 \in {0, 60, 3600}
  <2>1. x \in {-86400, -86340, -82800}
    BY <1>2
  <2>2. x % 86400 \in {0, 60, 3600}
    BY <2>1
  <2> QED BY <2>2 DEF Day
<1> QED BY <1>1, <1>2

\* d seconds before a clock shows c it shows t.
Ago(t, d, c) ==
  /\ t \in Nat /\ t < Day /\ d \in Nat
  /\ c = t + d \/ c = (t + d) - Day

LEMMA ReadingsAreClose ==
  ASSUME NEW t0, NEW t1, NEW c, NEW d, NEW e, Ago(t0, d, c), Ago(t1, e, c),
         c \in Nat, c < Day, d <= 60, e <= d
  PROVE  (c - (3600 * (t0 \div 3600) + 60 * ((t1 \div 60) % 60) + (c % 60))) % Day
           \in {0, 60, 3600}
<1>0. /\ t0 \in Nat /\ t1 \in Nat /\ c \in Nat /\ d \in Nat /\ e \in Nat
      /\ t0 < Day /\ t1 < Day /\ c < Day /\ d <= 60 /\ e <= d
      /\ c = t0 + d \/ c = (t0 + d) - Day
      /\ c = t1 + e \/ c = (t1 + e) - Day
  BY DEF Ago
<1>1. PICK h0 \in 0 .. 23, m0 \in 0 .. 59, s0 \in 0 .. 59 : IsTime(t0, h0, m0, s0)
  BY <1>0, HourMinuteSecond
<1>2. PICK h1 \in 0 .. 23, m1 \in 0 .. 59, s1 \in 0 .. 59 : IsTime(t1, h1, m1, s1)
  BY <1>0, HourMinuteSecond
<1>3. PICK h \in 0 .. 23, m \in 0 .. 59, s \in 0 .. 59 : IsTime(c, h, m, s)
  BY <1>0, HourMinuteSecond
<1>4. /\ t0 = 3600 * h0 + 60 * m0 + s0 /\ t1 = 3600 * h1 + 60 * m1 + s1
      /\ c = 3600 * h + 60 * m + s
  BY <1>1, <1>2, <1>3 DEF IsTime
<1>5. h0 = t0 \div 3600 /\ m1 = (t1 \div 60) % 60 /\ s = c % 60
  BY <1>1, <1>2, <1>3 DEF IsTime
<1>6. PICK p \in {0, 24}, q \in {0, 24} :
        c + 3600 * p = t0 + d /\ c + 3600 * p = t1 + 3600 * q + e
  <2>1. \/ c = t0 + d /\ c = t1 + e
        \/ c + 86400 = t0 + d /\ c = t1 + e
        \/ c + 86400 = t0 + d /\ c + 86400 = t1 + e
    <3>1. c = t0 + d \/ c + 86400 = t0 + d
      BY <1>0 DEF Day
    <3>2. c = t1 + e \/ c + 86400 = t1 + e
      BY <1>0 DEF Day
    <3>3. t1 < 86400 /\ 0 <= t0 /\ e <= d
      BY <1>0 DEF Day
    <3> QED BY <1>0, <3>1, <3>2, <3>3 DEF Day
  <2>2. CASE c = t0 + d /\ c = t1 + e
    <3>1. c + 3600 * 0 = t0 + d /\ c + 3600 * 0 = t1 + 3600 * 0 + e
      BY <1>0, <2>2 DEF Day
    <3> QED BY <3>1
  <2>3. CASE c + 86400 = t0 + d /\ c = t1 + e
    <3>1. c + 3600 * 24 = t0 + d /\ c + 3600 * 24 = t1 + 3600 * 24 + e
      BY <1>0, <2>3 DEF Day
    <3> QED BY <3>1
  <2>4. CASE c + 86400 = t0 + d /\ c + 86400 = t1 + e
    <3>1. c + 3600 * 24 = t0 + d /\ c + 3600 * 24 = t1 + 3600 * 0 + e
      BY <1>0, <2>4 DEF Day
    <3> QED BY <3>1
  <2> QED BY <2>1, <2>2, <2>3, <2>4
<1>7. PICK a \in Nat, b \in Nat : a = h + p /\ b = h1 + q
  <2>1. h + p \in Nat /\ h1 + q \in Nat
    OBVIOUS
  <2> QED BY <2>1
<1>8. WithinAMinute(h0, m0, s0, b, m1, s1, a, m, s)
  <2>1. /\ 3600 * a + 60 * m + s = 3600 * h0 + 60 * m0 + s0 + d
        /\ 3600 * a + 60 * m + s = 3600 * b + 60 * m1 + s1 + e
    BY <1>0, <1>4, <1>6, <1>7
  <2>2. h0 \in Nat
    OBVIOUS
  <2> QED BY <1>0, <2>1, <2>2 DEF WithinAMinute
<1>9. PICK x \in Int : x = c - (3600 * h0 + 60 * m1 + s)
  <2>1. c - (3600 * h0 + 60 * m1 + s) \in Int
    BY <1>4
  <2> QED BY <2>1
<1>10. x + 3600 * p \in {0, 60, 3600}
  <2>1. 3600 * (a - h0) + 60 * (m - m1) \in {0, 60, 3600}
    BY <1>8, OneCarry
  <2> QED BY <1>4, <1>7, <1>9, <2>1
<1>11. x \in {0, 60, 3600} \/ x + 86400 \in {0, 60, 3600}
  BY <1>10
<1>12. x % Day \in {0, 60, 3600}
  BY <1>11, DayApart
<1> QED BY <1>5, <1>9, <1>12

-----------------------------------------------------------------------------
(* The time on the screen *)

\* d seconds ago the clock showed t.
Showed(t, d) == Ago(t, d, clock) /\ d <= elapsed

\* The hour was read d seconds ago, and the minute e seconds ago.
HourRead(d) == \E t : Showed(t, d) /\ time.hour = Bcd(t \div 3600)
MinuteRead(e) == \E t : Showed(t, e) /\ time.minute = Bcd((t \div 60) % 60)

\* What rtc_read_time has of the time at each place of Script.
TimeInv ==
  /\ clock \in Nat /\ clock < Day
  /\ elapsed \in Nat /\ elapsed <= MaxSeconds
  /\ boot = 4 => selected = RegisterOf.hour
  /\ boot = 6 => selected = RegisterOf.minute
  /\ boot = 8 => selected = RegisterOf.second
  /\ boot \in {5, 6} => \E d : HourRead(d)
  /\ boot \in {7, 8} => \E d, e : HourRead(d) /\ MinuteRead(e) /\ e <= d
  /\ boot \notin 9 .. End => written = <<>> /\ time \in [Field -> Int]

\* The registers t hold a time.
Holds(t, h, m, s) ==
  /\ h \in 0 .. 23 /\ m \in 0 .. 59 /\ s \in 0 .. 59
  /\ t.hour = Bcd(h) /\ t.minute = Bcd(m) /\ t.second = Bcd(s)

LEMMA ConvertedTime ==
  ASSUME NEW t, NEW h, NEW m, NEW s, Holds(t, h, m, s)
  PROVE  /\ Converted(t).hour = h /\ Converted(t).minute = m
         /\ Converted(t).second = s
<1>1. /\ h \in 0 .. 99 /\ m \in 0 .. 99 /\ s \in 0 .. 99 /\ h < 24
      /\ t.hour = Bcd(h) /\ t.minute = Bcd(m) /\ t.second = Bcd(s)
  BY DEF Holds
<1>2. /\ Bcd(h) \in Nat /\ Bcd(h) < 128
      /\ (Bcd(h) % 16) + (Bcd(h) \div 16) * 10 = h
      /\ (Bcd(m) % 16) + (Bcd(m) \div 16) * 10 = m
      /\ (Bcd(s) % 16) + (Bcd(s) \div 16) * 10 = s
  BY <1>1, BcdConverts
<1>3. ~(t.hour >= 128)
  BY <1>1, <1>2
<1>4. Converted(t) = [f \in Field |-> (t[f] % 16) + (t[f] \div 16) * 10]
  BY <1>3, Zenon DEF Converted
<1>5. /\ Converted(t).hour = (t.hour % 16) + (t.hour \div 16) * 10
      /\ Converted(t).minute = (t.minute % 16) + (t.minute \div 16) * 10
      /\ Converted(t).second = (t.second % 16) + (t.second \div 16) * 10
  BY <1>4, Zenon DEF Field
<1> QED BY <1>1, <1>2, <1>5

\* Where rtc_read_time does what.
LEMMA TimePlaceOf ==
  ASSUME NEW i \in 1 .. 12
  PROVE  /\ Script[i] = <<"call", "rtc_init">> => i = 1
         /\ Script[i] = <<"call", "checks">> => i = 2
         /\ \A f \in Field :
              /\ Script[i] = <<"select", f>> =>
                   \/ i = 3 /\ f = "hour"
                   \/ i = 5 /\ f = "minute"
                   \/ i = 7 /\ f = "second"
              /\ Script[i] = <<"read", f>> =>
                   \/ i = 4 /\ f = "hour"
                   \/ i = 6 /\ f = "minute"
              /\ Script[i] = <<"write", f>> => i = 8 /\ f = "second"
<1>1. CASE i \in 1 .. 8
  BY <1>1, Places
<1>2. CASE i \in 9 .. 12
  BY <1>2, Places
<1> QED BY <1>1, <1>2

LEMMA TimeInit == Init => TimeInv
<1> SUFFICES ASSUME Init PROVE TimeInv
  OBVIOUS
<1>1. /\ clock \in StartTimes /\ elapsed = 0 /\ boot = 1 /\ written = <<>>
      /\ time = [f \in Field |-> 0]
  BY DEF Init, RtcInit
<1>2. clock \in Nat /\ clock < Day
  <2>1. Day \in Nat
    BY DEF Day
  <2>2. clock \in 0 .. Day - 1
    BY <1>1, RtcAssumption
  <2> QED BY <2>1, <2>2
<1>3. time \in [Field -> Int]
  BY <1>1
<1>4. elapsed \in Nat /\ elapsed <= MaxSeconds
  BY <1>1, RtcAssumption
<1> QED BY <1>1, <1>2, <1>3, <1>4 DEF TimeInv, End

\* What has been read stays true of the clock that was read.
LEMMA ReadingsStand ==
  ASSUME UNCHANGED <<clock, elapsed>>
  PROVE  /\ \A d : time'.hour = time.hour /\ HourRead(d) => HourRead(d)'
         /\ \A e : time'.minute = time.minute /\ MinuteRead(e) => MinuteRead(e)'
BY DEF HourRead, MinuteRead, Showed, Ago

\* Now is no time ago.
LEMMA JustNow ==
  ASSUME TimeInv
  PROVE  Showed(clock, 0)
BY DEF TimeInv, Showed, Ago

\* A second passes for all of them.
LEMMA ReadingsAge ==
  ASSUME MaxSeconds <= 60, TimeInv, SecondPasses
  PROVE  /\ \A d : HourRead(d) => HourRead(d + 1)'
         /\ \A e : MinuteRead(e) => MinuteRead(e + 1)'
<1>1. /\ clock \in Nat /\ clock < Day /\ elapsed \in Nat
      /\ elapsed' = elapsed + 1 /\ time' = time
      /\ clock' = (clock + 1) % Day
  BY DEF TimeInv, SecondPasses
<1>2. clock' = clock + 1 \/ clock' = (clock + 1) - Day
  BY <1>1 DEF Day
<1>3. clock' \in Nat /\ clock' < Day
  BY <1>1 DEF Day
<1>4. ASSUME NEW t, NEW d, Showed(t, d)
      PROVE  Showed(t, d + 1)'
  <2>1. /\ t \in Nat /\ t < Day /\ d \in Nat /\ d <= elapsed
        /\ clock = t + d \/ clock = (t + d) - Day
    BY <1>4 DEF Showed, Ago
  <2>2. clock' = t + (d + 1) \/ clock' = (t + (d + 1)) - Day
    <3>1. d <= 60
      BY <1>1, <2>1, RtcAssumption DEF TimeInv
    <3>2. PICK c, a : c = clock /\ a = clock'
      OBVIOUS
    <3>3. /\ c = t + d \/ c = (t + d) - 86400
          /\ a = c + 1 \/ a = (c + 1) - 86400
          /\ t \in Nat /\ t < 86400 /\ d \in Nat /\ c \in Nat /\ a \in Nat
      BY <1>1, <1>2, <1>3, <2>1, <3>2 DEF Day
    <3>4. a = t + (d + 1) \/ a = (t + (d + 1)) - 86400
      BY <3>1, <3>3
    <3> QED BY <3>2, <3>4 DEF Day
  <2>3. d + 1 \in Nat /\ d + 1 <= elapsed'
    BY <1>1, <2>1
  <2> QED BY <2>1, <2>2, <2>3 DEF Showed, Ago
<1> QED BY <1>1, <1>4 DEF HourRead, MinuteRead

\* When the seconds are read, the time is complete, and right.
LEMMA WrittenInTime ==
  ASSUME MaxSeconds <= 60, TimeInv, boot = 8, ReadAndWrite("second")
  PROVE  TimeIsRecent'
<1>1. PICK d, e : HourRead(d) /\ MinuteRead(e) /\ e <= d
  BY DEF TimeInv
<1>2. PICK t : Showed(t, d) /\ time.hour = Bcd(t \div 3600)
  BY <1>1 DEF HourRead
<1>3. PICK u : Showed(u, e) /\ time.minute = Bcd((u \div 60) % 60)
  BY <1>1 DEF MinuteRead
<1>4. PICK c : c = clock
  OBVIOUS
<1>5. PICK h \in 0 .. 23, m0 \in 0 .. 59, s0 \in 0 .. 59 : IsTime(t, h, m0, s0)
  <2>1. t \in Nat /\ t < Day
    BY <1>2 DEF Showed, Ago
  <2> QED BY <2>1, HourMinuteSecond
<1>6. PICK h1 \in 0 .. 23, m \in 0 .. 59, s1 \in 0 .. 59 : IsTime(u, h1, m, s1)
  <2>1. u \in Nat /\ u < Day
    BY <1>3 DEF Showed, Ago
  <2> QED BY <2>1, HourMinuteSecond
<1>7. PICK h2 \in 0 .. 23, m2 \in 0 .. 59, s \in 0 .. 59 : IsTime(c, h2, m2, s)
  <2>1. c \in Nat /\ c < Day
    BY <1>4 DEF TimeInv
  <2> QED BY <2>1, HourMinuteSecond
<1>8. h = t \div 3600 /\ m = (u \div 60) % 60 /\ s = c % 60
  BY <1>5, <1>6, <1>7 DEF IsTime
<1>9. PICK r : r = [time EXCEPT !["second"] = DataPort]
  OBVIOUS
<1>10. DataPort = Bcd(s)
  <2>1. selected = 0
    BY DEF TimeInv, RegisterOf
  <2>2. DataPort = Bcd(clock % 60)
    BY <2>1 DEF DataPort, RegisterOf
  <2> QED BY <1>4, <1>8, <2>2
<1>11. r.hour = Bcd(h) /\ r.minute = Bcd(m) /\ r.second = Bcd(s)
  BY <1>2, <1>3, <1>8, <1>9, <1>10 DEF TimeInv, Field
<1>12. /\ Converted(r).hour = h /\ Converted(r).minute = m
       /\ Converted(r).second = s
  <2>1. Holds(r, h, m, s)
    BY <1>11 DEF Holds
  <2> QED BY <2>1, ConvertedTime
<1>13. /\ time' = Converted(r) /\ clock' = clock
       /\ written' = [g \in Field |-> Decimal[time'[g]]]
  BY <1>9 DEF ReadAndWrite
<1>14. /\ written'.hour = Decimal[h] /\ written'.minute = Decimal[m]
       /\ written'.second = Decimal[s]
  BY <1>12, <1>13 DEF Field
<1>15. /\ Shown(written'.hour) = h /\ Shown(written'.minute) = m
       /\ Shown(written'.second) = s
  <2>1. h \in 0 .. 99 /\ m \in 0 .. 99 /\ s \in 0 .. 99
    OBVIOUS
  <2> QED BY <1>14, <2>1, DecimalIsShown
<1>16. (c - (3600 * h + 60 * m + s)) % Day \in {0, 60, 3600}
  <2>1. Ago(t, d, c) /\ Ago(u, e, c)
    BY <1>2, <1>3, <1>4 DEF Showed
  <2>2. d <= 60
    BY <1>2, RtcAssumption DEF Showed, Ago, TimeInv
  <2>3. c \in Nat /\ c < Day
    BY <1>4 DEF TimeInv
  <2>4. (c - (3600 * (t \div 3600) + 60 * ((u \div 60) % 60) + (c % 60))) % Day
          \in {0, 60, 3600}
    BY <1>1, <2>1, <2>2, <2>3, ReadingsAreClose
  <2> QED BY <1>8, <2>4
<1> QED BY <1>4, <1>13, <1>15, <1>16 DEF TimeIsRecent

LEMMA RtcStepKeeps ==
  ASSUME BootInv, TimeInv, RtcStep
  PROVE  TimeInv'
<1>1. /\ UNCHANGED <<clock, elapsed>>
      /\ boot \in 1 .. 12 /\ boot' = boot + 1
  BY Steps DEF RtcStep, SetPeriodic, Select, ReadField, ReadAndWrite
<1>2. CASE Step(<<"call", "rtc_init">>) /\ SetPeriodic
  <2>1. boot = 1
    BY <1>2, Steps, TimePlaceOf
  <2> QED BY <1>1, <1>2, <2>1 DEF TimeInv, SetPeriodic, End
<1>3. ASSUME NEW f \in Field, Step(<<"select", f>>), Select(RegisterOf[f])
      PROVE  TimeInv'
  <2>1. \/ boot = 3 /\ f = "hour"
        \/ boot = 5 /\ f = "minute"
        \/ boot = 7 /\ f = "second"
    BY <1>3, Steps, TimePlaceOf
  <2>2. selected' = RegisterOf[f] /\ time' = time /\ written' = written
    BY <1>3 DEF Select
  <2>3. boot' \in {6, 5} => \E d : HourRead(d)'
    BY <1>1, <2>1, <2>2, ReadingsStand DEF TimeInv
  <2>4. boot' \in {7, 8} => \E d, e : HourRead(d)' /\ MinuteRead(e)' /\ e <= d
    BY <1>1, <2>1, <2>2, ReadingsStand DEF TimeInv
  <2> QED BY <1>1, <2>1, <2>2, <2>3, <2>4 DEF TimeInv, RegisterOf, End
<1>4. ASSUME NEW f \in Field, Step(<<"read", f>>), ReadField(f)
      PROVE  TimeInv'
  <2>1. \/ boot = 4 /\ f = "hour"
        \/ boot = 6 /\ f = "minute"
    BY <1>4, Steps, TimePlaceOf
  <2>2. time' = [time EXCEPT ![f] = DataPort] /\ written' = written
    BY <1>4 DEF ReadField
  <2>3. Showed(clock, 0)' /\ clock' = clock
    BY <1>1, JustNow DEF Showed, Ago
  <2>4. clock \in Nat /\ clock < Day /\ time \in [Field -> Int]
    BY <2>1 DEF TimeInv, End
  <2>5. CASE boot = 4
    <3>1. selected = 4 /\ f = "hour"
      BY <2>1, <2>5 DEF TimeInv, RegisterOf
    <3>2. DataPort = Bcd(clock \div 3600)
      BY <3>1 DEF DataPort, RegisterOf
    <3>3. DataPort \in Int
      BY <2>4, <3>2 DEF Bcd
    <3>4. time' \in [Field -> Int] /\ time'.hour = Bcd(clock' \div 3600)
      BY <2>2, <2>3, <2>4, <3>1, <3>2, <3>3 DEF Field
    <3>5. HourRead(0)'
      BY <2>3, <3>4 DEF HourRead
    <3> QED BY <1>1, <2>2, <2>5, <3>4, <3>5 DEF TimeInv, End
  <2>6. CASE boot = 6
    <3>1. selected = 2 /\ f = "minute"
      BY <2>1, <2>6 DEF TimeInv, RegisterOf
    <3>2. DataPort = Bcd((clock \div 60) % 60)
      BY <3>1 DEF DataPort, RegisterOf
    <3>3. DataPort \in Int
      BY <2>4, <3>2 DEF Bcd
    <3>4. /\ time' \in [Field -> Int] /\ time'.minute = Bcd((clock' \div 60) % 60)
          /\ time'.hour = time.hour
      BY <2>2, <2>3, <2>4, <3>1, <3>2, <3>3 DEF Field
    <3>5. MinuteRead(0)'
      BY <2>3, <3>4 DEF MinuteRead
    <3>6. PICK d : HourRead(d)' /\ 0 <= d
      BY <1>1, <2>6, <3>4, ReadingsStand DEF TimeInv, HourRead, Showed, Ago
    <3> QED BY <1>1, <2>2, <2>6, <3>4, <3>5, <3>6 DEF TimeInv, End
  <2> QED BY <2>1, <2>5, <2>6
<1>5. ASSUME NEW f \in Field, Step(<<"write", f>>), ReadAndWrite(f)
      PROVE  TimeInv'
  <2>1. boot = 8 /\ f = "second"
    BY <1>5, Steps, TimePlaceOf
  <2>2. boot' = 9
    BY <1>1, <2>1
  <2> QED BY <1>1, <2>2 DEF TimeInv, End
<1> QED BY <1>2, <1>3, <1>4, <1>5 DEF RtcStep

LEMMA TimeStep ==
  ASSUME MaxSeconds <= 60, IInv, TimeInv, [Next]_vars
  PROVE  TimeInv'
<1>1. CASE RtcStep
  BY <1>1, RtcStepKeeps DEF IInv
<1>2. CASE Checks
  <2>1. UNCHANGED <<clock, elapsed, time, written>>
    BY <1>2 DEF Checks, rtc
  <2>2. boot = 2 /\ (boot' = 3 \/ boot' = 0)
    <3>1. boot \in 1 .. 12 /\ Script[boot] = <<"call", "checks">>
      BY <1>2, Places DEF Checks, Step
    <3>2. boot = 2
      BY <3>1, TimePlaceOf
    <3> QED BY <1>2, <3>2 DEF Checks, Step, Stopped
  <2> QED BY <2>1, <2>2 DEF TimeInv, End
<1>3. CASE SetExceptionGates \/ InitPic \/ SetIrqGates \/ EnableInterrupts
  <2>1. UNCHANGED <<clock, elapsed>>
    BY <1>3 DEF SetExceptionGates, InitPic, SetIrqGates, EnableInterrupts, rtc
  <2>2. boot \in 9 .. 12 /\ boot' = boot + 1
    BY <1>3, Steps, PlaceOf
    DEF IInv, SetExceptionGates, InitPic, SetIrqGates, EnableInterrupts
  <2> QED BY <2>1, <2>2 DEF TimeInv, End
<1>4. CASE Interrupt \/ IrqHandler
  <2>1. boot = End /\ boot' = boot
    <3>1. CASE Interrupt
      BY <3>1 DEF Interrupt, Deliver, DeliverSpurious, IsNext, Interruptible, IInv, BootInv
    <3>2. CASE IrqHandler
      <4>1. handler # NoHandler
        BY <3>2 DEF IrqHandler, ReadScancode, SelectC, ReadC, SendEoi, Iret,
                    AtStep, NoHandler
      <4>2. boot' = boot
        BY <3>2 DEF IrqHandler, ReadScancode, SelectC, ReadC, SendEoi, Iret
      <4> QED BY <4>1, <4>2 DEF IInv, BootInv
    <3> QED BY <1>4, <3>1, <3>2
  <2>2. UNCHANGED <<clock, elapsed>>
    BY <1>4 DEF Interrupt, Deliver, DeliverSpurious, IrqHandler, ReadScancode,
                SelectC, ReadC, SendEoi, Iret, Select, rtc
  <2> QED BY <2>1, <2>2 DEF TimeInv, End
<1>5. CASE (\E l \in Line : Raise(l)) \/ (\E l \in {Timer, Drive} : Fall(l))
           \/ UNCHANGED vars
  <2>1. UNCHANGED <<clock, elapsed, selected, time, written, boot>>
    BY <1>5 DEF Raise, Fall, vars, rtc
  <2> QED BY <2>1 DEF TimeInv, HourRead, MinuteRead, Showed, Ago
<1>6. CASE ClockRuns
  <2>1. /\ SecondPasses /\ boot' = boot
        /\ UNCHANGED <<selected, time, written>>
    BY <1>6 DEF ClockRuns, SecondPasses
  <2>2. /\ clock' \in Nat /\ clock' < Day
        /\ elapsed' \in Nat /\ elapsed' <= MaxSeconds
    <3>1. /\ clock \in Nat /\ clock < Day /\ clock' = (clock + 1) % Day
          /\ elapsed \in Nat /\ elapsed < MaxSeconds /\ elapsed' = elapsed + 1
      BY <2>1 DEF TimeInv, SecondPasses
    <3>2. clock' \in Nat /\ clock' < Day
      BY <3>1 DEF Day
    <3> QED BY <3>1, <3>2, RtcAssumption
  <2>3. boot \in {5, 6} => \E d : HourRead(d)'
    BY <2>1, ReadingsAge DEF TimeInv
  <2>4. boot \in {7, 8} => \E d, e : HourRead(d)' /\ MinuteRead(e)' /\ e <= d
    <3>1. ASSUME boot \in {7, 8}
          PROVE  \E d, e : HourRead(d)' /\ MinuteRead(e)' /\ e <= d
      <4>1. PICK d, e : HourRead(d) /\ MinuteRead(e) /\ e <= d
        BY <3>1 DEF TimeInv
      <4>2. HourRead(d + 1)' /\ MinuteRead(e + 1)'
        BY <2>1, <4>1, ReadingsAge
      <4>3. d \in Nat /\ e \in Nat
        BY <4>1 DEF HourRead, MinuteRead, Showed, Ago
      <4>4. e + 1 <= d + 1
        BY <4>1, <4>3
      <4> QED BY <4>2, <4>4
    <3> QED BY <3>1
  <2> QED BY <2>1, <2>2, <2>3, <2>4 DEF TimeInv
<1> QED BY <1>1, <1>2, <1>3, <1>4, <1>5, <1>6 DEF Next, Boot, Device

\* The time that rtc_read_time read and kmain writes is the clock's, or one
\* carry behind it, whatever the time of day, if the kernel has written it
\* within a minute of its start.
THEOREM TimeCorrect == ASSUME MaxSeconds <= 60 PROVE Spec => []TimeIsRecent
<1>1. Init => TimeInv /\ TimeIsRecent
  BY TimeInit DEF Init, RtcInit, TimeIsRecent
<1>2. TimeInv /\ TimeIsRecent /\ [Next]_vars /\ IInv => (TimeInv /\ TimeIsRecent)'
  <2> SUFFICES ASSUME TimeInv, TimeIsRecent, [Next]_vars, IInv
               PROVE  (TimeInv /\ TimeIsRecent)'
    OBVIOUS
  <2>1. TimeInv'
    BY TimeStep
  <2>2. CASE \E f \in Field : Step(<<"write", f>>) /\ ReadAndWrite(f)
    <3>1. boot = 8 /\ ReadAndWrite("second")
      BY <2>2, Steps, TimePlaceOf DEF IInv
    <3> QED BY <2>1, <3>1, WrittenInTime
  <2>3. CASE SecondPasses
    BY <2>1, <2>3 DEF SecondPasses, TimeIsRecent
  <2>4. CASE UNCHANGED <<clock, written>>
    BY <2>1, <2>4 DEF TimeIsRecent
  <2>5. \/ \E f \in Field : Step(<<"write", f>>) /\ ReadAndWrite(f)
        \/ SecondPasses
        \/ UNCHANGED <<clock, written>>
    BY DEF Next, Boot, RtcStep, SetPeriodic, Select, ReadField, Checks,
           SetExceptionGates, InitPic, SetIrqGates, EnableInterrupts, Interrupt,
           Deliver, DeliverSpurious, IrqHandler, ReadScancode, SelectC, ReadC,
           SendEoi, Iret, Device, Raise, Fall, ClockRuns, vars, rtc
  <2> QED BY <2>2, <2>3, <2>4, <2>5
<1> QED BY <1>1, <1>2, Inductive, PTL DEF Spec

=============================================================================
