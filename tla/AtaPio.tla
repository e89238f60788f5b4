------------------------------- MODULE AtaPio -------------------------------
(***************************************************************************)
(* src/src/ata.c: sectors are read and written by polling.  Every access   *)
(* to a register of the drive is a step, so that the drive, and a command  *)
(* that the keyboard interrupt runs, can come between any two.  The        *)
(* interrupt runs to its end before the interrupted call goes on, and      *)
(* there is no lock.  Only reads run inside it (dir and cat).              *)
(***************************************************************************)
EXTENDS Integers

CONSTANTS
  ByteSize,        \* 256: the values of an address register
  DevSize,         \* 16: the values of the address bits in the device register
  Words,           \* 256: the words of a sector
  DiskSize,        \* the sectors of the disk
  MaxSectors,      \* bound: the sectors of a call
  MaxCalls,        \* bound: the calls made
  IrqSector        \* the sectors the interrupt's commands start to read at

\* No call that begins on the disk goes past the last address, where the
\* next sector would be the first: a disk of 100 MiB (GNUmakefile:134) ends
\* far below the 2^28 sectors that 28 bits address.
ASSUME SizesAssumption ==
  /\ {ByteSize, DevSize, Words, DiskSize, MaxSectors} \subseteq Nat \ {0}
  /\ DiskSize + MaxSectors <= DevSize * (ByteSize * (ByteSize * ByteSize))
  /\ MaxCalls \in Nat
  /\ IrqSector \subseteq 0 .. DiskSize - MaxSectors

Sector == 0 .. DiskSize - 1
Word == 1 .. Words
Context == {"kmain", "irq"}
Register == <<"dev", "count", "low", "mid", "high">>   \* in the code's order
RegisterNames == {"dev", "count", "low", "mid", "high"}
NoWord == <<"none", 0, 0>>
NoData == [w \in Word |-> NoWord]

VARIABLES
  disk,            \* what the sectors hold
  regs,            \* the drive's registers
  mode,            \* what the drive does
  target,          \* the sector of its command
  data, next,      \* its sector buffer, and the word to transfer next
  frame,           \* the call under way in each context
  calls,           \* the calls made so far
  mixed            \* a command came into the middle of a transfer

drive == <<disk, regs, mode, target, data, next>>
vars == <<drive, frame, calls, mixed>>

Idle == [pc |-> "idle", op |-> "none", id |-> 0, first |-> 0, n |-> 0,
         j |-> 0, i |-> 1, buffer |-> <<>>]

\* The state of a call: j counts its sectors, i the registers or words of one.
Call(op, first, n) ==
  [pc |-> "wait", op |-> op, id |-> calls, first |-> first, n |-> n,
   j |-> 0, i |-> 1, buffer |-> [k \in 0 .. n - 1 |-> NoData]]

\* kmain enters ata_identify, which writes to the registers at once.
Init ==
  /\ disk = [s \in Sector |-> [w \in Word |-> <<"disk", s, w>>]]
  /\ regs = [r \in RegisterNames |-> 0]
  /\ mode = "idle"
  /\ target = 0
  /\ data = NoData
  /\ next = 1
  /\ frame = [x \in Context |->
                IF x = "kmain"
                  THEN [Idle EXCEPT !.pc = "registers", !.op = "identify",
                                    !.n = 1, !.buffer = [k \in {0} |-> NoData]]
                  ELSE Idle]
  /\ calls = 0
  /\ mixed = FALSE

-----------------------------------------------------------------------------
(* The drive, as the code and QEMU's controller use it: it takes no register *)
(* and no command while it is busy or waits for words.                      *)

Busy == mode \in {"reading", "identifying", "preparing", "storing", "flushing"}
DataRequest == mode \in {"out", "in"}
Ready == ~Busy /\ ~DataRequest

Address ==
  regs["low"] + ByteSize * (regs["mid"] + ByteSize * (regs["high"]
    + ByteSize * regs["dev"]))

SetRegister(r, v) ==
  /\ regs' = IF Ready THEN [regs EXCEPT ![r] = v] ELSE regs
  /\ UNCHANGED <<disk, mode, target, data, next>>

SetCommand(m) ==
  /\ mode' = IF Ready THEN m ELSE mode
  /\ target' = IF Ready THEN Address ELSE target
  /\ UNCHANGED <<disk, regs, data, next>>

\* A word goes over; after the last one the drive does m.
Transfer(m) ==
  /\ mode' = IF next = Words THEN m ELSE mode
  /\ next' = IF next = Words THEN 1 ELSE next + 1

\* It answers a command with a data request.
DrivePresents ==
  /\ \/ mode = "reading" /\ target \in Sector /\ data' = disk[target]
     \/ mode = "identifying" /\ data' = [w \in Word |-> <<"identity", 0, w>>]
     \/ mode = "preparing" /\ target \in Sector /\ data' = NoData
  /\ mode' = IF mode = "preparing" THEN "in" ELSE "out"
  /\ next' = 1
  /\ UNCHANGED <<disk, regs, target>>

\* A sector the disk has not is an error, and no data request follows.
DriveFails ==
  /\ mode \in {"reading", "preparing"}
  /\ target \notin Sector
  /\ mode' = "idle"
  /\ UNCHANGED <<disk, regs, target, data, next>>

DriveStores ==
  /\ mode = "storing"
  /\ disk' = [disk EXCEPT ![target] = data]
  /\ mode' = "idle"
  /\ UNCHANGED <<regs, target, data, next>>

DriveFlushes ==
  /\ mode = "flushing"
  /\ mode' = "idle"
  /\ UNCHANGED <<disk, regs, target, data, next>>

Drive ==
  /\ DrivePresents \/ DriveFails \/ DriveStores \/ DriveFlushes
  /\ UNCHANGED <<frame, calls, mixed>>

-----------------------------------------------------------------------------
(* The calls: each step is one access of context x to the drive *)

At(x, pc) == frame[x].pc = pc /\ (x = "kmain" => frame["irq"].pc = "idle")

\* A polling loop.
Wait(x, from, answer, to) ==
  /\ At(x, from)
  /\ answer
  /\ frame' = [frame EXCEPT ![x].pc = to, ![x].i = 1]
  /\ UNCHANGED drive

Goto(x, pc) == frame' = [frame EXCEPT ![x].pc = pc, ![x].i = 1]

\* The sector the call is at: `sector` of read and write.
Lba(x) == frame[x].first + frame[x].j

\* Mutation: the middle byte is not shifted.
MidUnshifted(lba) == lba % ByteSize

\* The bytes of an address.
Low(lba) == lba % ByteSize
Mid(lba) == (lba \div ByteSize) % ByteSize
High(lba) == (lba \div (ByteSize * ByteSize)) % ByteSize
Top(lba) == (lba \div (ByteSize * ByteSize * ByteSize)) % DevSize

RegisterValue(x, r) ==
  CASE r = "count" -> IF frame[x].op = "identify" THEN 0 ELSE 1
    [] frame[x].op = "identify" -> 0
    [] r = "low"  -> Low(Lba(x))
    [] r = "mid"  -> Mid(Lba(x))
    [] r = "high" -> High(Lba(x))
    [] r = "dev"  -> Top(Lba(x))

WaitBusy(x) == Wait(x, "wait", ~Busy, "registers")

WriteRegister(x) ==
  LET i == frame[x].i IN
  /\ At(x, "registers")
  /\ SetRegister(Register[i], RegisterValue(x, Register[i]))
  /\ IF i < 5 THEN frame' = [frame EXCEPT ![x].i = i + 1] ELSE Goto(x, "command")

\* ata_identify waits for the drive before the data request.  That it gives up
\* when there is no drive, or not a disk, is left out.
WriteCommand(x) ==
  /\ At(x, "command")
  /\ SetCommand(CASE frame[x].op = "read" -> "reading"
                  [] frame[x].op = "write" -> "preparing"
                  [] frame[x].op = "identify" -> "identifying")
  /\ Goto(x, IF frame[x].op = "identify" THEN "identified" ELSE "request")

WaitIdentified(x) == Wait(x, "identified", ~Busy, "request")

WaitRequest(x) == Wait(x, "request", DataRequest, "words")

\* The last sector of the call, or the next.
NextSector(f) ==
  IF f.j + 1 < f.n THEN [f EXCEPT !.j = @ + 1, !.pc = "wait", !.i = 1]
                   ELSE [f EXCEPT !.pc = "done", !.i = 1]

\* Mutation: the last word of a sector is not moved.
LastWordEarly(i) == i + 1 >= Words

LastWord(i) == i = Words

ReadWord(x) ==
  LET f == frame[x]
      f2 == [f EXCEPT !.buffer[f.j][f.i] =
                        IF mode = "out" THEN data[next] ELSE NoWord,
                      !.i = @ + 1]
  IN
  /\ At(x, "words")
  /\ f.op \in {"read", "identify"}
  /\ frame' = [frame EXCEPT ![x] = IF LastWord(f.i) THEN NextSector(f2) ELSE f2]
  /\ IF mode = "out" THEN Transfer("idle") ELSE UNCHANGED <<mode, next>>
  /\ UNCHANGED <<disk, regs, target, data>>

\* What the call has in its buffer for word i of its j-th sector.
Given(f, j, i) == <<"call", f.id, j, i>>

WriteWord(x) ==
  LET f == frame[x] IN
  /\ At(x, "words")
  /\ f.op = "write"
  /\ IF LastWord(f.i) THEN Goto(x, "flush")
                      ELSE frame' = [frame EXCEPT ![x].i = f.i + 1]
  /\ IF mode = "in"
       THEN data' = [data EXCEPT ![next] = Given(f, f.j, f.i)] /\ Transfer("storing")
       ELSE UNCHANGED <<data, mode, next>>
  /\ UNCHANGED <<disk, regs, target>>

\* The flush is not preceded by a wait: a drive that is storing ignores it.
WriteFlush(x) ==
  /\ At(x, "flush")
  /\ SetCommand("flushing")
  /\ Goto(x, "flushed")

AfterFlush(x) ==
  /\ At(x, "flushed")
  /\ frame' = [frame EXCEPT ![x] = NextSector(frame[x])]
  /\ UNCHANGED drive

\* Mutations: write does not wait for the drive, or waits for the wrong bit.
WaitFlushedNot(x) == AfterFlush(x)
WaitFlushedRequest(x) == DataRequest /\ AfterFlush(x)

WaitFlushed(x) == ~Busy /\ AfterFlush(x)

Access(x) ==
  /\ \/ WaitBusy(x) \/ WriteRegister(x) \/ WriteCommand(x) \/ WaitIdentified(x)
     \/ WaitRequest(x) \/ ReadWord(x) \/ WriteWord(x)
     \/ WriteFlush(x) \/ WaitFlushed(x)
  /\ UNCHANGED <<calls, mixed>>

Return(x) ==
  /\ At(x, "done")
  /\ frame' = [frame EXCEPT ![x] = Idle]
  /\ UNCHANGED <<drive, calls, mixed>>

\* read and write of whole sectors, which is all the file system asks for.
KmainCall ==
  /\ At("kmain", "idle")
  /\ calls < MaxCalls
  /\ \E op \in {"read", "write"}, s \in Sector, n \in 1 .. MaxSectors :
       frame' = [frame EXCEPT !["kmain"] = Call(op, s, n)]
  /\ calls' = calls + 1
  /\ UNCHANGED <<drive, mixed>>

\* kmain is between the wait for the drive and the last word: registers that
\* it wrote, or words it has still to transfer, are in the drive.
InTransfer ==
  LET f == frame["kmain"] IN
  \/ f.pc \in {"command", "request", "words"}
  \/ f.pc = "registers" /\ f.i > 1

\* A command of the keyboard interrupt reads from the disk.  Before the
\* superblock is read such a command halts the machine (see Console).
IrqCall ==
  /\ frame["irq"].pc = "idle"
  /\ frame["kmain"].op # "identify"
  /\ calls < MaxCalls
  /\ \E s \in IrqSector, n \in 1 .. MaxSectors :
       frame' = [frame EXCEPT !["irq"] = Call("read", s, n)]
  /\ calls' = calls + 1
  /\ mixed' = (mixed \/ InTransfer)
  /\ UNCHANGED drive

Next ==
  \/ Drive
  \/ \E x \in Context : Access(x) \/ Return(x)
  \/ KmainCall
  \/ IrqCall

Spec == Init /\ [][Next]_vars

\* The drive carries out its commands, and the processor goes on.
Fairness ==
  /\ WF_vars(Drive)
  /\ \A x \in Context : WF_vars(Access(x) \/ Return(x))

FairSpec == Spec /\ Fairness

-----------------------------------------------------------------------------
(* Properties *)

\* A read returns the words of the sectors that were asked for, in order,
\* unless a command came into the middle of a transfer.  Commands that come
\* anywhere else, also between the last word and the flush, do no harm, and
\* read what they should (ata.c:75-95, 121-129).
ReadIsExact ==
  \A x \in Context :
    LET f == frame[x] IN
    ~mixed /\ f.pc = "done" /\ f.op = "read" =>
      \A k \in 0 .. f.n - 1 : f.buffer[k] = disk[f.first + k]

\* When write returns its sectors are on the disk: the flush, which the drive
\* may have ignored, is not needed for that (ata.c:97-119, 131-138).
WriteIsComplete ==
  LET f == frame["kmain"] IN
  ~mixed /\ f.pc = "done" /\ f.op = "write" =>
    \A k \in 0 .. f.n - 1 : disk[f.first + k] = [i \in Word |-> Given(f, k, i)]

\* The disk changes only in the sector that the call under way is at, and that
\* sector changes as a whole: a write cut short leaves a prefix of its sectors
\* new, and nothing else touched.
OnlyAskedSectorChanges ==
  [][\A s \in Sector :
       disk'[s] # disk[s] /\ ~mixed =>
         LET f == frame["kmain"] IN
         /\ f.op = "write" /\ f.pc \in {"flush", "flushed"}
         /\ s = f.first + f.j
         /\ disk'[s] = [i \in Word |-> Given(f, f.j, i)]]_vars

\* Every call on sectors of the disk returns, unless a command came into the
\* middle of a transfer: no wait is for an answer the drive has given already.
CallReturns ==
  \A x \in Context :
    (frame[x].pc # "idle" /\ frame[x].first + frame[x].n <= DiskSize)
      ~> (frame[x].pc = "idle" \/ mixed)

=============================================================================
