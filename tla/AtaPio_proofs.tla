--------------------------- MODULE AtaPio_proofs ----------------------------
(***************************************************************************)
(* What the calls on the disk promise holds for every number of sectors,   *)
(* words and calls, and every size of the address registers.               *)
(***************************************************************************)
EXTENDS AtaPio, TLAPS

-----------------------------------------------------------------------------
(* Types *)

PC == {"idle", "wait", "registers", "command", "identified", "request",
       "words", "flush", "flushed", "done"}

Value == {NoWord} \cup ({"disk", "identity"} \X Nat \X Nat)
           \cup ({"call"} \X Nat \X Nat \X Nat)
Content == [Word -> Value]

\* A call on n sectors.
Frame(n) ==
  [pc : PC, op : {"none", "identify", "read", "write"}, id : Nat, first : Nat,
   n : {n}, j : Nat, i : Nat \ {0}, buffer : [0 .. n - 1 -> Content]]

\* Where a call may be: its sectors begin on the disk, it is at one of them,
\* flushes only what it wrote ...
Located(f) ==
  /\ f.n \in 0 .. MaxSectors
  /\ f.pc = "idle" <=> f.op = "none"
  /\ f.pc # "idle" => /\ f.j < f.n
                      /\ f.op = "identify" => f.n = 1 /\ f.first = 0
                      /\ f.first < DiskSize
  /\ f.pc \in {"flush", "flushed"} => f.op = "write"
  /\ f.pc = "identified" => f.op = "identify"
  /\ f.pc = "done" => f.j = f.n - 1

\* ... and counts registers and words only.
Counted(f) ==
  /\ f.pc \notin {"registers", "words"} => f.i = 1
  /\ f.pc = "registers" => f.i <= 5
  /\ f.pc = "words" => f.i <= Words

Placed(f) == Located(f) /\ Counted(f)

DriveTypeOK ==
  /\ disk \in [Sector -> Content] /\ data \in Content
  /\ regs \in [RegisterNames -> Nat]
  /\ mode \in {"idle", "reading", "identifying", "preparing", "out", "in",
               "storing", "flushing"}
  /\ target \in Nat /\ next \in Word

FramesOK ==
  /\ DOMAIN frame = Context
  /\ \A x \in Context : frame[x] \in Frame(frame[x].n) /\ Placed(frame[x])
  /\ frame["irq"].op \in {"none", "read"}

AtaTypeOK ==
  /\ DriveTypeOK /\ FramesOK
  /\ calls \in Nat /\ mixed \in BOOLEAN

-----------------------------------------------------------------------------
(* What a call and the drive make of each other, as long as no command     *)
(* came into the middle of a transfer                                      *)

Full(f, k) == [w \in Word |-> Given(f, k, w)]

\* The registers written so far hold the address.
Addressed(x, k) ==
  \A r \in 1 .. k : regs[Register[r]] = RegisterValue(x, Register[r])

\* The command has been given: the drive works at it, has answered it or
\* knows no such sector.
Requested(x) ==
  CASE frame[x].op = "read" ->
         /\ target = Lba(x)
         /\ \/ mode = "reading"
            \/ mode = "idle" /\ target \notin Sector
            \/ mode = "out" /\ next = 1 /\ target \in Sector /\ data = disk[target]
    [] frame[x].op = "write" ->
         /\ target = Lba(x)
         /\ \/ mode = "preparing"
            \/ mode = "idle" /\ target \notin Sector
            \/ mode = "in" /\ next = 1 /\ target \in Sector
    [] OTHER -> mode = "out" /\ next = 1

Transferring(x) ==
  LET f == frame[x] IN
  CASE f.op = "read" ->
         /\ target = Lba(x) /\ target \in Sector
         /\ mode = "out" /\ next = f.i /\ data = disk[target]
         /\ \A w \in 1 .. f.i - 1 : f.buffer[f.j][w] = data[w]
    [] f.op = "write" ->
         /\ target = Lba(x) /\ target \in Sector
         /\ mode = "in" /\ next = f.i
         /\ \A w \in 1 .. f.i - 1 : data[w] = Given(f, f.j, w)
    [] OTHER -> mode = "out" /\ next = f.i

\* The drive is where the call that runs, x, expects it.
InStep(x) ==
  LET f == frame[x] IN
  /\ f.pc \in {"idle", "done"} => mode = "idle"
  /\ f.pc \in {"wait", "flush", "flushed"} => mode \in {"idle", "storing", "flushing"}
  /\ f.pc = "registers" => mode = "idle" /\ Addressed(x, f.i - 1)
  /\ f.pc = "command" => mode = "idle" /\ Addressed(x, 5)
  /\ f.pc = "identified" => mode = "identifying" \/ (mode = "out" /\ next = 1)
  /\ f.pc = "request" => Requested(x)
  /\ f.pc = "words" => Transferring(x)

\* A call that an interrupt holds up has nothing in the drive but what the
\* drive is storing.
HeldUp ==
  LET f == frame["kmain"] IN
  frame["irq"].pc # "idle" =>
    /\ f.op # "identify"
    /\ \/ f.pc \in {"idle", "wait", "flush", "flushed", "done"}
       \/ f.pc = "registers" /\ f.i = 1

\* What the drive stores is the sector that kmain has written, and no
\* interrupt gets further than its first wait before it is on the disk.
Stores ==
  LET f == frame["kmain"] IN
  /\ mode = "storing" =>
       /\ f.pc \in {"flush", "flushed"}
       /\ target = Lba("kmain") /\ data = Full(f, f.j)
       /\ \/ frame["irq"].pc = "idle"
          \/ frame["irq"].pc = "wait" /\ frame["irq"].j = 0
  /\ f.pc \in {"flush", "flushed"} =>
       /\ Lba("kmain") \in Sector
       /\ mode # "storing" => disk[Lba("kmain")] = Full(f, f.j)

\* The sectors a call is done with.
Finished(f) == 0 .. IF f.pc = "done" THEN f.n - 1 ELSE f.j - 1

ReadSoFar ==
  \A x \in Context : frame[x].op = "read" =>
    \A k \in Finished(frame[x]) : frame[x].buffer[k] = disk[frame[x].first + k]

WrittenSoFar ==
  LET f == frame["kmain"] IN
  f.op = "write" => \A k \in Finished(f) : disk[f.first + k] = Full(f, k)

\* The call that runs: the interrupt's, when there is one.
Runs == IF frame["irq"].pc = "idle" THEN "kmain" ELSE "irq"

Undisturbed ==
  /\ InStep(Runs)
  /\ HeldUp /\ Stores /\ ReadSoFar /\ WrittenSoFar

IInv == AtaTypeOK /\ (~mixed => Undisturbed)
-----------------------------------------------------------------------------
(* Addresses *)

\* Quotient and remainder are the only pair that fits.
LEMMA Quotient ==
  ASSUME NEW a \in Nat, NEW b \in Nat \ {0}, NEW q \in Nat, NEW r \in 0 .. b - 1,
         a = b * q + r
  PROVE  a \div b = q /\ a % b = r
OBVIOUS

LEMMA Divided ==
  ASSUME NEW a \in Nat, NEW b \in Nat \ {0}
  PROVE  a \div b \in Nat /\ a = b * (a \div b) + (a % b)
OBVIOUS

\* Dividing twice.
LEMMA Nested ==
  ASSUME NEW a \in Nat, NEW b \in Nat \ {0}, NEW d \in Nat \ {0}
  PROVE  a \div (b * d) = (a \div b) \div d
OBVIOUS

\* The four registers hold the whole address of every sector below 2^28.
LEMMA AddressWhole ==
  ASSUME NEW lba \in Nat, lba < DevSize * (ByteSize * (ByteSize * ByteSize))
  PROVE  Low(lba) + ByteSize * (Mid(lba) + ByteSize * (High(lba)
           + ByteSize * Top(lba))) = lba
<1>1. PICK b \in Nat \ {0} : b = ByteSize
  BY SizesAssumption
<1>2. PICK d \in Nat \ {0} : d = DevSize
  BY SizesAssumption
<1>3. PICK q1 \in Nat : q1 = lba \div b /\ lba = b * q1 + (lba % b)
  BY Divided, Zenon
<1>4. PICK q2 \in Nat : q2 = q1 \div b /\ q1 = b * q2 + (q1 % b)
  BY Divided, Zenon
<1>5. PICK q3 \in Nat : q3 = q2 \div b /\ q2 = b * q3 + (q2 % b)
  BY Divided, Zenon
<1>6. lba \div (b * b) = q2 /\ lba \div (b * (b * b)) = q3
  <2>1. PICK c \in Nat \ {0} : c = b * b
    BY <1>1
  <2>2. lba \div c = q2
    BY <1>3, <1>4, <2>1, Nested
  <2>3. lba \div (c * b) = q3
    BY <2>2, <1>5, Nested
  <2>4. c * b = b * (b * b)
    BY <2>1
  <2>. QED BY <2>1, <2>2, <2>3, <2>4
<1>7. q3 < d
  <2>. SUFFICES ASSUME q3 >= d PROVE FALSE
    OBVIOUS
  <2>1. q2 >= b * d
    BY <1>1, <1>2, <1>5
  <2>2. q1 >= b * (b * d)
    BY <2>1, <1>1, <1>2, <1>4
  <2>3. lba >= b * (b * (b * d))
    BY <2>2, <1>1, <1>2, <1>3
  <2>4. b * (b * (b * d)) = d * (b * (b * b))
    BY <1>1, <1>2
  <2>. QED BY <2>3, <2>4, <1>1, <1>2
<1>8. q3 % d = q3
  BY <1>2, <1>7
<1>9. /\ Low(lba) = lba % b /\ Mid(lba) = q1 % b
      /\ High(lba) = q2 % b /\ Top(lba) = q3
  <2>1. b * b * b = b * (b * b)
    BY <1>1
  <2>. QED
    BY <1>1, <1>2, <1>3, <1>6, <1>8, <2>1 DEF Low, Mid, High, Top
<1>10. lba % b \in Nat /\ q1 % b \in Nat /\ q2 % b \in Nat
  BY <1>1
<1>11. High(lba) + ByteSize * Top(lba) = q2
  BY <1>1, <1>5, <1>9, <1>10
<1>12. Mid(lba) + ByteSize * q2 = q1
  BY <1>1, <1>4, <1>9, <1>10
<1>13. Low(lba) + ByteSize * q1 = lba
  BY <1>1, <1>3, <1>9, <1>10
<1>. QED BY <1>11, <1>12, <1>13, Zenon

-----------------------------------------------------------------------------
(* How the actions change a call *)

\* The call of x is replaced by g.
Becomes(x, g) ==
  /\ DOMAIN frame' = Context
  /\ frame'[x] = g
  /\ \A y \in Context \ {x} : frame'[y] = frame[y]

\* It is the same call on the same sector.
Continues(f, g, to, k) ==
  /\ g \in Frame(f.n)
  /\ g.pc = to /\ g.i = k
  /\ g.op = f.op /\ g.id = f.id /\ g.first = f.first /\ g.n = f.n
  /\ g.j = f.j /\ g.buffer = f.buffer

\* It is through with the sector.
Passes(f, g) ==
  /\ g \in Frame(f.n)
  /\ g.op = f.op /\ g.id = f.id /\ g.first = f.first /\ g.n = f.n
  /\ g.i = 1
  /\ IF f.j + 1 < f.n THEN g.pc = "wait" /\ g.j = f.j + 1
                      ELSE g.pc = "done" /\ g.j = f.j

Moves(x, to, k) == \E g : Becomes(x, g) /\ Continues(frame[x], g, to, k)

LEMMA Moved ==
  ASSUME FramesOK, NEW x \in Context, NEW to \in PC, NEW k \in Nat \ {0},
         frame' = [frame EXCEPT ![x].pc = to, ![x].i = k]
  PROVE  Moves(x, to, k)
<1>. DEFINE f == frame[x]
            g == [f EXCEPT !.pc = to, !.i = k]
<1>1. f \in Frame(f.n) /\ DOMAIN frame = Context
  BY DEF FramesOK
<1>2. Becomes(x, g)
  BY <1>1 DEF Becomes
<1>3. Continues(f, g, to, k)
  BY <1>1 DEF Continues, Frame
<1>. HIDE DEF g
<1>. QED BY <1>2, <1>3 DEF Moves

\* A call that is replaced by one in a legal place.
LEMMA FramesKept ==
  ASSUME FramesOK, NEW x \in Context, NEW g, Becomes(x, g),
         g \in Frame(g.n), Placed(g), x = "irq" => g.op \in {"none", "read"}
  PROVE  FramesOK'
<1>1. "irq" \in Context
  BY DEF Context
<1>. QED BY <1>1 DEF FramesOK, Becomes

\* A call that goes on to a place its operation has.
LEMMA MovesTyped ==
  ASSUME FramesOK, NEW x \in Context, NEW to \in PC, NEW k \in Nat \ {0},
         Moves(x, to, k), frame[x].pc # "idle", to # "idle", to # "done",
         to \notin {"registers", "words"} => k = 1,
         to = "registers" => k <= 5,
         to = "words" => k <= Words,
         to \in {"flush", "flushed"} => frame[x].op = "write",
         to = "identified" => frame[x].op = "identify"
  PROVE  FramesOK'
<1>1. PICK g : Becomes(x, g) /\ Continues(frame[x], g, to, k)
  BY DEF Moves
<1>2. Placed(frame[x]) /\ (x = "irq" => frame[x].op \in {"none", "read"})
  BY DEF FramesOK
<1>3. g \in Frame(g.n)
  BY <1>1 DEF Continues
<1>4. Placed(g)
  BY <1>1, <1>2 DEF Placed, Located, Counted, Continues
<1>5. x = "irq" => g.op \in {"none", "read"}
  BY <1>1, <1>2 DEF Continues
<1>. QED BY <1>1, <1>3, <1>4, <1>5, FramesKept

\* A call that is through with a sector.
LEMMA NextSectorTyped ==
  ASSUME NEW n, NEW f \in Frame(n), Located(f), f.pc \in {"words", "flushed"}
  PROVE  /\ Passes(f, NextSector(f)) /\ Placed(NextSector(f))
         /\ NextSector(f).buffer = f.buffer
<1>. DEFINE g == NextSector(f)
<1>1. f.n = n /\ n \in Nat /\ f.j \in Nat /\ f.j < n
  BY SizesAssumption DEF Frame, Located
<1>2. CASE f.j + 1 < f.n
  <2>1. g = [f EXCEPT !.j = @ + 1, !.pc = "wait", !.i = 1]
    BY <1>2 DEF NextSector
  <2>. HIDE DEF g
  <2>2. g \in Frame(n) /\ g.op = f.op /\ g.id = f.id /\ g.first = f.first
        /\ g.n = f.n /\ g.buffer = f.buffer /\ g.pc = "wait" /\ g.j = f.j + 1
        /\ g.i = 1
    <3>1. "wait" \in PC /\ "done" \in PC
      BY DEF PC
    <3>2. PICK one \in Nat \ {0} : one = 1
      OBVIOUS
    <3>3. PICK j \in Nat : j = f.j + 1
      BY <1>1
    <3>. QED BY <1>1, <2>1, <3>1, <3>2, <3>3 DEF Frame
  <2>3. Placed(g)
    BY <1>1, <1>2, <2>2 DEF Placed, Located, Counted
  <2>. QED BY <1>1, <1>2, <2>2, <2>3 DEF g, Passes
<1>3. CASE ~(f.j + 1 < f.n)
  <2>1. g = [f EXCEPT !.pc = "done", !.i = 1]
    BY <1>3 DEF NextSector
  <2>. HIDE DEF g
  <2>2. g \in Frame(n) /\ g.op = f.op /\ g.id = f.id /\ g.first = f.first
        /\ g.n = f.n /\ g.buffer = f.buffer /\ g.pc = "done" /\ g.j = f.j
        /\ g.i = 1
    <3>1. "wait" \in PC /\ "done" \in PC
      BY DEF PC
    <3>2. PICK one \in Nat \ {0} : one = 1
      OBVIOUS
    <3>. QED BY <1>1, <2>1, <3>1, <3>2 DEF Frame
  <2>3. Placed(g)
    BY <1>1, <1>3, <2>2 DEF Placed, Located, Counted
  <2>. QED BY <1>1, <1>3, <2>2, <2>3 DEF g, Passes
<1>. QED BY <1>2, <1>3

-----------------------------------------------------------------------------
(* Types *)

LEMMA GivenTyped ==
  ASSUME NEW n, NEW f \in Frame(n), NEW j \in Nat, NEW i \in Nat
  PROVE  Given(f, j, i) \in Value
BY DEF Given, Value, Frame

LEMMA ValueTyped ==
  ASSUME FramesOK, NEW x \in Context, NEW r \in RegisterNames
  PROVE  RegisterValue(x, r) \in Nat
<1>1. frame[x].first \in Nat /\ frame[x].j \in Nat
  BY DEF FramesOK, Frame
<1>2. PICK lba \in Nat : lba = Lba(x)
  BY <1>1 DEF Lba
<1>3. PICK b \in Nat \ {0}, d \in Nat \ {0} : b = ByteSize /\ d = DevSize
  BY SizesAssumption
<1>4. /\ b * b \in Nat \ {0} /\ b * b * b \in Nat \ {0}
  BY <1>3
<1>5. /\ Low(lba) \in Nat /\ Mid(lba) \in Nat
      /\ High(lba) \in Nat /\ Top(lba) \in Nat
  BY <1>3, <1>4 DEF Low, Mid, High, Top
<1>. QED BY <1>2, <1>5 DEF RegisterValue, RegisterNames

\* What a step of the drive leaves in its registers and buffer.
LEMMA DriveTyped ==
  ASSUME DriveTypeOK, Drive
  PROVE  DriveTypeOK'
<1>1. CASE DrivePresents
  <2>1. NoData \in Content
    BY DEF NoData, Content, Value
  <2>2. [w \in Word |-> <<"identity", 0, w>>] \in Content
    BY SizesAssumption DEF Content, Value, Word
  <2>3. data' \in Content
    BY <1>1, <2>1, <2>2 DEF DriveTypeOK, DrivePresents
  <2>4. 1 \in Word
    BY SizesAssumption DEF Word
  <2>. QED BY <1>1, <2>3, <2>4 DEF DriveTypeOK, DrivePresents
<1>2. CASE DriveFails
  BY <1>2 DEF DriveTypeOK, DriveFails
<1>3. CASE DriveStores
  <2>1. disk' \in [Sector -> Content]
    BY <1>3 DEF DriveTypeOK, DriveStores
  <2>. QED BY <1>3, <2>1 DEF DriveTypeOK, DriveStores
<1>4. CASE DriveFlushes
  BY <1>4 DEF DriveTypeOK, DriveFlushes
<1>. QED BY <1>1, <1>2, <1>3, <1>4 DEF Drive

LEMMA RegisterTyped ==
  ASSUME DriveTypeOK, NEW r \in RegisterNames, NEW v \in Nat, SetRegister(r, v)
  PROVE  DriveTypeOK'
BY DEF DriveTypeOK, SetRegister

LEMMA CommandTyped ==
  ASSUME DriveTypeOK,
         NEW m \in {"reading", "preparing", "identifying", "flushing"},
         SetCommand(m)
  PROVE  DriveTypeOK'
<1>1. Address \in Nat
  <2>1. PICK b \in Nat : b = ByteSize
    BY SizesAssumption
  <2>2. /\ regs["low"] \in Nat /\ regs["mid"] \in Nat
        /\ regs["high"] \in Nat /\ regs["dev"] \in Nat
    BY DEF DriveTypeOK, RegisterNames
  <2>3. PICK a \in Nat : a = regs["high"] + b * regs["dev"]
    BY <2>1, <2>2
  <2>4. PICK c \in Nat : c = regs["mid"] + b * a
    BY <2>1, <2>2, <2>3
  <2>5. Address = regs["low"] + b * c
    BY <2>1, <2>3, <2>4 DEF Address
  <2>. QED BY <2>1, <2>2, <2>5
<1>. QED BY <1>1 DEF DriveTypeOK, SetCommand

LEMMA TransferTyped ==
  ASSUME DriveTypeOK, NEW m \in {"idle", "storing"}, Transfer(m)
  PROVE  next' \in Word /\ mode' \in {mode, "idle", "storing"}
BY SizesAssumption DEF DriveTypeOK, Transfer, Word

-----------------------------------------------------------------------------
(* Accesses *)

\* The call f of x becomes g, with the word v in its buffer.
TakesWord(x, f, v, g) ==
  /\ Becomes(x, g) /\ Placed(g)
  /\ g.buffer = [f.buffer EXCEPT ![f.j][f.i] = v]
  /\ f.i = Words => Passes(f, g)
  /\ f.i # Words => Continues([f EXCEPT !.buffer = g.buffer], g, "words", f.i + 1)

LEMMA WordRead ==
  ASSUME AtaTypeOK, NEW x \in Context, ReadWord(x),
         NEW f, f = frame[x], NEW v, v = IF mode = "out" THEN data[next] ELSE NoWord
  PROVE  \E g : TakesWord(x, f, v, g)
<1>1. /\ f \in Frame(f.n) /\ Placed(f) /\ f.pc = "words" /\ DOMAIN frame = Context
      /\ f.op \in {"read", "identify"}
  BY DEF AtaTypeOK, FramesOK, ReadWord, At
<1>2. v \in Value
  BY DEF AtaTypeOK, DriveTypeOK, Content, Value
<1>3. PICK k \in Nat \ {0} : k = f.i + 1
  BY <1>1 DEF Frame
<1>4. PICK b : b = [f.buffer EXCEPT ![f.j][f.i] = v]
  OBVIOUS
<1>5. b \in [0 .. f.n - 1 -> Content]
  <2>1. f.buffer \in [0 .. f.n - 1 -> Content]
    BY <1>1 DEF Frame
  <2>2. f.buffer[f.j] \in Content \/ f.j \notin 0 .. f.n - 1
    BY <2>1
  <2>. QED BY <1>2, <1>4, <2>1, <2>2 DEF Content
<1>6. PICK f2 : f2 = [f EXCEPT !.buffer = b, !.i = k]
  OBVIOUS
<1>7. /\ f2 \in Frame(f.n) /\ f2.buffer = b /\ f2.i = k
      /\ f2.pc = f.pc /\ f2.op = f.op /\ f2.id = f.id /\ f2.first = f.first
      /\ f2.n = f.n /\ f2.j = f.j
  BY <1>1, <1>5, <1>6 DEF Frame
<1>8. f2 = [f EXCEPT !.buffer[f.j][f.i] = v, !.i = @ + 1]
  BY <1>1, <1>3, <1>4, <1>6 DEF Frame
<1>9. Becomes(x, IF f.i = Words THEN NextSector(f2) ELSE f2)
  BY <1>1, <1>8 DEF ReadWord, LastWord, Becomes
<1>10. Located(f2)
  BY <1>1, <1>7 DEF Located, Placed
<1>11. CASE f.i = Words
  <2>1. Passes(f2, NextSector(f2)) /\ Placed(NextSector(f2))
        /\ NextSector(f2).buffer = b
    BY <1>1, <1>7, <1>10, NextSectorTyped
  <2>2. Passes(f, NextSector(f2))
    BY <1>7, <2>1 DEF Passes
  <2>. QED BY <1>4, <1>9, <1>11, <2>1, <2>2 DEF TakesWord
<1>12. CASE f.i # Words
  <2>1. f.i \in Nat /\ f.i <= Words /\ Words \in Nat
    BY <1>1, SizesAssumption DEF Frame, Placed, Counted
  <2>2. Placed(f2)
    BY <1>1, <1>3, <1>7, <1>10, <1>12, <2>1 DEF Placed, Counted
  <2>3. Continues([f EXCEPT !.buffer = f2.buffer], f2, "words", f.i + 1)
    BY <1>1, <1>3, <1>7 DEF Continues, Frame
  <2>. QED BY <1>4, <1>7, <1>9, <1>12, <2>2, <2>3 DEF TakesWord
<1>. QED BY <1>11, <1>12

LEMMA FlushPassed ==
  ASSUME FramesOK, NEW x \in Context, AfterFlush(x), NEW f, f = frame[x]
  PROVE  \E g : Becomes(x, g) /\ Placed(g) /\ Passes(f, g)
                /\ g.buffer = f.buffer
<1>1. /\ f \in Frame(f.n) /\ Placed(f) /\ f.pc = "flushed" /\ DOMAIN frame = Context
  BY DEF FramesOK, AfterFlush, At
<1>2. Becomes(x, NextSector(f))
  BY <1>1 DEF AfterFlush, Becomes
<1>3. Passes(f, NextSector(f)) /\ Placed(NextSector(f))
      /\ NextSector(f).buffer = f.buffer
  BY <1>1, NextSectorTyped DEF Placed
<1>. QED BY <1>2, <1>3

\* A call through with a sector is typed as before.
LEMMA PassesTyped ==
  ASSUME FramesOK, NEW x \in Context, NEW g, Becomes(x, g), Placed(g),
         Passes(frame[x], g)
  PROVE  FramesOK'
<1>1. g \in Frame(g.n) /\ (x = "irq" => g.op \in {"none", "read"})
  BY DEF FramesOK, Passes
<1>. QED BY <1>1, FramesKept

LEMMA AccessTyped ==
  ASSUME AtaTypeOK, NEW x \in Context, Access(x)
  PROVE  AtaTypeOK'
<1>. DEFINE f == frame[x]
<1>1. /\ DriveTypeOK /\ FramesOK /\ calls' \in Nat /\ mixed' \in BOOLEAN
      /\ f \in Frame(f.n) /\ Placed(f)
  BY DEF AtaTypeOK, FramesOK, Access
<1>2. \A n \in {1} : n \in Nat \ {0}
  OBVIOUS
<1>3. UNCHANGED drive => DriveTypeOK'
  BY <1>1 DEF drive, DriveTypeOK
<1>4. SUFFICES DriveTypeOK' /\ FramesOK'
  BY <1>1 DEF AtaTypeOK
<1>5. CASE WaitBusy(x)
  <2>1. f.pc = "wait" /\ Moves(x, "registers", 1)
    BY <1>1, <1>2, <1>5, Moved DEF WaitBusy, Wait, At, PC
  <2>2. FramesOK'
    BY <1>1, <1>2, <2>1, MovesTyped DEF PC
  <2>. QED BY <1>3, <1>5, <2>2 DEF WaitBusy, Wait
<1>6. CASE WriteRegister(x)
  <2>1. f.pc = "registers" /\ f.i \in 1 .. 5
    BY <1>1, <1>6 DEF WriteRegister, At, Placed, Counted, Frame
  <2>2. Register[f.i] \in RegisterNames
    BY <2>1 DEF Register, RegisterNames
  <2>3. DriveTypeOK'
    BY <1>1, <1>6, <2>2, ValueTyped, RegisterTyped DEF WriteRegister
  <2>4. CASE f.i < 5
    <3>1. PICK k \in Nat \ {0} : k = f.i + 1
      BY <2>1
    <3>2. frame' = [frame EXCEPT ![x].pc = "registers", ![x].i = k]
      <4>1. frame' = [frame EXCEPT ![x].i = k]
        BY <1>6, <2>4, <3>1 DEF WriteRegister
      <4>2. DOMAIN frame = Context /\ f \in Frame(f.n)
        BY <1>1 DEF FramesOK
      <4>. QED BY <2>1, <4>1, <4>2 DEF Frame
    <3>3. Moves(x, "registers", k)
      BY <1>1, <3>2, Moved DEF PC
    <3>4. FramesOK'
      BY <1>1, <2>1, <2>4, <3>1, <3>3, MovesTyped DEF PC
    <3>. QED BY <2>3, <3>4
  <2>5. CASE ~(f.i < 5)
    <3>1. Moves(x, "command", 1)
      BY <1>1, <1>2, <1>6, <2>5, Moved DEF WriteRegister, Goto, PC
    <3>2. FramesOK'
      BY <1>1, <1>2, <2>1, <3>1, MovesTyped DEF PC
    <3>. QED BY <2>3, <3>2
  <2>. QED BY <2>4, <2>5
<1>7. CASE WriteCommand(x)
  <2>1. f.pc = "command" /\ f.op # "none" /\ f.op \in {"read", "write", "identify"}
    BY <1>1, <1>7 DEF WriteCommand, At, Placed, Located, Frame
  <2>2. DriveTypeOK'
    BY <1>1, <1>7, <2>1, CommandTyped DEF WriteCommand
  <2>3. CASE f.op = "identify"
    <3>1. Moves(x, "identified", 1)
      BY <1>1, <1>2, <1>7, <2>3, Moved DEF WriteCommand, Goto, PC
    <3>2. FramesOK'
      BY <1>1, <1>2, <2>1, <2>3, <3>1, MovesTyped DEF PC
    <3>. QED BY <2>2, <3>2
  <2>4. CASE f.op # "identify"
    <3>1. Moves(x, "request", 1)
      BY <1>1, <1>2, <1>7, <2>4, Moved DEF WriteCommand, Goto, PC
    <3>2. FramesOK'
      BY <1>1, <1>2, <2>1, <3>1, MovesTyped DEF PC
    <3>. QED BY <2>2, <3>2
  <2>. QED BY <2>3, <2>4
<1>8. CASE WaitIdentified(x)
  <2>1. f.pc = "identified" /\ Moves(x, "request", 1)
    BY <1>1, <1>2, <1>8, Moved DEF WaitIdentified, Wait, At, PC
  <2>2. FramesOK'
    BY <1>1, <1>2, <2>1, MovesTyped DEF PC
  <2>. QED BY <1>3, <1>8, <2>2 DEF WaitIdentified, Wait
<1>9. CASE WaitRequest(x)
  <2>1. f.pc = "request" /\ Moves(x, "words", 1)
    BY <1>1, <1>2, <1>9, Moved DEF WaitRequest, Wait, At, PC
  <2>2. FramesOK'
    BY <1>1, <1>2, <2>1, MovesTyped, SizesAssumption DEF PC
  <2>. QED BY <1>3, <1>9, <2>2 DEF WaitRequest, Wait
<1>10. CASE ReadWord(x)
  <2>1. PICK v : v = IF mode = "out" THEN data[next] ELSE NoWord
    OBVIOUS
  <2>2. PICK g : /\ Becomes(x, g) /\ Placed(g)
                 /\ f.i = Words => Passes(f, g)
                 /\ f.i # Words => Continues([f EXCEPT !.buffer = g.buffer],
                                             g, "words", f.i + 1)
    BY <1>10, <2>1, WordRead DEF TakesWord
  <2>3. g \in Frame(g.n) /\ (x = "irq" => g.op \in {"none", "read"})
    BY <1>1, <2>2 DEF Passes, Continues, Frame, FramesOK
  <2>4. FramesOK'
    BY <1>1, <2>2, <2>3, FramesKept
  <2>5. DriveTypeOK'
    BY <1>1, <1>10, TransferTyped DEF ReadWord, DriveTypeOK
  <2>. QED BY <2>4, <2>5
<1>11. CASE WriteWord(x)
  <2>1. f.pc = "words" /\ f.op = "write" /\ f.i \in 1 .. Words
    BY <1>1, <1>11 DEF WriteWord, At, Placed, Counted, Frame
  <2>2. ASSUME f.i = Words PROVE FramesOK'
    <3>1. Moves(x, "flush", 1)
      BY <1>1, <1>2, <1>11, <2>2, Moved DEF WriteWord, LastWord, Goto, PC
    <3>. QED BY <1>1, <1>2, <2>1, <3>1, MovesTyped DEF PC
  <2>3. ASSUME f.i # Words PROVE FramesOK'
    <3>1. PICK k \in Nat \ {0} : k = f.i + 1
      BY <2>1
    <3>2. frame' = [frame EXCEPT ![x].pc = "words", ![x].i = k]
      <4>1. frame' = [frame EXCEPT ![x].i = k]
        BY <1>11, <2>3, <3>1 DEF WriteWord, LastWord
      <4>2. DOMAIN frame = Context /\ f \in Frame(f.n)
        BY <1>1 DEF FramesOK
      <4>. QED BY <2>1, <4>1, <4>2 DEF Frame
    <3>3. Moves(x, "words", k)
      BY <1>1, <3>2, Moved DEF PC
    <3>. QED BY <1>1, <2>1, <2>3, <3>1, <3>3, MovesTyped, SizesAssumption DEF PC
  <2>4. DriveTypeOK'
    <3>1. Given(f, f.j, f.i) \in Value
      BY <1>1, <2>1, GivenTyped DEF Frame
    <3>2. data' \in Content
      BY <1>1, <1>11, <3>1 DEF WriteWord, DriveTypeOK, Content
    <3>. QED BY <1>1, <1>11, <3>2, TransferTyped DEF WriteWord, DriveTypeOK
  <2>. QED BY <2>2, <2>3, <2>4
<1>12. CASE WriteFlush(x)
  <2>1. f.pc = "flush" /\ f.op = "write" /\ Moves(x, "flushed", 1)
    BY <1>1, <1>2, <1>12, Moved
    DEF WriteFlush, Goto, At, PC, Placed, Located
  <2>2. FramesOK'
    BY <1>1, <1>2, <2>1, MovesTyped DEF PC
  <2>3. DriveTypeOK'
    BY <1>1, <1>12, CommandTyped DEF WriteFlush
  <2>. QED BY <2>2, <2>3
<1>13. CASE WaitFlushed(x)
  <2>1. PICK g : Becomes(x, g) /\ Placed(g) /\ Passes(f, g)
    BY <1>1, <1>13, FlushPassed DEF WaitFlushed
  <2>2. FramesOK'
    BY <1>1, <2>1, PassesTyped
  <2>. QED BY <1>3, <1>13, <2>2 DEF WaitFlushed, AfterFlush
<1>. QED
  BY <1>5, <1>6, <1>7, <1>8, <1>9, <1>10, <1>11, <1>12, <1>13 DEF Access

\* A new call of context x.
LEMMA CallTyped ==
  ASSUME NEW op \in {"read", "write"}, NEW first \in Sector,
         NEW n \in 1 .. MaxSectors, calls \in Nat
  PROVE  Call(op, first, n) \in Frame(n) /\ Placed(Call(op, first, n))
<1>1. NoData \in Content
  BY DEF NoData, Content, Value
<1>2. PICK b \in [0 .. n - 1 -> Content] : b = [k \in 0 .. n - 1 |-> NoData]
  BY <1>1
<1>3. first \in Nat /\ first < DiskSize /\ n \in Nat
  BY SizesAssumption DEF Sector
<1>4. PICK one \in Nat \ {0} : one = 1
  OBVIOUS
<1>5. "wait" \in PC
  BY DEF PC
<1>6. Call(op, first, n) \in Frame(n)
  BY <1>2, <1>3, <1>4, <1>5 DEF Call, Frame
<1>7. Located(Call(op, first, n))
  BY <1>3, SizesAssumption DEF Call, Located
<1>8. Counted(Call(op, first, n))
  BY DEF Call, Counted
<1>. QED BY <1>6, <1>7, <1>8 DEF Placed

LEMMA IdleTyped == Idle \in Frame(0) /\ Placed(Idle) /\ Idle.n = 0 /\ Idle.op = "none"
<1>1. <<>> \in [0 .. 0 - 1 -> Content]
  OBVIOUS
<1>2. PICK one \in Nat \ {0} : one = 1
  OBVIOUS
<1>3. "idle" \in PC
  BY DEF PC
<1>4. Idle \in Frame(0)
  BY <1>1, <1>2, <1>3 DEF Idle, Frame
<1>5. Located(Idle) /\ Counted(Idle)
  BY SizesAssumption DEF Idle, Located, Counted
<1>. QED BY <1>4, <1>5 DEF Placed, Idle

\* Every step keeps the types.
LEMMA TypesKept == AtaTypeOK /\ [Next]_vars => AtaTypeOK'
<1>. SUFFICES ASSUME AtaTypeOK, [Next]_vars PROVE AtaTypeOK'
  OBVIOUS
<1>0. /\ DriveTypeOK /\ FramesOK /\ calls \in Nat /\ mixed \in BOOLEAN
      /\ DOMAIN frame = Context /\ "irq" \in Context /\ "kmain" \in Context
  BY DEF AtaTypeOK, FramesOK, Context
<1>d. UNCHANGED drive => DriveTypeOK'
  BY <1>0 DEF drive, DriveTypeOK
<1>f. UNCHANGED frame => FramesOK'
  BY <1>0 DEF FramesOK
<1>1. CASE Drive
  BY <1>0, <1>1, <1>f, DriveTyped DEF Drive, AtaTypeOK
<1>2. ASSUME NEW x \in Context, Access(x) PROVE AtaTypeOK'
  BY <1>2, AccessTyped
<1>3. ASSUME NEW x \in Context, Return(x) PROVE AtaTypeOK'
  <2>1. Becomes(x, Idle)
    BY <1>0, <1>3 DEF Return, Becomes
  <2>2. FramesOK'
    BY <1>0, <2>1, IdleTyped, FramesKept
  <2>. QED BY <1>0, <1>3, <1>d, <2>2 DEF Return, AtaTypeOK
<1>4. CASE KmainCall
  <2>1. PICK op \in {"read", "write"}, s \in Sector, n \in 1 .. MaxSectors :
          frame' = [frame EXCEPT !["kmain"] = Call(op, s, n)]
    BY <1>4 DEF KmainCall
  <2>2. PICK g : g = Call(op, s, n)
    OBVIOUS
  <2>3. g \in Frame(n) /\ Placed(g) /\ g.n = n
    BY <1>0, <2>2, CallTyped DEF Call
  <2>4. Becomes("kmain", g)
    BY <1>0, <2>1, <2>2 DEF Becomes
  <2>5. FramesOK'
    BY <1>0, <2>3, <2>4, FramesKept
  <2>. QED BY <1>0, <1>4, <1>d, <2>5 DEF KmainCall, AtaTypeOK
<1>5. CASE IrqCall
  <2>1. PICK s \in IrqSector, n \in 1 .. MaxSectors :
          frame' = [frame EXCEPT !["irq"] = Call("read", s, n)]
    BY <1>5 DEF IrqCall
  <2>2. PICK g : g = Call("read", s, n)
    OBVIOUS
  <2>3. s \in Sector
    BY SizesAssumption DEF Sector
  <2>4. g \in Frame(n) /\ Placed(g) /\ g.n = n /\ g.op = "read"
    BY <1>0, <2>2, <2>3, CallTyped DEF Call
  <2>5. Becomes("irq", g)
    BY <1>0, <2>1, <2>2 DEF Becomes
  <2>6. FramesOK'
    BY <1>0, <2>4, <2>5, FramesKept
  <2>7. mixed' \in BOOLEAN
    BY <1>0, <1>5 DEF IrqCall, InTransfer
  <2>. QED BY <1>0, <1>5, <1>d, <2>6, <2>7 DEF IrqCall, AtaTypeOK
<1>6. CASE UNCHANGED vars
  BY <1>0, <1>6, <1>d, <1>f DEF vars, AtaTypeOK
<1>. QED BY <1>1, <1>2, <1>3, <1>4, <1>5, <1>6 DEF Next

-----------------------------------------------------------------------------
(* What every access of a call keeps, as long as nothing disturbs it *)

\* x is in the middle of a call, and no interrupt holds it up.
Acts(x) ==
  /\ frame[x].pc # "idle"
  /\ x = "kmain" => frame["irq"].pc = "idle"

LEMMA ActsRuns ==
  ASSUME NEW x \in Context, Acts(x), NEW g, Becomes(x, g)
  PROVE  /\ Runs = x
         /\ g.pc # "idle" => Runs' = x
         /\ HeldUp => HeldUp'
<1>1. x = "kmain" \/ x = "irq"
  BY DEF Context
<1>2. "kmain" \in Context /\ "irq" \in Context /\ "kmain" # "irq"
  BY DEF Context
<1>. QED BY <1>1, <1>2 DEF Acts, Becomes, Runs, HeldUp

\* g is the call f, later.
SameCall(f, g) ==
  /\ g.op = f.op /\ g.id = f.id /\ g.first = f.first /\ g.n = f.n

LEMMA SectorsKept ==
  ASSUME ReadSoFar, WrittenSoFar, NEW x \in Context, NEW g, Becomes(x, g),
         SameCall(frame[x], g), UNCHANGED disk,
         \A k \in Finished(g) :
           /\ g.op = "read" => g.buffer[k] = disk[g.first + k]
           /\ g.op = "write" /\ x = "kmain" => disk[g.first + k] = Full(g, k)
  PROVE  ReadSoFar' /\ WrittenSoFar'
<1>1. ReadSoFar'
  BY DEF ReadSoFar, Becomes, SameCall, Finished
<1>2. WrittenSoFar'
  <2>1. "kmain" \in Context
    BY DEF Context
  <2>2. CASE x = "kmain"
    BY <2>1, <2>2 DEF WrittenSoFar, Becomes, Finished, Full, Given
  <2>3. CASE x # "kmain"
    <3>1. frame'["kmain"] = frame["kmain"]
      BY <2>1, <2>3 DEF Becomes
    <3>2. \A k : Full(frame["kmain"], k)' = Full(frame["kmain"], k)
      BY <3>1 DEF Full, Given
    <3>3. Finished(frame["kmain"])' = Finished(frame["kmain"])
      BY <3>1 DEF Finished
    <3>. QED BY <3>1, <3>2, <3>3, Zenon DEF WrittenSoFar
  <2>. QED BY <2>2, <2>3
<1>. QED BY <1>1, <1>2

LEMMA StoresKept ==
  ASSUME Stores, NEW x \in Context, NEW g, Becomes(x, g),
         SameCall(frame[x], g), UNCHANGED disk,
         mode # "storing", mode' # "storing",
         x = "kmain" /\ g.pc \in {"flush", "flushed"}
           => frame[x].pc \in {"flush", "flushed"} /\ g.j = frame[x].j
  PROVE  Stores'
<1>1. "kmain" \in Context
  BY DEF Context
<1>2. CASE x = "kmain"
  <2>1. frame'["kmain"] = g
    BY <1>1, <1>2 DEF Becomes
  <2>2. g.pc \in {"flush", "flushed"} =>
          /\ Lba("kmain")' = Lba("kmain")
          /\ Full(g, g.j) = Full(frame["kmain"], frame["kmain"].j)
    BY <1>2, <2>1 DEF Lba, SameCall, Full, Given
  <2>. QED BY <1>2, <2>1, <2>2 DEF Stores
<1>3. CASE x # "kmain"
  <2>1. frame'["kmain"] = frame["kmain"]
    BY <1>1, <1>3 DEF Becomes
  <2>2. Lba("kmain")' = Lba("kmain")
    BY <2>1 DEF Lba
  <2>. QED BY <2>1, <2>2 DEF Stores
<1>. QED BY <1>2, <1>3

\* An access that stays with the sector and stores nothing.
LEMMA MovesUndisturbed ==
  ASSUME Undisturbed, NEW x \in Context, NEW to \in PC, NEW k, Moves(x, to, k),
         Acts(x), frame[x].pc # "done", to \notin {"idle", "done"},
         to \notin {"flush", "flushed"},
         UNCHANGED disk, mode # "storing", mode' # "storing", InStep(x)'
  PROVE  Undisturbed'
<1>1. PICK g : Becomes(x, g) /\ Continues(frame[x], g, to, k)
  BY DEF Moves
<1>2. g.pc # "idle" /\ SameCall(frame[x], g)
  BY <1>1 DEF Continues, SameCall
<1>3. Runs' = x /\ HeldUp'
  BY <1>1, <1>2, ActsRuns DEF Undisturbed
<1>4. Stores'
  BY <1>1, <1>2, StoresKept DEF Undisturbed, Continues
<1>5. Finished(g) = Finished(frame[x])
  BY <1>1 DEF Finished, Continues
<1>6. \A i \in Finished(g) :
        /\ g.op = "read" => g.buffer[i] = disk[g.first + i]
        /\ g.op = "write" /\ x = "kmain" => disk[g.first + i] = Full(g, i)
  BY <1>1, <1>5
  DEF Undisturbed, ReadSoFar, WrittenSoFar, Continues, Full, Given
<1>7. ReadSoFar' /\ WrittenSoFar'
  BY <1>1, <1>2, <1>6, SectorsKept DEF Undisturbed
<1>8. InStep(Runs)'
  BY <1>3
<1>. QED BY <1>3, <1>4, <1>7, <1>8 DEF Undisturbed

\* The registers of the sector a call is at stay what they should be.
LEMMA ValuesKept ==
  ASSUME NEW x \in Context, NEW to, NEW k, Moves(x, to, k)
  PROVE  /\ frame'[x].pc = to /\ frame'[x].i = k /\ frame'[x].op = frame[x].op
         /\ frame'[x].j = frame[x].j /\ frame'[x].buffer = frame[x].buffer
         /\ frame'[x].id = frame[x].id /\ Lba(x)' = Lba(x)
         /\ \A r : RegisterValue(x, r)' = RegisterValue(x, r)
<1>1. /\ frame'[x].pc = to /\ frame'[x].i = k /\ frame'[x].op = frame[x].op
      /\ frame'[x].j = frame[x].j /\ frame'[x].buffer = frame[x].buffer
      /\ frame'[x].id = frame[x].id /\ frame'[x].first = frame[x].first
  BY DEF Moves, Becomes, Continues
<1>2. Lba(x)' = Lba(x)
  BY <1>1 DEF Lba
<1>. QED BY <1>1, <1>2 DEF RegisterValue

LEMMA ActsInStep ==
  ASSUME Undisturbed, NEW x \in Context, Acts(x)
  PROVE  InStep(x)
BY DEF Undisturbed, Runs, Acts, Context

-----------------------------------------------------------------------------
(* The accesses, one by one *)

LEMMA WaitBusyStep ==
  ASSUME AtaTypeOK, Undisturbed, NEW x \in Context, WaitBusy(x)
  PROVE  Undisturbed'
<1>1. /\ Acts(x) /\ frame[x].pc = "wait" /\ ~Busy /\ UNCHANGED drive
  BY DEF WaitBusy, Wait, At, Acts
<1>2. PICK one \in Nat \ {0} : one = 1
  OBVIOUS
<1>3. Moves(x, "registers", 1)
  BY <1>2, Moved DEF WaitBusy, Wait, AtaTypeOK, PC
<1>4. mode = "idle"
  BY <1>1, ActsInStep DEF InStep, Busy
<1>5. frame'[x].pc = "registers" /\ frame'[x].i = 1
  BY <1>3, ValuesKept
<1>6. InStep(x)'
  BY <1>1, <1>4, <1>5 DEF InStep, Addressed, drive
<1>. QED
  BY <1>1, <1>3, <1>4, <1>6, MovesUndisturbed DEF PC, drive

\* The registers are five different ones.
LEMMA Registers ==
  /\ \A r \in 1 .. 5 : Register[r] \in RegisterNames
  /\ \A r, q \in 1 .. 5 : Register[r] = Register[q] => r = q
BY DEF Register, RegisterNames

LEMMA WriteRegisterStep ==
  ASSUME AtaTypeOK, Undisturbed, NEW x \in Context, WriteRegister(x)
  PROVE  Undisturbed'
<1>. DEFINE f == frame[x]
            n == f.i
<1>1. /\ Acts(x) /\ f.pc = "registers" /\ f \in Frame(f.n) /\ FramesOK
      /\ n \in 1 .. 5 /\ DOMAIN frame = Context
  BY DEF WriteRegister, At, Acts, AtaTypeOK, FramesOK, Frame, Placed, Counted
<1>2. mode = "idle" /\ Addressed(x, n - 1)
  BY <1>1, ActsInStep DEF InStep
<1>3. /\ regs' = [regs EXCEPT ![Register[n]] = RegisterValue(x, Register[n])]
      /\ UNCHANGED <<disk, mode>>
  BY <1>2 DEF WriteRegister, SetRegister, Ready, Busy, DataRequest
<1>4. regs \in [RegisterNames -> Nat]
  BY DEF AtaTypeOK, DriveTypeOK
<1>5. \A r \in 1 .. n : regs'[Register[r]] = RegisterValue(x, Register[r])
  BY <1>1, <1>2, <1>3, <1>4, Registers DEF Addressed
<1>6. CASE n < 5
  <2>1. PICK k \in Nat \ {0} : k = n + 1
    BY <1>1
  <2>2. frame' = [frame EXCEPT ![x].pc = "registers", ![x].i = k]
    <3>1. frame' = [frame EXCEPT ![x].i = k]
      BY <1>6, <2>1 DEF WriteRegister
    <3>. QED BY <1>1, <3>1 DEF Frame
  <2>3. Moves(x, "registers", k)
    BY <1>1, <2>2, Moved DEF PC
  <2>4. /\ frame'[x].pc = "registers" /\ frame'[x].i = k
        /\ \A r : RegisterValue(x, r)' = RegisterValue(x, r)
    BY <2>3, ValuesKept
  <2>5. ASSUME NEW r \in 1 .. k - 1
        PROVE  regs'[Register[r]] = RegisterValue(x, Register[r])'
    <3>1. r \in 1 .. n
      BY <1>1, <2>1
    <3>2. regs'[Register[r]] = RegisterValue(x, Register[r])
      BY <1>5, <3>1
    <3>. QED BY <2>4, <3>2
  <2>6. Addressed(x, frame[x].i - 1)'
    BY <2>4, <2>5 DEF Addressed
  <2>7. InStep(x)'
    BY <1>2, <1>3, <2>4, <2>6 DEF InStep
  <2>. QED
    BY <1>1, <1>2, <1>3, <2>1, <2>3, <2>7, MovesUndisturbed DEF PC
<1>7. CASE ~(n < 5)
  <2>1. PICK one \in Nat \ {0} : one = 1
    OBVIOUS
  <2>2. Moves(x, "command", 1)
    BY <1>1, <1>7, <2>1, Moved DEF WriteRegister, Goto, PC
  <2>3. /\ frame'[x].pc = "command"
        /\ \A r : RegisterValue(x, r)' = RegisterValue(x, r)
    BY <2>2, ValuesKept
  <2>4. n = 5
    BY <1>1, <1>7
  <2>5. Addressed(x, 5)'
    BY <1>5, <2>3, <2>4 DEF Addressed
  <2>6. InStep(x)'
    BY <1>2, <1>3, <2>3, <2>5 DEF InStep
  <2>. QED
    BY <1>1, <1>2, <1>3, <2>2, <2>6, MovesUndisturbed DEF PC
<1>. QED BY <1>6, <1>7

\* Where a sector lies below 2^28.
LEMMA LbaBelow ==
  ASSUME FramesOK, NEW x \in Context, frame[x].pc # "idle"
  PROVE  /\ Lba(x) \in Nat
         /\ Lba(x) < DevSize * (ByteSize * (ByteSize * ByteSize))
<1>1. frame[x] \in Frame(frame[x].n) /\ Located(frame[x])
  BY DEF FramesOK, Placed
<1>2. /\ frame[x].first \in Nat /\ frame[x].j \in Nat /\ frame[x].n \in Nat
      /\ frame[x].n <= MaxSectors /\ frame[x].j < frame[x].n
      /\ frame[x].first < DiskSize
  BY <1>1, SizesAssumption DEF Frame, Located
<1>3. Lba(x) \in Nat /\ Lba(x) < DiskSize + MaxSectors
  BY <1>2, SizesAssumption DEF Lba
<1>4. PICK s \in Nat, t \in Nat :
        /\ s = DiskSize + MaxSectors
        /\ t = DevSize * (ByteSize * (ByteSize * ByteSize))
  <2>1. PICK b \in Nat, d \in Nat : b = ByteSize /\ d = DevSize
    BY SizesAssumption
  <2>2. b * b \in Nat
    BY <2>1
  <2>. QED BY <2>1, <2>2, SizesAssumption
<1>. QED BY <1>3, <1>4, SizesAssumption

\* With the address in its registers, the drive goes to the sector the call
\* is at.
LEMMA AddressIsLba ==
  ASSUME FramesOK, NEW x \in Context, frame[x].op \in {"read", "write"},
         frame[x].pc # "idle", Addressed(x, 5)
  PROVE  Address = Lba(x)
<1>1. PICK lba \in Nat : lba = Lba(x)
  BY LbaBelow
<1>2. /\ regs["dev"] = Top(lba) /\ regs["low"] = Low(lba)
      /\ regs["mid"] = Mid(lba) /\ regs["high"] = High(lba)
  <2>1. /\ Register[1] = "dev" /\ Register[3] = "low"
        /\ Register[4] = "mid" /\ Register[5] = "high"
    BY DEF Register
  <2>2. /\ RegisterValue(x, "dev") = Top(lba) /\ RegisterValue(x, "low") = Low(lba)
        /\ RegisterValue(x, "mid") = Mid(lba) /\ RegisterValue(x, "high") = High(lba)
    BY <1>1 DEF RegisterValue
  <2>. QED BY <2>1, <2>2 DEF Addressed
<1>3. lba < DevSize * (ByteSize * (ByteSize * ByteSize))
  BY <1>1, LbaBelow
<1>. QED BY <1>1, <1>2, <1>3, AddressWhole DEF Address

LEMMA WriteCommandStep ==
  ASSUME AtaTypeOK, Undisturbed, NEW x \in Context, WriteCommand(x)
  PROVE  Undisturbed'
<1>1. /\ Acts(x) /\ frame[x].pc = "command" /\ FramesOK
      /\ frame[x].op \in {"read", "write", "identify"}
  BY DEF WriteCommand, At, Acts, AtaTypeOK, FramesOK, Frame, Placed, Located
<1>2. mode = "idle" /\ Addressed(x, 5)
  BY <1>1, ActsInStep DEF InStep
<1>3. /\ mode' = CASE frame[x].op = "read" -> "reading"
                   [] frame[x].op = "write" -> "preparing"
                   [] frame[x].op = "identify" -> "identifying"
      /\ target' = Address /\ UNCHANGED disk
  BY <1>2 DEF WriteCommand, SetCommand, Ready, Busy, DataRequest
<1>4. PICK one \in Nat \ {0} : one = 1
  OBVIOUS
<1>5. CASE frame[x].op = "identify"
  <2>1. Moves(x, "identified", 1)
    BY <1>1, <1>4, <1>5, Moved DEF WriteCommand, Goto, PC
  <2>2. frame'[x].pc = "identified"
    BY <2>1, ValuesKept
  <2>3. mode' = "identifying"
    BY <1>3, <1>5
  <2>4. InStep(x)'
    BY <2>2, <2>3 DEF InStep
  <2>. QED
    BY <1>1, <1>2, <1>3, <2>1, <2>3, <2>4, MovesUndisturbed DEF PC
<1>6. CASE frame[x].op \in {"read", "write"}
  <2>1. Moves(x, "request", 1)
    BY <1>1, <1>4, <1>6, Moved DEF WriteCommand, Goto, PC
  <2>2. frame'[x].pc = "request" /\ frame'[x].op = frame[x].op /\ Lba(x)' = Lba(x)
    BY <2>1, ValuesKept
  <2>3. target' = Lba(x)
    BY <1>1, <1>2, <1>3, <1>6, AddressIsLba
  <2>4. /\ frame[x].op = "read" => mode' = "reading"
        /\ frame[x].op = "write" => mode' = "preparing"
    BY <1>3
  <2>5. Requested(x)'
    BY <1>6, <2>2, <2>3, <2>4 DEF Requested
  <2>6. InStep(x)'
    BY <2>2, <2>5 DEF InStep
  <2>7. mode' # "storing"
    BY <1>6, <2>4
  <2>. QED
    BY <1>1, <1>2, <1>3, <2>1, <2>6, <2>7, MovesUndisturbed DEF PC
<1>. QED BY <1>1, <1>5, <1>6

LEMMA WaitIdentifiedStep ==
  ASSUME AtaTypeOK, Undisturbed, NEW x \in Context, WaitIdentified(x)
  PROVE  Undisturbed'
<1>1. /\ Acts(x) /\ frame[x].pc = "identified" /\ ~Busy /\ UNCHANGED drive
      /\ frame[x].op = "identify"
  BY DEF WaitIdentified, Wait, At, Acts, AtaTypeOK, FramesOK, Placed, Located
<1>2. PICK one \in Nat \ {0} : one = 1
  OBVIOUS
<1>3. Moves(x, "request", 1)
  BY <1>2, Moved DEF WaitIdentified, Wait, AtaTypeOK, PC
<1>4. mode = "out" /\ next = 1
  BY <1>1, ActsInStep DEF InStep, Busy
<1>5. frame'[x].pc = "request" /\ frame'[x].op = "identify"
  BY <1>1, <1>3, ValuesKept
<1>6. InStep(x)'
  BY <1>1, <1>4, <1>5 DEF InStep, Requested, drive
<1>. QED
  BY <1>1, <1>3, <1>4, <1>6, MovesUndisturbed DEF PC, drive

LEMMA WaitRequestStep ==
  ASSUME AtaTypeOK, Undisturbed, NEW x \in Context, WaitRequest(x)
  PROVE  Undisturbed'
<1>1. /\ Acts(x) /\ frame[x].pc = "request" /\ DataRequest /\ UNCHANGED drive
  BY DEF WaitRequest, Wait, At, Acts
<1>2. PICK one \in Nat \ {0} : one = 1
  OBVIOUS
<1>3. Moves(x, "words", 1)
  BY <1>2, Moved DEF WaitRequest, Wait, AtaTypeOK, PC
<1>4. Requested(x) /\ mode \in {"out", "in"}
  BY <1>1, ActsInStep DEF InStep, DataRequest
<1>5. /\ frame'[x].pc = "words" /\ frame'[x].op = frame[x].op
      /\ frame'[x].i = 1 /\ Lba(x)' = Lba(x)
  BY <1>3, ValuesKept
<1>6. Transferring(x)'
  BY <1>1, <1>4, <1>5 DEF Requested, Transferring, drive
<1>7. InStep(x)'
  BY <1>5, <1>6 DEF InStep
<1>8. mode # "storing" /\ mode' # "storing" /\ UNCHANGED disk
  BY <1>1, <1>4 DEF drive
<1>. QED
  BY <1>1, <1>3, <1>7, <1>8, MovesUndisturbed DEF PC

\* A word is read: the buffer holds the sector up to it.
LEMMA ReadWordStep ==
  ASSUME AtaTypeOK, Undisturbed, NEW x \in Context, ReadWord(x)
  PROVE  Undisturbed'
<1>1. PICK f : f = frame[x]
  OBVIOUS
<1>2. /\ Acts(x) /\ f.pc = "words" /\ f \in Frame(f.n) /\ f.j \in 0 .. f.n - 1
      /\ f.op \in {"read", "identify"} /\ f.i \in Word /\ FramesOK
  <2>1. /\ Acts(x) /\ f.pc = "words" /\ f.op \in {"read", "identify"} /\ FramesOK
    BY <1>1 DEF ReadWord, At, Acts, AtaTypeOK
  <2>2. f \in Frame(f.n) /\ Placed(f)
    BY <1>1, <2>1 DEF FramesOK
  <2>3. f.i \in Word
    BY <2>1, <2>2, SizesAssumption DEF Frame, Placed, Counted, Word
  <2>4. f.j \in 0 .. f.n - 1
    <3>1. f.j \in Nat /\ f.j < f.n /\ f.n \in 0 .. MaxSectors
      BY <2>1, <2>2 DEF Frame, Placed, Located
    <3>. QED BY <3>1, SizesAssumption
  <2>. QED BY <2>1, <2>2, <2>3, <2>4
<1>3. Transferring(x)
  BY <1>1, <1>2, ActsInStep DEF InStep
<1>4. mode = "out" /\ next = f.i
  BY <1>1, <1>2, <1>3 DEF Transferring
<1>5. PICK v : v = IF mode = "out" THEN data[next] ELSE NoWord
  OBVIOUS
<1>6. v = data[f.i]
  BY <1>4, <1>5
<1>6a. PICK g : TakesWord(x, f, v, g)
  BY <1>1, <1>5, WordRead, Zenon
<1>7. /\ Becomes(x, g)
      /\ g.buffer = [f.buffer EXCEPT ![f.j][f.i] = v]
      /\ f.i = Words => Passes(f, g)
      /\ f.i # Words => Continues([f EXCEPT !.buffer = g.buffer], g, "words", f.i + 1)
  BY <1>6a, Zenon DEF TakesWord
<1>8. /\ UNCHANGED <<disk, target, data>>
      /\ mode' = IF f.i = Words THEN "idle" ELSE "out"
      /\ f.i # Words => next' = f.i + 1
  BY <1>4 DEF ReadWord, Transfer
<1>9. SameCall(f, g) /\ g.pc \in {"words", "wait", "done"}
      /\ (f.i # Words => g.pc = "words" /\ g.j = f.j /\ g.i = f.i + 1)
  BY <1>2, <1>7 DEF Passes, Continues, SameCall, Frame
<1>10. Runs' = x /\ HeldUp'
  BY <1>2, <1>7, <1>9, ActsRuns DEF Undisturbed
<1>11. Stores'
  BY <1>1, <1>4, <1>7, <1>8, <1>9, StoresKept DEF Undisturbed
<1>12. f.buffer \in [0 .. f.n - 1 -> Content]
  BY <1>2 DEF Frame
<1>13. /\ \A k \in 0 .. f.n - 1 : k # f.j => g.buffer[k] = f.buffer[k]
       /\ g.buffer[f.j] = [f.buffer[f.j] EXCEPT ![f.i] = v]
       /\ f.buffer[f.j] \in Content
  BY <1>2, <1>7, <1>12
<1>14. f.op = "read" =>
         /\ target = Lba(x) /\ target \in Sector /\ data = disk[target]
         /\ \A w \in 1 .. f.i : g.buffer[f.j][w] = data[w]
  <2>. SUFFICES ASSUME f.op = "read"
                PROVE  /\ target = Lba(x) /\ target \in Sector
                       /\ data = disk[target]
                       /\ \A w \in 1 .. f.i : g.buffer[f.j][w] = data[w]
    OBVIOUS
  <2>1. /\ target = Lba(x) /\ target \in Sector /\ data = disk[target]
        /\ \A w \in 1 .. f.i - 1 : f.buffer[f.j][w] = data[w]
    BY <1>1, <1>3 DEF Transferring
  <2>2. \A w \in 1 .. f.i : w \in Word /\ (w # f.i => w \in 1 .. f.i - 1)
    BY <1>2, SizesAssumption DEF Word
  <2>. QED BY <1>2, <1>6, <1>13, <2>1, <2>2 DEF Content
<1>15. f.op = "read" /\ f.i = Words => g.buffer[f.j] = disk[f.first + f.j]
  <2>. SUFFICES ASSUME f.op = "read", f.i = Words
                PROVE  g.buffer[f.j] = disk[f.first + f.j]
    OBVIOUS
  <2>1. g.buffer[f.j] \in Content /\ data \in Content
    <3>1. v \in Value /\ data \in Content
      BY <1>2, <1>6 DEF AtaTypeOK, DriveTypeOK, Content
    <3>. QED BY <1>2, <1>13, <3>1 DEF Content
  <2>2. \A w \in Word : g.buffer[f.j][w] = data[w]
    BY <1>14 DEF Word
  <2>3. g.buffer[f.j] = data
    BY <2>1, <2>2 DEF Content
  <2>. QED BY <1>1, <1>14, <2>3 DEF Lba
<1>16. \A k \in Finished(g) :
         /\ g.op = "read" => g.buffer[k] = disk[g.first + k]
         /\ g.op = "write" /\ x = "kmain" => disk[g.first + k] = Full(g, k)
  <2>. SUFFICES ASSUME NEW k \in Finished(g), g.op = "read"
                PROVE  g.buffer[k] = disk[g.first + k]
    BY <1>2, <1>9 DEF SameCall
  <2>0. f.n \in Nat /\ f.j \in Nat
    BY <1>1, <1>2, SizesAssumption DEF FramesOK, Placed, Located, Frame
  <2>1. k \in 0 .. f.j /\ (k = f.j => f.i = Words)
    BY <1>2, <1>7, <1>9, <2>0 DEF Finished, Passes, SameCall
  <2>2. CASE k = f.j
    BY <1>9, <1>15, <2>1, <2>2 DEF SameCall
  <2>3. CASE k # f.j
    <3>1. k \in Finished(f) /\ k \in 0 .. f.n - 1
      BY <1>2, <2>0, <2>1, <2>3 DEF Finished
    <3>2. f.buffer[k] = disk[f.first + k]
      BY <1>1, <1>9, <3>1 DEF Undisturbed, ReadSoFar, SameCall
    <3>. QED BY <1>9, <1>13, <2>3, <3>1, <3>2 DEF SameCall
  <2>. QED BY <2>2, <2>3
<1>17. ReadSoFar' /\ WrittenSoFar'
  BY <1>1, <1>7, <1>8, <1>9, <1>16, SectorsKept DEF Undisturbed
<1>18. InStep(x)'
  <2>1. frame'[x] = g
    BY <1>7 DEF Becomes
  <2>2. CASE f.i = Words
    <3>1. g.pc \in {"wait", "done"} /\ mode' = "idle"
      BY <1>7, <1>8, <2>2 DEF Passes
    <3>. QED BY <2>1, <3>1 DEF InStep
  <2>3. CASE f.i # Words
    <3>1. g.pc = "words" /\ mode' = "out" /\ next' = g.i /\ g.j = f.j
          /\ g.op = f.op /\ g.first = f.first /\ g.i - 1 = f.i
      BY <1>2, <1>8, <1>9, <2>3 DEF SameCall, Frame
    <3>2. Lba(x)' = Lba(x)
      BY <1>1, <2>1, <3>1 DEF Lba
    <3>3. Transferring(x)'
      BY <1>2, <1>8, <1>14, <2>1, <3>1, <3>2 DEF Transferring
    <3>. QED BY <2>1, <3>1, <3>3 DEF InStep
  <2>. QED BY <2>2, <2>3
<1>19. InStep(Runs)'
  BY <1>10, <1>18
<1>. QED BY <1>10, <1>11, <1>17, <1>19 DEF Undisturbed

LEMMA OnlyKmainWrites ==
  ASSUME FramesOK, NEW x \in Context, frame[x].op = "write"
  PROVE  x = "kmain"
BY DEF FramesOK, Context

\* A word is written: the drive has the sector up to it, and stores it after
\* the last.
LEMMA WriteWordStep ==
  ASSUME AtaTypeOK, Undisturbed, NEW x \in Context, WriteWord(x)
  PROVE  Undisturbed'
<1>1. PICK f : f = frame[x]
  OBVIOUS
<1>2. /\ Acts(x) /\ f.pc = "words" /\ f \in Frame(f.n) /\ f.op = "write"
      /\ f.i \in Word /\ FramesOK /\ x = "kmain"
  <2>1. /\ Acts(x) /\ f.pc = "words" /\ f.op = "write" /\ FramesOK
    BY <1>1 DEF WriteWord, At, Acts, AtaTypeOK
  <2>2. f \in Frame(f.n) /\ Placed(f)
    BY <1>1, <2>1 DEF FramesOK
  <2>3. f.i \in Word
    BY <2>1, <2>2, SizesAssumption DEF Frame, Placed, Counted, Word
  <2>. QED BY <1>1, <2>1, <2>2, <2>3, OnlyKmainWrites
<1>3. /\ target = Lba(x) /\ target \in Sector /\ mode = "in" /\ next = f.i
      /\ \A w \in 1 .. f.i - 1 : data[w] = Given(f, f.j, w)
  BY <1>1, <1>2, ActsInStep DEF InStep, Transferring
<1>4. /\ UNCHANGED <<disk, target>>
      /\ data' = [data EXCEPT ![f.i] = Given(f, f.j, f.i)]
      /\ mode' = IF f.i = Words THEN "storing" ELSE "in"
      /\ f.i # Words => next' = f.i + 1
  BY <1>1, <1>3 DEF WriteWord, Transfer
<1>5. data \in Content
  BY DEF AtaTypeOK, DriveTypeOK
<1>6. \A w \in 1 .. f.i : data'[w] = Given(f, f.j, w)
  <2>1. \A w \in 1 .. f.i : w \in Word /\ (w # f.i => w \in 1 .. f.i - 1)
    BY <1>2, SizesAssumption DEF Word
  <2>. QED BY <1>2, <1>3, <1>4, <1>5, <2>1 DEF Content
<1>7. CASE f.i # Words
  <2>1. PICK k \in Nat \ {0} : k = f.i + 1
    BY <1>2 DEF Frame
  <2>2. frame' = [frame EXCEPT ![x].pc = "words", ![x].i = k]
    <3>1. frame' = [frame EXCEPT ![x].i = k]
      BY <1>1, <1>7, <2>1 DEF WriteWord, LastWord
    <3>2. DOMAIN frame = Context
      BY <1>2 DEF FramesOK
    <3>3. [f EXCEPT !.pc = "words", !.i = k] = [f EXCEPT !.i = k]
      BY <1>2 DEF Frame
    <3>. QED BY <1>1, <3>1, <3>2, <3>3
  <2>3. Moves(x, "words", k)
    BY <1>2, <2>2, Moved DEF PC
  <2>4. /\ frame'[x].pc = "words" /\ frame'[x].i = k /\ frame'[x].op = "write"
        /\ frame'[x].j = f.j /\ frame'[x].id = f.id /\ Lba(x)' = Lba(x)
    BY <1>1, <1>2, <2>3, ValuesKept
  <2>5. \A w \in 1 .. k - 1 : data'[w] = Given(frame'[x], frame'[x].j, w)
    BY <1>2, <1>6, <2>1, <2>4 DEF Given, Frame
  <2>6. Transferring(x)'
    BY <1>3, <1>4, <1>7, <2>1, <2>4, <2>5 DEF Transferring
  <2>7. InStep(x)'
    BY <2>4, <2>6 DEF InStep
  <2>. QED
    BY <1>1, <1>2, <1>3, <1>4, <1>7, <2>1, <2>3, <2>7, MovesUndisturbed DEF PC
<1>8. CASE f.i = Words
  <2>1. PICK one \in Nat \ {0} : one = 1
    OBVIOUS
  <2>2. Moves(x, "flush", 1)
    BY <1>1, <1>2, <1>8, <2>1, Moved DEF WriteWord, LastWord, Goto, PC
  <2>3. PICK g : Becomes(x, g) /\ Continues(f, g, "flush", 1)
    BY <1>1, <2>2 DEF Moves
  <2>4. g.pc = "flush" /\ g.j = f.j /\ SameCall(f, g) /\ frame'[x] = g
        /\ g.buffer = f.buffer
    BY <2>3 DEF Continues, SameCall, Becomes
  <2>5. Runs' = x /\ HeldUp'
    BY <1>2, <2>3, <2>4, ActsRuns DEF Undisturbed
  <2>6. data' = Full(g, g.j)
    <3>1. data' = [w \in Word |-> data'[w]]
      BY <1>4, <1>5 DEF Content
    <3>2. \A w \in Word : data'[w] = Given(g, g.j, w)
      BY <1>6, <1>8, <2>4 DEF Word, Given, SameCall
    <3>. QED BY <3>1, <3>2 DEF Full
  <2>7. Lba(x)' = Lba(x)
    BY <1>1, <2>4 DEF Lba, SameCall
  <2>8. frame'["irq"].pc = "idle"
    BY <1>2, <2>3 DEF Acts, Becomes, Context
  <2>9. Stores'
    BY <1>2, <1>3, <1>4, <1>8, <2>4, <2>6, <2>7, <2>8 DEF Stores
  <2>10. Finished(g) = Finished(f)
    BY <1>2, <2>4 DEF Finished
  <2>11. \A k \in Finished(g) :
           /\ g.op = "read" => g.buffer[k] = disk[g.first + k]
           /\ g.op = "write" /\ x = "kmain" => disk[g.first + k] = Full(g, k)
    BY <1>1, <1>2, <2>4, <2>10
    DEF Undisturbed, WrittenSoFar, SameCall, Full, Given
  <2>12. ReadSoFar' /\ WrittenSoFar'
    BY <1>1, <1>4, <2>3, <2>4, <2>11, SectorsKept DEF Undisturbed
  <2>13. InStep(x)'
    BY <1>4, <1>8, <2>4 DEF InStep
  <2>14. InStep(Runs)'
    BY <2>5, <2>13
  <2>. QED BY <2>5, <2>9, <2>12, <2>14 DEF Undisturbed
<1>. QED BY <1>7, <1>8

\* The flush: a drive that is storing takes no notice of it.
LEMMA WriteFlushStep ==
  ASSUME AtaTypeOK, Undisturbed, NEW x \in Context, WriteFlush(x)
  PROVE  Undisturbed'
<1>1. PICK f : f = frame[x]
  OBVIOUS
<1>2. /\ Acts(x) /\ f.pc = "flush" /\ f.op = "write" /\ FramesOK /\ x = "kmain"
  BY <1>1
  DEF WriteFlush, At, Acts, AtaTypeOK, FramesOK, Placed, Located, Context
<1>3. mode \in {"idle", "storing", "flushing"}
  BY <1>1, <1>2, ActsInStep DEF InStep
<1>4. /\ UNCHANGED <<disk, data>>
      /\ mode' = IF mode = "idle" THEN "flushing" ELSE mode
      /\ mode # "idle" => target' = target
  BY <1>3 DEF WriteFlush, SetCommand, Ready, Busy, DataRequest
<1>5. PICK one \in Nat \ {0} : one = 1
  OBVIOUS
<1>6. Moves(x, "flushed", 1)
  BY <1>1, <1>2, <1>5, Moved DEF WriteFlush, Goto, PC
<1>7. PICK g : Becomes(x, g) /\ Continues(f, g, "flushed", 1)
  BY <1>1, <1>6 DEF Moves
<1>8. g.pc = "flushed" /\ g.j = f.j /\ SameCall(f, g) /\ frame'[x] = g
      /\ g.buffer = f.buffer
  BY <1>7 DEF Continues, SameCall, Becomes
<1>9. Runs' = x /\ HeldUp'
  BY <1>2, <1>7, <1>8, ActsRuns DEF Undisturbed
<1>10. Lba(x)' = Lba(x) /\ Full(g, g.j) = Full(f, f.j)
  BY <1>1, <1>8 DEF Lba, SameCall, Full, Given
<1>11. frame'["irq"].pc = "idle"
  BY <1>2, <1>7 DEF Acts, Becomes, Context
<1>12. Stores'
  BY <1>1, <1>2, <1>3, <1>4, <1>8, <1>10, <1>11 DEF Undisturbed, Stores
<1>13. Finished(g) = Finished(f)
  BY <1>2, <1>8 DEF Finished
<1>14. \A k \in Finished(g) :
         /\ g.op = "read" => g.buffer[k] = disk[g.first + k]
         /\ g.op = "write" /\ x = "kmain" => disk[g.first + k] = Full(g, k)
  BY <1>1, <1>2, <1>8, <1>13
  DEF Undisturbed, WrittenSoFar, SameCall, Full, Given
<1>15. ReadSoFar' /\ WrittenSoFar'
  BY <1>1, <1>4, <1>7, <1>8, <1>14, SectorsKept DEF Undisturbed
<1>16. InStep(x)'
  BY <1>3, <1>4, <1>8 DEF InStep
<1>17. InStep(Runs)'
  BY <1>9, <1>16
<1>. QED BY <1>9, <1>12, <1>15, <1>17 DEF Undisturbed

\* Once the drive is no longer busy the sector is on the disk.
LEMMA WaitFlushedStep ==
  ASSUME AtaTypeOK, Undisturbed, NEW x \in Context, WaitFlushed(x)
  PROVE  Undisturbed'
<1>1. PICK f : f = frame[x]
  OBVIOUS
<1>2. /\ Acts(x) /\ f.pc = "flushed" /\ f.op = "write" /\ FramesOK /\ x = "kmain"
      /\ f \in Frame(f.n) /\ f.n \in Nat /\ f.j \in 0 .. f.n - 1
      /\ UNCHANGED drive
  <2>1. /\ Acts(x) /\ f.pc = "flushed" /\ FramesOK /\ UNCHANGED drive
    BY <1>1 DEF WaitFlushed, AfterFlush, At, Acts, AtaTypeOK
  <2>2. f \in Frame(f.n) /\ Located(f)
    BY <1>1, <2>1 DEF FramesOK, Placed
  <2>3. f.op = "write" /\ f.n \in Nat /\ f.j \in 0 .. f.n - 1
    BY <2>1, <2>2, SizesAssumption DEF Frame, Located
  <2>. QED BY <1>1, <2>1, <2>2, <2>3, OnlyKmainWrites
<1>3. mode = "idle"
  BY <1>1, <1>2, ActsInStep DEF InStep, WaitFlushed, Busy
<1>4. PICK g : Becomes(x, g) /\ Passes(f, g)
  BY <1>1, <1>2, FlushPassed DEF WaitFlushed
<1>5. SameCall(f, g) /\ g.pc \in {"wait", "done"} /\ frame'[x] = g
  BY <1>4 DEF Passes, SameCall, Becomes
<1>6. Runs' = x /\ HeldUp'
  BY <1>2, <1>4, <1>5, ActsRuns DEF Undisturbed
<1>7. Stores'
  BY <1>1, <1>2, <1>3, <1>4, <1>5, StoresKept DEF Undisturbed, drive
<1>8. disk[f.first + f.j] = Full(f, f.j)
  BY <1>1, <1>2, <1>3 DEF Undisturbed, Stores, Lba
<1>9. \A k \in Finished(g) :
         /\ g.op = "read" => g.buffer[k] = disk[g.first + k]
         /\ g.op = "write" /\ x = "kmain" => disk[g.first + k] = Full(g, k)
  <2>. SUFFICES ASSUME NEW k \in Finished(g)
                PROVE  disk[g.first + k] = Full(g, k)
    BY <1>2, <1>5 DEF SameCall
  <2>1. k = f.j \/ k \in Finished(f)
    BY <1>2, <1>4, <1>5 DEF Finished, Passes, SameCall
  <2>2. k = f.j => disk[f.first + k] = Full(f, k)
    BY <1>8
  <2>3. k \in Finished(f) => disk[f.first + k] = Full(f, k)
    BY <1>1, <1>2 DEF Undisturbed, WrittenSoFar
  <2>4. Full(g, k) = Full(f, k) /\ g.first = f.first
    BY <1>5 DEF Full, Given, SameCall
  <2>. QED BY <2>1, <2>2, <2>3, <2>4
<1>10. ReadSoFar' /\ WrittenSoFar'
  BY <1>1, <1>2, <1>4, <1>5, <1>9, SectorsKept DEF Undisturbed, drive
<1>11. InStep(x)'
  BY <1>2, <1>3, <1>5 DEF InStep, drive
<1>12. InStep(Runs)'
  BY <1>6, <1>11
<1>. QED BY <1>6, <1>7, <1>10, <1>12 DEF Undisturbed

\* A call returns, the interrupt's to a kmain that has nothing in the drive.
LEMMA ReturnStep ==
  ASSUME AtaTypeOK, Undisturbed, NEW x \in Context, Return(x)
  PROVE  Undisturbed'
<1>1. /\ Acts(x) /\ frame[x].pc = "done" /\ UNCHANGED drive
      /\ DOMAIN frame = Context /\ "kmain" \in Context /\ "irq" \in Context
  BY DEF Return, At, Acts, AtaTypeOK, FramesOK, Context
<1>2. mode = "idle"
  BY <1>1, ActsInStep DEF InStep
<1>3. frame'[x] = Idle /\ \A y \in Context \ {x} : frame'[y] = frame[y]
  BY <1>1 DEF Return
<1>4. Idle.pc = "idle" /\ Idle.op = "none"
  BY DEF Idle
<1>5. ReadSoFar' /\ WrittenSoFar'
  <2>1. ReadSoFar'
    BY <1>1, <1>3, <1>4 DEF Undisturbed, ReadSoFar, Finished, drive
  <2>2. WrittenSoFar'
    BY <1>1, <1>3, <1>4
    DEF Undisturbed, WrittenSoFar, Finished, drive, Full, Given
  <2>. QED BY <2>1, <2>2
<1>6. Stores'
  <2>1. CASE x = "kmain"
    BY <1>1, <1>2, <1>3, <1>4, <2>1 DEF Stores, drive
  <2>2. CASE x # "kmain"
    <3>1. frame'["kmain"] = frame["kmain"]
      BY <1>1, <1>3, <2>2
    <3>. QED
      BY <1>1, <1>2, <3>1 DEF Undisturbed, Stores, Lba, Full, Given, drive
  <2>. QED BY <2>1, <2>2
<1>7. CASE x = "kmain"
  <2>1. frame'["irq"].pc = "idle" /\ frame'["kmain"] = Idle
    BY <1>1, <1>3, <1>7 DEF Acts
  <2>2. HeldUp' /\ Runs' = "kmain"
    BY <2>1 DEF HeldUp, Runs
  <2>3. InStep("kmain")'
    BY <1>1, <1>2, <1>4, <2>1 DEF InStep, drive
  <2>. QED BY <1>5, <1>6, <2>2, <2>3 DEF Undisturbed
<1>8. CASE x = "irq"
  <2>1. frame'["irq"] = Idle /\ frame'["kmain"] = frame["kmain"]
    BY <1>1, <1>3, <1>8
  <2>2. HeldUp' /\ Runs' = "kmain"
    BY <1>4, <2>1 DEF HeldUp, Runs
  <2>3. \/ frame["kmain"].pc \in {"idle", "wait", "flush", "flushed", "done"}
        \/ frame["kmain"].pc = "registers" /\ frame["kmain"].i = 1
    BY <1>1, <1>8 DEF Undisturbed, HeldUp, Acts
  <2>4. InStep("kmain")'
    BY <1>1, <1>2, <2>1, <2>3 DEF InStep, Addressed, drive
  <2>. QED BY <1>5, <1>6, <2>2, <2>4 DEF Undisturbed
<1>. QED BY <1>7, <1>8 DEF Context

LEMMA KmainCallStep ==
  ASSUME AtaTypeOK, Undisturbed, KmainCall
  PROVE  Undisturbed'
<1>1. /\ frame["kmain"].pc = "idle" /\ frame["irq"].pc = "idle" /\ UNCHANGED drive
      /\ DOMAIN frame = Context /\ "kmain" \in Context /\ "irq" \in Context
  BY DEF KmainCall, At, AtaTypeOK, FramesOK, Context
<1>2. PICK g : frame' = [frame EXCEPT !["kmain"] = g]
               /\ g.pc = "wait" /\ g.j = 0
  <2>1. PICK op \in {"read", "write"}, s \in Sector, n \in 1 .. MaxSectors :
          frame' = [frame EXCEPT !["kmain"] = Call(op, s, n)]
    BY DEF KmainCall
  <2>2. Call(op, s, n).pc = "wait" /\ Call(op, s, n).j = 0
    BY DEF Call
  <2>. QED BY <2>1, <2>2
<1>3. frame'["kmain"] = g /\ frame'["irq"] = frame["irq"]
  BY <1>1, <1>2 DEF Context
<1>4. mode = "idle"
  BY <1>1 DEF Undisturbed, Runs, InStep
<1>5. Finished(g) = {}
  BY <1>2 DEF Finished
<1>6. ReadSoFar' /\ WrittenSoFar'
  <2>1. \A y \in Context : y # "kmain" => frame'[y] = frame[y]
    BY <1>1, <1>2
  <2>2. ReadSoFar'
    BY <1>1, <1>3, <1>5, <2>1 DEF Undisturbed, ReadSoFar, Finished, drive
  <2>3. WrittenSoFar'
    BY <1>3, <1>5 DEF WrittenSoFar, Finished
  <2>. QED BY <2>2, <2>3
<1>7. Stores'
  BY <1>1, <1>2, <1>3, <1>4 DEF Stores, drive
<1>8. HeldUp' /\ Runs' = "kmain"
  BY <1>1, <1>3 DEF HeldUp, Runs
<1>9. InStep("kmain")'
  BY <1>1, <1>2, <1>3, <1>4 DEF InStep, drive
<1>. QED BY <1>6, <1>7, <1>8, <1>9 DEF Undisturbed

\* A command of the interrupt that does not come into a transfer.
LEMMA IrqCallStep ==
  ASSUME AtaTypeOK, Undisturbed, IrqCall, ~mixed'
  PROVE  Undisturbed'
<1>. DEFINE f == frame["kmain"]
<1>1. /\ frame["irq"].pc = "idle" /\ f.op # "identify" /\ ~InTransfer
      /\ UNCHANGED drive
      /\ DOMAIN frame = Context /\ "kmain" \in Context /\ "irq" \in Context
  BY DEF IrqCall, AtaTypeOK, FramesOK, Context
<1>2. PICK g : frame' = [frame EXCEPT !["irq"] = g]
               /\ g.pc = "wait" /\ g.j = 0
  <2>1. PICK s \in IrqSector, n \in 1 .. MaxSectors :
          frame' = [frame EXCEPT !["irq"] = Call("read", s, n)]
    BY DEF IrqCall
  <2>2. Call("read", s, n).pc = "wait" /\ Call("read", s, n).j = 0
    BY DEF Call
  <2>. QED BY <2>1, <2>2
<1>3. frame'["irq"] = g /\ frame'["kmain"] = f
  BY <1>1, <1>2 DEF Context
<1>4. f \in Frame(f.n) /\ Placed(f)
  BY <1>1 DEF AtaTypeOK, FramesOK
<1>5. \/ f.pc \in {"idle", "wait", "flush", "flushed", "done"}
      \/ f.pc = "registers" /\ f.i = 1
  <2>1. f.pc # "identified"
    BY <1>1, <1>4 DEF Placed, Located
  <2>2. f.i \in Nat \ {0} /\ f.pc \in PC
    BY <1>4 DEF Frame
  <2>. QED BY <1>1, <2>1, <2>2 DEF InTransfer, PC
<1>6. InStep("kmain")
  BY <1>1 DEF Undisturbed, Runs
<1>7. mode \in {"idle", "storing", "flushing"}
  BY <1>5, <1>6 DEF InStep
<1>8. Finished(g) = {}
  BY <1>2 DEF Finished
<1>9. ReadSoFar' /\ WrittenSoFar'
  <2>1. \A y \in Context : y # "irq" => frame'[y] = frame[y]
    BY <1>1, <1>2
  <2>2. ReadSoFar'
    BY <1>1, <1>3, <1>8, <2>1 DEF Undisturbed, ReadSoFar, Finished, drive
  <2>3. WrittenSoFar'
    BY <1>1, <1>3 DEF Undisturbed, WrittenSoFar, Finished, Full, Given, drive
  <2>. QED BY <2>2, <2>3
<1>10. Stores'
  BY <1>1, <1>2, <1>3 DEF Undisturbed, Stores, Lba, Full, Given, drive
<1>11. HeldUp' /\ Runs' = "irq"
  BY <1>1, <1>2, <1>3, <1>5 DEF HeldUp, Runs
<1>12. InStep("irq")'
  BY <1>1, <1>2, <1>3, <1>7 DEF InStep, drive
<1>. QED BY <1>9, <1>10, <1>11, <1>12 DEF Undisturbed

\* The drive goes on with its command.
LEMMA DriveStep ==
  ASSUME AtaTypeOK, Undisturbed, Drive
  PROVE  Undisturbed'
<1>. DEFINE f == frame["kmain"]
<1>1. PICK x : x = Runs
  OBVIOUS
<1>2. x \in Context /\ InStep(x) /\ UNCHANGED frame /\ Runs' = x /\ HeldUp'
      /\ "kmain" \in Context /\ "irq" \in Context
  BY <1>1 DEF Undisturbed, Runs, Context, Drive, HeldUp
<1>3. /\ frame[x] \in Frame(frame[x].n) /\ Placed(frame[x])
      /\ f \in Frame(f.n) /\ Located(f)
  BY <1>2 DEF AtaTypeOK, FramesOK, Placed
<1>4. frame[x].pc \in PC
  BY <1>3 DEF Frame
<1>5. UNCHANGED disk /\ mode # "storing" /\ mode' # "storing"
        => ReadSoFar' /\ WrittenSoFar' /\ Stores'
  <2>. SUFFICES ASSUME UNCHANGED disk, mode # "storing", mode' # "storing"
                PROVE  ReadSoFar' /\ WrittenSoFar' /\ Stores'
    OBVIOUS
  <2>1. ReadSoFar' /\ WrittenSoFar'
    BY <1>2 DEF Undisturbed, ReadSoFar, WrittenSoFar, Finished, Full, Given
  <2>2. Stores'
    BY <1>2 DEF Undisturbed, Stores, Lba, Full, Given
  <2>. QED BY <2>1, <2>2
<1>6. CASE DrivePresents
  <2>1. mode # "storing" /\ mode' # "storing" /\ UNCHANGED disk
    BY <1>6 DEF DrivePresents
  <2>2. \/ mode = "identifying" /\ frame[x].pc = "identified"
        \/ mode \in {"reading", "preparing"} /\ frame[x].pc = "request"
    BY <1>2, <1>4, <1>6
    DEF InStep, Requested, Transferring, DrivePresents, PC
  <2>3. CASE mode = "identifying"
    <3>1. mode' = "out" /\ next' = 1
      BY <1>6, <2>3 DEF DrivePresents
    <3>2. InStep(x)'
      BY <1>2, <2>2, <2>3, <3>1 DEF InStep
    <3>. QED BY <1>2, <1>5, <2>1, <3>2 DEF Undisturbed
  <2>4. CASE mode \in {"reading", "preparing"}
    <3>1. Requested(x) /\ frame[x].pc = "request"
      BY <1>2, <2>2, <2>4 DEF InStep
    <3>2. /\ target' = target /\ target \in Sector /\ next' = 1
          /\ mode = "reading" => mode' = "out" /\ data' = disk[target]
          /\ mode = "preparing" => mode' = "in"
      BY <1>6, <2>4 DEF DrivePresents
    <3>3. Lba(x)' = Lba(x)
      BY <1>2 DEF Lba
    <3>4. Requested(x)'
      BY <1>2, <2>1, <2>4, <3>1, <3>2, <3>3 DEF Requested
    <3>5. InStep(x)'
      BY <1>2, <3>1, <3>4 DEF InStep
    <3>. QED BY <1>2, <1>5, <2>1, <3>5 DEF Undisturbed
  <2>. QED BY <2>2, <2>3, <2>4
<1>7. CASE DriveFails
  <2>1. /\ mode \in {"reading", "preparing"} /\ target \notin Sector
        /\ mode' = "idle" /\ UNCHANGED <<disk, target>>
    BY <1>7 DEF DriveFails
  <2>2. frame[x].pc = "request" /\ Requested(x)
    BY <1>2, <1>4, <2>1 DEF InStep, Transferring, PC
  <2>3. Lba(x)' = Lba(x)
    BY <1>2 DEF Lba
  <2>4. Requested(x)'
    BY <1>2, <2>1, <2>2, <2>3 DEF Requested
  <2>5. InStep(x)'
    BY <1>2, <2>2, <2>4 DEF InStep
  <2>. QED BY <1>2, <1>5, <2>1, <2>5 DEF Undisturbed
<1>8. CASE DriveStores
  <2>1. /\ mode = "storing" /\ mode' = "idle"
        /\ disk' = [disk EXCEPT ![target] = data]
    BY <1>8 DEF DriveStores
  <2>2. /\ f.pc \in {"flush", "flushed"} /\ f.op = "write"
        /\ target = Lba("kmain") /\ data = Full(f, f.j) /\ target \in Sector
        /\ \/ frame["irq"].pc = "idle"
           \/ frame["irq"].pc = "wait" /\ frame["irq"].j = 0
    BY <1>3, <2>1 DEF Undisturbed, Stores, Located
  <2>3. disk'[target] = Full(f, f.j)
        /\ \A s \in Sector : s # target => disk'[s] = disk[s]
    BY <2>1, <2>2 DEF AtaTypeOK, DriveTypeOK
  <2>4. Stores'
    <3>1. Lba("kmain")' = Lba("kmain") /\ Full(f, f.j)' = Full(f, f.j)
      BY <1>2 DEF Lba, Full, Given
    <3>. QED BY <1>2, <2>1, <2>2, <2>3, <3>1 DEF Stores
  <2>5. ReadSoFar'
    <3>1. ASSUME NEW y \in Context, frame[y].op = "read"
          PROVE  Finished(frame[y]) = {}
      <4>1. y = "irq"
        BY <2>2, <3>1 DEF Context
      <4>2. frame[y].pc # "idle"
        BY <3>1 DEF AtaTypeOK, FramesOK, Placed, Located
      <4>. QED BY <2>2, <4>1, <4>2 DEF Finished
    <3>. QED BY <1>2, <3>1 DEF ReadSoFar, Finished
  <2>6. WrittenSoFar'
    <3>. SUFFICES ASSUME NEW k \in Finished(f)
                  PROVE  disk'[f.first + k] = Full(f, k)
      BY <1>2 DEF WrittenSoFar, Finished, Full, Given
    <3>1. k \in 0 .. f.j - 1 /\ f.j \in Nat /\ f.first \in Nat
      BY <1>3, <2>2 DEF Finished, Frame
    <3>2. f.first + k \in Sector /\ f.first + k # target
      BY <2>2, <3>1, SizesAssumption DEF Sector, Lba
    <3>3. disk[f.first + k] = Full(f, k)
      BY <2>2 DEF Undisturbed, WrittenSoFar
    <3>. QED BY <2>3, <3>2, <3>3
  <2>7. InStep(x)'
    <3>1. frame[x].pc \in {"flush", "flushed", "wait"}
      BY <1>1, <2>2 DEF Runs
    <3>. QED BY <1>2, <2>1, <3>1 DEF InStep
  <2>. QED BY <1>2, <2>4, <2>5, <2>6, <2>7 DEF Undisturbed
<1>9. CASE DriveFlushes
  <2>1. mode = "flushing" /\ mode' = "idle" /\ UNCHANGED disk
    BY <1>9 DEF DriveFlushes
  <2>2. frame[x].pc \in {"wait", "flush", "flushed"}
    BY <1>2, <1>4, <2>1 DEF InStep, Requested, Transferring, PC
  <2>3. InStep(x)'
    BY <1>2, <2>1, <2>2 DEF InStep
  <2>. QED BY <1>2, <1>5, <2>1, <2>3 DEF Undisturbed
<1>. QED BY <1>6, <1>7, <1>8, <1>9 DEF Drive

-----------------------------------------------------------------------------
(* Theorems *)

LEMMA InitInv == Init => IInv
<1>. SUFFICES ASSUME Init PROVE IInv
  OBVIOUS
<1>. DEFINE k == frame["kmain"]
<1>1. /\ DOMAIN frame = Context /\ "kmain" \in Context /\ "irq" \in Context
      /\ k = [Idle EXCEPT !.pc = "registers", !.op = "identify",
                          !.n = 1, !.buffer = [i \in {0} |-> NoData]]
      /\ frame["irq"] = Idle
  BY DEF Init, Context
<1>2. /\ k.pc = "registers" /\ k.op = "identify" /\ k.id = 0 /\ k.first = 0
      /\ k.n = 1 /\ k.j = 0 /\ k.i = 1 /\ k.buffer = [i \in {0} |-> NoData]
  BY <1>1 DEF Idle
<1>3. k \in Frame(1)
  <2>1. NoData \in Content
    BY DEF NoData, Content, Value
  <2>2. 0 .. 1 - 1 = {0}
    OBVIOUS
  <2>3. PICK b : b = [i \in {0} |-> NoData]
    OBVIOUS
  <2>4. b \in [0 .. 1 - 1 -> Content]
    BY <2>1, <2>2, <2>3
  <2>5. PICK one \in Nat \ {0} : one = 1
    OBVIOUS
  <2>6. k = [Idle EXCEPT !.pc = "registers", !.op = "identify",
                         !.n = one, !.buffer = b]
    BY <1>1, <2>3, <2>5
  <2>7. Idle = [pc |-> "idle", op |-> "none", id |-> 0, first |-> 0, n |-> 0,
                j |-> 0, i |-> one, buffer |-> <<>>]
    BY <2>5 DEF Idle
  <2>8. k = [pc |-> "registers", op |-> "identify", id |-> 0, first |-> 0,
             n |-> one, j |-> 0, i |-> one, buffer |-> b]
    BY <2>6, <2>7
  <2>9. "registers" \in PC
    BY DEF PC
  <2>. QED BY <2>4, <2>5, <2>8, <2>9 DEF Frame
<1>4. Placed(k)
  BY <1>2, SizesAssumption DEF Placed, Located, Counted
<1>5. FramesOK
  <2>1. "irq" # "kmain" /\ Context = {"kmain", "irq"}
    BY DEF Context
  <2>. QED BY <1>1, <1>2, <1>3, <1>4, <2>1, IdleTyped DEF FramesOK
<1>6. DriveTypeOK
  <2>1. disk \in [Sector -> Content]
    <3>1. \A s \in Sector, w \in Word : <<"disk", s, w>> \in Value
      BY SizesAssumption DEF Sector, Word, Value
    <3>. QED BY <3>1 DEF Init, Content
  <2>2. data \in Content
    BY DEF Init, NoData, Content, Value
  <2>3. regs \in [RegisterNames -> Nat]
    BY DEF Init
  <2>4. next \in Word /\ target \in Nat
    BY SizesAssumption DEF Init, Word
  <2>5. mode = "idle"
    BY DEF Init
  <2>. QED BY <2>1, <2>2, <2>3, <2>4, <2>5 DEF DriveTypeOK
<1>7. Idle.pc = "idle" /\ Idle.op = "none"
  BY DEF Idle
<1>8. Undisturbed
  <2>1. mode = "idle"
    BY DEF Init
  <2>2. Runs = "kmain" /\ HeldUp /\ Stores
    BY <1>1, <1>2, <1>7, <2>1 DEF Runs, HeldUp, Stores
  <2>3. InStep("kmain")
    BY <1>2, <2>1 DEF InStep, Addressed
  <2>4. ReadSoFar /\ WrittenSoFar
    BY <1>1, <1>2, <1>7 DEF ReadSoFar, WrittenSoFar, Context
  <2>. QED BY <2>2, <2>3, <2>4 DEF Undisturbed
<1>9. calls \in Nat /\ mixed \in BOOLEAN
  BY DEF Init
<1>. QED BY <1>5, <1>6, <1>8, <1>9 DEF IInv, AtaTypeOK

\* The inductive invariant: the drive is at every moment where the call that
\* runs expects it, an interrupted call has nothing in it but what it stores,
\* and the sectors a call has passed are those that were asked for.
THEOREM Invariance == Spec => []IInv
<1>1. IInv /\ [Next]_vars => IInv'
  <2>. SUFFICES ASSUME IInv, [Next]_vars PROVE IInv'
    OBVIOUS
  <2>1. AtaTypeOK /\ AtaTypeOK'
    BY TypesKept DEF IInv
  <2>2. SUFFICES ASSUME ~mixed' PROVE Undisturbed'
    BY <2>1 DEF IInv
  <2>3. CASE Drive
    BY <2>1, <2>2, <2>3, DriveStep DEF IInv, Drive
  <2>4. ASSUME NEW x \in Context, Access(x) PROVE Undisturbed'
    <3>1. Undisturbed
      BY <2>2, <2>4 DEF IInv, Access
    <3>. QED
      BY <2>1, <2>4, <3>1, WaitBusyStep, WriteRegisterStep, WriteCommandStep,
         WaitIdentifiedStep, WaitRequestStep, ReadWordStep, WriteWordStep,
         WriteFlushStep, WaitFlushedStep
      DEF Access
  <2>5. ASSUME NEW x \in Context, Return(x) PROVE Undisturbed'
    BY <2>1, <2>2, <2>5, ReturnStep DEF IInv, Return
  <2>6. CASE KmainCall
    BY <2>1, <2>2, <2>6, KmainCallStep DEF IInv, KmainCall
  <2>7. CASE IrqCall
    <3>1. ~mixed
      BY <2>2, <2>7 DEF IrqCall
    <3>. QED BY <2>1, <2>2, <2>7, <3>1, IrqCallStep DEF IInv
  <2>8. CASE UNCHANGED vars
    <3>1. /\ UNCHANGED <<disk, regs, mode, target, data, next, frame>>
          /\ Undisturbed
      BY <2>2, <2>8 DEF vars, drive, IInv
    <3>2. HeldUp' /\ Stores' /\ ReadSoFar' /\ WrittenSoFar'
      BY <3>1 DEF Undisturbed, HeldUp, Stores, ReadSoFar, WrittenSoFar, Lba,
                  Finished, Full, Given
    <3>3. PICK x : x = Runs
      OBVIOUS
    <3>4. InStep(x) /\ Runs' = x
      BY <3>1, <3>3 DEF Undisturbed, Runs
    <3>5. Lba(x)' = Lba(x) /\ \A r : RegisterValue(x, r)' = RegisterValue(x, r)
      BY <3>1 DEF Lba, RegisterValue
    <3>6. /\ (\A n : Addressed(x, n)' = Addressed(x, n))
          /\ Requested(x)' = Requested(x)
          /\ Transferring(x)' = Transferring(x)
      BY <3>1, <3>5 DEF Addressed, Requested, Transferring, Given
    <3>7. InStep(x)'
      BY <3>1, <3>4, <3>6 DEF InStep
    <3>. QED BY <3>2, <3>4, <3>7 DEF Undisturbed
  <2>. QED BY <2>3, <2>4, <2>5, <2>6, <2>7, <2>8 DEF Next
<1>. QED BY <1>1, InitInv, PTL DEF Spec

\* A read returns the words of the sectors asked for, in order, wherever the
\* interrupt reads in between but in the middle of a transfer (ata.c:75-95,
\* 121-129).
THEOREM ReadsAreExact == Spec => []ReadIsExact
<1>1. IInv => ReadIsExact
  BY DEF IInv, Undisturbed, ReadSoFar, Finished, ReadIsExact
<1>. QED BY <1>1, Invariance, PTL

\* When write returns, its sectors are on the disk (ata.c:97-119, 131-138).
THEOREM WritesAreComplete == Spec => []WriteIsComplete
<1>1. IInv => WriteIsComplete
  BY DEF IInv, Undisturbed, WrittenSoFar, Finished, WriteIsComplete, Full
<1>. QED BY <1>1, Invariance, PTL

\* The disk changes only in the sector a write is at, and that as a whole.
THEOREM OthersUntouched == Spec => OnlyAskedSectorChanges
<1>1. IInv /\ [Next]_vars =>
        [\A s \in Sector :
           disk'[s] # disk[s] /\ ~mixed =>
             LET f == frame["kmain"] IN
             /\ f.op = "write" /\ f.pc \in {"flush", "flushed"}
             /\ s = f.first + f.j
             /\ disk'[s] = [i \in Word |-> Given(f, f.j, i)]]_vars
  <2>. SUFFICES ASSUME IInv, [Next]_vars, NEW s \in Sector, disk'[s] # disk[s],
                       ~mixed
                PROVE  LET f == frame["kmain"] IN
                       /\ f.op = "write" /\ f.pc \in {"flush", "flushed"}
                       /\ s = f.first + f.j
                       /\ disk'[s] = [i \in Word |-> Given(f, f.j, i)]
    OBVIOUS
  <2>1. DriveStores
    BY DEF Next, Drive, DrivePresents, DriveFails, DriveFlushes, Access, Return,
           KmainCall, IrqCall, WaitBusy, WriteRegister, WriteCommand,
           WaitIdentified, WaitRequest, ReadWord, WriteWord, WriteFlush,
           WaitFlushed, AfterFlush, Wait, SetRegister, SetCommand, vars, drive
  <2>2. Stores /\ mode = "storing" /\ disk' = [disk EXCEPT ![target] = data]
    BY <2>1 DEF IInv, Undisturbed, DriveStores
  <2>3. s = target /\ disk'[s] = data
    BY <2>2 DEF IInv, AtaTypeOK, DriveTypeOK
  <2>4. frame["kmain"].pc \in {"flush", "flushed"}
        => frame["kmain"].op = "write"
    BY DEF IInv, AtaTypeOK, FramesOK, Placed, Located, Context
  <2>. QED BY <2>2, <2>3, <2>4 DEF Stores, Lba, Full
<1>. QED BY <1>1, Invariance, PTL DEF Spec, OnlyAskedSectorChanges

=============================================================================
