-------------------------- MODULE Keyboard_proofs ---------------------------
(***************************************************************************)
(* The ring buffer of the keyboard implements a bounded queue, for every   *)
(* size of the buffer and every set of keys.                               *)
(***************************************************************************)
EXTENDS Keyboard, TLAPS

KeyboardTypeOK ==
  /\ shift_pressed \in BOOLEAN /\ caps_lock \in BOOLEAN
  /\ kb_buffer \in [Index -> Char \cup {NoChar}]
  /\ kb_buffer_read \in Index /\ kb_buffer_write \in Index
  /\ pc \in {"idle", "loaded"}
  /\ c \in Char \cup {NoChar} /\ got \in Char \cup {NoChar}

IInv == KeyboardTypeOK /\ LoadedIsHead

\* What the wrap of an index gives.
LEMMA SuccIndex ==
  ASSUME NEW i \in Index
  PROVE  Succ(i) \in Index
BY SizeAssumption DEF Succ, Index

\* The indexes, the buffer and the reader's local hold what they should, and
\* a loaded character is the head of the queue.
THEOREM KeyboardInductive == Spec => []IInv
<1>1. Init => IInv
  <2>. SUFFICES ASSUME Init PROVE IInv
    OBVIOUS
  <2>1. shift_pressed \in BOOLEAN /\ caps_lock \in BOOLEAN
    BY DEF Init
  <2>2. /\ kb_buffer_read \in Index /\ kb_buffer_write \in Index
        /\ kb_buffer \in [Index -> Char \cup {NoChar}]
    BY SizeAssumption DEF Init, Index
  <2>3. /\ pc \in {"idle", "loaded"} /\ pc # "loaded"
        /\ c \in Char \cup {NoChar} /\ got \in Char \cup {NoChar}
    BY DEF Init
  <2>. QED BY <2>1, <2>2, <2>3 DEF IInv, KeyboardTypeOK, LoadedIsHead
<1>2. IInv /\ [Next]_vars => IInv'
  <2>. SUFFICES ASSUME IInv, [Next]_vars PROVE IInv'
    OBVIOUS
  <2>. USE DEF IInv, KeyboardTypeOK, LoadedIsHead
  <2>1. CASE PressShift \/ ReleaseShift \/ PressCapsLock \/ IgnoreCode
    BY <2>1 DEF PressShift, ReleaseShift, PressCapsLock, IgnoreCode, Take,
                buffer, reader
  <2>2. CASE Type
    BY <2>2 DEF Type, TypeShift, LetGoOfShift, TypeCapsLock, TypeKey, Emit,
                buffer, reader
  <2>3. CASE PressKey
    <3>1. PICK ch \in Char : Put(ch)
      BY <2>3 DEF PressKey, Character, Char
    <3>2. UNCHANGED <<shift_pressed, caps_lock, reader>>
      BY <2>3 DEF PressKey, Take
    <3>3. CASE HasRoom
      BY <3>1, <3>2, <3>3, SuccIndex DEF Put, HasRoom, reader
    <3>4. CASE ~HasRoom
      BY <3>1, <3>2, <3>4 DEF Put, reader, buffer
    <3>. QED BY <3>3, <3>4
  <2>4. CASE ReturnNone
    BY <2>4 DEF ReturnNone, buffer
  <2>5. CASE LoadChar
    <3>1. c' \in Char \cup {NoChar}
      BY <2>5 DEF LoadChar
    <3>. QED BY <2>5, <3>1 DEF LoadChar, buffer
  <2>6. CASE ReturnChar
    BY <2>6, SuccIndex DEF ReturnChar
  <2>7. CASE UNCHANGED vars
    BY <2>7 DEF vars, buffer, reader
  <2>. QED
    BY <2>1, <2>2, <2>3, <2>4, <2>5, <2>6, <2>7
    DEF Next, HandleIrq, GetChar
<1>. QED BY <1>1, <1>2, PTL DEF Spec

\* What keyboard_get_char has read stays the head of the queue until it moves
\* the index, whatever the interrupt does in between.
THEOREM LoadedStaysHead == Spec => []LoadedIsHead
<1>1. IInv => LoadedIsHead
  BY DEF IInv
<1>. QED BY <1>1, KeyboardInductive, PTL

-----------------------------------------------------------------------------
(* The characters that wait *)

WaitingOK ==
  /\ Count \in 0 .. KB_BUFFER_SIZE - 1
  /\ Waiting \in Seq(Char \cup {NoChar})
  /\ Len(Waiting) = Count
  /\ \A i \in 1 .. Count : SlotAt(i) \in Index

\* The indexes are within the buffer, so that its contents are a sequence of
\* fewer characters than it has places.
LEMMA WaitingLen == KeyboardTypeOK => WaitingOK
<1>. SUFFICES ASSUME KeyboardTypeOK PROVE WaitingOK
  OBVIOUS
<1>. USE SizeAssumption DEF KeyboardTypeOK, Index
<1>1. Count \in 0 .. KB_BUFFER_SIZE - 1
  BY DEF Count
<1>2. \A i \in 1 .. Count : SlotAt(i) \in Index
  BY <1>1 DEF SlotAt
<1>3. Waiting \in Seq(Char \cup {NoChar}) /\ Len(Waiting) = Count
  BY <1>1, <1>2 DEF Waiting
<1>. QED BY <1>1, <1>2, <1>3 DEF WaitingOK

\* The same of the next state.
LEMMA WaitingLenNext == KeyboardTypeOK' => WaitingOK'
<1>1. (KeyboardTypeOK => WaitingOK)'
  BY WaitingLen, PTL
<1>. QED BY <1>1

\* The interrupt puts a character at the end of the queue, when it has room.
LEMMA PutAppends ==
  ASSUME KeyboardTypeOK, KeyboardTypeOK', NEW ch \in Char, Put(ch), HasRoom
  PROVE  /\ Len(Waiting) < KB_BUFFER_SIZE - 1
         /\ Waiting' = Append(Waiting, ch)
<1>. DEFINE r == kb_buffer_read
            w == kb_buffer_write
<1>1. /\ r \in Index /\ w \in Index
      /\ kb_buffer \in [Index -> Char \cup {NoChar}]
  BY DEF KeyboardTypeOK
<1>2. /\ r' = r /\ w' = Succ(w) /\ Succ(w) # r
      /\ kb_buffer' = [kb_buffer EXCEPT ![w] = ch]
  BY DEF Put, HasRoom
<1>3. Count' = Count + 1 /\ Count < KB_BUFFER_SIZE - 1
  BY <1>1, <1>2, SizeAssumption DEF Succ, Count, Index
<1>4. PICK n \in Nat : n = Count
  BY WaitingLen DEF WaitingOK
<1>5. \A i \in 1 .. n : SlotAt(i)' = SlotAt(i) /\ SlotAt(i) # w
  BY <1>1, <1>2, <1>4, SizeAssumption DEF Count, SlotAt, Index
<1>6. SlotAt(n + 1)' = w
  BY <1>1, <1>2, <1>4, SizeAssumption DEF Count, SlotAt, Index
<1>7. \A i \in 1 .. n : SlotAt(i) \in Index
  BY <1>4, WaitingLen DEF WaitingOK
<1>8. \A i \in 1 .. n : Waiting'[i] = Waiting[i]
  BY <1>1, <1>2, <1>3, <1>4, <1>5, <1>7 DEF Waiting
<1>9. Waiting'[n + 1] = ch
  BY <1>1, <1>2, <1>3, <1>4, <1>6 DEF Waiting
<1>10. /\ Waiting \in Seq(Char \cup {NoChar}) /\ Len(Waiting) = n
       /\ Waiting' \in Seq(Char \cup {NoChar}) /\ Len(Waiting') = n + 1
  <2>1. Char' = Char /\ NoChar' = NoChar
    BY DEF Char, NoChar
  <2>. QED BY <1>3, <1>4, <2>1, WaitingLen, WaitingLenNext DEF WaitingOK
<1>. HIDE DEF r, w
<1>11. Waiting' = Append(Waiting, ch)
  BY <1>8, <1>9, <1>10
<1>. QED BY <1>3, <1>4, <1>10, <1>11

\* The reader takes the head of the queue.
LEMMA ReturnTakesHead ==
  ASSUME IInv, KeyboardTypeOK', ReturnChar
  PROVE  /\ Waiting # <<>>
         /\ got' = Head(Waiting)
         /\ Waiting' = Tail(Waiting)
<1>. DEFINE r == kb_buffer_read
            w == kb_buffer_write
<1>1. /\ KeyboardTypeOK /\ r \in Index /\ w \in Index /\ r # w
      /\ c = kb_buffer[r] /\ got' = c
      /\ kb_buffer \in [Index -> Char \cup {NoChar}]
  BY DEF KeyboardTypeOK, IInv, LoadedIsHead, ReturnChar
<1>2. r' = Succ(r) /\ w' = w /\ kb_buffer' = kb_buffer
  BY DEF ReturnChar
<1>3. Count' = Count - 1 /\ Count > 0
  BY <1>1, <1>2, SizeAssumption DEF Succ, Count, Index
<1>4. PICK n \in Nat : n = Count
  BY <1>1, WaitingLen DEF WaitingOK
<1>5. SlotAt(1) = r
  BY <1>1, SizeAssumption DEF SlotAt, Index
<1>6. \A i \in 1 .. n - 1 : SlotAt(i)' = SlotAt(i + 1)
  BY <1>1, <1>2, <1>3, <1>4, SizeAssumption DEF Succ, SlotAt, Count, Index
<1>7. Waiting[1] = c
  BY <1>1, <1>3, <1>4, <1>5 DEF Waiting
<1>8. \A i \in 1 .. n - 1 : Waiting'[i] = Waiting[i + 1]
  BY <1>2, <1>3, <1>4, <1>6 DEF Waiting
<1>9. /\ Waiting \in Seq(Char \cup {NoChar}) /\ Len(Waiting) = n
      /\ Waiting' \in Seq(Char \cup {NoChar}) /\ Len(Waiting') = n - 1
  <2>1. Char' = Char /\ NoChar' = NoChar
    BY DEF Char, NoChar
  <2>. QED BY <1>1, <1>3, <1>4, <2>1, WaitingLen, WaitingLenNext DEF WaitingOK
<1>. HIDE DEF r, w
<1>. QED BY <1>1, <1>3, <1>4, <1>7, <1>8, <1>9

\* The ring buffer is a queue: every step of the interrupt and of the reader
\* is a step of the queue or leaves it alone (keyboard.c:15-31).
THEOREM KeyboardImplementsQueue == Spec => ImplementsQueue
<1>1. Init => Queue!Init
  BY SizeAssumption DEF Init, Queue!Init, Waiting, Count
<1>2. IInv /\ IInv' /\ [Next]_vars => [Queue!Next]_Queue!vars
  <2>. SUFFICES ASSUME IInv, IInv', [Next]_vars
                PROVE  [Queue!Next]_Queue!vars
    OBVIOUS
  <2>1. KeyboardTypeOK /\ KeyboardTypeOK'
    BY DEF IInv
  <2>2. (UNCHANGED <<buffer, got>>) => UNCHANGED Queue!vars
    BY DEF buffer, Queue!vars, Waiting, SlotAt, Count
  <2>3. CASE \/ Type \/ PressShift \/ ReleaseShift \/ PressCapsLock
              \/ IgnoreCode \/ UNCHANGED vars
    <3>1. UNCHANGED <<buffer, got>>
      BY <2>3 DEF Type, TypeShift, LetGoOfShift, TypeCapsLock, TypeKey, Emit,
                  PressShift, ReleaseShift, PressCapsLock, IgnoreCode, Take,
                  vars, reader
    <3>. QED BY <2>2, <3>1
  <2>4. CASE PressKey
    <3>1. PICK ch \in Char : Put(ch)
      BY <2>4 DEF PressKey, Character, Char
    <3>2. UNCHANGED got
      BY <2>4 DEF PressKey, Take, reader
    <3>3. CASE HasRoom
      BY <2>1, <3>1, <3>2, <3>3, PutAppends DEF Queue!Next, Queue!Put
    <3>4. CASE ~HasRoom
      BY <2>2, <3>1, <3>2, <3>4 DEF Put
    <3>. QED BY <3>3, <3>4
  <2>5. CASE ReturnNone
    <3>1. Count = 0
      BY <2>1, <2>5 DEF ReturnNone, Count, KeyboardTypeOK, Index
    <3>2. Waiting = <<>>
      BY <2>1, <3>1, WaitingLen DEF WaitingOK
    <3>3. UNCHANGED Waiting
      BY <2>5 DEF ReturnNone, buffer, Waiting, SlotAt, Count
    <3>. QED
      BY <2>5, <3>2, <3>3 DEF ReturnNone, Queue!Next, Queue!None
  <2>6. CASE LoadChar
    BY <2>2, <2>6 DEF LoadChar
  <2>7. CASE ReturnChar
    BY <2>1, <2>7, ReturnTakesHead DEF Queue!Next, Queue!Get
  <2>. QED
    BY <2>3, <2>4, <2>5, <2>6, <2>7 DEF Next, HandleIrq, GetChar
<1>. QED
  BY <1>1, <1>2, KeyboardInductive, PTL DEF Spec, ImplementsQueue, Queue!Spec

-----------------------------------------------------------------------------
(* The case of the characters.  Reading the codes that wait takes the      *)
(* handler's flags through a sequence of values; the invariant says that   *)
(* there is such a sequence, that every character finds in it the flags it *)
(* was meant with, and that it ends with the keys as the typist holds them.*)

Code == [press : BOOLEAN, key : Key \cup ShiftKey \cup {"caps", "other"},
         case : {"any", "lower", "upper"}]

\* The flags after the handler has read a code.
ShiftAfter(code, s) == IF code.key \in ShiftKey THEN code.press ELSE s
CapsAfter(code, l) == IF code.key = "caps" THEN ~l ELSE l

CaseGiven(s, l) == IF s # l THEN "upper" ELSE "lower"

AsMeant(code, s, l) ==
  code.key \in Key /\ code.case # "any" => code.case = CaseGiven(s, l)

\* Read with the flags s0 and l0, the codes q leave s1 and l1, and every
\* character among them gets the case it was typed in.
Reads(q, s0, l0, s1, l1) ==
  \E sh, cp \in [0 .. Len(q) -> BOOLEAN] :
    /\ sh[0] = s0 /\ cp[0] = l0
    /\ \A i \in 1 .. Len(q) : /\ sh[i] = ShiftAfter(q[i], sh[i - 1])
                              /\ cp[i] = CapsAfter(q[i], cp[i - 1])
                              /\ AsMeant(q[i], sh[i - 1], cp[i - 1])
    /\ sh[Len(q)] = s1 /\ cp[Len(q)] = l1

TypingOK ==
  /\ codes \in Seq(Code)
  /\ shift_pressed \in BOOLEAN /\ caps_lock \in BOOLEAN
  /\ down \subseteq ShiftKey /\ capitals \in BOOLEAN /\ muddled \in BOOLEAN
  /\ down = ShiftKey => muddled

CodesReadRight ==
  \E s \in BOOLEAN : /\ Reads(codes, shift_pressed, caps_lock, s, capitals)
                     /\ ~muddled => s = (down # {})

CaseInv == TypingOK /\ CodesReadRight

\* One more code at the end of those that wait.
LEMMA ReadsMore ==
  ASSUME NEW q \in Seq(Code), NEW code \in Code,
         NEW s0 \in BOOLEAN, NEW l0 \in BOOLEAN,
         NEW s1 \in BOOLEAN, NEW l1 \in BOOLEAN,
         NEW s2 \in BOOLEAN, NEW l2 \in BOOLEAN,
         Reads(q, s0, l0, s1, l1), AsMeant(code, s1, l1),
         s2 = ShiftAfter(code, s1), l2 = CapsAfter(code, l1)
  PROVE  Reads(Append(q, code), s0, l0, s2, l2)
<1>. DEFINE n == Len(q)
            more == Append(q, code)
<1>1. PICK sh \in [0 .. n -> BOOLEAN], cp \in [0 .. n -> BOOLEAN] :
        /\ sh[0] = s0 /\ cp[0] = l0
        /\ \A i \in 1 .. n : /\ sh[i] = ShiftAfter(q[i], sh[i - 1])
                             /\ cp[i] = CapsAfter(q[i], cp[i - 1])
                             /\ AsMeant(q[i], sh[i - 1], cp[i - 1])
        /\ sh[n] = s1 /\ cp[n] = l1
  BY DEF Reads
<1>2. n \in Nat /\ Len(more) = n + 1 /\ more[n + 1] = code
      /\ \A i \in 1 .. n : more[i] = q[i]
  OBVIOUS
<1>. DEFINE sh2 == [i \in 0 .. n + 1 |-> IF i <= n THEN sh[i] ELSE s2]
            cp2 == [i \in 0 .. n + 1 |-> IF i <= n THEN cp[i] ELSE l2]
<1>3. /\ sh2 \in [0 .. n + 1 -> BOOLEAN] /\ cp2 \in [0 .. n + 1 -> BOOLEAN]
      /\ \A i \in 0 .. n : sh2[i] = sh[i] /\ cp2[i] = cp[i]
      /\ sh2[n + 1] = s2 /\ cp2[n + 1] = l2
  BY <1>2
<1>. HIDE DEF n, more, sh2, cp2
<1>4. ASSUME NEW i \in 1 .. n + 1
      PROVE  /\ sh2[i] = ShiftAfter(more[i], sh2[i - 1])
             /\ cp2[i] = CapsAfter(more[i], cp2[i - 1])
             /\ AsMeant(more[i], sh2[i - 1], cp2[i - 1])
  <2>1. CASE i \in 1 .. n
    <3>1. i - 1 \in 0 .. n /\ i \in 0 .. n
      BY <1>2, <2>1
    <3>. QED BY <1>1, <1>2, <1>3, <2>1, <3>1
  <2>2. CASE i = n + 1
    <3>1. i - 1 = n /\ n \in 0 .. n
      BY <1>2, <2>2
    <3>2. sh2[i - 1] = s1 /\ cp2[i - 1] = l1 /\ more[i] = code
      BY <1>1, <1>2, <1>3, <2>2, <3>1
    <3>3. sh2[i] = s2 /\ cp2[i] = l2
      BY <1>3, <2>2
    <3>. QED BY <3>2, <3>3
  <2>. QED BY <1>2, <2>1, <2>2
<1>5. sh2[0] = s0 /\ cp2[0] = l0
  BY <1>1, <1>2, <1>3
<1>6. Reads(more, s0, l0, s2, l2)
  <2>. DEFINE m == Len(more)
  <2>1. /\ m = n + 1
        /\ sh2 \in [0 .. m -> BOOLEAN] /\ cp2 \in [0 .. m -> BOOLEAN]
        /\ sh2[m] = s2 /\ cp2[m] = l2
    BY <1>2, <1>3
  <2>2. \A i \in 1 .. m : /\ sh2[i] = ShiftAfter(more[i], sh2[i - 1])
                          /\ cp2[i] = CapsAfter(more[i], cp2[i - 1])
                          /\ AsMeant(more[i], sh2[i - 1], cp2[i - 1])
    BY <1>4, <2>1
  <2>. QED BY <1>5, <2>1, <2>2, Zenon DEF Reads
<1>. QED BY <1>6 DEF more

\* The handler reads the first.
LEMMA ReadsFirst ==
  ASSUME NEW q \in Seq(Code), q # <<>>,
         NEW s0 \in BOOLEAN, NEW l0 \in BOOLEAN,
         NEW s1 \in BOOLEAN, NEW l1 \in BOOLEAN,
         NEW s2 \in BOOLEAN, NEW l2 \in BOOLEAN,
         Reads(q, s0, l0, s1, l1),
         s2 = ShiftAfter(Head(q), s0), l2 = CapsAfter(Head(q), l0)
  PROVE  AsMeant(Head(q), s0, l0) /\ Reads(Tail(q), s2, l2, s1, l1)
<1>. DEFINE n == Len(q)
            less == Tail(q)
<1>1. PICK sh \in [0 .. n -> BOOLEAN], cp \in [0 .. n -> BOOLEAN] :
        /\ sh[0] = s0 /\ cp[0] = l0
        /\ \A i \in 1 .. n : /\ sh[i] = ShiftAfter(q[i], sh[i - 1])
                             /\ cp[i] = CapsAfter(q[i], cp[i - 1])
                             /\ AsMeant(q[i], sh[i - 1], cp[i - 1])
        /\ sh[n] = s1 /\ cp[n] = l1
  BY DEF Reads
<1>2. n \in Nat \ {0} /\ Len(less) = n - 1 /\ Head(q) = q[1]
      /\ \A i \in 1 .. n - 1 : less[i] = q[i + 1]
  OBVIOUS
<1>. DEFINE sh2 == [i \in 0 .. n - 1 |-> sh[i + 1]]
            cp2 == [i \in 0 .. n - 1 |-> cp[i + 1]]
<1>3. /\ sh2 \in [0 .. n - 1 -> BOOLEAN] /\ cp2 \in [0 .. n - 1 -> BOOLEAN]
      /\ \A i \in 0 .. n - 1 : sh2[i] = sh[i + 1] /\ cp2[i] = cp[i + 1]
  BY <1>2
<1>. HIDE DEF n, less, sh2, cp2
<1>4. /\ sh[1] = ShiftAfter(q[1], sh[1 - 1]) /\ cp[1] = CapsAfter(q[1], cp[1 - 1])
      /\ AsMeant(q[1], sh[1 - 1], cp[1 - 1])
  BY <1>1, <1>2
<1>5. sh[1] = s2 /\ cp[1] = l2 /\ AsMeant(Head(q), s0, l0)
  BY <1>1, <1>2, <1>4
<1>6. sh2[0] = s2 /\ cp2[0] = l2 /\ sh2[n - 1] = s1 /\ cp2[n - 1] = l1
  BY <1>1, <1>2, <1>3, <1>5
<1>7. ASSUME NEW i \in 1 .. n - 1
      PROVE  /\ sh2[i] = ShiftAfter(less[i], sh2[i - 1])
             /\ cp2[i] = CapsAfter(less[i], cp2[i - 1])
             /\ AsMeant(less[i], sh2[i - 1], cp2[i - 1])
  <2>1. /\ i \in 0 .. n - 1 /\ i - 1 \in 0 .. n - 1 /\ i + 1 \in 1 .. n
        /\ (i + 1) - 1 = i /\ (i - 1) + 1 = i
    BY <1>2
  <2>2. sh2[i] = sh[i + 1] /\ sh2[i - 1] = sh[i]
        /\ cp2[i] = cp[i + 1] /\ cp2[i - 1] = cp[i] /\ less[i] = q[i + 1]
    BY <1>2, <1>3, <2>1
  <2>3. /\ sh[i + 1] = ShiftAfter(q[i + 1], sh[i])
        /\ cp[i + 1] = CapsAfter(q[i + 1], cp[i])
        /\ AsMeant(q[i + 1], sh[i], cp[i])
    BY <1>1, <2>1
  <2>. QED BY <2>2, <2>3
<1>8. Reads(less, s2, l2, s1, l1)
  BY <1>2, <1>3, <1>6, <1>7 DEF Reads
<1>. QED BY <1>5, <1>8 DEF less

\* The next state's codes are one more, or one less.
LEMMA TypedMore ==
  ASSUME CaseInv, NEW code \in Code, codes' = Append(codes, code),
         UNCHANGED <<shift_pressed, caps_lock>>,
         down' \subseteq ShiftKey, muddled' \in BOOLEAN,
         down' = ShiftKey => muddled',
         capitals' = CapsAfter(code, capitals),
         \A s \in BOOLEAN :
           (~muddled => s = (down # {}))
             => /\ AsMeant(code, s, capitals)
                /\ ~muddled' => ShiftAfter(code, s) = (down' # {})
  PROVE  CaseInv'
<1>1. PICK s \in BOOLEAN :
        /\ Reads(codes, shift_pressed, caps_lock, s, capitals)
        /\ ~muddled => s = (down # {})
  BY Zenon DEF CaseInv, CodesReadRight
<1>2. TypingOK
  BY DEF CaseInv
<1>3. PICK s2 \in BOOLEAN : s2 = ShiftAfter(code, s)
  BY DEF ShiftAfter, Code
<1>4. capitals' \in BOOLEAN
  BY <1>2 DEF CapsAfter, TypingOK
<1>5. Reads(Append(codes, code), shift_pressed, caps_lock, s2, capitals')
  BY <1>1, <1>2, <1>3, <1>4, ReadsMore DEF TypingOK
<1>6. CodesReadRight'
  BY <1>1, <1>3, <1>5 DEF CodesReadRight
<1>7. TypingOK'
  BY <1>2, <1>4 DEF TypingOK
<1>. QED BY <1>6, <1>7 DEF CaseInv

LEMMA HandledFirst ==
  ASSUME CaseInv, Take,
         shift_pressed' = ShiftAfter(Scancode, shift_pressed),
         caps_lock' = CapsAfter(Scancode, caps_lock)
  PROVE  CaseInv'
<1>1. PICK s \in BOOLEAN :
        /\ Reads(codes, shift_pressed, caps_lock, s, capitals)
        /\ ~muddled => s = (down # {})
  BY Zenon DEF CaseInv, CodesReadRight
<1>2. TypingOK /\ codes # <<>> /\ codes' = Tail(codes) /\ UNCHANGED typist
  BY DEF CaseInv, Take
<1>3. Scancode \in Code
  BY <1>2 DEF TypingOK, Scancode
<1>4. shift_pressed' \in BOOLEAN /\ caps_lock' \in BOOLEAN
  BY <1>2, <1>3 DEF TypingOK, ShiftAfter, CapsAfter, Code
<1>5. Reads(Tail(codes), shift_pressed', caps_lock', s, capitals)
  BY <1>1, <1>2, <1>4, ReadsFirst DEF TypingOK, Scancode
<1>6. CodesReadRight'
  BY <1>1, <1>2, <1>5 DEF CodesReadRight, typist
<1>7. TypingOK'
  BY <1>2, <1>4 DEF TypingOK, typist
<1>. QED BY <1>6, <1>7 DEF CaseInv

\* The flags, read through the codes that wait, arrive at the keys as the
\* typist holds them now.
THEOREM FlagsFollowCodes == Spec => []CaseInv
<1>1. Init => CaseInv
  <2>. SUFFICES ASSUME Init PROVE CaseInv
    OBVIOUS
  <2>1. TypingOK
    <3>1. codes \in Seq(Code)
      BY DEF Init
    <3>2. down \subseteq ShiftKey /\ down # ShiftKey
      BY DEF Init, ShiftKey
    <3>. QED BY <3>1, <3>2, Zenon DEF Init, TypingOK
  <2>2. Reads(<<>>, FALSE, FALSE, FALSE, FALSE)
    <3>. DEFINE f == [i \in 0 .. 0 |-> FALSE]
    <3>1. f \in [0 .. 0 -> BOOLEAN] /\ f[0] = FALSE
      OBVIOUS
    <3>. HIDE DEF f
    <3>2. Len(<<>>) = 0 /\ 1 .. 0 = {}
      OBVIOUS
    <3>. QED BY <3>1, <3>2, Zenon DEF Reads
  <2>3. CodesReadRight
    <3>1. Reads(codes, shift_pressed, caps_lock, FALSE, capitals)
      BY <2>2, Zenon DEF Init
    <3>. QED BY <3>1 DEF Init, CodesReadRight
  <2>. QED BY <2>1, <2>3 DEF CaseInv
<1>2. CaseInv /\ [Next]_vars => CaseInv'
  <2>. SUFFICES ASSUME CaseInv, [Next]_vars PROVE CaseInv'
    OBVIOUS
  <2>0. TypingOK
    BY DEF CaseInv
  <2>. DEFINE code(press, key, case) ==
                [press |-> press, key |-> key, case |-> case]
  <2>1. CASE TypeShift
    <3>1. PICK k \in ShiftKey :
            /\ Emit(TRUE, k, "any")
            /\ down' = down \cup {k}
            /\ muddled' = (muddled \/ down' = ShiftKey)
            /\ UNCHANGED capitals
      BY <2>1 DEF TypeShift
    <3>. DEFINE e == code(TRUE, k, "any")
    <3>2. e \in Code /\ e.press = TRUE /\ e.key = k /\ e.case = "any"
      BY DEF Code
    <3>3. codes' = Append(codes, e) /\ UNCHANGED <<shift_pressed, caps_lock>>
      BY <3>1 DEF Emit
    <3>. HIDE DEF e
    <3>4. k # "caps"
      BY DEF ShiftKey
    <3>. QED
      BY <2>0, <3>1, <3>2, <3>3, <3>4, TypedMore
      DEF TypingOK, ShiftAfter, CapsAfter, AsMeant
  <2>2. CASE LetGoOfShift
    <3>1. PICK k \in down :
            /\ Emit(FALSE, k, "any")
            /\ down' = down \ {k}
            /\ muddled' = (muddled /\ down' # {})
            /\ UNCHANGED capitals
      BY <2>2 DEF LetGoOfShift
    <3>. DEFINE e == code(FALSE, k, "any")
    <3>2. e \in Code /\ e.press = FALSE /\ e.key = k /\ e.case = "any"
      BY <2>0 DEF Code, TypingOK
    <3>3. codes' = Append(codes, e) /\ UNCHANGED <<shift_pressed, caps_lock>>
      BY <3>1 DEF Emit
    <3>. HIDE DEF e
    <3>4. k \in ShiftKey /\ k # "caps"
      BY <2>0 DEF ShiftKey, TypingOK
    <3>5. ~muddled' => down' = {}
      BY <2>0, <3>1 DEF TypingOK, ShiftKey
    <3>6. down' # ShiftKey /\ down' \subseteq ShiftKey
      BY <2>0, <3>1, <3>4 DEF TypingOK
    <3>. QED
      BY <2>0, <3>1, <3>2, <3>3, <3>4, <3>5, <3>6, TypedMore
      DEF TypingOK, ShiftAfter, CapsAfter, AsMeant
  <2>3. CASE TypeCapsLock
    <3>1. /\ Emit(TRUE, "caps", "any")
          /\ capitals' = ~capitals /\ UNCHANGED <<down, muddled>>
      BY <2>3 DEF TypeCapsLock
    <3>. DEFINE e == code(TRUE, "caps", "any")
    <3>2. e \in Code /\ e.key = "caps" /\ e.case = "any"
      BY DEF Code
    <3>3. codes' = Append(codes, e) /\ UNCHANGED <<shift_pressed, caps_lock>>
      BY <3>1 DEF Emit
    <3>. HIDE DEF e
    <3>4. "caps" \notin ShiftKey
      BY DEF ShiftKey
    <3>. QED
      BY <2>0, <3>1, <3>2, <3>3, <3>4, TypedMore
      DEF TypingOK, ShiftAfter, CapsAfter, AsMeant
  <2>4. CASE TypeKey
    <3>. DEFINE meant(k) ==
                  IF muddled \/ k = "other" THEN "any"
                  ELSE IF (down # {}) # capitals THEN "upper" ELSE "lower"
    <3>1. PICK k \in Key \cup {"other"} : Emit(TRUE, k, meant(k))
      BY <2>4 DEF TypeKey
    <3>. DEFINE e == code(TRUE, k, meant(k))
    <3>2. e \in Code /\ e.key = k /\ e.case = meant(k)
      BY DEF Code
    <3>3. codes' = Append(codes, e) /\ UNCHANGED <<shift_pressed, caps_lock>>
      BY <3>1 DEF Emit
    <3>4. UNCHANGED <<down, muddled, capitals>>
      BY <2>4 DEF TypeKey, typist
    <3>5. k \notin ShiftKey /\ k # "caps"
      BY KeyAssumption DEF ShiftKey
    <3>6. ASSUME NEW s \in BOOLEAN, ~muddled => s = (down # {})
          PROVE  AsMeant(e, s, capitals)
      BY <3>2, <3>6 DEF AsMeant, CaseGiven
    <3>. HIDE DEF e, meant
    <3>. QED
      BY <2>0, <3>2, <3>3, <3>4, <3>5, <3>6, TypedMore
      DEF TypingOK, ShiftAfter, CapsAfter
  <2>5. CASE PressShift \/ ReleaseShift
    <3>1. Take /\ Scancode.key \in ShiftKey
      BY <2>5 DEF PressShift, ReleaseShift
    <3>2. Scancode \in Code
      BY <2>0, <3>1 DEF TypingOK, Scancode, Take
    <3>3. shift_pressed' = Scancode.press /\ UNCHANGED caps_lock
      BY <2>5, <3>2 DEF PressShift, ReleaseShift, Code
    <3>4. Scancode.key # "caps"
      BY <3>1 DEF ShiftKey
    <3>. QED BY <3>1, <3>3, <3>4, HandledFirst DEF ShiftAfter, CapsAfter
  <2>6. CASE PressCapsLock
    <3>1. "caps" \notin ShiftKey
      BY DEF ShiftKey
    <3>. QED
      BY <2>6, <3>1, HandledFirst DEF PressCapsLock, ShiftAfter, CapsAfter
  <2>7. CASE PressKey \/ IgnoreCode
    <3>1. Take /\ UNCHANGED <<shift_pressed, caps_lock>>
      BY <2>7 DEF PressKey, IgnoreCode
    <3>2. Scancode.key \notin ShiftKey /\ Scancode.key # "caps"
      BY <2>7, KeyAssumption DEF PressKey, IgnoreCode, ShiftKey
    <3>. QED BY <3>1, <3>2, HandledFirst DEF ShiftAfter, CapsAfter
  <2>8. CASE GetChar \/ UNCHANGED vars
    <3>1. UNCHANGED <<shift_pressed, caps_lock, codes, down, capitals, muddled>>
      BY <2>8 DEF GetChar, ReturnNone, LoadChar, ReturnChar, typist, vars
    <3>2. TypingOK'
      BY <2>0, <3>1 DEF TypingOK
    <3>3. CodesReadRight'
      BY <3>1 DEF CaseInv, CodesReadRight
    <3>. QED BY <3>2, <3>3 DEF CaseInv
  <2>. QED
    BY <2>1, <2>2, <2>3, <2>4, <2>5, <2>6, <2>7, <2>8
    DEF Next, Type, HandleIrq
<1>. QED BY <1>1, <1>2, PTL DEF Spec

\* However late the handler is, a character gets the case it was typed in,
\* but while both shift keys are in play (keyboard.c:45-70).
THEOREM CharactersAsTyped == Spec => []CaseAsTyped
<1>1. CaseInv => CaseAsTyped
  <2>. SUFFICES ASSUME CaseInv, codes # <<>>, Scancode.key \in Key,
                       Scancode.case # "any"
                PROVE  Character(Scancode.key) = <<Scancode.key, Scancode.case>>
    BY DEF CaseAsTyped
  <2>1. PICK s \in BOOLEAN :
          Reads(codes, shift_pressed, caps_lock, s, capitals)
    BY Zenon DEF CaseInv, CodesReadRight
  <2>2. TypingOK /\ Scancode \in Code
    BY DEF CaseInv, TypingOK, Scancode
  <2>3. PICK s2 \in BOOLEAN, l2 \in BOOLEAN :
          s2 = ShiftAfter(Scancode, shift_pressed) /\ l2 = CapsAfter(Scancode, caps_lock)
    BY <2>2 DEF TypingOK, ShiftAfter, CapsAfter, Code
  <2>4. AsMeant(Scancode, shift_pressed, caps_lock)
    BY <2>1, <2>2, <2>3, ReadsFirst DEF TypingOK, Scancode
  <2>. QED BY <2>4 DEF AsMeant, CaseGiven, Character
<1>. QED BY <1>1, FlagsFollowCodes, PTL

=============================================================================
