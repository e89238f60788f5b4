------------------------------ MODULE Keyboard ------------------------------
(***************************************************************************)
(* src/src/keyboard.c: the handler of the keyboard interrupt, which tracks *)
(* shift and caps lock and puts characters into a ring buffer, and         *)
(* keyboard_get_char, which takes them out.  The handler may interrupt     *)
(* keyboard_get_char between any two of its accesses to the buffer; there  *)
(* is no lock.  The keyboard keeps the codes of its keys, in order, until  *)
(* the handler, which may be late, has read them.                          *)
(***************************************************************************)
EXTENDS Integers, Sequences

CONSTANTS
  KB_BUFFER_SIZE,
  Key,             \* the keys that give a character
  MaxCodes         \* bound: codes that wait in the keyboard

ASSUME SizeAssumption == KB_BUFFER_SIZE \in Nat \ {0}

\* No key that gives a character is a shift key or caps lock: the handler
\* tells these by their codes before it looks a character up.
ASSUME KeyAssumption == Key \cap {"left", "right", "caps", "other"} = {}

ShiftKey == {"left", "right"}
Char == Key \X {"lower", "upper"}
NoChar == <<"none", "none">>      \* the character 0, which no key gives
Index == 0 .. KB_BUFFER_SIZE - 1

VARIABLES
  shift_pressed, caps_lock,
  kb_buffer, kb_buffer_read, kb_buffer_write,
  pc, c,           \* keyboard_get_char: "idle" or "loaded", and its local c
  got,             \* what it returned last
  \* the keyboard and who types on it
  codes,           \* the codes the handler has not read
  down,            \* the shift keys held down
  capitals,        \* has caps lock been pressed an odd number of times?
  muddled          \* history: have both shift keys been down since none was?

buffer == <<kb_buffer, kb_buffer_read, kb_buffer_write>>
reader == <<pc, c, got>>
typist == <<down, capitals, muddled>>
vars == <<shift_pressed, caps_lock, buffer, reader, codes, typist>>

\* keyboard_init, on the zeroed buffer.
Init ==
  /\ shift_pressed = FALSE
  /\ caps_lock = FALSE
  /\ kb_buffer = [i \in Index |-> NoChar]
  /\ kb_buffer_read = 0
  /\ kb_buffer_write = 0
  /\ pc = "idle"
  /\ c = NoChar
  /\ got = NoChar
  /\ codes = <<>>
  /\ down = {}
  /\ capitals = FALSE
  /\ muddled = FALSE

-----------------------------------------------------------------------------
(* Typing.  A code says which key it is of and whether it went down; for   *)
(* the properties it carries the case the typist meant.                    *)

Emit(press, key, case) ==
  /\ Len(codes) < MaxCodes
  /\ codes' = Append(codes, [press |-> press, key |-> key, case |-> case])
  /\ UNCHANGED <<shift_pressed, caps_lock, buffer, reader>>

\* A key that is held down repeats its press.
TypeShift ==
  \E k \in ShiftKey :
    /\ Emit(TRUE, k, "any")
    /\ down' = down \cup {k}
    /\ muddled' = (muddled \/ down' = ShiftKey)
    /\ UNCHANGED capitals

LetGoOfShift ==
  \E k \in down :
    /\ Emit(FALSE, k, "any")
    /\ down' = down \ {k}
    /\ muddled' = (muddled /\ down' # {})
    /\ UNCHANGED capitals

TypeCapsLock ==
  /\ Emit(TRUE, "caps", "any")
  /\ capitals' = ~capitals
  /\ UNCHANGED <<down, muddled>>

\* The other codes, the releases of keys among them, give no character.
TypeKey ==
  /\ \E k \in Key \cup {"other"} :
       Emit(TRUE, k, IF muddled \/ k = "other" THEN "any"
                     ELSE IF (down # {}) # capitals THEN "upper" ELSE "lower")
  /\ UNCHANGED typist

Type == TypeShift \/ LetGoOfShift \/ TypeCapsLock \/ TypeKey

-----------------------------------------------------------------------------
(* The interrupt *)

\* (i + 1) % KB_BUFFER_SIZE, for an index i.
Succ(i) == IF i + 1 = KB_BUFFER_SIZE THEN 0 ELSE i + 1

\* Mutation: a full buffer is not looked for.
HasRoomAlways == TRUE

HasRoom == Succ(kb_buffer_write) # kb_buffer_read

\* kb_buffer_put: a character that finds the buffer full is dropped.
Put(ch) ==
  IF HasRoom
    THEN /\ kb_buffer' = [kb_buffer EXCEPT ![kb_buffer_write] = ch]
         /\ kb_buffer_write' = Succ(kb_buffer_write)
         /\ UNCHANGED kb_buffer_read
    ELSE UNCHANGED buffer

\* keyboard_handle_irq's argument.
Scancode == Head(codes)

Take ==
  /\ codes # <<>>
  /\ codes' = Tail(codes)
  /\ UNCHANGED <<reader, typist>>

PressShift ==
  /\ Take /\ Scancode.press /\ Scancode.key \in ShiftKey
  /\ shift_pressed' = TRUE
  /\ UNCHANGED <<caps_lock, buffer>>

\* Mutation: only one of the two release codes is known.
ReleaseLeftOnly ==
  /\ Take /\ ~Scancode.press /\ Scancode.key \in ShiftKey
  /\ shift_pressed' = (shift_pressed /\ Scancode.key = "right")
  /\ UNCHANGED <<caps_lock, buffer>>

\* Either release ends shift, also while the other key is held.
ReleaseShift ==
  /\ Take /\ ~Scancode.press /\ Scancode.key \in ShiftKey
  /\ shift_pressed' = FALSE
  /\ UNCHANGED <<caps_lock, buffer>>

PressCapsLock ==
  /\ Take /\ Scancode.press /\ Scancode.key = "caps"
  /\ caps_lock' = ~caps_lock
  /\ UNCHANGED <<shift_pressed, buffer>>

Character(key) == <<key, IF shift_pressed # caps_lock THEN "upper" ELSE "lower">>

\* The echo by terminal_putchar is Console's.
PressKey ==
  /\ Take /\ Scancode.key \in Key
  /\ Put(Character(Scancode.key))
  /\ UNCHANGED <<shift_pressed, caps_lock>>

\* Mutation: codes without a character are put into the buffer too.
PutNothing ==
  /\ Take /\ Scancode.key = "other"
  /\ Put(NoChar)
  /\ UNCHANGED <<shift_pressed, caps_lock>>

IgnoreCode ==
  /\ Take /\ Scancode.key = "other"
  /\ UNCHANGED <<shift_pressed, caps_lock, buffer>>

HandleIrq == PressShift \/ ReleaseShift \/ PressCapsLock \/ PressKey \/ IgnoreCode

-----------------------------------------------------------------------------
(* keyboard_get_char *)

ReturnNone ==
  /\ pc = "idle"
  /\ kb_buffer_read = kb_buffer_write
  /\ got' = NoChar
  /\ UNCHANGED <<shift_pressed, caps_lock, buffer, pc, c, codes, typist>>

LoadChar ==
  /\ pc = "idle"
  /\ kb_buffer_read # kb_buffer_write
  /\ c' = kb_buffer[kb_buffer_read]
  /\ pc' = "loaded"
  /\ UNCHANGED <<shift_pressed, caps_lock, buffer, got, codes, typist>>

ReturnChar ==
  /\ pc = "loaded"
  /\ kb_buffer_read' = Succ(kb_buffer_read)
  /\ got' = c
  /\ c' = NoChar
  /\ pc' = "idle"
  /\ UNCHANGED <<shift_pressed, caps_lock, kb_buffer, kb_buffer_write, codes, typist>>

GetChar == ReturnNone \/ LoadChar \/ ReturnChar

Next == Type \/ HandleIrq \/ GetChar

Spec == Init /\ [][Next]_vars

-----------------------------------------------------------------------------
(* Properties *)

\* However late the handler is, a character gets the case in which it was
\* typed: shift and caps lock follow the codes in their order, and shift is
\* never left on once no shift key is held (keyboard.c:45-70).  Only while
\* both shift keys have been in play may the case be another: the release of
\* one ends shift although the other is held.
CaseAsTyped ==
  (codes # <<>> /\ Scancode.key \in Key /\ Scancode.case # "any")
    => Character(Scancode.key) = <<Scancode.key, Scancode.case>>

\* Between the load and the move of the read index the interrupt leaves the
\* slot that was read alone: it is neither refilled nor given up
\* (keyboard.c:28-29).
LoadedIsHead ==
  pc = "loaded" => /\ kb_buffer_read # kb_buffer_write
                   /\ c = kb_buffer[kb_buffer_read]

\* The characters in the buffer, in order.
Count ==
  IF kb_buffer_write >= kb_buffer_read
    THEN kb_buffer_write - kb_buffer_read
    ELSE kb_buffer_write - kb_buffer_read + KB_BUFFER_SIZE

SlotAt(i) ==
  IF kb_buffer_read + i - 1 < KB_BUFFER_SIZE
    THEN kb_buffer_read + i - 1
    ELSE kb_buffer_read + i - 1 - KB_BUFFER_SIZE

Waiting == [i \in 1 .. Count |-> kb_buffer[SlotAt(i)]]

\* Without a lock, the ring buffer is a queue of KB_BUFFER_SIZE - 1
\* characters between the interrupt, which alone moves the write index, and
\* the reader, which alone moves the read index (keyboard.c:15-31).
Queue == INSTANCE BoundedQueue WITH
  Capacity <- KB_BUFFER_SIZE - 1,
  q <- Waiting

ImplementsQueue == Queue!Spec

=============================================================================
