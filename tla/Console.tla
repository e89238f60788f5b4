------------------------------ MODULE Console ------------------------------
(***************************************************************************)
(* The terminal of src/src/terminal.c with the two that drive it: kmain,   *)
(* which prints what it finds on the disk and then the first prompt, and   *)
(* the keyboard interrupt, which edits the command line and, at Enter,     *)
(* runs the command inside the handler.  kmain loads, stores and compares  *)
(* the cursor's coordinates and accept_input one at a time, in the order   *)
(* of the source; the handler interrupts it between any two of these, and  *)
(* itself runs to its end, one character of output at a time.              *)
(*                                                                         *)
(* terminal_putchar, meant for keys, also prints the names and the file    *)
(* contents of `dir` and `cat`: a newline among these runs the command     *)
(* line again, so that activations of the handler's command nest.          *)
(*                                                                         *)
(* A command's name is one character long, and a character that prints is  *)
(* its own glyph.  Colours and pixels are left out.                        *)
(***************************************************************************)
EXTENDS Integers, Sequences

CONSTANTS
  Width, Height,   \* the framebuffer, in pixels
  CharSize,        \* height of a glyph
  Start,           \* the cursor when interrupts are enabled
  CmdMax,          \* CMD_MAX
  Char,            \* the characters
  Keys,            \* those the keyboard gives
  SuperText,       \* what parse_superblock writes: a sequence of strings,
  GroupText,       \* and parse_blockgroup_descriptors
  Names, File,     \* the names `dir` prints, the text `cat` prints
  MaxKeys,         \* bound: keys pressed
  MaxDepth         \* bound: commands running inside one another

NL == "nl"
BS == "bs"
TAB == "tab"
Blank == "blank"

\* The names of the commands.
Clear == <<"l">>
Dir   == <<"d">>
Echo  == <<"e">>
Cat   == <<"c">>
Help  == <<"h">>

Left == 10
PromptEnd == 26    \* Left and the two characters of the prompt

\* The screen takes a row and a column of text below and beside its margins,
\* the cursor has not left it sideways, the command line has room for its
\* end mark, and texts are of characters; kmain's hold neither backspaces nor
\* tabs.
ASSUME ScreenAssumption ==
  /\ Width \in Nat /\ Width >= Left + 8
  /\ CharSize \in Nat
  /\ Height \in Nat /\ Height >= CharSize + 10
  /\ Start \in [x : 0 .. Width - 8, y : Nat]
  /\ CmdMax \in Nat \ {0} /\ MaxDepth \in Nat \ {0}

ASSUME TextAssumption ==
  /\ {NL, BS, TAB, Blank, ">", "m"} \cup Keys \subseteq Char
  /\ Names \in Seq(Char) /\ File \in Seq(Char)
  /\ SuperText \in Seq(Seq(Char \ {BS, TAB}))
  /\ GroupText \in Seq(Seq(Char \ {BS, TAB}))

VARIABLES
  cursor,          \* cursor_x, cursor_y
  cmd,             \* the first cmd_len characters of cmd
  accept_input,
  todo,            \* for each command running, innermost first, its output
                   \*   still to come
  pc,              \* the call kmain is at, in Script
  pos,             \* in it, the character terminal_write is at; 0: not begun
  prev,            \* its local `prev`
  step,            \* where in terminal_putchar_external kmain is: "char", at its
                   \*   start, or the access to come
  reg,             \* the coordinate kmain has in a register
  known,           \* the parts of the file system kmain has read
  halted,          \* has exception_handler stopped the machine?
  tabbed,          \* history: has the last step printed a tab?
  keys             \* history: the number of keys pressed

main == <<pc, pos, prev, step, reg, known>>
vars == <<cursor, cmd, accept_input, todo, main, halted, tabbed, keys>>

-----------------------------------------------------------------------------
(* The cursor *)

At(x, y) == [x |-> x, y |-> y]

\* Is a glyph in this column too far right?
TooFar(x) == x >= Width - 8

\* Mutation: the height of the glyph is not taken off.
TooLowUnscaled(y) == y >= Height

\* Is a glyph in this row too far down?
TooLow(y) == y >= Height - CharSize

NewLine(p) ==
  LET y == p.y + CharSize IN At(Left, IF TooLow(y) THEN 10 ELSE y)

Glyph(p) == IF TooFar(p.x + 8) THEN NewLine(p) ELSE At(p.x + 8, p.y)

\* The row is not looked at.
Tab(p) ==
  LET x == (p.x \div 32 + 1) * 32
  IN  IF TooFar(x) THEN At(Left, p.y + CharSize) ELSE At(x, p.y)

Erases(p) == p.x > PromptEnd
Back(p) == IF Erases(p) THEN At(p.x - 8, p.y) ELSE p

\* terminal_putchar_external.
External(c, p) ==
  CASE c = NL  -> NewLine(p)
    [] c = TAB -> Tab(p)
    [] c = BS  -> Back(p)
    [] OTHER   -> Glyph(p)

AfterPrompt(p) == External(Blank, External(">", p))

-----------------------------------------------------------------------------
(* Commands *)

Least(S) == CHOOSE i \in S : \A j \in S : i <= j

\* getfirststr: the first word of the command line, and where it ends.
WordStart(s) == Least({i \in 1 .. Len(s) : s[i] # Blank} \cup {Len(s) + 1})
WordEnd(s) ==
  Least({i \in WordStart(s) .. Len(s) : s[i] = Blank} \cup {Len(s) + 1})
FirstWord(s) == SubSeq(s, WordStart(s), WordEnd(s) - 1)

\* What `echo` prints: the rest, without the blanks before it.
Rest(s) ==
  LET r == SubSeq(s, WordEnd(s), Len(s))
  IN  SubSeq(r, WordStart(r), Len(r))

\* Text printed by terminal_putchar, as if it were typed ...
Typed(text) == [i \in 1 .. Len(text) |-> [c |-> text[i], key |-> TRUE]]

\* Mutation: terminal_write goes through terminal_putchar.
OutAsTyped(text) == Typed(text)

\* ... and by terminal_write.
Out(text) == [i \in 1 .. Len(text) |-> [c |-> text[i], key |-> FALSE]]

Message == Out(<<"m", NL>>)

\* Before kmain has read the group descriptors, the inode is read from the
\* start of the disk, which is neither a directory nor a file.
Output(s) ==
  CASE FirstWord(s) = Echo -> Out(Rest(s)) \o Out(<<NL>>)
    [] FirstWord(s) = Dir  -> IF "groups" \in known
                             THEN Out(<<TAB>>) \o Typed(Names) \o Out(<<NL>>)
                             ELSE Message
    [] FirstWord(s) = Cat  -> IF "groups" \in known
                                THEN Typed(File) \o Out(<<NL>>) ELSE Message
    [] FirstWord(s) = Help -> Message
    [] OTHER -> <<>>

\* read_inode divides by inodes_per_group, 0 until kmain has read it.
Divides(s) == FirstWord(s) \in {Dir, Cat} /\ "superblock" \notin known

-----------------------------------------------------------------------------
(* terminal_putchar *)

\* Mutation: accept_input stays as it is while the command runs.
KeepAccepting == UNCHANGED accept_input

\* No input while the command runs.
StopAccepting == accept_input' = FALSE

\* A command starts: its output goes before what is left of the others'.
Enter(rest) ==
  /\ StopAccepting
  /\ IF Divides(cmd)
       THEN halted' = TRUE /\ UNCHANGED todo
       ELSE todo' = <<Output(cmd)>> \o rest /\ UNCHANGED halted
  /\ cursor' = IF FirstWord(cmd) = Clear THEN At(Left, 10) ELSE NewLine(cursor)
  /\ UNCHANGED cmd

\* Mutation: the room left in cmd is not looked at.
StoreAlways(c) == cmd' = IF accept_input THEN Append(cmd, c) ELSE cmd

\* The character goes into the command line, if it fits.
Store(c) ==
  cmd' = IF accept_input /\ Len(cmd) < CmdMax - 1 THEN Append(cmd, c) ELSE cmd

Edit(c) ==
  /\ CASE c = BS  -> cmd' = IF Erases(cursor) /\ cmd # <<>>
                              THEN SubSeq(cmd, 1, Len(cmd) - 1) ELSE cmd
       [] c = TAB -> UNCHANGED cmd
       [] OTHER   -> Store(c)
  /\ cursor' = External(c, cursor)
  /\ UNCHANGED <<accept_input, halted>>

\* rest: the output to come after this character.
Putchar(c, rest) ==
  /\ tabbed' = (c = TAB)
  /\ IF c = NL THEN Enter(rest) ELSE Edit(c) /\ todo' = rest

-----------------------------------------------------------------------------
Script ==
  LET Call(f) == <<[do |-> f, text |-> <<>>]>>
      Writes(texts) ==
        [i \in 1 .. Len(texts) |-> [do |-> "write", text |-> texts[i]]]
  IN  Call("superblock") \o Writes(SuperText)
        \o Call("groups") \o Writes(GroupText) \o Call("prompt")

Init ==
  /\ cursor = Start
  /\ cmd = <<>>
  /\ accept_input = FALSE
  /\ todo = <<>>
  /\ pc = 1
  /\ pos = 0
  /\ prev = FALSE
  /\ step = "char"
  /\ reg = 0
  /\ known = {}
  /\ halted = FALSE
  /\ tabbed = FALSE
  /\ keys = 0

Running == ~halted /\ todo = <<>>

-----------------------------------------------------------------------------
(* The keyboard interrupt *)

\* keyboard_handle_irq passes a key's character on.
KeyPressed ==
  /\ Running
  /\ keys < MaxKeys
  /\ keys' = keys + 1
  /\ \E c \in Keys : Putchar(c, <<>>)
  /\ UNCHANGED main

\* The innermost command prints its next character.
PrintNext ==
  /\ ~halted /\ todo # <<>>
  /\ Head(todo) # <<>>
  /\ Len(todo) < MaxDepth
  /\ LET out == Head(Head(todo))
         rest == <<Tail(Head(todo))>> \o Tail(todo)
     IN  IF out.key
           THEN Putchar(out.c, rest)
           ELSE /\ tabbed' = (out.c = TAB)
                /\ cursor' = External(out.c, cursor)
                /\ todo' = rest
                /\ UNCHANGED <<cmd, accept_input, halted>>
  /\ UNCHANGED <<main, keys>>

\* Mutation: terminal_prompt does not turn input on.
AcceptForgotten == UNCHANGED accept_input

\* The end of terminal_prompt.
Accept == accept_input' = TRUE

\* It has finished: the command line is emptied and a new prompt printed.
Finish ==
  /\ ~halted /\ todo # <<>>
  /\ Head(todo) = <<>>
  /\ cmd' = <<>>
  /\ cursor' = AfterPrompt(cursor)
  /\ Accept
  /\ todo' = Tail(todo)
  /\ tabbed' = FALSE
  /\ UNCHANGED <<main, halted, keys>>

Handler == PrintNext \/ Finish

-----------------------------------------------------------------------------
(* kmain, from the return of idt_init *)

Call(f) == Running /\ pc <= Len(Script) /\ Script[pc].do = f

\* parse_superblock and parse_blockgroup_descriptors read the disk.
ReadDisk ==
  /\ \E part \in {"superblock", "groups"} :
       Call(part) /\ known' = known \cup {part}
  /\ pc' = pc + 1
  /\ tabbed' = FALSE
  /\ UNCHANGED <<cursor, cmd, accept_input, todo, pos, prev, step, reg, halted,
                 keys>>

\* terminal_write saves accept_input ...
SaveAccept ==
  /\ Call("write") /\ pos = 0 /\ step = "char"
  /\ prev' = accept_input
  /\ step' = "closing"
  /\ tabbed' = FALSE
  /\ UNCHANGED <<cursor, cmd, accept_input, todo, pc, pos, reg, known, halted, keys>>

\* ... turns it off ...
BeginWrite ==
  /\ Call("write") /\ step = "closing"
  /\ accept_input' = FALSE
  /\ step' = "char"
  /\ pos' = 1
  /\ tabbed' = FALSE
  /\ UNCHANGED <<cursor, cmd, todo, pc, prev, reg, known, halted, keys>>

\* ... writes the characters ...
Text == IF Script[pc].do = "prompt" THEN <<">", Blank>> ELSE Script[pc].text

Printing == (Call("write") \/ Call("prompt")) /\ pos \in 1 .. Len(Text)

\* One access on the way through terminal_putchar_external, or the last.
GoTo(next) ==
  /\ Printing
  /\ step' = next
  /\ pos' = IF next = "char" THEN pos + 1 ELSE pos
  /\ tabbed' = FALSE
  /\ UNCHANGED <<cmd, accept_input, todo, pc, prev, known, halted, keys>>

\* A glyph is drawn and the column moved on: cursor_x += 8.
LoadColumn ==
  /\ Printing /\ step = "char" /\ Text[pos] # NL
  /\ GoTo("column")
  /\ reg' = cursor.x
  /\ UNCHANGED cursor

StoreColumn ==
  /\ step = "column"
  /\ GoTo("margin")
  /\ cursor' = At(reg + 8, cursor.y)
  /\ reg' = reg + 8

\* What it compares is the register or the column loaded once more, which an
\* interrupt may have moved since.
CheckColumn ==
  /\ step = "margin"
  /\ \E x \in {reg, cursor.x} : GoTo(IF TooFar(x) THEN "line" ELSE "char")
  /\ reg' = 0
  /\ UNCHANGED cursor

\* A new line, for a newline or past the margin.
StoreLeft ==
  /\ step = "line" \/ (step = "char" /\ Printing /\ Text[pos] = NL)
  /\ GoTo("row")
  /\ cursor' = At(Left, cursor.y)
  /\ UNCHANGED reg

LoadRow ==
  /\ step = "row"
  /\ GoTo("down")
  /\ reg' = cursor.y
  /\ UNCHANGED cursor

StoreRow ==
  /\ step = "down"
  /\ GoTo("bottom")
  /\ cursor' = At(cursor.x, reg + CharSize)
  /\ reg' = reg + CharSize

CheckRow ==
  /\ step = "bottom"
  /\ \E y \in {reg, cursor.y} : GoTo(IF TooLow(y) THEN "top" ELSE "char")
  /\ reg' = 0
  /\ UNCHANGED cursor

StoreTop ==
  /\ step = "top"
  /\ GoTo("char")
  /\ cursor' = At(cursor.x, 10)
  /\ UNCHANGED reg

Move ==
  \/ LoadColumn \/ StoreColumn \/ CheckColumn
  \/ StoreLeft \/ LoadRow \/ StoreRow \/ CheckRow \/ StoreTop

\* ... and puts accept_input back.
EndWrite ==
  /\ Call("write") /\ pos = Len(Text) + 1
  /\ accept_input' = prev
  /\ pc' = pc + 1
  /\ pos' = 0
  /\ tabbed' = FALSE
  /\ UNCHANGED <<cursor, cmd, todo, prev, step, reg, known, halted, keys>>

\* terminal_prompt writes its two characters and turns input on.
BeginPrompt ==
  /\ Call("prompt") /\ pos = 0
  /\ pos' = 1
  /\ tabbed' = FALSE
  /\ UNCHANGED <<cursor, cmd, accept_input, todo, pc, prev, step, reg, known,
                 halted, keys>>

EndPrompt ==
  /\ Call("prompt") /\ pos = Len(Text) + 1
  /\ Accept
  /\ pc' = pc + 1
  /\ pos' = 0
  /\ tabbed' = FALSE
  /\ UNCHANGED <<cursor, cmd, todo, prev, step, reg, known, halted, keys>>

Kmain ==
  \/ ReadDisk \/ SaveAccept \/ BeginWrite \/ Move \/ EndWrite
  \/ BeginPrompt \/ EndPrompt

\* hcf, or exception_handler's halt.
Hlt ==
  /\ halted \/ (Running /\ pc > Len(Script))
  /\ UNCHANGED vars

Next == KeyPressed \/ Handler \/ Kmain \/ Hlt

Spec == Init /\ [][Next]_vars

\* The processor executes the handler to its end and then kmain.
FairSpec == Spec /\ WF_vars(Handler) /\ WF_vars(Kmain)

-----------------------------------------------------------------------------
(* Properties *)

\* Does a glyph in this column, or row, lie on the screen?
InWidth(x) == x + 8 <= Width
InHeight(y) == y + CharSize <= Height

\* The cursor is in a column on the screen, unless kmain has stored one past the
\* margin and not yet put it back; and so is what kmain has loaded.
ColumnSafe ==
  /\ \/ InWidth(cursor.x)
     \/ step = "margin" /\ cursor.x = reg
     \/ step = "line"
  /\ step = "column" => InWidth(reg)

\* The same of its row, which is below the last by one glyph at most.
RowSafe ==
  /\ \/ InHeight(cursor.y)
     \/ step = "bottom" /\ cursor.y = reg
     \/ step = "top"
  /\ step = "down" => InHeight(reg)
  /\ cursor.y <= Height

ConsoleTypeOK ==
  /\ cursor.x \in 0 .. Width /\ cursor.y \in Nat
  /\ Len(cmd) <= CmdMax - 1
  /\ accept_input \in BOOLEAN /\ prev \in BOOLEAN /\ halted \in BOOLEAN
  /\ pc \in 1 .. Len(Script) + 1 /\ pos \in Nat /\ reg \in Nat
  /\ step \in {"char", "closing", "column", "margin", "line", "row", "down",
               "bottom", "top"}
  /\ known \subseteq {"superblock", "groups"}
  /\ Len(todo) <= MaxDepth

\* DrawPixel (draw.c:9-12) does not check that the glyph at the cursor lies on
\* the screen.  Unless a tab takes it below the last row, which it starts
\* without looking whether there is one (terminal.c:120-124, 164-168), the cursor
\* is off the screen only between two stores of kmain's: that of the coordinate
\* it has moved and the one that puts it back (terminal.c:158-160, 171-177), by at
\* most one glyph.  kmain itself draws at the start of a character and so on the
\* screen; a key handled between the two stores is drawn off it.
OffScreenOnlyMidMove ==
  [][ColumnSafe' /\ (RowSafe => RowSafe' \/ tabbed')]_vars

\* What a command prints never becomes part of the command line, although the
\* names of `dir` and the contents of `cat` go through the function that keys
\* go through (ext2.c:352, 751): accept_input is off until the command is done.
\* Where these contain no newline, that is: the command it would run turns
\* accept_input on again in the middle of the output.
OutputIsNotInput ==
  [][Handler => Len(cmd') <= Len(cmd)]_vars

\* A command has ended, with "=== End of File ===" for `cat` (ext2.c:358),
\* before the next one starts.
OneCommandAtATime == Len(todo) <= 1

\* In the end the prompt stands and the terminal takes what is typed, although
\* terminal_write puts back an accept_input it saved before an interrupt
\* changed it (terminal.c:219-226), unless a command typed before the
\* superblock was read divided by zero.
EndsAcceptingInput ==
  <>[](halted \/ (accept_input /\ todo = <<>> /\ pc > Len(Script)))

=============================================================================
