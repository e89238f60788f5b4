--------------------------- MODULE Console_proofs ---------------------------
(***************************************************************************)
(* What the terminal keeps to, for every screen, command line and text,    *)
(* every number of keys pressed and every depth of commands inside others. *)
(***************************************************************************)
EXTENDS Console, SequenceTheorems, WellFoundedInduction, TLAPS

-----------------------------------------------------------------------------
(* Least elements *)

LEMMA Minimum ==
  ASSUME NEW S, S \subseteq Nat, S # {}
  PROVE  \E m \in S : \A y \in S : m <= y
<1>1. PICK m \in S : \A y \in S : ~ (<<y, m>> \in OpToRel(<, Nat))
  BY NatLessThanWellFounded, WFMin
<1>2. \A y \in S : ~(y < m)
  BY <1>1 DEF OpToRel
<1>3. m \in Nat /\ \A y \in S : y \in Nat
  OBVIOUS
<1> QED BY <1>2, <1>3

LEMMA LeastIsFirst ==
  ASSUME NEW S, S \subseteq Nat, S # {}
  PROVE  Least(S) \in S /\ \A y \in S : Least(S) <= y
BY Minimum DEF Least

-----------------------------------------------------------------------------
(* Places on the screen *)

Place == [x : 0 .. Width, y : Nat]

\* What printing does to a coordinate: it is on the screen or as it was; to the
\* row, if no tab is printed.
Sideways(p, q) == q \in Place /\ (InWidth(q.x) \/ q.x = p.x)
Down(p, q) == InHeight(q.y) \/ q.y = p.y

LEMMA NewLineMoves ==
  ASSUME NEW p \in Place
  PROVE  Sideways(p, NewLine(p)) /\ Down(p, NewLine(p))
BY ScreenAssumption
   DEF Place, NewLine, At, Left, TooLow, Sideways, Down, InWidth, InHeight

LEMMA ExternalMoves ==
  ASSUME NEW p \in Place, NEW c
  PROVE  /\ Sideways(p, External(c, p))
         /\ c # TAB => Down(p, External(c, p))
<1>1. Sideways(p, NewLine(p)) /\ Down(p, NewLine(p))
  BY NewLineMoves
<1>2. Sideways(p, Tab(p))
  BY ScreenAssumption DEF Place, Tab, At, Left, TooFar, Sideways, InWidth
<1>3. Sideways(p, Back(p)) /\ Down(p, Back(p))
  BY ScreenAssumption DEF Place, Back, Erases, At, PromptEnd, Sideways, Down, InWidth
<1>4. Sideways(p, Glyph(p)) /\ Down(p, Glyph(p))
  BY <1>1, ScreenAssumption DEF Place, Glyph, At, TooFar, Sideways, Down, InWidth
<1> QED BY <1>1, <1>2, <1>3, <1>4 DEF External

LEMMA AfterPromptMoves ==
  ASSUME NEW p \in Place
  PROVE  Sideways(p, AfterPrompt(p)) /\ Down(p, AfterPrompt(p))
<1> DEFINE q == External(">", p)
<1>1. ">" # TAB /\ Blank # TAB
  BY DEF TAB, Blank
<1>2. Sideways(p, q) /\ Down(p, q)
  BY <1>1, ExternalMoves
<1> HIDE DEF q
<1>3. Sideways(q, External(Blank, q)) /\ Down(q, External(Blank, q))
  BY <1>1, <1>2, ExternalMoves DEF Sideways
<1> QED BY <1>2, <1>3 DEF AfterPrompt, q, Sideways, Down

LEMMA TopMoves ==
  ASSUME NEW p PROVE Sideways(p, At(Left, 10)) /\ Down(p, At(Left, 10))
BY ScreenAssumption DEF At, Left, Place, Sideways, Down, InWidth, InHeight

-----------------------------------------------------------------------------
(* What commands print: characters of C where they come as if typed        *)

Printed(C) == {o \in [c : Char, key : BOOLEAN] : o.key => o.c \in C}

LEMMA OutType ==
  ASSUME NEW C, NEW text \in Seq(Char)
  PROVE  Out(text) \in Seq(Printed(C))
<1>1. Len(text) \in Nat /\ \A i \in 1 .. Len(text) : text[i] \in Char
  BY LenProperties, ElementOfSeq
<1>2. \A i \in 1 .. Len(text) : [c |-> text[i], key |-> FALSE] \in Printed(C)
  BY <1>1 DEF Printed
<1> QED BY <1>1, <1>2, IsASeq DEF Out

LEMMA TypedType ==
  ASSUME NEW C, C \subseteq Char, NEW text \in Seq(C)
  PROVE  Typed(text) \in Seq(Printed(C))
<1>1. Len(text) \in Nat /\ \A i \in 1 .. Len(text) : text[i] \in C
  BY LenProperties, ElementOfSeq
<1>2. \A i \in 1 .. Len(text) : [c |-> text[i], key |-> TRUE] \in Printed(C)
  BY <1>1 DEF Printed
<1> QED BY <1>1, <1>2, IsASeq DEF Typed

\* getfirststr stays on the command line.
LEMMA WordStartType ==
  ASSUME NEW s \in Seq(Char)
  PROVE  WordStart(s) \in 1 .. Len(s) + 1
<1> DEFINE S == {i \in 1 .. Len(s) : s[i] # Blank} \cup {Len(s) + 1}
<1>1. Len(s) \in Nat
  BY LenProperties
<1>2. S \subseteq Nat /\ S # {} /\ S \subseteq 1 .. Len(s) + 1
  BY <1>1
<1>3. Least(S) \in S
  BY <1>2, LeastIsFirst
<1> QED BY <1>2, <1>3 DEF WordStart

LEMMA WordEndType ==
  ASSUME NEW s \in Seq(Char)
  PROVE  WordEnd(s) \in 1 .. Len(s) + 1
<1> DEFINE S == {i \in WordStart(s) .. Len(s) : s[i] = Blank} \cup {Len(s) + 1}
<1>1. Len(s) \in Nat /\ WordStart(s) \in 1 .. Len(s) + 1
  BY LenProperties, WordStartType
<1>2. S \subseteq Nat /\ S # {} /\ S \subseteq 1 .. Len(s) + 1
  BY <1>1
<1>3. Least(S) \in S
  BY <1>2, LeastIsFirst
<1> QED BY <1>2, <1>3 DEF WordEnd

LEMMA SubSeqType ==
  ASSUME NEW s \in Seq(Char), NEW m \in 1 .. Len(s) + 1
  PROVE  SubSeq(s, m, Len(s)) \in Seq(Char)
<1>1. Len(s) \in Nat
  BY LenProperties
<1>2. \A i \in m .. Len(s) : s[i] \in Char
  BY <1>1, ElementOfSeq
<1> QED BY <1>1, <1>2, SubSeqProperties

LEMMA RestType ==
  ASSUME NEW s \in Seq(Char)
  PROVE  Rest(s) \in Seq(Char)
<1> DEFINE r == SubSeq(s, WordEnd(s), Len(s))
<1>1. r \in Seq(Char)
  BY WordEndType, SubSeqType
<1> HIDE DEF r
<1>2. SubSeq(r, WordStart(r), Len(r)) \in Seq(Char)
  BY <1>1, WordStartType, SubSeqType
<1> QED BY <1>2 DEF Rest, r

LEMMA OutputType ==
  ASSUME NEW C, C \subseteq Char, Names \in Seq(C), File \in Seq(C),
         NEW s \in Seq(Char)
  PROVE  Output(s) \in Seq(Printed(C))
<1> DEFINE P == Printed(C)
<1>1. <<NL>> \in Seq(Char) /\ <<TAB>> \in Seq(Char) /\ <<"m", NL>> \in Seq(Char)
  <2>1. NL \in Char /\ TAB \in Char /\ "m" \in Char
    BY TextAssumption
  <2>2. \A a, b \in Char : <<a>> \in Seq(Char) /\ <<a, b>> \in Seq(Char)
    OBVIOUS
  <2> QED BY <2>1, <2>2
<1>2. Out(<<NL>>) \in Seq(P) /\ Out(<<TAB>>) \in Seq(P) /\ Message \in Seq(P)
  BY <1>1, OutType DEF Message
<1>3. Out(Rest(s)) \in Seq(P) /\ Typed(Names) \in Seq(P) /\ Typed(File) \in Seq(P)
  BY RestType, OutType, TypedType
<1> HIDE DEF P
<1>4. Out(Rest(s)) \o Out(<<NL>>) \in Seq(P)
  BY <1>2, <1>3, ConcatProperties
<1>5. Out(<<TAB>>) \o Typed(Names) \in Seq(P)
  BY <1>2, <1>3, ConcatProperties
<1>6. Out(<<TAB>>) \o Typed(Names) \o Out(<<NL>>) \in Seq(P)
  BY <1>2, <1>5, ConcatProperties
<1>7. Typed(File) \o Out(<<NL>>) \in Seq(P)
  BY <1>2, <1>3, ConcatProperties
<1>8. <<>> \in Seq(P)
  OBVIOUS
<1>9. Output(s) \in Seq(P)
  BY <1>2, <1>4, <1>6, <1>7, <1>8 DEF Output
<1> QED BY <1>9 DEF P

-----------------------------------------------------------------------------
(* Types                                                                   *)

Types ==
  /\ ConsoleTypeOK
  /\ cursor \in Place /\ ColumnSafe
  /\ cmd \in Seq(Char)

\* What the commands under way have still to print.
Pending(C) == todo \in Seq(Seq(Printed(C)))

IInv == Types /\ Pending(Char)

\* The characters of kmain's texts.
Printable == Char \ {BS, TAB}

LEMMA ScriptType == Len(Script) \in Nat
<1> DEFINE Does(f) == <<[do |-> f, text |-> <<>>]>>
           Writes(texts) ==
             [i \in 1 .. Len(texts) |-> [do |-> "write", text |-> texts[i]]]
<1>1. PICK S : /\ \A f \in {"superblock", "groups", "prompt"} :
                    [do |-> f, text |-> <<>>] \in S
               /\ \A text \in Seq(Printable) : [do |-> "write", text |-> text] \in S
  <2> DEFINE T == [do : {"superblock", "groups", "prompt", "write"}, text : Seq(Printable)]
  <2>1. <<>> \in Seq(Printable)
    OBVIOUS
  <2>2. \A f \in {"superblock", "groups", "prompt"} : [do |-> f, text |-> <<>>] \in T
    BY <2>1
  <2>3. \A text \in Seq(Printable) : [do |-> "write", text |-> text] \in T
    OBVIOUS
  <2> HIDE DEF T
  <2> QED BY <2>2, <2>3
<1>2. \A f \in {"superblock", "groups", "prompt"} : Does(f) \in Seq(S)
  BY <1>1
<1>3. ASSUME NEW texts \in Seq(Seq(Printable)) PROVE Writes(texts) \in Seq(S)
  <2>1. Len(texts) \in Nat /\ \A i \in 1 .. Len(texts) : texts[i] \in Seq(Printable)
    BY LenProperties, ElementOfSeq
  <2>2. \A i \in 1 .. Len(texts) : [do |-> "write", text |-> texts[i]] \in S
    BY <1>1, <2>1
  <2> QED BY <2>1, <2>2, IsASeq
<1>4. /\ Does("superblock") \in Seq(S) /\ Does("groups") \in Seq(S)
      /\ Does("prompt") \in Seq(S)
      /\ Writes(SuperText) \in Seq(S) /\ Writes(GroupText) \in Seq(S)
  BY <1>2, <1>3, TextAssumption DEF Printable
<1> HIDE DEF Does, Writes
<1>5. Does("superblock") \o Writes(SuperText) \o Does("groups") \o Writes(GroupText)
        \o Does("prompt") \in Seq(S)
  BY <1>4, ConcatProperties
<1>6. Script \in Seq(S)
  BY <1>5 DEF Script, Does, Writes
<1> QED BY <1>6, LenProperties

LEMMA TypesInit == Init => IInv
<1> SUFFICES ASSUME Init PROVE IInv
  OBVIOUS
<1>1. cursor \in Place /\ ColumnSafe
  BY ScreenAssumption DEF Init, Place, ColumnSafe, InWidth
<1>2. /\ cmd = <<>> /\ todo = <<>> /\ accept_input = FALSE /\ prev = FALSE
      /\ halted = FALSE /\ pc = 1 /\ pos = 0 /\ step = "char" /\ reg = 0 /\ known = {}
  BY DEF Init
<1>3. Pending(Char) /\ cmd \in Seq(Char) /\ Len(cmd) = 0 /\ Len(todo) = 0
  BY <1>2 DEF Pending
<1>4. ConsoleTypeOK
  <2>1. cursor.x \in 0 .. Width /\ cursor.y \in Nat
    BY <1>1 DEF Place
  <2>2. Len(cmd) <= CmdMax - 1 /\ Len(todo) <= MaxDepth
    BY <1>3, ScreenAssumption
  <2>3. pc \in 1 .. Len(Script) + 1 /\ pos \in Nat
    BY <1>2, ScriptType
  <2> QED BY <1>2, <2>1, <2>2, <2>3 DEF ConsoleTypeOK
<1> QED BY <1>1, <1>2, <1>3, <1>4 DEF IInv, Types

\* A step of terminal_putchar.
LEMMA PutcharTypes ==
  ASSUME NEW C, C \subseteq Char, Names \in Seq(C), File \in Seq(C),
         cursor \in Place, cmd \in Seq(Char), Len(cmd) <= CmdMax - 1,
         accept_input \in BOOLEAN, halted \in BOOLEAN,
         Pending(C), NEW c \in Char,
         NEW rest \in Seq(Seq(Printed(C))), Putchar(c, rest)
  PROVE  /\ Sideways(cursor, cursor') /\ (~tabbed' => Down(cursor, cursor'))
         /\ cmd' \in Seq(Char) /\ Len(cmd') <= CmdMax - 1
         /\ accept_input' \in BOOLEAN /\ halted' \in BOOLEAN
         /\ Pending(C)'
         /\ \/ todo' = rest /\ accept_input' = accept_input
            \/ /\ c = NL /\ ~accept_input'
               /\ todo' = todo \/ Len(todo') = Len(rest) + 1
         /\ ~accept_input => Len(cmd') <= Len(cmd)
<1>1. CASE c = NL
  <2>1. Enter(rest) /\ cmd' = cmd /\ accept_input' = FALSE
    BY <1>1 DEF Putchar, Enter, StopAccepting
  <2>2. Sideways(cursor, cursor') /\ Down(cursor, cursor')
    BY <2>1, NewLineMoves, TopMoves DEF Enter
  <2>3. /\ cmd' \in Seq(Char) /\ Len(cmd') <= CmdMax - 1 /\ Len(cmd') <= Len(cmd)
        /\ accept_input' \in BOOLEAN /\ ~accept_input'
    <3>1. Len(cmd) \in Nat /\ CmdMax \in Nat
      BY LenProperties, ScreenAssumption
    <3>2. accept_input' \in BOOLEAN /\ ~accept_input'
      BY <2>1, Zenon
    <3> QED BY <2>1, <3>1, <3>2
  <2>4. CASE Divides(cmd)
    <3>1. halted' = TRUE /\ todo' = todo
      BY <2>1, <2>4 DEF Enter
    <3>2. Pending(C)'
      BY <3>1 DEF Pending
    <3>3. halted' \in BOOLEAN
      BY <3>1, Zenon
    <3> QED BY <1>1, <2>2, <2>3, <3>1, <3>2, <3>3, Zenon
  <2>5. CASE ~Divides(cmd)
    <3>1. halted' = halted /\ todo' = <<Output(cmd)>> \o rest
      BY <2>1, <2>5 DEF Enter
    <3>2. PICK S : S = Seq(Printed(C))
      OBVIOUS
    <3>3. Output(cmd) \in S /\ rest \in Seq(S)
      BY <3>2, OutputType
    <3>4. todo' \in Seq(S) /\ Len(todo') = Len(rest) + 1
      BY <3>1, <3>3, ConcatProperties
    <3>5. Pending(C)'
      BY <3>2, <3>4 DEF Pending
    <3>6. halted' \in BOOLEAN
      BY <3>1, Zenon
    <3> QED BY <1>1, <2>2, <2>3, <3>4, <3>5, <3>6, Zenon
  <2> QED BY <2>4, <2>5
<1>2. CASE c # NL
  <2>1. Edit(c) /\ todo' = rest
    BY <1>2 DEF Putchar
  <2>2. /\ Sideways(cursor, cursor') /\ (~tabbed' => Down(cursor, cursor'))
        /\ accept_input' = accept_input /\ halted' = halted
    <3>1. cursor' = External(c, cursor) /\ (~tabbed' => c # TAB)
      BY <2>1 DEF Putchar, Edit
    <3> QED BY <2>1, <3>1, ExternalMoves DEF Edit
  <2>3. /\ cmd' \in Seq(Char) /\ Len(cmd') <= CmdMax - 1
        /\ ~accept_input => Len(cmd') <= Len(cmd)
    <3>1. Len(cmd) \in Nat /\ CmdMax \in Nat
      BY LenProperties, ScreenAssumption
    <3>2. \/ cmd' = cmd
          \/ cmd # <<>> /\ cmd' = SubSeq(cmd, 1, Len(cmd) - 1)
          \/ accept_input /\ Len(cmd) < CmdMax - 1 /\ cmd' = Append(cmd, c)
      BY <2>1 DEF Edit, Store
    <3>3. cmd # <<>> => /\ SubSeq(cmd, 1, Len(cmd) - 1) \in Seq(Char)
                        /\ Len(SubSeq(cmd, 1, Len(cmd) - 1)) = Len(cmd) - 1
      <4>1. ASSUME cmd # <<>> PROVE Len(cmd) - 1 \in Nat
        BY <3>1, <4>1, EmptySeq
      <4>2. \A i \in 1 .. Len(cmd) - 1 : cmd[i] \in Char
        BY <3>1, ElementOfSeq
      <4>3. /\ SubSeq(cmd, 1, Len(cmd) - 1) \in Seq(Char)
            /\ Len(SubSeq(cmd, 1, Len(cmd) - 1)) =
                 IF 1 <= Len(cmd) - 1 THEN Len(cmd) - 1 - 1 + 1 ELSE 0
        BY <3>1, <4>2, SubSeqProperties
      <4>4. ASSUME NEW n \in Nat, n = Len(cmd) - 1
            PROVE  (IF 1 <= Len(cmd) - 1 THEN Len(cmd) - 1 - 1 + 1 ELSE 0) = n
        BY <4>4
      <4> QED BY <3>1, <4>1, <4>3, <4>4
    <3>4. Append(cmd, c) \in Seq(Char) /\ Len(Append(cmd, c)) = Len(cmd) + 1
      BY AppendProperties
    <3>5. CASE cmd' = cmd
      BY <3>1, <3>5
    <3>6. CASE cmd # <<>> /\ cmd' = SubSeq(cmd, 1, Len(cmd) - 1)
      <4>1. cmd' \in Seq(Char) /\ Len(cmd') = Len(cmd) - 1
        BY <3>3, <3>6
      <4> QED BY <3>1, <4>1
    <3>7. CASE accept_input /\ Len(cmd) < CmdMax - 1 /\ cmd' = Append(cmd, c)
      <4>1. cmd' \in Seq(Char) /\ Len(cmd') = Len(cmd) + 1
        BY <3>4, <3>7
      <4> QED BY <3>1, <3>7, <4>1
    <3> QED BY <3>2, <3>5, <3>6, <3>7
  <2> QED BY <1>2, <2>1, <2>2, <2>3 DEF Pending
<1> QED BY <1>1, <1>2

\* What the step of a command has at hand.
LEMMA NextPrinted ==
  ASSUME NEW C, Pending(C), todo # <<>>, Head(todo) # <<>>
  PROVE  LET out == Head(Head(todo))
             rest == <<Tail(Head(todo))>> \o Tail(todo)
         IN  /\ out \in Printed(C)
             /\ rest \in Seq(Seq(Printed(C))) /\ Len(rest) = Len(todo)
<1>1. PICK P : P = Printed(C)
  OBVIOUS
<1>2. PICK S : S = Seq(P)
  OBVIOUS
<1>3. todo \in Seq(S)
  BY <1>1, <1>2 DEF Pending
<1>4. Head(todo) \in S /\ Tail(todo) \in Seq(S) /\ Len(Tail(todo)) = Len(todo) - 1
      /\ Len(todo) \in Nat
  BY <1>3, HeadTailProperties, LenProperties
<1>5. Head(Head(todo)) \in P /\ Tail(Head(todo)) \in S
  BY <1>2, <1>4, HeadTailProperties
<1>6. <<Tail(Head(todo))>> \in Seq(S) /\ Len(<<Tail(Head(todo))>>) = 1
  BY <1>5
<1>7. /\ <<Tail(Head(todo))>> \o Tail(todo) \in Seq(S)
      /\ Len(<<Tail(Head(todo))>> \o Tail(todo)) = 1 + (Len(todo) - 1)
  BY <1>4, <1>6, ConcatProperties
<1> QED BY <1>1, <1>2, <1>4, <1>5, <1>7

LEMMA ConsoleTyped ==
  ASSUME Types
  PROVE  /\ cursor \in Place /\ cmd \in Seq(Char) /\ Len(cmd) <= CmdMax - 1
         /\ accept_input \in BOOLEAN /\ halted \in BOOLEAN
BY DEF Types, ConsoleTypeOK

\* The keyboard interrupt leaves kmain's variables alone.
LEMMA HandlerTypes ==
  ASSUME Types, UNCHANGED main,
         Sideways(cursor, cursor'), cmd' \in Seq(Char), Len(cmd') <= CmdMax - 1,
         accept_input' \in BOOLEAN, halted' \in BOOLEAN, Len(todo') <= MaxDepth
  PROVE  Types'
<1>1. cursor' \in Place /\ cursor'.x \in 0 .. Width /\ cursor'.y \in Nat
  BY DEF Sideways, Place
<1>2. UNCHANGED <<step, reg, pc, pos, prev, known>>
  BY DEF main
<1>3. ColumnSafe'
  BY <1>2 DEF Types, ColumnSafe, Sideways
<1> QED BY <1>1, <1>2, <1>3 DEF Types, ConsoleTypeOK

LEMMA KeyTypes ==
  ASSUME NEW C, C \subseteq Char, Names \in Seq(C), File \in Seq(C),
         Types, Pending(C), KeyPressed
  PROVE  /\ Types' /\ Pending(C)' /\ Len(todo') <= 1
         /\ todo' # <<>> => ~accept_input'
<1>1. PICK c \in Keys : Putchar(c, <<>>)
  BY DEF KeyPressed
<1>2. c \in Char /\ todo = <<>> /\ UNCHANGED main
  BY TextAssumption DEF KeyPressed, Running
<1>3. PICK rest \in Seq(Seq(Printed(C))) : rest = <<>>
  <2>1. \A S : <<>> \in Seq(S)
    OBVIOUS
  <2>2. <<>> \in Seq(Seq(Printed(C)))
    BY <2>1
  <2> QED BY <2>2
<1>4. Putchar(c, rest)
  BY <1>1, <1>3
<1>5. /\ Sideways(cursor, cursor') /\ cmd' \in Seq(Char) /\ Len(cmd') <= CmdMax - 1
      /\ accept_input' \in BOOLEAN /\ halted' \in BOOLEAN
      /\ Pending(C)'
      /\ \/ todo' = rest /\ accept_input' = accept_input
         \/ /\ c = NL /\ ~accept_input'
            /\ todo' = todo \/ Len(todo') = Len(rest) + 1
  BY <1>2, <1>4, ConsoleTyped, PutcharTypes
<1>6. Len(rest) = 0 /\ Len(todo) = 0
  BY <1>2, <1>3
<1>7. Len(todo') \in {0, 1}
  <2>1. todo' = rest \/ todo' = todo \/ Len(todo') = Len(rest) + 1
    BY <1>5, Zenon
  <2> QED BY <1>6, <2>1
<1>8. Len(todo') <= 1 /\ Len(todo') <= MaxDepth
  <2>1. \A n \in {0, 1} : n <= 1 /\ n <= MaxDepth
    BY ScreenAssumption
  <2> QED BY <1>7, <2>1
<1>9. todo' # <<>> => ~accept_input'
  BY <1>2, <1>3, <1>5
<1> QED BY <1>2, <1>5, <1>8, <1>9, HandlerTypes

LEMMA PrintTypes ==
  ASSUME NEW C, C \subseteq Char, Names \in Seq(C), File \in Seq(C),
         Types, Pending(C), PrintNext
  PROVE  /\ Types' /\ Pending(C)'
         /\ todo # <<>>
         /\ NL \notin C => Len(todo') = Len(todo)
         /\ ~accept_input => ~accept_input' /\ Len(cmd') <= Len(cmd)
<1> DEFINE o == Head(Head(todo))
           r == <<Tail(Head(todo))>> \o Tail(todo)
<1>1. /\ todo # <<>> /\ Head(todo) # <<>> /\ Len(todo) < MaxDepth /\ UNCHANGED main
      /\ IF o.key THEN Putchar(o.c, r)
                  ELSE /\ cursor' = External(o.c, cursor)
                       /\ todo' = r
                       /\ UNCHANGED <<cmd, accept_input, halted>>
  BY DEF PrintNext
<1>2. PICK out \in Printed(C), rest \in Seq(Seq(Printed(C))) :
        out = o /\ rest = r /\ Len(rest) = Len(todo)
  BY <1>1, NextPrinted
<1> HIDE DEF o, r
<1>3. Len(cmd) \in Nat /\ Len(todo) \in Nat /\ MaxDepth \in Nat
  BY ConsoleTyped, LenProperties, ScreenAssumption DEF Pending
<1>4. out.c \in Char /\ (out.key => out.c \in C)
  BY <1>2 DEF Printed
<1>5. CASE o.key
  <2>1. PICK c \in Char : c = out.c /\ Putchar(c, rest)
    BY <1>1, <1>2, <1>4, <1>5
  <2>2. /\ Sideways(cursor, cursor') /\ cmd' \in Seq(Char) /\ Len(cmd') <= CmdMax - 1
        /\ accept_input' \in BOOLEAN /\ halted' \in BOOLEAN
        /\ Pending(C)'
        /\ \/ todo' = rest /\ accept_input' = accept_input
           \/ /\ c = NL /\ ~accept_input'
              /\ todo' = todo \/ Len(todo') = Len(rest) + 1
        /\ ~accept_input => Len(cmd') <= Len(cmd)
    BY <2>1, ConsoleTyped, PutcharTypes
  <2>3. Len(todo') <= MaxDepth
    BY <1>1, <1>2, <1>3, <2>2
  <2>4. Types'
    BY <1>1, <2>2, <2>3, HandlerTypes
  <2>5. NL \notin C => Len(todo') = Len(todo)
    BY <1>2, <1>4, <1>5, <2>1, <2>2
  <2>6. ~accept_input => ~accept_input'
    BY <2>2, Zenon
  <2> QED BY <1>1, <2>2, <2>4, <2>5, <2>6
<1>6. CASE ~o.key
  <2>1. /\ cursor' = External(o.c, cursor) /\ todo' = rest
        /\ cmd' = cmd /\ accept_input' = accept_input /\ halted' = halted
    BY <1>1, <1>2, <1>6
  <2>2. Sideways(cursor, cursor')
    BY <2>1, ConsoleTyped, ExternalMoves
  <2>3. Pending(C)' /\ Len(todo') = Len(todo) /\ Len(todo') <= MaxDepth
    BY <1>1, <1>2, <1>3, <2>1 DEF Pending
  <2>4. Types'
    BY <1>1, <2>1, <2>2, <2>3, ConsoleTyped, HandlerTypes
  <2> QED BY <1>1, <1>3, <2>1, <2>3, <2>4
<1> QED BY <1>5, <1>6

LEMMA FinishTypes ==
  ASSUME NEW C, Types, Pending(C), Finish
  PROVE  /\ Types' /\ Pending(C)' /\ todo # <<>>
         /\ Len(todo') = Len(todo) - 1 /\ Len(cmd') = 0
<1>1. /\ todo # <<>> /\ todo' = Tail(todo) /\ cmd' = <<>> /\ accept_input' = TRUE
      /\ cursor' = AfterPrompt(cursor) /\ UNCHANGED <<main, halted>>
  BY DEF Finish, Accept
<1>2. PICK S : S = Seq(Printed(C))
  OBVIOUS
<1>3. todo \in Seq(S)
  BY <1>2 DEF Pending
<1>4. todo' \in Seq(S) /\ Len(todo') = Len(todo) - 1 /\ Len(todo) \in Nat
  BY <1>1, <1>3, HeadTailProperties, LenProperties
<1>5. Pending(C)'
  BY <1>2, <1>4 DEF Pending
<1>6. Sideways(cursor, cursor')
  BY <1>1, ConsoleTyped, AfterPromptMoves
<1>7. cmd' \in Seq(Char) /\ Len(cmd') = 0
  BY <1>1
<1>8. Len(cmd') <= CmdMax - 1 /\ Len(todo') <= MaxDepth
  BY <1>4, <1>7, ScreenAssumption DEF Types, ConsoleTypeOK
<1>9. accept_input' \in BOOLEAN /\ halted' \in BOOLEAN
  BY <1>1, ConsoleTyped, Zenon
<1> QED BY <1>1, <1>4, <1>5, <1>6, <1>7, <1>8, <1>9, HandlerTypes

\* kmain's accesses to the cursor, one at a time.
LEMMA MoveTypes ==
  ASSUME Types, Move
  PROVE  /\ cursor' \in Place /\ ColumnSafe' /\ reg' \in Nat
         /\ step' \in {"char", "column", "margin", "line", "row", "down", "bottom", "top"}
         /\ UNCHANGED <<cmd, accept_input, todo, pc, prev, known, halted>>
         /\ pos' \in {pos, pos + 1} /\ todo = <<>> /\ pc <= Len(Script)
         /\ ~tabbed'
<1>1. /\ cursor \in Place /\ ColumnSafe /\ reg \in Nat
  BY DEF Types, ConsoleTypeOK
<1>2. /\ UNCHANGED <<cmd, accept_input, todo, pc, prev, known, halted>>
      /\ pos' \in {pos, pos + 1} /\ todo = <<>> /\ pc <= Len(Script)
      /\ ~tabbed'
  BY DEF Move, LoadColumn, StoreColumn, CheckColumn, StoreLeft, LoadRow, StoreRow,
         CheckRow, StoreTop, GoTo, Printing, Call, Running
<1>3. CASE LoadColumn
  BY <1>1, <1>2, <1>3 DEF LoadColumn, GoTo, ColumnSafe, Place
<1>4. CASE StoreColumn
  BY <1>1, <1>2, <1>4 DEF StoreColumn, GoTo, ColumnSafe, Place, At, InWidth
<1>5. CASE CheckColumn
  <2>1. PICK x \in {reg, cursor.x} :
          step' = IF TooFar(x) THEN "line" ELSE "char"
    BY <1>5 DEF CheckColumn, GoTo
  <2>2. step = "margin" /\ cursor' = cursor /\ reg' = 0
    BY <1>5 DEF CheckColumn
  <2>3. step' = "char" => InWidth(cursor.x)
    BY <1>1, <2>1, <2>2, ScreenAssumption DEF ColumnSafe, Place, TooFar, InWidth
  <2>4. step' \in {"line", "char"}
    BY <2>1
  <2>5. ColumnSafe'
    BY <2>2, <2>3, <2>4 DEF ColumnSafe
  <2> QED BY <1>1, <1>2, <2>2, <2>4, <2>5
<1>6. CASE StoreLeft
  BY <1>1, <1>2, <1>6, ScreenAssumption
     DEF StoreLeft, GoTo, ColumnSafe, Place, At, Left, InWidth
<1>7. CASE LoadRow
  BY <1>1, <1>2, <1>7 DEF LoadRow, GoTo, ColumnSafe, Place
<1>8. CASE StoreRow
  BY <1>1, <1>2, <1>8, ScreenAssumption DEF StoreRow, GoTo, ColumnSafe, Place, At
<1>9. CASE CheckRow
  <2>1. step = "bottom" /\ cursor' = cursor /\ reg' = 0 /\ step' \in {"top", "char"}
    BY <1>9 DEF CheckRow, GoTo
  <2> QED BY <1>1, <1>2, <2>1 DEF ColumnSafe
<1>10. CASE StoreTop
  BY <1>1, <1>2, <1>10 DEF StoreTop, GoTo, ColumnSafe, Place, At
<1> QED BY <1>3, <1>4, <1>5, <1>6, <1>7, <1>8, <1>9, <1>10 DEF Move

\* The rest of kmain leaves the cursor alone.
Quiet == ReadDisk \/ SaveAccept \/ BeginWrite \/ EndWrite \/ BeginPrompt \/ EndPrompt

LEMMA QuietSteps ==
  ASSUME Types, Quiet
  PROVE  /\ todo' = todo /\ todo = <<>> /\ UNCHANGED <<cmd, halted, cursor, reg>>
         /\ step' = step \/ (step \in {"char", "closing"} /\ step' \in {"char", "closing"})
<1>1. todo' = todo /\ todo = <<>> /\ UNCHANGED <<cmd, halted, cursor, reg>>
  BY DEF Quiet, ReadDisk, SaveAccept, BeginWrite, EndWrite, BeginPrompt, EndPrompt,
         Call, Running
<1>2. step' = step \/ (step \in {"char", "closing"} /\ step' \in {"char", "closing"})
  BY DEF Quiet, ReadDisk, SaveAccept, BeginWrite, EndWrite, BeginPrompt, EndPrompt
<1> QED BY <1>1, <1>2

LEMMA QuietTypes ==
  ASSUME Types, Quiet
  PROVE  Types'
<1>1. known' \subseteq {"superblock", "groups"}
  BY DEF Quiet, ReadDisk, SaveAccept, BeginWrite, EndWrite, BeginPrompt, EndPrompt,
         Types, ConsoleTypeOK
<1>2. accept_input' \in BOOLEAN /\ prev' \in BOOLEAN
  <2>1. accept_input \in BOOLEAN /\ prev \in BOOLEAN
    BY DEF Types, ConsoleTypeOK
  <2>2. accept_input' \in {accept_input, FALSE, TRUE, prev} /\ prev' \in {prev, accept_input}
    BY Zenon DEF Quiet, ReadDisk, SaveAccept, BeginWrite, EndWrite, BeginPrompt,
           EndPrompt, Accept
  <2> QED BY <2>1, <2>2, Zenon
<1>3. pc' \in 1 .. Len(Script) + 1 /\ pos' \in Nat
  <2>1. pc \in 1 .. Len(Script) + 1 /\ pos \in Nat
    BY DEF Types, ConsoleTypeOK
  <2>2. \/ pc' = pc + 1 /\ pc <= Len(Script)
        \/ pc' = pc
    BY DEF Quiet, ReadDisk, SaveAccept, BeginWrite, EndWrite, BeginPrompt, EndPrompt, Call
  <2>3. pos' \in {0, 1, pos}
    BY DEF Quiet, ReadDisk, SaveAccept, BeginWrite, EndWrite, BeginPrompt, EndPrompt
  <2> QED BY <2>1, <2>2, <2>3, ScriptType
<1>4. ColumnSafe'
  BY QuietSteps DEF Types, ColumnSafe
<1> QED BY <1>1, <1>2, <1>3, <1>4, QuietSteps DEF Types, ConsoleTypeOK

\* kmain prints only while no command runs.
LEMMA KmainTypes ==
  ASSUME Types, Kmain
  PROVE  Types' /\ todo' = todo /\ todo = <<>>
<1>1. CASE Quiet
  BY <1>1, QuietTypes, QuietSteps
<1>2. CASE Move
  <2>1. /\ cursor' \in Place /\ ColumnSafe' /\ reg' \in Nat
        /\ step' \in {"char", "column", "margin", "line", "row", "down", "bottom", "top"}
        /\ UNCHANGED <<cmd, accept_input, todo, pc, prev, known, halted>>
        /\ pos' \in {pos, pos + 1} /\ todo = <<>>
    BY <1>2, MoveTypes
  <2>2. cursor'.x \in 0 .. Width /\ cursor'.y \in Nat /\ pos' \in Nat
    BY <2>1 DEF Place, Types, ConsoleTypeOK
  <2> QED BY <2>1, <2>2 DEF Types, ConsoleTypeOK
<1> QED BY <1>1, <1>2 DEF Kmain, Quiet

LEMMA TypesStep ==
  ASSUME IInv, [Next]_vars
  PROVE  IInv'
<1>1. Char \subseteq Char /\ Names \in Seq(Char) /\ File \in Seq(Char)
  BY TextAssumption
<1>2. CASE KeyPressed
  BY <1>1, <1>2, KeyTypes DEF IInv
<1>3. CASE PrintNext
  BY <1>1, <1>3, PrintTypes DEF IInv
<1>4. CASE Finish
  BY <1>4, FinishTypes DEF IInv
<1>5. CASE Kmain
  BY <1>5, KmainTypes DEF IInv, Pending
<1>6. CASE UNCHANGED vars
  BY <1>6 DEF vars, main, IInv, Types, ConsoleTypeOK, ColumnSafe, Pending
<1> QED BY <1>2, <1>3, <1>4, <1>5, <1>6 DEF Next, Handler, Hlt

\* On every screen the cursor stays between its sides, the command line in
\* its array, and kmain in its script (terminal.c:45-180).
THEOREM TypeCorrect == Spec => []ConsoleTypeOK
<1>1. IInv => ConsoleTypeOK
  BY DEF IInv, Types
<1> QED BY <1>1, TypesInit, TypesStep, PTL DEF Spec

LEMMA TypedAlways == Spec => []IInv
BY TypesInit, TypesStep, PTL DEF Spec

-----------------------------------------------------------------------------
(* The screen                                                              *)

\* What the handler does to the cursor.
LEMMA HandlerMoves ==
  ASSUME Types, KeyPressed \/ Handler
  PROVE  UNCHANGED <<step, reg>> /\ (~tabbed' => Down(cursor, cursor'))
<1>1. UNCHANGED <<step, reg>>
  BY DEF KeyPressed, Handler, PrintNext, Finish, main
<1>2. cursor \in Place
  BY DEF Types
<1>3. ASSUME NEW c, NEW rest, Putchar(c, rest)
      PROVE  ~tabbed' => Down(cursor, cursor')
  <2>1. CASE c = NL
    BY <1>2, <1>3, <2>1, NewLineMoves, TopMoves DEF Putchar, Enter
  <2>2. CASE c # NL
    <3>1. cursor' = External(c, cursor) /\ (~tabbed' => c # TAB)
      BY <1>3, <2>2 DEF Putchar, Edit
    <3> QED BY <1>2, <3>1, ExternalMoves
  <2> QED BY <2>1, <2>2
<1>4. CASE KeyPressed
  <2>1. PICK c : Putchar(c, <<>>)
    BY <1>4 DEF KeyPressed
  <2> QED BY <1>1, <1>3, <2>1
<1>5. CASE PrintNext
  <2>1. PICK c, rest : \/ Putchar(c, rest)
                       \/ (~tabbed' => c # TAB) /\ cursor' = External(c, cursor)
    <3> DEFINE o == Head(Head(todo))
               r == <<Tail(Head(todo))>> \o Tail(todo)
    <3>1. IF o.key THEN Putchar(o.c, r)
                   ELSE tabbed' = (o.c = TAB) /\ cursor' = External(o.c, cursor)
      BY <1>5 DEF PrintNext
    <3> HIDE DEF o, r
    <3>2. CASE o.key
      BY <3>1, <3>2
    <3>3. CASE ~o.key
      BY <3>1, <3>3
    <3> QED BY <3>2, <3>3
  <2> QED BY <1>1, <1>2, <1>3, <2>1, ExternalMoves
<1>6. CASE Finish
  BY <1>1, <1>2, <1>6, AfterPromptMoves DEF Finish
<1> QED BY <1>1, <1>4, <1>5, <1>6 DEF Handler

\* The rows through kmain's accesses.
LEMMA MoveRows ==
  ASSUME Types, Move, RowSafe
  PROVE  RowSafe'
<1>1. cursor \in Place /\ reg \in Nat /\ CharSize \in Nat /\ Height \in Nat
      /\ Height >= CharSize + 10
  BY ScreenAssumption DEF Types, ConsoleTypeOK
<1>2. CASE LoadColumn \/ CheckColumn
  BY <1>2 DEF LoadColumn, CheckColumn, GoTo, RowSafe
<1>3. CASE StoreColumn \/ StoreLeft
  BY <1>3 DEF StoreColumn, StoreLeft, GoTo, RowSafe, At
<1>4. CASE LoadRow
  BY <1>4 DEF LoadRow, GoTo, RowSafe
<1>5. CASE StoreRow
  BY <1>1, <1>5 DEF StoreRow, GoTo, RowSafe, InHeight, At
<1>6. CASE CheckRow
  <2>1. PICK y \in {reg, cursor.y} : step' = IF TooLow(y) THEN "top" ELSE "char"
    BY <1>6 DEF CheckRow, GoTo
  <2>2. step = "bottom" /\ cursor' = cursor
    BY <1>6 DEF CheckRow
  <2>3. step' = "char" => InHeight(cursor.y)
    BY <1>1, <2>1, <2>2 DEF RowSafe, Place, TooLow, InHeight
  <2>4. step' \in {"top", "char"}
    BY <2>1
  <2> QED BY <2>2, <2>3, <2>4 DEF RowSafe
<1>7. CASE StoreTop
  BY <1>1, <1>7 DEF StoreTop, GoTo, RowSafe, InHeight, At
<1> QED BY <1>2, <1>3, <1>4, <1>5, <1>6, <1>7 DEF Move

LEMMA RowStep ==
  ASSUME Types, Types', [Next]_vars, RowSafe
  PROVE  RowSafe' \/ tabbed' \/ UNCHANGED vars
<1>1. CASE KeyPressed \/ Handler
  <2> SUFFICES ASSUME ~tabbed' PROVE RowSafe'
    OBVIOUS
  <2>1. UNCHANGED <<step, reg>> /\ Down(cursor, cursor')
    BY <1>1, HandlerMoves
  <2>2. cursor' \in Place
    BY DEF Types
  <2> QED BY <2>1, <2>2, ScreenAssumption DEF RowSafe, Down, InHeight, Place
<1>2. CASE Move
  BY <1>2, MoveRows
<1>3. CASE Quiet
  BY <1>3, QuietSteps DEF RowSafe
<1> QED BY <1>1, <1>2, <1>3 DEF Next, Hlt, Kmain, Quiet

\* On every screen, whatever kmain and the interrupt do to the cursor between
\* each other's accesses: sideways it is off the screen only until kmain puts the
\* column back, and downwards, unless a tab is printed, only until kmain puts the
\* row back (terminal.c:120-124, 157-177).
THEOREM OnlyMidMove == Spec => OffScreenOnlyMidMove
<1>1. ASSUME IInv, IInv', [Next]_vars
      PROVE  [ColumnSafe' /\ (RowSafe => RowSafe' \/ tabbed')]_vars
  BY <1>1, RowStep DEF IInv, Types
<1> QED BY <1>1, TypedAlways, PTL DEF Spec, OffScreenOnlyMidMove

-----------------------------------------------------------------------------
(* One command at a time, and its output no input                          *)

\* Neither a name nor the file has a newline in it, which would run the
\* command line once more from inside the command.
Plain == Char \ {NL}
NoNewline == Names \in Seq(Plain) /\ File \in Seq(Plain)

\* What is still to be printed as if typed holds no newline, one command runs
\* at most, and the command line is closed as long as it does: accept_input is
\* off, whatever it was when the command began, as kmain, which may turn it
\* on, does not run meanwhile.
Single ==
  /\ Pending(Plain)
  /\ Len(todo) <= 1
  /\ todo # <<>> => ~accept_input

LEMMA SingleInit == Init => Single
<1> SUFFICES ASSUME Init PROVE Single
  OBVIOUS
<1>1. todo = <<>>
  BY DEF Init
<1> QED BY <1>1 DEF Single, Pending

LEMMA SingleStep ==
  ASSUME NoNewline, Types, Single, [Next]_vars
  PROVE  Single' /\ (Handler => Len(cmd') <= Len(cmd))
<1>1. Plain \subseteq Char /\ NL \notin Plain /\ Names \in Seq(Plain) /\ File \in Seq(Plain)
  BY DEF Plain, NoNewline
<1>2. Pending(Plain) /\ Len(todo) <= 1 /\ Len(cmd) \in Nat
  BY ConsoleTyped, LenProperties DEF Single
<1>3. CASE PrintNext
  <2>1. /\ Pending(Plain)' /\ todo # <<>> /\ Len(todo') = Len(todo)
        /\ ~accept_input => ~accept_input' /\ Len(cmd') <= Len(cmd)
    BY <1>1, <1>2, <1>3, PrintTypes
  <2>2. ~accept_input
    BY <2>1 DEF Single
  <2> QED BY <1>2, <2>1, <2>2 DEF Single
<1>4. CASE Finish
  <2>1. /\ Pending(Plain)' /\ todo # <<>> /\ Len(todo') = Len(todo) - 1 /\ Len(cmd') = 0
    BY <1>2, <1>4, FinishTypes
  <2>2. Len(todo) = 1 /\ Len(todo') = 0 /\ todo' = <<>>
    <3>1. Len(todo) \in Nat /\ Len(todo') \in Nat /\ (todo' # <<>> => Len(todo') # 0)
      BY <1>2, <2>1, LenProperties, EmptySeq DEF Pending
    <3> QED BY <1>2, <2>1, <3>1
  <2> QED BY <1>2, <2>1, <2>2 DEF Single
<1>5. CASE KeyPressed /\ ~Handler
  BY <1>1, <1>2, <1>5, KeyTypes DEF Single
<1>6. CASE (Kmain \/ UNCHANGED vars) /\ ~Handler
  <2>1. todo' = todo
    BY <1>6, KmainTypes DEF vars
  <2>2. todo # <<>> => accept_input' = accept_input
    BY <1>6, KmainTypes DEF vars
  <2> QED BY <1>6, <2>1, <2>2 DEF Single, Pending
<1> QED BY <1>3, <1>4, <1>5, <1>6 DEF Next, Handler, Hlt

LEMMA SingleAlways == ASSUME NoNewline PROVE Spec => [](Types /\ Single)
<1>1. Init => Types /\ Single
  BY TypesInit, SingleInit DEF IInv
<1>2. Types /\ Single /\ [Next]_vars /\ IInv /\ IInv' => (Types /\ Single)'
  BY SingleStep DEF IInv
<1> QED BY <1>1, <1>2, TypedAlways, PTL DEF Spec

\* Without newlines in names and files a command ends before the next begins,
\* however long the texts and however many commands are typed.
THEOREM CommandsFollow == ASSUME NoNewline PROVE Spec => []OneCommandAtATime
<1>1. Single => OneCommandAtATime
  BY DEF Single, OneCommandAtATime
<1> QED BY <1>1, SingleAlways, PTL

\* Then, too, nothing a command prints becomes part of the command line.
THEOREM PrintingIsNotTyping == ASSUME NoNewline PROVE Spec => OutputIsNotInput
<1>1. ASSUME Types, Single, [Next]_vars PROVE [Handler => Len(cmd') <= Len(cmd)]_vars
  BY <1>1, SingleStep
<1> QED BY <1>1, SingleAlways, PTL DEF Spec, OutputIsNotInput

=============================================================================
