---------------------------- MODULE BoundedQueue ----------------------------
(***************************************************************************)
(* What the keyboard buffer promises its reader: the characters come out   *)
(* in the order they went in, each once, and only those that came when the *)
(* queue was full are missing.                                             *)
(***************************************************************************)
EXTENDS Integers, Sequences

CONSTANTS
  Char,            \* what the queue holds; NoChar is not among them
  NoChar,          \* the answer of an empty queue
  Capacity

VARIABLES
  q,               \* the characters waiting
  got              \* the last answer: a character, or NoChar

vars == <<q, got>>

Init ==
  /\ q = <<>>
  /\ got = NoChar

Put ==
  /\ Len(q) < Capacity
  /\ \E c \in Char : q' = Append(q, c)
  /\ UNCHANGED got

Get ==
  /\ q # <<>>
  /\ got' = Head(q)
  /\ q' = Tail(q)

None ==
  /\ q = <<>>
  /\ got' = NoChar
  /\ UNCHANGED q

Next == Put \/ Get \/ None

Spec == Init /\ [][Next]_vars

=============================================================================
