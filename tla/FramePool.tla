----------------------------- MODULE FramePool -----------------------------
(***************************************************************************)
(* What the physical page allocator promises: a set of frames, opened once *)
(* by the boot code, from which a client takes any free frame, to which it *)
(* gives frames back, and which answers "none" only when nothing is free.  *)
(*                                                                         *)
(* There is no order here, no hint and no counter: those belong to         *)
(* PageAllocator, which is shown to implement this module.                 *)
(***************************************************************************)
EXTENDS Integers

CONSTANT Pool    \* the frames the machine's memory map offers

VARIABLES
  open,          \* has the boot code filled the pool?
  free,          \* the frames nobody holds
  ret            \* answer to the last request: a frame, or 0 for "none"

vars == <<open, free, ret>>

Init ==
  /\ open = FALSE
  /\ free = {}
  /\ ret = 0

Open ==
  /\ ~open
  /\ open' = TRUE
  /\ free' = Pool
  /\ UNCHANGED ret

Take ==
  /\ open
  /\ \E p \in free : /\ free' = free \ {p}
                     /\ ret' = p
  /\ UNCHANGED open

Exhausted ==
  /\ open
  /\ free = {}
  /\ ret' = 0
  /\ UNCHANGED <<open, free>>

Give ==
  /\ open
  /\ \E p \in Pool \ free : free' = free \cup {p}
  /\ UNCHANGED <<open, ret>>

Next == Open \/ Take \/ Exhausted \/ Give

Spec == Init /\ [][Next]_vars

=============================================================================
