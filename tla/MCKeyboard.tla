----------------------------- MODULE MCKeyboard -----------------------------
(***************************************************************************)
(* A buffer of three places, which is full with two characters: it wraps   *)
(* round, fills up and empties in a few steps.  The handler is up to three *)
(* codes late: shift may be pressed and let go of around a letter before   *)
(* it has read any of it.                                                  *)
(***************************************************************************)
EXTENDS Keyboard

\* Succ is the remainder that the code computes.
ASSUME SuccIsRemainder ==
  \A i \in Index : Succ(i) = (i + 1) % KB_BUFFER_SIZE

=============================================================================
