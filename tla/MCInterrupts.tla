------------------------------ MODULE MCInterrupts ------------------------------
(***************************************************************************)
(* The kernel starts a second before an hour or the day ends, so that the  *)
(* carry into minutes, hours and the next day comes between any two of the *)
(* reads, or not at all.                                                   *)
(***************************************************************************)
EXTENDS Interrupts

MCStartTimes == {10 * 3600 - 1, Day - 1}

\* The digits of a byte stand for the byte.
ASSUME DecimalIsExact == \A n \in 0 .. 255 : Shown(Decimal[n]) = n

\* Binary-coded decimals convert back.
ASSUME ConvertedIsExact ==
  \A h \in 0 .. 23, m \in 0 .. 59 :
    Converted([hour |-> Bcd(h), minute |-> Bcd(m), second |-> Bcd(m)])
      = [hour |-> h, minute |-> m, second |-> m]

=============================================================================
