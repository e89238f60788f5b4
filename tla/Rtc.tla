---------------------------------- MODULE Rtc ----------------------------------
(***************************************************************************)
(* src/src/rtc.c on the clock chip, and how kmain writes the time it read. *)
(* The chip has one register that selects which of the others its data     *)
(* port shows; the kernel and the handler of the clock's interrupt share   *)
(* it.  The chip keeps binary-coded decimals and a day of 24 hours, as     *)
(* firmware sets it up, and changes all its registers at once.             *)
(***************************************************************************)
EXTENDS Integers, Sequences

CONSTANTS
  StartTimes,      \* seconds since midnight when the kernel starts
  MaxSeconds       \* bound: seconds that pass until the time is written

Day == 86400

ASSUME RtcAssumption == StartTimes \subseteq 0 .. Day - 1 /\ MaxSeconds \in Nat

Field == {"hour", "minute", "second"}
RegisterOf == [hour |-> 4, minute |-> 2, second |-> 0]
RegisterA == 10
RegisterC == 12

VARIABLES
  clock, elapsed,  \* seconds since midnight, and since the start
  selected,        \* the register behind the data port
  periodic,        \* does the chip ask for interrupts?
  time,            \* rtc_read_time's hour, minute and second
  written          \* the digits on the screen, once they are there

rtc == <<clock, elapsed, selected, periodic, time, written>>

RtcInit ==
  /\ clock \in StartTimes
  /\ elapsed = 0
  /\ selected = 0
  /\ periodic = FALSE
  /\ time = [f \in Field |-> 0]
  /\ written = <<>>

\* The clock is followed until its time has been written.
SecondPasses ==
  /\ elapsed < MaxSeconds /\ written = <<>>
  /\ clock' = (clock + 1) % Day
  /\ elapsed' = elapsed + 1
  /\ UNCHANGED <<selected, periodic, time, written>>

Bcd(n) == 16 * (n \div 10) + (n % 10)

\* Register C, read with its flags up, is no time.
DataPort ==
  CASE selected = RegisterOf.hour   -> Bcd(clock \div 3600)
    [] selected = RegisterOf.minute -> Bcd((clock \div 60) % 60)
    [] selected = RegisterOf.second -> Bcd(clock % 60)
    [] OTHER                        -> 192

\* rtc_init: the periodic interrupt on, at the rate register A is given.
SetPeriodic ==
  /\ periodic' = TRUE
  /\ selected' = RegisterA
  /\ UNCHANGED <<clock, elapsed, time, written>>

Select(register) ==
  /\ selected' = register
  /\ UNCHANGED <<clock, elapsed, periodic, time, written>>

\* Bit 7 of the hour marks an afternoon of 12 hours: then nothing is converted.
Converted(t) ==
  IF t.hour >= 128 THEN t
  ELSE [f \in Field |-> (t[f] % 16) + (t[f] \div 16) * 10]

\* terminal_write_dec: the digits of a byte, the last one found first.
Decimal[n \in 0 .. 255] ==
  IF n < 10 THEN <<n>> ELSE Append(Decimal[n \div 10], n % 10)

ReadField(f) ==
  /\ time' = [time EXCEPT ![f] = DataPort]
  /\ UNCHANGED <<clock, elapsed, selected, periodic, written>>

\* With the seconds the time is complete; kmain writes it.
ReadAndWrite(f) ==
  /\ time' = Converted([time EXCEPT ![f] = DataPort])
  /\ written' = [g \in Field |-> Decimal[time'[g]]]
  /\ UNCHANGED <<clock, elapsed, selected, periodic>>

-----------------------------------------------------------------------------
\* The number a reader of the screen sees.
Shown(digits) ==
  LET value[i \in 0 .. Len(digits)] ==
        IF i = 0 THEN 0 ELSE 10 * value[i - 1] + digits[i]
  IN  value[Len(digits)]

\* The time on the screen is the clock's at the moment the seconds were read,
\* or, when a carry came between two of the reads, one minute or one hour
\* behind it.  It is never ahead, and never made of other registers
\* (rtc.c:25-40, main.c:138-145).
TimeIsRecent ==
  written # <<>> =>
    LET shown == 3600 * Shown(written.hour) + 60 * Shown(written.minute)
                   + Shown(written.second)
    IN  (clock - shown) % Day \in {0, 60, 3600}

=============================================================================
