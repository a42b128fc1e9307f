------------------------------ MODULE CivilTime -------------------------------
(***************************************************************************)
(* The two hand-written halves of the program's clock: epoch seconds to a  *)
(* UTC date (core/src/graph.rs) and an RFC 3339 time stamp of a transcript *)
(* to epoch milliseconds (core/src/codex_rollout.rs). A text is a record   *)
(* of its fields; its offset is what is read of it, in minutes.            *)
(***************************************************************************)
EXTENDS Integers, Sequences

(* Rust's division, which rounds toward zero.                              *)
LOCAL Quot(a, b) == IF a >= 0 THEN a \div b ELSE -((-a) \div b)

DaysFromCivil(year, m, d) ==
  LET y   == IF m <= 2 THEN year - 1 ELSE year
      era == Quot(IF y >= 0 THEN y ELSE y - 399, 400)
      yoe == y - era * 400
      mp  == (m + 9) % 12
      doy == (153 * mp + 2) \div 5 + d - 1
      doe == yoe * 365 + yoe \div 4 - yoe \div 100 + doy
  IN  era * 146097 + doe - 719468

CivilFromDays(days) ==
  LET z   == days + 719468
      era == Quot(IF z >= 0 THEN z ELSE z - 146096, 146097)
      doe == z - era * 146097
      yoe == (doe - doe \div 1460 + doe \div 36524 - doe \div 146096) \div 365
      doy == doe - (365 * yoe + yoe \div 4 - yoe \div 100)
      mp  == (5 * doy + 2) \div 153
      m   == IF mp < 10 THEN mp + 3 ELSE mp - 9
  IN  [y |-> yoe + era * 400 + (IF m <= 2 THEN 1 ELSE 0), m |-> m,
       d |-> doy - (153 * mp + 2) \div 5 + 1]

(* The text of a whole second: no fraction, and Z.                         *)
FormatEpoch(secs) ==
  LET date == CivilFromDays(secs \div 86400)  rem == secs % 86400 IN
  [y |-> date.y, mo |-> date.m, d |-> date.d, h |-> rem \div 3600,
   mi |-> (rem % 3600) \div 60, s |-> rem % 60, frac |-> <<>>, off |-> 0]

(* The first three digits, filled up with zeros.                           *)
Millis(frac) ==
  LET digit(n) == IF n <= Len(frac) THEN frac[n] ELSE 0
  IN  100 * digit(1) + 10 * digit(2) + digit(3)

InRange(t) == t.mo \in 1 .. 12 /\ t.d \in 1 .. 31 /\ t.h <= 23 /\ t.mi <= 59 /\ t.s <= 60

(* <<seconds, milliseconds>>, or nothing: TLC's integers have 32 bits.     *)
ParseRfc3339(t) ==
  IF InRange(t)
  THEN << <<DaysFromCivil(t.y, t.mo, t.d) * 86400
              + t.h * 3600 + t.mi * 60 + t.s - t.off * 60, Millis(t.frac)>> >>
  ELSE << >>

-----------------------------------------------------------------------------
(* What they promise, on the calendar as one counts it day by day.         *)

Leap(y) == y % 4 = 0 /\ (y % 100 # 0 \/ y % 400 = 0)
MonthDays(y, m) == IF m = 2 THEN IF Leap(y) THEN 29 ELSE 28
                   ELSE IF m \in {4, 6, 9, 11} THEN 30 ELSE 31
NextDay(t) == IF t.d < MonthDays(t.y, t.m) THEN [t EXCEPT !.d = @ + 1]
              ELSE IF t.m < 12 THEN [t EXCEPT !.m = @ + 1, !.d = 1]
              ELSE [y |-> t.y + 1, m |-> 1, d |-> 1]

(* Bounds: 1968 to 2104, with the leap year 2000 and 2100, which is none.  *)
CheckedDays == -731 .. 49307

(* The two conversions count the same days as the calendar, and one undoes *)
(* the other (civil_from_days, days_from_civil).                           *)
ASSUME CalendarIsRight ==
  /\ CivilFromDays(0) = [y |-> 1970, m |-> 1, d |-> 1]
  /\ \A z \in CheckedDays : LET t == CivilFromDays(z) IN
       /\ CivilFromDays(z + 1) = NextDay(t)
       /\ DaysFromCivil(t.y, t.m, t.d) = z

(* What one half writes the other one reads back, to the second; an offset *)
(* and its hour cancel, also over midnight and the end of a year; of a     *)
(* fraction the milliseconds are kept, however short or long it is.        *)
Instants == {86400 * d + s : d \in {0, 58, 59, 364, 365, 789, 11016, 24800},
                             s \in {0, 59, 3599, 3600, 43200, 86399}}
ASSUME TimesAreRead ==
  \A i \in Instants : LET t == FormatEpoch(i) IN
    /\ ParseRfc3339(t) = << <<i, 0>> >>
    /\ \A hours \in -12 .. 14 : i + 3600 * hours >= 0 =>
         ParseRfc3339([FormatEpoch(i + 3600 * hours) EXCEPT !.off = 60 * hours]) = << <<i, 0>> >>
    /\ ParseRfc3339([t EXCEPT !.frac = <<5>>]) = << <<i, 500>> >>
    /\ ParseRfc3339([t EXCEPT !.frac = <<0, 5, 0, 2>>]) = << <<i, 50>> >>
    /\ ParseRfc3339([t EXCEPT !.mo = 13]) = << >>
=============================================================================
