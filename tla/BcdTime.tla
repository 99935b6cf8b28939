------------------------------- MODULE BcdTime -------------------------------
(***************************************************************************)
(* The times of a header: six bytes of two decimal digits each, which      *)
(* bcd_valid accepts and parse_header and process convert; and what they   *)
(* mean by the calendar.                                                   *)
(***************************************************************************)
EXTENDS Naturals

CONSTANT Nil  \* no time

Time(y, mo, d, h, mi, s) ==
    [year |-> y, month |-> mo, day |-> d, hour |-> h, minute |-> mi, second |-> s]

\* The two digits of a byte.
Tens(b) == b \div 16
Ones(b) == b % 16

IsBcd(b) == Tens(b) < 10 /\ Ones(b) < 10
BcdInt(b) == Tens(b) * 10 + Ones(b)

LeapYear_bugCentury(year) == year % 4 = 0 /\ year % 100 # 0

\* The macros leapyear (of the years of a century) and longmonth (of a month;
\* only the last bit of the exclusive or counts).
LeapYear(year) == year % 400 = 0 \/ (year % 4 = 0 /\ year % 100 # 0)
LongMonth(month) == (month \div 8 + month) % 2 = 1

\* The bytes are hour, minute, second, day, month and year.
BcdValid(b) ==
    /\ \A k \in 1 .. 6 : IsBcd(b[k])
    /\ BcdInt(b[1]) <= 23 /\ BcdInt(b[2]) <= 59 /\ BcdInt(b[3]) <= 60
    /\ LET day   == BcdInt(b[4])
           month == BcdInt(b[5])
       IN  /\ month \in 1 .. 12
           /\ day >= 1
           /\ \/ day <= 28
              \/ LeapYear(BcdInt(b[6])) /\ day <= 29
              \/ month # 2 /\ day <= 30
              \/ LongMonth(month) /\ day <= 31

\* The conversion in parse_header and in process.
FromBcd(b) ==
    IF BcdValid(b)
    THEN Time(BcdInt(b[6]) + 2000, BcdInt(b[5]), BcdInt(b[4]),
              BcdInt(b[1]), BcdInt(b[2]), BcdInt(b[3]))
    ELSE Nil

-----------------------------------------------------------------------------
(***************************************************************************)
(* The calendar: the reference                                             *)
(***************************************************************************)

DaysOf(month, year) ==
    CASE month \in {1, 3, 5, 7, 8, 10, 12} -> 31
      [] month \in {4, 6, 9, 11} -> 30
      [] OTHER -> IF (year % 4 = 0 /\ year % 100 # 0) \/ year % 400 = 0 THEN 29 ELSE 28

\* The numbers that b is in decimal digits: one, or none.
Decimals(b) == {n \in 0 .. 99 : b = 16 * (n \div 10) + (n % 10)}

\* The times of this century that six bytes stand for: one, or none.  A leap
\* second is one.
Meanings(b) ==
    {t \in {Time(2000 + y, mo, d, h, mi, s) :
               y \in Decimals(b[6]), mo \in Decimals(b[5]) \cap 1 .. 12,
               d \in Decimals(b[4]) \cap 1 .. 31, h \in Decimals(b[1]) \cap 0 .. 23,
               mi \in Decimals(b[2]) \cap 0 .. 59, s \in Decimals(b[3]) \cap 0 .. 60} :
        t.day <= DaysOf(t.month, t.year)}

CalendarTime(b) == IF Meanings(b) = {} THEN Nil ELSE CHOOSE t \in Meanings(b) : TRUE
=============================================================================
