------------------------------ MODULE Calendar ------------------------------
(***************************************************************************)
(* The calendar, one day after the other.  It is 1970-01-01 on day 0, and  *)
(* on the day that many whole cycles of 400 years earlier or later it is   *)
(* January 1st of the year that many cycles earlier or later.              *)
(***************************************************************************)
EXTENDS Integers

VARIABLES day,  \* days since 1970-01-01
          date

Leap(year) == year % 4 = 0 /\ (year % 100 = 0 => year % 400 = 0)

DaysIn(year, month) ==
    CASE month = 2              -> IF Leap(year) THEN 29 ELSE 28
      [] month \in {4, 6, 9, 11} -> 30
      [] OTHER                  -> 31

Tomorrow(d) ==
    IF d.day < DaysIn(d.year, d.month)
    THEN [year |-> d.year, month |-> d.month, day |-> d.day + 1]
    ELSE IF d.month < 12 THEN [year |-> d.year, month |-> d.month + 1, day |-> 1]
    ELSE [year |-> d.year + 1, month |-> 1, day |-> 1]

Init ==
    /\ day % 146097 = 0
    /\ date = [year |-> 1970 + 400 * (day \div 146097), month |-> 1, day |-> 1]

Next ==
    /\ day' = day + 1
    /\ date' = Tomorrow(date)

Spec == Init /\ [][Next]_<<day, date>>
=============================================================================
