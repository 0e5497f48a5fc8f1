------------------------------ MODULE MCTimes ------------------------------
(***************************************************************************)
(* The date of every day of some cycles of 400 years.                      *)
(***************************************************************************)
EXTENDS Times

CONSTANT Cycles  \* bound: which cycles, counted from 1970

ASSUME CyclesAssumption == Cycles \subseteq Int

VARIABLE day

Init == day \in {k * DaysPerEra : k \in Cycles}

Next ==
    /\ day \div DaysPerEra \in Cycles
    /\ day' = day + 1

Spec == Init /\ [][Next]_day

\* Before year 0, across it, across 1970, and after it.
SomeCycles == {-6, -5, -1, 0}

-----------------------------------------------------------------------------
Civil == INSTANCE Calendar WITH date <- CivilFromDays(day)

(* The dates that civil_from_days computes, each from its day alone, are   *)
(* those of the calendar, which knows only what the day before was: leap   *)
(* days, ends of centuries and years before 0 included (objectid.rs,       *)
(* civil_from_days).                                                       *)
DatesAreTheCalendar == Civil!Spec

\* Times of a day, at both ends of each field.
TimesOfDay == [hour : {0, 1, 23}, minute : {0, 59}, second : {0, 59}, millis : {0, 1, 999}]

MillisOf(t) == ((t.hour * 60 + t.minute) * 60 + t.second) * 1000 + t.millis

(* The time of day of an instant is the one it was made of, before 1970 as *)
(* well as after it: no field is negative and none borrows from the date   *)
(* (objectid.rs, epoch_millis_to_rfc3339 and format_rfc3339).  The bound   *)
(* is where milliseconds leave the integers of TLC.                        *)
InstantsKeepTheirFields ==
    day \in -20 .. 20 =>
        \A t \in TimesOfDay :
            EpochMillisToRfc3339(day * 86400000 + MillisOf(t)) =
                [date |-> CivilFromDays(day), hour |-> t.hour, minute |-> t.minute,
                 second |-> t.second,
                 millis |-> IF t.millis = 0 THEN <<>> ELSE <<t.millis>>]
=============================================================================
