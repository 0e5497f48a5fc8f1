------------------------------- MODULE Times -------------------------------
(***************************************************************************)
(* Times as bson-core/src/objectid.rs renders them: counts of seconds or   *)
(* milliseconds since 1970 to the fields of a date and a time.  The        *)
(* integers are i64 in the code, which no value of the 64-bit inputs       *)
(* leaves; a rendered text is the record of its fields.                    *)
(***************************************************************************)
EXTENDS Integers

\* `/` for a positive divisor: it rounds towards zero.
Quotient(a, b) == IF a >= 0 THEN a \div b ELSE -((-a) \div b)

\* div_euclid and rem_euclid round down, as \div and % do.
DivEuclid(a, b) == a \div b
RemEuclid(a, b) == a % b

DaysPerEra == 146097

\* A bug: days before the first era are divided as they are.
EraTowardsZero(z) == Quotient(z, DaysPerEra)

\* Eras of 400 years that begin on March 1st.
Era(z) == Quotient(IF z >= 0 THEN z ELSE z - (DaysPerEra - 1), DaysPerEra)

YearOfEra(doe) == (doe - doe \div 1460 + doe \div 36524 - doe \div 146096) \div 365

DayOfYear(doe) == LET yoe == YearOfEra(doe) IN
    doe - (365 * yoe + yoe \div 4 - yoe \div 100)

MonthFromMarch(doe) == (5 * DayOfYear(doe) + 2) \div 153

Month(doe) == LET mp == MonthFromMarch(doe) IN IF mp < 10 THEN mp + 3 ELSE mp - 9

DayOfMonth(doe) == DayOfYear(doe) - (153 * MonthFromMarch(doe) + 2) \div 5 + 1

\* January and February belong to the year after.
Year(era, doe) == YearOfEra(doe) + era * 400 + (IF Month(doe) <= 2 THEN 1 ELSE 0)

DateOf(era, doe) ==
    [year |-> Year(era, doe), month |-> Month(doe), day |-> DayOfMonth(doe)]

CivilFromDays(days) ==
    LET z == days + 719468 IN DateOf(Era(z), z - Era(z) * DaysPerEra)

FormatRfc3339(secs, nanos) ==
    LET rem == RemEuclid(secs, 86400)
    IN  [date   |-> CivilFromDays(DivEuclid(secs, 86400)),
         hour   |-> rem \div 3600,
         minute |-> (rem % 3600) \div 60,
         second |-> rem % 60,
         millis |-> IF nanos = 0 THEN <<>> ELSE <<nanos \div 1000000>>]

\* A bug: the remainder is that of a division towards zero.
MillisTowardsZero(millis) ==
    FormatRfc3339(Quotient(millis, 1000), (millis - Quotient(millis, 1000) * 1000) * 1000000)

EpochMillisToRfc3339(millis) ==
    FormatRfc3339(DivEuclid(millis, 1000), RemEuclid(millis, 1000) * 1000000)

EpochSecsToRfc3339(secs) == FormatRfc3339(secs, 0)
=============================================================================
