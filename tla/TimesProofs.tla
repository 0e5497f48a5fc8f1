---------------------------- MODULE TimesProofs ----------------------------
(***************************************************************************)
(* The arithmetic of dates.  What MCTimes checks for a few cycles of 400   *)
(* years is here for every day: the dates of civil_from_days are those of  *)
(* the calendar.                                                           *)
(*                                                                         *)
(* Numerals are large and the provers other than SMT write them as sums of *)
(* ones, so the leaves name SMT.                                           *)
(***************************************************************************)
EXTENDS MCTimes, TLAPS

(* What \div is, for the one divisor the eras have.                        *)
LEMMA DivisionByAnEra ==
    ASSUME NEW z \in Int
    PROVE  /\ z \div 146097 \in Int
           /\ 146097 * (z \div 146097) <= z
           /\ z < 146097 * (z \div 146097) + 146097
  BY SMTT(20)

LEMMA QuotientIsUnique ==
    ASSUME NEW z \in Int, NEW q \in Int, 146097 * q <= z, z < 146097 * q + 146097
    PROVE  z \div 146097 = q
  BY SMTT(20)

(* Rust's division rounds towards zero; the subtraction in front of it     *)
(* makes the era of a negative day count round down like any other.        *)
LEMMA EraRoundsDown ==
    ASSUME NEW z \in Int
    PROVE  Era(z) = z \div 146097
<1>1. CASE z >= 0
  BY <1>1, SMT DEF Era, Quotient, DaysPerEra
<1>2. CASE z < 0
  <2>. DEFINE q == (146096 - z) \div 146097
  <2>1. Era(z) = -q
    <3>1. Era(z) = Quotient(z - 146096, 146097)
      BY <1>2, SMT DEF Era, DaysPerEra
    <3>2. ~(z - 146096 >= 0) /\ -(z - 146096) = 146096 - z
      BY <1>2, SMT
    <3>. QED  BY <3>1, <3>2, SMT DEF Quotient
  <2>2. q \in Int /\ 146097 * q <= 146096 - z /\ 146096 - z < 146097 * q + 146097
    BY DivisionByAnEra, SMT
  <2>. HIDE DEF q
  <2>3. 146097 * (-q) <= z /\ z < 146097 * (-q) + 146097
    BY <2>2, SMT
  <2>. QED  BY <2>1, <2>2, <2>3, QuotientIsUnique, SMT
<1>. QED  BY <1>1, <1>2, SMT

LEMMA EraAndItsDay ==
    ASSUME NEW z \in Int
    PROVE  /\ Era(z) \in Int
           /\ DaysPerEra * Era(z) <= z
           /\ z < DaysPerEra * Era(z) + DaysPerEra
           /\ Era(z + DaysPerEra) = Era(z) + 1
<1>. DEFINE q == z \div 146097
<1>1. q \in Int /\ 146097 * q <= z /\ z < 146097 * q + 146097
  BY DivisionByAnEra, SMT
<1>2. Era(z) = q /\ Era(z + 146097) = (z + 146097) \div 146097
  BY EraRoundsDown, SMT
<1>. HIDE DEF q
<1>3. (z + 146097) \div 146097 = q + 1
  <2>1. 146097 * (q + 1) <= z + 146097 /\ z + 146097 < 146097 * (q + 1) + 146097
    BY <1>1, SMT
  <2>. QED  BY <1>1, <2>1, QuotientIsUnique, SMT
<1>. QED  BY <1>1, <1>2, <1>3, SMT DEF DaysPerEra

LEMMA YearsOfTheNextEra ==
    ASSUME NEW era \in Int, NEW doe \in Int
    PROVE  DateOf(era + 1, doe) = [DateOf(era, doe) EXCEPT !.year = @ + 400]
<1>1. YearOfEra(doe) \in Int
  BY SMTT(30) DEF YearOfEra
<1>2. Year(era + 1, doe) = Year(era, doe) + 400
  BY <1>1, SMT DEF Year
<1>. QED  BY <1>2 DEF DateOf

(* A date of civil_from_days repeats after 146097 days, 400 years later.   *)
(* So the dates of all days are right if those of one such cycle are,      *)
(* which is what the run on the calendar shows.                            *)
THEOREM DatesRepeat ==
    ASSUME NEW days \in Int
    PROVE  LET date == CivilFromDays(days)
           IN  CivilFromDays(days + DaysPerEra) = [date EXCEPT !.year = @ + 400]
<1>. DEFINE z   == days + 719468
            doe == z - Era(z) * DaysPerEra
<1>1. z \in Int /\ (days + DaysPerEra) + 719468 = z + DaysPerEra
  BY SMT DEF DaysPerEra
<1>2. CivilFromDays(days) = DateOf(Era(z), doe)
  BY SMT DEF CivilFromDays
<1>3. CivilFromDays(days + DaysPerEra)
        = DateOf(Era(z + DaysPerEra), (z + DaysPerEra) - Era(z + DaysPerEra) * DaysPerEra)
  BY <1>1, SMT DEF CivilFromDays
<1>. HIDE DEF z
<1>4. Era(z) \in Int /\ Era(z + DaysPerEra) = Era(z) + 1
  BY <1>1, EraAndItsDay
<1>5. doe \in Int /\ (z + DaysPerEra) - (Era(z) + 1) * DaysPerEra = doe
  <2>1. \A e \in Int : (z + 146097) - (e + 1) * 146097 = z - e * 146097
    BY <1>1, SMT
  <2>2. \A e \in Int : z - e * 146097 \in Int
    BY <1>1, SMT
  <2>. QED  BY <1>4, <2>1, <2>2, SMT DEF DaysPerEra
<1>. HIDE DEF doe
<1>6. DateOf(Era(z) + 1, doe) = [DateOf(Era(z), doe) EXCEPT !.year = @ + 400]
  BY <1>4, <1>5, YearsOfTheNextEra
<1>. QED  BY <1>2, <1>3, <1>4, <1>5, <1>6

-----------------------------------------------------------------------------
(* One day later in the same era: either the next day of the same year, or *)
(* the first day of the next one, after the last of this one.  The year    *)
(* that begins in March ends with the February of the year after.          *)
LEMMA DayAfter ==
    ASSUME NEW doe \in Int, 0 <= doe, doe < DaysPerEra - 1
    PROVE  \/ /\ YearOfEra(doe + 1) = YearOfEra(doe)
              /\ DayOfYear(doe + 1) = DayOfYear(doe) + 1
           \/ /\ YearOfEra(doe + 1) = YearOfEra(doe) + 1
              /\ DayOfYear(doe + 1) = 0
              /\ DayOfYear(doe) = IF Civil!Leap(YearOfEra(doe) + 1) THEN 365 ELSE 364
<1>. doe < 146096
  BY SMT DEF DaysPerEra
<1>1. CASE YearOfEra(doe + 1) = YearOfEra(doe)
  BY <1>1, SMTT(60) DEF DayOfYear, YearOfEra
<1>2. CASE YearOfEra(doe + 1) = YearOfEra(doe) + 1
  <2>1. DayOfYear(doe + 1) = 0
    BY <1>2, SMTT(60) DEF DayOfYear, YearOfEra
  <2>2. CASE Civil!Leap(YearOfEra(doe) + 1)
    BY <1>2, <2>1, <2>2, SMTT(60) DEF DayOfYear, YearOfEra, Civil!Leap
  <2>3. CASE ~Civil!Leap(YearOfEra(doe) + 1)
    BY <1>2, <2>1, <2>3, SMTT(60) DEF DayOfYear, YearOfEra, Civil!Leap
  <2>. QED  BY <2>2, <2>3
<1>3. YearOfEra(doe + 1) \in {YearOfEra(doe), YearOfEra(doe) + 1}
  BY SMTT(60) DEF YearOfEra
<1>. QED  BY <1>1, <1>2, <1>3

LEMMA DaysOfAYear ==
    ASSUME NEW doe \in Int, 0 <= doe, doe < DaysPerEra
    PROVE  /\ YearOfEra(doe) \in Int
           /\ DayOfYear(doe) \in Int /\ 0 <= DayOfYear(doe) /\ DayOfYear(doe) <= 365
           /\ ~Civil!Leap(YearOfEra(doe) + 1) => DayOfYear(doe) <= 364
<1>. doe < 146097
  BY SMT DEF DaysPerEra
<1>1. YearOfEra(doe) \in Int
  BY SMT DEF YearOfEra
<1>2. DayOfYear(doe) \in Int /\ 0 <= DayOfYear(doe) /\ DayOfYear(doe) <= 365
  BY SMTT(60) DEF DayOfYear, YearOfEra
<1>3. ~Civil!Leap(YearOfEra(doe) + 1) => DayOfYear(doe) <= 364
  BY SMTT(60) DEF DayOfYear, YearOfEra, Civil!Leap
<1>. QED  BY <1>1, <1>2, <1>3

(* The month and its day, one day of the year later.                       *)
LEMMA MonthAfter ==
    ASSUME NEW doe \in Int, NEW next \in Int,
           DayOfYear(doe) \in Int, 0 <= DayOfYear(doe),
           DayOfYear(next) = DayOfYear(doe) + 1, DayOfYear(next) <= 365
    PROVE  /\ Month(doe) \in Int /\ 1 <= Month(doe) /\ Month(doe) <= 12
           /\ DayOfMonth(doe) \in Int
           /\ \/ /\ Month(next) = Month(doe)
                 /\ DayOfMonth(next) = DayOfMonth(doe) + 1
                 /\ Month(doe) # 2 => DayOfMonth(doe) < Civil!DaysIn(0, Month(doe))
                 /\ Month(doe) = 2 => DayOfMonth(doe) = DayOfYear(next) - 337
              \/ /\ Month(next) = (IF Month(doe) < 12 THEN Month(doe) + 1 ELSE 1)
                 /\ DayOfMonth(next) = 1
                 /\ Month(doe) # 2
                 /\ DayOfMonth(doe) = Civil!DaysIn(0, Month(doe))
  BY SMTT(60) DEF DayOfMonth, Month, MonthFromMarch, Civil!DaysIn

LEMMA EndsOfAYear ==
    ASSUME NEW doe \in Int
    PROVE  /\ DayOfYear(doe) = 0 => Month(doe) = 3 /\ DayOfMonth(doe) = 1
           /\ DayOfYear(doe) \in {364, 365} =>
                  Month(doe) = 2 /\ DayOfMonth(doe) = DayOfYear(doe) - 336
  BY SMTT(60) DEF DayOfMonth, Month, MonthFromMarch

LEMMA LeapYearsRepeat ==
    ASSUME NEW year \in Int, NEW era \in Int
    PROVE  Civil!Leap(year + era * 400) <=> Civil!Leap(year)
  BY SMTT(60) DEF Civil!Leap

LEMMA Months ==
    ASSUME NEW year \in Int, NEW month \in Int
    PROVE  /\ month # 2 => Civil!DaysIn(year, month) = Civil!DaysIn(0, month)
           /\ month = 2 => Civil!DaysIn(year, month) = IF Civil!Leap(year) THEN 29 ELSE 28
  BY SMT DEF Civil!DaysIn

LEMMA TomorrowInTheEra ==
    ASSUME NEW era \in Int, NEW doe \in Int, 0 <= doe, doe < DaysPerEra - 1
    PROVE  DateOf(era, doe + 1) = Civil!Tomorrow(DateOf(era, doe))
<1>. DEFINE year == YearOfEra(doe) + 1 + era * 400
<1>1. /\ YearOfEra(doe) \in Int
      /\ DayOfYear(doe) \in Int /\ 0 <= DayOfYear(doe) /\ DayOfYear(doe) <= 365
      /\ DayOfYear(doe + 1) \in Int /\ DayOfYear(doe + 1) <= 365
      /\ ~Civil!Leap(YearOfEra(doe + 1) + 1) => DayOfYear(doe + 1) <= 364
  BY DaysOfAYear, SMT DEF DaysPerEra
<1>2. year \in Int /\ (Civil!Leap(year) <=> Civil!Leap(YearOfEra(doe) + 1))
  BY <1>1, LeapYearsRepeat, SMT
<1>3. CASE /\ YearOfEra(doe + 1) = YearOfEra(doe) + 1
           /\ DayOfYear(doe + 1) = 0
           /\ DayOfYear(doe) = IF Civil!Leap(YearOfEra(doe) + 1) THEN 365 ELSE 364
  <2>1. Month(doe + 1) = 3 /\ DayOfMonth(doe + 1) = 1
    BY <1>3, EndsOfAYear, SMT
  <2>2. Month(doe) = 2 /\ DayOfMonth(doe) = Civil!DaysIn(year, 2)
    BY <1>2, <1>3, EndsOfAYear, Months, SMT
  <2>3. Year(era, doe) = year /\ Year(era, doe + 1) = year
    BY <1>1, <1>3, <2>1, <2>2, SMT DEF Year
  <2>4. Civil!DaysIn(year, 2) \in Int
    BY <1>2, Months, SMT
  <2>. HIDE DEF year
  <2>. QED  BY <2>1, <2>2, <2>3, <2>4, SMT DEF DateOf, Civil!Tomorrow
<1>4. CASE /\ YearOfEra(doe + 1) = YearOfEra(doe)
           /\ DayOfYear(doe + 1) = DayOfYear(doe) + 1
  <2>. DEFINE y == Year(era, doe)
  <2>1. /\ Month(doe) \in Int /\ 1 <= Month(doe) /\ Month(doe) <= 12
        /\ DayOfMonth(doe) \in Int
    BY <1>1, <1>4, MonthAfter, SMT
  <2>2. /\ y = YearOfEra(doe) + era * 400 + (IF Month(doe) <= 2 THEN 1 ELSE 0)
        /\ Year(era, doe + 1) =
               YearOfEra(doe) + era * 400 + (IF Month(doe + 1) <= 2 THEN 1 ELSE 0)
        /\ y \in Int /\ (Month(doe) = 2 => y = year)
    BY <1>1, <1>4, <2>1, SMT DEF Year
  <2>. HIDE DEF year, y
  <2>3. CASE /\ Month(doe + 1) = Month(doe)
             /\ DayOfMonth(doe + 1) = DayOfMonth(doe) + 1
             /\ Month(doe) # 2 => DayOfMonth(doe) < Civil!DaysIn(0, Month(doe))
             /\ Month(doe) = 2 => DayOfMonth(doe) = DayOfYear(doe + 1) - 337
    <3>1. DayOfMonth(doe) < Civil!DaysIn(y, Month(doe))
      BY <1>1, <1>2, <1>4, <2>1, <2>2, <2>3, Months, SMT
    <3>2. Year(era, doe + 1) = y
      BY <2>2, <2>3
    <3>. QED  BY <2>1, <2>3, <3>1, <3>2, SMT DEF DateOf, Civil!Tomorrow, y
  <2>4. CASE /\ Month(doe + 1) = (IF Month(doe) < 12 THEN Month(doe) + 1 ELSE 1)
             /\ DayOfMonth(doe + 1) = 1
             /\ Month(doe) # 2
             /\ DayOfMonth(doe) = Civil!DaysIn(0, Month(doe))
    <3>1. DayOfMonth(doe) = Civil!DaysIn(y, Month(doe))
      BY <2>1, <2>2, <2>4, Months, SMT
    <3>2. Year(era, doe + 1) = IF Month(doe) < 12 THEN y ELSE y + 1
      BY <1>1, <2>1, <2>2, <2>4, SMT
    <3>. QED  BY <2>1, <2>4, <3>1, <3>2, SMT DEF DateOf, Civil!Tomorrow, y
  <2>. QED  BY <1>1, <1>4, <2>3, <2>4, MonthAfter, SMT
<1>. QED  BY <1>3, <1>4, DayAfter, SMT

(* The last day of an era is a February 29th, the first one March 1st.     *)
LEMMA TomorrowInTheNextEra ==
    ASSUME NEW era \in Int
    PROVE  DateOf(era + 1, 0) = Civil!Tomorrow(DateOf(era, DaysPerEra - 1))
<1>1. /\ YearOfEra(146096) = 399 /\ DayOfYear(146096) = 365
      /\ YearOfEra(0) = 0 /\ DayOfYear(0) = 0
  BY SMT DEF YearOfEra, DayOfYear
<1>2. /\ Month(146096) = 2 /\ DayOfMonth(146096) = 29
      /\ Month(0) = 3 /\ DayOfMonth(0) = 1
  BY <1>1, EndsOfAYear, SMT
<1>. DEFINE year == (era + 1) * 400
<1>3. Year(era, 146096) = year /\ Year(era + 1, 0) = year
  BY <1>1, <1>2, SMT DEF Year
<1>4. year \in Int /\ Civil!Leap(year)
  BY SMT DEF Civil!Leap
<1>. HIDE DEF year
<1>5. Civil!DaysIn(year, 2) = 29
  BY <1>4, Months, SMT
<1>. QED  BY <1>2, <1>3, <1>5, SMT DEF DateOf, Civil!Tomorrow, DaysPerEra

(* Every day lies in one era; its date is that of its place there.         *)
LEMMA DateInItsEra ==
    ASSUME NEW d \in Int
    PROVE  \E era, doe \in Int :
               /\ d + 719468 = 146097 * era + doe
               /\ 0 <= doe /\ doe < 146097
               /\ CivilFromDays(d) = DateOf(era, doe)
<1>. DEFINE z   == d + 719468
            era == Era(z)
            doe == z - era * DaysPerEra
<1>1. z \in Int
  BY SMT
<1>2. CivilFromDays(d) = DateOf(era, doe)
  BY SMT DEF CivilFromDays
<1>. HIDE DEF z
<1>3. era \in Int /\ 146097 * era <= z /\ z < 146097 * era + 146097
  BY <1>1, EraAndItsDay, SMT DEF DaysPerEra
<1>. HIDE DEF era
<1>4. doe \in Int /\ z = 146097 * era + doe /\ 0 <= doe /\ doe < 146097
  BY <1>1, <1>3, SMT DEF DaysPerEra
<1>. HIDE DEF doe
<1>. QED  BY <1>2, <1>3, <1>4, SMT DEF z

LEMMA TomorrowIsTheDayAfter ==
    ASSUME NEW d \in Int
    PROVE  CivilFromDays(d + 1) = Civil!Tomorrow(CivilFromDays(d))
<1>1. PICK e, doe \in Int :
          /\ d + 719468 = 146097 * e + doe
          /\ 0 <= doe /\ doe < 146097
          /\ CivilFromDays(d) = DateOf(e, doe)
  BY DateInItsEra, SMT
<1>2. PICK f, next \in Int :
          /\ (d + 1) + 719468 = 146097 * f + next
          /\ 0 <= next /\ next < 146097
          /\ CivilFromDays(d + 1) = DateOf(f, next)
  <2>1. d + 1 \in Int
    BY SMT
  <2>. QED  BY <2>1, DateInItsEra, SMT
<1>3. 146097 * f + next = 146097 * e + (doe + 1)
  BY <1>1, <1>2, SMT
<1>4. CASE doe < 146096
  <2>1. f = e /\ next = doe + 1
    BY <1>1, <1>2, <1>3, <1>4, SMT
  <2>2. DateOf(e, doe + 1) = Civil!Tomorrow(DateOf(e, doe))
    BY <1>1, <1>4, TomorrowInTheEra, SMT DEF DaysPerEra
  <2>. QED  BY <1>1, <1>2, <2>1, <2>2, SMT
<1>5. CASE doe = 146096
  <2>1. f = e + 1 /\ next = 0
    BY <1>2, <1>3, <1>5, SMT
  <2>2. DateOf(e + 1, 0) = Civil!Tomorrow(DateOf(e, 146096))
    BY TomorrowInTheNextEra, SMT DEF DaysPerEra
  <2>. QED  BY <1>1, <1>2, <1>5, <2>1, <2>2, SMT
<1>. QED  BY <1>1, <1>4, <1>5, SMT

(* January 1st, 1970 and whole cycles from it.                             *)
LEMMA CyclesBeginInJanuary ==
    ASSUME NEW k \in Int
    PROVE  /\ (k * DaysPerEra) % 146097 = 0 /\ (k * DaysPerEra) \div 146097 = k
           /\ CivilFromDays(k * DaysPerEra) = [year |-> 1970 + 400 * k, month |-> 1, day |-> 1]
<1>. DEFINE z == k * DaysPerEra + 719468
<1>1. (k * DaysPerEra) % 146097 = 0 /\ (k * DaysPerEra) \div 146097 = k
  BY SMT DEF DaysPerEra
<1>2. z \in Int /\ 146097 * (k + 4) <= z /\ z < 146097 * (k + 4) + 146097
  BY SMT DEF DaysPerEra
<1>3. Era(z) = k + 4
  <2>. HIDE DEF z
  <2>. QED  BY <1>2, EraRoundsDown, QuotientIsUnique, SMT
<1>4. z - (k + 4) * DaysPerEra = 135080
  BY SMT DEF DaysPerEra
<1>5. YearOfEra(135080) = 369 /\ Month(135080) = 1 /\ DayOfMonth(135080) = 1
  BY SMT DEF YearOfEra, DayOfYear, Month, MonthFromMarch, DayOfMonth
<1>6. Year(k + 4, 135080) = 1970 + 400 * k
  BY <1>5, SMT DEF Year
<1>7. CivilFromDays(k * DaysPerEra) = DateOf(Era(z), z - Era(z) * DaysPerEra)
  BY SMT DEF CivilFromDays
<1>. HIDE DEF z
<1>. QED  BY <1>1, <1>3, <1>4, <1>5, <1>6, <1>7, SMT DEF DateOf

(* The dates computed day by day are those of the calendar, for every      *)
(* choice of cycles: civil_from_days is right on every day.                *)
THEOREM DatesImplementTheCalendar == Spec => DatesAreTheCalendar
<1>. DEFINE WholeDay == day \in Int
<1>1. Init => Civil!Init /\ WholeDay
  <2>. SUFFICES ASSUME Init PROVE Civil!Init /\ WholeDay
    OBVIOUS
  <2>1. PICK k \in Cycles : day = k * DaysPerEra
    BY DEF Init
  <2>2. k \in Int
    BY CyclesAssumption
  <2>3. /\ day % 146097 = 0 /\ day \div 146097 = k
        /\ CivilFromDays(day) = [year |-> 1970 + 400 * k, month |-> 1, day |-> 1]
    <3>1. /\ (k * DaysPerEra) % 146097 = 0 /\ (k * DaysPerEra) \div 146097 = k
          /\ CivilFromDays(k * DaysPerEra)
                 = [year |-> 1970 + 400 * k, month |-> 1, day |-> 1]
      BY <2>2, CyclesBeginInJanuary, SMT
    <3>. QED  BY <2>1, <3>1, SMT
  <2>4. day \in Int
    BY <2>1, <2>2, SMT DEF DaysPerEra
  <2>. QED  BY <2>3, <2>4, SMT DEF Civil!Init
<1>2. WholeDay /\ [Next]_day => [Civil!Next]_<<day, CivilFromDays(day)>> /\ WholeDay'
  <2>. SUFFICES ASSUME WholeDay, [Next]_day
                PROVE  [Civil!Next]_<<day, CivilFromDays(day)>> /\ WholeDay'
    OBVIOUS
  <2>1. CASE Next
    <3>1. day' = day + 1 /\ WholeDay'
      BY <2>1, SMT DEF Next
    <3>2. CivilFromDays(day') = Civil!Tomorrow(CivilFromDays(day))
      BY <3>1, TomorrowIsTheDayAfter
    <3>. QED  BY <3>1, <3>2 DEF Civil!Next
  <2>2. CASE UNCHANGED day
    BY <2>2
  <2>. QED  BY <2>1, <2>2
<1>. HIDE DEF WholeDay
<1>. QED  BY <1>1, <1>2, PTL DEF Spec, DatesAreTheCalendar, Civil!Spec

(* No field of a time of day leaves its range, before 1970 or after, and   *)
(* together they are the second that was given.                            *)
THEOREM TimesOfDayAreExact ==
    ASSUME NEW secs \in Int, NEW nanos \in Nat
    PROVE  LET t == FormatRfc3339(secs, nanos)
           IN  /\ t.hour \in 0 .. 23 /\ t.minute \in 0 .. 59 /\ t.second \in 0 .. 59
               /\ secs = 86400 * DivEuclid(secs, 86400)
                             + 3600 * t.hour + 60 * t.minute + t.second
  BY SMTT(60) DEF FormatRfc3339, DivEuclid, RemEuclid

LEMMA FieldsOfADay ==
    ASSUME NEW h \in Int, NEW m \in Int, NEW s \in Int,
           0 <= h, 0 <= m, m < 60, 0 <= s, s < 60
    PROVE  /\ ((h * 60 + m) * 60 + s) \div 3600 = h
           /\ (((h * 60 + m) * 60 + s) % 3600) \div 60 = m
           /\ ((h * 60 + m) * 60 + s) % 60 = s
<1>. DEFINE ofDay == (h * 60 + m) * 60 + s
            rest  == m * 60 + s
<1>1. /\ ofDay \in Int /\ ofDay = 3600 * h + rest
      /\ rest \in Int /\ 0 <= rest /\ rest < 3600
  BY SMT
<1>2. rest \div 60 = m /\ rest % 60 = s
  BY SMT
<1>3. ofDay % 60 = s
  BY SMT
<1>. HIDE DEF rest
<1>4. ofDay \div 3600 = h /\ ofDay % 3600 = rest
  <2>. HIDE DEF ofDay
  <2>. QED  BY <1>1, SMT
<1>. QED  BY <1>2, <1>3, <1>4, SMT

(* An instant made of a day and a time of that day is rendered as that     *)
(* date and time, on every day, before 1970 as well.                       *)
THEOREM InstantsOfEveryDay ==
    ASSUME NEW d \in Int, NEW t \in TimesOfDay
    PROVE  EpochMillisToRfc3339(d * 86400000 + MillisOf(t)) =
              [date |-> CivilFromDays(d), hour |-> t.hour, minute |-> t.minute,
               second |-> t.second,
               millis |-> IF t.millis = 0 THEN <<>> ELSE <<t.millis>>]
<1>. DEFINE total == d * 86400000 + MillisOf(t)
            ofDay == (t.hour * 60 + t.minute) * 60 + t.second
            secs  == d * 86400 + ofDay
<1>1. /\ t.hour \in Int /\ 0 <= t.hour /\ t.hour < 24
      /\ t.minute \in Int /\ 0 <= t.minute /\ t.minute < 60
      /\ t.second \in Int /\ 0 <= t.second /\ t.second < 60
      /\ t.millis \in Int /\ 0 <= t.millis /\ t.millis < 1000
  BY SMT DEF TimesOfDay
<1>2. ofDay \in Int /\ 0 <= ofDay /\ ofDay < 86400
  BY <1>1, SMT
<1>3. total = secs * 1000 + t.millis
  BY <1>1, SMT DEF MillisOf
<1>4. DivEuclid(total, 1000) = secs /\ RemEuclid(total, 1000) = t.millis
  <2>. HIDE DEF ofDay, total
  <2>. QED  BY <1>1, <1>2, <1>3, SMT DEF DivEuclid, RemEuclid
<1>5. /\ t.millis * 1000000 = 0 <=> t.millis = 0
      /\ (t.millis * 1000000) \div 1000000 = t.millis
  BY <1>1, SMT
<1>6. DivEuclid(secs, 86400) = d /\ RemEuclid(secs, 86400) = ofDay
  <2>. HIDE DEF ofDay
  <2>. QED  BY <1>2, SMT DEF DivEuclid, RemEuclid
<1>7. /\ ofDay \div 3600 = t.hour /\ (ofDay % 3600) \div 60 = t.minute
      /\ ofDay % 60 = t.second
  <2>. DEFINE h == t.hour
              m == t.minute
              s == t.second
  <2>1. /\ h \in Int /\ 0 <= h /\ m \in Int /\ 0 <= m /\ m < 60
        /\ s \in Int /\ 0 <= s /\ s < 60
    BY <1>1, SMT
  <2>. HIDE DEF h, m, s
  <2>2. /\ ((h * 60 + m) * 60 + s) \div 3600 = h
        /\ (((h * 60 + m) * 60 + s) % 3600) \div 60 = m
        /\ ((h * 60 + m) * 60 + s) % 60 = s
    BY <2>1, FieldsOfADay
  <2>. QED  BY <2>2, SMT DEF h, m, s
<1>. HIDE DEF total, secs, ofDay
<1>8. FormatRfc3339(secs, t.millis * 1000000) =
              [date |-> CivilFromDays(d), hour |-> t.hour, minute |-> t.minute,
               second |-> t.second,
               millis |-> IF t.millis = 0 THEN <<>> ELSE <<t.millis>>]
  BY <1>5, <1>6, <1>7, SMT DEF FormatRfc3339
<1>9. EpochMillisToRfc3339(total) = FormatRfc3339(secs, t.millis * 1000000)
  BY <1>4, SMT DEF EpochMillisToRfc3339
<1>. QED  BY <1>8, <1>9, SMT DEF total

(* The invariant of the run, which looks at the days around 1970.          *)
THEOREM InstantsAlwaysKeepTheirFields == Spec => []InstantsKeepTheirFields
<1>1. InstantsKeepTheirFields
  <2>1. day \in -20 .. 20 => day \in Int
    BY SMT
  <2>. QED  BY <2>1, InstantsOfEveryDay, SMT DEF InstantsKeepTheirFields
<1>. QED  BY <1>1, PTL
=============================================================================
