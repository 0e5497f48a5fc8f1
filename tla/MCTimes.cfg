\* Four cycles of 400 years: two before and across the year 0, two around 1970.
SPECIFICATION Spec
CONSTANT Cycles <- SomeCycles
INVARIANT InstantsKeepTheirFields
PROPERTY DatesAreTheCalendar
CHECK_DEADLOCK FALSE
