------------------------------ MODULE Numbers ------------------------------
(***************************************************************************)
(* What bson-worker/src/value_in.rs makes of the integers and the instants *)
(* of SQL when it encodes them.  The widths of the code, 32 and 64 bits,   *)
(* are constants here.                                                     *)
(***************************************************************************)
EXTENDS Times

CONSTANTS Int32Max,  \* i32::MAX
          Int64Max,  \* i64::MAX
          Spacing    \* between the doubles from i64::MAX to u64::MAX

Int64 == -Int64Max - 1 .. Int64Max
UInt64 == 0 .. 2 * Int64Max + 1

\* The first integer past i64 is a double.
ASSUME NumbersAssumption ==
    /\ Int32Max \in Nat /\ Int64Max \in Nat /\ Spacing \in Nat \ {0}
    /\ Int32Max <= Int64Max
    /\ (Int64Max + 1) % Spacing = 0

\* `v as f64` past i64::MAX: the nearest double, the even one of two.
NearestDouble(v) ==
    LET below == v \div Spacing
        rest  == v % Spacing
    IN  IF 2 * rest > Spacing \/ (2 * rest = Spacing /\ below % 2 = 1)
        THEN Spacing * (below + 1) ELSE Spacing * below

IntFromU64(v) ==
    IF v <= Int32Max THEN [type |-> "Int32", n |-> v]
    ELSE IF v <= Int64Max THEN [type |-> "Int64", n |-> v]
    ELSE [type |-> "Double", n |-> NearestDouble(v)]

SaturatingMul(v, k) ==
    IF v * k > Int64Max THEN Int64Max
    ELSE IF v * k < -Int64Max - 1 THEN -Int64Max - 1
    ELSE v * k

TimestampMillis(unit, v) ==
    CASE unit = "s"  -> SaturatingMul(v, 1000)
      [] unit = "ms" -> v
      [] unit = "us" -> Quotient(v, 1000)
      [] unit = "ns" -> Quotient(v, 1000000)

-----------------------------------------------------------------------------
\* m milliseconds are n units, without what is less than a millisecond.
CutTowards1970(n, m, units) ==
    IF n >= 0 THEN m * units <= n /\ n < (m + 1) * units
    ELSE (m - 1) * units < n /\ n <= m * units
=============================================================================
