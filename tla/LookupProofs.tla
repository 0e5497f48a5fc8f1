---------------------------- MODULE LookupProofs ----------------------------
(***************************************************************************)
(* keys, type_of and field find what a path addresses, in every document   *)
(* and in what is encoded of every SQL value, whatever their size, and a   *)
(* value that is encoded is kept.                                          *)
(*                                                                         *)
(* The invariant says that the walk is at the one part that the segments   *)
(* before it lead to.  It rests on what Settled makes of a tree: of equal  *)
(* keys the last field stays, and what is not reached any more is gone.    *)
(***************************************************************************)
EXTENDS Paths, SequenceTheorems, WellFoundedInduction, TLAPS

-----------------------------------------------------------------------------
(* Integers and instants that are encoded.                                 *)

(* Division and remainder by a divisor that is a constant of the model.    *)
LEMMA Division ==
    ASSUME NEW v \in Nat, NEW s \in Nat \ {0}
    PROVE  /\ v \div s \in Nat /\ v % s \in 0 .. s - 1
           /\ v = s * (v \div s) + (v % s)
<1>1. v \div s \in Nat
  BY SMTT(20)
<1>2. v % s \in 0 .. s - 1
  BY SMTT(20)
<1>3. v = s * (v \div s) + (v % s)
  BY SMTT(20)
<1>. QED  BY <1>1, <1>2, <1>3

LEMMA ProductsGrow ==
    ASSUME NEW s \in Nat \ {0}, NEW a \in Int, NEW b \in Int, a + 1 <= b
    PROVE  s * a \in Int /\ s * a + s <= s * b
<1>1. s * (a + 1) = s * a + s
  BY SMT
<1>2. s * (a + 1) <= s * b
  BY SMTT(30)
<1>. QED  BY <1>1, <1>2, SMT

(* The nearest double is half a spacing away at most.                      *)
LEMMA DoublesAreNear ==
    ASSUME NEW v \in Nat
    PROVE  LET below == v \div Spacing IN
           /\ NearestDouble(v) \in {Spacing * below, Spacing * below + Spacing}
           /\ 2 * (NearestDouble(v) - v) <= Spacing
           /\ 2 * (v - NearestDouble(v)) <= Spacing
           /\ NearestDouble(v) \in Nat
<1>. DEFINE q == v \div Spacing
            r == v % Spacing
<1>1. Spacing \in Nat \ {0}
  BY NumbersAssumption
<1>2. q \in Nat /\ r \in 0 .. Spacing - 1 /\ v = Spacing * q + r
  BY <1>1, Division
<1>3. Spacing * (q + 1) = Spacing * q + Spacing /\ Spacing * q \in Nat
  BY <1>1, <1>2, SMT
<1>4. NearestDouble(v) = IF 2 * r > Spacing \/ (2 * r = Spacing /\ q % 2 = 1)
                         THEN Spacing * (q + 1) ELSE Spacing * q
  BY DEF NearestDouble
<1>. HIDE DEF q, r
<1>5. NearestDouble(v) \in {Spacing * q, Spacing * q + Spacing}
  BY <1>3, <1>4, SMT
<1>6. CASE 2 * r > Spacing \/ (2 * r = Spacing /\ q % 2 = 1)
  BY <1>1, <1>2, <1>3, <1>4, <1>5, <1>6, SMT DEF q
<1>7. CASE ~(2 * r > Spacing \/ (2 * r = Spacing /\ q % 2 = 1))
  <2>1. 2 * r <= Spacing
    BY <1>1, <1>2, <1>7, SMT
  <2>. QED  BY <1>1, <1>2, <1>3, <1>4, <1>5, <1>7, <2>1, SMT DEF q
<1>. QED  BY <1>6, <1>7

(* Of two doubles the greater is that of the greater integer.              *)
LEMMA DoublesKeepOrder ==
    ASSUME NEW v \in Nat, NEW w \in Nat, v <= w
    PROVE  NearestDouble(v) <= NearestDouble(w)
<1>1. Spacing \in Nat \ {0}
  BY NumbersAssumption
<1>. DEFINE Divided(x, n, r) ==
              /\ n \in Nat /\ r \in 0 .. Spacing - 1 /\ Spacing * n \in Nat
              /\ x = Spacing * n + r
              /\ NearestDouble(x) = IF 2 * r > Spacing \/ (2 * r = Spacing /\ n % 2 = 1)
                                    THEN Spacing * n + Spacing ELSE Spacing * n
<1>2. ASSUME NEW x \in Nat
      PROVE  Divided(x, x \div Spacing, x % Spacing)
  <2>1. /\ x \div Spacing \in Nat /\ x % Spacing \in 0 .. Spacing - 1
        /\ x = Spacing * (x \div Spacing) + (x % Spacing)
    BY <1>1, Division
  <2>2. /\ Spacing * (x \div Spacing) \in Nat
        /\ Spacing * ((x \div Spacing) + 1) = Spacing * (x \div Spacing) + Spacing
    BY <1>1, <2>1, SMT
  <2>3. NearestDouble(x) = IF 2 * (x % Spacing) > Spacing
                              \/ (2 * (x % Spacing) = Spacing /\ (x \div Spacing) % 2 = 1)
                           THEN Spacing * ((x \div Spacing) + 1)
                           ELSE Spacing * (x \div Spacing)
    BY DEF NearestDouble
  <2>. QED  BY <2>1, <2>2, <2>3
<1>3. PICK a, r : Divided(v, a, r)
  BY <1>2
<1>4. PICK b, t : Divided(w, b, t)
  BY <1>2
<1>5. CASE a + 1 <= b
  <2>1. Spacing * a + Spacing <= Spacing * b
    BY <1>1, <1>3, <1>4, <1>5, ProductsGrow
  <2>. QED  BY <1>1, <1>3, <1>4, <2>1, SMT
<1>6. CASE a = b
  <2>1. PICK p \in Nat : p = Spacing * a /\ p = Spacing * b
    BY <1>3, <1>6
  <2>. QED  BY <1>1, <1>3, <1>4, <1>6, <2>1, SMT
<1>7. CASE b + 1 <= a
  <2>1. Spacing * b + Spacing <= Spacing * a
    BY <1>1, <1>3, <1>4, <1>7, ProductsGrow
  <2>. QED  BY <1>1, <1>3, <1>4, <2>1, SMT
<1>. QED  BY <1>3, <1>4, <1>5, <1>6, <1>7, SMT

-----------------------------------------------------------------------------
(* An integer of u64 that an i64 holds is encoded as itself, with the      *)
(* narrowest type; a greater one becomes the nearest double, greater than  *)
(* all of i64 (value_in.rs, int_from_u64).                                 *)
THEOREM IntegersKeepTheirValue ==
    ASSUME NEW v \in UInt64
    PROVE  LET x == IntFromU64(v) IN
           /\ x.type = "Int32" <=> v <= Int32Max
           /\ x.type = "Int64" <=> Int32Max < v /\ v <= Int64Max
           /\ v <= Int64Max => x.n = v
           /\ v > Int64Max  => /\ 2 * (x.n - v) <= Spacing /\ 2 * (v - x.n) <= Spacing
                               /\ x.n > Int64Max
<1>1. v \in Nat /\ Int32Max \in Nat /\ Int64Max \in Nat /\ Int32Max <= Int64Max
      /\ Spacing \in Nat \ {0}
  BY NumbersAssumption, SMT DEF UInt64
<1>2. ASSUME v > Int64Max
      PROVE  NearestDouble(v) > Int64Max
  <2>. DEFINE q == v \div Spacing
              m == (Int64Max + 1) \div Spacing
  <2>1. q \in Nat /\ v % Spacing \in 0 .. Spacing - 1 /\ v = Spacing * q + (v % Spacing)
    BY <1>1, Division
  <2>2. m \in Nat /\ Int64Max + 1 = Spacing * m
    <3>1. Int64Max + 1 \in Nat /\ (Int64Max + 1) % Spacing = 0
      BY <1>1, NumbersAssumption, SMT
    <3>2. m \in Nat /\ Int64Max + 1 = Spacing * m + ((Int64Max + 1) % Spacing)
      BY <1>1, <3>1, Division
    <3>3. PICK p \in Nat : p = Spacing * m
      BY <1>1, <3>2, SMT
    <3>4. Int64Max + 1 = p + 0
      BY <3>1, <3>2, <3>3
    <3>. QED  BY <3>2, <3>3, <3>4, SMT
  <2>3. NearestDouble(v) \in {Spacing * q, Spacing * q + Spacing}
    BY <1>1, DoublesAreNear
  <2>. HIDE DEF q, m
  <2>4. CASE q + 1 <= m
    <3>1. Spacing * q + Spacing <= Spacing * m
      BY <1>1, <2>1, <2>2, <2>4, ProductsGrow
    <3>2. Spacing * q \in Nat
      BY <1>1, <2>1, SMT
    <3>. QED  BY <1>1, <1>2, <2>1, <2>2, <3>1, <3>2, SMT
  <2>5. CASE m = q
    BY <1>1, <2>1, <2>2, <2>3, <2>5, SMT
  <2>6. CASE m + 1 <= q
    <3>1. Spacing * m + Spacing <= Spacing * q /\ Spacing * q \in Nat
      BY <1>1, <2>1, <2>2, <2>6, ProductsGrow, SMT
    <3>. QED  BY <1>1, <2>2, <2>3, <3>1, SMT
  <2>. QED  BY <2>1, <2>2, <2>4, <2>5, <2>6, SMT
<1>3. CASE v <= Int32Max
  BY <1>1, <1>3, SMT DEF IntFromU64
<1>4. CASE ~(v <= Int32Max) /\ v <= Int64Max
  BY <1>1, <1>4, SMT DEF IntFromU64
<1>5. CASE v > Int64Max
  <2>1. IntFromU64(v) = [type |-> "Double", n |-> NearestDouble(v)]
    BY <1>1, <1>5, SMT DEF IntFromU64
  <2>2. 2 * (NearestDouble(v) - v) <= Spacing /\ 2 * (v - NearestDouble(v)) <= Spacing
    BY <1>1, DoublesAreNear
  <2>. QED  BY <1>1, <1>2, <1>5, <2>1, <2>2, SMT
<1>. QED  BY <1>1, <1>3, <1>4, <1>5, SMT

(* Integers in order are encoded as numbers in order, whatever their three *)
(* types (value_in.rs, int_from_u64).                                      *)
THEOREM IntegersKeepTheirOrder ==
    ASSUME NEW v \in UInt64, NEW w \in UInt64, v <= w
    PROVE  IntFromU64(v).n <= IntFromU64(w).n
<1>1. v \in Nat /\ w \in Nat /\ Int64Max \in Nat
  BY NumbersAssumption, SMT DEF UInt64
<1>2. CASE w <= Int64Max
  BY <1>1, <1>2, IntegersKeepTheirValue, SMT
<1>3. CASE v <= Int64Max /\ w > Int64Max
  <2>1. IntFromU64(v).n = v /\ IntFromU64(w).n > Int64Max
    BY <1>3, IntegersKeepTheirValue
  <2>2. IntFromU64(w).n = NearestDouble(w) /\ NearestDouble(w) \in Nat
    BY <1>1, <1>3, NumbersAssumption, DoublesAreNear, SMT DEF IntFromU64
  <2>. QED  BY <1>1, <1>3, <2>1, <2>2, SMT
<1>4. CASE v > Int64Max
  <2>1. IntFromU64(v).n = NearestDouble(v) /\ IntFromU64(w).n = NearestDouble(w)
    BY <1>1, <1>4, NumbersAssumption, SMT DEF IntFromU64
  <2>. QED  BY <1>1, <2>1, DoublesKeepOrder
<1>. QED  BY <1>1, <1>2, <1>3, <1>4, SMT

-----------------------------------------------------------------------------
UnitNames == {"s", "ms", "us", "ns"}

(* Division towards zero: what is lost is less than the divisor, and the   *)
(* order stays.                                                            *)
LEMMA QuotientsAreCut ==
    ASSUME NEW v \in Int, NEW s \in {1000, 1000000}
    PROVE  Quotient(v, s) \in Int /\ CutTowards1970(v, Quotient(v, s), s)
<1>1. CASE s = 1000
  BY <1>1, SMTT(30) DEF Quotient, CutTowards1970
<1>2. CASE s = 1000000
  BY <1>2, SMTT(30) DEF Quotient, CutTowards1970
<1>. QED  BY <1>1, <1>2

LEMMA QuotientsKeepOrder ==
    ASSUME NEW v \in Int, NEW w \in Int, v <= w, NEW s \in {1000, 1000000}
    PROVE  Quotient(v, s) <= Quotient(w, s)
<1>1. /\ Quotient(v, s) \in Int /\ CutTowards1970(v, Quotient(v, s), s)
      /\ Quotient(w, s) \in Int /\ CutTowards1970(w, Quotient(w, s), s)
  BY QuotientsAreCut
<1>2. CASE s = 1000
  BY <1>1, <1>2, SMT DEF CutTowards1970
<1>3. CASE s = 1000000
  BY <1>1, <1>3, SMT DEF CutTowards1970
<1>. QED  BY <1>2, <1>3

(* An instant finer than a millisecond is cut towards 1970, by less than a *)
(* millisecond (value_in.rs, timestamp_millis).                            *)
THEOREM InstantsAreCutTowards1970 ==
    ASSUME NEW v \in Int
    PROVE  /\ CutTowards1970(v, TimestampMillis("us", v), 1000)
           /\ CutTowards1970(v, TimestampMillis("ns", v), 1000000)
  BY QuotientsAreCut DEF TimestampMillis

(* Instants of one unit that are in order are encoded as dates in order,   *)
(* also across 1970 and at the ends of i64, where seconds saturate         *)
(* (value_in.rs, timestamp_millis).                                        *)
THEOREM InstantsKeepTheirOrder ==
    ASSUME NEW unit \in UnitNames, NEW v \in Int64, NEW w \in Int64, v <= w
    PROVE  TimestampMillis(unit, v) <= TimestampMillis(unit, w)
<1>1. v \in Int /\ w \in Int /\ Int64Max \in Nat
  BY NumbersAssumption, SMT DEF Int64
<1>2. CASE unit = "s"
  BY <1>1, <1>2, SMT DEF TimestampMillis, SaturatingMul
<1>3. CASE unit = "ms"
  BY <1>3 DEF TimestampMillis
<1>4. CASE unit = "us"
  BY <1>1, <1>4, QuotientsKeepOrder DEF TimestampMillis
<1>5. CASE unit = "ns"
  BY <1>1, <1>5, QuotientsKeepOrder DEF TimestampMillis
<1>. QED  BY <1>2, <1>3, <1>4, <1>5 DEF UnitNames

(* No instant leaves i64 when it is encoded (value_in.rs, timestamp_millis).*)
THEOREM InstantsStayInt64 ==
    ASSUME NEW unit \in UnitNames, NEW v \in Int64
    PROVE  TimestampMillis(unit, v) \in Int64
<1>1. v \in Int /\ -Int64Max - 1 <= v /\ v <= Int64Max /\ Int64Max \in Nat
  BY NumbersAssumption, SMT DEF Int64
<1>2. CASE unit = "s"
  BY <1>1, <1>2, SMT DEF TimestampMillis, SaturatingMul, Int64
<1>3. CASE unit = "ms"
  BY <1>3 DEF TimestampMillis
<1>4. CASE unit = "us"
  <2>1. /\ TimestampMillis("us", v) \in Int
        /\ CutTowards1970(v, TimestampMillis("us", v), 1000)
    BY <1>1, QuotientsAreCut DEF TimestampMillis
  <2>. QED  BY <1>1, <1>4, <2>1, SMT DEF CutTowards1970, Int64
<1>5. CASE unit = "ns"
  <2>1. /\ TimestampMillis("ns", v) \in Int
        /\ CutTowards1970(v, TimestampMillis("ns", v), 1000000)
    BY <1>1, QuotientsAreCut DEF TimestampMillis
  <2>. QED  BY <1>1, <1>5, <2>1, SMT DEF CutTowards1970, Int64
<1>. QED  BY <1>2, <1>3, <1>4, <1>5 DEF UnitNames

-----------------------------------------------------------------------------
(* Induction.                                                              *)

\* A set of numbers that has a member has a least one.
LEMMA LeastNumber ==
    ASSUME NEW T \in SUBSET Nat, T # {}
    PROVE  \E x \in T : \A y \in T : x <= y
<1> DEFINE R == {ss \in Nat \X Nat : ss[1] < ss[2]}
<1>1. IsWellFoundedOn(R, Nat)
  BY NatLessThanWellFounded DEF OpToRel
<1>2. PICK x \in T : \A y \in T : <<y, x>> \notin R
  <2> HIDE DEF R
  <2> QED BY <1>1, WFMin
<1>3. ASSUME NEW y \in T PROVE x <= y
  <2>1. <<y, x>> \in Nat \X Nat /\ <<y, x>>[1] = y /\ <<y, x>>[2] = x
    OBVIOUS
  <2>2. ~(y < x)
    BY <1>2, <2>1
  <2> QED BY <2>2
<1> QED BY <1>3

\* Mathematical induction, for a set of numbers.
LEMMA Induction ==
    ASSUME NEW T \in SUBSET Nat, 0 \in T, \A n \in T : n + 1 \in T
    PROVE  T = Nat
<1> SUFFICES ASSUME Nat \ T # {} PROVE FALSE
  OBVIOUS
<1>1. PICK x \in Nat \ T : \A y \in Nat \ T : x <= y
  <2>1. Nat \ T \in SUBSET Nat
    OBVIOUS
  <2> QED BY <2>1, LeastNumber
<1>2. x - 1 \in Nat /\ x - 1 + 1 = x /\ ~(x <= x - 1)
  OBVIOUS
<1>3. x - 1 \in T
  BY <1>1, <1>2
<1> QED BY <1>2, <1>3

-----------------------------------------------------------------------------
(* A document that is filled field by field.                               *)

Fields(K) == [key : K, part : Nat]

\* The first n fields have been inserted: each key is there once, with what
\* was inserted last under it.
Inserted(K, fields, n, r) ==
    /\ r \in Seq(Fields(K))
    /\ \A i, j \in DOMAIN r : r[i].key = r[j].key => i = j
    /\ \A i \in 1 .. n : \E j \in DOMAIN r : r[j].key = fields[i].key
    /\ \A j \in DOMAIN r : \E i \in 1 .. n :
           r[j] = fields[i] /\ \A k \in i + 1 .. n : fields[k].key # fields[i].key

LEMMA InsertOne ==
    ASSUME NEW K, NEW fields \in Seq(Fields(K)), NEW n \in Nat, n < Len(fields),
           NEW r, Inserted(K, fields, n, r)
    PROVE  Inserted(K, fields, n + 1, Insert(r, fields[n + 1]))
<1> DEFINE f == fields[n + 1]
           s == Insert(r, f)
<1>1. n + 1 \in 1 .. Len(fields) /\ f \in Fields(K) /\ Len(fields) \in Nat
      /\ \A i \in 1 .. n + 1 : fields[i] \in Fields(K) /\ (i \in 1 .. n \/ i = n + 1)
  OBVIOUS
<1>2. r \in Seq(Fields(K)) /\ Len(r) \in Nat /\ DOMAIN r = 1 .. Len(r)
  BY DEF Inserted
<1> HIDE DEF f, s
<1>3. CASE \E i \in DOMAIN r : r[i].key = f.key
  <2>1. s = [i \in DOMAIN r |-> IF r[i].key = f.key THEN f ELSE r[i]]
    BY <1>3 DEF Insert, s
  <2>2. s \in Seq(Fields(K)) /\ DOMAIN s = DOMAIN r
    <3>1. s \in [1 .. Len(r) -> Fields(K)]
      BY <1>1, <1>2, <2>1
    <3> QED BY <1>2, <3>1
  <2>3. ASSUME NEW i \in DOMAIN r
        PROVE  s[i].key = r[i].key /\ (s[i] = f \/ (s[i] = r[i] /\ r[i].key # f.key))
    <3>1. s[i] = IF r[i].key = f.key THEN f ELSE r[i]
      BY <2>1
    <3>2. CASE r[i].key = f.key
      BY <3>1, <3>2
    <3>3. CASE r[i].key # f.key
      BY <3>1, <3>3
    <3> QED BY <3>2, <3>3
  <2>4. \A i, j \in DOMAIN s : s[i].key = s[j].key => i = j
    BY <2>2, <2>3 DEF Inserted
  <2>5. ASSUME NEW i \in 1 .. n + 1 PROVE \E j \in DOMAIN s : s[j].key = fields[i].key
    <3>1. CASE i = n + 1
      BY <1>3, <2>2, <2>3, <3>1 DEF f
    <3>2. CASE i \in 1 .. n
      <4>1. PICK j \in DOMAIN r : r[j].key = fields[i].key
        BY <3>2 DEF Inserted
      <4> QED BY <2>2, <2>3, <4>1
    <3> QED BY <1>1, <3>1, <3>2
  <2>6. ASSUME NEW j \in DOMAIN s
        PROVE  \E i \in 1 .. n + 1 : /\ s[j] = fields[i]
                                     /\ \A k \in i + 1 .. n + 1 : fields[k].key # fields[i].key
    <3>1. CASE s[j] = f
      <4>1. \A k \in n + 1 + 1 .. n + 1 : FALSE
        OBVIOUS
      <4> QED BY <1>1, <3>1, <4>1 DEF f
    <3>2. CASE s[j] = r[j] /\ r[j].key # f.key
      <4>1. PICK i \in 1 .. n : /\ r[j] = fields[i]
                                /\ \A k \in i + 1 .. n : fields[k].key # fields[i].key
        BY <2>2 DEF Inserted
      <4>2. \A k \in i + 1 .. n + 1 : k \in i + 1 .. n \/ k = n + 1
        OBVIOUS
      <4>3. \A k \in i + 1 .. n + 1 : fields[k].key # fields[i].key
        BY <3>2, <4>1, <4>2 DEF f
      <4>4. i \in 1 .. n + 1
        OBVIOUS
      <4> QED BY <3>2, <4>1, <4>3, <4>4
    <3> QED BY <2>2, <2>3, <3>1, <3>2
  <2> QED BY <2>2, <2>4, <2>5, <2>6 DEF Inserted, s, f
<1>4. CASE \A i \in DOMAIN r : r[i].key # f.key
  <2>1. s = Append(r, f)
    BY <1>4 DEF Insert, s
  <2>2. /\ s \in Seq(Fields(K)) /\ DOMAIN s = 1 .. Len(r) + 1
        /\ \A i \in DOMAIN r : s[i] = r[i]
        /\ s[Len(r) + 1] = f
    BY <1>1, <1>2, <2>1
  <2>3. \A i \in DOMAIN s : i \in DOMAIN r \/ i = Len(r) + 1
    BY <1>2, <2>2
  <2>4. DOMAIN r \subseteq DOMAIN s /\ Len(r) + 1 \in DOMAIN s
    BY <1>2, <2>2
  <2>5. \A i, j \in DOMAIN s : s[i].key = s[j].key => i = j
    <3> TAKE i, j \in DOMAIN s
    <3> HAVE s[i].key = s[j].key
    <3>1. CASE i \in DOMAIN r /\ j \in DOMAIN r
      BY <2>2, <3>1 DEF Inserted
    <3>2. CASE i = Len(r) + 1 \/ j = Len(r) + 1
      BY <1>4, <2>2, <2>3, <3>2
    <3> QED BY <2>3, <3>1, <3>2
  <2>6. ASSUME NEW i \in 1 .. n + 1 PROVE \E j \in DOMAIN s : s[j].key = fields[i].key
    <3>1. CASE i = n + 1
      BY <2>2, <2>4, <3>1 DEF f
    <3>2. CASE i \in 1 .. n
      <4>1. PICK j \in DOMAIN r : r[j].key = fields[i].key
        BY <3>2 DEF Inserted
      <4> QED BY <2>2, <2>4, <4>1
    <3> QED BY <1>1, <3>1, <3>2
  <2>7. ASSUME NEW j \in DOMAIN s
        PROVE  \E i \in 1 .. n + 1 : /\ s[j] = fields[i]
                                     /\ \A k \in i + 1 .. n + 1 : fields[k].key # fields[i].key
    <3>1. CASE j = Len(r) + 1
      <4>1. \A k \in n + 1 + 1 .. n + 1 : FALSE
        OBVIOUS
      <4> QED BY <1>1, <2>2, <3>1, <4>1 DEF f
    <3>2. CASE j \in DOMAIN r
      <4>1. PICK i \in 1 .. n : /\ r[j] = fields[i]
                                /\ \A k \in i + 1 .. n : fields[k].key # fields[i].key
        BY <3>2 DEF Inserted
      <4>2. \A k \in i + 1 .. n + 1 : k \in i + 1 .. n \/ k = n + 1
        OBVIOUS
      <4>3. \A k \in i + 1 .. n + 1 : fields[k].key # fields[i].key
        BY <1>4, <3>2, <4>1, <4>2 DEF f
      <4>4. i \in 1 .. n + 1
        OBVIOUS
      <4> QED BY <2>2, <3>2, <4>1, <4>3, <4>4
    <3> QED BY <2>3, <3>1, <3>2
  <2> QED BY <2>2, <2>5, <2>6, <2>7 DEF Inserted, s, f
<1> QED BY <1>3, <1>4

\* The recursive function that Filled is defined by, for the first n fields.
LEMMA FillingExists ==
    ASSUME NEW K, NEW fields \in Seq(Fields(K))
    PROVE  \E g : g = [n \in 0 .. Len(fields) |->
                          IF n = 0 THEN <<>> ELSE Insert(g[n - 1], fields[n])]
<1> DEFINE body(g, n) == IF n = 0 THEN <<>> ELSE Insert(g[n - 1], fields[n])
           Upto(m) == \E g : g = [n \in 0 .. m |-> body(g, n)]
           T == {m \in Nat : Upto(m)}
<1>1. 0 \in T
  <2> DEFINE g == [n \in 0 .. 0 |-> <<>>]
  <2>1. \A n \in 0 .. 0 : n = 0 /\ body(g, n) = <<>>
    OBVIOUS
  <2>2. g = [n \in 0 .. 0 |-> body(g, n)]
    <3> HIDE DEF body
    <3> QED BY <2>1
  <2> HIDE DEF g, body
  <2> QED BY <2>2
<1>2. ASSUME NEW m \in T PROVE m + 1 \in T
  <2>1. m \in Nat /\ m + 1 \in Nat /\ Upto(m)
    OBVIOUS
  <2>2. PICK g : g = [n \in 0 .. m |-> body(g, n)]
    <3> HIDE DEF body
    <3> QED BY <2>1
  <2> DEFINE h == [n \in 0 .. m + 1 |-> IF n = m + 1 THEN Insert(g[m], fields[m + 1]) ELSE g[n]]
  <2>3. ASSUME NEW n \in 0 .. m + 1 PROVE h[n] = body(h, n)
    <3>1. CASE n = m + 1
      <4>1. n # 0 /\ n - 1 = m /\ m \in 0 .. m + 1 /\ m # m + 1 /\ n \in 0 .. m + 1
        BY <2>1, <3>1
      <4>2. h[m] = g[m] /\ h[n] = Insert(g[m], fields[m + 1])
        BY <3>1, <4>1
      <4> HIDE DEF h
      <4> QED BY <3>1, <4>1, <4>2
    <3>2. CASE n # m + 1
      <4>1. n \in 0 .. m /\ n \in Nat
        BY <2>1, <3>2
      <4>2. h[n] = g[n] /\ g[n] = body(g, n)
        <5> HIDE DEF body
        <5> QED BY <2>2, <3>2, <4>1
      <4>3. CASE n = 0
        <5> HIDE DEF h
        <5> QED BY <4>2, <4>3
      <4>4. CASE n # 0
        <5>1. n - 1 \in 0 .. m + 1 /\ n - 1 # m + 1
          BY <2>1, <4>1, <4>4
        <5>2. h[n - 1] = g[n - 1]
          BY <5>1
        <5> HIDE DEF h
        <5> QED BY <4>2, <4>4, <5>2
      <4> QED BY <4>3, <4>4
    <3> QED BY <3>1, <3>2
  <2>4. h = [n \in 0 .. m + 1 |-> h[n]]
    OBVIOUS
  <2> HIDE DEF h, body
  <2>5. h = [n \in 0 .. m + 1 |-> body(h, n)]
    BY <2>3, <2>4
  <2> QED BY <2>1, <2>5
<1>3. T = Nat
  <2> HIDE DEF T
  <2>1. T \in SUBSET Nat
    BY DEF T
  <2> QED BY <1>1, <1>2, <2>1, Induction
<1>4. Len(fields) \in T
  BY <1>3
<1> QED BY <1>4

\* Filled keeps of equal keys the last field, and every key.
LEMMA FilledInserts ==
    ASSUME NEW K, NEW fields \in Seq(Fields(K))
    PROVE  Inserted(K, fields, Len(fields), Filled(fields))
<1> DEFINE body(g, n) == IF n = 0 THEN <<>> ELSE Insert(g[n - 1], fields[n])
           G == CHOOSE g : g = [n \in 0 .. Len(fields) |-> body(g, n)]
           T == {m \in Nat : m <= Len(fields) => Inserted(K, fields, m, G[m])}
<1>1. Filled(fields) = G[Len(fields)]
  BY DEF Filled
<1>2. G = [n \in 0 .. Len(fields) |-> body(G, n)]
  <2>1. \E g : g = [n \in 0 .. Len(fields) |-> body(g, n)]
    BY FillingExists
  <2> HIDE DEF body
  <2> QED BY <2>1
<1> HIDE DEF G
<1>3. \A n \in 0 .. Len(fields) : G[n] = body(G, n)
  <2> HIDE DEF body
  <2> QED BY <1>2
<1>4. 0 \in T
  <2>1. Len(fields) \in Nat /\ 0 \in 0 .. Len(fields)
    OBVIOUS
  <2>2. G[0] = <<>>
    BY <1>3, <2>1
  <2>3. Inserted(K, fields, 0, <<>>)
    BY DEF Inserted
  <2> QED BY <2>2, <2>3
<1>5. ASSUME NEW m \in T PROVE m + 1 \in T
  <2>1. m \in Nat /\ m + 1 \in Nat /\ m + 1 # 0 /\ m + 1 - 1 = m
    OBVIOUS
  <2>2. CASE m + 1 <= Len(fields)
    <3>1. m < Len(fields) /\ m + 1 \in 0 .. Len(fields) /\ Inserted(K, fields, m, G[m])
      BY <2>1, <2>2
    <3>2. G[m + 1] = Insert(G[m], fields[m + 1])
      BY <1>3, <2>1, <3>1
    <3>3. Inserted(K, fields, m + 1, Insert(G[m], fields[m + 1]))
      BY <2>1, <3>1, InsertOne
    <3> QED BY <2>1, <3>2, <3>3
  <2>3. CASE ~(m + 1 <= Len(fields))
    BY <2>1, <2>3
  <2> QED BY <2>2, <2>3
<1>6. T = Nat
  <2>1. T \in SUBSET Nat
    OBVIOUS
  <2> HIDE DEF T
  <2> QED BY <1>4, <1>5, <2>1, Induction
<1>7. Len(fields) \in T /\ Len(fields) <= Len(fields)
  BY <1>6
<1> QED BY <1>1, <1>7

-----------------------------------------------------------------------------
(* Addresses.                                                              *)

\* s is the first n members of a.
Starts(s, a, n) ==
    /\ s \in Seq(Nat) /\ Len(s) = n
    /\ \A i \in 1 .. n : s[i] = a[i] /\ SubSeq(s, 1, i - 1) = SubSeq(a, 1, i - 1)
    /\ n = Len(a) => s = a

LEMMA PrefixStarts ==
    ASSUME NEW a \in Seq(Nat), NEW n \in 0 .. Len(a)
    PROVE  Starts(SubSeq(a, 1, n), a, n)
<1>0. Len(a) \in Nat /\ n \in Nat /\ n <= Len(a) /\ \A i \in 1 .. Len(a) : a[i] \in Nat
  OBVIOUS
<1>1. ASSUME NEW b, NEW k \in Nat, \A i \in 1 .. k : b[i] \in Nat
      PROVE  /\ SubSeq(b, 1, k) \in Seq(Nat) /\ Len(SubSeq(b, 1, k)) = k
             /\ \A i \in 1 .. k : SubSeq(b, 1, k)[i] = b[i]
  <2>1. 1 \in Int /\ k \in Int /\ k - 1 + 1 = k /\ \A i \in 1 .. k : 1 + i - 1 = i
    OBVIOUS
  <2>2. /\ SubSeq(b, 1, k) \in Seq(Nat)
        /\ Len(SubSeq(b, 1, k)) = IF 1 <= k THEN k - 1 + 1 ELSE 0
        /\ \A i \in 1 .. k - 1 + 1 : SubSeq(b, 1, k)[i] = b[1 + i - 1]
    BY <1>1, <2>1, SubSeqProperties
  <2> QED BY <2>1, <2>2
<1>2. /\ SubSeq(a, 1, n) \in Seq(Nat) /\ Len(SubSeq(a, 1, n)) = n
      /\ \A i \in 1 .. n : SubSeq(a, 1, n)[i] = a[i]
  <2>1. \A i \in 1 .. n : a[i] \in Nat
    BY <1>0
  <2> QED BY <1>0, <1>1, <2>1
<1>3. ASSUME NEW i \in 1 .. n PROVE SubSeq(SubSeq(a, 1, n), 1, i - 1) = SubSeq(a, 1, i - 1)
  <2> DEFINE c == SubSeq(a, 1, n)
             s == SubSeq(c, 1, i - 1)
             t == SubSeq(a, 1, i - 1)
  <2>1. i - 1 \in Nat /\ \A j \in 1 .. i - 1 : j \in 1 .. n /\ j \in 1 .. Len(a)
    BY <1>0
  <2>2. /\ c \in Seq(Nat) /\ \A j \in 1 .. i - 1 : c[j] = a[j] /\ c[j] \in Nat /\ a[j] \in Nat
    BY <1>0, <1>2, <2>1
  <2> HIDE DEF c
  <2>3. s \in Seq(Nat) /\ Len(s) = i - 1 /\ \A j \in 1 .. i - 1 : s[j] = c[j]
    BY <1>1, <2>1, <2>2
  <2>4. t \in Seq(Nat) /\ Len(t) = i - 1 /\ \A j \in 1 .. i - 1 : t[j] = a[j]
    BY <1>1, <2>1, <2>2
  <2>5. s = t
    <3> HIDE DEF s, t
    <3> QED BY <2>2, <2>3, <2>4, SeqEqual
  <2> QED BY <2>5 DEF c
<1>4. n = Len(a) => SubSeq(a, 1, n) = a
  <2> DEFINE c == SubSeq(a, 1, n)
  <2> HIDE DEF c
  <2>1. c \in Seq(Nat) /\ Len(c) = n /\ \A i \in 1 .. n : c[i] = a[i]
    BY <1>2 DEF c
  <2>2. n = Len(a) => c = a
    BY <2>1, SeqEqual
  <2> QED BY <2>2 DEF c
<1> QED BY <1>2, <1>3, <1>4 DEF Starts

LEMMA Appended ==
    ASSUME NEW a \in Seq(Nat), NEW p \in Nat
    PROVE  /\ Append(a, p) \in Seq(Nat) /\ Len(Append(a, p)) = Len(a) + 1
           /\ \A i \in 1 .. Len(a) : Append(a, p)[i] = a[i]
           /\ Append(a, p)[Len(a) + 1] = p
           /\ \A i \in 1 .. Len(a) + 1 : SubSeq(Append(a, p), 1, i - 1) = SubSeq(a, 1, i - 1)
<1> DEFINE b == Append(a, p)
<1>1. /\ b \in Seq(Nat) /\ Len(b) = Len(a) + 1 /\ Len(a) \in Nat
      /\ \A i \in 1 .. Len(a) : b[i] = a[i]
      /\ b[Len(a) + 1] = p
  OBVIOUS
<1> HIDE DEF b
<1>2. ASSUME NEW n \in 0 .. Len(a) PROVE SubSeq(b, 1, n) = SubSeq(a, 1, n)
  <2> DEFINE s == SubSeq(b, 1, n)
             t == SubSeq(a, 1, n)
  <2>1. n \in 0 .. Len(b) /\ n \in Nat /\ \A j \in 1 .. n : j \in 1 .. Len(a)
    BY <1>1
  <2>2. Starts(s, b, n)
    BY <1>1, <2>1, PrefixStarts
  <2>3. Starts(t, a, n)
    BY PrefixStarts
  <2> HIDE DEF s, t
  <2>4. s \in Seq(Nat) /\ t \in Seq(Nat) /\ Len(s) = Len(t) /\ \A j \in 1 .. Len(s) : s[j] = t[j]
    BY <1>1, <2>1, <2>2, <2>3 DEF Starts
  <2>5. s = t
    BY <2>4, SeqEqual
  <2> QED BY <2>5 DEF s, t
<1>3. \A i \in 1 .. Len(a) + 1 : i - 1 \in 0 .. Len(a)
  BY <1>1
<1> QED BY <1>1, <1>2, <1>3 DEF b

-----------------------------------------------------------------------------
(* A document with its keys in K, and what it is decoded to.               *)

HasKeys(K, v) ==
    IsTree(v) /\ \A a \in DOMAIN v : v[a].type \in BsonTypes /\ v[a].fields \in Seq(Fields(K))

\* The node before its place is looked at.
SettledNode(v, a) ==
    IF v[a].type = "Document" THEN Inner("Document", Filled(v[a].fields)) ELSE v[a]

LEMMA SettledAt ==
    ASSUME NEW v, IsTree(v)
    PROVE  /\ DOMAIN Settled(v) =
                  {a \in DOMAIN v : \A i \in DOMAIN a : a[i] \in Parts(SettledNode(v, SubSeq(a, 1, i - 1)))}
           /\ \A a \in DOMAIN Settled(v) : Settled(v)[a] = SettledNode(v, a)
<1> DEFINE nodes == [a \in DOMAIN v |-> SettledNode(v, a)]
           S == {a \in DOMAIN v : \A i \in DOMAIN a : a[i] \in Parts(nodes[SubSeq(a, 1, i - 1)])}
<1>1. Settled(v) = [a \in S |-> nodes[a]]
  BY DEF Settled, SettledNode
<1>2. ASSUME NEW a \in DOMAIN v, NEW i \in DOMAIN a
      PROVE  nodes[SubSeq(a, 1, i - 1)] = SettledNode(v, SubSeq(a, 1, i - 1))
  <2>1. SubSeq(a, 1, i - 1) \in DOMAIN v
    BY DEF IsTree
  <2> QED BY <2>1
<1> HIDE DEF nodes
<1>3. S = {a \in DOMAIN v : \A i \in DOMAIN a : a[i] \in Parts(SettledNode(v, SubSeq(a, 1, i - 1)))}
  BY <1>2
<1>4. \A a \in S : nodes[a] = SettledNode(v, a)
  BY DEF nodes
<1> HIDE DEF S
<1> QED BY <1>1, <1>3, <1>4

LEMMA SettledNodes ==
    ASSUME NEW K, NEW v, HasKeys(K, v), NEW a \in DOMAIN v
    PROVE  /\ SettledNode(v, a).type = v[a].type
           /\ SettledNode(v, a).fields \in Seq(Fields(K))
           /\ v[a].type # "Document" => SettledNode(v, a) = v[a]
           /\ v[a].type = "Document" =>
                  Inserted(K, v[a].fields, Len(v[a].fields), SettledNode(v, a).fields)
<1>1. v[a].fields \in Seq(Fields(K))
  BY DEF HasKeys
<1>2. CASE v[a].type = "Document"
  <2>1. SettledNode(v, a) = Inner("Document", Filled(v[a].fields))
    BY <1>2 DEF SettledNode
  <2>2. SettledNode(v, a).type = "Document" /\ SettledNode(v, a).fields = Filled(v[a].fields)
    <3>1. \A f : Inner("Document", f).type = "Document" /\ Inner("Document", f).fields = f
      BY DEF Inner
    <3> QED BY <2>1, <3>1
  <2>3. Inserted(K, v[a].fields, Len(v[a].fields), Filled(v[a].fields))
    BY <1>1, FilledInserts
  <2>4. Filled(v[a].fields) \in Seq(Fields(K))
    BY <2>3 DEF Inserted
  <2> QED BY <1>2, <2>2, <2>3, <2>4
<1>3. CASE v[a].type # "Document"
  BY <1>1, <1>3 DEF SettledNode
<1> QED BY <1>2, <1>3

\* The parts of a node, and the fields with a key, in a document.
LEMMA PartsAreNumbers ==
    ASSUME NEW K, NEW node, node.fields \in Seq(Fields(K))
    PROVE  /\ Parts(node) \in SUBSET Nat
           /\ \A i \in DOMAIN node.fields : /\ node.fields[i].part \in Parts(node)
                                            /\ node.fields[i].key \in K
                                            /\ node.fields[i] = [key |-> node.fields[i].key,
                                                                 part |-> node.fields[i].part]
<1>1. \A i \in DOMAIN node.fields : node.fields[i] \in Fields(K)
  OBVIOUS
<1> QED BY <1>1 DEF Parts, Fields

\* What is reached of a tree is a tree.
LEMMA SettledIsTree ==
    ASSUME NEW K, NEW v, HasKeys(K, v)
    PROVE  HasKeys(K, Settled(v)) /\ DOMAIN Settled(v) \subseteq DOMAIN v
<1> DEFINE w == Settled(v)
           R(a) == \A i \in DOMAIN a : a[i] \in Parts(SettledNode(v, SubSeq(a, 1, i - 1)))
<1>1. /\ DOMAIN w = {a \in DOMAIN v : R(a)}
      /\ \A a \in DOMAIN w : w[a] = SettledNode(v, a)
  BY SettledAt DEF HasKeys
<1> HIDE DEF w
<1>2. \A a \in DOMAIN w : /\ a \in DOMAIN v /\ w[a].type \in BsonTypes
                          /\ w[a].fields \in Seq(Fields(K))
  BY <1>1, SettledNodes DEF HasKeys
<1>3. <<>> \in DOMAIN w
  BY <1>1 DEF HasKeys, IsTree
<1>4. ASSUME NEW a \in DOMAIN w, NEW i \in DOMAIN a
      PROVE  SubSeq(a, 1, i - 1) \in DOMAIN w /\ a[i] \in Parts(w[SubSeq(a, 1, i - 1)])
  <2> DEFINE b == SubSeq(a, 1, i - 1)
  <2>1. a \in Seq(Nat) /\ a \in DOMAIN v /\ b \in DOMAIN v /\ R(a)
    BY <1>1 DEF HasKeys, IsTree
  <2>2. DOMAIN a = 1 .. Len(a) /\ i - 1 \in 0 .. Len(a) /\ Len(a) \in Nat
    BY <2>1
  <2>9. Starts(b, a, i - 1)
    BY <2>1, <2>2, PrefixStarts
  <2> HIDE DEF b
  <2>3. /\ b \in Seq(Nat) /\ Len(b) = i - 1
        /\ \A j \in 1 .. i - 1 : b[j] = a[j] /\ SubSeq(b, 1, j - 1) = SubSeq(a, 1, j - 1)
    BY <2>9 DEF Starts
  <2>4. DOMAIN b = 1 .. i - 1 /\ \A j \in 1 .. i - 1 : j \in DOMAIN a
    BY <2>2, <2>3
  <2>5. R(b)
    BY <2>1, <2>3, <2>4
  <2>6. b \in DOMAIN w
    BY <1>1, <2>1, <2>5
  <2>7. w[b] = SettledNode(v, b) /\ a[i] \in Parts(SettledNode(v, b))
    BY <1>1, <2>1, <2>6 DEF b
  <2> QED BY <2>6, <2>7 DEF b
<1>5. ASSUME NEW a \in DOMAIN w, NEW p \in Parts(w[a]) PROVE Append(a, p) \in DOMAIN w
  <2> DEFINE b == Append(a, p)
  <2>1. a \in Seq(Nat) /\ a \in DOMAIN v /\ R(a) /\ Len(a) \in Nat
    BY <1>1 DEF HasKeys, IsTree
  <2>2. p \in Parts(v[a]) /\ p \in Nat
    <3>1. p \in Nat
      BY <1>2, PartsAreNumbers
    <3>2. w[a] = SettledNode(v, a)
      BY <1>1
    <3>3. CASE v[a].type # "Document"
      BY <2>1, <3>1, <3>2, <3>3, SettledNodes
    <3>4. CASE v[a].type = "Document"
      <4>1. Inserted(K, v[a].fields, Len(v[a].fields), w[a].fields)
        BY <2>1, <3>2, <3>4, SettledNodes
      <4>2. PICK j \in DOMAIN w[a].fields : p = w[a].fields[j].part
        BY DEF Parts
      <4>3. PICK i \in 1 .. Len(v[a].fields) : w[a].fields[j] = v[a].fields[i]
        BY <4>1, <4>2 DEF Inserted
      <4>4. i \in DOMAIN v[a].fields
        BY <2>1, <4>3 DEF HasKeys
      <4> QED BY <3>1, <4>2, <4>3, <4>4 DEF Parts
    <3> QED BY <3>3, <3>4
  <2>3. b \in DOMAIN v
    BY <2>1, <2>2 DEF HasKeys, IsTree
  <2>4. /\ b \in Seq(Nat) /\ Len(b) = Len(a) + 1
        /\ \A i \in 1 .. Len(a) : b[i] = a[i]
        /\ b[Len(a) + 1] = p
        /\ \A i \in 1 .. Len(a) + 1 : SubSeq(b, 1, i - 1) = SubSeq(a, 1, i - 1)
    BY <2>1, <2>2, Appended
  <2>5. SubSeq(a, 1, Len(a)) = a
    <3>1. Len(a) \in 0 .. Len(a)
      BY <2>1
    <3> QED BY <2>1, <3>1, PrefixStarts DEF Starts
  <2> HIDE DEF b
  <2>6. /\ DOMAIN a = 1 .. Len(a)
        /\ \A i \in DOMAIN b : i \in DOMAIN a \/ i = Len(a) + 1
        /\ \A i \in DOMAIN b : i \in 1 .. Len(a) + 1
        /\ Len(a) + 1 - 1 = Len(a)
    BY <2>1, <2>4
  <2>7. ASSUME NEW i \in DOMAIN b PROVE b[i] \in Parts(SettledNode(v, SubSeq(b, 1, i - 1)))
    <3>1. CASE i \in DOMAIN a
      BY <2>1, <2>4, <2>6, <3>1
    <3>2. CASE i = Len(a) + 1
      <4>1. i - 1 = Len(a) /\ i \in 1 .. Len(a) + 1 /\ b[i] = p
        BY <2>4, <2>6, <3>2
      <4>2. SubSeq(b, 1, i - 1) = a
        BY <2>4, <2>5, <4>1
      <4>3. w[a] = SettledNode(v, a)
        BY <1>1
      <4> QED BY <4>1, <4>2, <4>3
    <3> QED BY <2>6, <3>1, <3>2
  <2>8. R(b)
    BY <2>7
  <2> QED BY <1>1, <2>3, <2>8 DEF b
<1>6. \A a \in DOMAIN w : a \in Seq(Nat)
  BY <1>2 DEF HasKeys, IsTree
<1>7. IsTree(w)
  BY <1>3, <1>4, <1>5, <1>6 DEF IsTree
<1>8. HasKeys(K, w) /\ DOMAIN w \subseteq DOMAIN v
  BY <1>2, <1>7 DEF HasKeys
<1> QED BY <1>8 DEF w

\* A segment leads to what is found under it in the decoded node: the last
\* of the fields with its key.
LEMMA LastFieldIsKept ==
    ASSUME NEW K, NEW fields \in Seq(Fields(K)), NEW r, Inserted(K, fields, Len(fields), r),
           NEW key, NEW part
    PROVE  (\E j \in DOMAIN r : r[j].key = key /\ r[j].part = part)
               <=> \E i \in DOMAIN fields : /\ fields[i] = [key |-> key, part |-> part]
                                            /\ IsLast(fields, i)
<1>1. /\ Len(fields) \in Nat /\ DOMAIN fields = 1 .. Len(fields)
      /\ \A i \in DOMAIN fields : fields[i] \in Fields(K)
  OBVIOUS
<1>2. \A i \in DOMAIN fields : fields[i] = [key |-> fields[i].key, part |-> fields[i].part]
  BY <1>1 DEF Fields
<1>3. ASSUME NEW j \in DOMAIN r, r[j].key = key, r[j].part = part
      PROVE  \E i \in DOMAIN fields : /\ fields[i] = [key |-> key, part |-> part]
                                      /\ IsLast(fields, i)
  <2>1. PICK i \in DOMAIN fields :
            /\ r[j] = fields[i]
            /\ \A k \in i + 1 .. Len(fields) : fields[k].key # fields[i].key
    BY <1>1 DEF Inserted
  <2>2. ASSUME NEW k \in DOMAIN fields, k > i PROVE k \in i + 1 .. Len(fields)
    BY <1>1, <2>2
  <2>3. IsLast(fields, i)
    BY <2>1, <2>2 DEF IsLast
  <2>4. fields[i] = [key |-> key, part |-> part]
    BY <1>2, <1>3, <2>1
  <2> QED BY <2>3, <2>4
<1>4. ASSUME NEW i \in DOMAIN fields, fields[i] = [key |-> key, part |-> part], IsLast(fields, i)
      PROVE  \E j \in DOMAIN r : r[j].key = key /\ r[j].part = part
  <2>1. fields[i].key = key /\ fields[i].part = part
    BY <1>4
  <2>2. PICK j \in DOMAIN r : r[j].key = key
    BY <1>1, <2>1 DEF Inserted
  <2>3. PICK k \in DOMAIN fields :
            /\ r[j] = fields[k]
            /\ \A l \in k + 1 .. Len(fields) : fields[l].key # fields[k].key
    BY <1>1 DEF Inserted
  <2>4. ~(k > i)
    BY <1>4, <2>1, <2>2, <2>3 DEF IsLast
  <2>5. ~(i > k)
    <3> SUFFICES ASSUME i > k PROVE FALSE
      OBVIOUS
    <3>1. i \in k + 1 .. Len(fields)
      BY <1>1
    <3> QED BY <2>1, <2>2, <2>3, <3>1
  <2>6. i = k
    BY <1>1, <2>4, <2>5
  <2> QED BY <2>1, <2>2, <2>3, <2>6
<1> QED BY <1>3, <1>4

LEMMA SameChildren ==
    ASSUME NEW node, NEW seg
    PROVE  FieldChild(node, seg) = TypeChild(node, seg)
BY DEF FieldChild, TypeChild

LEMMA Children ==
    ASSUME NEW K, NEW v, HasKeys(K, v), NEW a \in DOMAIN v, NEW seg
    PROVE  /\ TypeChild(SettledNode(v, a), seg) = {p \in Nat : Leads(seg, v[a], p)}
           /\ \A p : Leads(seg, v[a], p) => p \in Parts(v[a]) /\ p \in Parts(SettledNode(v, a))
           /\ \A p, q : Leads(seg, v[a], p) /\ Leads(seg, v[a], q) => p = q
           /\ \A p : Leads(seg, SettledNode(v, a), p) <=> Leads(seg, v[a], p)
<1> DEFINE w == SettledNode(v, a)
           node == v[a]
<1>2. /\ w.type = node.type /\ w.fields \in Seq(Fields(K)) /\ node.fields \in Seq(Fields(K))
      /\ node.type # "Document" => w = node
      /\ node.type = "Document" => Inserted(K, node.fields, Len(node.fields), w.fields)
  BY SettledNodes DEF HasKeys
<1> HIDE DEF w, node
<1>3. \A i \in DOMAIN node.fields : node.fields[i].part \in Nat /\ node.fields[i].part \in Parts(node)
  <2>1. /\ Parts(node) \in SUBSET Nat
        /\ \A i \in DOMAIN node.fields : node.fields[i].part \in Parts(node)
    BY <1>2, PartsAreNumbers
  <2> QED BY <2>1
<1>4. \A i \in DOMAIN w.fields : w.fields[i].part \in Nat /\ w.fields[i].part \in Parts(w)
  <2>1. Parts(w) \in SUBSET Nat /\ \A i \in DOMAIN w.fields : w.fields[i].part \in Parts(w)
    BY <1>2, PartsAreNumbers
  <2> QED BY <2>1
<1>5. CASE node.type = "Document"
  <2>1. TypeChild(w, seg) = Get(w, seg)
    BY <1>2, <1>5 DEF TypeChild
  <2>2. ASSUME NEW p
        PROVE  Leads(seg, node, p) <=> \E j \in DOMAIN w.fields : w.fields[j].key = seg /\ w.fields[j].part = p
    <3>1. Leads(seg, node, p) <=> \E i \in DOMAIN node.fields :
              node.fields[i] = [key |-> seg, part |-> p] /\ IsLast(node.fields, i)
      BY <1>5 DEF Leads
    <3>2. (\E j \in DOMAIN w.fields : w.fields[j].key = seg /\ w.fields[j].part = p) <=>
              \E i \in DOMAIN node.fields :
                  node.fields[i] = [key |-> seg, part |-> p] /\ IsLast(node.fields, i)
      <4> DEFINE f == node.fields
                 r == w.fields
      <4>1. f \in Seq(Fields(K)) /\ Inserted(K, f, Len(f), r)
        BY <1>2, <1>5
      <4> HIDE DEF f, r
      <4>2. (\E j \in DOMAIN r : r[j].key = seg /\ r[j].part = p) <=>
                \E i \in DOMAIN f : f[i] = [key |-> seg, part |-> p] /\ IsLast(f, i)
        BY <4>1, LastFieldIsKept
      <4> QED BY <4>2 DEF f, r
    <3> QED BY <3>1, <3>2
  <2>3. \A p : p \in Get(w, seg) <=> \E j \in DOMAIN w.fields : w.fields[j].key = seg /\ w.fields[j].part = p
    BY DEF Get
  <2>4. TypeChild(w, seg) = {p \in Nat : Leads(seg, node, p)}
    BY <1>4, <2>1, <2>2, <2>3
  <2>5. ASSUME NEW p, Leads(seg, node, p) PROVE p \in Parts(node) /\ p \in Parts(w)
    <3>1. PICK i \in DOMAIN node.fields : node.fields[i] = [key |-> seg, part |-> p]
      BY <1>5, <2>5 DEF Leads
    <3>2. node.fields[i].part = p
      BY <3>1
    <3> QED BY <1>3, <1>4, <2>2, <2>5, <3>2
  <2>6. ASSUME NEW p, NEW q, Leads(seg, node, p), Leads(seg, node, q) PROVE p = q
    <3>1. \A i, j \in DOMAIN w.fields : w.fields[i].key = w.fields[j].key => i = j
      BY <1>2, <1>5 DEF Inserted
    <3> QED BY <2>2, <2>6, <3>1
  <2>7. ASSUME NEW p PROVE Leads(seg, w, p) <=> Leads(seg, node, p)
    <3>1. DOMAIN w.fields \subseteq Nat
      BY <1>2
    <3>2. \A j \in DOMAIN w.fields : IsLast(w.fields, j)
      BY <1>2, <1>5, <3>1 DEF Inserted, IsLast
    <3>3. \A j \in DOMAIN w.fields :
              w.fields[j] = [key |-> w.fields[j].key, part |-> w.fields[j].part]
      BY <1>2, PartsAreNumbers
    <3>4. \A j \in DOMAIN w.fields :
              (w.fields[j] = [key |-> seg, part |-> p]) <=> (w.fields[j].key = seg /\ w.fields[j].part = p)
      BY <3>3
    <3>5. Leads(seg, w, p) <=> \E j \in DOMAIN w.fields :
              w.fields[j] = [key |-> seg, part |-> p] /\ IsLast(w.fields, j)
      BY <1>2, <1>5 DEF Leads
    <3> QED BY <2>2, <3>2, <3>4, <3>5
  <2> QED BY <2>4, <2>5, <2>6, <2>7 DEF w, node
<1>6. CASE node.type = "Array" /\ seg \in DOMAIN IndexOf
  <2> DEFINE n == IndexOf[seg] + 1
  <2>1. TypeChild(w, seg) = At(w, IndexOf[seg])
    BY <1>2, <1>6 DEF TypeChild
  <2>2. \A p : Leads(seg, node, p) <=> \E i \in DOMAIN node.fields : i = n /\ node.fields[i].part = p
    BY <1>6 DEF Leads
  <2>3. \A p : p \in At(w, IndexOf[seg]) <=> \E i \in DOMAIN node.fields : i = n /\ node.fields[i].part = p
    BY <1>2, <1>6 DEF At
  <2> HIDE DEF n
  <2>4. TypeChild(w, seg) = {p \in Nat : Leads(seg, node, p)}
    BY <1>3, <2>1, <2>2, <2>3
  <2>5. ASSUME NEW p, Leads(seg, node, p) PROVE p \in Parts(node) /\ p \in Parts(w)
    BY <1>2, <1>3, <1>6, <2>2, <2>5
  <2>6. ASSUME NEW p, NEW q, Leads(seg, node, p), Leads(seg, node, q) PROVE p = q
    BY <2>2, <2>6
  <2> QED BY <1>2, <1>6, <2>4, <2>5, <2>6 DEF w, node
<1>7. CASE ~(node.type = "Document") /\ ~(node.type = "Array" /\ seg \in DOMAIN IndexOf)
  <2>1. TypeChild(w, seg) = {} /\ \A p : ~Leads(seg, node, p)
    BY <1>2, <1>7 DEF TypeChild, Leads
  <2>2. \A p : ~Leads(seg, w, p)
    BY <1>2, <1>7 DEF Leads
  <2> QED BY <2>1, <2>2 DEF w, node
<1> QED BY <1>5, <1>6, <1>7

-----------------------------------------------------------------------------
(* What the first n segments of a path lead to.                            *)

Reached(v, path, n) ==
    {a \in DOMAIN v :
        /\ Len(a) = n
        /\ \A i \in 1 .. n : Leads(path[i], v[SubSeq(a, 1, i - 1)], a[i])}

LEMMA ReachedAtFirst ==
    ASSUME NEW K, NEW v, HasKeys(K, v), NEW path
    PROVE  Reached(v, path, 0) = {<<>>}
<1>1. <<>> \in DOMAIN v /\ \A a \in DOMAIN v : a \in Seq(Nat)
  BY DEF HasKeys, IsTree
<1>2. \A a \in Seq(Nat) : Len(a) = 0 <=> a = <<>>
  OBVIOUS
<1>3. \A i \in 1 .. 0 : FALSE
  OBVIOUS
<1> QED BY <1>1, <1>2, <1>3 DEF Reached

LEMMA ReachedBefore ==
    ASSUME NEW K, NEW v, HasKeys(K, v), NEW path, NEW m \in Nat, NEW a \in Reached(v, path, m),
           NEW n \in 0 .. m
    PROVE  SubSeq(a, 1, n) \in Reached(v, path, n)
<1> DEFINE b == SubSeq(a, 1, n)
<1>1. /\ a \in DOMAIN v /\ Len(a) = m /\ a \in Seq(Nat)
      /\ \A i \in 1 .. m : Leads(path[i], v[SubSeq(a, 1, i - 1)], a[i])
  BY DEF Reached, HasKeys, IsTree
<1>2. Starts(b, a, n)
  BY <1>1, PrefixStarts
<1>3. b \in DOMAIN v
  <2>1. CASE n = m
    BY <1>1, <1>2, <2>1 DEF Starts
  <2>2. CASE n # m
    <3>1. n + 1 \in DOMAIN a /\ n + 1 - 1 = n
      BY <1>1, <2>2
    <3>2. \A i \in DOMAIN a : SubSeq(a, 1, i - 1) \in DOMAIN v
      BY <1>1 DEF HasKeys, IsTree
    <3>3. SubSeq(a, 1, n + 1 - 1) \in DOMAIN v
      BY <3>1, <3>2
    <3> QED BY <3>1, <3>3
  <2> QED BY <2>1, <2>2
<1>4. \A i \in 1 .. n : i \in 1 .. m
  OBVIOUS
<1> HIDE DEF b
<1>5. b \in Reached(v, path, n)
  BY <1>1, <1>2, <1>3, <1>4 DEF Reached, Starts
<1> QED BY <1>5 DEF b

\* One segment more leads to the parts of the node that it leads to.
LEMMA ReachedNext ==
    ASSUME NEW K, NEW v, HasKeys(K, v), NEW path, NEW c \in DOMAIN Settled(v),
           Reached(v, path, Len(c)) = {c}
    PROVE  Reached(v, path, Len(c) + 1)
               = {Append(c, p) : p \in {q \in Nat : Leads(path[Len(c) + 1], v[c], q)}}
<1> DEFINE n == Len(c)
           P == {q \in Nat : Leads(path[n + 1], v[c], q)}
<1>1. c \in DOMAIN v /\ c \in Seq(Nat) /\ n \in Nat
  <2>1. DOMAIN Settled(v) \subseteq DOMAIN v
    BY SettledIsTree
  <2>2. \A a \in DOMAIN v : a \in Seq(Nat)
    BY DEF HasKeys, IsTree
  <2> QED BY <2>1, <2>2
<1>2. ASSUME NEW a \in Reached(v, path, n + 1) PROVE \E p \in P : a = Append(c, p)
  <2>1. /\ a \in DOMAIN v /\ a \in Seq(Nat) /\ Len(a) = n + 1
        /\ Leads(path[n + 1], v[SubSeq(a, 1, n)], a[n + 1])
    <3>1. n + 1 \in 1 .. n + 1 /\ n + 1 - 1 = n
      BY <1>1
    <3> QED BY <3>1 DEF Reached, HasKeys, IsTree
  <2>2. SubSeq(a, 1, n) = c
    <3>1. n + 1 \in Nat /\ n \in 0 .. n + 1
      BY <1>1
    <3>2. SubSeq(a, 1, n) \in Reached(v, path, n)
      BY <3>1, ReachedBefore
    <3> QED BY <3>2
  <2>3. Starts(c, a, n)
    <3>1. n \in 0 .. Len(a)
      BY <1>1, <2>1
    <3> QED BY <2>1, <2>2, <3>1, PrefixStarts
  <2> DEFINE p == a[n + 1]
  <2>4. p \in Nat
    BY <1>1, <2>1
  <2> HIDE DEF p
  <2>5. Append(c, p) = a
    <3> DEFINE b == Append(c, p)
    <3>1. /\ b \in Seq(Nat) /\ Len(b) = n + 1 /\ b[n + 1] = p
          /\ \A i \in 1 .. n : b[i] = c[i]
      BY <1>1, <2>4, Appended
    <3> HIDE DEF b
    <3>2. \A i \in 1 .. n + 1 : i \in 1 .. n \/ i = n + 1
      BY <1>1
    <3>3. \A i \in 1 .. Len(b) : b[i] = a[i]
      BY <2>3, <3>1, <3>2 DEF Starts, p
    <3>4. b = a
      BY <2>1, <3>1, <3>3, SeqEqual
    <3> QED BY <3>4 DEF b
  <2>6. Leads(path[n + 1], v[c], p)
    BY <2>1, <2>2 DEF p
  <2> QED BY <2>4, <2>5, <2>6
<1>3. ASSUME NEW p \in P PROVE Append(c, p) \in Reached(v, path, n + 1)
  <2> DEFINE b == Append(c, p)
  <2>1. p \in Nat /\ Leads(path[n + 1], v[c], p)
    OBVIOUS
  <2>2. b \in DOMAIN v
    <3>1. p \in Parts(v[c])
      BY <1>1, <2>1, Children
    <3> QED BY <1>1, <3>1 DEF HasKeys, IsTree
  <2>3. /\ b \in Seq(Nat) /\ Len(b) = n + 1 /\ b[n + 1] = p
        /\ \A i \in 1 .. n : b[i] = c[i]
        /\ \A i \in 1 .. n + 1 : SubSeq(b, 1, i - 1) = SubSeq(c, 1, i - 1)
    BY <1>1, <2>1, Appended
  <2> HIDE DEF b
  <2>4. \A i \in 1 .. n : Leads(path[i], v[SubSeq(c, 1, i - 1)], c[i])
    <3>1. c \in Reached(v, path, n)
      OBVIOUS
    <3> QED BY <3>1 DEF Reached
  <2>5. SubSeq(c, 1, n) = c
    <3>1. n \in 0 .. Len(c)
      BY <1>1
    <3> QED BY <1>1, <3>1, PrefixStarts DEF Starts
  <2>6. ASSUME NEW i \in 1 .. n + 1 PROVE Leads(path[i], v[SubSeq(b, 1, i - 1)], b[i])
    <3>1. CASE i \in 1 .. n
      BY <2>3, <2>4, <3>1
    <3>2. CASE i = n + 1
      <4>1. i - 1 = n
        BY <1>1, <3>2
      <4> QED BY <2>1, <2>3, <2>5, <3>2, <4>1
    <3> QED BY <1>1, <3>1, <3>2
  <2>7. b \in Reached(v, path, n + 1)
    BY <2>2, <2>3, <2>6 DEF Reached
  <2> QED BY <2>7 DEF b
<1> HIDE DEF P, n
<1>4. Reached(v, path, n + 1) = {Append(c, p) : p \in P}
  BY <1>2, <1>3
<1> QED BY <1>4 DEF P, n

-----------------------------------------------------------------------------
(* What is encoded of a SQL value.                                         *)

Nodes(cell) == [a \in DOMAIN cell |-> NodeAt(cell, a)]

\* A variant of Bson without parts.
IsLeaf(node) == node.type \in BsonTypes \ Nesting /\ node.fields = <<>>

LEMMA LeavesAreLeaves ==
    ASSUME NEW t \in BsonTypes \ Nesting, NEW sub, NEW n, NEW text
    PROVE  IsLeaf(Leaf(t, sub, n, text))
BY DEF IsLeaf, Leaf

LEMMA ScalarsAreLeaves ==
    ASSUME NEW c, ScalarAt(c) # None
    PROVE  IsLeaf(ScalarAt(c)[1])
<1>0. \A x : Some(x)[1] = x
  BY DEF Some
<1>1. CASE c.sql \in DOMAIN Variant
  <2>1. Variant[c.sql] \in BsonTypes \ Nesting
    BY <1>1 DEF Variant, BsonTypes, Nesting
  <2>2. ScalarAt(c) = Some(IF c.sql \in {"BOOLEAN", "VARCHAR"} THEN Text(Variant[c.sql], c.text)
                           ELSE Number(Variant[c.sql], c.n))
    BY <1>1 DEF ScalarAt, Variant, Units
  <2>3. IsLeaf(Text(Variant[c.sql], c.text)) /\ IsLeaf(Number(Variant[c.sql], c.n))
    BY <2>1, LeavesAreLeaves DEF Text, Number
  <2> QED BY <1>0, <2>2, <2>3
<1>2. CASE c.sql = "UBIGINT"
  <2>1. ScalarAt(c) = Some(Number(IntFromU64(c.n).type, IntFromU64(c.n).n))
    BY <1>2 DEF ScalarAt, Variant, Units
  <2>2. IntFromU64(c.n).type \in BsonTypes \ Nesting
    BY DEF IntFromU64, BsonTypes, Nesting
  <2>3. IsLeaf(Number(IntFromU64(c.n).type, IntFromU64(c.n).n))
    BY <2>2, LeavesAreLeaves DEF Number
  <2> QED BY <1>0, <2>1, <2>3
<1>3. CASE c.sql = "DECIMAL"
  <2>1. ScalarAt(c) = Some(Decimal128FromScaled(c.n, c.scale))
    BY <1>3 DEF ScalarAt, Variant, Units
  <2>2. \A text : IsLeaf(Text("Decimal128", text)) /\ IsLeaf(Text("Double", text))
    BY LeavesAreLeaves DEF Text, BsonTypes, Nesting
  <2>3. IsLeaf(Decimal128FromScaled(c.n, c.scale))
    BY <2>2 DEF Decimal128FromScaled
  <2> QED BY <1>0, <2>1, <2>3
<1>4. CASE c.sql = "BLOB" \/ c.sql = "UUID"
  <2>1. \A sub, n, text : IsLeaf(Leaf("Binary", sub, n, text))
    BY LeavesAreLeaves DEF BsonTypes, Nesting
  <2>2. ScalarAt(c) = Some(IF c.sql = "BLOB" THEN Leaf("Binary", 0, c.n, c.text)
                           ELSE Leaf("Binary", 4, 16, c.text))
    BY <1>4 DEF ScalarAt, Variant, Units
  <2> QED BY <1>0, <2>1, <2>2
<1>5. CASE c.sql \in DOMAIN Units
  <2>1. ScalarAt(c) = Some(Number("DateTime", TimestampMillis(Units[c.sql], c.n)))
    BY <1>5 DEF ScalarAt, Variant, Units
  <2>2. \A n : IsLeaf(Number("DateTime", n))
    BY LeavesAreLeaves DEF Number, BsonTypes, Nesting
  <2> QED BY <1>0, <2>1, <2>2
<1>6. CASE /\ c.sql \notin DOMAIN Variant /\ c.sql # "UBIGINT" /\ c.sql # "DECIMAL"
           /\ c.sql # "BLOB" /\ c.sql # "UUID" /\ c.sql \notin DOMAIN Units
  BY <1>6 DEF ScalarAt
<1> QED BY <1>1, <1>2, <1>3, <1>4, <1>5, <1>6

\* The key under which an entry is stored; the keys of an Array say nothing.
StoredKey(c, i) == IF c.sql = "LIST" THEN "" ELSE MapKey(c.fields[i].key)

LEMMA NodeShape ==
    ASSUME NEW cell, NEW a \in DOMAIN cell, IsKnown(cell[a]), cell[a].null \in BOOLEAN
    PROVE  /\ HasParts(cell[a]) =>
                  NodeAt(cell, a) = Inner(IF cell[a].sql = "LIST" THEN "Array" ELSE "Document",
                                          [i \in DOMAIN cell[a].fields |->
                                              [key  |-> StoredKey(cell[a], i),
                                               part |-> cell[a].fields[i].part]])
           /\ ~HasParts(cell[a]) => IsLeaf(NodeAt(cell, a))
<1>1. CASE cell[a].null
  <2>1. NodeAt(cell, a) = Text("Null", "") /\ ~HasParts(cell[a])
    BY <1>1 DEF NodeAt, HasParts
  <2>2. IsLeaf(Text("Null", ""))
    BY LeavesAreLeaves DEF Text, BsonTypes, Nesting
  <2> QED BY <2>1, <2>2
<1>2. CASE ~cell[a].null /\ cell[a].sql \in {"STRUCT", "MAP"}
  <2>1. NodeAt(cell, a) = Inner("Document", FieldsOf(cell[a])) /\ HasParts(cell[a]) /\ cell[a].sql # "LIST"
    BY <1>2 DEF NodeAt, HasParts, DocumentOf
  <2>2. FieldsOf(cell[a]) = [i \in DOMAIN cell[a].fields |->
                                [key  |-> StoredKey(cell[a], i), part |-> cell[a].fields[i].part]]
    BY <2>1 DEF FieldsOf, StoredKey
  <2> QED BY <2>1, <2>2
<1>3. CASE ~cell[a].null /\ cell[a].sql = "LIST"
  BY <1>3 DEF NodeAt, HasParts, ArrayOf, StoredKey
<1>4. CASE ~cell[a].null /\ cell[a].sql \notin {"STRUCT", "MAP", "LIST"}
  <2>1. NodeAt(cell, a) = ScalarAt(cell[a])[1] /\ ~HasParts(cell[a]) /\ ScalarAt(cell[a]) # None
    BY <1>4 DEF NodeAt, HasParts, IsKnown
  <2> QED BY <2>1, ScalarsAreLeaves
<1> QED BY <1>1, <1>2, <1>3, <1>4

KeysIn(cell) == UNION {{StoredKey(cell[a], i) : i \in DOMAIN cell[a].fields} : a \in DOMAIN cell}

LEMMA NodesAreATree ==
    ASSUME NEW cell, IsCell(cell), \A a \in DOMAIN cell : IsKnown(cell[a])
    PROVE  /\ HasKeys(KeysIn(cell), Nodes(cell)) /\ DOMAIN Nodes(cell) = DOMAIN cell
           /\ \A a \in DOMAIN cell : Nodes(cell)[a] = NodeAt(cell, a)
<1> DEFINE v == Nodes(cell)
<1>1. DOMAIN v = DOMAIN cell /\ \A a \in DOMAIN cell : v[a] = NodeAt(cell, a)
  BY DEF Nodes
<1> HIDE DEF v
<1>2. ASSUME NEW a \in DOMAIN cell
      PROVE  /\ v[a].type \in BsonTypes /\ v[a].fields \in Seq(Fields(KeysIn(cell)))
             /\ Parts(v[a]) = Parts(cell[a])
  <2> DEFINE f == cell[a].fields
  <2>1. /\ IsKnown(cell[a]) /\ cell[a].null \in BOOLEAN /\ IsFieldList(f)
        /\ HasParts(cell[a]) \/ f = <<>>
    BY DEF IsCell
  <2>2. CASE HasParts(cell[a])
    <3> DEFINE g == [i \in DOMAIN f |-> [key |-> StoredKey(cell[a], i), part |-> f[i].part]]
               t == IF cell[a].sql = "LIST" THEN "Array" ELSE "Document"
    <3>1. v[a] = Inner(t, g)
      BY <1>1, <2>1, <2>2, NodeShape
    <3>2. \A i \in DOMAIN f : StoredKey(cell[a], i) \in KeysIn(cell)
      BY DEF KeysIn
    <3> HIDE DEF f
    <3>3. DOMAIN f = 1 .. Len(f) /\ Len(f) \in Nat /\ \A i \in DOMAIN f : f[i].part \in Nat
      BY <2>1 DEF IsFieldList
    <3>4. g \in Seq(Fields(KeysIn(cell)))
      <4>1. g \in [1 .. Len(f) -> Fields(KeysIn(cell))]
        BY <3>2, <3>3 DEF Fields
      <4> HIDE DEF g
      <4> QED BY <3>3, <4>1
    <3>5. DOMAIN g = DOMAIN f /\ \A i \in DOMAIN f : g[i].part = f[i].part
      OBVIOUS
    <3>6. t \in BsonTypes
      BY DEF BsonTypes
    <3> HIDE DEF g, t
    <3>7. v[a].type = t /\ v[a].fields = g
      <4>1. Inner(t, g).type = t /\ Inner(t, g).fields = g
        BY DEF Inner
      <4> QED BY <3>1, <4>1
    <3>8. Parts(v[a]) = {g[i].part : i \in DOMAIN g}
      BY <3>7 DEF Parts
    <3>9. Parts(cell[a]) = {f[i].part : i \in DOMAIN f}
      BY DEF Parts, f
    <3> QED BY <3>4, <3>5, <3>6, <3>7, <3>8, <3>9
  <2>3. CASE ~HasParts(cell[a])
    <3>1. IsLeaf(v[a]) /\ f = <<>>
      BY <1>1, <2>1, <2>3, NodeShape
    <3>2. Parts(v[a]) = {} /\ Parts(cell[a]) = {}
      BY <3>1 DEF IsLeaf, Parts
    <3> QED BY <3>1, <3>2 DEF IsLeaf
  <2> QED BY <2>2, <2>3
<1>3. IsTree(v)
  <2>1. IsTree(cell)
    BY DEF IsCell
  <2> QED BY <1>1, <1>2, <2>1 DEF IsTree
<1>4. HasKeys(KeysIn(cell), v)
  BY <1>1, <1>2, <1>3 DEF HasKeys
<1> QED BY <1>1, <1>4 DEF v

LEMMA CellsLeadAsNodes ==
    ASSUME NEW cell, NEW a \in DOMAIN cell, IsKnown(cell[a]), cell[a].null \in BOOLEAN,
           NEW seg, NEW p
    PROVE  CellLeads(seg, cell[a], p) <=> Leads(seg, NodeAt(cell, a), p)
<1> DEFINE f == cell[a].fields
           n == NodeAt(cell, a)
           g == [i \in DOMAIN f |-> [key |-> StoredKey(cell[a], i), part |-> f[i].part]]
           t == IF cell[a].sql = "LIST" THEN "Array" ELSE "Document"
<1>1. CASE HasParts(cell[a])
  <2>1. n.type = t /\ n.fields = g
    <3>1. n = Inner(t, g)
      BY <1>1, NodeShape
    <3> HIDE DEF n, g, t
    <3>2. Inner(t, g).type = t /\ Inner(t, g).fields = g
      BY DEF Inner
    <3> QED BY <3>1, <3>2
  <2>2. DOMAIN g = DOMAIN f /\ \A i \in DOMAIN f : g[i] = [key |-> StoredKey(cell[a], i), part |-> f[i].part]
    OBVIOUS
  <2> HIDE DEF f, g, n
  <2>3. CASE cell[a].sql = "LIST"
    <3>1. \A i \in DOMAIN f : g[i].part = f[i].part
      BY <2>2
    <3>2. Leads(seg, n, p) <=> /\ seg \in DOMAIN IndexOf
                               /\ \E i \in DOMAIN g : i = IndexOf[seg] + 1 /\ g[i].part = p
      BY <2>1, <2>3 DEF Leads
    <3>3. CellLeads(seg, cell[a], p) <=>
              /\ seg \in DOMAIN IndexOf
              /\ \E i \in DOMAIN f : i = IndexOf[seg] + 1 /\ f[i].part = p
      BY <1>1, <2>3 DEF CellLeads, HasParts, f
    <3> QED BY <2>2, <3>1, <3>2, <3>3 DEF n
  <2>4. CASE cell[a].sql # "LIST"
    <3>0. \A i \in DOMAIN f : StoredKey(cell[a], i) = MapKey(f[i].key)
      BY <2>4 DEF StoredKey, f
    <3>1. \A i \in DOMAIN f : g[i].key = MapKey(f[i].key) /\ g[i].part = f[i].part
      BY <2>2, <3>0
    <3>2. Leads(seg, n, p) <=>
              \E i \in DOMAIN g : g[i] = [key |-> seg, part |-> p] /\ IsLast(g, i)
      BY <2>1, <2>4 DEF Leads
    <3>3. \A i \in DOMAIN f : g[i] = [key |-> seg, part |-> p] <=> MapKey(f[i].key) = seg /\ f[i].part = p
      BY <2>2, <3>0
    <3>4. \A i \in DOMAIN f : MapKey(f[i].key) = seg =>
              (IsLast(g, i) <=> \A k \in DOMAIN f : k > i => MapKey(f[k].key) # seg)
      BY <2>2, <3>1 DEF IsLast
    <3>5. CellLeads(seg, cell[a], p) <=>
              \E i \in DOMAIN f : /\ MapKey(f[i].key) = seg /\ f[i].part = p
                                  /\ \A k \in DOMAIN f : k > i => MapKey(f[k].key) # seg
      BY <1>1, <2>4 DEF CellLeads, HasParts, f
    <3> QED BY <2>2, <3>2, <3>3, <3>4, <3>5 DEF n
  <2> QED BY <2>3, <2>4
<1>2. CASE ~HasParts(cell[a])
  <2>1. IsLeaf(n)
    BY <1>2, NodeShape
  <2>2. ~Leads(seg, n, p)
    BY <2>1 DEF IsLeaf, Leads, Nesting
  <2>3. ~CellLeads(seg, cell[a], p)
    BY <1>2 DEF CellLeads, HasParts
  <2> QED BY <2>2, <2>3
<1> QED BY <1>1, <1>2

LEMMA EncodedIs ==
    ASSUME NEW cell, ValueAt(cell) # None
    PROVE  /\ \A a \in DOMAIN cell : IsKnown(cell[a])
           /\ ValueAt(cell) = Some(Settled(Nodes(cell)))
BY DEF ValueAt, Nodes

\* A path leads to the same parts of a SQL value and of its encoding.
LEMMA PathsAreKept ==
    ASSUME NEW cell, IsCell(cell), \A a \in DOMAIN cell : IsKnown(cell[a]),
           NEW path \in Seq(STRING)
    PROVE  PartsAt(cell, path) = Reached(Settled(Nodes(cell)), path, Len(path))
<1> DEFINE v == Nodes(cell)
           w == Settled(v)
           K == KeysIn(cell)
           n == Len(path)
<1>1. HasKeys(K, v) /\ DOMAIN v = DOMAIN cell /\ \A a \in DOMAIN cell : v[a] = NodeAt(cell, a)
  BY NodesAreATree
<1>2. /\ DOMAIN w = {a \in DOMAIN v : \A i \in DOMAIN a : a[i] \in Parts(SettledNode(v, SubSeq(a, 1, i - 1)))}
      /\ \A a \in DOMAIN w : w[a] = SettledNode(v, a)
  BY <1>1, SettledAt DEF HasKeys
<1>3. HasKeys(K, w)
  BY <1>1, SettledIsTree
<1>4. n \in Nat /\ DOMAIN path = 1 .. n
  OBVIOUS
<1> HIDE DEF v, w, K, n
<1>5. ASSUME NEW a \in DOMAIN v, NEW seg, NEW p
      PROVE  /\ CellLeads(seg, cell[a], p) <=> Leads(seg, SettledNode(v, a), p)
             /\ Leads(seg, SettledNode(v, a), p) => p \in Parts(SettledNode(v, a))
  <2>1. CellLeads(seg, cell[a], p) <=> Leads(seg, NodeAt(cell, a), p)
    BY <1>1, CellsLeadAsNodes DEF IsCell
  <2>2. Leads(seg, SettledNode(v, a), p) <=> Leads(seg, v[a], p)
    BY <1>1, Children
  <2>3. Leads(seg, v[a], p) => p \in Parts(SettledNode(v, a))
    BY <1>1, Children
  <2> QED BY <1>1, <2>1, <2>2, <2>3
<1>6. ASSUME NEW a \in DOMAIN v, Len(a) = n, NEW i \in 1 .. n
      PROVE  SubSeq(a, 1, i - 1) \in DOMAIN v /\ i \in DOMAIN a
  <2>1. a \in Seq(Nat) /\ \A j \in DOMAIN a : SubSeq(a, 1, j - 1) \in DOMAIN v
    BY <1>1 DEF HasKeys, IsTree
  <2>2. DOMAIN a = 1 .. n
    BY <1>6, <2>1
  <2> QED BY <2>1, <2>2
<1>7. ASSUME NEW a \in PartsAt(cell, path) PROVE a \in Reached(w, path, n)
  <2>1. /\ a \in DOMAIN v /\ Len(a) = n
        /\ \A i \in 1 .. n : CellLeads(path[i], cell[SubSeq(a, 1, i - 1)], a[i])
    BY <1>1, <1>4 DEF PartsAt, n
  <2>2. \A i \in 1 .. n : /\ Leads(path[i], SettledNode(v, SubSeq(a, 1, i - 1)), a[i])
                          /\ a[i] \in Parts(SettledNode(v, SubSeq(a, 1, i - 1)))
    BY <1>5, <1>6, <2>1
  <2>3. DOMAIN a = 1 .. n
    BY <1>1, <2>1 DEF HasKeys, IsTree
  <2>4. a \in DOMAIN w
    BY <1>2, <2>1, <2>2, <2>3
  <2>5. \A i \in 1 .. n : SubSeq(a, 1, i - 1) \in DOMAIN w
    BY <1>3, <2>3, <2>4 DEF HasKeys, IsTree
  <2> QED BY <1>2, <2>1, <2>2, <2>4, <2>5 DEF Reached
<1>8. ASSUME NEW a \in Reached(w, path, n) PROVE a \in PartsAt(cell, path)
  <2>1. /\ a \in DOMAIN w /\ Len(a) = n
        /\ \A i \in 1 .. n : Leads(path[i], w[SubSeq(a, 1, i - 1)], a[i])
    BY DEF Reached
  <2>2. DOMAIN a = 1 .. n
    BY <1>3, <2>1 DEF HasKeys, IsTree
  <2>3. \A i \in 1 .. n : SubSeq(a, 1, i - 1) \in DOMAIN w
    BY <1>3, <2>1, <2>2 DEF HasKeys, IsTree
  <2>4. DOMAIN w \subseteq DOMAIN v
    BY <1>2
  <2>5. \A i \in 1 .. n : CellLeads(path[i], cell[SubSeq(a, 1, i - 1)], a[i])
    BY <1>2, <1>5, <2>1, <2>3, <2>4
  <2> QED BY <1>1, <1>4, <2>1, <2>4, <2>5 DEF PartsAt, n
<1> QED BY <1>7, <1>8 DEF v, w, n

-----------------------------------------------------------------------------
(* What is stored of a SQL value.                                          *)

\* The entry of a part that Filled keeps.
KeepsPart(c, p) ==
    \E i \in DOMAIN c.fields :
        /\ c.fields[i].part = p
        /\ c.sql # "LIST" => \A k \in DOMAIN c.fields :
                                k > i => MapKey(c.fields[k].key) # MapKey(c.fields[i].key)

LEMMA StoredParts ==
    ASSUME NEW cell, IsCell(cell), \A b \in DOMAIN cell : IsKnown(cell[b]),
           NEW a \in DOMAIN cell, NEW p
    PROVE  p \in Parts(SettledNode(Nodes(cell), a)) <=> KeepsPart(cell[a], p)
<1> DEFINE v == Nodes(cell)
           K == KeysIn(cell)
           w == SettledNode(v, a)
           f == cell[a].fields
           g == [i \in DOMAIN f |-> [key |-> StoredKey(cell[a], i), part |-> f[i].part]]
           t == IF cell[a].sql = "LIST" THEN "Array" ELSE "Document"
<1>1. HasKeys(K, v) /\ a \in DOMAIN v /\ v[a] = NodeAt(cell, a)
  BY NodesAreATree
<1>2. /\ v[a].fields \in Seq(Fields(K))
      /\ v[a].type # "Document" => w = v[a]
      /\ v[a].type = "Document" => Inserted(K, v[a].fields, Len(v[a].fields), w.fields)
  BY <1>1, SettledNodes DEF HasKeys
<1>3. /\ IsKnown(cell[a]) /\ cell[a].null \in BOOLEAN
      /\ HasParts(cell[a]) \/ f = <<>>
  BY DEF IsCell
<1>4. p \in Parts(w) <=> \E j \in DOMAIN w.fields : w.fields[j].part = p
  BY DEF Parts
<1>5. CASE HasParts(cell[a])
  <2>1. v[a].type = t /\ v[a].fields = g
    <3>1. v[a] = Inner(t, g)
      BY <1>1, <1>3, <1>5, NodeShape
    <3> HIDE DEF v, g, t
    <3>2. Inner(t, g).type = t /\ Inner(t, g).fields = g
      BY DEF Inner
    <3> QED BY <3>1, <3>2
  <2>2. /\ DOMAIN g = DOMAIN f
        /\ \A i \in DOMAIN f : g[i] = [key |-> StoredKey(cell[a], i), part |-> f[i].part]
    OBVIOUS
  <2> HIDE DEF f, g, w, v, K
  <2>3. CASE cell[a].sql = "LIST"
    <3>1. w.fields = g
      BY <1>2, <2>1, <2>3
    <3>2. \A i \in DOMAIN f : g[i].part = f[i].part
      BY <2>2
    <3>3. KeepsPart(cell[a], p) <=> \E i \in DOMAIN f : f[i].part = p
      BY <2>3 DEF KeepsPart, f
    <3> QED BY <1>4, <2>2, <3>1, <3>2, <3>3 DEF w, v
  <2>4. CASE cell[a].sql # "LIST"
    <3>1. g \in Seq(Fields(K)) /\ Inserted(K, g, Len(g), w.fields)
      BY <1>2, <2>1, <2>4
    <3>2. \A key : (\E j \in DOMAIN w.fields : w.fields[j].key = key /\ w.fields[j].part = p)
                       <=> \E i \in DOMAIN g : g[i] = [key |-> key, part |-> p] /\ IsLast(g, i)
      BY <3>1, LastFieldIsKept
    <3>0. \A i \in DOMAIN f : StoredKey(cell[a], i) = MapKey(f[i].key)
      BY <2>4 DEF StoredKey, f
    <3>3. \A i \in DOMAIN f : g[i].key = MapKey(f[i].key) /\ g[i].part = f[i].part
      BY <2>2, <3>0
    <3>4. \A i \in DOMAIN g : g[i] = [key |-> g[i].key, part |-> g[i].part]
      BY <2>2
    <3>5. p \in Parts(w) <=> \E i \in DOMAIN g : g[i].part = p /\ IsLast(g, i)
      <4>1. ASSUME NEW j \in DOMAIN w.fields, w.fields[j].part = p
            PROVE  \E i \in DOMAIN g : g[i].part = p /\ IsLast(g, i)
        <5>1. PICK i \in DOMAIN g : g[i] = [key |-> w.fields[j].key, part |-> p] /\ IsLast(g, i)
          BY <3>2, <4>1
        <5> QED BY <5>1
      <4>2. ASSUME NEW i \in DOMAIN g, g[i].part = p, IsLast(g, i)
            PROVE  \E j \in DOMAIN w.fields : w.fields[j].part = p
        <5>1. g[i] = [key |-> g[i].key, part |-> p]
          BY <3>4, <4>2
        <5> QED BY <3>2, <4>2, <5>1
      <4> QED BY <1>4, <4>1, <4>2
    <3>6. \A i \in DOMAIN f : IsLast(g, i) <=>
              \A k \in DOMAIN f : k > i => MapKey(f[k].key) # MapKey(f[i].key)
      BY <2>2, <3>3 DEF IsLast
    <3>7. KeepsPart(cell[a], p) <=> \E i \in DOMAIN f :
              /\ f[i].part = p
              /\ \A k \in DOMAIN f : k > i => MapKey(f[k].key) # MapKey(f[i].key)
      BY <2>4 DEF KeepsPart, f
    <3> QED BY <2>2, <3>3, <3>5, <3>6, <3>7 DEF w, v
  <2> QED BY <2>3, <2>4
<1>6. CASE ~HasParts(cell[a])
  <2>1. IsLeaf(v[a]) /\ f = <<>>
    BY <1>1, <1>3, <1>6, NodeShape
  <2>2. w = v[a] /\ v[a].fields = <<>>
    BY <1>2, <2>1 DEF IsLeaf, Nesting
  <2> HIDE DEF w, v
  <2>3. DOMAIN w.fields = {}
    BY <2>2
  <2>4. ~KeepsPart(cell[a], p)
    BY <2>1 DEF KeepsPart
  <2> QED BY <1>4, <2>3, <2>4 DEF w, v
<1> QED BY <1>5, <1>6

\* The encoded document is nested as deep as what is stored of the value.
LEMMA NestingIsKept ==
    ASSUME NEW cell, IsCell(cell), \A b \in DOMAIN cell : IsKnown(cell[b])
    PROVE  IsNested(Settled(Nodes(cell)), MaxNesting) <=> ReadsBack(cell)
<1> DEFINE v == Nodes(cell)
           w == Settled(v)
           K == KeysIn(cell)
<1>1. HasKeys(K, v) /\ DOMAIN v = DOMAIN cell /\ \A a \in DOMAIN cell : v[a] = NodeAt(cell, a)
  BY NodesAreATree
<1>2. /\ DOMAIN w = {a \in DOMAIN v : \A i \in DOMAIN a : a[i] \in Parts(SettledNode(v, SubSeq(a, 1, i - 1)))}
      /\ \A a \in DOMAIN w : w[a] = SettledNode(v, a)
  BY <1>1, SettledAt DEF HasKeys
<1>3. ASSUME NEW a \in DOMAIN cell PROVE a \in DOMAIN w <=> IsStored(cell, a)
  <2>1. \A i \in DOMAIN a : SubSeq(a, 1, i - 1) \in DOMAIN cell
    BY DEF IsCell, IsTree
  <2>2. \A i \in DOMAIN a : a[i] \in Parts(SettledNode(v, SubSeq(a, 1, i - 1)))
                               <=> KeepsPart(cell[SubSeq(a, 1, i - 1)], a[i])
    BY <2>1, StoredParts
  <2>3. IsStored(cell, a) <=> \A i \in DOMAIN a : KeepsPart(cell[SubSeq(a, 1, i - 1)], a[i])
    BY DEF IsStored, KeepsPart
  <2> HIDE DEF v, w
  <2> QED BY <1>1, <1>2, <2>2, <2>3
<1>4. ASSUME NEW a \in DOMAIN w PROVE w[a].type \in Nesting <=> HasParts(cell[a])
  <2>1. a \in DOMAIN cell /\ w[a].type = NodeAt(cell, a).type
    BY <1>1, <1>2, SettledNodes
  <2>2. IsKnown(cell[a]) /\ cell[a].null \in BOOLEAN
    BY <2>1 DEF IsCell
  <2>3. CASE HasParts(cell[a])
    <3>1. NodeAt(cell, a).type \in {"Array", "Document"}
      <4>1. \A type, fields : Inner(type, fields).type = type
        BY DEF Inner
      <4>2. \E type \in {"Array", "Document"} : \E fields : NodeAt(cell, a) = Inner(type, fields)
        BY <2>1, <2>2, <2>3, NodeShape
      <4> QED BY <4>1, <4>2
    <3> QED BY <2>1, <2>3, <3>1 DEF Nesting
  <2>4. CASE ~HasParts(cell[a])
    <3>1. IsLeaf(NodeAt(cell, a))
      BY <2>1, <2>2, <2>4, NodeShape
    <3> QED BY <2>1, <2>4, <3>1 DEF IsLeaf
  <2> QED BY <2>3, <2>4
<1>5. DOMAIN w \subseteq DOMAIN cell
  BY <1>1, <1>2
<1> HIDE DEF v, w
<1>6. IsNested(w, MaxNesting) <=> ReadsBack(cell)
  BY <1>3, <1>4, <1>5 DEF IsNested, ReadsBack
<1> QED BY <1>6 DEF w, v

-----------------------------------------------------------------------------
(* What a part of a SQL value becomes.                                     *)

LEMMA NumbersAndTexts ==
    /\ \A type, n : Number(type, n).n = n
    /\ \A type, text : Text(type, text).text = text
    /\ \A type, sub, n, text : Leaf(type, sub, n, text).text = text
    /\ \A x : Some(x)[1] = x
BY DEF Number, Text, Leaf, Some

LEMMA InstantsAreKept ==
    ASSUME NEW c, ~c.null, c.sql \in DOMAIN Units, c.n \in Int64
    PROVE  Denotes(ScalarAt(c)[1], c)
<1> DEFINE m == TimestampMillis(Units[c.sql], c.n)
<1>1. ScalarAt(c)[1].n = m
  <2>1. ScalarAt(c) = Some(Number("DateTime", m))
    BY DEF ScalarAt, Variant, Units
  <2> QED BY <2>1, NumbersAndTexts
<1> HIDE DEF m
<1>2. c.n \in Int /\ Int64Max \in Nat
  BY NumbersAssumption, SMT DEF Int64
<1>3. CASE c.sql = "TIMESTAMP_S"
  <2>1. m = SaturatingMul(c.n, 1000)
    BY <1>3 DEF m, Units, TimestampMillis
  <2>2. m = c.n * 1000 \/ (c.n * 1000 \notin Int64 /\ m \in {-Int64Max - 1, Int64Max})
    BY <1>2, <2>1, SMT DEF SaturatingMul, Int64
  <2> QED BY <1>1, <1>3, <2>2, SMT DEF Denotes, Variant
<1>4. CASE c.sql = "TIMESTAMP_MS"
  <2>1. m = c.n
    BY <1>4 DEF m, Units, TimestampMillis
  <2> QED BY <1>1, <1>4, <2>1, SMT DEF Denotes, Variant
<1>5. CASE c.sql = "TIMESTAMP"
  <2>1. m = TimestampMillis("us", c.n)
    BY <1>5 DEF m, Units
  <2>2. CutTowards1970(c.n, m, 1000)
    BY <1>2, <2>1, InstantsAreCutTowards1970
  <2> QED BY <1>1, <1>5, <2>2, SMT DEF Denotes, Variant
<1>6. CASE c.sql = "TIMESTAMP_NS"
  <2>1. m = TimestampMillis("ns", c.n)
    BY <1>6 DEF m, Units
  <2>2. CutTowards1970(c.n, m, 1000000)
    BY <1>2, <2>1, InstantsAreCutTowards1970
  <2> QED BY <1>1, <1>6, <2>2, SMT DEF Denotes, Variant
<1> QED BY <1>3, <1>4, <1>5, <1>6 DEF Units

LEMMA ScalarsAreKept ==
    ASSUME NEW c, ~c.null, ScalarAt(c) # None, c.sql # "DECIMAL", IsContent(c),
           c.sql \notin {"STRUCT", "MAP", "LIST"}
    PROVE  Denotes(ScalarAt(c)[1], c)
<1> DEFINE v == ScalarAt(c)[1]
<1>1. CASE c.sql \in DOMAIN Units
  BY <1>1, InstantsAreKept DEF IsContent
<1>2. CASE c.sql = "UBIGINT"
  <2> DEFINE x == IntFromU64(c.n)
  <2>1. v.n = x.n
    <3>1. ScalarAt(c) = Some(Number(x.type, x.n))
      BY <1>2 DEF ScalarAt, Variant, Units
    <3> QED BY <3>1, NumbersAndTexts
  <2>2. c.n \in UInt64
    BY <1>2 DEF IsContent
  <2>3. /\ c.n <= Int64Max => x.n = c.n
        /\ c.n > Int64Max  => 2 * (x.n - c.n) <= Spacing /\ 2 * (c.n - x.n) <= Spacing
    BY <2>2, IntegersKeepTheirValue
  <2>4. x.n \in Int /\ c.n \in Int /\ Int64Max \in Int /\ Spacing \in Int
    <3>1. c.n \in Nat /\ Int64Max \in Int /\ Spacing \in Int
      BY <2>2, NumbersAssumption, SMT DEF UInt64
    <3>2. NearestDouble(c.n) \in Nat
      BY <3>1, DoublesAreNear
    <3> QED BY <3>1, <3>2 DEF IntFromU64
  <2> HIDE DEF x, v
  <2>5. v.n = c.n \/ (c.n > Int64Max /\ 2 * Magnitude(v.n - c.n) <= Spacing)
    BY <2>1, <2>3, <2>4, SMT DEF Magnitude
  <2>6. Denotes(v, c)
    BY <1>2, <2>5, SMT DEF Denotes, Variant
  <2> QED BY <2>6 DEF v
<1>3. CASE c.sql \in DOMAIN Variant \cup {"BLOB", "UUID"}
  <2>1. CASE c.sql \in {"BOOLEAN", "VARCHAR", "BLOB", "UUID"}
    <3>1. "text" \in DOMAIN c
      BY <2>1 DEF IsContent
    <3>2. ScalarAt(c) \in {Some(Text(Variant[c.sql], c.text)), Some(Leaf("Binary", 0, c.n, c.text)),
                           Some(Leaf("Binary", 4, 16, c.text))}
      BY <2>1 DEF ScalarAt, Variant, Units
    <3>3. v.text = c.text
      BY <3>2, NumbersAndTexts
    <3> HIDE DEF v
    <3>4. Denotes(v, c)
      BY <2>1, <3>1, <3>3, SMT DEF Denotes, Variant
    <3> QED BY <3>4 DEF v
  <2>2. CASE c.sql \in DOMAIN Variant \ {"BOOLEAN", "VARCHAR"}
    <3>1. "text" \notin DOMAIN c
      BY <2>2 DEF IsContent
    <3>2. ScalarAt(c) = Some(Number(Variant[c.sql], c.n))
      BY <2>2 DEF ScalarAt, Variant, Units
    <3>3. v.n = c.n
      BY <3>2, NumbersAndTexts
    <3> HIDE DEF v
    <3>4. Denotes(v, c)
      BY <2>2, <3>1, <3>3, SMT DEF Denotes, Variant
    <3> QED BY <3>4 DEF v
  <2> QED BY <1>3, <2>1, <2>2
<1>4. CASE c.sql \notin DOMAIN Variant \cup DOMAIN Units \cup {"BLOB", "UUID", "UBIGINT"}
  <2>1. ScalarAt(c) = None
    BY <1>4 DEF ScalarAt
  <2> QED BY <2>1
<1> QED BY <1>1, <1>2, <1>3, <1>4

\* A node that is stored as encode makes it, a document perhaps with fewer
\* fields, is what the cell says.
LEMMA CellsAreKept ==
    ASSUME NEW cell, IsCell(cell), NEW a \in DOMAIN cell, IsKnown(cell[a]),
           cell[a].null \/ cell[a].sql # "DECIMAL",
           NEW node, node.type = NodeAt(cell, a).type,
           node.type # "Document" => node = NodeAt(cell, a)
    PROVE  Denotes(node, cell[a])
<1> DEFINE c == cell[a]
<1>1. /\ c.null \in BOOLEAN /\ IsFieldList(c.fields)
      /\ HasParts(c) \/ c.null \/ IsContent(c)
  BY DEF IsCell
<1>2. CASE c.null
  <2>1. NodeAt(cell, a) = Text("Null", "") /\ Text("Null", "").type = "Null"
    BY <1>2 DEF NodeAt, Text, Leaf
  <2>2. node.type = "Null"
    BY <2>1
  <2> HIDE DEF c
  <2>3. Denotes(node, c)
    BY <1>2, <2>2, SMT DEF Denotes
  <2> QED BY <2>3 DEF c
<1>3. CASE ~c.null /\ c.sql \in {"STRUCT", "MAP"}
  <2>1. NodeAt(cell, a) = Inner("Document", FieldsOf(c))
    BY <1>3 DEF NodeAt, DocumentOf
  <2>2. Inner("Document", FieldsOf(c)).type = "Document"
    BY DEF Inner
  <2> QED BY <1>3, <2>1, <2>2, SMT DEF Denotes, Variant
<1>4. CASE ~c.null /\ c.sql = "LIST"
  <2> DEFINE f == c.fields
             g == [i \in DOMAIN f |-> [key |-> "", part |-> f[i].part]]
  <2>1. NodeAt(cell, a) = Inner("Array", g)
    BY <1>4 DEF NodeAt, ArrayOf
  <2>2. Inner("Array", g).type = "Array" /\ Inner("Array", g).fields = g
    <3> HIDE DEF g
    <3> QED BY DEF Inner
  <2>3. Len(g) = Len(f)
    <3> HIDE DEF f
    <3>1. DOMAIN f = 1 .. Len(f) /\ Len(f) \in Nat
      BY <1>1 DEF IsFieldList, f
    <3> QED BY <3>1
  <2> HIDE DEF g
  <2>4. node = Inner("Array", g)
    BY <2>1, <2>2
  <2> QED BY <1>4, <2>2, <2>3, <2>4, SMT DEF Denotes, Variant
<1>5. CASE ~c.null /\ c.sql \notin {"STRUCT", "MAP", "LIST"}
  <2>1. NodeAt(cell, a) = ScalarAt(c)[1] /\ ScalarAt(c) # None /\ IsContent(c)
    BY <1>1, <1>5 DEF NodeAt, IsKnown, HasParts
  <2>2. node = ScalarAt(c)[1]
    BY <2>1, ScalarsAreLeaves DEF IsLeaf, Nesting
  <2> QED BY <1>5, <2>1, <2>2, ScalarsAreKept
<1> QED BY <1>1, <1>2, <1>3, <1>4, <1>5

-----------------------------------------------------------------------------
(* The inductive invariant: the walk is at the only part that the segments *)
(* before it lead to, and what is answered is right.                       *)

IsOption(x) == x = None \/ \E y : x = Some(y)

Found == IF Readable THEN AddressesAt(query.path) ELSE {}

KeysRight(x) == x = IF Readable THEN Some(KeysOf(Decoded(doc[1]))) ELSE None

TypeRight(x) ==
    /\ Found = {} <=> x = None
    /\ \A a \in Found : x = Some(TypeName(doc[1][a]))

FieldRight(x) ==
    /\ Found = {} <=> x = None
    /\ \A a \in Found : /\ cur = a /\ tree = Decoded(doc[1])
                       /\ x = Some(Coerce(Referenced(Decoded(doc[1]), a), query.mode))

Stored ==
    doc # None =>
        /\ doc = Some(doc[1]) /\ \E K : HasKeys(K, doc[1])
        /\ query.from # "blob" => doc = ValueAt(query.value) /\ doc[1][<<>>].type = "Document"

Walking ==
    /\ Readable /\ tree = Decoded(doc[1])
    /\ Reached(doc[1], query.path, Len(cur)) = {cur}
    /\ rest \in Seq(STRING) /\ Len(rest) + Len(cur) = Len(query.path)
    /\ \A i \in 1 .. Len(rest) : rest[i] = query.path[Len(cur) + i]

IInv ==
    /\ query \in Queries
    /\ pc \in {"encode", "decode", "walk", "done", "failed"} /\ asked \in 1 .. 4
    /\ pc = "encode" => asked = 1 /\ query.from # "blob"
    /\ pc \in {"decode", "walk"} => asked \in 1 .. 3
    /\ pc = "failed" => asked = 1
    /\ pc = "done" => asked = 4 \/ (asked = 3 /\ query.path = <<>>)
    /\ Stored
    /\ cur \in DOMAIN tree /\ tree[cur].type \in BsonTypes
    /\ Len(rest) <= Len(query.path)
    /\ DOMAIN answers = {"keys", "type_of", "field"}
    /\ \A q \in DOMAIN answers : IsOption(answers[q])
    /\ pc = "walk" => Walking
    /\ asked > 1 => KeysRight(answers["keys"])
    /\ asked > 2 => TypeRight(answers["type_of"])
    /\ asked > 3 => FieldRight(answers["field"])

LEMMA Options ==
    /\ \A x : Some(x) # None /\ Some(x)[1] = x /\ IsOption(Some(x)) /\ Len(Some(x)) = 1
    /\ IsOption(None) /\ Len(None) = 0
<1>1. \A x : Some(x)[1] = x /\ Len(Some(x)) = 1 /\ Len(None) = 0
  BY DEF Some, None
<1>2. \A x : Some(x) # None
  BY <1>1
<1> QED BY <1>1, <1>2 DEF IsOption

LEMMA QueryIs ==
    ASSUME query \in Queries
    PROVE  /\ query.path \in Seq(STRING) /\ Len(query.path) \in Nat
           /\ query.from = "blob" => HasKeys(STRING, query.value)
           /\ query.from # "blob" => IsCell(query.value)
<1>1. /\ query.path \in Seq(STRING)
      /\ IF query.from = "blob" THEN IsValue(query.value) ELSE IsCell(query.value)
  BY QueriesAssumption
<1>2. query.from = "blob" => HasKeys(STRING, query.value)
  BY <1>1 DEF IsValue, HasKeys, Fields
<1> QED BY <1>1, <1>2

LEMMA FoundIsReached ==
    ASSUME query \in Queries, Readable
    PROVE  Found = Reached(doc[1], query.path, Len(query.path))
<1>1. DOMAIN query.path = 1 .. Len(query.path)
  BY QueryIs
<1> QED BY <1>1 DEF Found, AddressesAt, Reached

LEMMA InitInvariant == Init => IInv
<1> SUFFICES ASSUME Init PROVE IInv
  OBVIOUS
<1> USE DEF Init
<1>1. query.path \in Seq(STRING) /\ Len(query.path) \in Nat
  BY QueryIs
<1>2. cur \in DOMAIN tree /\ tree[cur].type \in BsonTypes
  <2>1. Inner("Document", <<>>).type = "Document"
    BY DEF Inner
  <2> QED BY <2>1 DEF NoFields, BsonTypes
<1>3. Len(rest) <= Len(query.path)
  BY <1>1
<1>4. Stored
  <2>1. CASE query.from = "blob"
    <3>1. doc = Some(query.value) /\ doc[1] = query.value
      BY <2>1, Options
    <3>2. HasKeys(STRING, doc[1])
      BY <2>1, <3>1, QueryIs
    <3> QED BY <2>1, <3>1, <3>2 DEF Stored
  <2>2. CASE query.from # "blob"
    BY <2>2 DEF Stored
  <2> QED BY <2>1, <2>2
<1>5. DOMAIN answers = {"keys", "type_of", "field"} /\ \A q \in DOMAIN answers : IsOption(answers[q])
  BY Options
<1> QED BY <1>2, <1>3, <1>4, <1>5 DEF IInv

\* A right answer, and the next function is asked.
LEMMA AnswerStep ==
    ASSUME IInv, pc \in {"decode", "walk"}, NEW x, Answer(x), IsOption(x),
           asked = 1 => KeysRight(x), asked = 2 => TypeRight(x), asked = 3 => FieldRight(x)
    PROVE  IInv'
<1>1. /\ answers' = [answers EXCEPT ![Questions[asked]] = x]
      /\ asked' = asked + 1
      /\ pc' = IF asked = 3 \/ (asked = 2 /\ query.path = <<>>) THEN "done" ELSE "decode"
      /\ rest' = <<>> /\ query' = query /\ doc' = doc /\ tree' = tree /\ cur' = cur
  BY DEF Answer
<1>2. asked \in 1 .. 3 /\ Len(query.path) \in Nat
  BY QueryIs DEF IInv
<1>3. Readable' = Readable /\ Found' = Found /\ Stored' = Stored
  BY <1>1 DEF Readable, Found, AddressesAt, Stored
<1>4. /\ \A y : KeysRight(y)' <=> KeysRight(y)
      /\ \A y : TypeRight(y)' <=> TypeRight(y)
      /\ \A y : FieldRight(y)' <=> FieldRight(y)
  BY <1>1, <1>3 DEF KeysRight, TypeRight, FieldRight
<1>5. Questions[1] = "keys" /\ Questions[2] = "type_of" /\ Questions[3] = "field"
  BY DEF Questions
<1>6. /\ DOMAIN answers' = {"keys", "type_of", "field"}
      /\ \A q \in DOMAIN answers' : IsOption(answers'[q])
      /\ asked' > 1 => KeysRight(answers'["keys"])
      /\ asked' > 2 => TypeRight(answers'["type_of"])
      /\ asked' > 3 => FieldRight(answers'["field"])
  <2>0. /\ DOMAIN answers = {"keys", "type_of", "field"} /\ \A q \in DOMAIN answers : IsOption(answers[q])
        /\ asked > 1 => KeysRight(answers["keys"])
        /\ asked > 2 => TypeRight(answers["type_of"])
    BY DEF IInv
  <2>1. CASE asked = 1
    <3>1. answers' = [answers EXCEPT !["keys"] = x]
      BY <1>1, <1>5, <2>1
    <3> QED BY <1>1, <2>0, <2>1, <3>1
  <2>2. CASE asked = 2
    <3>1. answers' = [answers EXCEPT !["type_of"] = x] /\ KeysRight(answers["keys"])
      <4>1. Questions[asked] = "type_of" /\ asked > 1
        BY <1>5, <2>2
      <4> QED BY <1>1, <2>0, <2>2, <4>1
    <3> QED BY <1>1, <2>0, <2>2, <3>1
  <2>3. CASE asked = 3
    <3>1. /\ answers' = [answers EXCEPT !["field"] = x]
          /\ KeysRight(answers["keys"]) /\ TypeRight(answers["type_of"])
      <4>1. Questions[asked] = "field" /\ asked > 2
        BY <1>5, <2>3
      <4> QED BY <1>1, <2>0, <2>3, <4>1
    <3> QED BY <1>1, <2>0, <2>3, <3>1
  <2> QED BY <1>2, <2>1, <2>2, <2>3
<1>7. Len(rest') <= Len(query'.path)
  BY <1>1, <1>2
<1>8. /\ pc' \in {"decode", "done"} /\ asked' \in 1 .. 4
      /\ pc' = "decode" => asked' \in 1 .. 3
      /\ pc' = "done" => asked' = 4 \/ (asked' = 3 /\ query'.path = <<>>)
  BY <1>1, <1>2
<1>9. /\ query' \in Queries /\ Stored' /\ cur' \in DOMAIN tree' /\ tree'[cur'].type \in BsonTypes
  BY <1>1, <1>3 DEF IInv
<1> QED BY <1>4, <1>6, <1>7, <1>8, <1>9 DEF IInv

LEMMA EncodeStep ==
    ASSUME IInv, EncodeDocument
    PROVE  IInv'
<1> DEFINE v == ValueAt(query.value)
<1>1. /\ pc = "encode" /\ asked = 1 /\ query.from # "blob" /\ query \in Queries
      /\ query' = query /\ asked' = asked /\ tree' = tree /\ cur' = cur /\ rest' = rest
      /\ answers' = answers
  BY DEF IInv, EncodeDocument
<1>2. /\ \/ doc' = None /\ pc' = "decode"
         \/ pc' = "failed" /\ doc' = doc
         \/ v # None /\ doc' = v /\ v[1][<<>>].type = "Document" /\ pc' = "decode"
  BY DEF EncodeDocument
<1>3. Stored'
  <2>1. CASE doc' = None
    BY <2>1 DEF Stored
  <2>2. CASE doc' = doc
    BY <1>1, <2>2 DEF Stored, IInv
  <2>3. CASE v # None /\ doc' = v /\ v[1][<<>>].type = "Document"
    <3>1. IsCell(query.value)
      BY <1>1, QueryIs
    <3>2. /\ \A a \in DOMAIN query.value : IsKnown(query.value[a])
          /\ v = Some(Settled(Nodes(query.value)))
      BY <2>3, EncodedIs
    <3>3. HasKeys(KeysIn(query.value), Nodes(query.value))
      BY <3>1, <3>2, NodesAreATree
    <3>4. HasKeys(KeysIn(query.value), Settled(Nodes(query.value)))
      BY <3>3, SettledIsTree
    <3>5. doc'[1] = Settled(Nodes(query.value)) /\ doc' = Some(doc'[1])
      BY <2>3, <3>2, Options
    <3>6. \E K : HasKeys(K, doc'[1])
      BY <3>4, <3>5
    <3> QED BY <1>1, <2>3, <3>5, <3>6 DEF Stored
  <2> QED BY <1>2, <2>1, <2>2, <2>3
<1>4. pc' \in {"decode", "failed"}
  BY <1>2
<1> HIDE DEF v
<1> QED BY <1>1, <1>3, <1>4 DEF IInv

LEMMA DecodeStep ==
    ASSUME IInv, DecodeDocument
    PROVE  IInv'
<1>1. pc = "decode" /\ query \in Queries /\ asked \in 1 .. 3
  BY DEF IInv, DecodeDocument
<1>2. Readable <=> doc # None /\ Precheck(doc[1])
  BY DEF Readable, Precheck
<1>3. CASE ~Readable
  <2>1. Answer(None)
    BY <1>2, <1>3 DEF DecodeDocument
  <2>2. KeysRight(None) /\ TypeRight(None) /\ FieldRight(None)
    BY <1>3 DEF KeysRight, TypeRight, FieldRight, Found
  <2> QED BY <1>1, <2>1, <2>2, AnswerStep, Options
<1>4. CASE Readable
  <2>1. /\ tree' = Decoded(doc[1]) /\ cur' = <<>> /\ rest' = query.path /\ pc' = "walk"
        /\ query' = query /\ doc' = doc /\ asked' = asked /\ answers' = answers
    BY <1>2, <1>4 DEF DecodeDocument
  <2>2. PICK K : HasKeys(K, doc[1])
    BY <1>2, <1>4 DEF IInv, Stored
  <2>3. HasKeys(K, tree')
    BY <2>1, <2>2, SettledIsTree DEF Decoded
  <2>4. cur' \in DOMAIN tree' /\ tree'[cur'].type \in BsonTypes
    BY <2>1, <2>3 DEF HasKeys, IsTree
  <2>5. query.path \in Seq(STRING) /\ Len(query.path) \in Nat
    BY <1>1, QueryIs
  <2>6. Readable' = Readable /\ Stored' = Stored /\ Found' = Found
    BY <2>1 DEF Readable, Stored, Found, AddressesAt
  <2>7. Walking'
    <3>1. Len(<<>>) = 0 /\ Reached(doc[1], query.path, 0) = {<<>>}
      BY <2>2, ReachedAtFirst
    <3>2. \A i \in 1 .. Len(query.path) : 0 + i = i
      OBVIOUS
    <3> QED BY <1>4, <2>1, <2>5, <2>6, <3>1, <3>2 DEF Walking
  <2>8. /\ asked > 1 => KeysRight(answers["keys"])'
        /\ asked > 2 => TypeRight(answers["type_of"])'
        /\ ~(asked > 3)
    BY <1>1, <2>1, <2>6 DEF IInv, KeysRight, TypeRight
  <2> QED BY <1>1, <2>1, <2>4, <2>5, <2>6, <2>7, <2>8 DEF IInv
<1> QED BY <1>3, <1>4

LEMMA KeysStep ==
    ASSUME IInv, Keys
    PROVE  IInv'
<1>1. pc = "walk" /\ Questions[asked] = "keys" /\ Answer(Some(KeysOf(tree)))
  BY DEF Keys, Asked
<1>2. asked = 1
  <2>1. asked \in 1 .. 3
    BY <1>1 DEF IInv
  <2> QED BY <1>1, <2>1 DEF Questions
<1>3. KeysRight(Some(KeysOf(tree)))
  BY <1>1 DEF IInv, Walking, KeysRight
<1> QED BY <1>1, <1>2, <1>3, AnswerStep, Options

\* At the end of the path, the walk is at the part that was to be found.
LEMMA AtTheEnd ==
    ASSUME IInv, pc = "walk", rest = <<>>
    PROVE  /\ Found = {cur}
           /\ TypeRight(Some(TypeName(tree[cur])))
           /\ FieldRight(Some(Coerce(Referenced(tree, cur), query.mode)))
<1>1. Walking /\ query \in Queries /\ cur \in DOMAIN tree
  BY DEF IInv
<1>2. PICK K : HasKeys(K, doc[1])
  BY <1>1 DEF IInv, Stored, Walking, Readable
<1>3. cur \in DOMAIN doc[1] /\ tree[cur] = SettledNode(doc[1], cur)
  BY <1>1, <1>2, SettledAt DEF Walking, Decoded, HasKeys
<1>4. Len(cur) = Len(query.path)
  <2>1. Len(rest) = 0 /\ Len(rest) + Len(cur) = Len(query.path) /\ cur \in Seq(Nat)
    BY <1>1, <1>2, <1>3 DEF Walking, HasKeys, IsTree
  <2> QED BY <2>1
<1>5. Found = {cur}
  BY <1>1, <1>4, FoundIsReached DEF Walking
<1>6. TypeName(tree[cur]) = TypeName(doc[1][cur])
  BY <1>2, <1>3, SettledNodes DEF TypeName
<1>7. tree = Decoded(doc[1])
  BY <1>1 DEF Walking
<1> QED BY <1>5, <1>6, <1>7, Options DEF TypeRight, FieldRight

\* A segment that leads to a part is followed, and another ends the walk
\* with NULL, because the path leads nowhere.
LEMMA FollowStep ==
    ASSUME IInv, pc = "walk", asked # 1, rest # <<>>, Follow(TypeChild(tree[cur], Head(rest)))
    PROVE  IInv'
<1> DEFINE n == Len(cur)
           seg == query.path[n + 1]
           P == {q \in Nat : Leads(seg, doc[1][cur], q)}
<1>1. Walking /\ query \in Queries /\ cur \in DOMAIN tree /\ asked \in 1 .. 3
  BY DEF IInv
<1>2. PICK K : HasKeys(K, doc[1])
  BY <1>1 DEF IInv, Stored, Walking, Readable
<1>3. /\ cur \in DOMAIN Settled(doc[1]) /\ cur \in DOMAIN doc[1] /\ cur \in Seq(Nat)
      /\ tree[cur] = SettledNode(doc[1], cur)
  BY <1>1, <1>2, SettledAt DEF Walking, Decoded, HasKeys, IsTree
<1>4. /\ n \in Nat /\ rest \in Seq(STRING) /\ Len(rest) \in Nat /\ Len(rest) > 0
      /\ Len(query.path) = Len(rest) + n
  BY <1>1, <1>3 DEF Walking
<1>5. Head(rest) = query.path[n + 1]
  <2>1. 1 \in 1 .. Len(rest) /\ Head(rest) = rest[1]
    BY <1>4
  <2> QED BY <1>1, <2>1 DEF Walking
<1>6. TypeChild(tree[cur], Head(rest)) = P
  BY <1>2, <1>3, <1>5, Children
<1>7. Reached(doc[1], query.path, n + 1) = {Append(cur, p) : p \in P}
  <2>1. Reached(doc[1], query.path, Len(cur)) = {cur}
    BY <1>1 DEF Walking
  <2>2. Reached(doc[1], query.path, Len(cur) + 1)
            = {Append(cur, p) : p \in {q \in Nat : Leads(query.path[Len(cur) + 1], doc[1][cur], q)}}
    BY <1>2, <1>3, <2>1, ReachedNext
  <2> QED BY <2>2
<1> HIDE DEF seg
<1>10. \A p \in P : /\ p \in Nat /\ p \in Parts(SettledNode(doc[1], cur))
                    /\ \A q \in P : q = p
  <2>1. /\ \A p : Leads(seg, doc[1][cur], p) => p \in Parts(SettledNode(doc[1], cur))
        /\ \A p, q : Leads(seg, doc[1][cur], p) /\ Leads(seg, doc[1][cur], q) => p = q
    BY <1>2, <1>3, Children
  <2> QED BY <2>1
<1> HIDE DEF P, n
<1>8. CASE P = {}
  <2>1. Answer(None)
    BY <1>6, <1>8 DEF Follow
  <2>2. Found = {}
    <3>1. Found = Reached(doc[1], query.path, Len(query.path))
      BY <1>1, FoundIsReached DEF Walking
    <3>2. Len(query.path) \in Nat /\ n + 1 \in 0 .. Len(query.path)
      BY <1>4
    <3>3. \A a \in Found : SubSeq(a, 1, n + 1) \in Reached(doc[1], query.path, n + 1)
      BY <1>2, <3>1, <3>2, ReachedBefore
    <3> QED BY <1>7, <1>8, <3>3
  <2>3. TypeRight(None) /\ FieldRight(None)
    BY <2>2 DEF TypeRight, FieldRight
  <2> QED BY <1>1, <2>1, <2>3, AnswerStep, Options
<1>9. CASE P # {}
  <2>1. PICK p \in P : cur' = Append(cur, p)
    BY <1>6, <1>9 DEF Follow
  <2>2. /\ rest' = Tail(rest) /\ query' = query /\ doc' = doc /\ pc' = pc /\ asked' = asked
        /\ tree' = tree /\ answers' = answers
    BY <1>6, <1>9 DEF Follow
  <2>3. \A q \in P : q = p
    BY <1>10, <2>1
  <2>4. Append(cur, p) \in DOMAIN Settled(doc[1]) /\ p \in Nat
    <3>1. p \in Parts(SettledNode(doc[1], cur)) /\ p \in Nat
      BY <1>10, <2>1
    <3>2. HasKeys(K, Settled(doc[1])) /\ Settled(doc[1])[cur] = SettledNode(doc[1], cur)
      BY <1>2, <1>3, SettledIsTree, SettledAt DEF HasKeys
    <3> QED BY <1>3, <3>1, <3>2 DEF HasKeys, IsTree
  <2>5. cur' \in DOMAIN tree' /\ tree'[cur'].type \in BsonTypes
    <3>1. HasKeys(K, tree)
      BY <1>1, <1>2, SettledIsTree DEF Walking, Decoded
    <3> QED BY <1>1, <2>1, <2>2, <2>4, <3>1 DEF Walking, Decoded, HasKeys
  <2>6. Readable' = Readable /\ Stored' = Stored /\ Found' = Found
    BY <2>2 DEF Readable, Stored, Found, AddressesAt
  <2>7. Len(cur') = n + 1
    BY <1>3, <2>1, <2>4, Appended DEF n
  <2>8. /\ rest' \in Seq(STRING) /\ Len(rest') = Len(rest) - 1
        /\ \A i \in 1 .. Len(rest') : rest'[i] = rest[i + 1]
    BY <1>4, <2>2
  <2>9. Walking'
    <3>1. Reached(doc[1], query.path, n + 1) = {cur'}
      BY <1>7, <2>1, <2>3
    <3>2. ASSUME NEW i \in 1 .. Len(rest') PROVE rest'[i] = query.path[Len(cur') + i]
      <4>1. i + 1 \in 1 .. Len(rest) /\ n + (i + 1) = Len(cur') + i
        BY <1>4, <2>7, <2>8
      <4>2. rest[i + 1] = query.path[n + (i + 1)]
        BY <1>1, <4>1 DEF Walking, n
      <4> QED BY <2>8, <4>1, <4>2
    <3>3. Len(rest') + Len(cur') = Len(query.path)
      BY <1>4, <2>7, <2>8
    <3>4. Readable /\ tree = Decoded(doc[1])
      BY <1>1 DEF Walking
    <3> QED BY <2>2, <2>6, <2>7, <2>8, <3>1, <3>2, <3>3, <3>4 DEF Walking
  <2>10. Len(rest') <= Len(query'.path)
    BY <1>4, <2>2, <2>8
  <2>11. /\ asked > 1 => KeysRight(answers["keys"])'
         /\ asked > 2 => TypeRight(answers["type_of"])'
         /\ ~(asked > 3)
    BY <1>1, <2>2, <2>6 DEF IInv, KeysRight, TypeRight
  <2> QED BY <1>1, <2>2, <2>5, <2>6, <2>9, <2>10, <2>11 DEF IInv
<1> QED BY <1>8, <1>9

LEMMA TypeOfStep ==
    ASSUME IInv, TypeOf
    PROVE  IInv'
<1>1. pc = "walk" /\ Questions[asked] = "type_of"
  BY DEF TypeOf, Asked
<1>2. asked = 2
  <2>1. asked \in 1 .. 3
    BY <1>1 DEF IInv
  <2> QED BY <1>1, <2>1 DEF Questions
<1>3. CASE rest = <<>>
  BY <1>1, <1>2, <1>3, AnswerStep, AtTheEnd, Options DEF TypeOf
<1>4. CASE rest # <<>>
  BY <1>1, <1>2, <1>4, FollowStep DEF TypeOf
<1> QED BY <1>3, <1>4

LEMMA FieldStep ==
    ASSUME IInv, Field
    PROVE  IInv'
<1>1. pc = "walk" /\ Questions[asked] = "field"
  BY DEF Field, Asked
<1>2. asked = 3
  <2>1. asked \in 1 .. 3
    BY <1>1 DEF IInv
  <2> QED BY <1>1, <2>1 DEF Questions
<1>3. CASE rest = <<>>
  BY <1>1, <1>2, <1>3, AnswerStep, AtTheEnd, Options DEF Field
<1>4. CASE rest # <<>>
  <2>1. Follow(TypeChild(tree[cur], Head(rest)))
    BY <1>4, SameChildren DEF Field
  <2> QED BY <1>1, <1>2, <1>4, <2>1, FollowStep
<1> QED BY <1>3, <1>4

LEMMA StepInvariant == IInv /\ [Next]_vars => IInv'
<1> SUFFICES ASSUME IInv, [Next]_vars PROVE IInv'
  OBVIOUS
<1>1. CASE EncodeDocument
  BY <1>1, EncodeStep
<1>2. CASE DecodeDocument
  BY <1>2, DecodeStep
<1>3. CASE Keys
  BY <1>3, KeysStep
<1>4. CASE TypeOf
  BY <1>4, TypeOfStep
<1>5. CASE Field
  BY <1>5, FieldStep
<1>6. CASE UNCHANGED vars
  <2>1. /\ query' = query /\ doc' = doc /\ pc' = pc /\ asked' = asked /\ tree' = tree
        /\ cur' = cur /\ rest' = rest /\ answers' = answers
    BY <1>6 DEF vars
  <2>2. Readable' = Readable /\ Stored' = Stored /\ Found' = Found /\ Walking' = Walking
    BY <2>1 DEF Readable, Stored, Found, AddressesAt, Walking
  <2>3. /\ KeysRight(answers["keys"])' <=> KeysRight(answers["keys"])
        /\ TypeRight(answers["type_of"])' <=> TypeRight(answers["type_of"])
        /\ FieldRight(answers["field"])' <=> FieldRight(answers["field"])
    BY <2>1, <2>2 DEF KeysRight, TypeRight, FieldRight
  <2> QED BY <2>1, <2>2, <2>3 DEF IInv
<1> QED BY <1>1, <1>2, <1>3, <1>4, <1>5, <1>6 DEF Next

LEMMA Invariant == Spec => []IInv
<1>1. Init => IInv
  BY InitInvariant
<1>2. IInv /\ [Next]_vars => IInv'
  BY StepInvariant
<1> QED BY <1>1, <1>2, PTL DEF Spec

-----------------------------------------------------------------------------
(* The theorems.                                                           *)

(* In every state the reference is to a node of the decoded document, and  *)
(* a walk is only in a document that precheck lets through.                *)
THEOREM LookupTypes == Spec => []TypeOK
<1>1. IInv => TypeOK
  <2> SUFFICES ASSUME IInv PROVE TypeOK
    OBVIOUS
  <2>1. doc = None \/ doc = Some(doc[1])
    BY DEF IInv, Stored
  <2>2. Len(doc) \in 0 .. 1
    BY <2>1, Options
  <2>3. \A q \in DOMAIN answers : Len(answers[q]) \in 0 .. 1
    BY Options DEF IInv, IsOption
  <2>4. BsonTypes \subseteq DOMAIN TypeNames \cup {"Binary"}
    BY DEF BsonTypes, TypeNames
  <2> QED BY <2>2, <2>3, <2>4 DEF IInv, TypeOK, Walking
<1> QED BY <1>1, Invariant, PTL

(* type_of and field find what the path addresses in the stored document   *)
(* and both or neither find something, whatever its keys, its nesting and  *)
(* the length of the path (field.rs:65-79, typeinfo.rs:68-80).             *)
THEOREM PathsAreFollowed == Spec => []FindsExactlyThePath
<1>1. IInv => FindsExactlyThePath
  <2> SUFFICES ASSUME IInv, pc = "done", query.path # <<>> PROVE FindsExactlyThePath
    BY DEF FindsExactlyThePath
  <2>1. asked = 4
    BY DEF IInv
  <2>2. TypeRight(answers["type_of"]) /\ FieldRight(answers["field"])
    BY <2>1 DEF IInv
  <2> QED BY <2>2 DEF FindsExactlyThePath, TypeRight, FieldRight, Found
<1> QED BY <1>1, Invariant, PTL

(* keys names, each once, exactly the paths of one segment that are found, *)
(* and the keys with a dot in them (typeinfo.rs:81-85).                    *)
THEOREM KeysAnswerForPaths == Spec => []KeysAreTheShortPaths
<1>1. IInv => KeysAreTheShortPaths
  <2> SUFFICES ASSUME IInv, pc = "done", answers["keys"] # None PROVE KeysAreTheShortPaths
    BY DEF KeysAreTheShortPaths
  <2> DEFINE root == SettledNode(doc[1], <<>>)
             keys == answers["keys"][1]
  <2>1. /\ Readable /\ answers["keys"] = Some(KeysOf(Settled(doc[1]))) /\ query \in Queries
        /\ query.path # <<>> => FieldRight(answers["field"])
    BY DEF IInv, KeysRight, Decoded
  <2>2. PICK K : HasKeys(K, doc[1])
    BY <2>1 DEF IInv, Stored, Readable
  <2>3. /\ <<>> \in DOMAIN doc[1] /\ <<>> \in DOMAIN Settled(doc[1])
        /\ Settled(doc[1])[<<>>] = root /\ doc[1][<<>>].type = "Document"
    <3>1. <<>> \in DOMAIN doc[1] /\ <<>> \in DOMAIN Settled(doc[1])
      BY <2>2, SettledIsTree DEF HasKeys, IsTree
    <3> QED BY <2>1, <2>2, <3>1, SettledAt DEF HasKeys, Readable
  <2>4. /\ root.type = "Document"
        /\ root.fields \in Seq(Fields(K))
        /\ \A i, j \in DOMAIN root.fields : root.fields[i].key = root.fields[j].key => i = j
    BY <2>2, <2>3, SettledNodes DEF Inserted
  <2>5. keys = [i \in DOMAIN root.fields |-> root.fields[i].key]
    BY <2>1, <2>3, Options DEF KeysOf
  <2> HIDE DEF root, keys
  <2>6. \A i, j \in DOMAIN keys : keys[i] = keys[j] => i = j
    BY <2>4, <2>5
  <2>7. ASSUME Len(query.path) = 1
        PROVE  answers["field"] # None <=> query.path[1] \in ToSet(keys)
    <3> DEFINE seg == query.path[1]
               P == {p \in Nat : Leads(seg, doc[1][<<>>], p)}
    <3>1. query.path # <<>> /\ Len(<<>>) = 0 /\ 0 + 1 = 1
      BY <2>7
    <3>2. Found = Reached(doc[1], query.path, 1)
      BY <2>1, <2>7, FoundIsReached
    <3>3. Reached(doc[1], query.path, Len(<<>>)) = {<<>>}
      BY <2>2, <3>1, ReachedAtFirst
    <3>4. Reached(doc[1], query.path, 1) = {Append(<<>>, p) : p \in P}
      <4> DEFINE c == <<>>
      <4>1. c \in DOMAIN Settled(doc[1]) /\ Reached(doc[1], query.path, Len(c)) = {c}
        BY <2>3, <3>3
      <4>2. Len(c) + 1 = 1 /\ P = {q \in Nat : Leads(query.path[1], doc[1][c], q)}
        BY <3>1
      <4> HIDE DEF c, P
      <4>3. Reached(doc[1], query.path, Len(c) + 1)
                = {Append(c, p) : p \in {q \in Nat : Leads(query.path[Len(c) + 1], doc[1][c], q)}}
        BY <2>2, <4>1, ReachedNext
      <4>4. Reached(doc[1], query.path, 1) = {Append(c, p) : p \in P}
        BY <4>2, <4>3
      <4> QED BY <4>4 DEF c
    <3>5. Found = {Append(<<>>, p) : p \in P}
      BY <3>1, <3>2, <3>4
    <3>6. TypeChild(root, seg) = P
      BY <2>2, <2>3, Children DEF root
    <3>7. TypeChild(root, seg) = Get(root, seg)
      BY <2>4 DEF TypeChild
    <3>8. Get(root, seg) = {} <=> \A i \in DOMAIN root.fields : root.fields[i].key # seg
      BY DEF Get
    <3>9. seg \in ToSet(keys) <=> \E i \in DOMAIN root.fields : root.fields[i].key = seg
      BY <2>5 DEF ToSet
    <3> HIDE DEF P, seg
    <3>10. Found = {} <=> P = {}
      BY <3>5
    <3>11. Found = {} <=> answers["field"] = None
      BY <2>1, <3>1 DEF FieldRight
    <3>12. answers["field"] # None <=> seg \in ToSet(keys)
      BY <3>6, <3>7, <3>8, <3>9, <3>10, <3>11
    <3> QED BY <3>12 DEF seg
  <2> QED BY <2>6, <2>7 DEF KeysAreTheShortPaths, keys
<1> QED BY <1>1, Invariant, PTL

(* A part of a SQL value is found in the encoded document by its own path, *)
(* and nothing is found that the value has not, whatever the value is made *)
(* of; of one that is nested too deep nothing is found                     *)
(* (value_in.rs:86-105, 112-126, with field.rs and validate.rs).           *)
THEOREM EncodingKeepsPaths == Spec => []PartsAreWhereTheyWere
<1>1. IInv => PartsAreWhereTheyWere
  <2> SUFFICES ASSUME IInv, Encoded
               PROVE  answers["field"] # None <=>
                          ReadsBack(query.value) /\ PartsAt(query.value, query.path) # {}
    BY DEF PartsAreWhereTheyWere
  <2>1. /\ query \in Queries /\ query.from # "blob" /\ doc # None /\ asked = 4
        /\ doc = ValueAt(query.value)
    BY DEF IInv, Encoded, Stored
  <2>2. FieldRight(answers["field"])
    BY <2>1 DEF IInv
  <2>3. IsCell(query.value) /\ query.path \in Seq(STRING)
    BY <2>1, QueryIs
  <2>4. /\ \A a \in DOMAIN query.value : IsKnown(query.value[a])
        /\ doc[1] = Settled(Nodes(query.value))
    BY <2>1, EncodedIs, Options
  <2>5. PartsAt(query.value, query.path) = Reached(doc[1], query.path, Len(query.path))
    BY <2>3, <2>4, PathsAreKept
  <2>6. Readable => Found = PartsAt(query.value, query.path)
    BY <2>1, <2>5, FoundIsReached
  <2>7. ~Readable => Found = {}
    BY DEF Found
  <2>8. doc[1][<<>>].type = "Document"
    BY <2>1 DEF IInv, Stored
  <2>9. Readable <=> ReadsBack(query.value)
    BY <2>1, <2>3, <2>4, <2>8, NestingIsKept DEF Readable
  <2> QED BY <2>2, <2>6, <2>7, <2>9 DEF FieldRight
<1> QED BY <1>1, Invariant, PTL

\* PartsKeepTheirValue, but for decimals, whose digits are compared as text.
NumbersAreKept ==
    Encoded /\ answers["field"] # None =>
        \A a \in PartsAt(query.value, query.path) :
            query.value[a].null \/ query.value[a].sql # "DECIMAL" =>
                Denotes(tree[cur], query.value[a])

(* What is found at the path of a part is the value of the part: NULL as   *)
(* Null, an integer exactly if an i64 holds it and as the nearest double   *)
(* otherwise, an instant cut towards 1970 by less than a millisecond, or   *)
(* at the end of i64, a list with all its items (value_in.rs:128-203).     *)
THEOREM EncodingKeepsValues == Spec => []NumbersAreKept
<1>1. IInv => NumbersAreKept
  <2> SUFFICES ASSUME IInv, Encoded, answers["field"] # None,
                      NEW a \in PartsAt(query.value, query.path),
                      query.value[a].null \/ query.value[a].sql # "DECIMAL"
               PROVE  Denotes(tree[cur], query.value[a])
    BY DEF NumbersAreKept
  <2> DEFINE v == Nodes(query.value)
  <2>1. /\ query \in Queries /\ query.from # "blob" /\ doc # None /\ asked = 4
        /\ doc = ValueAt(query.value)
    BY DEF IInv, Encoded, Stored
  <2>1a. Readable
    BY <2>1 DEF IInv, FieldRight, Found
  <2>2. IsCell(query.value) /\ query.path \in Seq(STRING)
    BY <2>1, QueryIs
  <2>3. /\ \A b \in DOMAIN query.value : IsKnown(query.value[b])
        /\ doc[1] = Settled(v)
    BY <2>1, EncodedIs, Options
  <2>4. PartsAt(query.value, query.path) = Found
    BY <2>1, <2>1a, <2>2, <2>3, PathsAreKept, FoundIsReached
  <2>5. cur = a /\ tree = Settled(Settled(v)) /\ a \in DOMAIN query.value
    <3>1. FieldRight(answers["field"])
      BY <2>1 DEF IInv
    <3> QED BY <2>3, <2>4, <3>1 DEF FieldRight, Decoded, PartsAt
  <2>6. /\ HasKeys(KeysIn(query.value), v) /\ HasKeys(KeysIn(query.value), Settled(v))
        /\ v[a] = NodeAt(query.value, a)
    BY <2>2, <2>3, <2>5, NodesAreATree, SettledIsTree
  <2>7. a \in DOMAIN Settled(Settled(v)) /\ a \in DOMAIN Settled(v) /\ a \in DOMAIN v
    BY <2>5, <2>6, SettledIsTree DEF IInv
  <2> HIDE DEF v
  <2>8. /\ Settled(v)[a].type = v[a].type
        /\ v[a].type # "Document" => Settled(v)[a] = v[a]
    <3>1. Settled(v)[a] = SettledNode(v, a)
      BY <2>6, <2>7, SettledAt DEF HasKeys
    <3> QED BY <2>6, <2>7, <3>1, SettledNodes
  <2>9. /\ tree[a].type = Settled(v)[a].type
        /\ Settled(v)[a].type # "Document" => tree[a] = Settled(v)[a]
    <3>1. tree[a] = SettledNode(Settled(v), a)
      BY <2>5, <2>6, <2>7, SettledAt DEF HasKeys
    <3> QED BY <2>6, <2>7, <3>1, SettledNodes
  <2> QED BY <2>2, <2>3, <2>5, <2>6, <2>8, <2>9, CellsAreKept
<1> QED BY <1>1, Invariant, PTL
=============================================================================
