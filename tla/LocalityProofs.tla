--------------------------- MODULE LocalityProofs ---------------------------
(***************************************************************************)
(* The verdict about an accepted document depends on its bytes alone, for  *)
(* every buffer, every bytes around it and every nesting limit.            *)
(***************************************************************************)
EXTENDS Locality, ValidateProofs

\* A reader that succeeds in the part succeeds in the whole, and one that
\* succeeds in the whole without leaving the part succeeds in the part.
Agree(inPart, inWhole, s, f) ==
    /\ inPart.err = "none" => inWhole = Ok(inPart.pos + f)
    /\ inWhole.err = "none" /\ inWhole.pos <= f + Len(s) => inPart = Ok(inWhole.pos - f)

-----------------------------------------------------------------------------
(* The readers agree in a part and in the whole.                           *)

LEMMA BothSucceed ==
    ASSUME NEW s, NEW f \in Nat, NEW e \in Nat
    PROVE  Agree(Ok(e), Ok(e + f), s, f)
<1>1. e + f - f = e
  OBVIOUS
<1> QED BY <1>1 DEF Agree, Ok

LEMMA PartFails ==
    ASSUME NEW s \in Seq(Byte), NEW f \in Nat, NEW x, NEW y, x.err # "none",
           y.err = "none" => y.pos \in Nat /\ y.pos > f + Len(s)
    PROVE  Agree(x, y, s, f)
<1>1. Len(s) \in Nat
  OBVIOUS
<1>2. CASE y.err = "none"
  <2>1. ~(y.pos <= f + Len(s))
    BY <1>1, <1>2
  <2> QED BY <2>1 DEF Agree
<1> QED BY <1>2 DEF Agree

LEMMA SkipAgrees ==
    ASSUME NEW s, NEW b, NEW f, IsPart(s, b, f), NEW p \in Nat, NEW n \in Nat
    PROVE  Agree(Skip(s, p, n), Skip(b, p + f, n), s, f)
<1>1. f \in Nat /\ f + Len(s) <= Len(b) /\ Len(s) \in Nat /\ Len(b) \in Nat
  BY DEF IsPart
<1> QED BY <1>1 DEF Agree, Skip, Ok, Err

LEMMA PartFirstNul ==
    ASSUME NEW s, NEW b, NEW f, IsPart(s, b, f), NEW p \in Nat, NEW q \in Nat
    PROVE  q \in FirstNul(s, p) <=> q < Len(s) /\ q + f \in FirstNul(b, p + f)
<1>1. s \in Seq(Byte) /\ b \in Seq(Byte) /\ f \in Nat /\ f + Len(s) <= Len(b)
      /\ Len(s) \in Nat /\ Len(b) \in Nat
  BY DEF IsPart
<1>2. ASSUME q \in FirstNul(s, p) PROVE q < Len(s) /\ q + f \in FirstNul(b, p + f)
  <2>1. q \in p .. Len(s) - 1 /\ s[q + 1] = 0 /\ \A r \in p .. q - 1 : s[r + 1] # 0
    BY <1>2 DEF FirstNul
  <2>2. b[q + f + 1] = 0
    <3>1. b[f + (q + 1)] = s[q + 1]
      BY <1>1, <2>1 DEF IsPart
    <3> QED BY <1>1, <2>1, <3>1
  <2>3. ASSUME NEW r \in p + f .. q + f - 1 PROVE b[r + 1] # 0
    <3>1. r - f \in p .. q - 1 /\ r - f + 1 \in 1 .. Len(s) /\ f + (r - f + 1) = r + 1
      BY <1>1, <2>1
    <3> QED BY <2>1, <3>1 DEF IsPart
  <2> QED BY <1>1, <2>1, <2>2, <2>3 DEF FirstNul
<1>3. ASSUME q < Len(s), q + f \in FirstNul(b, p + f) PROVE q \in FirstNul(s, p)
  <2>1. /\ q + f \in p + f .. Len(b) - 1 /\ b[q + f + 1] = 0
        /\ \A r \in p + f .. q + f - 1 : b[r + 1] # 0
    BY <1>1, <1>3 DEF FirstNul
  <2>2. s[q + 1] = 0
    <3>1. b[f + (q + 1)] = s[q + 1]
      BY <1>1, <1>3 DEF IsPart
    <3> QED BY <1>1, <2>1, <3>1
  <2>3. ASSUME NEW r \in p .. q - 1 PROVE s[r + 1] # 0
    <3>1. r + f \in p + f .. q + f - 1 /\ r + 1 \in 1 .. Len(s) /\ f + (r + 1) = r + f + 1
      BY <1>1, <1>3, <2>1
    <3> QED BY <2>1, <3>1 DEF IsPart
  <2> QED BY <1>1, <1>3, <2>1, <2>2, <2>3 DEF FirstNul
<1> QED BY <1>2, <1>3

\* The cstrings are the same text.
LEMMA CstringAgrees ==
    ASSUME NEW s, NEW b, NEW f, IsPart(s, b, f), NEW p \in Nat
    PROVE  /\ Agree(ReadCstring(s, p), ReadCstring(b, p + f), s, f)
           /\ ReadCstring(s, p).err = "none" => CstringText(s, p) = CstringText(b, p + f)
<1>1. s \in Seq(Byte) /\ b \in Seq(Byte) /\ f \in Nat /\ f + Len(s) <= Len(b)
      /\ Len(s) \in Nat /\ Len(b) \in Nat
  BY DEF IsPart
<1>2. ASSUME NEW q \in Nat, q \in FirstNul(s, p)
      PROVE  /\ ReadCstring(s, p) = IF Utf8(CstringText(s, p)) THEN Ok(1 + q) ELSE Err("bad-utf8")
             /\ ReadCstring(b, p + f) = IF Utf8(CstringText(s, p)) THEN Ok(1 + q + f)
                                        ELSE Err("bad-utf8")
             /\ CstringText(s, p) = CstringText(b, p + f)
  <2>1. q < Len(s) /\ q + f \in FirstNul(b, p + f) /\ p <= q
    <3>1. q < Len(s) /\ q + f \in FirstNul(b, p + f)
      BY <1>2, PartFirstNul
    <3> QED BY <1>2, <3>1 DEF FirstNul
  <2>2. /\ (CHOOSE x \in FirstNul(s, p) : TRUE) = q
        /\ (CHOOSE x \in FirstNul(b, p + f) : TRUE) = q + f
    BY <1>1, <1>2, <2>1, FirstNulUnique
  <2>3. Slice(s, p + 1, q) = Slice(b, p + f + 1, q + f)
    <3>1. SamePlace(s, b, f, p + 1, q, p + f + 1, q + f)
      BY <1>1, <2>1 DEF SamePlace
    <3> QED BY <3>1, PartSlice
  <2>4. f + (p + 1) = p + f + 1 /\ f + q = q + f /\ 1 + (q + f) = 1 + q + f
    BY <1>1
  <2>5. CstringText(s, p) = CstringText(b, p + f)
    BY <2>2, <2>3, <2>4 DEF CstringText, Slice
  <2>6. ~(p > Len(s)) /\ ~(p + f > Len(b))
    BY <1>1, <2>1
  <2>7. FirstNul(s, p) # {} /\ FirstNul(b, p + f) # {}
    BY <1>2, <2>1
  <2>8. ReadCstring(s, p) = IF ~Utf8(CstringText(s, p)) THEN Err("bad-utf8") ELSE Ok(1 + q)
    BY <2>2, <2>6, <2>7 DEF ReadCstring
  <2>9. ReadCstring(b, p + f) = IF ~Utf8(CstringText(b, p + f)) THEN Err("bad-utf8")
                                ELSE Ok(1 + q + f)
    BY <2>2, <2>4, <2>6, <2>7 DEF ReadCstring
  <2> QED BY <2>5, <2>8, <2>9
<1>3. CASE FirstNul(s, p) # {}
  <2>1. PICK q \in FirstNul(s, p) : TRUE
    BY <1>3
  <2>2. q \in Nat
    BY <2>1 DEF FirstNul
  <2>3. CASE Utf8(CstringText(s, p))
    <3>1. ReadCstring(s, p) = Ok(1 + q) /\ ReadCstring(b, p + f) = Ok(1 + q + f)
      BY <1>2, <2>1, <2>2, <2>3
    <3>2. 1 + q \in Nat
      BY <2>2
    <3> QED BY <1>1, <1>2, <2>1, <2>2, <3>1, <3>2, BothSucceed
  <2>4. CASE ~Utf8(CstringText(s, p))
    <3>1. ReadCstring(s, p) = Err("bad-utf8") /\ ReadCstring(b, p + f) = Err("bad-utf8")
      BY <1>2, <2>1, <2>2, <2>4
    <3> QED BY <3>1 DEF Agree, Err
  <2> QED BY <2>3, <2>4
<1>4. CASE FirstNul(s, p) = {}
  <2>1. ReadCstring(s, p).err # "none"
    BY <1>4 DEF ReadCstring, Err
  <2>2. ASSUME ReadCstring(b, p + f).err = "none" 
        PROVE  /\ ReadCstring(b, p + f).pos \in Nat
               /\ ReadCstring(b, p + f).pos > f + Len(s)
    <3>1. FirstNul(b, p + f) # {}
      BY <2>2 DEF ReadCstring, Err
    <3>2. PICK x \in FirstNul(b, p + f) : TRUE
      BY <3>1
    <3>3. x - f \in Nat /\ x - f + f = x /\ x \in Nat
      BY <1>1, <3>2 DEF FirstNul
    <3>4. ~(x - f < Len(s))
      BY <1>4, <3>2, <3>3, PartFirstNul
    <3>5. ReadCstring(b, p + f) = Ok(1 + x)
      <4>1. p + f \in Nat
        BY <1>1
      <4>2. (CHOOSE y \in FirstNul(b, p + f) : TRUE) = x
        BY <1>1, <3>2, <4>1, FirstNulUnique
      <4> QED BY <2>2, <4>2 DEF ReadCstring, Err
    <3> QED BY <1>1, <3>3, <3>4, <3>5 DEF Ok
  <2> QED BY <1>1, <2>1, <2>2, PartFails
<1> QED BY <1>3, <1>4

LEMMA StringAgrees ==
    ASSUME NEW s, NEW b, NEW f, IsPart(s, b, f), NEW p \in Nat
    PROVE  Agree(ReadString(s, p), ReadString(b, p + f), s, f)
<1>1. s \in Seq(Byte) /\ b \in Seq(Byte) /\ f \in Nat /\ f + Len(s) <= Len(b)
      /\ Len(s) \in Nat /\ Len(b) \in Nat
  BY DEF IsPart
<1>2. CASE p + 4 <= Len(s)
  <2> DEFINE n == I32At(s, p)
  <2>1. HasI32(s, p) /\ HasI32(b, p + f) /\ I32At(b, p + f) = n /\ n \in Int
    BY <1>2, PartI32
  <2> HIDE DEF n
  <2>2. CASE n < 1
    <3>1. ReadString(s, p).err # "none" /\ ReadString(b, p + f).err # "none"
      BY <2>1, <2>2 DEF ReadString, Err, n
    <3> QED BY <1>1, <3>1, PartFails
  <2>3. CASE ~(n < 1) /\ ~(n > Len(s) - (p + 4))
    <3>1. s[p + 4 + n] = b[p + f + 4 + n]
      <4>1. p + 4 + n \in 1 .. Len(s) /\ f + (p + 4 + n) = p + f + 4 + n
        BY <1>1, <2>1, <2>3
      <4> QED BY <4>1 DEF IsPart
    <3>2. Slice(s, p + 5, p + 3 + n) = Slice(b, f + (p + 5), f + (p + 3 + n))
      <4>1. SamePlace(s, b, f, p + 5, p + 3 + n, f + (p + 5), f + (p + 3 + n))
        BY <1>1, <2>1, <2>3 DEF SamePlace
      <4> QED BY <4>1, PartSlice
    <3>3. /\ p + 4 + 1 = p + 5 /\ p + 4 + n - 1 = p + 3 + n
          /\ p + f + 4 + 1 = f + (p + 5) /\ p + f + 4 + n - 1 = f + (p + 3 + n)
          /\ p + f + 4 + n = p + 4 + n + f
      BY <1>1, <2>1
    <3>4. ~(n > Len(b) - (p + f + 4))
      BY <1>1, <2>1, <2>3
    <3>5. /\ ReadString(s, p) = StringBody(s, p + 4, n)
          /\ ReadString(b, p + f) = StringBody(b, p + f + 4, n)
      BY <2>1, <2>3 DEF ReadString, n
    <3> DEFINE good == Utf8(Slice(s, p + 5, p + 3 + n))
    <3>6. /\ StringBody(s, p + 4, n) = IF s[p + 4 + n] # 0 THEN Err("bad-cstring")
                                       ELSE IF ~good THEN Err("bad-utf8") ELSE Ok(p + 4 + n)
          /\ StringBody(b, p + f + 4, n) = IF s[p + 4 + n] # 0 THEN Err("bad-cstring")
                                           ELSE IF ~good THEN Err("bad-utf8")
                                           ELSE Ok(p + 4 + n + f)
      BY <2>3, <3>1, <3>2, <3>3, <3>4 DEF StringBody, Slice
    <3>7. p + 4 + n \in Nat
      BY <2>1, <2>3
    <3> HIDE DEF good
    <3>8. CASE s[p + 4 + n] = 0 /\ good
      BY <1>1, <3>5, <3>6, <3>7, <3>8, BothSucceed
    <3>9. CASE ~(s[p + 4 + n] = 0 /\ good)
      <4>1. ReadString(s, p).err # "none" /\ ReadString(b, p + f).err # "none"
        BY <3>5, <3>6, <3>9 DEF Err
      <4> QED BY <1>1, <4>1, PartFails
    <3> QED BY <3>8, <3>9
  <2>4. CASE ~(n < 1) /\ n > Len(s) - (p + 4)
    <3>1. ReadString(s, p).err # "none"
      BY <2>1, <2>4 DEF ReadString, StringBody, Err, n
    <3>2. ReadString(b, p + f) = StringBody(b, p + f + 4, n)
      BY <2>1, <2>4 DEF ReadString, n
    <3>3. p + f + 4 + n > f + Len(s)
      BY <1>1, <2>1, <2>4
    <3>4. p + f + 4 + n \in Nat
      BY <1>1, <2>1, <2>4
    <3>5. ReadString(b, p + f).err = "none" => ReadString(b, p + f) = Ok(p + f + 4 + n)
      BY <3>2 DEF StringBody, Err
    <3> QED BY <1>1, <3>1, <3>3, <3>4, <3>5, PartFails DEF Ok
  <2> QED BY <2>1, <2>2, <2>3, <2>4
<1>3. CASE ~(p + 4 <= Len(s))
  <2>1. ReadString(s, p).err # "none"
    BY <1>3 DEF ReadString, HasI32, Err
  <2>2. ASSUME ReadString(b, p + f).err = "none" 
        PROVE  /\ ReadString(b, p + f).pos \in Nat
               /\ ReadString(b, p + f).pos > f + Len(s)
    <3>1. HasI32(b, p + f) /\ ~(I32At(b, p + f) < 1) /\ p + f \in Nat
      BY <1>1, <2>2 DEF ReadString, Err
    <3>2. I32At(b, p + f) \in Int
      BY <1>1, <3>1, I32IsInt
    <3>3. ReadString(b, p + f) = Ok(p + f + 4 + I32At(b, p + f))
      BY <2>2, <3>1 DEF ReadString, StringBody, Err
    <3> QED BY <1>1, <1>3, <3>1, <3>2, <3>3 DEF Ok
  <2> QED BY <1>1, <2>1, <2>2, PartFails
<1> QED BY <1>2, <1>3

-----------------------------------------------------------------------------
(* The readers of a value agree too.                                       *)
LEMMA BooleanAgrees ==
    ASSUME NEW s, NEW b, NEW f, IsPart(s, b, f), NEW p \in Nat
    PROVE  Agree(BooleanIn(s, p), BooleanIn(b, p + f), s, f)
<1>1. s \in Seq(Byte) /\ b \in Seq(Byte) /\ f \in Nat /\ f + Len(s) <= Len(b)
      /\ Len(s) \in Nat /\ Len(b) \in Nat
  BY DEF IsPart
<1>2. CASE p < Len(s)
  <2>1. b[p + f + 1] = s[p + 1]
    <3>1. b[f + (p + 1)] = s[p + 1]
      BY <1>1, <1>2 DEF IsPart
    <3> QED BY <1>1, <3>1
  <2>2. Skip(s, p, 1).err = "none" /\ Skip(b, p + f, 1).err = "none"
    BY <1>1, <1>2 DEF Skip, Ok
  <2>3. CASE s[p + 1] \in {0, 1}
    <3>1. BooleanIn(s, p) = Ok(p + 1) /\ BooleanIn(b, p + f) = Ok(p + 1 + f)
      BY <1>1, <2>1, <2>2, <2>3 DEF BooleanIn
    <3>2. p + 1 \in Nat
      OBVIOUS
    <3> QED BY <1>1, <3>1, <3>2, BothSucceed
  <2>4. CASE s[p + 1] \notin {0, 1}
    BY <2>1, <2>2, <2>4 DEF BooleanIn, Agree, Err
  <2> QED BY <2>3, <2>4
<1>3. CASE ~(p < Len(s))
  <2>1. BooleanIn(s, p).err # "none"
    BY <1>1, <1>3 DEF BooleanIn, Skip, Err
  <2>2. BooleanIn(b, p + f).err = "none" => BooleanIn(b, p + f) = Ok(p + f + 1)
    BY DEF BooleanIn, Err
  <2> QED BY <1>1, <1>3, <2>1, <2>2, PartFails DEF Ok
<1> QED BY <1>2, <1>3

LEMMA BinaryAgrees ==
    ASSUME NEW s, NEW b, NEW f, IsPart(s, b, f), NEW p \in Nat
    PROVE  Agree(BinaryIn(s, p), BinaryIn(b, p + f), s, f)
<1>1. s \in Seq(Byte) /\ b \in Seq(Byte) /\ f \in Nat /\ f + Len(s) <= Len(b)
      /\ Len(s) \in Nat /\ Len(b) \in Nat
  BY DEF IsPart
<1>2. CASE p + 5 <= Len(s)
  <2> DEFINE n == I32At(s, p)
  <2>1. HasI32(s, p) /\ HasI32(b, p + f) /\ I32At(b, p + f) = n /\ n \in Int
    BY <1>1, <1>2, PartI32, SMTT(30)
  <2>2. /\ Skip(s, p + 4, 1).err = "none" /\ Skip(b, p + f + 4, 1).err = "none"
    BY <1>1, <1>2 DEF Skip, Ok
  <2> HIDE DEF n
  <2>3. CASE n < 0
    BY <2>1, <2>3 DEF BinaryIn, Agree, Err, n
  <2>4. CASE ~(n < 0)
    <3>1. BinaryIn(s, p) = Skip(s, p + 5, n) /\ BinaryIn(b, p + f) = Skip(b, p + f + 5, n)
      BY <2>1, <2>2, <2>4 DEF BinaryIn, n
    <3>2. n \in Nat /\ p + 5 \in Nat /\ p + f + 5 = p + 5 + f
      BY <1>1, <2>1, <2>4
    <3> QED BY <3>1, <3>2, SkipAgrees
  <2> QED BY <2>3, <2>4
<1>3. CASE ~(p + 5 <= Len(s))
  <2>1. BinaryIn(s, p).err # "none"
    BY <1>1, <1>3 DEF BinaryIn, Skip, Err
  <2>2. ASSUME BinaryIn(b, p + f).err = "none"
        PROVE  /\ BinaryIn(b, p + f).pos \in Nat
               /\ BinaryIn(b, p + f).pos > f + Len(s)
    <3>1. /\ HasI32(b, p + f) /\ ~(I32At(b, p + f) < 0) /\ p + f \in Nat
          /\ BinaryIn(b, p + f) = Skip(b, p + f + 5, I32At(b, p + f))
      BY <1>1, <2>2 DEF BinaryIn, Err
    <3>2. I32At(b, p + f) \in Int
      BY <1>1, <3>1, I32IsInt
    <3>3. BinaryIn(b, p + f) = Ok(p + f + 5 + I32At(b, p + f))
      BY <2>2, <3>1 DEF Skip, Err
    <3> QED BY <1>1, <1>3, <3>1, <3>2, <3>3 DEF Ok
  <2> QED BY <1>1, <2>1, <2>2, PartFails
<1> QED BY <1>2, <1>3

LEMMA RegexAgrees ==
    ASSUME NEW s, NEW b, NEW f, IsPart(s, b, f), NEW p \in Nat
    PROVE  Agree(RegexIn(s, p), RegexIn(b, p + f), s, f)
<1> DEFINE r == ReadCstring(s, p)
           w == ReadCstring(b, p + f)
<1>1. s \in Seq(Byte) /\ b \in Seq(Byte) /\ f \in Nat /\ Len(s) \in Nat
  BY DEF IsPart
<1>2. Agree(r, w, s, f) /\ Sound(r, s, p) /\ Sound(w, b, p + f)
  BY <1>1, CstringAgrees, CstringSound, SMTT(30)
<1> HIDE DEF r, w
<1>3. CASE r.err = "none"
  <2>1. r.pos \in Nat /\ w = Ok(r.pos + f)
    BY <1>2, <1>3 DEF Agree, Sound, DecodeErrors
  <2>2. RegexIn(s, p) = ReadCstring(s, r.pos) /\ RegexIn(b, p + f) = ReadCstring(b, r.pos + f)
    BY <1>3, <2>1 DEF RegexIn, Ok, r, w
  <2> QED BY <2>1, <2>2, CstringAgrees
<1>4. CASE r.err # "none"
  <2>1. RegexIn(s, p).err # "none"
    BY <1>4 DEF RegexIn, r
  <2>2. ASSUME RegexIn(b, p + f).err = "none"
        PROVE  RegexIn(b, p + f).pos \in Nat /\ RegexIn(b, p + f).pos > f + Len(s)
    <3>1. w.err = "none" /\ RegexIn(b, p + f) = ReadCstring(b, w.pos)
      BY <2>2 DEF RegexIn, w
    <3>2. w.pos \in Nat /\ w.pos > f + Len(s)
      BY <1>1, <1>2, <1>4, <3>1 DEF Agree, Sound, DecodeErrors, Ok
    <3>3. Sound(ReadCstring(b, w.pos), b, w.pos)
      BY <1>1, <3>2, CstringSound
    <3> QED BY <1>1, <2>2, <3>1, <3>2, <3>3 DEF Sound, DecodeErrors
  <2> QED BY <1>1, <2>1, <2>2, PartFails
<1> QED BY <1>3, <1>4

LEMMA DbPointerAgrees ==
    ASSUME NEW s, NEW b, NEW f, IsPart(s, b, f), NEW p \in Nat
    PROVE  Agree(DbPointerIn(s, p), DbPointerIn(b, p + f), s, f)
<1> DEFINE r == ReadString(s, p)
           w == ReadString(b, p + f)
<1>1. s \in Seq(Byte) /\ b \in Seq(Byte) /\ f \in Nat /\ Len(s) \in Nat
  BY DEF IsPart
<1>2. Agree(r, w, s, f) /\ Sound(r, s, p) /\ Sound(w, b, p + f)
  BY <1>1, StringAgrees, StringSound, SMTT(30)
<1> HIDE DEF r, w
<1>3. CASE r.err = "none"
  <2>1. r.pos \in Nat /\ w = Ok(r.pos + f)
    BY <1>2, <1>3 DEF Agree, Sound, DecodeErrors
  <2>2. /\ DbPointerIn(s, p) = Skip(s, r.pos, 12)
        /\ DbPointerIn(b, p + f) = Skip(b, r.pos + f, 12)
    BY <1>3, <2>1 DEF DbPointerIn, Ok, r, w
  <2> QED BY <2>1, <2>2, SkipAgrees
<1>4. CASE r.err # "none"
  <2>1. DbPointerIn(s, p).err # "none"
    BY <1>4 DEF DbPointerIn, r
  <2>2. ASSUME DbPointerIn(b, p + f).err = "none"
        PROVE  DbPointerIn(b, p + f).pos \in Nat /\ DbPointerIn(b, p + f).pos > f + Len(s)
    <3>1. w.err = "none" /\ DbPointerIn(b, p + f) = Skip(b, w.pos, 12)
      BY <2>2 DEF DbPointerIn, w
    <3>2. w.pos \in Nat /\ w.pos > f + Len(s)
      BY <1>1, <1>2, <1>4, <3>1 DEF Agree, Sound, DecodeErrors, Ok
    <3>3. DbPointerIn(b, p + f).pos = w.pos + 12
      BY <2>2, <3>1 DEF Skip, Ok, Err
    <3> QED BY <1>1, <3>2, <3>3
  <2> QED BY <1>1, <2>1, <2>2, PartFails
<1> QED BY <1>3, <1>4

LEMMA ReadingAgrees ==
    ASSUME NEW s, NEW b, NEW f, IsPart(s, b, f), NEW p \in Nat, NEW t \in ReadTags
    PROVE  Agree(Reading(s, t, p), Reading(b, t, p + f), s, f)
<1>1. CASE t \in DOMAIN FixedSize
  <2>1. FixedSize[t] \in Nat
    BY <1>1, FixedSizeIsNat
  <2>2. /\ Reading(s, t, p) = Skip(s, p, FixedSize[t])
        /\ Reading(b, t, p + f) = Skip(b, p + f, FixedSize[t])
    BY <1>1, Readings
  <2>3. Agree(Skip(s, p, FixedSize[t]), Skip(b, p + f, FixedSize[t]), s, f)
    BY <2>1, SkipAgrees
  <2> QED BY <2>2, <2>3
<1>2. CASE t \in StringTags
  BY <1>2, Readings, StringAgrees
<1>3. CASE t = 5
  BY <1>3, Readings, BinaryAgrees
<1>4. CASE t = 8
  BY <1>4, Readings, BooleanAgrees
<1>5. CASE t = 11
  BY <1>5, Readings, RegexAgrees
<1>6. CASE t = 12
  BY <1>6, Readings, DbPointerAgrees
<1> QED BY <1>1, <1>2, <1>3, <1>4, <1>5, <1>6 DEF ReadTags

-----------------------------------------------------------------------------
(* Frames that are moved.                                                  *)

MovedAll(fs, n) == [i \in DOMAIN fs |-> Moved(fs[i], n)]
AnyFrame == [start : Int, end : Int, seen : SUBSET Seq(Byte)]

LEMMA MovedFacts ==
    ASSUME NEW fs \in Seq(Frame), NEW n \in Int
    PROVE  /\ MovedAll(fs, n) \in Seq(AnyFrame)
           /\ Len(MovedAll(fs, n)) = Len(fs)
           /\ \A i \in 1 .. Len(fs) : MovedAll(fs, n)[i] = Moved(fs[i], n)
           /\ MovedAll(fs, n) = <<>> <=> fs = <<>>
<1>1. DOMAIN fs = 1 .. Len(fs) /\ Len(fs) \in Nat
  OBVIOUS
<1>2. ASSUME NEW i \in 1 .. Len(fs) PROVE Moved(fs[i], n) \in AnyFrame
  <2>1. fs[i] \in Frame
    BY <1>1
  <2>2. fs[i].start + n \in Int /\ fs[i].end + n \in Int /\ fs[i].seen \in SUBSET Seq(Byte)
    BY <2>1 DEF Frame
  <2> QED BY <2>2 DEF AnyFrame, Moved
<1> QED BY <1>1, <1>2 DEF MovedAll

LEMMA MovedAppend ==
    ASSUME NEW fs \in Seq(Frame), NEW n \in Int, NEW f \in Frame
    PROVE  MovedAll(Append(fs, f), n) = Append(MovedAll(fs, n), Moved(f, n))
<1> DEFINE x == MovedAll(Append(fs, f), n)
           y == Append(MovedAll(fs, n), Moved(f, n))
<1>1. Append(fs, f) \in Seq(Frame) /\ Len(Append(fs, f)) = Len(fs) + 1 /\ Len(fs) \in Nat
      /\ \A i \in 1 .. Len(fs) : Append(fs, f)[i] = fs[i]
      /\ Append(fs, f)[Len(fs) + 1] = f
  OBVIOUS
<1>2. Moved(f, n) \in AnyFrame
  BY DEF Frame, AnyFrame, Moved
<1>3. x \in Seq(AnyFrame) /\ Len(x) = Len(fs) + 1
      /\ \A i \in 1 .. Len(fs) + 1 : x[i] = Moved(Append(fs, f)[i], n)
  BY <1>1, MovedFacts
<1>4. y \in Seq(AnyFrame) /\ Len(y) = Len(fs) + 1
      /\ \A i \in 1 .. Len(fs) + 1 :
             y[i] = IF i = Len(fs) + 1 THEN Moved(f, n) ELSE Moved(fs[i], n)
  BY <1>1, <1>2, MovedFacts
<1> HIDE DEF x, y
<1>5. ASSUME NEW i \in 1 .. Len(x) PROVE x[i] = y[i]
  <2>1. CASE i \in 1 .. Len(fs)
    BY <1>1, <1>3, <1>4, <2>1
  <2>2. CASE i = Len(fs) + 1
    <3>1. x[i] = Moved(Append(fs, f)[i], n) /\ Append(fs, f)[i] = f
      BY <1>1, <1>3, <2>2
    <3>2. x[i] = Moved(f, n)
      BY <3>1
    <3>3. y[i] = Moved(f, n)
      BY <1>1, <1>4, <2>2
    <3> QED BY <3>2, <3>3
  <2> QED BY <1>1, <1>3, <2>1, <2>2
<1>6. x = y
  BY <1>3, <1>4, <1>5, SeqEqual
<1> QED BY <1>6 DEF x, y

LEMMA MovedFront ==
    ASSUME NEW fs \in Seq(Frame), fs # <<>>, NEW n \in Int
    PROVE  MovedAll(Front(fs), n) = Front(MovedAll(fs, n))
<1> DEFINE x == MovedAll(Front(fs), n)
           y == Front(MovedAll(fs, n))
<1>1. /\ Front(fs) \in Seq(Frame) /\ Len(Front(fs)) = Len(fs) - 1 /\ Len(fs) \in Nat \ {0}
      /\ \A i \in 1 .. Len(fs) - 1 : Front(fs)[i] = fs[i]
  BY FrontFacts
<1>2. x \in Seq(AnyFrame) /\ Len(x) = Len(fs) - 1
      /\ \A i \in 1 .. Len(fs) - 1 : x[i] = Moved(fs[i], n)
  BY <1>1, MovedFacts
<1>3. MovedAll(fs, n) \in Seq(AnyFrame) /\ MovedAll(fs, n) # <<>>
      /\ Len(MovedAll(fs, n)) = Len(fs)
      /\ \A i \in 1 .. Len(fs) : MovedAll(fs, n)[i] = Moved(fs[i], n)
  BY MovedFacts
<1>4. y \in Seq(AnyFrame) /\ Len(y) = Len(fs) - 1
      /\ \A i \in 1 .. Len(fs) - 1 : y[i] = MovedAll(fs, n)[i]
  BY <1>3, FrontFacts
<1> HIDE DEF x, y
<1>5. \A i \in 1 .. Len(x) : x[i] = y[i]
  BY <1>1, <1>2, <1>3, <1>4
<1>6. x = y
  BY <1>2, <1>4, <1>5, SeqEqual
<1> QED BY <1>6 DEF x, y

AddKey(fs, i, c, key) == [fs EXCEPT ![i].seen = IF c THEN @ \cup {key} ELSE @]

LEMMA MovedKey ==
    ASSUME NEW fs \in Seq(Frame), NEW n \in Int, NEW i \in 1 .. Len(fs), NEW c, NEW key
    PROVE  MovedAll(AddKey(fs, i, c, key), n) = AddKey(MovedAll(fs, n), i, c, key)
<1> DEFINE x == MovedAll(AddKey(fs, i, c, key), n)
           y == AddKey(MovedAll(fs, n), i, c, key)
           seen == IF c THEN fs[i].seen \cup {key} ELSE fs[i].seen
           top == [fs[i] EXCEPT !.seen = seen]
<1>1. AddKey(fs, i, c, key) = [fs EXCEPT ![i] = top]
  BY DEF AddKey
<1>2. DOMAIN fs = 1 .. Len(fs) /\ fs[i] \in Frame
  OBVIOUS
<1>3. top.start = fs[i].start /\ top.end = fs[i].end /\ top.seen = seen
  BY <1>2 DEF Frame
<1>4. x = [j \in DOMAIN fs |-> IF j = i THEN Moved(top, n) ELSE Moved(fs[j], n)]
  BY <1>1, <1>2 DEF MovedAll
<1>5. MovedAll(fs, n)[i] = Moved(fs[i], n) /\ DOMAIN MovedAll(fs, n) = DOMAIN fs
  BY <1>2 DEF MovedAll
<1> HIDE DEF top, seen
<1>6. [Moved(fs[i], n) EXCEPT !.seen = seen] = Moved(top, n)
  BY <1>3 DEF Moved
<1>7. Moved(fs[i], n).seen = fs[i].seen
  BY DEF Moved
<1>8. y = [MovedAll(fs, n) EXCEPT ![i] = [Moved(fs[i], n) EXCEPT !.seen = seen]]
  BY <1>5, <1>7 DEF AddKey, seen
<1>9. y = [j \in DOMAIN fs |-> IF j = i THEN Moved(top, n) ELSE Moved(fs[j], n)]
  BY <1>5, <1>6, <1>8 DEF MovedAll
<1> QED BY <1>4, <1>9

-----------------------------------------------------------------------------
(* What is read of a document is read of the same document elsewhere.      *)

\* Bytes lo to hi of b are bytes lo + d to hi + d of o.
Alike(b, o, d, lo, hi) ==
    /\ b \in Seq(Byte) /\ o \in Seq(Byte)
    /\ d \in Int /\ lo \in Nat /\ hi \in Nat
    /\ lo <= hi /\ hi <= Len(b) /\ 0 <= lo + d /\ hi + d <= Len(o)
    /\ \A i \in lo + 1 .. hi : o[i + d] = b[i]

LEMMA CommonPart ==
    ASSUME NEW b, NEW o, NEW d, NEW lo, NEW hi, Alike(b, o, d, lo, hi)
    PROVE  \E c : IsPart(c, b, lo) /\ IsPart(c, o, lo + d) /\ Len(c) = hi - lo
<1> DEFINE c == SubSeq(b, lo + 1, hi)
<1>1. /\ b \in Seq(Byte) /\ o \in Seq(Byte) /\ Len(b) \in Nat /\ Len(o) \in Nat
      /\ d \in Int /\ lo \in Nat /\ hi \in Nat
      /\ lo <= hi /\ hi <= Len(b) /\ 0 <= lo + d /\ hi + d <= Len(o)
  BY DEF Alike
<1>2. IsPart(c, b, lo) /\ Len(c) = hi - lo
  BY <1>1, CutIsPart
<1> HIDE DEF c
<1>3. ASSUME NEW i \in 1 .. Len(c) PROVE c[i] = o[lo + d + i]
  <2>1. lo + i \in lo + 1 .. hi /\ lo + i + d = lo + d + i
    BY <1>1, <1>2
  <2>2. o[lo + i + d] = b[lo + i]
    BY <2>1 DEF Alike
  <2>3. c[i] = b[lo + i]
    BY <1>2 DEF IsPart
  <2> QED BY <2>1, <2>2, <2>3
<1>4. IsPart(c, o, lo + d)
  <2>1. c \in Seq(Byte)
    BY <1>2 DEF IsPart
  <2> QED BY <1>1, <1>2, <1>3, <2>1 DEF IsPart
<1> QED BY <1>2, <1>4

LEMMA CarriesOver ==
    ASSUME NEW c, NEW lo \in Int, NEW hi \in Int, NEW d \in Int, Len(c) = hi - lo,
           NEW x, NEW here, NEW there, Agree(x, here, c, lo), Agree(x, there, c, lo + d),
           here.err = "none", here.pos \in Int, here.pos <= hi
    PROVE  there = Ok(here.pos + d)
<1>1. lo + Len(c) = hi
  OBVIOUS
<1>2. x = Ok(here.pos - lo)
  BY <1>1 DEF Agree
<1>3. there = Ok(here.pos - lo + (lo + d))
  BY <1>2 DEF Agree, Ok
<1>4. here.pos - lo + (lo + d) = here.pos + d
  OBVIOUS
<1> QED BY <1>3, <1>4

LEMMA SameI32 ==
    ASSUME NEW b, NEW o, NEW d, NEW lo, NEW hi, Alike(b, o, d, lo, hi),
           NEW p \in Nat, lo <= p, p + 4 <= hi
    PROVE  /\ HasI32(o, p + d) /\ I32At(o, p + d) = I32At(b, p)
           /\ HasI32(b, p) /\ I32At(b, p) \in Int
<1>1. PICK c : IsPart(c, b, lo) /\ IsPart(c, o, lo + d) /\ Len(c) = hi - lo
  BY CommonPart
<1>2. d \in Int /\ lo \in Nat /\ hi \in Nat
  BY DEF Alike
<1>3. p - lo \in Nat /\ p - lo + 4 <= Len(c) /\ p - lo + lo = p /\ p - lo + (lo + d) = p + d
  BY <1>1, <1>2
<1>4. HasI32(b, p - lo + lo) /\ I32At(b, p - lo + lo) = I32At(c, p - lo)
      /\ I32At(c, p - lo) \in Int
  BY <1>1, <1>3, PartI32
<1>5. HasI32(o, p - lo + (lo + d)) /\ I32At(o, p - lo + (lo + d)) = I32At(c, p - lo)
  BY <1>1, <1>3, PartI32
<1> QED BY <1>3, <1>4, <1>5

LEMMA SameReading ==
    ASSUME NEW b, NEW o, NEW d, NEW lo, NEW hi, Alike(b, o, d, lo, hi),
           NEW p \in Nat, lo <= p, NEW t \in ReadTags,
           Reading(b, t, p).err = "none", Reading(b, t, p).pos \in Int,
           Reading(b, t, p).pos <= hi
    PROVE  Reading(o, t, p + d) = Ok(Reading(b, t, p).pos + d)
<1>1. PICK c : IsPart(c, b, lo) /\ IsPart(c, o, lo + d) /\ Len(c) = hi - lo
  BY CommonPart
<1>2. d \in Int /\ lo \in Nat /\ hi \in Nat
  BY DEF Alike
<1>3. p - lo \in Nat /\ p - lo + lo = p /\ p - lo + (lo + d) = p + d
  BY <1>2
<1>4. Agree(Reading(c, t, p - lo), Reading(b, t, p - lo + lo), c, lo)
  BY <1>1, <1>3, ReadingAgrees
<1>5. Agree(Reading(c, t, p - lo), Reading(o, t, p - lo + (lo + d)), c, lo + d)
  BY <1>1, <1>3, ReadingAgrees
<1>6. /\ Agree(Reading(c, t, p - lo), Reading(b, t, p), c, lo)
      /\ Agree(Reading(c, t, p - lo), Reading(o, t, p + d), c, lo + d)
  BY <1>3, <1>4, <1>5
<1> QED BY <1>1, <1>2, <1>6, CarriesOver

LEMMA SameCstring ==
    ASSUME NEW b, NEW o, NEW d, NEW lo, NEW hi, Alike(b, o, d, lo, hi),
           NEW p \in Nat, lo <= p,
           ReadCstring(b, p).err = "none", ReadCstring(b, p).pos \in Int,
           ReadCstring(b, p).pos <= hi
    PROVE  /\ ReadCstring(o, p + d) = Ok(ReadCstring(b, p).pos + d)
           /\ CstringText(o, p + d) = CstringText(b, p)
<1>1. PICK c : IsPart(c, b, lo) /\ IsPart(c, o, lo + d) /\ Len(c) = hi - lo
  BY CommonPart
<1>2. d \in Int /\ lo \in Nat /\ hi \in Nat
  BY DEF Alike
<1>3. p - lo \in Nat /\ p - lo + lo = p /\ p - lo + (lo + d) = p + d
  BY <1>2
<1>4. /\ Agree(ReadCstring(c, p - lo), ReadCstring(b, p - lo + lo), c, lo)
      /\ ReadCstring(c, p - lo).err = "none" =>
             CstringText(c, p - lo) = CstringText(b, p - lo + lo)
  BY <1>1, <1>3, CstringAgrees
<1>5. /\ Agree(ReadCstring(c, p - lo), ReadCstring(o, p - lo + (lo + d)), c, lo + d)
      /\ ReadCstring(c, p - lo).err = "none" =>
             CstringText(c, p - lo) = CstringText(o, p - lo + (lo + d))
  BY <1>1, <1>3, CstringAgrees
<1>6. /\ Agree(ReadCstring(c, p - lo), ReadCstring(b, p), c, lo)
      /\ Agree(ReadCstring(c, p - lo), ReadCstring(o, p + d), c, lo + d)
  BY <1>3, <1>4, <1>5
<1>7. ReadCstring(c, p - lo).err = "none"
  <2>1. lo + Len(c) = hi
    BY <1>1, <1>2
  <2> QED BY <1>6, <2>1 DEF Agree, Ok
<1>8. CstringText(o, p + d) = CstringText(b, p)
  BY <1>3, <1>4, <1>5, <1>7
<1> QED BY <1>1, <1>2, <1>6, <1>8, CarriesOver

LEMMA SameString ==
    ASSUME NEW b, NEW o, NEW d, NEW lo, NEW hi, Alike(b, o, d, lo, hi),
           NEW p \in Nat, lo <= p,
           ReadString(b, p).err = "none", ReadString(b, p).pos \in Int,
           ReadString(b, p).pos <= hi
    PROVE  ReadString(o, p + d) = Ok(ReadString(b, p).pos + d)
<1>1. 2 \in ReadTags /\ 2 \in StringTags
  BY Tags DEF ReadTags
<1>2. Reading(b, 2, p) = ReadString(b, p) /\ Reading(o, 2, p + d) = ReadString(o, p + d)
  BY <1>1, Readings
<1>3. Reading(o, 2, p + d) = Ok(Reading(b, 2, p).pos + d)
  BY <1>1, <1>2, SameReading
<1> QED BY <1>2, <1>3

-----------------------------------------------------------------------------
(* A walk that strayed stays so: the cursor only moves on, and a frame     *)
(* that ends beyond the document is popped only where it ends.             *)

Kept   == /\ Len(frames') >= Len(frames)
          /\ \A i \in 1 .. Len(frames) : frames'[i].end = frames[i].end
Popped == frames # <<>> /\ frames' = Front(frames) /\ pos' = Top.end

Onward ==
    /\ buf' = buf /\ entry' = entry /\ start' = start
    /\ pos <= pos'
    /\ Kept \/ Popped

LEMMA SameFramesKept ==
    ASSUME frames \in Seq(Frame), frames' = frames
    PROVE  Kept
BY DEF Kept

LEMMA StepOnward == IInv /\ IInv' /\ Step => Onward /\ pc # "done"
<1> SUFFICES ASSUME IInv, IInv', Step PROVE Onward /\ pc # "done"
  OBVIOUS
<1>1. pos \in Nat /\ pos' \in Nat /\ buf \in Seq(Byte) /\ frames \in Seq(Frame)
      /\ frames' \in Seq(Frame)
  BY DEF IInv, TypeOK, Frame
<1>2. pc # "done"
  BY DEF Step, EnterDocument, ElementOverrun, EndDocument, ReadKey,
     Value, FixedValue, BooleanValue, StringValue, BinaryValue, RegexValue, NextElement,
     DbPointerValue, CodeWithScopeValue, DocumentValue, UnknownValue, Finish
<1>3. CASE \E kind : Reject(kind)
  BY <1>1, <1>2, <1>3, SameFramesKept DEF Reject, input, Onward
<1>4. CASE PushDocument
  <2> DEFINE f == [start |-> pos, end |-> pos + I32At(buf, pos), seen |-> {}]
  <2>1. frames' = Append(frames, f) /\ pos' = pos + 4
        /\ buf' = buf /\ entry' = entry /\ start' = start
    BY <1>4 DEF PushDocument, input
  <2> HIDE DEF f
  <2>2. Kept
    BY <1>1, <2>1 DEF Kept
  <2> QED BY <1>1, <1>2, <2>1, <2>2 DEF Onward
<1>5. CASE EndDocument /\ pos + 1 = Top.end
  <2>1. frames # <<>>
    BY <1>5 DEF EndDocument, IInv
  <2> QED BY <1>1, <1>5, <2>1 DEF EndDocument, Pop, input, Onward, Popped
<1>6. CASE ReadKey /\ ReadCstring(buf, pos + 1).err = "none" /\ ~\E kind : Reject(kind)
  <2> DEFINE text == CstringText(buf, pos + 1)
  <2>1. /\ pos' = ReadCstring(buf, pos + 1).pos /\ frames' = WithKey(text)
        /\ buf' = buf /\ entry' = entry /\ start' = start
    BY <1>6 DEF ReadKey, input
  <2>2. pos' > pos + 1 /\ text \in Seq(Byte)
    BY <1>1, <1>6, <2>1, CstringSound
  <2>3. frames # <<>>
    BY <1>6 DEF ReadKey, IInv
  <2> HIDE DEF text
  <2>4. Kept
    BY <1>1, <2>1, <2>2, <2>3, WithKeyFacts DEF Kept
  <2> QED BY <1>1, <1>2, <2>1, <2>2, <2>4 DEF Onward
<1>7. CASE Read
  <2>1. PICK r : Sound(r, buf, pos) /\ Consume(r)
    BY <1>7 DEF Read
  <2>2. CASE r.err # "none"
    BY <1>3, <2>1, <2>2 DEF Consume
  <2>3. CASE r.err = "none"
    <3>1. pos <= pos'
      BY <1>1, <2>1, <2>3 DEF Consume, Sound, DecodeErrors
    <3> QED BY <1>1, <1>2, <2>1, <2>3, <3>1, SameFramesKept DEF Consume, input, Onward
  <2> QED BY <2>2, <2>3
<1>8. CASE CodeWithScopeValue /\ ~\E kind : Reject(kind)
  <2> DEFINE code == ReadString(buf, pos + 4)
  <2>1. /\ pos' = code.pos /\ code.err = "none" /\ frames' = frames
        /\ buf' = buf /\ entry' = entry /\ start' = start
    BY <1>8 DEF CodeWithScopeValue, input
  <2>2. Sound(code, buf, pos + 4)
    BY <1>1, StringSound
  <2>3. pos <= pos'
    BY <1>1, <2>1, <2>2 DEF Sound, DecodeErrors
  <2> HIDE DEF code
  <2> QED BY <1>1, <1>2, <2>1, <2>3, SameFramesKept DEF Onward
<1>9. CASE DocumentValue
  BY <1>1, <1>9, SameFramesKept DEF DocumentValue, input, Onward
<1>10. CASE NextElement /\ ~\E kind : Reject(kind)
  BY <1>1, <1>10, SameFramesKept DEF NextElement, input, Onward
<1>11. CASE Accept
  BY <1>1, <1>2, <1>11, SameFramesKept DEF Accept, input, Onward
<1>12. CASE EnterDocument
  BY <1>2, <1>3, <1>4, <1>12 DEF EnterDocument
<1>13. CASE ElementOverrun \/ EndDocument
  BY <1>2, <1>3, <1>5, <1>13 DEF ElementOverrun, EndDocument
<1>14. CASE ReadKey
  BY <1>2, <1>3, <1>6, <1>14 DEF ReadKey
<1>15. CASE Value
  <2>1. CASE CodeWithScopeValue
    BY <1>2, <1>3, <1>8, <2>1
  <2>2. CASE UnknownValue
    BY <1>2, <1>3, <2>2 DEF UnknownValue
  <2> QED BY <1>2, <1>7, <1>9, <1>15, <2>1, <2>2, ValueCases
<1>16. CASE NextElement \/ Finish
  BY <1>2, <1>3, <1>10, <1>11, <1>16 DEF Finish
<1> QED BY <1>12, <1>13, <1>14, <1>15, <1>16 DEF Step

LEMMA FramedType ==
    ASSUME IInv, Framed
    PROVE  /\ buf \in Seq(Byte) /\ Len(buf) \in Nat /\ start \in Nat
           /\ I32At(buf, start) \in Int /\ Limit \in Nat
           /\ start + 5 <= Limit /\ Limit <= Len(buf)
<1>1. buf \in Seq(Byte) /\ Len(buf) \in Nat /\ start \in Nat
  BY DEF IInv, TypeOK
<1>2. I32At(buf, start) \in Int
  BY <1>1, I32IsInt DEF Framed
<1> QED BY <1>1, <1>2 DEF Framed, Limit

LEMMA StraysOn == IInv /\ IInv' /\ Strayed /\ [Next]_vars => Strayed'
<1> SUFFICES ASSUME IInv, IInv', Strayed, [Next]_vars PROVE Strayed'
  OBVIOUS
<1>1. CASE UNCHANGED vars
  BY <1>1 DEF vars, Strayed, Framed, Limit
<1>2. CASE Step
  <2>1. Onward /\ pc # "done"
    BY <1>2, StepOnward
  <2>2. verdict = "none"
    BY <2>1 DEF IInv
  <2>3. CASE ~Framed
    BY <2>1, <2>3 DEF Onward, Strayed, Framed, Limit
  <2>4. CASE Framed /\ pos > Limit
    <3>1. Limit' = Limit /\ Limit \in Nat /\ pos \in Nat /\ pos' \in Nat
      BY <2>1, <2>4, FramedType DEF Onward, Limit, IInv, TypeOK
    <3>2. pos' > Limit'
      BY <2>1, <2>4, <3>1 DEF Onward
    <3> QED BY <3>2 DEF Strayed
  <2>5. CASE Framed /\ \E i \in DOMAIN frames : frames[i].end > Limit
    <3>1. Limit' = Limit /\ Limit \in Nat /\ frames \in Seq(Frame) /\ frames' \in Seq(Frame)
      BY <2>1, <2>5, FramedType DEF Onward, Limit, IInv, TypeOK, Frame
    <3>2. PICK i \in 1 .. Len(frames) : frames[i].end > Limit
      BY <2>5, <3>1
    <3>3. CASE Kept
      <4>1. i \in 1 .. Len(frames') /\ frames'[i].end > Limit'
        BY <3>1, <3>2, <3>3 DEF Kept
      <4> QED BY <3>1, <4>1 DEF Strayed
    <3>4. CASE Popped
      <4>1. /\ Len(frames') = Len(frames) - 1 /\ Len(frames) \in Nat \ {0}
            /\ \A j \in 1 .. Len(frames) - 1 : frames'[j] = frames[j]
            /\ Top = frames[Len(frames)]
        BY <3>1, <3>4, FrontFacts DEF Popped, Top
      <4>2. CASE i = Len(frames)
        <5>1. pos' > Limit'
          BY <3>1, <3>2, <3>4, <4>1, <4>2 DEF Popped
        <5> QED BY <5>1 DEF Strayed
      <4>3. CASE i \in 1 .. Len(frames) - 1
        <5>1. i \in 1 .. Len(frames') /\ frames'[i].end > Limit'
          BY <3>1, <3>2, <4>1, <4>3
        <5> QED BY <3>1, <5>1 DEF Strayed
      <4> QED BY <4>1, <4>2, <4>3
    <3> QED BY <2>1, <3>3, <3>4 DEF Onward
  <2> QED BY <2>2, <2>3, <2>4, <2>5 DEF Strayed
<1> QED BY <1>1, <1>2 DEF Next, Returned

LEMMA StrayedNeverOk == IInv /\ Strayed => verdict # "ok"
<1> SUFFICES ASSUME IInv, Strayed, verdict = "ok" PROVE FALSE
  OBVIOUS
<1>1. frames = <<>> /\ Whole(pos) /\ pos \in 0 .. Len(buf)
  BY DEF IInv, TypeOK
<1>2. Framed /\ pos = Limit
  BY <1>1 DEF Whole, Framed, Limit
<1>3. Limit \in Nat
  BY <1>2, FramedType
<1>4. ~(pos > Limit)
  BY <1>2, <1>3
<1> QED BY <1>1, <1>2, <1>4 DEF Strayed

(* A walk that read, or was told to read, beyond its document is never     *)
(* taken back into it: such a document is not accepted.                    *)
THEOREM StrayingIsAlwaysFatal == Spec => StrayingIsFatal
<1>1. IInv /\ IInv' /\ Strayed /\ [Next]_vars => Strayed'
  BY StraysOn
<1> QED BY <1>1, StrayedNeverOk, AlwaysIInv, PTL DEF Spec, StrayingIsFatal

-----------------------------------------------------------------------------
(* The mapped state.  An operator of Elsewhere that has no variable in it  *)
(* is the one of Validate.                                                 *)

LEMMA ElsewhereReaders ==
    /\ \A e : Elsewhere!Ok(e) = Ok(e) /\ Elsewhere!Err(e) = Err(e)
    /\ \A s, p : Elsewhere!HasI32(s, p) <=> HasI32(s, p)
    /\ \A s, p : Elsewhere!I32At(s, p) = I32At(s, p)
    /\ \A s, p, n : Elsewhere!Skip(s, p, n) = Skip(s, p, n)
    /\ \A s, p : Elsewhere!CstringText(s, p) = CstringText(s, p)
    /\ \A s, p : Elsewhere!ReadCstring(s, p) = ReadCstring(s, p)
    /\ \A s, p : Elsewhere!ReadString(s, p) = ReadString(s, p)
<1>1. \A e : Elsewhere!Ok(e) = Ok(e) /\ Elsewhere!Err(e) = Err(e)
  BY DEF Elsewhere!Ok, Ok, Elsewhere!Err, Err
<1>2. \A s, p : Elsewhere!HasI32(s, p) <=> HasI32(s, p)
  BY DEF Elsewhere!HasI32, HasI32
<1>3. \A s, p : Elsewhere!I32At(s, p) = I32At(s, p)
  BY DEF Elsewhere!I32At, I32At
<1>4. \A s, p, n : Elsewhere!Skip(s, p, n) = Skip(s, p, n)
  BY <1>1 DEF Elsewhere!Skip, Skip
<1>5. \A s, p : Elsewhere!FirstNul(s, p) = FirstNul(s, p)
  BY DEF Elsewhere!FirstNul, FirstNul
<1>6. \A s, p : Elsewhere!CstringText(s, p) = CstringText(s, p)
  BY <1>5 DEF Elsewhere!CstringText, CstringText
<1>8. \A s : Elsewhere!Utf8(s) <=> Utf8(s)
  BY DEF Elsewhere!Utf8, Utf8, Elsewhere!Continuation, Continuation, Elsewhere!Utf8Width,
         Utf8Width, Elsewhere!SecondByte, SecondByte
<1>9. ASSUME NEW s, NEW p PROVE Elsewhere!ReadCstring(s, p) = ReadCstring(s, p)
  <2>1. Elsewhere!Utf8(CstringText(s, p)) <=> Utf8(CstringText(s, p))
    BY <1>8
  <2> QED BY <2>1 DEF Elsewhere!ReadCstring, ReadCstring, Elsewhere!FirstNul, FirstNul,
                 Elsewhere!CstringText, CstringText, Elsewhere!Ok, Ok, Elsewhere!Err, Err
<1>10. \A s, p, n : Elsewhere!StringBody(s, p, n) = StringBody(s, p, n)
  BY <1>1, <1>8 DEF Elsewhere!StringBody, StringBody
<1>11. \A s, p : Elsewhere!ReadString(s, p) = ReadString(s, p)
  BY <1>1, <1>2, <1>3, <1>10 DEF Elsewhere!ReadString, ReadString
<1> QED BY <1>1, <1>2, <1>3, <1>4, <1>6, <1>9, <1>11

LEMMA ElsewhereTags ==
    /\ Elsewhere!FixedSize = FixedSize /\ Elsewhere!StringTags = StringTags
    /\ Elsewhere!DocumentTags = DocumentTags
BY DEF Elsewhere!FixedSize, FixedSize, Elsewhere!StringTags, StringTags,
       Elsewhere!DocumentTags, DocumentTags

\* What the proofs below keep assuming of a step.
Walks ==
    /\ There \in Seq(Byte) /\ Shift \in Int
    /\ IInv /\ IInv' /\ start <= pos
    /\ SameDocument /\ Onward /\ ~Strayed'

LEMMA WalksFacts ==
    ASSUME Walks
    PROVE  /\ Alike(buf, There, Shift, start, Limit)
           /\ buf \in Seq(Byte) /\ Len(buf) \in Nat
           /\ There \in Seq(Byte) /\ Len(There) \in Nat /\ Shift \in Int
           /\ start \in Nat /\ Limit \in Nat /\ Limit' = Limit
           /\ pos \in Nat /\ pos' \in Nat /\ start <= pos /\ pos <= pos' /\ pos' <= Limit
           /\ Limit + Shift <= Len(There)
           /\ frames \in Seq(Frame) /\ frames' \in Seq(Frame)
           /\ \A i \in 1 .. Len(frames') : frames'[i].end <= Limit
           /\ verdict' \in {"none", "ok"}
           /\ There' = There /\ (start + Shift)' = start + Shift /\ entry' = entry
<1>1. Framed /\ Limit' = Limit
  BY DEF Walks, SameDocument, Onward, Limit
<1>2. /\ buf \in Seq(Byte) /\ Len(buf) \in Nat /\ start \in Nat
      /\ I32At(buf, start) \in Int /\ Limit \in Nat
      /\ start + 5 <= Limit /\ Limit <= Len(buf)
  BY <1>1, FramedType DEF Walks
<1>3. Alike(buf, There, Shift, start, Limit)
  BY <1>2 DEF Walks, SameDocument, Alike
<1>4. /\ pos \in Nat /\ pos' \in Nat /\ start <= pos /\ pos <= pos'
      /\ frames \in Seq(Frame) /\ frames' \in Seq(Frame)
  BY DEF Walks, Onward, IInv, TypeOK, Frame
<1>5. /\ pos' <= Limit /\ verdict' \in {"none", "ok"}
      /\ \A i \in 1 .. Len(frames') : frames'[i].end <= Limit
  <2>1. ~(pos' > Limit) /\ \A i \in DOMAIN frames' : ~(frames'[i].end > Limit)
    BY <1>1 DEF Walks, Strayed
  <2>2. ASSUME NEW i \in 1 .. Len(frames') PROVE frames'[i].end \in Nat
    <3>1. frames'[i] \in Frame
      BY <1>4
    <3> QED BY <3>1 DEF Frame
  <2>3. verdict' \in {"none", "ok"}
    BY DEF Walks, Strayed
  <2> QED BY <1>2, <1>4, <2>1, <2>2, <2>3
<1>6. There' = There /\ (start + Shift)' = start + Shift /\ entry' = entry
  BY DEF Walks, Onward
<1> QED BY <1>1, <1>2, <1>3, <1>4, <1>5, <1>6 DEF Walks, SameDocument

\* A step that does not stray rejects nothing.
LEMMA NoReject == Walks => ~\E kind \in DecodeErrors : Reject(kind)
BY WalksFacts DEF Reject, DecodeErrors

LEMMA ElsewhereInput == Walks => UNCHANGED Elsewhere!input
BY WalksFacts DEF Elsewhere!input

LEMMA ElsewhereFrames ==
    ASSUME Walks, frames' = frames
    PROVE  UNCHANGED [i \in DOMAIN frames |-> Moved(frames[i], Shift)]
OBVIOUS

\* The frames of the mapped state, before and after a step.
LEMMA ElsewhereStack ==
    ASSUME Walks
    PROVE  /\ [i \in DOMAIN frames |-> Moved(frames[i], Shift)] = MovedAll(frames, Shift)
           /\ [i \in DOMAIN frames |-> Moved(frames[i], Shift)]' = MovedAll(frames', Shift)
           /\ Elsewhere!Depth = Depth
           /\ frames # <<>> => Elsewhere!Top = Moved(Top, Shift)
<1>1. [i \in DOMAIN frames |-> Moved(frames[i], Shift)] = MovedAll(frames, Shift)
  BY DEF MovedAll
<1>2. [i \in DOMAIN frames |-> Moved(frames[i], Shift)]' = MovedAll(frames', Shift)
  BY DEF MovedAll
<1>3. frames \in Seq(Frame) /\ Shift \in Int
  BY WalksFacts
<1>4. Elsewhere!Depth = Depth
  BY <1>1, <1>3, MovedFacts DEF Elsewhere!Depth, Depth
<1>5. ASSUME frames # <<>> PROVE Elsewhere!Top = Moved(Top, Shift)
  <2>1. Top = frames[Len(frames)] /\ Len(frames) \in 1 .. Len(frames)
    <3>1. Last(frames) = frames[Len(frames)] /\ Len(frames) \in Nat \ {0}
      BY <1>3, <1>5, FrontFacts
    <3> QED BY <3>1 DEF Top
  <2>2. Elsewhere!Top = MovedAll(frames, Shift)[Len(MovedAll(frames, Shift))]
    BY <1>1 DEF Elsewhere!Top, Elsewhere!Last
  <2> QED BY <1>3, <2>1, <2>2, MovedFacts
<1> QED BY <1>1, <1>2, <1>4, <1>5

LEMMA EnterElsewhere ==
    ASSUME Walks, EnterDocument
    PROVE  Elsewhere!EnterDocument
<1> DEFINE n == I32At(buf, pos)
           f == [start |-> pos, end |-> pos + n, seen |-> {}]
<1>1. /\ pc = "enter" /\ ~TooDeep(Depth) /\ HasI32(buf, pos)
      /\ ~(n < 5) /\ ~DocOverruns(pos) /\ PushDocument
  BY NoReject DEF EnterDocument, DecodeErrors
<1>2. /\ frames' = Append(frames, f) /\ pos' = pos + 4 /\ pc' = "element"
      /\ tag' = tag /\ verdict' = verdict
  BY <1>1 DEF PushDocument
<1>3. n \in Int /\ f \in Frame
  BY <1>1, WalksFacts, I32IsInt DEF Frame
<1>4. pos + n <= Limit
  <2>1. frames \in Seq(Frame) /\ \A i \in 1 .. Len(frames') : frames'[i].end <= Limit
    BY WalksFacts
  <2>2. f.end = pos + n
    OBVIOUS
  <2> HIDE DEF f
  <2>3. Len(frames') = Len(frames) + 1 /\ Len(frames) \in Nat /\ frames'[Len(frames) + 1] = f
    BY <1>2, <1>3, <2>1
  <2>4. Len(frames) + 1 \in 1 .. Len(frames')
    BY <2>3
  <2>5. frames'[Len(frames) + 1].end <= Limit
    BY <2>1, <2>4
  <2> QED BY <2>2, <2>3, <2>5
<1>5. start <= pos /\ pos + 4 <= Limit /\ Limit + Shift <= Len(There)
      /\ pos \in Nat /\ Limit \in Nat /\ Shift \in Int /\ Len(There) \in Nat
  BY <1>1, <1>3, <1>4, WalksFacts, SMTT(30)
<1>6. HasI32(There, pos + Shift) /\ I32At(There, pos + Shift) = n
  <2>1. Alike(buf, There, Shift, start, Limit)
    BY WalksFacts
  <2> QED BY <1>5, <2>1, SameI32
<1> HIDE DEF n
<1>7. ~Elsewhere!TooDeep(Elsewhere!Depth)
  BY <1>1, ElsewhereStack DEF Elsewhere!TooDeep, TooDeep
<1>8. Elsewhere!HasI32(There, pos + Shift) /\ Elsewhere!I32At(There, pos + Shift) = n
  BY <1>6, ElsewhereReaders
<1>9. ~Elsewhere!DocOverruns(pos + Shift)
  BY <1>3, <1>4, <1>5, <1>8 DEF Elsewhere!DocOverruns
<1>10. MovedAll(frames', Shift) = Append(MovedAll(frames, Shift), Moved(f, Shift))
  BY <1>2, <1>3, WalksFacts, MovedAppend
<1>11. Moved(f, Shift) = [start |-> pos + Shift, end |-> pos + Shift + n, seen |-> {}]
  <2>1. pos + n + Shift = pos + Shift + n
    BY <1>3, <1>5
  <2> QED BY <2>1 DEF Moved
<1> HIDE DEF f
<1>12. (pos + Shift)' = pos + Shift + 4
  BY <1>2, <1>5
<1>13. Elsewhere!PushDocument
  BY <1>2, <1>8, <1>10, <1>11, <1>12, ElsewhereStack, ElsewhereInput DEF Elsewhere!PushDocument
<1>14. ~(n < 5)
  BY <1>1 DEF n
<1> QED BY <1>1, <1>7, <1>8, <1>9, <1>13, <1>14 DEF Elsewhere!EnterDocument

\* The head of the element loop sees the same type byte.
LEMMA ElsewhereElement ==
    ASSUME Walks, pc = "element", ~BodyExhausted, pos + 1 <= Limit
    PROVE  /\ frames # <<>> /\ Elsewhere!Top = Moved(Top, Shift)
           /\ Top \in Frame
           /\ ~Elsewhere!BodyExhausted /\ Elsewhere!TypeByte = TypeByte
<1>1. frames # <<>>
  BY DEF Walks, IInv
<1>2. /\ frames \in Seq(Frame) /\ pos \in Nat /\ Shift \in Int /\ start \in Nat
      /\ start <= pos /\ Limit \in Nat /\ Alike(buf, There, Shift, start, Limit)
  BY WalksFacts
<1>3. Elsewhere!Top = Moved(Top, Shift)
  BY <1>1, ElsewhereStack
<1>4. Top \in Frame
  <2>1. Last(frames) = frames[Len(frames)] /\ Len(frames) \in Nat \ {0}
    BY <1>1, <1>2, FrontFacts
  <2> QED BY <1>2, <2>1 DEF Top
<1>5. ~Elsewhere!BodyExhausted
  <2>1. Top.end \in Nat /\ Elsewhere!Top.end = Top.end + Shift
    BY <1>3, <1>4 DEF Moved, Frame
  <2> QED BY <1>2, <2>1 DEF Elsewhere!BodyExhausted, BodyExhausted
<1>6. Elsewhere!TypeByte = TypeByte
  <2>1. pos + 1 \in start + 1 .. Limit /\ pos + 1 + Shift = pos + Shift + 1
    BY <1>2
  <2>2. There[pos + 1 + Shift] = buf[pos + 1]
    BY <1>2, <2>1 DEF Alike
  <2> QED BY <2>1, <2>2 DEF Elsewhere!TypeByte, TypeByte
<1> QED BY <1>1, <1>3, <1>4, <1>5, <1>6

LEMMA EndElsewhere ==
    ASSUME Walks, EndDocument
    PROVE  Elsewhere!EndDocument
<1>1. /\ pc = "element" /\ ~BodyExhausted /\ TypeByte = 0 /\ pos + 1 = Top.end
      /\ pos' = pos + 1 /\ frames' = Front(frames) /\ pc' = "after"
      /\ tag' = tag /\ verdict' = verdict
  BY NoReject DEF EndDocument, DecodeErrors, Pop
<1>2. /\ frames \in Seq(Frame) /\ pos \in Nat /\ Shift \in Int /\ pos + 1 <= Limit
  BY <1>1, WalksFacts
<1>3. /\ frames # <<>> /\ Elsewhere!Top = Moved(Top, Shift) /\ Top \in Frame
      /\ ~Elsewhere!BodyExhausted /\ Elsewhere!TypeByte = 0
  BY <1>1, <1>2, ElsewhereElement
<1>4. pos + Shift + 1 = Elsewhere!Top.end
  <2>1. Elsewhere!Top.end = Top.end + Shift /\ Top.end \in Nat
    BY <1>3 DEF Moved, Frame
  <2> QED BY <1>1, <1>2, <2>1
<1>5. (pos + Shift)' = pos + Shift + 1
  BY <1>1, <1>2
<1>6. MovedAll(frames', Shift) = Elsewhere!Pop(MovedAll(frames, Shift))
  <2>1. MovedAll(frames', Shift) = Front(MovedAll(frames, Shift))
    BY <1>1, <1>2, <1>3, MovedFront
  <2> QED BY <2>1 DEF Elsewhere!Pop, Elsewhere!Front, Front
<1> QED BY <1>1, <1>3, <1>4, <1>5, <1>6, ElsewhereStack, ElsewhereInput DEF Elsewhere!EndDocument

LEMMA KeyElsewhere ==
    ASSUME Walks, ReadKey
    PROVE  Elsewhere!ReadKey
<1> DEFINE key == ReadCstring(buf, pos + 1)
           text == CstringText(buf, pos + 1)
<1>1. buf \in Seq(Byte) /\ pos \in Nat /\ pos + 1 \in Nat /\ Shift \in Int /\ start <= pos
      /\ start \in Nat /\ frames \in Seq(Frame) /\ Limit \in Nat
  BY WalksFacts
<1>2. Sound(key, buf, pos + 1)
  BY <1>1, CstringSound
<1>3. key.err = "none"
  <2>1. key.err \in DecodeErrors \cup {"none"}
    BY <1>2 DEF Sound
  <2> QED BY <2>1, NoReject DEF ReadKey
<1>4. /\ pc = "element" /\ ~BodyExhausted /\ TypeByte # 0 /\ ~IsDuplicate(text)
      /\ pos' = key.pos /\ frames' = WithKey(text) /\ tag' = TypeByte
      /\ pc' = "value" /\ verdict' = verdict
  BY <1>3, NoReject DEF ReadKey, DecodeErrors
<1>5. key.pos \in Int /\ key.pos <= Limit /\ pos + 1 < key.pos
  BY <1>1, <1>3, <1>4, WalksFacts, CstringSound
<1>6. pos + 1 <= Limit
  BY <1>1, <1>5
<1>7. /\ frames # <<>> /\ Elsewhere!Top = Moved(Top, Shift) /\ Top \in Frame
      /\ ~Elsewhere!BodyExhausted /\ Elsewhere!TypeByte = TypeByte
  BY <1>4, <1>6, ElsewhereElement
<1>8. /\ ReadCstring(There, pos + 1 + Shift) = Ok(key.pos + Shift)
      /\ CstringText(There, pos + 1 + Shift) = text
  <2>1. Alike(buf, There, Shift, start, Limit) /\ start <= pos + 1
    BY <1>1, WalksFacts
  <2>2. \A p \in Nat :
            /\ start <= p /\ ReadCstring(buf, p).err = "none"
            /\ ReadCstring(buf, p).pos \in Int /\ ReadCstring(buf, p).pos <= Limit
            => /\ ReadCstring(There, p + Shift) = Ok(ReadCstring(buf, p).pos + Shift)
               /\ CstringText(There, p + Shift) = CstringText(buf, p)
    BY <2>1, SameCstring
  <2> QED BY <1>1, <1>3, <1>5, <2>1, <2>2
<1>9. pos + Shift + 1 = pos + 1 + Shift
  BY <1>1
<1>10. /\ Elsewhere!ReadCstring(There, pos + Shift + 1) = Ok(key.pos + Shift)
       /\ Elsewhere!CstringText(There, pos + Shift + 1) = text
  BY <1>8, <1>9, ElsewhereReaders
<1> HIDE DEF key, text
<1>11. Elsewhere!ChecksDupes <=> ChecksDupes
  BY DEF Elsewhere!ChecksDupes, ChecksDupes
<1>12. ~Elsewhere!IsDuplicate(text)
  <2>1. Elsewhere!Top.seen = Top.seen
    BY <1>7 DEF Moved
  <2> QED BY <1>4, <1>11, <2>1 DEF Elsewhere!IsDuplicate, IsDuplicate
<1>13. MovedAll(frames', Shift) = Elsewhere!WithKey(text)
  <2>1. frames' = AddKey(frames, Depth, ChecksDupes, text)
    BY <1>4 DEF WithKey, AddKey
  <2>2. Depth \in 1 .. Len(frames)
    BY <1>1, <1>7, FrontFacts DEF Depth
  <2>3. MovedAll(frames', Shift) = AddKey(MovedAll(frames, Shift), Depth, ChecksDupes, text)
    BY <1>1, <2>1, <2>2, MovedKey
  <2>4. Elsewhere!WithKey(text) = AddKey(MovedAll(frames, Shift), Depth, ChecksDupes, text)
    <3>1. Elsewhere!Depth = Depth
      BY ElsewhereStack
    <3> QED BY <3>1 DEF Elsewhere!WithKey, AddKey, MovedAll, Elsewhere!ChecksDupes, ChecksDupes
  <2> QED BY <2>3, <2>4
<1>14. (pos + Shift)' = key.pos + Shift
  BY <1>4
<1>15. Ok(key.pos + Shift).err = "none" /\ Ok(key.pos + Shift).pos = key.pos + Shift
  BY DEF Ok
<1> QED BY <1>4, <1>7, <1>10, <1>12, <1>13, <1>14, <1>15, ElsewhereStack, ElsewhereInput
        DEF Elsewhere!ReadKey

LEMMA ConsumeElsewhere ==
    ASSUME Walks, NEW e, pos' = e,
           pc' = "after", frames' = frames, tag' = tag, verdict' = verdict
    PROVE  Elsewhere!Consume(Ok(e + Shift))
<1>1. (pos + Shift)' = Ok(e + Shift).pos /\ Ok(e + Shift).err = "none"
  BY DEF Ok
<1> QED BY <1>1, ElsewhereInput, ElsewhereFrames DEF Elsewhere!Consume

\* The actions of Elsewhere, by the readers of Validate.
LEMMA ElsewhereReads ==
    ASSUME pc = "value", tag \in ReadTags,
           Elsewhere!Consume(Reading(There, tag, pos + Shift))
    PROVE  Elsewhere!Value
<1> DEFINE p == pos + Shift
<1>1. CASE tag \in DOMAIN FixedSize
  <2>1. Reading(There, tag, p) = Elsewhere!Skip(There, p, Elsewhere!FixedSize[tag])
    BY <1>1, Readings, ElsewhereReaders, ElsewhereTags
  <2> QED BY <1>1, <2>1, ElsewhereTags DEF Elsewhere!Value, Elsewhere!FixedValue
<1>2. CASE tag \in StringTags
  <2>1. Reading(There, tag, p) = Elsewhere!ReadString(There, p)
    BY <1>2, Readings, ElsewhereReaders
  <2> QED BY <1>2, <2>1, ElsewhereTags DEF Elsewhere!Value, Elsewhere!StringValue
<1>3. CASE tag = 5
  <2>1. BinaryIn(There, p) = Elsewhere!ReadBinary(p)
    BY ElsewhereReaders DEF BinaryIn, Elsewhere!ReadBinary
  <2>2. Reading(There, tag, p) = Elsewhere!ReadBinary(p)
    BY <1>3, <2>1, Readings
  <2> QED BY <1>3, <2>2 DEF Elsewhere!Value, Elsewhere!BinaryValue
<1>4. CASE tag = 8
  <2>1. BooleanIn(There, p) = Elsewhere!ReadBoolean(p)
    BY ElsewhereReaders DEF BooleanIn, Elsewhere!ReadBoolean
  <2>2. Reading(There, tag, p) = Elsewhere!ReadBoolean(p)
    BY <1>4, <2>1, Readings
  <2> QED BY <1>4, <2>2 DEF Elsewhere!Value, Elsewhere!BooleanValue
<1>5. CASE tag = 11
  <2>1. Reading(There, tag, p) =
            LET pattern == Elsewhere!ReadCstring(There, p) IN
            IF pattern.err # "none" THEN pattern ELSE Elsewhere!ReadCstring(There, pattern.pos)
    BY <1>5, Readings, ElsewhereReaders DEF RegexIn
  <2> QED BY <1>5, <2>1 DEF Elsewhere!Value, Elsewhere!RegexValue
<1>6. CASE tag = 12
  <2>1. Reading(There, tag, p) =
            LET name == Elsewhere!ReadString(There, p) IN
            IF name.err # "none" THEN name ELSE Elsewhere!Skip(There, name.pos, 12)
    BY <1>6, Readings, ElsewhereReaders DEF DbPointerIn
  <2> QED BY <1>6, <2>1 DEF Elsewhere!Value, Elsewhere!DbPointerValue
<1> QED BY <1>1, <1>2, <1>3, <1>4, <1>5, <1>6 DEF ReadTags

LEMMA ReadElsewhere ==
    ASSUME Walks, Value, tag \in ReadTags
    PROVE  Elsewhere!Value
<1> DEFINE r == Reading(buf, tag, pos)
<1>1. pc = "value" /\ Consume(r)
  BY ReadsValue
<1>2. /\ buf \in Seq(Byte) /\ pos \in Nat /\ pos \in 0 .. Len(buf) /\ Shift \in Int
      /\ start <= pos /\ Limit \in Nat /\ pos' \in Nat /\ pos' <= Limit
      /\ Alike(buf, There, Shift, start, Limit)
  BY WalksFacts DEF Walks, IInv, TypeOK
<1>3. r.err = "none"
  <2>1. r.err \in DecodeErrors \cup {"none"}
    <3>1. tag \in ReadTags
      OBVIOUS
    <3>2. Sound(Reading(buf, tag, pos), buf, pos)
      BY <1>2, <3>1, ReadingSound
    <3> QED BY <3>2 DEF Sound
  <2> QED BY <1>1, <2>1, NoReject DEF Consume
<1>4. pos' = r.pos /\ pc' = "after" /\ frames' = frames /\ tag' = tag /\ verdict' = verdict
  BY <1>1, <1>3 DEF Consume
<1>5. Reading(There, tag, pos + Shift) = Ok(r.pos + Shift)
  BY <1>2, <1>3, <1>4, SameReading
<1> HIDE DEF r
<1>6. \A e : pos' = e => Elsewhere!Consume(Ok(e + Shift))
  BY <1>4, ConsumeElsewhere
<1>7. Elsewhere!Consume(Ok(r.pos + Shift))
  BY <1>4, <1>6
<1> QED BY <1>1, <1>5, <1>7, ElsewhereReads

LEMMA ScopeElsewhere ==
    ASSUME Walks, CodeWithScopeValue
    PROVE  Elsewhere!CodeWithScopeValue
<1> DEFINE code == ReadString(buf, pos + 4)
<1>1. /\ buf \in Seq(Byte) /\ pos \in Nat /\ pos + 4 \in Nat /\ Shift \in Int
      /\ start <= pos /\ start \in Nat /\ Limit \in Nat /\ pos' \in Nat /\ pos' <= Limit
      /\ Alike(buf, There, Shift, start, Limit)
  BY WalksFacts
<1>2. Sound(code, buf, pos + 4)
  BY <1>1, StringSound
<1>3. /\ pc = "value" /\ tag = 15 /\ HasI32(buf, pos) /\ ~(I32At(buf, pos) < 0)
      /\ code.err \notin DecodeErrors
  BY NoReject DEF CodeWithScopeValue, DecodeErrors
<1>4. code.err = "none"
  BY <1>2, <1>3 DEF Sound
<1>5. /\ pos' = code.pos /\ pc' = "enter" /\ frames' = frames /\ tag' = tag
      /\ verdict' = verdict
  BY <1>3, <1>4 DEF CodeWithScopeValue
<1>6. code.pos \in Int /\ code.pos <= Limit /\ pos + 4 <= code.pos
  BY <1>1, <1>2, <1>4, <1>5 DEF Sound, DecodeErrors
<1>7. ReadString(There, pos + 4 + Shift) = Ok(code.pos + Shift)
  <2>1. start <= pos + 4
    BY <1>1
  <2>2. \A p \in Nat :
            /\ start <= p /\ ReadString(buf, p).err = "none"
            /\ ReadString(buf, p).pos \in Int /\ ReadString(buf, p).pos <= Limit
            => ReadString(There, p + Shift) = Ok(ReadString(buf, p).pos + Shift)
    BY <1>1, SameString
  <2> QED BY <1>1, <1>4, <1>6, <2>1, <2>2
<1>8. HasI32(There, pos + Shift) /\ I32At(There, pos + Shift) = I32At(buf, pos)
  <2>1. pos + 4 <= Limit
    BY <1>1, <1>6
  <2>2. pos \in Nat /\ start <= pos /\ Alike(buf, There, Shift, start, Limit)
    BY <1>1
  <2> HIDE DEF code
  <2> QED BY ONLY <2>1, <2>2, SameI32
<1>9. pos + Shift + 4 = pos + 4 + Shift
  BY <1>1
<1>10. /\ Elsewhere!HasI32(There, pos + Shift)
       /\ Elsewhere!I32At(There, pos + Shift) = I32At(buf, pos)
       /\ Elsewhere!ReadString(There, pos + Shift + 4) = Ok(code.pos + Shift)
  BY <1>7, <1>8, <1>9, ElsewhereReaders
<1> HIDE DEF code
<1>11. Ok(code.pos + Shift).err = "none" /\ Ok(code.pos + Shift).pos = (pos + Shift)'
  BY <1>5 DEF Ok
<1> QED BY <1>3, <1>5, <1>10, <1>11, ElsewhereInput, ElsewhereFrames
        DEF Elsewhere!CodeWithScopeValue

LEMMA DocumentElsewhere ==
    ASSUME Walks, DocumentValue
    PROVE  Elsewhere!DocumentValue
<1>1. /\ pc = "value" /\ tag \in DocumentTags /\ pc' = "enter" /\ pos' = pos
      /\ frames' = frames /\ tag' = tag /\ verdict' = verdict
  BY DEF DocumentValue
<1>2. (pos + Shift)' = pos + Shift
  BY <1>1
<1> QED BY <1>1, <1>2, ElsewhereTags, ElsewhereInput, ElsewhereFrames
        DEF Elsewhere!DocumentValue

LEMMA ValueElsewhere ==
    ASSUME Walks, Value
    PROVE  Elsewhere!Value
<1>1. CASE tag \in ReadTags
  BY <1>1, ReadElsewhere
<1>2. CASE CodeWithScopeValue
  BY <1>2, ScopeElsewhere DEF Elsewhere!Value
<1>3. CASE DocumentValue
  BY <1>3, DocumentElsewhere DEF Elsewhere!Value
<1>4. ~UnknownValue
  BY NoReject DEF UnknownValue, DecodeErrors
<1>5. ASSUME tag \notin ReadTags PROVE CodeWithScopeValue \/ DocumentValue \/ UnknownValue
  BY <1>5 DEF Value, FixedValue, BooleanValue, StringValue, BinaryValue, RegexValue,
              DbPointerValue, ReadTags
<1> QED BY <1>1, <1>2, <1>3, <1>4, <1>5


LEMMA AfterElsewhere ==
    ASSUME Walks, NextElement
    PROVE  Elsewhere!NextElement
<1>1. /\ pc = "after" /\ frames # <<>> /\ ~(pos > Top.end) /\ pc' = "element"
      /\ pos' = pos /\ frames' = frames /\ tag' = tag /\ verdict' = verdict
  BY NoReject DEF NextElement, DecodeErrors
<1>2. pos \in Nat /\ Shift \in Int /\ frames \in Seq(Frame)
  BY WalksFacts
<1>3. Top \in Frame
  <2>1. Last(frames) = frames[Len(frames)] /\ Len(frames) \in Nat \ {0}
    BY <1>1, <1>2, FrontFacts
  <2> QED BY <1>2, <2>1 DEF Top
<1>4. ~(pos + Shift > Elsewhere!Top.end)
  <2>1. Elsewhere!Top.end = Top.end + Shift /\ Top.end \in Nat
    BY <1>1, <1>3, ElsewhereStack DEF Moved, Frame
  <2> QED BY <1>1, <1>2, <2>1
<1>5. [i \in DOMAIN frames |-> Moved(frames[i], Shift)] # <<>>
  BY <1>1, <1>2, ElsewhereStack, MovedFacts
<1>6. UNCHANGED (pos + Shift)
  BY <1>1
<1> QED BY <1>1, <1>4, <1>5, <1>6, ElsewhereInput, ElsewhereFrames
        DEF Elsewhere!NextElement

LEMMA FinishElsewhere ==
    ASSUME Walks, Finish
    PROVE  Elsewhere!Finish
<1>1. /\ pc = "after" /\ frames = <<>> /\ Accept
      /\ pc' = "done" /\ verdict' = "ok" /\ pos' = pos /\ frames' = frames /\ tag' = tag
  BY NoReject DEF Finish, Accept, DecodeErrors
<1>2. pos = Limit
  BY <1>1 DEF Walks, IInv, Whole, Limit
<1>3. ~(entry = "validate" /\ pos + Shift # Len(There))
  BY <1>2 DEF Walks, SameDocument
<1>4. [i \in DOMAIN frames |-> Moved(frames[i], Shift)] = <<>>
  BY <1>1, WalksFacts, ElsewhereStack, MovedFacts
<1>5. UNCHANGED (pos + Shift)
  BY <1>1
<1>6. Elsewhere!Accept
  BY <1>1, <1>5, ElsewhereInput, ElsewhereFrames DEF Elsewhere!Accept
<1> QED BY <1>1, <1>3, <1>4, <1>6 DEF Elsewhere!Finish

-----------------------------------------------------------------------------
(* The runs.                                                               *)

\* One step of the walk is one step of the walk elsewhere.
LEMMA StepElsewhere == Walks /\ Step => Elsewhere!Step
<1> SUFFICES ASSUME Walks, Step PROVE Elsewhere!Step
  OBVIOUS
<1>1. CASE EnterDocument
  BY <1>1, EnterElsewhere DEF Elsewhere!Step
<1>2. ~ElementOverrun
  BY NoReject DEF ElementOverrun, DecodeErrors
<1>3. CASE EndDocument
  BY <1>3, EndElsewhere DEF Elsewhere!Step
<1>4. CASE ReadKey
  BY <1>4, KeyElsewhere DEF Elsewhere!Step
<1>5. CASE Value
  BY <1>5, ValueElsewhere DEF Elsewhere!Step
<1>6. CASE NextElement
  BY <1>6, AfterElsewhere DEF Elsewhere!Step
<1>7. CASE Finish
  BY <1>7, FinishElsewhere DEF Elsewhere!Step
<1> QED BY <1>1, <1>2, <1>3, <1>4, <1>5, <1>6, <1>7 DEF Step

\* The cursor is never behind the document.
Behind == IInv /\ start <= pos

LEMMA AlwaysBehind == Spec => []Behind
<1>1. Init => Behind
  <2> SUFFICES ASSUME Init PROVE Behind
    OBVIOUS
  <2>1. IInv /\ pos = start
    BY InitIInv DEF Init
  <2> QED BY <2>1 DEF Behind, IInv, TypeOK
<1>2. Behind /\ [Next]_vars => Behind'
  <2> SUFFICES ASSUME Behind, [Next]_vars PROVE Behind'
    OBVIOUS
  <2>1. IInv /\ IInv'
    BY NextIInv DEF Behind
  <2>2. CASE UNCHANGED vars
    BY <2>1, <2>2 DEF vars, Behind
  <2>3. CASE Step
    <3>1. Onward
      BY <2>1, <2>3, StepOnward
    <3>2. start \in Nat /\ pos \in Nat /\ pos' \in Nat
      BY <2>1 DEF IInv, TypeOK
    <3> QED BY <2>1, <3>1, <3>2 DEF Onward, Behind
  <2> QED BY <2>2, <2>3 DEF Next, Returned
<1> QED BY <1>1, <1>2, PTL DEF Spec

\* What both theorems below are about, a step at a time.
LEMMA NextElsewhere ==
    ASSUME There \in Seq(Byte), Shift \in Int, Behind, [Next]_vars
    PROVE  /\ SameDocument => SameDocument'
           /\ SameDocument /\ ~Strayed' => (Elsewhere!Next \/ UNCHANGED vars)
<1>1. IInv /\ IInv' /\ start <= pos
  BY NextIInv DEF Behind
<1>2. CASE UNCHANGED vars
  BY <1>2 DEF vars, SameDocument, Framed, Limit
<1>3. CASE Step
  <2>1. Onward
    BY <1>1, <1>3, StepOnward
  <2>2. SameDocument => SameDocument'
    BY <2>1 DEF Onward, SameDocument, Framed, Limit
  <2>3. ASSUME SameDocument, ~Strayed' PROVE Elsewhere!Next
    <3>1. Walks
      BY <1>1, <2>1, <2>3 DEF Walks
    <3> QED BY <1>3, <3>1, StepElsewhere DEF Elsewhere!Next
  <2> QED BY <2>2, <2>3
<1> QED BY <1>2, <1>3 DEF Next, Returned

LEMMA InitElsewhere ==
    ASSUME There \in Seq(Byte), Shift \in Int, Init, SameDocument
    PROVE  Elsewhere!Init
<1>1. /\ frames = <<>> /\ pos = start /\ entry \in Entries /\ pc = "enter"
      /\ tag = 0 /\ verdict = "none"
      /\ start \in (IF entry = "validate_one" THEN 0 .. Len(buf) ELSE {0})
  BY DEF Init
<1>2. IInv /\ Framed
  BY InitIInv DEF SameDocument
<1>3. start \in Nat /\ Limit \in Nat /\ start + 5 <= Limit /\ Len(There) \in Nat
  BY <1>2, FramedType
<1>4. start + Shift \in 0 .. Len(There)
  BY <1>3 DEF SameDocument
<1>5. [i \in DOMAIN frames |-> Moved(frames[i], Shift)] = <<>>
  BY <1>1
<1>6. entry \in EntryPoints
  BY <1>2 DEF IInv, TypeOK
<1>7. start + Shift \in (IF entry = "validate_one" THEN 0 .. Len(There) ELSE {0})
  BY <1>4 DEF SameDocument
<1> QED BY <1>1, <1>5, <1>6, <1>7 DEF Elsewhere!Init

LEMMA StandsElsewhere == UNCHANGED vars => UNCHANGED Elsewhere!vars
BY DEF vars, Elsewhere!vars

(* Whatever bytes precede and follow the same document elsewhere, a step   *)
(* that stays in the document is the step the validator takes there: the   *)
(* scans and comparisons that run to the end of the buffer come out alike  *)
(* (validate.rs:157-199 and the readers it calls).                         *)
THEOREM StepsAreTheSameElsewhere ==
    ASSUME There \in Seq(Byte), Shift \in Int
    PROVE  Spec => SameStepElsewhere
<1>1. Behind /\ [Next]_vars => [SameDocument /\ ~Strayed' => Elsewhere!Next]_vars
  BY NextElsewhere
<1> QED BY <1>1, AlwaysBehind, PTL DEF Spec, SameStepElsewhere

(* A run that accepts a document is a run on the same document elsewhere,  *)
(* so acceptance is a matter of the document's bytes: what `split` takes   *)
(* from a stream and `bson_seq` reads back (seq.rs:30-46) is accepted by   *)
(* itself, and what is accepted by itself is accepted in any stream.       *)
THEOREM AcceptanceIsLocal ==
    ASSUME There \in Seq(Byte), Shift \in Int
    PROVE  Spec => AcceptedElsewhere
<1>1. Init /\ SameDocument => Elsewhere!Init
  BY InitElsewhere
<1>2. Behind /\ SameDocument /\ [Next]_vars =>
          SameDocument' /\ (Strayed' \/ [Elsewhere!Next]_(Elsewhere!vars))
  BY NextElsewhere, StandsElsewhere
<1>3. Behind /\ Behind' /\ Strayed /\ [Next]_vars => Strayed'
  BY StraysOn DEF Behind
<1>4. Behind /\ Strayed => ~(verdict = "ok")
  BY StrayedNeverOk DEF Behind
<1>5. Behind /\ verdict = "ok" /\ [Next]_vars => (verdict = "ok")'
  <2> SUFFICES ASSUME Behind, verdict = "ok", [Next]_vars PROVE verdict' = "ok"
    OBVIOUS
  <2>1. IInv /\ IInv' /\ pc = "done"
    BY NextIInv DEF Behind, IInv
  <2>2. ~Step
    BY <2>1, StepOnward
  <2> QED BY <2>2 DEF Next, Returned, vars
<1> QED BY <1>1, <1>2, <1>3, <1>4, <1>5, AlwaysBehind, PTL DEF Spec, AcceptedElsewhere

\* Such a document is not entered.
Waits == Unfinished => \/ pc = "enter" /\ frames = <<>> /\ pos = start
                       \/ pc = "done" /\ verdict = "truncated"

LEMMA EnterWaits ==
    ASSUME IInv, Unfinished, frames = <<>>, pos = start, EnterDocument
    PROVE  pc' = "done" /\ verdict' = "truncated" /\ UNCHANGED input
<1>1. Depth = 0 /\ MaxNesting \in Nat
  BY NestingAssumption DEF Depth
<1>2. ~TooDeep(Depth)
  BY <1>1 DEF TooDeep
<1>3. CASE ~HasI32(buf, pos)
  BY <1>2, <1>3 DEF EnterDocument, Reject
<1>4. CASE HasI32(buf, pos)
  <2>1. /\ buf \in Seq(Byte) /\ Len(buf) \in Nat /\ pos \in Nat
        /\ I32At(buf, pos) \in Int
    BY <1>4, I32IsInt DEF IInv, TypeOK
  <2>2. ~(I32At(buf, pos) < 5) /\ DocOverruns(pos)
    BY <1>4, <2>1 DEF Unfinished, Limit, DocOverruns
  <2> QED BY <1>2, <1>4, <2>2 DEF EnterDocument, Reject
<1> QED BY <1>3, <1>4

(* A document of which a part is missing is called truncated at its        *)
(* prefix, before anything in it is looked at (validate.rs:157-170): with  *)
(* AcceptanceIsLocal, no other error can be cured by more input.           *)
THEOREM MissingPartsAreTruncated == Spec => []UnfinishedIsTruncated
<1>1. Init => Waits
  BY DEF Init, Waits
<1>2. IInv /\ Waits /\ [Next]_vars => Waits'
  <2> SUFFICES ASSUME IInv, Waits, [Next]_vars, Unfinished' PROVE Waits'
    BY DEF Waits
  <2>1. CASE UNCHANGED vars
    BY <2>1 DEF vars, Waits, Unfinished, Limit
  <2>2. CASE Step
    <3>1. IInv' /\ Onward /\ pc # "done"
      BY <2>2, StepIInv, StepOnward
    <3>2. Unfinished
      BY <3>1 DEF Onward, Unfinished, Limit
    <3>3. pc = "enter" /\ frames = <<>> /\ pos = start
      BY <3>1, <3>2 DEF Waits
    <3>4. EnterDocument
      BY <2>2, <3>3 DEF Step, ElementOverrun, EndDocument, ReadKey, Value, FixedValue,
              BooleanValue, StringValue, BinaryValue, RegexValue, DbPointerValue,
              CodeWithScopeValue, DocumentValue, UnknownValue, NextElement, Finish
    <3> QED BY <3>2, <3>3, <3>4, EnterWaits DEF Waits
  <2> QED BY <2>1, <2>2 DEF Next, Returned
<1>3. Waits => UnfinishedIsTruncated
  BY DEF Waits, UnfinishedIsTruncated
<1> QED BY <1>1, <1>2, <1>3, AlwaysIInv, PTL DEF Spec
=============================================================================
