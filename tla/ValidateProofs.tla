--------------------------- MODULE ValidateProofs ---------------------------
(***************************************************************************)
(* What holds of the validator for every buffer, every entry point and     *)
(* every nesting limit.                                                    *)
(***************************************************************************)
EXTENDS Validate, SequenceTheorems, TLAPS

Frame == [start : Nat, end : Nat, seen : SUBSET Seq(Byte)]

\* A reader called at p fails with a DecodeError or stops inside the buffer,
\* at or after p.
Sound(r, s, p) ==
    \/ r.err = "none" /\ r.pos \in p .. Len(s)
    \/ r.err \in DecodeErrors

-----------------------------------------------------------------------------
(* The readers.                                                            *)

LEMMA ByteIsInt == \A x \in Byte : x \in Int
BY DEF Byte

LEMMA I32IsInt ==
    ASSUME NEW s \in Seq(Byte), NEW p \in Nat, HasI32(s, p)
    PROVE  I32At(s, p) \in Int
<1> DEFINE w == s[p + 1]
           x == s[p + 2]
           y == s[p + 3]
           z == s[p + 4]
<1>1. w \in Byte /\ x \in Byte /\ y \in Byte /\ z \in Byte
  <2>1. /\ p + 1 \in 1 .. Len(s) /\ p + 2 \in 1 .. Len(s)
        /\ p + 3 \in 1 .. Len(s) /\ p + 4 \in 1 .. Len(s)
    BY DEF HasI32
  <2> QED BY <2>1
<1>2. I32At(s, p) = w + 256 * x + 65536 * y
                      + 16777216 * (IF z < 128 THEN z ELSE z - 256)
  BY DEF I32At
<1> HIDE DEF w, x, y, z
<1>3. w \in Int /\ x \in Int /\ y \in Int /\ z \in Int
  BY <1>1, ByteIsInt
<1>4. CASE z < 128
  <2>1. I32At(s, p) = w + 256 * x + 65536 * y + 16777216 * z
    BY <1>2, <1>4
  <2> QED BY <1>3, <2>1
<1>5. CASE ~(z < 128)
  <2>1. I32At(s, p) = w + 256 * x + 65536 * y + 16777216 * (z - 256)
    BY <1>2, <1>5
  <2> QED BY <1>3, <2>1
<1> QED BY <1>4, <1>5

LEMMA SkipSound ==
    ASSUME NEW s \in Seq(Byte), NEW p \in 0 .. Len(s), NEW n \in Nat
    PROVE  Sound(Skip(s, p, n), s, p)
BY DEF Sound, Skip, Ok, Err, DecodeErrors

LEMMA CstringSound ==
    ASSUME NEW s \in Seq(Byte), NEW p \in Nat
    PROVE  /\ Sound(ReadCstring(s, p), s, p)
           /\ ReadCstring(s, p).err = "none" => /\ ReadCstring(s, p).pos > p
                                                /\ CstringText(s, p) \in Seq(Byte)
<1>1. CASE p > Len(s)
  BY <1>1 DEF Sound, ReadCstring, Ok, Err, DecodeErrors
<1>2. CASE p <= Len(s) /\ FirstNul(s, p) = {}
  BY <1>2 DEF Sound, ReadCstring, Ok, Err, DecodeErrors
<1>3. CASE p <= Len(s) /\ FirstNul(s, p) # {}
  <2> DEFINE q == CHOOSE q \in FirstNul(s, p) : TRUE
  <2>1. q \in p .. Len(s) - 1
    BY <1>3 DEF FirstNul
  <2>2. CstringText(s, p) \in Seq(Byte)
    <3>1. CstringText(s, p) = SubSeq(s, p + 1, q)
      BY DEF CstringText
    <3> HIDE DEF q
    <3>2. p + 1 \in Int /\ q \in Int /\ \A i \in p + 1 .. q : s[i] \in Byte
      BY <2>1
    <3> QED BY <3>1, <3>2, SubSeqProperties
  <2>3. CASE ~Utf8(CstringText(s, p))
    BY <1>3, <2>3 DEF Sound, ReadCstring, Ok, Err, DecodeErrors
  <2>4. CASE Utf8(CstringText(s, p))
    <3>1. ReadCstring(s, p) = Ok(1 + q)
      BY <1>3, <2>4 DEF ReadCstring
    <3> HIDE DEF q
    <3> QED BY <2>1, <2>2, <3>1 DEF Sound, Ok
  <2> QED BY <2>3, <2>4
<1> QED BY <1>1, <1>2, <1>3

LEMMA StringSound ==
    ASSUME NEW s \in Seq(Byte), NEW p \in Nat
    PROVE  Sound(ReadString(s, p), s, p)
<1>1. CASE ~HasI32(s, p)
  BY <1>1 DEF Sound, ReadString, Err, DecodeErrors
<1>2. CASE HasI32(s, p)
  <2> DEFINE n == I32At(s, p)
  <2>1. n \in Int
    BY <1>2, I32IsInt
  <2>2. ReadString(s, p) = IF n < 1 THEN Err("length-mismatch") ELSE StringBody(s, p + 4, n)
    BY <1>2 DEF ReadString
  <2>3. p + 4 \in 0 .. Len(s)
    BY <1>2 DEF HasI32
  <2> HIDE DEF n
  <2> QED BY <2>1, <2>2, <2>3 DEF Sound, StringBody, Ok, Err, DecodeErrors
<1> QED BY <1>1, <1>2

LEMMA BinarySound ==
    ASSUME NEW p \in Nat, buf \in Seq(Byte)
    PROVE  Sound(ReadBinary(p), buf, p)
<1>1. CASE ~HasI32(buf, p)
  BY <1>1 DEF Sound, ReadBinary, Err, DecodeErrors
<1>2. CASE HasI32(buf, p)
  <2> DEFINE n == I32At(buf, p)
  <2>1. n \in Int
    BY <1>2, I32IsInt
  <2>2. ReadBinary(p) = IF n < 0 THEN Err("bad-subtype")
                        ELSE IF Skip(buf, p + 4, 1).err # "none" THEN Err("truncated")
                        ELSE Skip(buf, p + 5, n)
    BY <1>2 DEF ReadBinary
  <2>3. p + 4 \in 0 .. Len(buf)
    BY <1>2 DEF HasI32
  <2> HIDE DEF n
  <2> QED BY <2>1, <2>2, <2>3 DEF Sound, Skip, Ok, Err, DecodeErrors
<1> QED BY <1>1, <1>2

LEMMA BooleanSound ==
    ASSUME NEW p \in Nat, buf \in Seq(Byte)
    PROVE  Sound(ReadBoolean(p), buf, p)
BY DEF Sound, ReadBoolean, Skip, Ok, Err, DecodeErrors

LEMMA FixedSizeIsNat ==
    \A t \in DOMAIN FixedSize : FixedSize[t] \in Nat
BY DEF FixedSize

-----------------------------------------------------------------------------
(* The stack of active documents.                                          *)

LEMMA FrontFacts ==
    ASSUME NEW S, NEW s \in Seq(S), s # <<>>
    PROVE  /\ Front(s) \in Seq(S)
           /\ Len(Front(s)) = Len(s) - 1
           /\ \A i \in 1 .. Len(s) - 1 : Front(s)[i] = s[i]
           /\ Last(s) = s[Len(s)]
           /\ Len(s) \in Nat \ {0}
<1> DEFINE n == Len(s) - 1
           f == SubSeq(s, 1, n)
<1>1. Len(s) \in Nat \ {0} /\ n \in Nat /\ Len(s) = n + 1
  OBVIOUS
<1>2. Last(s) = s[Len(s)] /\ Front(s) = f
  BY DEF Last, Front
<1>3. \A i \in 1 .. n : s[i] \in S
  BY <1>1
<1> HIDE DEF n
<1>4. /\ f \in Seq(S)
      /\ Len(f) = IF 1 <= n THEN n - 1 + 1 ELSE 0
      /\ \A i \in 1 .. n - 1 + 1 : f[i] = s[1 + i - 1]
  BY <1>1, <1>3, SubSeqProperties
<1> HIDE DEF f
<1>5. Len(f) = n
  BY <1>1, <1>4
<1>6. \A i \in 1 .. n : f[i] = s[i]
  <2>1. n - 1 + 1 = n /\ \A i \in 1 .. n : 1 + i - 1 = i
    BY <1>1
  <2> QED BY <1>4, <2>1
<1> USE DEF n
<1> QED BY <1>1, <1>2, <1>4, <1>5, <1>6

LEMMA WithKeyFacts ==
    ASSUME frames \in Seq(Frame), frames # <<>>, NEW key \in Seq(Byte)
    PROVE  /\ WithKey(key) \in Seq(Frame)
           /\ Len(WithKey(key)) = Len(frames)
           /\ \A i \in 1 .. Len(frames) : /\ WithKey(key)[i].start = frames[i].start
                                          /\ WithKey(key)[i].end = frames[i].end
<1> DEFINE n == Len(frames)
           keys == IF ChecksDupes THEN frames[n].seen \cup {key} ELSE frames[n].seen
           top == [frames[n] EXCEPT !.seen = keys]
<1>1. n \in 1 .. Len(frames) /\ frames[n] \in Frame
  OBVIOUS
<1>2. keys \in SUBSET Seq(Byte)
  BY <1>1 DEF Frame
<1>3. WithKey(key) = [frames EXCEPT ![n] = top]
  BY DEF WithKey, Depth
<1> HIDE DEF keys
<1>4. top \in Frame /\ top.start = frames[n].start /\ top.end = frames[n].end
  BY <1>1, <1>2 DEF Frame
<1> HIDE DEF top
<1> QED BY <1>1, <1>3, <1>4

-----------------------------------------------------------------------------
(* The inductive invariant.  An accepted document is framed because the    *)
(* walk ends when the outermost frame is popped, which happens only where  *)
(* that frame ends, and where it ends was fixed when its prefix was read.  *)
(* The frames' ends are inside the buffer, which is what makes the read of *)
(* the type byte safe.                                                     *)

Whole(e) ==
    /\ HasI32(buf, start) /\ I32At(buf, start) >= 5
    /\ e = start + I32At(buf, start)

IInv ==
    /\ TypeOK
    /\ BoundedDepth
    /\ \A i \in 1 .. Len(frames) : frames[i].end <= Len(buf)
    /\ frames # <<>> => Whole(frames[1].end)
    /\ pc \in {"element", "value"} => frames # <<>>
    /\ pc = "enter" /\ frames = <<>> => pos = start
    /\ pc = "after" /\ frames = <<>> => Whole(pos)
    /\ pc # "done" => verdict = "none"
    /\ entry = "validate" => start = 0
    /\ verdict = "ok" => /\ frames = <<>> /\ Whole(pos)
                         /\ entry = "validate" => pos = Len(buf)

LEMMA InitIInv == Init => IInv
<1> SUFFICES ASSUME Init PROVE IInv
  OBVIOUS
<1>1. buf \in Seq(Byte) /\ Len(buf) \in Nat
  BY BuffersAssumption DEF Init
<1>2. start \in 0 .. Len(buf) /\ (entry = "validate" => start = 0)
  BY <1>1 DEF Init
<1>3. TypeOK
  BY <1>1, <1>2, EntriesAssumption DEF Init, TypeOK, Byte, Verdicts
<1> QED BY <1>2, <1>3, NestingAssumption DEF Init, IInv, BoundedDepth

LEMMA RejectIInv ==
    ASSUME IInv, pc # "done", NEW kind \in DecodeErrors, Reject(kind)
    PROVE  IInv'
<1>1. kind # "ok" /\ kind \in Verdicts
  BY DEF DecodeErrors, Verdicts
<1>2. TypeOK'
  BY <1>1 DEF IInv, TypeOK, Reject, input
<1> QED BY <1>1, <1>2 DEF IInv, Reject, input, BoundedDepth, Whole

LEMMA ConsumeIInv ==
    ASSUME IInv, pc = "value", NEW r, Sound(r, buf, pos), Consume(r)
    PROVE  IInv'
<1>1. CASE r.err # "none"
  BY <1>1, RejectIInv DEF Consume, Sound
<1>2. CASE r.err = "none"
  <2>1. pos' \in 0 .. Len(buf)
    BY <1>2 DEF Sound, Consume, IInv, TypeOK, DecodeErrors
  <2>2. TypeOK'
    BY <1>2, <2>1 DEF IInv, TypeOK, Consume, input
  <2> QED BY <1>2, <2>2 DEF IInv, Consume, input, BoundedDepth, Whole
<1> QED BY <1>1, <1>2

LEMMA EnterIInv ==
    ASSUME IInv, EnterDocument
    PROVE  IInv'
<1>1. /\ buf \in Seq(Byte) /\ pos \in 0 .. Len(buf) /\ frames \in Seq(Frame)
      /\ Len(buf) \in Nat /\ Len(frames) \in Nat
  BY DEF IInv, TypeOK, Frame
<1>2. CASE TooDeep(Depth)
  BY <1>2, RejectIInv DEF EnterDocument, DecodeErrors
<1>3. CASE ~HasI32(buf, pos)
  BY <1>3, RejectIInv DEF EnterDocument, DecodeErrors
<1>4. CASE I32At(buf, pos) < 5 \/ DocOverruns(pos)
  BY <1>4, RejectIInv DEF EnterDocument, DecodeErrors
<1>5. CASE /\ ~TooDeep(Depth) /\ HasI32(buf, pos)
           /\ ~(I32At(buf, pos) < 5) /\ ~DocOverruns(pos)
  <2> DEFINE n == I32At(buf, pos)
             f == [start |-> pos, end |-> pos + n, seen |-> {}]
  <2>1. PushDocument
    BY <1>5 DEF EnterDocument
  <2>2. /\ frames' = Append(frames, f) /\ pos' = pos + 4 /\ pc' = "element"
        /\ UNCHANGED <<buf, entry, start, tag, verdict>>
    BY <2>1 DEF PushDocument, input
  <2>3. n \in Int /\ n >= 5 /\ pos + n <= Len(buf) /\ pos' \in 0 .. Len(buf)
    BY <1>1, <1>5, <2>2, I32IsInt DEF DocOverruns, HasI32
  <2>4. frames = <<>> => Whole(f.end)
    BY <1>5, <2>3 DEF Whole, EnterDocument, IInv
  <2> HIDE DEF n
  <2>5. f \in Frame /\ f.end <= Len(buf)
    BY <1>1, <2>3 DEF Frame
  <2> HIDE DEF f
  <2>6. /\ frames' \in Seq(Frame) /\ frames' # <<>>
        /\ Len(frames') = Len(frames) + 1
        /\ frames'[Len(frames) + 1] = f
        /\ \A i \in 1 .. Len(frames) : frames'[i] = frames[i]
    BY <1>1, <2>2, <2>5
  <2>7. TypeOK'
    BY <2>2, <2>3, <2>6 DEF IInv, TypeOK, Frame
  <2>8. BoundedDepth'
    BY <1>1, <1>5, <2>6, NestingAssumption DEF TooDeep, Depth, BoundedDepth
  <2>9. \A i \in 1 .. Len(frames') : frames'[i].end <= Len(buf)
    <3>1. \A i \in 1 .. Len(frames) : frames[i].end <= Len(buf)
      BY DEF IInv
    <3> QED BY <1>1, <2>5, <2>6, <3>1
  <2>10. Whole(frames'[1].end)
    <3>1. CASE frames = <<>>
      <4>1. frames'[1] = f
        BY <2>6, <3>1
      <4> QED BY <2>4, <3>1, <4>1
    <3>2. CASE frames # <<>>
      <4>1. frames'[1] = frames[1]
        BY <1>1, <2>6, <3>2
      <4> QED BY <3>2, <4>1 DEF IInv
    <3> QED BY <3>1, <3>2
  <2>11. verdict = "none" /\ (entry = "validate" => start = 0)
    BY DEF EnterDocument, IInv
  <2> QED BY <2>2, <2>6, <2>7, <2>8, <2>9, <2>10, <2>11 DEF IInv, Whole
<1> QED BY <1>2, <1>3, <1>4, <1>5

LEMMA EndIInv ==
    ASSUME IInv, EndDocument
    PROVE  IInv'
<1>1. /\ buf \in Seq(Byte) /\ pos \in 0 .. Len(buf) /\ frames \in Seq(Frame)
      /\ Len(buf) \in Nat /\ Len(frames) \in Nat
  BY DEF IInv, TypeOK, Frame
<1>2. CASE pos + 1 # Top.end
  BY <1>2, RejectIInv DEF EndDocument, DecodeErrors
<1>3. CASE pos + 1 = Top.end
  <2>1. /\ frames' = Front(frames) /\ pos' = pos + 1 /\ pc' = "after"
        /\ UNCHANGED <<buf, entry, start, tag, verdict>>
    BY <1>3 DEF EndDocument, Pop, input
  <2>2. frames # <<>> /\ verdict = "none" /\ (entry = "validate" => start = 0)
    BY DEF EndDocument, IInv
  <2>3. /\ frames' \in Seq(Frame) /\ Len(frames') = Len(frames) - 1
        /\ \A i \in 1 .. Len(frames) - 1 : frames'[i] = frames[i]
        /\ Top = frames[Len(frames)] /\ Len(frames) \in Nat \ {0}
    BY <1>1, <2>1, <2>2, FrontFacts DEF Top
  <2>4. \A i \in 1 .. Len(frames) : frames[i].end <= Len(buf)
    BY DEF IInv
  <2>5. pos' \in 0 .. Len(buf)
    BY <1>1, <1>3, <2>1, <2>3, <2>4
  <2>6. TypeOK'
    BY <2>1, <2>3, <2>5 DEF IInv, TypeOK, Frame
  <2>7. BoundedDepth'
    BY <2>3, NestingAssumption DEF BoundedDepth, IInv
  <2>8. frames' # <<>> => Whole(frames'[1].end)
    <3>1. SUFFICES ASSUME frames' # <<>> PROVE Whole(frames'[1].end)
      OBVIOUS
    <3>2. frames'[1] = frames[1]
      BY <2>3, <3>1
    <3> QED BY <2>2, <3>2 DEF IInv
  <2>9. frames' = <<>> => Whole(pos')
    <3>1. SUFFICES ASSUME frames' = <<>> PROVE Whole(pos')
      OBVIOUS
    <3>2. Len(frames) = 1
      BY <2>3, <3>1
    <3>3. pos' = frames[1].end
      BY <1>3, <2>1, <2>3, <3>2
    <3> QED BY <2>2, <3>3 DEF IInv
  <2>10. \A i \in 1 .. Len(frames') : frames'[i].end <= Len(buf)
    BY <2>3, <2>4
  <2> QED BY <2>1, <2>2, <2>6, <2>7, <2>8, <2>9, <2>10 DEF IInv, Whole
<1> QED BY <1>2, <1>3

LEMMA KeyIInv ==
    ASSUME IInv, ReadKey
    PROVE  IInv'
<1> DEFINE key == ReadCstring(buf, pos + 1)
           text == CstringText(buf, pos + 1)
<1>1. /\ buf \in Seq(Byte) /\ pos \in 0 .. Len(buf) /\ frames \in Seq(Frame)
      /\ Len(buf) \in Nat /\ Len(frames) \in Nat
  BY DEF IInv, TypeOK, Frame
<1>2. Sound(key, buf, pos + 1) /\ (key.err = "none" => text \in Seq(Byte))
  BY <1>1, CstringSound
<1>3. CASE key.err # "none"
  BY <1>2, <1>3, RejectIInv DEF ReadKey, Sound
<1>4. CASE key.err = "none" /\ IsDuplicate(text)
  BY <1>4, RejectIInv DEF ReadKey, DecodeErrors
<1>5. CASE key.err = "none" /\ ~IsDuplicate(text)
  <2>1. /\ pos' = key.pos /\ frames' = WithKey(text) /\ tag' = TypeByte
        /\ pc' = "value" /\ UNCHANGED <<buf, entry, start, verdict>>
    BY <1>5 DEF ReadKey, input
  <2>2. pos' \in 0 .. Len(buf)
    BY <1>1, <1>2, <1>5, <2>1 DEF Sound, DecodeErrors
  <2>3. /\ frames # <<>> /\ verdict = "none" /\ text \in Seq(Byte)
        /\ (entry = "validate" => start = 0)
    BY <1>2, <1>5 DEF ReadKey, IInv
  <2>4. ~BodyExhausted
    BY DEF ReadKey
  <2> HIDE DEF text, key
  <2>5. /\ frames' \in Seq(Frame) /\ Len(frames') = Len(frames)
        /\ \A i \in 1 .. Len(frames) : frames'[i].end = frames[i].end
    BY <1>1, <2>1, <2>3, WithKeyFacts
  <2>6. \A i \in 1 .. Len(frames) : frames[i].end <= Len(buf)
    BY DEF IInv
  <2>7. tag' \in Byte
    <3>1. Top = frames[Len(frames)] /\ Len(frames) \in 1 .. Len(frames)
      BY <1>1, <2>3 DEF Top, Last
    <3>2. frames[Len(frames)].end \in Nat
      <4>1. frames[Len(frames)] \in Frame
        BY <1>1, <3>1
      <4> QED BY <4>1 DEF Frame
    <3>3. pos + 1 \in 1 .. Len(buf)
      BY <1>1, <2>4, <2>6, <3>1, <3>2 DEF BodyExhausted
    <3> QED BY <1>1, <2>1, <3>3 DEF TypeByte
  <2>8. TypeOK'
    BY <2>1, <2>2, <2>5, <2>7 DEF IInv, TypeOK, Frame
  <2>9. BoundedDepth' /\ frames' # <<>>
    BY <1>1, <2>3, <2>5 DEF BoundedDepth, IInv
  <2>10. Whole(frames'[1].end)
    <3>1. frames'[1].end = frames[1].end
      BY <1>1, <2>3, <2>5
    <3> QED BY <2>3, <3>1 DEF IInv
  <2>11. \A i \in 1 .. Len(frames') : frames'[i].end <= Len(buf)
    BY <2>5, <2>6
  <2> QED BY <2>1, <2>3, <2>8, <2>9, <2>10, <2>11 DEF IInv, Whole
<1> QED BY <1>3, <1>4, <1>5

LEMMA ScopeIInv ==
    ASSUME IInv, CodeWithScopeValue
    PROVE  IInv'
<1> DEFINE code == ReadString(buf, pos + 4)
<1>1. /\ buf \in Seq(Byte) /\ pos \in 0 .. Len(buf) /\ Len(buf) \in Nat
      /\ pc = "value"
  BY DEF IInv, TypeOK, CodeWithScopeValue
<1>2. CASE ~HasI32(buf, pos) \/ I32At(buf, pos) < 0
  BY <1>1, <1>2, RejectIInv DEF CodeWithScopeValue, DecodeErrors
<1>3. CASE HasI32(buf, pos) /\ ~(I32At(buf, pos) < 0)
  <2>1. Sound(code, buf, pos + 4)
    BY <1>1, StringSound
  <2>2. CASE code.err # "none"
    BY <1>1, <1>3, <2>1, <2>2, RejectIInv DEF CodeWithScopeValue, Sound
  <2>3. CASE code.err = "none"
    <3>1. /\ pos' = code.pos /\ pc' = "enter"
          /\ UNCHANGED <<buf, entry, start, frames, tag, verdict>>
      BY <1>3, <2>3 DEF CodeWithScopeValue, input
    <3>2. pos' \in 0 .. Len(buf)
      BY <1>1, <2>1, <2>3, <3>1 DEF Sound, DecodeErrors
    <3> HIDE DEF code
    <3>3. TypeOK'
      BY <3>1, <3>2 DEF IInv, TypeOK
    <3> QED BY <1>1, <3>1, <3>3 DEF IInv, BoundedDepth, Whole
  <2> QED BY <2>2, <2>3
<1> QED BY <1>2, <1>3

\* A value is skipped over by a sound reader, or is one of the other three.
Read == \E r : Sound(r, buf, pos) /\ Consume(r)

LEMMA ValueCases ==
    ASSUME IInv, Value
    PROVE  Read \/ CodeWithScopeValue \/ DocumentValue \/ UnknownValue
<1>1. /\ buf \in Seq(Byte) /\ pos \in 0 .. Len(buf) /\ pos \in Nat
      /\ Len(buf) \in Nat /\ pc = "value"
  BY DEF IInv, TypeOK, Value, FixedValue, BooleanValue, StringValue, BinaryValue,
         RegexValue, DbPointerValue, CodeWithScopeValue, DocumentValue, UnknownValue
<1>2. CASE FixedValue
  <2>1. Sound(Skip(buf, pos, FixedSize[tag]), buf, pos)
    BY <1>1, <1>2, SkipSound, FixedSizeIsNat DEF FixedValue
  <2> QED BY <1>1, <1>2, <2>1 DEF FixedValue, Read
<1>3. CASE BooleanValue
  BY <1>1, <1>3, BooleanSound DEF BooleanValue, Read
<1>4. CASE StringValue
  BY <1>1, <1>4, StringSound DEF StringValue, Read
<1>5. CASE BinaryValue
  BY <1>1, <1>5, BinarySound DEF BinaryValue, Read
<1>6. CASE RegexValue
  <2> DEFINE pattern == ReadCstring(buf, pos)
             options == ReadCstring(buf, pattern.pos)
             r == IF pattern.err # "none" THEN pattern ELSE options
  <2>1. Sound(r, buf, pos)
    <3>1. Sound(pattern, buf, pos)
      BY <1>1, CstringSound
    <3>2. CASE pattern.err # "none"
      BY <3>1, <3>2
    <3>3. CASE pattern.err = "none"
      <4>1. pattern.pos \in pos .. Len(buf)
        BY <3>1, <3>3 DEF Sound, DecodeErrors
      <4>2. Sound(options, buf, pattern.pos)
        BY <1>1, <4>1, CstringSound
      <4> HIDE DEF options, pattern
      <4> QED BY <1>1, <3>3, <4>1, <4>2 DEF Sound
    <3> QED BY <3>2, <3>3
  <2>2. Consume(r)
    BY <1>6 DEF RegexValue
  <2> HIDE DEF r
  <2> QED BY <2>1, <2>2 DEF Read
<1>7. CASE DbPointerValue
  <2> DEFINE name == ReadString(buf, pos)
             r == IF name.err # "none" THEN name ELSE Skip(buf, name.pos, 12)
  <2>1. Sound(r, buf, pos)
    <3>1. Sound(name, buf, pos)
      BY <1>1, StringSound
    <3>2. CASE name.err # "none"
      BY <3>1, <3>2
    <3>3. CASE name.err = "none"
      <4>1. name.pos \in pos .. Len(buf) /\ name.pos \in 0 .. Len(buf)
        BY <1>1, <3>1, <3>3 DEF Sound, DecodeErrors
      <4>2. Sound(Skip(buf, name.pos, 12), buf, name.pos)
        BY <1>1, <4>1, SkipSound
      <4> HIDE DEF name
      <4> QED BY <1>1, <3>3, <4>1, <4>2 DEF Sound
    <3> QED BY <3>2, <3>3
  <2>2. Consume(r)
    BY <1>7 DEF DbPointerValue
  <2> HIDE DEF r
  <2> QED BY <2>1, <2>2 DEF Read
<1> QED BY <1>2, <1>3, <1>4, <1>5, <1>6, <1>7 DEF Value

LEMMA ValueIInv ==
    ASSUME IInv, Value
    PROVE  IInv'
<1>1. CASE Read
  <2>1. pc = "value"
    BY DEF Value, FixedValue, BooleanValue, StringValue, BinaryValue, RegexValue,
           DbPointerValue, CodeWithScopeValue, DocumentValue, UnknownValue
  <2> QED BY <1>1, <2>1, ConsumeIInv DEF Read
<1>2. CASE CodeWithScopeValue
  BY <1>2, ScopeIInv
<1>3. CASE DocumentValue
  <2>1. TypeOK'
    BY <1>3 DEF DocumentValue, IInv, TypeOK, input
  <2> QED BY <1>3, <2>1 DEF DocumentValue, IInv, input, BoundedDepth, Whole
<1>4. CASE UnknownValue
  BY <1>4, RejectIInv DEF UnknownValue, DecodeErrors
<1> QED BY <1>1, <1>2, <1>3, <1>4, ValueCases

LEMMA AfterIInv ==
    ASSUME IInv, NextElement \/ Finish
    PROVE  IInv'
<1>1. CASE NextElement /\ pos > Top.end
  BY <1>1, RejectIInv DEF NextElement, DecodeErrors
<1>2. CASE NextElement /\ ~(pos > Top.end)
  <2>1. TypeOK'
    BY <1>2 DEF NextElement, IInv, TypeOK, input
  <2> QED BY <1>2, <2>1 DEF NextElement, IInv, input, BoundedDepth, Whole
<1>3. CASE Finish /\ entry = "validate" /\ pos # Len(buf)
  BY <1>3, RejectIInv DEF Finish, DecodeErrors
<1>4. CASE Finish /\ ~(entry = "validate" /\ pos # Len(buf))
  <2>1. Accept
    BY <1>4 DEF Finish
  <2>2. TypeOK'
    BY <2>1 DEF Accept, IInv, TypeOK, input, Verdicts
  <2> QED BY <1>4, <2>1, <2>2 DEF Finish, Accept, IInv, input, BoundedDepth, Whole
<1> QED BY <1>1, <1>2, <1>3, <1>4

\* The invariant is preserved: one step for each action.
LEMMA StepIInv == IInv /\ Step => IInv'
<1> SUFFICES ASSUME IInv, Step PROVE IInv'
  OBVIOUS
<1>1. CASE EnterDocument
  BY <1>1, EnterIInv
<1>2. CASE ElementOverrun
  BY <1>2, RejectIInv DEF ElementOverrun, DecodeErrors
<1>3. CASE EndDocument
  BY <1>3, EndIInv
<1>4. CASE ReadKey
  BY <1>4, KeyIInv
<1>5. CASE Value
  BY <1>5, ValueIInv
<1>6. CASE NextElement \/ Finish
  BY <1>6, AfterIInv
<1> QED BY <1>1, <1>2, <1>3, <1>4, <1>5, <1>6 DEF Step

LEMMA NextIInv == IInv /\ [Next]_vars => IInv'
<1>1. ASSUME IInv, UNCHANGED vars PROVE IInv'
  BY <1>1 DEF vars, IInv, TypeOK, BoundedDepth, Whole
<1> QED BY <1>1, StepIInv DEF Next, Returned

LEMMA AlwaysIInv == Spec => []IInv
<1> QED BY InitIInv, NextIInv, PTL DEF Spec

\* The input of a call stays what it was.
LEMMA StepKeepsInput == Step => UNCHANGED <<buf, entry, start>>
BY DEF Step, EnterDocument, PushDocument, ElementOverrun, EndDocument, ReadKey,
       Value, FixedValue, BooleanValue, StringValue, BinaryValue, RegexValue,
       NextElement, DbPointerValue, CodeWithScopeValue, DocumentValue,
       UnknownValue, Finish, Reject, Consume, Accept, input

-----------------------------------------------------------------------------
(* The results.                                                            *)

(* The state keeps its shape; in particular no reader moves the cursor     *)
(* past the end of the buffer, whatever lengths the input declares.        *)
THEOREM TypeCorrect == Spec => []TypeOK
<1>1. IInv => TypeOK
  BY DEF IInv
<1> QED BY <1>1, AlwaysIInv, PTL

(* The recursion never goes deeper than the limit allows, for any limit.   *)
THEOREM DepthIsBounded == Spec => []BoundedDepth
<1>1. IInv => BoundedDepth
  BY DEF IInv
<1> QED BY <1>1, AlwaysIInv, PTL

(* The unchecked read of the type byte is inside the buffer (no panic).    *)
THEOREM NoIndexOutOfBounds == Spec => []IndexesInBounds
<1>1. IInv => IndexesInBounds
  <2> SUFFICES ASSUME IInv, pc = "element", ~BodyExhausted PROVE pos < Len(buf)
    BY DEF IndexesInBounds
  <2>1. frames \in Seq(Frame) /\ frames # <<>> /\ pos \in Nat /\ Len(buf) \in Nat
    BY DEF IInv, TypeOK, Frame
  <2>2. Top = frames[Len(frames)] /\ Len(frames) \in 1 .. Len(frames)
    BY <2>1 DEF Top, Last
  <2>3. frames[Len(frames)] \in Frame /\ frames[Len(frames)].end <= Len(buf)
    BY <2>1, <2>2 DEF IInv
  <2>4. frames[Len(frames)].end \in Nat
    BY <2>3 DEF Frame
  <2> QED BY <2>1, <2>2, <2>3, <2>4 DEF BodyExhausted
<1> QED BY <1>1, AlwaysIInv, PTL

(* An accepted document is exactly as long as its prefix says, and what    *)
(* `validate` accepts is the whole buffer.                                 *)
THEOREM AcceptedDocumentsAreFramed == Spec => []AcceptedIsFramed
<1>1. IInv => AcceptedIsFramed
  <2> SUFFICES ASSUME IInv, verdict = "ok" PROVE AcceptedIsFramed
    BY DEF AcceptedIsFramed
  <2>1. Whole(pos) /\ pos \in 0 .. Len(buf) /\ start \in Nat /\ buf \in Seq(Byte)
        /\ (entry = "validate" => start = 0 /\ pos = Len(buf))
    BY DEF IInv, TypeOK
  <2>2. I32At(buf, start) \in Int
    BY <2>1, I32IsInt DEF Whole
  <2>3. start + 5 <= pos /\ pos <= Len(buf)
    BY <2>1, <2>2 DEF Whole
  <2> QED BY <2>1, <2>3 DEF Whole, AcceptedIsFramed
<1> QED BY <1>1, AlwaysIInv, PTL
-----------------------------------------------------------------------------
(* Once a document reaches beyond the one around it, the walk is doomed:   *)
(* the frames below the top do not change, the popped frame leaves the     *)
(* cursor past its parent's end, and nothing but a rejection follows that. *)

Doomed ==
    \/ Overreach
    \/ pc = "after" /\ frames # <<>> /\ pos > Top.end
    \/ pc = "done" /\ verdict # "ok"

LEMMA RejectDoomed ==
    ASSUME NEW kind \in DecodeErrors, Reject(kind)
    PROVE  Doomed'
BY DEF Reject, Doomed, DecodeErrors

LEMMA OverreachStays ==
    ASSUME frames \in Seq(Frame), Overreach, frames' \in Seq(Frame),
           Len(frames') >= Len(frames),
           \A i \in 1 .. Len(frames) : frames'[i].end = frames[i].end
    PROVE  Overreach'
<1>1. PICK i \in 1 .. Len(frames) - 1 : frames[i + 1].end > frames[i].end
  BY DEF Overreach
<1>2. Len(frames) \in Nat /\ Len(frames') \in Nat
  OBVIOUS
<1>3. i \in 1 .. Len(frames) /\ i + 1 \in 1 .. Len(frames) /\ i \in 1 .. Len(frames') - 1
  BY <1>2
<1>4. frames'[i + 1].end > frames'[i].end
  BY <1>1, <1>3
<1> QED BY <1>3, <1>4 DEF Overreach

LEMMA UnchangedDoomed ==
    ASSUME Overreach, frames' = frames
    PROVE  Overreach'
BY DEF Overreach

LEMMA ValueDoomed ==
    ASSUME IInv, Overreach, Value
    PROVE  Doomed'
<1>1. frames' = frames
  BY DEF Value, FixedValue, BooleanValue, StringValue, BinaryValue, RegexValue,
         DbPointerValue, CodeWithScopeValue, DocumentValue, UnknownValue, Consume, Reject
<1> QED BY <1>1, UnchangedDoomed DEF Doomed

LEMMA EnterDoomed ==
    ASSUME IInv, Overreach, EnterDocument
    PROVE  Doomed'
<1>1. CASE frames' = frames
  BY <1>1, UnchangedDoomed DEF Doomed
<1>2. CASE PushDocument
  <2> DEFINE f == [start |-> pos, end |-> pos + I32At(buf, pos), seen |-> {}]
  <2>1. frames' = Append(frames, f)
    BY <1>2 DEF PushDocument
  <2>2. frames \in Seq(Frame) /\ frames' \in Seq(Frame)
    BY EnterIInv DEF IInv, TypeOK, Frame
  <2> HIDE DEF f
  <2>3. Len(frames') = Len(frames) + 1 /\ \A i \in 1 .. Len(frames) : frames'[i] = frames[i]
    BY <2>1, <2>2
  <2> QED BY <2>2, <2>3, OverreachStays DEF Doomed
<1> QED BY <1>1, <1>2 DEF EnterDocument, Reject

LEMMA KeyDoomed ==
    ASSUME IInv, Overreach, ReadKey
    PROVE  Doomed'
<1> DEFINE text == CstringText(buf, pos + 1)
<1>1. CASE frames' = frames
  BY <1>1, UnchangedDoomed DEF Doomed
<1>2. CASE frames' = WithKey(text) /\ ReadCstring(buf, pos + 1).err = "none"
  <2>1. frames \in Seq(Frame) /\ frames' \in Seq(Frame) /\ frames # <<>>
    BY KeyIInv DEF IInv, TypeOK, Frame, ReadKey
  <2>2. text \in Seq(Byte)
    BY <1>2, CstringSound DEF IInv, TypeOK
  <2> HIDE DEF text
  <2>3. Len(frames') = Len(frames)
        /\ \A i \in 1 .. Len(frames) : frames'[i].end = frames[i].end
    BY <1>2, <2>1, <2>2, WithKeyFacts
  <2> QED BY <2>1, <2>3, OverreachStays DEF Doomed
<1> QED BY <1>1, <1>2 DEF ReadKey, Reject

LEMMA EndDoomed ==
    ASSUME IInv, Overreach, EndDocument
    PROVE  Doomed'
<1>1. CASE pos + 1 # Top.end
  BY <1>1, RejectDoomed DEF EndDocument, DecodeErrors
<1>2. CASE pos + 1 = Top.end
  <2>1. /\ frames' = Front(frames) /\ pos' = pos + 1 /\ pc' = "after"
    BY <1>2 DEF EndDocument, Pop
  <2>2. frames \in Seq(Frame) /\ frames # <<>> /\ frames' \in Seq(Frame)
    BY EndIInv DEF IInv, TypeOK, Frame, EndDocument
  <2>3. /\ Len(frames') = Len(frames) - 1 /\ Len(frames) \in Nat \ {0}
        /\ \A i \in 1 .. Len(frames) - 1 : frames'[i] = frames[i]
        /\ Top = frames[Len(frames)]
    BY <2>1, <2>2, FrontFacts DEF Top
  <2>4. PICK i \in 1 .. Len(frames) - 1 : frames[i + 1].end > frames[i].end
    BY DEF Overreach
  <2>5. CASE i + 1 < Len(frames)
    <3>1. frames'[i] = frames[i] /\ frames'[i + 1] = frames[i + 1]
          /\ i \in 1 .. Len(frames') - 1
      BY <2>3, <2>5
    <3> QED BY <2>4, <3>1 DEF Doomed, Overreach
  <2>6. CASE i + 1 = Len(frames)
    <3>1. frames'[Len(frames')] = frames[i] /\ frames' # <<>>
      BY <2>2, <2>3, <2>6
    <3>2. Top' = frames[i]
      BY <3>1 DEF Top, Last
    <3>3. pos' > frames[i].end
      BY <1>2, <2>1, <2>3, <2>4, <2>6
    <3> QED BY <2>1, <3>1, <3>2, <3>3 DEF Doomed
  <2> QED BY <2>3, <2>5, <2>6
<1> QED BY <1>1, <1>2

LEMMA StepDoomed == IInv /\ Doomed /\ [Next]_vars => Doomed'
<1> SUFFICES ASSUME IInv, Doomed, [Next]_vars PROVE Doomed'
  OBVIOUS
<1>1. CASE UNCHANGED vars
  BY <1>1 DEF vars, Doomed, Overreach, Top
<1>2. CASE Step /\ Overreach
  <2>1. CASE EnterDocument
    BY <1>2, <2>1, EnterDoomed
  <2>2. CASE ElementOverrun
    BY <2>2, RejectDoomed DEF ElementOverrun, DecodeErrors
  <2>3. CASE EndDocument
    BY <1>2, <2>3, EndDoomed
  <2>4. CASE ReadKey
    BY <1>2, <2>4, KeyDoomed
  <2>5. CASE Value
    BY <1>2, <2>5, ValueDoomed
  <2>6. CASE NextElement
    <3>1. frames' = frames
      BY <2>6 DEF NextElement, Reject
    <3> QED BY <1>2, <3>1, UnchangedDoomed DEF Doomed
  <2>7. CASE Finish
    BY <1>2, <2>7 DEF Finish, Overreach
  <2> QED BY <1>2, <2>1, <2>2, <2>3, <2>4, <2>5, <2>6, <2>7 DEF Step
<1>3. CASE Step /\ pc = "after" /\ frames # <<>> /\ pos > Top.end
  <2>1. NextElement
    BY <1>3 DEF Step, EnterDocument, ElementOverrun, EndDocument, ReadKey, Value,
                FixedValue, BooleanValue, StringValue, BinaryValue, RegexValue,
                DbPointerValue, CodeWithScopeValue, DocumentValue, UnknownValue, Finish
  <2>2. Reject("length-mismatch")
    BY <1>3, <2>1 DEF NextElement
  <2> QED BY <2>2, RejectDoomed DEF DecodeErrors
<1>4. CASE Step /\ pc = "done"
  BY <1>4 DEF Step, EnterDocument, ElementOverrun, EndDocument, ReadKey, Value,
              FixedValue, BooleanValue, StringValue, BinaryValue, RegexValue, NextElement,
              DbPointerValue, CodeWithScopeValue, DocumentValue, UnknownValue, Finish
<1> QED BY <1>1, <1>2, <1>3, <1>4 DEF Next, Returned, Doomed

(* A document with a child that claims bytes beyond its own end is never   *)
(* accepted, at any depth, although no check compares the two ends.        *)
THEOREM OverreachIsAlwaysFatal == Spec => OverreachIsFatal
<1>1. Overreach => Doomed
  BY DEF Doomed
<1>2. IInv /\ Doomed => verdict # "ok"
  BY DEF IInv, Doomed, Overreach
<1> QED BY <1>1, <1>2, StepDoomed, AlwaysIInv, PTL DEF Spec, OverreachIsFatal
-----------------------------------------------------------------------------
(* Every step makes Remaining smaller.                                     *)

LEMMA RankValues ==
    /\ Rank["value"] = 3 /\ Rank["enter"] = 2 /\ Rank["after"] = 2
    /\ Rank["element"] = 1 /\ Rank["done"] = 0
BY DEF Rank

LEMMA RejectProgress ==
    ASSUME IInv, pc # "done", NEW kind, Reject(kind)
    PROVE  Remaining' < Remaining
<1>1. pos \in Nat /\ Len(buf) \in Nat /\ buf' = buf /\ pos' = pos /\ pc' = "done"
  BY DEF IInv, TypeOK, Reject, input
<1>2. Rank[pc] \in {1, 2, 3}
  BY RankValues DEF IInv, TypeOK
<1> QED BY <1>1, <1>2, RankValues DEF Remaining

LEMMA ConsumeProgress ==
    ASSUME IInv, pc = "value", NEW r, Sound(r, buf, pos), Consume(r)
    PROVE  Remaining' < Remaining
<1>1. CASE r.err # "none"
  BY <1>1, RejectProgress DEF Consume
<1>2. CASE r.err = "none"
  <2>1. /\ pos \in Nat /\ Len(buf) \in Nat /\ buf' = buf /\ pc' = "after"
        /\ pos' \in Nat /\ pos' >= pos
    BY <1>2 DEF IInv, TypeOK, Consume, Sound, input, DecodeErrors
  <2> QED BY <2>1, RankValues DEF Remaining
<1> QED BY <1>1, <1>2

LEMMA Weigh ==
    ASSUME NEW n \in Nat, NEW p \in Nat, NEW q \in Nat, NEW r \in Int, NEW s \in Int,
           (p <= q /\ s < r) \/ (p < q /\ s < r + 3)
    PROVE  3 * (n - q) + s < 3 * (n - p) + r
OBVIOUS

\* The cursor moved on, by enough to make up for the rank.
LEMMA MoveProgress ==
    ASSUME IInv, buf' = buf, pos' \in Nat, Rank[pc] \in Int, Rank[pc'] \in Int,
           \/ pos <= pos' /\ Rank[pc'] < Rank[pc]
           \/ pos < pos' /\ Rank[pc'] < Rank[pc] + 3
    PROVE  Remaining' < Remaining
<1>1. pos \in Nat /\ Len(buf) \in Nat
  BY DEF IInv, TypeOK
<1>2. 3 * (Len(buf) - pos') + Rank[pc'] < 3 * (Len(buf) - pos) + Rank[pc]
  BY <1>1, Weigh
<1> QED BY <1>2 DEF Remaining

LEMMA StepProgress == IInv /\ IInv' /\ Step => Remaining' < Remaining
<1> SUFFICES ASSUME IInv, IInv', Step PROVE Remaining' < Remaining
  OBVIOUS
<1>1. pos \in Nat /\ pos' \in Nat /\ buf \in Seq(Byte)
  BY DEF IInv, TypeOK
<1>2. CASE \E kind : Reject(kind)
  BY <1>2, RejectProgress DEF Step, EnterDocument, ElementOverrun, EndDocument, ReadKey,
     Value, FixedValue, BooleanValue, StringValue, BinaryValue, RegexValue, NextElement,
     DbPointerValue, CodeWithScopeValue, DocumentValue, UnknownValue, Finish
<1>3. CASE EnterDocument /\ PushDocument
  <2>1. pos' = pos + 4 /\ pc' = "element" /\ pc = "enter" /\ buf' = buf
    BY <1>3 DEF EnterDocument, PushDocument, input
  <2> QED BY <1>1, <2>1, MoveProgress, RankValues
<1>4. CASE EndDocument /\ pos + 1 = Top.end
  BY <1>1, <1>4, MoveProgress, RankValues DEF EndDocument, input
<1>5. CASE ReadKey /\ pos' = ReadCstring(buf, pos + 1).pos /\ pc' = "value"
                  /\ ReadCstring(buf, pos + 1).err = "none"
  <2>1. pos' > pos + 1
    BY <1>1, <1>5, CstringSound
  <2>2. pc = "element" /\ pc' = "value" /\ buf' = buf
    BY <1>5 DEF ReadKey, Reject, input
  <2>3. pos < pos'
    BY <1>1, <2>1
  <2> QED BY <1>1, <2>2, <2>3, MoveProgress, RankValues
<1>6. CASE Read /\ Value
  <2>1. pc = "value"
    BY <1>6 DEF Value, FixedValue, BooleanValue, StringValue, BinaryValue, RegexValue,
           DbPointerValue, CodeWithScopeValue, DocumentValue, UnknownValue
  <2> QED BY <1>6, <2>1, ConsumeProgress DEF Read
<1>7. CASE CodeWithScopeValue /\ pc' = "enter"
  <2> DEFINE code == ReadString(buf, pos + 4)
  <2>1. pos' = code.pos /\ code.err = "none" /\ pc = "value" /\ buf' = buf
    BY <1>7 DEF CodeWithScopeValue, Reject, input
  <2>2. Sound(code, buf, pos + 4)
    BY <1>1, StringSound
  <2>3. pos' >= pos
    BY <1>1, <2>1, <2>2 DEF Sound, DecodeErrors
  <2>4. pc = "value" /\ pc' = "enter" /\ buf' = buf
    BY <1>7, <2>1
  <2> HIDE DEF code
  <2> QED BY <1>1, <2>3, <2>4, MoveProgress, RankValues
<1>8. CASE DocumentValue
  BY <1>1, <1>8, MoveProgress, RankValues DEF DocumentValue, input
<1>9. CASE NextElement /\ pc' = "element"
  <2>1. pos' = pos /\ pc = "after" /\ buf' = buf
    BY <1>9 DEF NextElement, Reject, input
  <2> QED BY <1>1, <1>9, <2>1, MoveProgress, RankValues
<1>10. CASE Finish /\ Accept
  BY <1>1, <1>10, MoveProgress, RankValues DEF Finish, Accept, input
<1>11. CASE EnterDocument
  BY <1>2, <1>3, <1>11 DEF EnterDocument
<1>12. CASE ElementOverrun \/ EndDocument
  BY <1>2, <1>4, <1>12 DEF ElementOverrun, EndDocument
<1>13. CASE ReadKey
  BY <1>2, <1>5, <1>13 DEF ReadKey
<1>14. CASE Value
  <2>1. CASE Read
    BY <1>6, <1>14, <2>1
  <2>2. CASE CodeWithScopeValue
    BY <1>2, <1>7, <2>2 DEF CodeWithScopeValue
  <2>3. CASE UnknownValue
    BY <1>2, <2>3 DEF UnknownValue
  <2> QED BY <1>8, <1>14, <2>1, <2>2, <2>3, ValueCases
<1>15. CASE NextElement \/ Finish
  BY <1>2, <1>9, <1>10, <1>15 DEF NextElement, Finish
<1> QED BY <1>11, <1>12, <1>13, <1>14, <1>15 DEF Step

(* The walk ends within 3 * Len(buf) + 3 steps: every step lowers a number *)
(* that starts at most there and is never negative.                        *)
THEOREM StepsAreProgress == Spec => Progress
<1>1. IInv /\ IInv' /\ [Next]_vars => [Remaining' < Remaining]_vars
  BY StepProgress DEF Next, Returned
<1> QED BY <1>1, AlwaysIInv, PTL DEF Spec, Progress

THEOREM RemainingIsBounded == Spec => [](Remaining \in 0 .. 3 * Len(buf) + 3)
<1>1. IInv => Remaining \in 0 .. 3 * Len(buf) + 3
  <2> SUFFICES ASSUME IInv PROVE Remaining \in 0 .. 3 * Len(buf) + 3
    OBVIOUS
  <2> DEFINE m == Rank[pc]
  <2>1. pos \in 0 .. Len(buf) /\ Len(buf) \in Nat /\ m \in 0 .. 3
    BY RankValues DEF IInv, TypeOK
  <2>2. Remaining = 3 * (Len(buf) - pos) + m
    BY DEF Remaining
  <2> HIDE DEF m
  <2> QED BY <2>1, <2>2
<1> QED BY <1>1, AlwaysIInv, PTL
-----------------------------------------------------------------------------
(* Parts of a byte string.                                                 *)

\* s is the part of b that begins at offset f.
IsPart(s, b, f) ==
    /\ s \in Seq(Byte) /\ b \in Seq(Byte) /\ f \in Nat
    /\ f + Len(s) <= Len(b)
    /\ \A i \in 1 .. Len(s) : s[i] = b[f + i]

LEMMA CutIsPart ==
    ASSUME NEW b \in Seq(Byte), NEW f \in Nat, NEW t \in Nat, f <= t, t <= Len(b)
    PROVE  /\ IsPart(SubSeq(b, f + 1, t), b, f)
           /\ Len(SubSeq(b, f + 1, t)) = t - f
<1> DEFINE s == SubSeq(b, f + 1, t)
<1>1. Len(s) = t - f
  OBVIOUS
<1>2. \A i \in 1 .. Len(s) : s[i] = b[f + i]
  BY <1>1
<1>3. s \in Seq(Byte)
  <2>1. \A i \in f + 1 .. t : b[i] \in Byte
    OBVIOUS
  <2> QED BY <2>1, SubSeqProperties
<1> QED BY <1>1, <1>2, <1>3 DEF IsPart

\* Positions i to j of the part are positions k to l of the whole.
SamePlace(s, b, f, i, j, k, l) ==
    /\ IsPart(s, b, f)
    /\ i \in Nat \ {0} /\ j \in Nat /\ j <= Len(s)
    /\ k = f + i /\ l = f + j

Slice(s, i, j) == SubSeq(s, i, j)

LEMMA PartSlice ==
    ASSUME NEW s, NEW b, NEW f, NEW i, NEW j, NEW k, NEW l, SamePlace(s, b, f, i, j, k, l)
    PROVE  Slice(s, i, j) = Slice(b, k, l)
<1> USE DEF SamePlace
<1>1. s \in Seq(Byte) /\ b \in Seq(Byte) /\ f \in Nat /\ f + Len(s) <= Len(b)
      /\ Len(s) \in Nat /\ Len(b) \in Nat /\ k \in Nat /\ l \in Nat /\ k > 0
  BY DEF IsPart
<1>2. Len(SubSeq(s, i, j)) = Len(SubSeq(b, k, l))
  BY <1>1
<1>3. ASSUME NEW m \in 1 .. Len(SubSeq(s, i, j))
      PROVE  SubSeq(s, i, j)[m] = SubSeq(b, k, l)[m]
  <2>1. SubSeq(s, i, j)[m] = s[i + m - 1] /\ SubSeq(b, k, l)[m] = b[f + i + m - 1]
    <3>1. /\ i \in Nat /\ j \in Nat /\ k \in Nat /\ l \in Nat /\ m \in Nat
          /\ l = f + j /\ k = f + i
      BY <1>1
    <3>2. SubSeq(s, i, j)[m] = s[i + m - 1]
      BY <1>1, SMTT(30)
    <3>3. m \in 1 .. Len(SubSeq(b, k, l))
      BY <1>2
    <3>4. SubSeq(b, k, l)[m] = b[k + m - 1]
      BY <3>1, <3>3, SMTT(30)
    <3>5. k + m - 1 = f + i + m - 1
      BY <3>1
    <3> QED BY <3>2, <3>4, <3>5
  <2>2. i + m - 1 \in 1 .. Len(s) /\ f + (i + m - 1) = f + i + m - 1
    BY <1>1
  <2>3. s[i + m - 1] = b[f + (i + m - 1)]
    BY <2>2 DEF IsPart
  <2> QED BY <2>1, <2>2, <2>3
<1>4. SubSeq(s, i, j) \in Seq(Byte) /\ SubSeq(b, k, l) \in Seq(Byte)
  <2>1. /\ \A m \in i .. j : s[m] \in Byte
        /\ \A m \in k .. l : b[m] \in Byte
    BY <1>1
  <2> QED BY <1>1, <2>1, SubSeqProperties
<1>5. SubSeq(s, i, j) = SubSeq(b, k, l)
  BY <1>2, <1>3, <1>4, SeqEqual
<1> QED BY <1>5 DEF Slice

LEMMA PartI32 ==
    ASSUME NEW s, NEW b, NEW f, IsPart(s, b, f), NEW p \in Nat, p + 4 <= Len(s)
    PROVE  /\ HasI32(s, p) /\ HasI32(b, p + f)
           /\ I32At(b, p + f) = I32At(s, p)
           /\ I32At(s, p) \in Int
<1>1. s \in Seq(Byte) /\ b \in Seq(Byte) /\ f \in Nat /\ f + Len(s) <= Len(b)
      /\ Len(s) \in Nat /\ Len(b) \in Nat
  BY DEF IsPart
<1>2. HasI32(s, p) /\ HasI32(b, p + f)
  BY <1>1 DEF HasI32
<1>3. \A k \in 1 .. 4 : b[p + f + k] = s[p + k]
  BY <1>1 DEF IsPart
<1>4. /\ b[p + f + 1] = s[p + 1] /\ b[p + f + 2] = s[p + 2]
      /\ b[p + f + 3] = s[p + 3] /\ b[p + f + 4] = s[p + 4]
  BY <1>3
<1> QED BY <1>1, <1>2, <1>4, I32IsInt DEF I32At

LEMMA FirstNulUnique ==
    ASSUME NEW s \in Seq(Byte), NEW p \in Nat, NEW q \in FirstNul(s, p)
    PROVE  (CHOOSE x \in FirstNul(s, p) : TRUE) = q
<1>1. \A x \in FirstNul(s, p) : x = q
  <2> TAKE x \in FirstNul(s, p)
  <2>1. x \in Int /\ q \in Int /\ ~(x < q) /\ ~(q < x)
    BY DEF FirstNul
  <2> QED BY <2>1
<1> QED BY <1>1

-----------------------------------------------------------------------------
(* The values that are read in one step, by a reader of any byte string.   *)

BooleanIn(s, p) ==
    IF Skip(s, p, 1).err # "none" THEN Err("truncated")
    ELSE IF s[p + 1] \notin {0, 1} THEN Err("invalid-type")
    ELSE Ok(p + 1)

BinaryIn(s, p) ==
    IF ~HasI32(s, p) THEN Err("truncated")
    ELSE IF I32At(s, p) < 0 THEN Err("bad-subtype")
    ELSE IF Skip(s, p + 4, 1).err # "none" THEN Err("truncated")
    ELSE Skip(s, p + 5, I32At(s, p))

RegexIn(s, p) ==
    LET pattern == ReadCstring(s, p) IN
    IF pattern.err # "none" THEN pattern ELSE ReadCstring(s, pattern.pos)

DbPointerIn(s, p) ==
    LET name == ReadString(s, p) IN
    IF name.err # "none" THEN name ELSE Skip(s, name.pos, 12)

ReadTags == DOMAIN FixedSize \cup StringTags \cup {5, 8, 11, 12}

Reading(s, t, p) ==
    CASE t \in DOMAIN FixedSize -> Skip(s, p, FixedSize[t])
      [] t \in StringTags       -> ReadString(s, p)
      [] t = 5                  -> BinaryIn(s, p)
      [] t = 8                  -> BooleanIn(s, p)
      [] t = 11                 -> RegexIn(s, p)
      [] t = 12                 -> DbPointerIn(s, p)

LEMMA Tags ==
    /\ DOMAIN FixedSize = {1, 6, 7, 9, 10, 16, 17, 18, 19, 127, 255}
    /\ StringTags = {2, 13, 14} /\ DocumentTags = {3, 4}
    /\ KnownTags = ReadTags \cup {3, 4, 15}
BY DEF FixedSize, StringTags, DocumentTags, KnownTags, ReadTags

LEMMA Readings ==
    ASSUME NEW s, NEW p
    PROVE  /\ \A t \in DOMAIN FixedSize : Reading(s, t, p) = Skip(s, p, FixedSize[t])
           /\ \A t \in StringTags : Reading(s, t, p) = ReadString(s, p)
           /\ Reading(s, 5, p) = BinaryIn(s, p)
           /\ Reading(s, 8, p) = BooleanIn(s, p)
           /\ Reading(s, 11, p) = RegexIn(s, p)
           /\ Reading(s, 12, p) = DbPointerIn(s, p)
<1>1. \A t \in DOMAIN FixedSize : t \notin StringTags /\ t \notin {5, 8, 11, 12}
  BY Tags
<1>2. \A t \in StringTags : t \notin {5, 8, 11, 12} /\ t \notin DOMAIN FixedSize
  BY Tags
<1>3. \A t \in {5, 8, 11, 12} : t \notin StringTags /\ t \notin DOMAIN FixedSize
  BY Tags
<1>4. \A t \in DOMAIN FixedSize : Reading(s, t, p) = Skip(s, p, FixedSize[t])
  BY <1>1 DEF Reading
<1>5. \A t \in StringTags : Reading(s, t, p) = ReadString(s, p)
  BY <1>2 DEF Reading
<1>6. Reading(s, 5, p) = BinaryIn(s, p)
  BY <1>3 DEF Reading
<1>7. Reading(s, 8, p) = BooleanIn(s, p)
  BY <1>3 DEF Reading
<1>8. Reading(s, 11, p) = RegexIn(s, p)
  BY <1>3 DEF Reading
<1>9. Reading(s, 12, p) = DbPointerIn(s, p)
  BY <1>3 DEF Reading
<1> QED BY <1>4, <1>5, <1>6, <1>7, <1>8, <1>9

\* A value of these types is what its reader makes of it.
LEMMA ReadsValue ==
    ASSUME Value, tag \in ReadTags
    PROVE  pc = "value" /\ Consume(Reading(buf, tag, pos))
<1>1. CASE FixedValue
  BY <1>1, Readings DEF FixedValue
<1>2. CASE BooleanValue
  BY <1>2, Readings DEF BooleanValue, ReadBoolean, BooleanIn
<1>3. CASE StringValue
  BY <1>3, Readings DEF StringValue
<1>4. CASE BinaryValue
  BY <1>4, Readings DEF BinaryValue, ReadBinary, BinaryIn
<1>5. CASE RegexValue
  BY <1>5, Readings DEF RegexValue, RegexIn
<1>6. CASE DbPointerValue
  BY <1>6, Readings DEF DbPointerValue, DbPointerIn
<1>7. ~(CodeWithScopeValue \/ DocumentValue \/ UnknownValue)
  BY Tags DEF CodeWithScopeValue, DocumentValue, UnknownValue, ReadTags
<1> QED BY <1>1, <1>2, <1>3, <1>4, <1>5, <1>6, <1>7 DEF Value

\* A reader called inside the buffer stops inside it, or it fails with an
\* error of its own: only an entry point speaks of trailing bytes.
LEMMA ReadingSound ==
    ASSUME NEW s \in Seq(Byte), NEW p \in 0 .. Len(s), NEW t \in ReadTags
    PROVE  Sound(Reading(s, t, p), s, p)
<1>1. p \in Nat /\ Len(s) \in Nat /\ p <= Len(s)
  OBVIOUS
<1>2. CASE t \in DOMAIN FixedSize
  BY <1>2, Readings, FixedSizeIsNat, SkipSound
<1>3. CASE t \in StringTags
  BY <1>1, <1>3, Readings, StringSound
<1>4. CASE t = 5
  <2> DEFINE n == I32At(s, p)
  <2>1. Sound(BinaryIn(s, p), s, p)
    <3>1. CASE ~HasI32(s, p)
      BY <3>1 DEF Sound, BinaryIn, Err, DecodeErrors
    <3>2. CASE HasI32(s, p)
      <4>1. n \in Int
        BY <1>1, <3>2, I32IsInt
      <4>2. BinaryIn(s, p) = IF n < 0 THEN Err("bad-subtype")
                             ELSE IF Skip(s, p + 4, 1).err # "none" THEN Err("truncated")
                             ELSE Skip(s, p + 5, n)
        BY <3>2 DEF BinaryIn
      <4> HIDE DEF n
      <4> QED BY <1>1, <3>2, <4>1, <4>2 DEF Sound, Skip, HasI32, Ok, Err, DecodeErrors
    <3> QED BY <3>1, <3>2
  <2> QED BY <1>4, <2>1, Readings
<1>5. CASE t = 8
  BY <1>1, <1>5, Readings DEF Sound, BooleanIn, Skip, Err, Ok, DecodeErrors
<1>6. CASE t = 11
  <2> DEFINE pattern == ReadCstring(s, p)
             options == ReadCstring(s, pattern.pos)
  <2>1. Sound(pattern, s, p)
    BY <1>1, CstringSound
  <2>2. CASE pattern.err # "none"
    BY <1>6, <2>1, <2>2, Readings DEF RegexIn, Sound
  <2>3. CASE pattern.err = "none"
    <3>1. pattern.pos \in p .. Len(s)
      BY <2>1, <2>3 DEF Sound, DecodeErrors
    <3>2. Sound(options, s, pattern.pos)
      BY <1>1, <3>1, CstringSound
    <3>3. Reading(s, t, p) = options
      BY <1>6, <2>3, Readings DEF RegexIn
    <3> HIDE DEF options, pattern
    <3> QED BY <1>1, <3>1, <3>2, <3>3 DEF Sound
  <2> QED BY <2>2, <2>3
<1>7. CASE t = 12
  <2> DEFINE name == ReadString(s, p)
             rest == Skip(s, name.pos, 12)
  <2>1. Sound(name, s, p)
    BY <1>1, StringSound
  <2>2. CASE name.err # "none"
    BY <1>7, <2>1, <2>2, Readings DEF DbPointerIn, Sound
  <2>3. CASE name.err = "none"
    <3>1. name.pos \in p .. Len(s)
      BY <2>1, <2>3 DEF Sound, DecodeErrors
    <3>2. Sound(rest, s, name.pos)
      BY <1>1, <3>1, SkipSound
    <3>3. Reading(s, t, p) = rest
      BY <1>7, <2>3, Readings DEF DbPointerIn
    <3> HIDE DEF rest, name
    <3> QED BY <1>1, <3>1, <3>2, <3>3 DEF Sound
  <2> QED BY <2>2, <2>3
<1> QED BY <1>2, <1>3, <1>4, <1>5, <1>6, <1>7 DEF ReadTags

LEMMA ReadingResult ==
    ASSUME NEW s, NEW p, NEW t \in ReadTags
    PROVE  /\ Reading(s, t, p).err \notin {"ok", "trailing-bytes"}
           /\ Reading(s, t, p).err = "none" => Reading(s, t, p) = Ok(Reading(s, t, p).pos)
<1> DEFINE Plain(r) == /\ r.err \notin {"ok", "trailing-bytes"}
                       /\ r.err = "none" => r = Ok(r.pos)
<1>1. \A x, n : Plain(Skip(s, x, n))
  BY DEF Skip, Ok, Err
<1>2. \A x : Plain(ReadCstring(s, x))
  BY DEF ReadCstring, Ok, Err
<1>3. \A x : Plain(ReadString(s, x))
  BY DEF ReadString, StringBody, Ok, Err
<1>4. Plain(BooleanIn(s, p))
  BY DEF BooleanIn, Ok, Err
<1>5. Plain(BinaryIn(s, p))
  BY <1>1 DEF BinaryIn, Err
<1>6. Plain(RegexIn(s, p))
  BY <1>2 DEF RegexIn
<1>7. Plain(DbPointerIn(s, p))
  BY <1>1, <1>3 DEF DbPointerIn
<1> HIDE DEF Plain
<1>8. Plain(Reading(s, t, p))
  BY <1>1, <1>3, <1>4, <1>5, <1>6, <1>7, Readings DEF ReadTags
<1> QED BY <1>8 DEF Plain
=============================================================================
