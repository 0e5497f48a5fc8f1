----------------------------- MODULE BsonBytes -----------------------------
(***************************************************************************)
(* The bounds-checked readers of crates/bson-core/src/validate.rs.         *)
(*                                                                         *)
(* A buffer is a sequence of bytes; an offset p counts from 0 as in the    *)
(* code, so the byte buf[p] of the code is s[p + 1].  A reader returns     *)
(* what its Rust counterpart does: Ok with the advanced position, or Err   *)
(* with the `kind` label of a DecodeError.                                 *)
(***************************************************************************)
EXTENDS Integers, Sequences

Byte == 0 .. 255

\* DecodeError, by its kind() labels.
DecodeErrors == {"truncated", "length-mismatch", "trailing-bytes",
                 "invalid-type", "bad-cstring", "bad-utf8", "duplicate-key",
                 "nesting-limit", "bad-decimal128", "bad-subtype"}

Ok(p)  == [err |-> "none", pos |-> p]
Err(e) == [err |-> e, pos |-> 0]
Results == [err : DecodeErrors \cup {"none"}, pos : Nat]

-----------------------------------------------------------------------------
(* The little-endian, two's complement i32 at offset p.                    *)
I32At(s, p) ==
    LET top == s[p + 4] IN
    s[p + 1] + 256 * s[p + 2] + 65536 * s[p + 3]
        + 16777216 * (IF top < 128 THEN top ELSE top - 256)

HasI32(s, p) == p + 4 <= Len(s)

(* std::str::from_utf8: every lead byte is followed by its continuation    *)
(* bytes, every continuation byte belongs to a lead byte, and neither an   *)
(* overlong form, a surrogate nor a code point past U+10FFFF occurs.       *)
Continuation == 128 .. 191

Utf8Width(b) ==
    CASE b < 128          -> 1
      [] b \in 194 .. 223 -> 2
      [] b \in 224 .. 239 -> 3
      [] b \in 240 .. 244 -> 4
      [] OTHER            -> 0

SecondByte(b) ==
    CASE b = 224 -> 160 .. 191
      [] b = 237 -> 128 .. 159
      [] b = 240 -> 144 .. 191
      [] b = 244 -> 128 .. 143
      [] OTHER   -> Continuation

Utf8(s) ==
    \A i \in 1 .. Len(s) :
        LET w == Utf8Width(s[i]) IN
        \/ s[i] \in Continuation
           /\ \E j \in 1 .. i - 1 : Utf8Width(s[j]) > i - j
        \/ /\ w > 0
           /\ i + w - 1 <= Len(s)
           /\ \A k \in i + 1 .. i + w - 1 : s[k] \in Continuation
           /\ w > 1 => s[i + 1] \in SecondByte(s[i])

(* `rest.iter().position(|&b| b == 0)`: the first NUL at or after p, as a   *)
(* set with no element when the rest of the BUFFER holds none: the scan    *)
(* does not stop at the end of the enclosing document.                     *)
FirstNul(s, p) ==
    {q \in p .. Len(s) - 1 : s[q + 1] = 0 /\ \A r \in p .. q - 1 : s[r + 1] # 0}

-----------------------------------------------------------------------------
\* skip: n bytes, compared without forming p + n, which the code checks for
\* overflow.
Skip(s, p, n) == IF n > Len(s) - p THEN Err("truncated") ELSE Ok(p + n)

\* read_cstring and read_cstring_str: the text up to the first NUL.
CstringText(s, p) == SubSeq(s, p + 1, CHOOSE q \in FirstNul(s, p) : TRUE)

ReadCstring(s, p) ==
    IF p > Len(s) THEN Err("truncated")
    ELSE IF FirstNul(s, p) = {} THEN Err("bad-cstring")
    ELSE IF ~Utf8(CstringText(s, p)) THEN Err("bad-utf8")
    ELSE Ok(1 + CHOOSE q \in FirstNul(s, p) : TRUE)

\* The bytes of a string whose n bytes, the NUL included, begin at p.
StringBody(s, p, n) ==
    IF n > Len(s) - p THEN Err("truncated")
    ELSE IF s[p + n] # 0 THEN Err("bad-cstring")
    ELSE IF ~Utf8(SubSeq(s, p + 1, p + n - 1)) THEN Err("bad-utf8")
    ELSE Ok(p + n)

ReadString(s, p) ==
    IF ~HasI32(s, p) THEN Err("truncated")
    ELSE IF I32At(s, p) < 1 THEN Err("length-mismatch")
    ELSE StringBody(s, p + 4, I32At(s, p))
=============================================================================
