---------------------------- MODULE BsonSamples ----------------------------
(***************************************************************************)
(* Byte strings to run the models on: real BSON documents put together     *)
(* from their elements, and what damage makes of them.                     *)
(***************************************************************************)
EXTENDS BsonBytes, SequencesExt

Le32(n) == <<n % 256, (n \div 256) % 256, 0, 0>>

Zeros(n) == [i \in 1 .. n |-> 0]

Element(tag, key, value) == <<tag>> \o key \o <<0>> \o value

Document(elements) ==
    LET body == FlattenSeq(elements) IN
    Le32(Len(body) + 5) \o body \o <<0>>

Text(s) == Le32(Len(s) + 1) \o s \o <<0>>

a == 97
b == 98

-----------------------------------------------------------------------------
EmptyDoc    == Document(<< >>)
NullDoc     == Document(<<Element(10, <<a>>, <<>>)>>)
BoolDoc     == Document(<<Element(8, <<a>>, <<1>>)>>)
TwoKeys     == Document(<<Element(10, <<a>>, <<>>), Element(8, <<b>>, <<0>>)>>)
SameKeys    == Document(<<Element(10, <<a>>, <<>>), Element(6, <<a>>, <<>>)>>)
Int32Doc    == Document(<<Element(16, <<a>>, <<1, 0, 0, 0>>)>>)
StringDoc   == Document(<<Element(2, <<a>>, Text(<<195, 169>>))>>)
BadTextDoc  == Document(<<Element(14, <<a>>, Text(<<195, 40>>))>>)
BinaryDoc   == Document(<<Element(5, <<a>>, Le32(2) \o <<4, 9, 0>>)>>)
RegexDoc    == Document(<<Element(11, <<>>, <<a, 0, b, 0>>)>>)
PointerDoc  == Document(<<Element(12, <<a>>, Text(<<b>>) \o Zeros(12))>>)

CodeWithScope(total, scope) ==
    Element(15, <<a>>, Le32(total) \o Text(<<b>>) \o scope)
CodeDoc     == Document(<<CodeWithScope(15, EmptyDoc)>>)
LyingCode   == Document(<<CodeWithScope(99, EmptyDoc)>>)

FixedTags == {<<1, 8>>, <<6, 0>>, <<7, 12>>, <<9, 8>>, <<10, 0>>, <<16, 4>>,
              <<17, 8>>, <<18, 8>>, <<19, 16>>, <<127, 0>>, <<255, 0>>}
FixedDocs == {Document(<<Element(t[1], <<a>>, Zeros(t[2]))>>) : t \in FixedTags}

Inside(tag, inner) == Document(<<Element(tag, <<a>>, inner)>>)
Nested[n \in Nat] == IF n = 0 THEN EmptyDoc
                     ELSE IF n % 2 = 1 THEN Inside(3, Nested[n - 1])
                     ELSE Inside(4, Nested[n - 1])
ScopeInside == Document(<<CodeWithScope(0, Nested[1])>>)
\* The same key in a document and in the one around it is no duplicate.
InnerKey    == Inside(3, NullDoc)
Sibling     == Document(<<Element(3, <<a>>, EmptyDoc), Element(10, <<b>>, <<>>)>>)
\* A child that declares one byte more than its parent leaves it.
Overreaching ==
    <<14, 0, 0, 0, 3, a, 0, 8, 0, 0, 0, 10, a, 0, 0>>

SmallDocs == {EmptyDoc, NullDoc, BoolDoc, TwoKeys, SameKeys, Int32Doc, StringDoc,
              BadTextDoc, BinaryDoc, RegexDoc, InnerKey, Sibling, Overreaching}
ComplexDocs == {PointerDoc, CodeDoc, LyingCode, ScopeInside}
NestedDocs  == {Nested[n] : n \in 1 .. 4}

-----------------------------------------------------------------------------
Truncations(d) == {SubSeq(d, 1, n) : n \in 0 .. Len(d)}

\* d with one byte replaced.
Damaged(d, bytes) == {[d EXCEPT ![i] = x] : i \in DOMAIN d, x \in bytes}

\* A small length prefix, right or wrong, before every body over an alphabet.
Prefixed(lengths, bytes, n) ==
    {Le32(l) \o s : l \in lengths, s \in UNION {[1 .. k -> bytes] : k \in 0 .. n}}
=============================================================================
