------------------------------- MODULE MCSplit -------------------------------
(***************************************************************************)
(* The splitter, called by bson_seq, against the reference grammar, on     *)
(* small streams.                                                          *)
(***************************************************************************)
EXTENDS SplitGrammar, BsonSamples

(* seq.rs:6: "Splitting stops cleanly at the first malformed length prefix *)
(* ... partial trailing bytes are ignored".  So where it stops before the  *)
(* end, the length prefix is malformed.                                    *)
StopsAtMalformedPrefix ==
    phase = "returned" /\ Cursor < Len(buf) => ~Cut!Framed(buf, Cursor)

-----------------------------------------------------------------------------
\* A document whose prefix is right and whose only element is of no known type.
UnknownType == Document(<<Element(99, <<a>>, <<>>)>>)

Parts == {EmptyDoc, NullDoc, SameKeys, StringDoc, Nested[2], Nested[3], Overreaching,
          UnknownType, BadTextDoc, ScopeInside}
Tails == {<<>>, <<0>>, <<5, 0, 0>>, <<4, 0, 0, 0, 0>>, <<255, 255, 255, 127, 0>>}

MixedStreams ==
    {FlattenSeq(ds) \o tail : ds \in UNION {[1 .. n -> Parts] : n \in 0 .. 3}, tail \in Tails}
    \cup UNION {Damaged(NullDoc \o SameKeys \o EmptyDoc, {x}) : x \in 0 .. 12}
OnlyValidateOne == {"validate_one"}
=============================================================================
