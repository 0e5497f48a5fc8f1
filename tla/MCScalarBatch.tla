--------------------------- MODULE MCScalarBatch ---------------------------
(***************************************************************************)
(* The scalar functions on columns of up to three cells, against what      *)
(* their descriptions say of one cell.                                     *)
(***************************************************************************)
EXTENDS ScalarAnswers

Blank == [id |-> 0, null |-> FALSE, verdict |-> "truncated", decodes |-> FALSE,
          keys |-> <<>>, json |-> FALSE, oid |-> {}, secs |-> 0, t |-> None, i |-> None, odd |-> FALSE]
NullCell == [Blank EXCEPT !.null = TRUE]
Doc(n, keys) == [Blank EXCEPT !.id = n, !.verdict = "ok", !.decodes = TRUE, !.keys = keys]

BlobCells ==
    {NullCell, Doc(1, <<>>), Doc(2, <<"a", "json">>), [Blank EXCEPT !.id = 3],
     \* equal keys; a document that only the decoder refuses; an ObjectId
     [Doc(4, <<"b">>) EXCEPT !.verdict = "duplicate-key"],
     [Doc(5, <<>>) EXCEPT !.decodes = FALSE],
     [Blank EXCEPT !.id = 6, !.oid = {"raw"}, !.secs = U32Max, !.verdict = "length-mismatch"]}
TextCells ==
    {NullCell, [Blank EXCEPT !.id = 1, !.json = TRUE], [Blank EXCEPT !.id = 2, !.oid = {"hex"}, !.secs = U32Max \div 2 + 1],
     \* twelve characters that are no hex digits
     [Blank EXCEPT !.id = 3, !.oid = {"raw"}]}

Of(sql, n) == Some([type |-> sql, n |-> n])

\* Fields at both ends of a u32 and beyond, of each type, and NULL.
StructCells ==
    {NullCell,
     [Blank EXCEPT !.id = 1, !.t = Of("UINTEGER", U32Max), !.i = Of("UBIGINT", 2 * U32Max)],
     [Blank EXCEPT !.id = 2, !.t = Of("INTEGER", -1), !.i = Of("BIGINT", U32Max + 1)],
     [Blank EXCEPT !.id = 3, !.i = Of("BIGINT", 0)],
     [Blank EXCEPT !.id = 4, !.t = Of("SMALLINT", 3), !.i = Of("BIGINT", -U32Max - 2), !.odd = TRUE]}
NumberCells == {NullCell, [Blank EXCEPT !.id = 1]}

AllCells == [blob |-> BlobCells, text |-> TextCells, struct |-> StructCells,
             number |-> NumberCells]

Plain(fn) == [fn |-> fn, args |-> <<>>]
With(fn, args) == [fn |-> fn, args |-> args]
AllCalls ==
    {Plain(fn) : fn \in Functions}
    \cup {With("to_json", <<m>>) : m \in {None, <<"canonical">>, <<"relaxed">>, <<"nonsense">>}}
    \cup {With("decode", <<m>>) : m \in {<<"struct">>, <<"nonsense">>}}
    \cup {With("field", <<p>>) : p \in {None, <<"a">>, <<"b">>}}
    \cup {With("field", <<p, m>>) : p \in {<<"a">>, <<"json">>},
                                   m \in {None, <<"json">>, <<"nonsense">>}}
    \cup {With("type_of", <<p>>) : p \in {None, <<"a">>, <<"b">>}}
    \cup {With("encode", <<None>>)}
=============================================================================
