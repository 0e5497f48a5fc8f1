------------------------------- MODULE Encode -------------------------------
(***************************************************************************)
(* A cell of a SQL column becomes a BSON value: bson-worker/src/value_in.rs.*)
(*                                                                         *)
(* Cells and values are trees.  A tree is a function from addresses to     *)
(* nodes: the address of a part is the sequence of the numbers of the      *)
(* parts that lead to it, and <<>> that of the whole.  A node lists its    *)
(* `fields`, each of which has a key and the number of a part.             *)
(*                                                                         *)
(* A node of a cell has a SQL type and may be NULL.  A STRUCT or MAP has   *)
(* fields whose keys are cells, the keys of a STRUCT being VARCHAR; the    *)
(* keys of a LIST say nothing; any other cell has an integer `n` with a    *)
(* `scale`, or is named by its `text`.                                     *)
(*                                                                         *)
(* A node of a BSON value is a variant of the crate's Bson.  Document and  *)
(* Array have fields, and the keys of an Array say nothing; any other has  *)
(* an integer `n` (of a Binary, its number of bytes), the subtype `sub` of *)
(* a Binary, and a `text`, which is what its to_string() gives, or a name  *)
(* of its contents.                                                        *)
(***************************************************************************)
EXTENDS Numbers, Sequences, SequencesExt

CONSTANT MaxDigits  \* the significant digits of a Decimal128

ASSUME DigitsAssumption == MaxDigits \in Nat \ {0}

None    == <<>>
Some(x) == <<x>>

Leaf(type, sub, n, text) ==
    [type |-> type, sub |-> sub, n |-> n, text |-> text, fields |-> <<>>]
Text(type, text)    == Leaf(type, 0, 0, text)
Number(type, n)     == Leaf(type, 0, n, ToString(n))
Inner(type, fields) == [type |-> type, sub |-> 0, n |-> 0, text |-> "", fields |-> fields]

Parts(node) == {node.fields[i].part : i \in DOMAIN node.fields}

\* Every node has the parts that its fields name and no others.
IsTree(v) ==
    /\ <<>> \in DOMAIN v
    /\ \A a \in DOMAIN v :
           /\ a \in Seq(Nat)
           /\ \A i \in DOMAIN a : /\ SubSeq(a, 1, i - 1) \in DOMAIN v
                                 /\ a[i] \in Parts(v[SubSeq(a, 1, i - 1)])
           /\ \A p \in Parts(v[a]) : Append(a, p) \in DOMAIN v

BsonTypes == {"Double", "String", "Document", "Array", "Boolean", "Null", "RegularExpression",
              "JavaScriptCode", "JavaScriptCodeWithScope", "Int32", "Int64", "Timestamp",
              "Binary", "ObjectId", "DateTime", "Symbol", "Decimal128", "Undefined", "MaxKey",
              "MinKey", "DbPointer"}

\* The SQL types of instants, with their units, and those of integers, floats,
\* truth values and texts, with their variants.
Units == [TIMESTAMP_S |-> "s", TIMESTAMP_MS |-> "ms", TIMESTAMP |-> "us", TIMESTAMP_NS |-> "ns"]

Variant == [BOOLEAN |-> "Boolean", TINYINT |-> "Int32", SMALLINT |-> "Int32",
            INTEGER |-> "Int32", UTINYINT |-> "Int32", USMALLINT |-> "Int32",
            BIGINT |-> "Int64", UINTEGER |-> "Int64", FLOAT |-> "Double",
            DOUBLE |-> "Double", VARCHAR |-> "String"]

IsFieldList(fields) ==
    /\ Len(fields) \in Nat /\ DOMAIN fields = 1 .. Len(fields)
    /\ \A i \in DOMAIN fields : fields[i].part \in Nat

HasParts(c) == ~c.null /\ c.sql \in {"STRUCT", "MAP", "LIST"}

\* What the columns of Arrow hold.
IsContent(c) ==
    /\ c.sql \in {"BOOLEAN", "VARCHAR", "BLOB", "UUID"} => "text" \in DOMAIN c
    /\ c.sql \in DOMAIN Variant \ {"BOOLEAN", "VARCHAR"} => "text" \notin DOMAIN c
    /\ c.sql = "UBIGINT" => c.n \in UInt64
    /\ c.sql \in DOMAIN Units => c.n \in Int64

IsCell(cell) ==
    /\ IsTree(cell)
    /\ \A a \in DOMAIN cell :
           LET c == cell[a] IN
           /\ c.null \in BOOLEAN /\ IsFieldList(c.fields)
           /\ HasParts(c) \/ c.fields = <<>>
           /\ HasParts(c) \/ c.null \/ IsContent(c)

IsValue(v) ==
    IsTree(v) /\ \A a \in DOMAIN v : /\ v[a].type \in BsonTypes
                                     /\ v[a].fields \in Seq([key : STRING, part : Nat])

-----------------------------------------------------------------------------
\* Document::insert: a key that is there gets the new value, in its place.
Insert(fields, f) ==
    IF \E i \in DOMAIN fields : fields[i].key = f.key
    THEN [i \in DOMAIN fields |-> IF fields[i].key = f.key THEN f ELSE fields[i]]
    ELSE Append(fields, f)

\* The loops that insert one field after the other.
Filled(fields) ==
    LET filled[n \in 0 .. Len(fields)] ==
            IF n = 0 THEN <<>> ELSE Insert(filled[n - 1], fields[n])
    IN  filled[Len(fields)]

\* A value whose documents are filled so: what was overwritten is gone.
Settled(v) ==
    LET nodes == [a \in DOMAIN v |->
                     IF v[a].type = "Document" THEN Inner("Document", Filled(v[a].fields))
                     ELSE v[a]]
    IN  [a \in {b \in DOMAIN v : \A i \in DOMAIN b : b[i] \in Parts(nodes[SubSeq(b, 1, i - 1)])}
            |-> nodes[a]]

-----------------------------------------------------------------------------
Magnitude(n) == IF n < 0 THEN -n ELSE n
Zeros(k) == SubSeq("000000000000", 1, k)

\* A bug: no zeros between the point and the digits.
FormatUnpadded(raw, scale) ==
    LET digits == ToString(Magnitude(raw))
        point  == Len(digits) - scale
    IN  [negative |-> raw < 0,
         whole    |-> IF scale <= 0 THEN digits \o Zeros(-scale)
                      ELSE IF point <= 0 THEN "0" ELSE SubSeq(digits, 1, point),
         fraction |-> IF scale <= 0 THEN ""
                      ELSE IF point <= 0 THEN digits
                      ELSE SubSeq(digits, point + 1, Len(digits))]

\* The text of a decimal, before and after its point.
FormatDecimal(raw, scale) ==
    LET digits == ToString(Magnitude(raw))
        point  == Len(digits) - scale
    IN  [negative |-> raw < 0,
         whole    |-> IF scale <= 0 THEN digits \o Zeros(-scale)
                      ELSE IF point <= 0 THEN "0" ELSE SubSeq(digits, 1, point),
         fraction |-> IF scale <= 0 THEN ""
                      ELSE IF point <= 0 THEN Zeros(-point) \o digits
                      ELSE SubSeq(digits, point + 1, Len(digits))]

\* The digits from the first that is not 0; of zeros the last.
Significant(digits) ==
    LET first == CHOOSE i \in 1 .. Len(digits) :
                     /\ SubSeq(digits, 1, i - 1) = Zeros(i - 1)
                     /\ (SubSeq(digits, i, i) # "0" \/ i = Len(digits))
    IN  SubSeq(digits, first, Len(digits))

\* Decimal128::from_str: digits that it has no room for must be zeros, which
\* go into the exponent.
ParseDecimal(text) ==
    LET digits == Significant(text.whole \o text.fraction)
        kept   == IF Len(digits) <= MaxDigits THEN Len(digits) ELSE MaxDigits
        over   == Len(digits) - kept
    IN  IF SubSeq(digits, kept + 1, Len(digits)) # Zeros(over) THEN None
        ELSE Some([negative |-> text.negative, digits |-> SubSeq(digits, 1, kept),
                   exponent |-> over - Len(text.fraction)])

\* Its to_string(): with an exponent if it is positive, or the number small.
DecimalToString(d) ==
    LET point    == Len(d.digits) + d.exponent
        first    == SubSeq(d.digits, 1, 1)
        others   == SubSeq(d.digits, 2, Len(d.digits))
        adjusted == point - 1
    IN  (IF d.negative THEN "-" ELSE "") \o
        IF d.exponent > 0 \/ adjusted < -6
        THEN first \o (IF others = "" THEN "" ELSE "." \o others)
             \o (IF adjusted < 0 THEN "E" ELSE "E+") \o ToString(adjusted)
        ELSE IF d.exponent = 0 THEN d.digits
        ELSE IF point <= 0 THEN "0." \o Zeros(-point) \o d.digits
        ELSE SubSeq(d.digits, 1, point) \o "." \o SubSeq(d.digits, point + 1, Len(d.digits))

\* A decimal that does not fit becomes a double, which has fewer digits still.
Decimal128FromScaled(raw, scale) ==
    LET parsed == ParseDecimal(FormatDecimal(raw, scale))
    IN  IF parsed = None THEN Text("Double", "rounded")
        ELSE Text("Decimal128", DecimalToString(parsed[1]))

-----------------------------------------------------------------------------
\* A cell with no parts: None for a type that encode does not know.
ScalarAt(c) ==
    CASE c.sql \in DOMAIN Variant ->
            Some(IF c.sql \in {"BOOLEAN", "VARCHAR"} THEN Text(Variant[c.sql], c.text)
                 ELSE Number(Variant[c.sql], c.n))
      [] c.sql = "UBIGINT" -> Some(Number(IntFromU64(c.n).type, IntFromU64(c.n).n))
      [] c.sql = "DECIMAL" -> Some(Decimal128FromScaled(c.n, c.scale))
      [] c.sql = "BLOB"    -> Some(Leaf("Binary", 0, c.n, c.text))
      [] c.sql = "UUID"    -> Some(Leaf("Binary", 4, 16, c.text))
      [] c.sql \in DOMAIN Units ->
            Some(Number("DateTime", TimestampMillis(Units[c.sql], c.n)))
      [] OTHER -> None

\* The key of an entry: a string as it is, another value as its to_string().
MapKey(c) == ScalarAt(c)[1].text

\* A cell with parts, as it is before equal keys are put together.
FieldsOf(c) == [i \in DOMAIN c.fields |->
                   [key |-> MapKey(c.fields[i].key), part |-> c.fields[i].part]]

\* A bug: a NULL is left out.
DocumentOfPresent(cell, a) ==
    Inner("Document", SelectSeq(FieldsOf(cell[a]), LAMBDA f : ~cell[Append(a, f.part)].null))

\* A bug: of entries with one key the first is kept.
DocumentOfFirst(cell, a) ==
    Inner("Document",
          FoldLeft(LAMBDA fields, f : IF \E i \in DOMAIN fields : fields[i].key = f.key
                                      THEN fields ELSE Append(fields, f),
                   <<>>, FieldsOf(cell[a])))

\* The loops over the fields of a STRUCT and the entries of a MAP.
DocumentOf(cell, a) == Inner("Document", FieldsOf(cell[a]))

ArrayOf(c) == Inner("Array", [i \in DOMAIN c.fields |-> [key |-> "", part |-> c.fields[i].part]])

NodeAt(cell, a) ==
    IF cell[a].null THEN Text("Null", "")
    ELSE IF cell[a].sql \in {"STRUCT", "MAP"} THEN DocumentOf(cell, a)
    ELSE IF cell[a].sql = "LIST" THEN ArrayOf(cell[a])
    ELSE ScalarAt(cell[a])[1]

\* The types and the types of keys that encode has a value for.
IsKnown(c) ==
    \/ c.null \/ c.sql = "LIST"
    \/ c.sql \in {"STRUCT", "MAP"} /\ \A i \in DOMAIN c.fields : ScalarAt(c.fields[i].key) # None
    \/ c.sql \notin {"STRUCT", "MAP"} /\ ScalarAt(c) # None

\* value_at: `?` makes one part that encode does not know an error of the
\* whole.  A NULL is known, and has no parts.
ValueAt(cell) ==
    IF \E a \in DOMAIN cell : ~IsKnown(cell[a]) THEN None
    ELSE Some(Settled([a \in DOMAIN cell |-> NodeAt(cell, a)]))
=============================================================================
