------------------------------ MODULE MCLookup ------------------------------
(***************************************************************************)
(* Paths through small documents and through what is encoded of SQL values.*)
(***************************************************************************)
EXTENDS Paths

F(key, value) == [key |-> key, value |-> value]

\* A tree, from its root and from the trees of its parts.
Tree(root, parts) ==
    [a \in {<<>>} \cup UNION {{<<i>> \o b : b \in DOMAIN parts[i]} : i \in DOMAIN parts} |->
        IF a = <<>> THEN root ELSE parts[Head(a)][Tail(a)]]

Alone(node) == Tree(node, <<>>)
V(key, node) == F(key, Alone(node))

Values(fields)   == [i \in DOMAIN fields |-> fields[i].value]
Numbered(fields) == [i \in DOMAIN fields |-> [key |-> fields[i].key, part |-> i]]
Under(key, parts) == [i \in DOMAIN parts |-> [key |-> key, part |-> i]]

Document(fields) == Tree(Inner("Document", Numbered(fields)), Values(fields))
Array(items)     == Tree(Inner("Array", Under("", items)), items)

\* Leaves of every type, many with the same text.
Leaves ==
    {Text(type, "5") : type \in {"String", "Decimal128", "Symbol", "JavaScriptCode",
                                 "JavaScriptCodeWithScope", "RegularExpression", "DbPointer"}}
    \cup {Number(type, 5) : type \in {"Int32", "Int64", "Double"}}
    \cup {Text("String", "true"), Text("Boolean", "true"), Text("String", "null"),
          Text("String", "54ab"), Text("ObjectId", "54ab")}
    \cup {Text(type, "") : type \in {"Null", "Undefined", "MinKey", "MaxKey"}}
    \cup {Number("DateTime", n) : n \in {-1, 0, 1000}}
    \cup {Leaf("Timestamp", 0, 7, i) : i \in {"1", "2"}}
    \cup {Leaf("Binary", sub, 16, "b0") : sub \in {0, 3, 4, 11, 12, 128, 129}}
    \cup {Leaf("Binary", 4, 2, "b1")}

One == Alone(Number("Int32", 1))
Scope == Text("JavaScriptCodeWithScope", "5")

\* n + 1 documents, each the only field of the one before.
Chain(n) ==
    [a \in {[i \in 1 .. k |-> 1] : k \in 0 .. n} |->
        Inner("Document", IF Len(a) = n THEN <<>> ELSE <<[key |-> "a", part |-> 1]>>)]

\* Keys with a dot and with no letter, equal keys, keys like indexes; nested
\* to the limit and beyond, also by a scope; no document.
Trees ==
    {Document(<<F("a", Document(<<F("b", One)>>)), V("a.b", Text("Boolean", "true")),
                V("", Text("String", "")), F("0", Array(<<One>>))>>),
     Document(<<F("a", One), F("b", Array(<<>>)), F("a", Array(<<One, Document(<<F("0", One)>>)>>))>>),
     Document(<<F("a", Document(<<F("b", One), F("b", Array(<<One, One>>))>>))>>),
     Chain(2), Chain(3), Document(<<F("a", Document(<<V("b", Scope)>>))>>),
     Document(<<F("a", Document(<<F("b", Document(<<V("0", Scope)>>))>>))>>), Alone(Text("String", "damaged"))}

\* str::parse::<usize>: zeros and a plus may stand in front.
SmallIndexes == [s \in {"0", "00", "+0"} |-> 0] @@ [s \in {"1", "01", "+1"} |-> 1]
                @@ [s \in {"2"} |-> 2]

Segments == {"a", "b", "c", "", "0", "00", "1", "+1", "2"}
PathsTo(n) == UNION {[1 .. k -> Segments] : k \in 1 .. n}

Ask(from, values, paths, modes) ==
    [from : {from}, value : values, path : paths, mode : modes]

Modes == {"", "objectid", "decimal", "uuid", "timestamp", "datetime", "blob", "json"}

-----------------------------------------------------------------------------
Cell(sql)       == [sql |-> sql, null |-> TRUE, fields |-> <<>>]
Num(sql, n)     == [sql |-> sql, null |-> FALSE, n |-> n, fields |-> <<>>]
Dec(raw, scale) == [sql |-> "DECIMAL", null |-> FALSE, n |-> raw, scale |-> scale, fields |-> <<>>]
Named(sql, x)   == [sql |-> sql, null |-> FALSE, n |-> 3, text |-> x, fields |-> <<>>]

Nested(sql, fields) == [sql |-> sql, null |-> FALSE, fields |-> fields]
Map(entries)   == Tree(Nested("MAP", Numbered(entries)), Values(entries))
List(items)    == Tree(Nested("LIST", Under(Cell("VARCHAR"), items)), items)
Struct(fields) ==
    Tree(Nested("STRUCT", Numbered([i \in DOMAIN fields |->
                                       F(Named("VARCHAR", fields[i].key), 0)])), Values(fields))

U64Samples == <<0, Int32Max, Int32Max + 1, Int64Max, Int64Max + 1,
                Int64Max + Spacing \div 2, Int64Max + 2 + Spacing \div 2, 2 * Int64Max + 1>>
InstantSamples == <<-Int64Max - 1, -1000001, -1001, -1000, -999, -1, 0, 1, 999, 1000, 1500,
                    2000000, Int64Max>>

Sorted == {[i \in DOMAIN U64Samples |-> Num("UBIGINT", U64Samples[i])]}
          \cup {[i \in DOMAIN InstantSamples |-> Num(u, InstantSamples[i])] : u \in DOMAIN Units}

Scalars ==
    UNION {ToSet(s) : s \in Sorted}
    \cup {Dec(raw, scale) : raw \in {-12345, -5, 0, 7, 10, 99, 100, 1234, 1230000},
                            scale \in {-2} \cup 0 .. 9}
    \cup {Num(sql, 5) : sql \in {"TINYINT", "SMALLINT", "INTEGER", "UTINYINT", "USMALLINT",
                                 "BIGINT", "UINTEGER", "FLOAT", "DOUBLE"}}
    \cup {Named(sql, "x") : sql \in {"BOOLEAN", "VARCHAR", "BLOB", "UUID", "INTERVAL"}}
    \cup {Cell("INTERVAL"), Cell("STRUCT"), Cell("LIST")}

\* n + 1 structs, each the only field of the one before.
Nest(n) ==
    [a \in {[i \in 1 .. k |-> 1] : k \in 0 .. n} |->
        Nested("STRUCT", IF Len(a) = n THEN <<>>
                         ELSE <<[key |-> Named("VARCHAR", "a"), part |-> 1]>>)]

\* Keys that are no strings; equal keys after rounding; unknown types in a
\* part; what is no document.
Composites ==
    {Struct(<<F("a", List(<<Alone(Num("BIGINT", 1)), Alone(Cell("BIGINT"))>>)),
              V("b", Cell("INTERVAL")),
              F("c", Map(<<V(Num("INTEGER", 0), Named("VARCHAR", "x")),
                           V(Num("INTEGER", 1), Cell("VARCHAR"))>>))>>),
     Map(<<V(Named("VARCHAR", "a"), Num("BIGINT", 1)), V(Named("VARCHAR", "a.b"), Num("BIGINT", 2))>>),
     Map(<<V(Num("TIMESTAMP", 1000), Num("BIGINT", 1)), V(Num("TIMESTAMP", 2000), Num("BIGINT", 2)),
           V(Num("TIMESTAMP", 1500), Num("BIGINT", 3))>>),
     Map(<<V(Dec(15, 1), Num("BIGINT", 1)), V(Dec(20, 1), Num("BIGINT", 2))>>),
     Map(<<F(Dec(15, 1), Nest(3)), V(Dec(15, 1), Num("BIGINT", 1))>>),
     Map(<<F(Named("VARCHAR", "a"), Nest(2)), V(Named("VARCHAR", "a"), Num("BIGINT", 1)),
           V(Named("VARCHAR", "b"), Num("BIGINT", 2))>>),
     Map(<<V(Named("VARCHAR", "a"), Num("BIGINT", 1)), F(Named("VARCHAR", "a"), Nest(1)),
           V(Named("VARCHAR", "b"), Num("BIGINT", 2))>>),
     Map(<<V(Named("VARCHAR", "b"), Num("BIGINT", 1)), F(Named("VARCHAR", "a"), Nest(2))>>),
     Map(<<V(Named("INTERVAL", "x"), Num("BIGINT", 1))>>),
     Struct(<<F("a", Struct(<<V("b", Named("INTERVAL", "x"))>>))>>),
     Nest(2), Nest(3), List(<<Alone(Num("BIGINT", 1))>>), Alone(Num("BIGINT", 1)),
     Alone(Cell("STRUCT"))}

SmallQueries ==
    Ask("blob", {Document(<<V("v", leaf)>>) : leaf \in Leaves}, {<<>>, <<"v">>}, Modes)
    \cup Ask("blob", Trees, PathsTo(3), {"", "json"})
    \cup Ask("cell", {Struct(<<V("v", c)>>) : c \in Scalars}, {<<"v">>}, {""})
    \cup Ask("cell", {Struct(<<F("v", List([i \in DOMAIN s |-> Alone(s[i])]))>>) : s \in Sorted}, {<<"v">>, <<"v", "1">>}, {""})
    \cup Ask("cell", Composites, PathsTo(3), {""})

-----------------------------------------------------------------------------
\* What two modes leave out for types whose name does not tell it either.
Blurred == \/ query.mode = "timestamp" /\ answers["type_of"] = <<"timestamp">>
           \/ query.mode = "blob" /\ answers["type_of"] \in
                                         {<<"binData:userDefined">>, <<"binData:reserved">>}

(* The text of a leaf and its type name tell the leaf: values of two types *)
(* may have the same text, but not of one, also where a mode is asked for  *)
(* that is made for another type.  Only `timestamp` leaves the increment   *)
(* out, and `blob` subtypes that have no name (field.rs:81-147;            *)
(* typeinfo.rs:10-54).                                                     *)
TextAndTypeTellTheLeaf ==
    pc = "done" /\ answers["field"] # None /\ tree[cur] \in Leaves /\ ~Blurred =>
        \A v \in Leaves :
            /\ TypeName(v) = answers["type_of"][1]
            /\ Coerce(Alone(v), query.mode) = answers["field"][1]
            => v = tree[cur]

-----------------------------------------------------------------------------
\* The rows of the view bson_types: type_name and type_byte.
Registry ==
    [double |-> 1, string |-> 2, object |-> 3, array |-> 4, binData |-> 5, undefined |-> 6,
     objectId |-> 7, bool |-> 8, date |-> 9, null |-> 10, regex |-> 11, dbPointer |-> 12,
     code |-> 13, symbol |-> 14, codeWithScope |-> 15, int |-> 16, timestamp |-> 17,
     long |-> 18, decimal128 |-> 19, minKey |-> 255, maxKey |-> 127]

(* lib.rs:70: the type_name of a row is "The BSON type name as reported by *)
(* `type_of`".  So type_of reports only names of rows; of a Binary also    *)
(* its subtype.                                                            *)
NamesAreRegistered ==
    answers["type_of"] # None =>
        \/ answers["type_of"][1] \in DOMAIN Registry
        \/ \E s \in 0 .. 128 : answers["type_of"][1] = "binData:" \o SubtypeName(s)
=============================================================================
