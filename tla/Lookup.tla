------------------------------- MODULE Lookup -------------------------------
(***************************************************************************)
(* keys, type_of and field are asked about one document, which the column  *)
(* holds or which `encode` makes of a SQL value: value.rs, typeinfo.rs and *)
(* field.rs of bson-core.                                                  *)
(*                                                                         *)
(* A document in bytes is a tree like the one it is decoded to, but that   *)
(* keys may be equal in it.  A reference to a part of it is the address of *)
(* the part.  A path is the sequence of its segments, the parts of its     *)
(* text between dots; no path (None in type_of) is <<>>.                   *)
(***************************************************************************)
EXTENDS Encode

CONSTANTS Queries,    \* each a cell or a stored document, with a path and a mode
          MaxNesting, \* MAX_NESTING
          IndexOf     \* str::parse::<usize>, of the segments that are indexes

ASSUME NestingAssumption == MaxNesting \in Nat

ASSUME IndexAssumption == IndexOf \in [DOMAIN IndexOf -> Nat]

ASSUME QueriesAssumption ==
    \A q \in Queries :
        /\ q.from \in {"blob", "cell"} /\ q.path \in Seq(STRING)
        /\ IF q.from = "blob" THEN IsValue(q.value) ELSE IsCell(q.value)

VARIABLES query,    \* what is asked
          doc,      \* the bytes, None for NULL
          pc,       \* "encode", "decode", "walk", "done" or "failed"
          asked,    \* the function that is running
          tree,     \* the document it has decoded
          cur,      \* the reference to where the walk is in it
          rest,     \* the segments before it
          answers   \* of each function, None for NULL

vars == <<query, doc, pc, asked, tree, cur, rest, answers>>

Questions == <<"keys", "type_of", "field">>

NoFields == [a \in {<<>>} |-> Inner("Document", <<>>)]

Init ==
    /\ query \in Queries
    /\ doc = IF query.from = "blob" THEN Some(query.value) ELSE None
    /\ pc = IF query.from = "blob" THEN "decode" ELSE "encode"
    /\ asked = 1 /\ tree = NoFields /\ cur = <<>> /\ rest = <<>>
    /\ answers = [q \in {"keys", "type_of", "field"} |-> None]

\* encode_document: NULL for NULL, and an error for what is no document.
EncodeDocument ==
    /\ pc = "encode"
    /\ LET v == ValueAt(query.value) IN
       IF query.value[<<>>].null THEN doc' = None /\ pc' = "decode"
       ELSE IF v = None \/ v[1][<<>>].type # "Document" THEN pc' = "failed" /\ UNCHANGED doc
       ELSE doc' = v /\ pc' = "decode"
    /\ UNCHANGED <<query, asked, tree, cur, rest, answers>>

-----------------------------------------------------------------------------
\* What is a level of its own: also a scope, whose contents are but a name
\* here.
Nesting == {"Document", "Array", "JavaScriptCodeWithScope"}

\* The levels below the first.
IsNested(v, depth) == \A a \in DOMAIN v : v[a].type \in Nesting => Len(a) <= depth

\* A bug: the nesting is not looked at.
PrecheckShallow(v) == v[<<>>].type = "Document"

\* precheck: a document, and not nested too deep.
Precheck(v) == v[<<>>].type = "Document" /\ IsNested(v, MaxNesting)

\* Document::from_reader puts in one field after the other.
Decoded(v) == Settled(v)

Answer(option) ==
    /\ answers' = [answers EXCEPT ![Questions[asked]] = option]
    /\ asked' = asked + 1
    /\ pc' = IF asked = 3 \/ (asked = 2 /\ query.path = <<>>) THEN "done" ELSE "decode"
    /\ rest' = <<>>
    /\ UNCHANGED <<query, doc, tree, cur>>

\* decode_document, or NULL for a NULL.
DecodeDocument ==
    /\ pc = "decode"
    /\ IF doc = None THEN Answer(None)
       ELSE IF ~Precheck(doc[1]) THEN Answer(None)
       ELSE /\ tree' = Decoded(doc[1]) /\ cur' = <<>> /\ rest' = query.path /\ pc' = "walk"
            /\ UNCHANGED <<query, doc, asked, answers>>

Asked(question) == pc = "walk" /\ Questions[asked] = question

KeysOf(v) == [i \in DOMAIN v[<<>>].fields |-> v[<<>>].fields[i].key]

\* A bug: the names are taken from the bytes.
KeysAsStored ==
    Asked("keys") /\ Answer(Some(KeysOf(doc[1])))

Keys == Asked("keys") /\ Answer(Some(KeysOf(tree)))

-----------------------------------------------------------------------------
(* navigate, which field.rs and typeinfo.rs each define.                   *)

\* d.get(seg) and a.get(idx), as the set of what they return.
Get(v, seg) == {v.fields[i].part : i \in {j \in DOMAIN v.fields : v.fields[j].key = seg}}
At(v, idx)  == {v.fields[i].part : i \in {idx + 1} \cap DOMAIN v.fields}

\* A bug: an index with a zero or a sign before it is none.
TypeChildStrict(v, seg) ==
    CASE v.type = "Document" -> Get(v, seg)
      [] v.type = "Array" /\ seg \in DOMAIN IndexOf \cap {"0", "1", "2"} -> At(v, IndexOf[seg])
      [] OTHER -> {}

TypeChild(v, seg) ==
    CASE v.type = "Document" -> Get(v, seg)
      [] v.type = "Array" /\ seg \in DOMAIN IndexOf -> At(v, IndexOf[seg])
      [] OTHER -> {}

FieldChild(v, seg) ==
    CASE v.type = "Document" -> Get(v, seg)
      [] v.type = "Array" /\ seg \in DOMAIN IndexOf -> At(v, IndexOf[seg])
      [] OTHER -> {}

Follow(parts) ==
    IF parts = {} THEN Answer(None)
    ELSE /\ cur' \in {Append(cur, p) : p \in parts} /\ rest' = Tail(rest)
         /\ UNCHANGED <<query, doc, pc, asked, tree, answers>>

-----------------------------------------------------------------------------
TypeNames ==
    [Double |-> "double", String |-> "string", Document |-> "object", Array |-> "array",
     Boolean |-> "bool", Null |-> "null", RegularExpression |-> "regex",
     JavaScriptCode |-> "javascript", JavaScriptCodeWithScope |-> "javascriptWithScope",
     Int32 |-> "int", Int64 |-> "long", Timestamp |-> "timestamp", ObjectId |-> "objectId",
     DateTime |-> "date", Symbol |-> "symbol", Decimal128 |-> "decimal128",
     Undefined |-> "undefined", MaxKey |-> "maxKey", MinKey |-> "minKey",
     DbPointer |-> "dbPointer"]

SubtypeNames == <<"generic", "function", "binaryOld", "uuidOld", "uuid", "md5",
                  "encrypted", "column", "sensitive", "vector">>

SubtypeName(sub) == IF sub < 10 THEN SubtypeNames[sub + 1]
                    ELSE IF sub >= 128 THEN "userDefined" ELSE "reserved"

TypeName(v) == IF v.type = "Binary" THEN "binData:" \o SubtypeName(v.sub)
               ELSE TypeNames[v.type]

\* What is shown: a text as it is, or a name of it.  Canonical Extended JSON
\* and hex keep every two values apart.
Shown(text) == <<"text", text>>
ExtJson(v)  == <<"extjson", v>>
Hex(leaf)   == <<"hex", leaf.text>>

UuidString(leaf) == IF leaf.n # 16 THEN Hex(leaf) ELSE <<"uuid", leaf.text>>

\* The types whose to_string() is shown.
Bare == {"String", "Boolean", "Int32", "Int64", "Double", "Decimal128", "ObjectId"}

\* The value that a reference is to.
Referenced(v, a) ==
    [b \in {SubSeq(c, Len(a) + 1, Len(c)) : c \in {d \in DOMAIN v : IsPrefix(a, d)}} |-> v[a \o b]]

\* A bug: any Binary is shown in hex.
InferHex(v) ==
    LET leaf == v[<<>>] IN
    CASE leaf.type \in Bare    -> Shown(leaf.text)
      [] leaf.type = "DateTime" -> <<"time", EpochMillisToRfc3339(leaf.n)>>
      [] leaf.type = "Null"     -> Shown("null")
      [] leaf.type = "Binary"   -> Hex(leaf)
      [] OTHER                  -> ExtJson(v)

Infer(v) ==
    LET leaf == v[<<>>] IN
    CASE leaf.type \in Bare    -> Shown(leaf.text)
      [] leaf.type = "DateTime" -> <<"time", EpochMillisToRfc3339(leaf.n)>>
      [] leaf.type = "Null"     -> Shown("null")
      [] OTHER                  -> ExtJson(v)

Coerce(v, mode) ==
    LET leaf == v[<<>>] IN
    CASE mode = "json" -> ExtJson(v)
      [] mode = "objectid"  /\ leaf.type = "ObjectId" -> Shown(leaf.text)
      [] mode = "decimal"   /\ leaf.type \in {"Decimal128", "Double", "Int32", "Int64"} -> Shown(leaf.text)
      [] mode = "uuid"      /\ leaf.type = "Binary" /\ leaf.sub = 4 -> UuidString(leaf)
      [] mode = "timestamp" /\ leaf.type = "Timestamp" -> <<"time", EpochSecsToRfc3339(leaf.n)>>
      [] mode = "datetime"  /\ leaf.type = "DateTime" -> <<"time", EpochMillisToRfc3339(leaf.n)>>
      [] mode = "blob"      /\ leaf.type = "Binary" -> Hex(leaf)
      [] OTHER -> Infer(v)

TypeOf ==
    /\ Asked("type_of")
    /\ IF rest = <<>> THEN Answer(Some(TypeName(tree[cur])))
       ELSE Follow(TypeChild(tree[cur], Head(rest)))

Field ==
    /\ Asked("field")
    /\ IF rest = <<>> THEN Answer(Some(Coerce(Referenced(tree, cur), query.mode)))
       ELSE Follow(FieldChild(tree[cur], Head(rest)))

Next == EncodeDocument \/ DecodeDocument \/ Keys \/ TypeOf \/ Field

Spec == Init /\ [][Next]_vars
=============================================================================
