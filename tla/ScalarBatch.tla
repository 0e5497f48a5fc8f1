---------------------------- MODULE ScalarBatch ----------------------------
(***************************************************************************)
(* The scalar functions of bson-worker/src/scalar and the column builders  *)
(* of arrow_io.rs.  A call is bound once, with its constant arguments, and *)
(* then processes the batches the engine cuts a column into.  `args` are   *)
(* the constant arguments after the column, each None if it is NULL.       *)
(*                                                                         *)
(* A cell is described by what the core library says of it: its validate   *)
(* verdict, whether it decodes, its keys, in which forms it is an ObjectId *)
(* and the u32 `secs` in its first four bytes, whether it is the JSON text *)
(* of a document; and, in a STRUCT column, its fields t and i, None if     *)
(* NULL or not there, and whether another field has a type that encode     *)
(* does not know.  A rendered text is named by the form and the cell's id. *)
(***************************************************************************)
EXTENDS Integers, Sequences, SequencesExt

CONSTANTS Calls,    \* the calls: function and constant arguments
          Cells,    \* for each column type, the cells
          U32Max,   \* u32::MAX
          MaxCells  \* bound: cells that a call is given

Functions == {"is_valid", "well_formed", "keys", "to_json", "decode", "from_json",
              "encode", "field", "type_of", "objectid_timestamp", "objectid_hex",
              "objectid_from_hex", "timestamp_to_ts", "timestamp_parts"}

None    == <<>>
Some(x) == <<x>>

ASSUME CallsAssumption == \A c \in Calls : c.fn \in Functions /\ c.args \in Seq(Seq(STRING))
ASSUME CellsAssumption ==
    /\ MaxCells \in Nat /\ U32Max \in Nat /\ "text" \in DOMAIN Cells
    /\ \A sql \in DOMAIN Cells : \A c \in Cells[sql] :
           /\ c.null \in BOOLEAN /\ c.keys \in Seq(STRING) /\ c.secs \in 0 .. U32Max
           /\ \A field \in {c.t, c.i} : field # None => field[1].n \in Int

VARIABLES call, type,   \* the call and the type of its column
          phase,        \* planned, bound, gathering, working; or refused,
                        \* failed and panicked, in which the query is over
          batch,        \* the cells of the batch in process
          input,        \* what blob_scalar! gathered of them
          row,          \* rows of the batch that the current loop is done with
          cols,         \* the columns being built
          fed,          \* the cells of the batches answered
          delivered     \* the rows answered

vars == <<call, type, phase, batch, input, row, cols, fed, delivered>>

Over == {"refused", "failed", "panicked"}

\* The engine gives objectid_from_hex, whose column is declared, only text.
Init ==
    /\ call \in Calls
    /\ type \in IF call.fn = "objectid_from_hex" THEN {"text"} ELSE DOMAIN Cells
    /\ phase = "planned"
    /\ batch = <<>> /\ input = <<>> /\ row = 0 /\ cols = <<>>
    /\ fed = <<>> /\ delivered = <<>>

-----------------------------------------------------------------------------
(* Constant arguments.                                                     *)

\* register and argument_specs: the names of the constant arguments that each
\* overload of a function has.
Overloads ==
    [fn \in Functions |->
        CASE fn \in {"to_json", "decode"} -> {<<>>, <<"mode">>}
          [] fn = "field"                 -> {<<"path">>, <<"path", "as">>}
          [] fn = "type_of"               -> {<<>>, <<"path">>}
          [] OTHER                        -> {<<>>}]

\* The engine finds a function by its name and its number of arguments.
NoOverload(c) == \A names \in Overloads[c.fn] : Len(names) # Len(c.args)

\* arguments.const_str(k)
ConstStr(c, k) == IF k \in DOMAIN c.args THEN c.args[k] ELSE None

Path(c) == ConstStr(c, 1)
Mode(c) == ConstStr(c, IF c.fn = "field" THEN 2 ELSE 1)

JsonModes   == {"canonical", "relaxed"}
DecodeModes == {"auto", "struct", "map", "json"}
FieldModes  == {"", "objectid", "decimal", "uuid", "timestamp", "datetime", "blob", "json"}

Among(argument, choices) == ToSet(argument) \subseteq choices

\* A bug: the modes are left to be looked at with the first batch.
BindAnything(c) == FALSE

BindRefuses(c) ==
    \/ c.fn = "to_json" /\ ~Among(Mode(c), JsonModes)
    \/ c.fn = "decode"  /\ ~Among(Mode(c), DecodeModes)
    \/ c.fn = "field"   /\ ~Among(Mode(c), FieldModes)

\* process reads the arguments again; decode does not, and only process asks
\* for the path.
ProcessRefuses(c) ==
    \/ c.fn = "to_json" /\ ~Among(Mode(c), JsonModes)
    \/ c.fn = "field"   /\ (Path(c) = None \/ ~Among(Mode(c), FieldModes))

ModeOr(default) == IF Mode(call) = None THEN default ELSE Mode(call)[1]

Bind ==
    /\ phase = "planned"
    /\ phase' = IF NoOverload(call) \/ BindRefuses(call) THEN "refused" ELSE "bound"
    /\ UNCHANGED <<call, type, batch, input, row, cols, fed, delivered>>

-----------------------------------------------------------------------------
(* The columns that process builds.                                        *)

\* The functions made by blob_scalar!: gather all inputs, then build.
Gatherers == {"is_valid", "well_formed", "keys"}

NewColumns(fn) ==
    CASE fn = "well_formed"     -> [ok |-> <<>>, error |-> <<>>, kind |-> <<>>, valid |-> <<>>]
      [] fn = "timestamp_parts" -> [t |-> <<>>, i |-> <<>>, valid |-> <<>>]
      [] fn = "keys"            -> [values |-> <<>>, offsets |-> <<0>>, valid |-> <<>>]
      [] OTHER                  -> [value |-> <<>>]

\* process is called with a batch.
StartBatch ==
    /\ phase = "bound"
    /\ ~ProcessRefuses(call)
    /\ batch' \in BoundedSeq(Cells[type], MaxCells - Len(fed))
    /\ phase' = IF call.fn \in Gatherers THEN "gathering" ELSE "working"
    /\ input' = <<>> /\ row' = 0 /\ cols' = NewColumns(call.fn)
    /\ UNCHANGED <<call, type, fed, delivered>>

Stop(how) ==
    /\ phase' = how
    /\ UNCHANGED <<call, type, batch, input, row, cols, fed, delivered>>

RefuseArguments == phase = "bound" /\ ProcessRefuses(call) /\ Stop("failed")

Push(entries) ==
    /\ cols' = [c \in DOMAIN cols |-> Append(cols[c], entries[c])]
    /\ row' = row + 1
    /\ UNCHANGED <<call, type, phase, batch, input, fed, delivered>>

Answer(option) == Push([value |-> option])

\* The row that is next, in a loop over the batch.
Cell == batch[row + 1]
MoreRows(loop) == phase = loop /\ row < Len(batch)
Row(fn) == MoreRows("working") /\ call.fn = fn

\* A bug: the type of the column is looked at before the cell is.
BlobBytesOfType(cell) ==
    IF type \notin {"blob", "text"} THEN "error" ELSE IF cell.null THEN "none" ELSE "some"

BlobBytes(cell) ==
    IF cell.null THEN "none" ELSE IF type \in {"blob", "text"} THEN "some" ELSE "error"

TextStr(cell) ==
    IF cell.null THEN "none" ELSE IF type = "text" THEN "some" ELSE "error"

\* A cell is accessed; `?` ends the call, a NULL stays a NULL.
AnswerFrom(access, option) ==
    IF access = "error" THEN Stop("failed")
    ELSE Answer(IF access = "none" THEN None ELSE option)

-----------------------------------------------------------------------------
(* The functions that blob_scalar! makes.                                  *)

Gather ==
    /\ MoreRows("gathering")
    /\ IF BlobBytes(Cell) = "error" THEN Stop("failed")
       ELSE /\ input' = Append(input, IF BlobBytes(Cell) = "none" THEN None ELSE Some(Cell))
            /\ row' = row + 1
            /\ UNCHANGED <<call, type, phase, batch, cols, fed, delivered>>

Gathered ==
    /\ phase = "gathering" /\ row = Len(batch)
    /\ phase' = "working" /\ row' = 0
    /\ UNCHANGED <<call, type, batch, input, cols, fed, delivered>>

IsValid ==
    /\ Row("is_valid")
    /\ LET in == input[row + 1] IN
       Answer(IF in = None THEN None ELSE Some(in[1].verdict = "ok"))

WellFormed ==
    /\ Row("well_formed")
    /\ LET in == input[row + 1] IN
       Push(IF in = None
            THEN [ok |-> None, error |-> None, kind |-> None, valid |-> FALSE]
            ELSE IF in[1].verdict = "ok"
            THEN [ok |-> Some(TRUE), error |-> None, kind |-> None, valid |-> TRUE]
            ELSE [ok |-> Some(FALSE), error |-> Some(<<"message", in[1].verdict>>),
                  kind |-> Some(in[1].verdict), valid |-> TRUE])

\* A bug: a list is closed before its items are in.
AppendListClosedFirst(items, valid) ==
    /\ cols' = [values  |-> cols.values \o items,
                offsets |-> Append(cols.offsets, Len(cols.values)),
                valid   |-> Append(cols.valid, valid)]
    /\ row' = row + 1
    /\ UNCHANGED <<call, type, phase, batch, input, fed, delivered>>

\* list_string_array: the items of a list and then where it ends.
AppendList(items, valid) ==
    /\ cols' = [values  |-> cols.values \o items,
                offsets |-> Append(cols.offsets, Len(cols.values) + Len(items)),
                valid   |-> Append(cols.valid, valid)]
    /\ row' = row + 1
    /\ UNCHANGED <<call, type, phase, batch, input, fed, delivered>>

Keys ==
    /\ Row("keys")
    /\ LET in == input[row + 1] IN
       IF in = None \/ ~in[1].decodes THEN AppendList(<<>>, FALSE)
       ELSE AppendList(in[1].keys, TRUE)

-----------------------------------------------------------------------------
(* The functions on documents.                                             *)

Rendered(cell, form) == IF cell.decodes THEN Some(<<form, cell.id>>) ELSE None

ToJson ==
    /\ Row("to_json")
    /\ AnswerFrom(BlobBytes(Cell), Rendered(Cell, ModeOr("canonical")))

Decode ==
    /\ Row("decode")
    /\ AnswerFrom(BlobBytes(Cell), Rendered(Cell, "canonical"))

FromJson ==
    /\ Row("from_json")
    /\ AnswerFrom(BlobBytes(Cell), IF Cell.json THEN Some(<<"bson", Cell.id>>) ELSE None)

\* encode_document: a document with only values that value_at knows.
Encode ==
    /\ Row("encode")
    /\ AnswerFrom(IF Cell.null THEN "none"
                  ELSE IF type # "struct" \/ Cell.odd THEN "error" ELSE "some",
                  Some(<<"bson", Cell.id>>))

Field ==
    /\ Row("field")
    /\ AnswerFrom(BlobBytes(Cell),
                  IF Cell.decodes /\ Path(call)[1] \in ToSet(Cell.keys)
                  THEN Some(<<ModeOr(""), Cell.id, Path(call)[1]>>) ELSE None)

TypeOf ==
    /\ Row("type_of")
    /\ AnswerFrom(BlobBytes(Cell),
                  IF ~Cell.decodes THEN None
                  ELSE IF Path(call) = None THEN Some(<<"object">>)
                  ELSE IF Path(call)[1] \in ToSet(Cell.keys)
                  THEN Some(<<"type", Cell.id, Path(call)[1]>>) ELSE None)

-----------------------------------------------------------------------------
(* The functions on ObjectIds and timestamps.                              *)

\* ts_millis_array: a TIMESTAMPTZ counts microseconds.
TsMillis(ms) == ms * 1000

\* parse_objectid_any: 24 hex digits, or 12 bytes.
ParseObjectId(cell, form) == IF form \in cell.oid THEN Some(cell) ELSE None

ObjectIdEpochMillis(oid) == oid.secs * 1000

ObjectIdTimestamp ==
    /\ Row("objectid_timestamp")
    /\ LET form   == IF type = "text" THEN "hex" ELSE "raw"
           access == IF type = "text" THEN TextStr(Cell) ELSE BlobBytes(Cell)
           oid    == ParseObjectId(Cell, form)
       IN  AnswerFrom(access, IF oid = None THEN None
                              ELSE Some(TsMillis(ObjectIdEpochMillis(oid[1]))))

ObjectIdHex ==
    /\ Row("objectid_hex")
    /\ AnswerFrom(BlobBytes(Cell), IF "raw" \in Cell.oid THEN Some(<<"hex", Cell.id>>) ELSE None)

ObjectIdFromHex ==
    /\ Row("objectid_from_hex")
    /\ AnswerFrom(TextStr(Cell), IF "hex" \in Cell.oid THEN Some(<<"raw", Cell.id>>) ELSE None)

\* struct_u32 takes the column for a STRUCT without asking.
NotAStruct == ~Cell.null /\ type # "struct"

\* struct_u32: a field of four integer types as its low 32 bits, and of any
\* other type as NULL.
StructU32(field) ==
    IF field # None /\ field[1].type \in {"UINTEGER", "UBIGINT", "INTEGER", "BIGINT"}
    THEN Some(field[1].n % (U32Max + 1)) ELSE None

TimestampToTs ==
    /\ Row("timestamp_to_ts")
    /\ IF NotAStruct THEN Stop("panicked")
       ELSE Answer(IF Cell.null \/ StructU32(Cell.t) = None THEN None
                   ELSE Some(TsMillis(StructU32(Cell.t)[1] * 1000)))

TimestampParts ==
    /\ Row("timestamp_parts")
    /\ IF NotAStruct THEN Stop("panicked")
       ELSE Push(IF Cell.null THEN [t |-> None, i |-> None, valid |-> FALSE]
                 ELSE [t |-> StructU32(Cell.t), i |-> StructU32(Cell.i), valid |-> TRUE])

-----------------------------------------------------------------------------
\* Row k of the column that was built, as its reader sees it.
RowAt(k) ==
    CASE call.fn = "keys" ->
            IF cols.valid[k]
            THEN Some(SubSeq(cols.values, cols.offsets[k] + 1, cols.offsets[k + 1]))
            ELSE None
      [] call.fn \in {"well_formed", "timestamp_parts"} ->
            IF cols.valid[k] THEN Some([c \in DOMAIN cols \ {"valid"} |-> cols[c][k]])
            ELSE None
      [] OTHER -> cols.value[k]

\* A bug: the last row is left out.
FinishBatchShort ==
    /\ phase = "working" /\ row = Len(batch)
    /\ phase' = "bound"
    /\ fed' = fed \o batch
    /\ delivered' = delivered \o [k \in 1 .. Len(batch) - 1 |-> RowAt(k)]
    /\ UNCHANGED <<call, type, batch, input, row, cols>>

FinishBatch ==
    /\ phase = "working" /\ row = Len(batch)
    /\ phase' = "bound"
    /\ fed' = fed \o batch
    /\ delivered' = delivered \o [k \in 1 .. Len(batch) |-> RowAt(k)]
    /\ UNCHANGED <<call, type, batch, input, row, cols>>

Process ==
    \/ RefuseArguments \/ StartBatch \/ Gather \/ Gathered \/ FinishBatch
    \/ IsValid \/ WellFormed \/ Keys
    \/ ToJson \/ Decode \/ FromJson \/ Encode \/ Field \/ TypeOf
    \/ ObjectIdTimestamp \/ ObjectIdHex \/ ObjectIdFromHex
    \/ TimestampToTs \/ TimestampParts

Next == Bind \/ Process

Spec == Init /\ [][Next]_vars
-----------------------------------------------------------------------------
\* The columns being built have one entry for each row done, and the lists
\* end in order.
TypeOK ==
    /\ call \in Calls /\ type \in DOMAIN Cells
    /\ phase \in {"planned", "bound", "gathering", "working"} \cup Over
    /\ batch \in Seq(Cells[type]) /\ fed \in Seq(Cells[type])
    /\ row \in 0 .. Len(batch)
    /\ Len(delivered) = Len(fed)
    /\ phase = "working" =>
           \A c \in DOMAIN cols \ {"values"} :
               Len(cols[c]) = row + (IF c = "offsets" THEN 1 ELSE 0)

(* A mode that is not known is refused before any row is read: once a call *)
(* is bound, the arguments it is refused for can only be a missing path of *)
(* `field` (codec.rs:215, 321, 554; 564).                                  *)
ModesAreRefusedAtBind ==
    phase = "bound" /\ ProcessRefuses(call) => call.fn = "field" /\ Path(call) = None
=============================================================================
