--------------------------- MODULE ScalarAnswers ---------------------------
(***************************************************************************)
(* What the scalar functions promise of a single cell, in the words of     *)
(* their descriptions, and that a column of cells gets just that.          *)
(***************************************************************************)
EXTENDS ScalarBatch

Decoders == {"is_valid", "well_formed", "keys", "to_json", "decode", "from_json",
             "field", "type_of", "objectid_timestamp", "objectid_hex"}

\* Does call q take cell c of a column of type sql?
Takes(q, sql, c) ==
    \/ c.null
    \/ q.fn \in Decoders /\ sql \in {"blob", "text"}
    \/ q.fn = "encode" /\ sql = "struct" /\ ~c.odd
    \/ q.fn = "objectid_from_hex" /\ sql = "text"
    \/ q.fn \in {"timestamp_to_ts", "timestamp_parts"} /\ sql = "struct"

\* The argument that the overload calls `name`, if it was given.
Given(q, name) ==
    LET names == CHOOSE o \in Overloads[q.fn] : Len(o) = Len(q.args)
        at    == {k \in DOMAIN names : names[k] = name}
    IN  IF at = {} THEN None ELSE q.args[CHOOSE k \in at : TRUE]

GivenOr(q, name, default) == IF Given(q, name) = None THEN default ELSE Given(q, name)[1]

\* The u32 that an integer is, modulo 2^32.
AsU32(field) ==
    IF field = None \/ field[1].type \notin {"UINTEGER", "UBIGINT", "INTEGER", "BIGINT"} THEN None
    ELSE Some(CHOOSE u \in 0 .. U32Max : (field[1].n - u) % (U32Max + 1) = 0)

IfDecodes(c, option) == IF c.decodes THEN option ELSE None
IfPresent(q, c, option) == IF Given(q, "path")[1] \in ToSet(c.keys) THEN option ELSE None

\* What call q answers for a cell that it takes and that is not NULL.
Described(q, sql, c) ==
    CASE q.fn = "is_valid"    -> Some(c.verdict = "ok")
      [] q.fn = "well_formed" ->
            LET failed == c.verdict # "ok" IN
            Some([ok    |-> Some(~failed),
                  error |-> IF failed THEN Some(<<"message", c.verdict>>) ELSE None,
                  kind  |-> IF failed THEN Some(c.verdict) ELSE None])
      [] q.fn = "keys"        -> IfDecodes(c, Some(c.keys))
      [] q.fn = "to_json"     -> IfDecodes(c, Some(<<GivenOr(q, "mode", "canonical"), c.id>>))
      [] q.fn = "decode"      -> IfDecodes(c, Some(<<"canonical", c.id>>))
      [] q.fn = "field"       ->
            IfDecodes(c, IfPresent(q, c, Some(<<GivenOr(q, "as", ""), c.id, Given(q, "path")[1]>>)))
      [] q.fn = "type_of"     ->
            IfDecodes(c, IF Given(q, "path") = None THEN Some(<<"object">>)
                         ELSE IfPresent(q, c, Some(<<"type", c.id, Given(q, "path")[1]>>)))
      [] q.fn \in {"from_json", "encode"} ->
            IF c.json \/ q.fn = "encode" THEN Some(<<"bson", c.id>>) ELSE None
      [] q.fn = "objectid_timestamp" ->
            IF (IF sql = "text" THEN "hex" ELSE "raw") \in c.oid
            THEN Some(1000000 * c.secs) ELSE None
      [] q.fn = "objectid_hex"      -> IF "raw" \in c.oid THEN Some(<<"hex", c.id>>) ELSE None
      [] q.fn = "objectid_from_hex" -> IF "hex" \in c.oid THEN Some(<<"raw", c.id>>) ELSE None
      [] q.fn = "timestamp_to_ts"   ->
            IF AsU32(c.t) = None THEN None ELSE Some(1000000 * AsU32(c.t)[1])
      [] q.fn = "timestamp_parts"   -> Some([t |-> AsU32(c.t), i |-> AsU32(c.i)])

Expected(q, sql, c) == IF c.null THEN None ELSE Described(q, sql, c)

(* Every row answers its own cell as the function's description says:      *)
(* NULL for a NULL and for a malformed blob, and its own value otherwise,  *)
(* whatever the other cells are and however the engine cut the column, and *)
(* although lists and structs are put together from several columns; the   *)
(* arguments are those that its overload declares, by name, and a field of *)
(* a timestamp is an integer modulo 2^32 (common.rs:5; codec.rs, the       *)
(* descriptions and argument_specs of each function; objectid.rs:184).     *)
RowsAnswerTheirCells ==
    \A k \in DOMAIN delivered :
        delivered[k] = Expected(call, type, fed[k])

(* A query that did not stop was given only cells that its function takes, *)
(* and one that stopped in a batch was given one that it does not take: in *)
(* which batch a cell is makes no difference, NULLs stop nothing whatever  *)
(* the type of their column, and, as common.rs:5 has it, "Decoders capture *)
(* errors per row (a malformed blob yields a NULL output, never a panic"   *)
(* (arrow_io.rs:23-53; codec.rs, process of each function).                *)
StopsExactlyAtMisfits ==
    /\ \A k \in DOMAIN fed : Takes(call, type, fed[k])
    /\ phase \in {"failed", "panicked"} /\ ~ProcessRefuses(call) =>
           \E k \in DOMAIN batch : ~Takes(call, type, batch[k])
=============================================================================
