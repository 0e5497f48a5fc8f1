---------------------------- MODULE ScalarProofs ----------------------------
(***************************************************************************)
(* The scalar functions, for all cells and calls, all lengths of a column  *)
(* and every way to cut it into batches: each row answers its own cell,    *)
(* and only a cell that a function does not take stops it.                 *)
(***************************************************************************)
EXTENDS ScalarAnswers, SequenceTheorems, TLAPS

\* A sequence, whatever is in it.
IsList(s) == s \in Seq(Range(s))

LEMMA EmptyIsList == IsList(<<>>) /\ Len(<<>>) = 0 /\ DOMAIN <<>> = {}
BY DEF IsList

LEMMA ListLen == ASSUME NEW s, IsList(s) PROVE Len(s) \in Nat /\ DOMAIN s = 1 .. Len(s)
BY DEF IsList

LEMMA AppendToList ==
    ASSUME NEW s, IsList(s), NEW x
    PROVE  /\ IsList(Append(s, x)) /\ Len(Append(s, x)) = Len(s) + 1
           /\ \A k \in 1 .. Len(s) : Append(s, x)[k] = s[k]
           /\ Append(s, x)[Len(s) + 1] = x
<1> DEFINE S == Range(s) \cup {x}
<1>1. s \in Seq(S) /\ x \in S
  BY SeqMonotonic DEF IsList
<1> HIDE DEF S
<1>2. Append(s, x) \in Seq(S)
  BY <1>1, AppendProperties
<1>3. IsList(Append(s, x))
  BY <1>2, SeqOfRange DEF IsList
<1> QED BY <1>1, <1>3, AppendProperties

LEMMA SeqIsList == ASSUME NEW S, NEW s \in Seq(S) PROVE IsList(s)
BY SeqOfRange DEF IsList

-----------------------------------------------------------------------------
(* Arithmetic of the four integer types.                                   *)

\* `as u32`: the number in 0 .. m - 1 that differs by a multiple of m.
LEMMA LowBits ==
    ASSUME NEW n \in Int, NEW m \in Nat \ {0}
    PROVE  /\ n % m \in 0 .. m - 1
           /\ (CHOOSE u \in 0 .. m - 1 : (n - u) % m = 0) = n % m
<1> DEFINE r == n % m
           Fits(u) == (n - u) % m = 0
<1>1. r \in 0 .. m - 1 /\ n \div m \in Int /\ n = m * (n \div m) + r
  OBVIOUS
<1>2. Fits(r)
  <2>1. n - r = m * (n \div m)
    BY <1>1
  <2>2. (m * (n \div m)) % m = 0
    BY <1>1
  <2> QED BY <2>1, <2>2
<1>3. ASSUME NEW u \in 0 .. m - 1, Fits(u) PROVE u = r
  <2> DEFINE q == (n - u) \div m
  <2>1. q \in Int /\ n - u = m * q
    BY <1>3
  <2> HIDE DEF q
  <2>2. u - r = m * ((n \div m) - q)
    BY <1>1, <2>1
  <2>3. (n \div m) - q = 0
    <3>1. -m < m * ((n \div m) - q) /\ m * ((n \div m) - q) < m
      BY <2>2, <1>1
    <3>2. (n \div m) - q \in Int
      BY <1>1, <2>1
    <3>3. ASSUME NEW z \in Int, -m < m * z, m * z < m PROVE z = 0
      BY <3>3
    <3> QED BY <3>1, <3>2, <3>3
  <2> QED BY <2>2, <2>3, <1>1
<1> HIDE DEF r, Fits
<1>4. (CHOOSE u \in 0 .. m - 1 : Fits(u)) = r
  BY <1>1, <1>2, <1>3
<1> QED BY <1>1, <1>4 DEF Fits, r

LEMMA SameU32 ==
    ASSUME NEW field, field # None => field[1].n \in Int
    PROVE  StructU32(field) = AsU32(field)
<1>1. CASE field = None \/ field[1].type \notin {"UINTEGER", "UBIGINT", "INTEGER", "BIGINT"}
  BY <1>1 DEF StructU32, AsU32
<1>2. CASE field # None /\ field[1].type \in {"UINTEGER", "UBIGINT", "INTEGER", "BIGINT"}
  <2> DEFINE n == field[1].n
             m == U32Max + 1
  <2>1. m \in Nat \ {0} /\ m - 1 = U32Max /\ n \in Int
    BY <1>2, CellsAssumption
  <2> HIDE DEF m, n
  <2>a. (CHOOSE u \in 0 .. m - 1 : (n - u) % m = 0) = n % m
    BY <2>1, LowBits
  <2>2. (CHOOSE u \in 0 .. U32Max : (field[1].n - u) % (U32Max + 1) = 0)
            = field[1].n % (U32Max + 1)
    BY <2>1, <2>a DEF m, n
  <2> QED BY <1>2, <2>2 DEF StructU32, AsU32
<1> QED BY <1>1, <1>2

LEMMA U32Type ==
    ASSUME NEW field, field # None => field[1].n \in Int
    PROVE  StructU32(field) = None \/ StructU32(field)[1] \in Int
<1>1. U32Max + 1 \in Nat \ {0}
  BY CellsAssumption
<1> QED BY <1>1, LowBits DEF StructU32, Some, None

-----------------------------------------------------------------------------
(* The arguments, by position in the code and by name in the description.  *)

LEMMA ArgumentsByName ==
    ASSUME NEW q, q.fn \in Functions, q.args \in Seq(Seq(STRING)), ~NoOverload(q)
    PROVE  /\ q.fn = "to_json" => Given(q, "mode") = Mode(q)
           /\ q.fn = "field" => Given(q, "path") = Path(q) /\ Given(q, "as") = Mode(q)
           /\ q.fn = "type_of" => Given(q, "path") = Path(q)
<1> DEFINE n == Len(q.args)
           names == CHOOSE o \in Overloads[q.fn] : Len(o) = n
           at(name) == {k \in DOMAIN names : names[k] = name}
<1>1. names \in Overloads[q.fn] /\ Len(names) = n
  BY DEF NoOverload
<1>2. DOMAIN q.args = 1 .. n /\ n \in Nat
  OBVIOUS
<1>3. \A name : Given(q, name) = IF at(name) = {} THEN None
                               ELSE q.args[CHOOSE k \in at(name) : TRUE]
  BY DEF Given
<1> HIDE DEF names
<1>4. ASSUME NEW name, names = <<>> PROVE Given(q, name) = None
  BY <1>3, <1>4
<1>5. ASSUME NEW name, names = <<name>> PROVE Given(q, name) = q.args[1] /\ n = 1
  <2>1. at(name) = {1}
    BY <1>5
  <2> QED BY <2>1, <1>1, <1>3, <1>5
<1>5a. ASSUME NEW name, NEW other, names = <<name, other>>, name # other
       PROVE  Given(q, name) = q.args[1] /\ n = 2
  <2>1. at(name) = {1}
    BY <1>5a
  <2>2. (CHOOSE k \in at(name) : TRUE) = 1 /\ at(name) # {}
    BY <2>1
  <2> HIDE DEF at
  <2>3. Given(q, name) = q.args[1]
    BY <2>2, <1>3
  <2>4. n = 2
    BY <1>1, <1>5a
  <2> QED BY <2>3, <2>4
<1>6. ASSUME NEW name, NEW other, names = <<other>>, name # other
      PROVE  Given(q, name) = None /\ n = 1
  <2>1. at(name) = {}
    BY <1>6
  <2> QED BY <2>1, <1>1, <1>3, <1>6
<1>7. ASSUME NEW name, NEW other, names = <<other, name>>, name # other
      PROVE  Given(q, name) = q.args[2] /\ n = 2
  <2>1. at(name) = {2}
    BY <1>7
  <2>2. (CHOOSE k \in at(name) : TRUE) = 2 /\ at(name) # {}
    BY <2>1
  <2> HIDE DEF at
  <2>3. Given(q, name) = q.args[2]
    BY <2>2, <1>3
  <2>4. n = 2
    BY <1>1, <1>7
  <2> QED BY <2>3, <2>4
<1>8. ASSUME q.fn = "to_json" PROVE Given(q, "mode") = Mode(q)
  <2>1. CASE names = <<>>
    BY <2>1, <1>1, <1>2, <1>4, <1>8 DEF Mode, ConstStr
  <2>2. CASE names = <<"mode">>
    <3>1. Given(q, "mode") = q.args[1] /\ n = 1
      BY <2>2, <1>5
    <3> QED BY <3>1, <2>2, <1>1, <1>2, <1>8 DEF Mode, ConstStr
  <2> QED BY <2>1, <2>2, <1>1, <1>8 DEF Overloads
<1>9. ASSUME q.fn = "type_of" PROVE Given(q, "path") = Path(q)
  <2>1. CASE names = <<>>
    BY <2>1, <1>1, <1>2, <1>4 DEF Path, ConstStr
  <2>2. CASE names = <<"path">>
    <3>1. Given(q, "path") = q.args[1] /\ n = 1
      BY <2>2, <1>5
    <3> QED BY <3>1, <2>2, <1>1, <1>2 DEF Path, ConstStr
  <2> QED BY <2>1, <2>2, <1>1, <1>9 DEF Overloads
<1>10. ASSUME q.fn = "field" PROVE Given(q, "path") = Path(q) /\ Given(q, "as") = Mode(q)
  <2>1. names = <<"path">> \/ names = <<"path", "as">>
    BY <1>1, <1>10 DEF Overloads
  <2>2. Given(q, "path") = q.args[1] /\ n >= 1
    BY <2>1, <1>5, <1>5a
  <2>3. 1 \in DOMAIN q.args
    BY <2>2, <1>2
  <2>4. Given(q, "path") = Path(q)
    BY <2>2, <2>3 DEF Path, ConstStr
  <2>5. CASE names = <<"path">>
    <3>1. Given(q, "as") = None /\ n = 1
      <4>1. "as" # "path"
        OBVIOUS
      <4> HIDE DEF n
      <4> QED BY <4>1, <2>5, <1>6
    <3>2. 2 \notin DOMAIN q.args
      BY <3>1, <1>2
    <3> QED BY <3>1, <3>2, <2>4, <1>10 DEF Mode, ConstStr
  <2>6. CASE names = <<"path", "as">>
    <3>1. Given(q, "as") = q.args[2] /\ 2 \in DOMAIN q.args
      BY <2>6, <1>2, <1>7
    <3> QED BY <3>1, <2>4, <1>10 DEF Mode, ConstStr
  <2> QED BY <2>1, <2>5, <2>6
<1> QED BY <1>8, <1>9, <1>10

-----------------------------------------------------------------------------
(* The inductive invariant.                                                *)

\* blob_scalar! has gathered n cells of the batch.
GatheredUpTo(n) ==
    /\ IsList(input) /\ Len(input) = n
    /\ \A k \in 1 .. n :
           Takes(call, type, batch[k]) /\ input[k] = IF batch[k].null THEN None ELSE Some(batch[k])

\* The columns are as long as the rows done, and read back they answer them.
Built ==
    /\ DOMAIN cols = DOMAIN NewColumns(call.fn)
    /\ \A c \in DOMAIN cols :
           /\ IsList(cols[c])
           /\ c # "values" => Len(cols[c]) = row + (IF c = "offsets" THEN 1 ELSE 0)
    /\ \A k \in 1 .. row : RowAt(k) = Expected(call, type, batch[k])

\* Each list of keys lies within the values, and the last ends where they do.
ListsEnd ==
    call.fn = "keys" =>
        /\ cols.values \in Seq(STRING)
        /\ \A k \in 1 .. row + 1 : cols.offsets[k] \in 0 .. Len(cols.values)
        /\ cols.offsets[row + 1] = Len(cols.values)

\* What bind and process have refused does not come this far.
ArgumentsAccepted ==
    /\ phase \notin {"planned", "refused"} => ~NoOverload(call) /\ ~BindRefuses(call)
    /\ phase \in {"gathering", "working"} => ~ProcessRefuses(call)
    /\ call.fn = "objectid_from_hex" => type = "text"

InProcess ==
    /\ phase = "gathering" => /\ call.fn \in Gatherers /\ cols = NewColumns(call.fn)
                              /\ GatheredUpTo(row)
    /\ phase = "working" => /\ Built /\ ListsEnd
                            /\ IF call.fn \in Gatherers THEN GatheredUpTo(Len(batch))
                               ELSE \A k \in 1 .. row : Takes(call, type, batch[k])

ScalarInv ==
    /\ TypeOK
    /\ IsList(delivered)
    /\ ArgumentsAccepted
    /\ InProcess
    /\ RowsAnswerTheirCells
    /\ StopsExactlyAtMisfits

-----------------------------------------------------------------------------
(* Steps that end a call, and rows of a column.                            *)

LEMMA StopStep ==
    ASSUME ScalarInv, NEW how \in {"failed", "panicked"}, Stop(how),
           phase \notin {"planned", "refused"},
           ProcessRefuses(call) \/ \E k \in DOMAIN batch : ~Takes(call, type, batch[k])
    PROVE  ScalarInv'
<1> USE DEF Stop
<1>1. TypeOK'
  BY DEF ScalarInv, TypeOK, Over
<1>2. ArgumentsAccepted'
  BY DEF ScalarInv, ArgumentsAccepted
<1>3. InProcess'
  BY DEF InProcess
<1>4. RowsAnswerTheirCells' /\ IsList(delivered)'
  BY DEF ScalarInv, RowsAnswerTheirCells
<1>5. StopsExactlyAtMisfits'
  BY DEF ScalarInv, StopsExactlyAtMisfits
<1> QED BY <1>1, <1>2, <1>3, <1>4, <1>5 DEF ScalarInv

\* A row of the column is done: of the invariant, only the column is disturbed.
RowDone ==
    /\ phase = "working" /\ row < Len(batch) /\ row' = row + 1
    /\ UNCHANGED <<call, type, phase, batch, input, fed, delivered>>

LEMMA RowStep ==
    ASSUME ScalarInv, RowDone, Built', ListsEnd',
           call.fn \notin Gatherers => Takes(call, type, batch[row + 1])
    PROVE  ScalarInv'
<1> USE DEF RowDone
<1>0. row \in Nat /\ row' \in 0 .. Len(batch) /\ batch \in Seq(Cells[type])
  BY DEF ScalarInv, TypeOK
<1>1. TypeOK'
  <2>1. \A c \in DOMAIN cols' \ {"values"} :
            Len(cols'[c]) = row' + (IF c = "offsets" THEN 1 ELSE 0)
    BY DEF Built
  <2> QED BY <1>0, <2>1 DEF ScalarInv, TypeOK, Over
<1>2. ArgumentsAccepted'
  BY DEF ScalarInv, ArgumentsAccepted
<1>3. InProcess'
  <2>1. CASE call.fn \in Gatherers
    <3>1. GatheredUpTo(Len(batch))
      BY <2>1 DEF ScalarInv, InProcess
    <3>2. GatheredUpTo(Len(batch))'
      BY <3>1 DEF GatheredUpTo
    <3> QED BY <2>1, <3>2 DEF InProcess
  <2>2. CASE call.fn \notin Gatherers
    <3>1. \A k \in 1 .. row : Takes(call, type, batch[k])
      BY <2>2 DEF ScalarInv, InProcess
    <3>2. ASSUME NEW k \in 1 .. row + 1 PROVE Takes(call, type, batch[k])
      <4>1. k \in 1 .. row \/ k = row + 1
        BY <1>0
      <4> QED BY <4>1, <3>1, <2>2
    <3>3. \A k \in 1 .. row' : Takes(call, type, batch[k])'
      BY <3>2
    <3> QED BY <2>2, <3>3 DEF InProcess
  <2> QED BY <2>1, <2>2
<1>4. RowsAnswerTheirCells' /\ IsList(delivered)'
  BY DEF ScalarInv, RowsAnswerTheirCells
<1>5. StopsExactlyAtMisfits'
  BY DEF ScalarInv, StopsExactlyAtMisfits
<1> QED BY <1>1, <1>2, <1>3, <1>4, <1>5 DEF ScalarInv

-----------------------------------------------------------------------------
(* Columns without lists.                                                  *)

\* What a row of entries is read as.
Entry(entries) ==
    IF call.fn \in {"well_formed", "timestamp_parts"}
    THEN IF entries.valid THEN Some([c \in DOMAIN cols \ {"valid"} |-> entries[c]]) ELSE None
    ELSE entries.value

LEMMA PushKeepsBuilt ==
    ASSUME Built, NEW entries, Push(entries), row \in Nat,
           call.fn \in Functions \ {"keys"},
           Entry(entries) = Expected(call, type, batch[row + 1])
    PROVE  Built' /\ ListsEnd'
<1> DEFINE names == DOMAIN cols
<1>1. names = IF call.fn = "well_formed" THEN {"ok", "error", "kind", "valid"}
              ELSE IF call.fn = "timestamp_parts" THEN {"t", "i", "valid"} ELSE {"value"}
  BY DEF Built, NewColumns
<1>2. /\ DOMAIN cols' = names
      /\ \A c \in names : cols'[c] = Append(cols[c], entries[c])
      /\ row' = row + 1 /\ UNCHANGED <<call, type, batch>>
  BY DEF Push
<1>3. "values" \notin names /\ "offsets" \notin names
  BY <1>1
<1>4. \A c \in names : IsList(cols[c]) /\ Len(cols[c]) = row
  BY <1>3 DEF Built
<1>5. \A c \in names : /\ IsList(cols'[c]) /\ Len(cols'[c]) = row + 1
                       /\ \A k \in 1 .. row : cols'[c][k] = cols[c][k]
                       /\ cols'[c][row + 1] = entries[c]
  <2> TAKE c \in names
  <2>1. IsList(cols[c]) /\ Len(cols[c]) = row /\ cols'[c] = Append(cols[c], entries[c])
    BY <1>2, <1>4
  <2> QED BY <2>1, AppendToList
<1> HIDE DEF names
<1>6. ASSUME NEW k \in 1 .. row PROVE RowAt(k)' = RowAt(k)
  <2>1. CASE call.fn \in {"well_formed", "timestamp_parts"}
    <3>1. "valid" \in names /\ cols'.valid[k] = cols.valid[k]
      BY <1>1, <1>5, <2>1
    <3>2. [c \in names \ {"valid"} |-> cols'[c][k]] = [c \in names \ {"valid"} |-> cols[c][k]]
      BY <1>5
    <3> QED BY <3>1, <3>2, <2>1, <1>2 DEF RowAt, names
  <2>2. CASE call.fn \notin {"well_formed", "timestamp_parts", "keys"}
    <3>1. "value" \in names /\ cols'.value[k] = cols.value[k]
      BY <1>1, <1>5, <2>2
    <3> QED BY <3>1, <2>2, <1>2 DEF RowAt
  <2> QED BY <2>1, <2>2
<1>7. ASSUME NEW k, k = row + 1 PROVE RowAt(k)' = Entry(entries)
  <2>1. CASE call.fn \in {"well_formed", "timestamp_parts"}
    <3>1. "valid" \in names /\ cols'.valid[k] = entries.valid
      BY <1>1, <1>5, <1>7, <2>1
    <3>2. [c \in names \ {"valid"} |-> cols'[c][k]] = [c \in names \ {"valid"} |-> entries[c]]
      BY <1>5, <1>7
    <3> QED BY <3>1, <3>2, <2>1, <1>2 DEF RowAt, Entry, names
  <2>2. CASE call.fn \notin {"well_formed", "timestamp_parts", "keys"}
    <3>1. "value" \in names /\ cols'.value[k] = entries.value
      BY <1>1, <1>5, <1>7, <2>2
    <3> QED BY <3>1, <2>2, <1>2 DEF RowAt, Entry
  <2> QED BY <2>1, <2>2
<1>8. ASSUME NEW k \in 1 .. row + 1 PROVE RowAt(k)' = Expected(call, type, batch[k])
  <2>1. CASE k = row + 1
    BY <2>1, <1>7
  <2>2. CASE k \in 1 .. row
    BY <2>2, <1>6 DEF Built
  <2> QED BY <2>1, <2>2
<1>9. Built'
  <2>1. \A k \in 1 .. row' : RowAt(k)' = Expected(call, type, batch[k])'
    BY <1>2, <1>8
  <2>2. DOMAIN cols' = DOMAIN NewColumns(call'.fn)
    BY <1>2 DEF Built, names
  <2>3. \A c \in DOMAIN cols' :
           /\ IsList(cols'[c])
           /\ c # "values" => Len(cols'[c]) = row' + (IF c = "offsets" THEN 1 ELSE 0)
    BY <1>2, <1>3, <1>5
  <2> QED BY <2>1, <2>2, <2>3 DEF Built
<1> QED BY <1>2, <1>9 DEF ListsEnd

\* The functions that look at a cell of the batch and answer one value.
Answerers == Functions \ (Gatherers \cup {"timestamp_parts"})

LEMMA PushStep ==
    ASSUME ScalarInv, NEW entries, Push(entries), MoreRows("working"),
           call.fn \in Functions \ {"keys"},
           Entry(entries) = Expected(call, type, batch[row + 1]),
           call.fn \notin Gatherers => Takes(call, type, batch[row + 1])
    PROVE  ScalarInv'
<1>1. Built /\ row \in Nat
  BY DEF ScalarInv, InProcess, TypeOK, MoreRows
<1>2. Built' /\ ListsEnd'
  BY <1>1, PushKeepsBuilt
<1>3. RowDone
  BY DEF RowDone, Push, MoreRows
<1> QED BY <1>2, <1>3, RowStep

LEMMA MisfitStep ==
    ASSUME ScalarInv, NEW how \in {"failed", "panicked"}, Stop(how),
           NEW loop \in {"gathering", "working"}, MoreRows(loop), ~Takes(call, type, Cell)
    PROVE  ScalarInv'
<1>1. row + 1 \in DOMAIN batch
  BY DEF ScalarInv, TypeOK, MoreRows
<1>2. phase \notin {"planned", "refused"} /\ ~Takes(call, type, batch[row + 1])
  BY DEF MoreRows, Cell
<1> QED BY <1>1, <1>2, StopStep

LEMMA AnswerStep ==
    ASSUME ScalarInv, call.fn \in Answerers, MoreRows("working"),
           NEW option, Answer(option), Takes(call, type, Cell),
           option = Expected(call, type, Cell)
    PROVE  ScalarInv'
<1> DEFINE entries == [value |-> option]
<1>1. Entry(entries) = option
  BY DEF Entry, Answerers, Gatherers
<1>2. Push(entries)
  BY DEF Answer
<1> HIDE DEF entries
<1> QED BY <1>1, <1>2, PushStep DEF Cell, Answerers, Gatherers

LEMMA AccessStep ==
    ASSUME ScalarInv, call.fn \in Answerers, MoreRows("working"),
           NEW access \in {"none", "some", "error"}, NEW option,
           AnswerFrom(access, option),
           access = "none" <=> Cell.null,
           access = "some" => Takes(call, type, Cell) /\ option = Described(call, type, Cell),
           access = "error" => ~Takes(call, type, Cell)
    PROVE  ScalarInv'
<1>1. CASE access = "error"
  <2>1. Stop("failed")
    BY <1>1 DEF AnswerFrom
  <2> QED BY <1>1, <2>1, MisfitStep
<1>2. CASE access = "none"
  <2>1. Answer(None) /\ Cell.null
    BY <1>2 DEF AnswerFrom
  <2>2. Takes(call, type, Cell) /\ None = Expected(call, type, Cell)
    BY <2>1 DEF Takes, Expected
  <2> QED BY <2>1, <2>2, AnswerStep
<1>3. CASE access = "some"
  <2>1. Answer(option) /\ ~Cell.null
    BY <1>3 DEF AnswerFrom
  <2>2. Takes(call, type, Cell) /\ option = Expected(call, type, Cell)
    BY <1>3, <2>1 DEF Expected
  <2> QED BY <2>1, <2>2, AnswerStep
<1> QED BY <1>1, <1>2, <1>3

\* blob_bytes on the cell of a decoder.
LEMMA BlobStep ==
    ASSUME ScalarInv, call.fn \in Answerers \cap Decoders, MoreRows("working"),
           NEW option, AnswerFrom(BlobBytes(Cell), option),
           Takes(call, type, Cell) => Cell.null \/ option = Described(call, type, Cell)
    PROVE  ScalarInv'
<1>0. Cell.null \in BOOLEAN
  BY CellsAssumption DEF ScalarInv, TypeOK, MoreRows, Cell
<1>1. call.fn \notin {"encode", "objectid_from_hex", "timestamp_to_ts", "timestamp_parts"}
  BY DEF Decoders
<1>2. Takes(call, type, Cell) <=> Cell.null \/ type \in {"blob", "text"}
  BY <1>0, <1>1 DEF Takes
<1>3. /\ BlobBytes(Cell) \in {"none", "some", "error"}
      /\ BlobBytes(Cell) = "none" <=> Cell.null
      /\ BlobBytes(Cell) = "some" <=> ~Cell.null /\ type \in {"blob", "text"}
      /\ BlobBytes(Cell) = "error" <=> ~Cell.null /\ type \notin {"blob", "text"}
  BY <1>0 DEF BlobBytes
<1> DEFINE access == BlobBytes(Cell)
<1> HIDE DEF access
<1> QED BY <1>2, <1>3, AccessStep DEF access

-----------------------------------------------------------------------------
(* What a call is expected to answer, function by function.                *)

LEMMA DocumentAnswers ==
    ASSUME NEW q, NEW sql, NEW c
    PROVE  /\ q.fn = "to_json" => Described(q, sql, c)
                = IfDecodes(c, Some(<<GivenOr(q, "mode", "canonical"), c.id>>))
           /\ q.fn = "decode" => Described(q, sql, c) = IfDecodes(c, Some(<<"canonical", c.id>>))
           /\ q.fn = "field" => Described(q, sql, c)
                = IfDecodes(c, IfPresent(q, c, Some(<<GivenOr(q, "as", ""), c.id,
                                                      Given(q, "path")[1]>>)))
           /\ q.fn = "type_of" => Described(q, sql, c)
                = IfDecodes(c, IF Given(q, "path") = None THEN Some(<<"object">>)
                               ELSE IfPresent(q, c, Some(<<"type", c.id, Given(q, "path")[1]>>)))
           /\ q.fn \in {"from_json", "encode"} => Described(q, sql, c)
                = IF c.json \/ q.fn = "encode" THEN Some(<<"bson", c.id>>) ELSE None
<1>1. q.fn = "to_json" => Described(q, sql, c)
           = IfDecodes(c, Some(<<GivenOr(q, "mode", "canonical"), c.id>>))
  BY SMT DEF Described
<1>2. q.fn = "decode" => Described(q, sql, c) = IfDecodes(c, Some(<<"canonical", c.id>>))
  BY SMT DEF Described
<1>3. q.fn = "field" => Described(q, sql, c)
           = IfDecodes(c, IfPresent(q, c, Some(<<GivenOr(q, "as", ""), c.id,
                                                 Given(q, "path")[1]>>)))
  BY SMT DEF Described
<1>4. q.fn = "type_of" => Described(q, sql, c)
           = IfDecodes(c, IF Given(q, "path") = None THEN Some(<<"object">>)
                          ELSE IfPresent(q, c, Some(<<"type", c.id, Given(q, "path")[1]>>)))
  BY SMT DEF Described
<1>5. q.fn \in {"from_json", "encode"} => Described(q, sql, c)
           = IF c.json \/ q.fn = "encode" THEN Some(<<"bson", c.id>>) ELSE None
  BY SMT DEF Described
<1> QED BY <1>1, <1>2, <1>3, <1>4, <1>5

LEMMA IsValidAnswer ==
    ASSUME NEW q, NEW sql, NEW c, q.fn = "is_valid"
    PROVE  Described(q, sql, c) = Some(c.verdict = "ok")
BY SMT DEF Described

LEMMA WellFormedAnswer ==
    ASSUME NEW q, NEW sql, NEW c, q.fn = "well_formed"
    PROVE  Described(q, sql, c) =
               LET failed == c.verdict # "ok" IN
               Some([ok    |-> Some(~failed),
                     error |-> IF failed THEN Some(<<"message", c.verdict>>) ELSE None,
                     kind  |-> IF failed THEN Some(c.verdict) ELSE None])
BY SMT DEF Described

LEMMA KeysAnswer ==
    ASSUME NEW q, NEW sql, NEW c, q.fn = "keys"
    PROVE  Described(q, sql, c) = IfDecodes(c, Some(c.keys))
BY SMT DEF Described

LEMMA HexAnswer ==
    ASSUME NEW q, NEW sql, NEW c, q.fn = "objectid_hex"
    PROVE  Described(q, sql, c) = IF "raw" \in c.oid THEN Some(<<"hex", c.id>>) ELSE None
BY SMT DEF Described

LEMMA FromHexAnswer ==
    ASSUME NEW q, NEW sql, NEW c, q.fn = "objectid_from_hex"
    PROVE  Described(q, sql, c) = IF "hex" \in c.oid THEN Some(<<"raw", c.id>>) ELSE None
BY SMT DEF Described

LEMMA EpochAnswer ==
    ASSUME NEW q, NEW sql, NEW c, q.fn = "objectid_timestamp"
    PROVE  Described(q, sql, c) = IF (IF sql = "text" THEN "hex" ELSE "raw") \in c.oid
                                  THEN Some(1000000 * c.secs) ELSE None
BY SMT DEF Described

LEMMA ToTsAnswer ==
    ASSUME NEW q, NEW sql, NEW c, q.fn = "timestamp_to_ts"
    PROVE  Described(q, sql, c) = IF AsU32(c.t) = None THEN None
                                  ELSE Some(1000000 * AsU32(c.t)[1])
BY SMT DEF Described

LEMMA PartsAnswer ==
    ASSUME NEW q, NEW sql, NEW c, q.fn = "timestamp_parts"
    PROVE  Described(q, sql, c) = Some([t |-> AsU32(c.t), i |-> AsU32(c.i)])
BY SMT DEF Described

-----------------------------------------------------------------------------
(* The functions that answer one value.                                    *)

LEMMA CallKnown ==
    ASSUME ScalarInv, phase \notin {"planned", "refused"}
    PROVE  /\ call \in Calls /\ call.fn \in Functions /\ call.args \in Seq(Seq(STRING))
           /\ ~NoOverload(call)
BY CallsAssumption DEF ScalarInv, TypeOK, ArgumentsAccepted

LEMMA ToJsonStep == ASSUME ScalarInv, ToJson PROVE ScalarInv'
<1>1. call.fn = "to_json" /\ MoreRows("working")
  BY DEF ToJson, Row
<1>2. Given(call, "mode") = Mode(call)
  BY <1>1, CallKnown, ArgumentsByName DEF MoreRows
<1>3. Described(call, type, Cell) = Rendered(Cell, ModeOr("canonical"))
  BY <1>1, <1>2, DocumentAnswers DEF IfDecodes, GivenOr, Rendered, ModeOr
<1>4. call.fn \in Answerers \cap Decoders
  BY <1>1 DEF Answerers, Decoders, Functions, Gatherers
<1> QED BY <1>1, <1>3, <1>4, BlobStep DEF ToJson

LEMMA DecodeStep == ASSUME ScalarInv, Decode PROVE ScalarInv'
<1>1. call.fn = "decode" /\ MoreRows("working")
  BY DEF Decode, Row
<1>2. Described(call, type, Cell) = Rendered(Cell, "canonical")
  BY <1>1, DocumentAnswers DEF IfDecodes, Rendered
<1>3. call.fn \in Answerers \cap Decoders
  BY <1>1 DEF Answerers, Decoders, Functions, Gatherers
<1> QED BY <1>1, <1>2, <1>3, BlobStep DEF Decode

LEMMA FromJsonStep == ASSUME ScalarInv, FromJson PROVE ScalarInv'
<1>1. call.fn = "from_json" /\ MoreRows("working")
  BY DEF FromJson, Row
<1>2. Described(call, type, Cell) = IF Cell.json THEN Some(<<"bson", Cell.id>>) ELSE None
  BY <1>1, DocumentAnswers
<1>3. call.fn \in Answerers \cap Decoders
  BY <1>1 DEF Answerers, Decoders, Functions, Gatherers
<1> QED BY <1>1, <1>2, <1>3, BlobStep DEF FromJson

LEMMA FieldStep == ASSUME ScalarInv, Field PROVE ScalarInv'
<1>1. call.fn = "field" /\ MoreRows("working")
  BY DEF Field, Row
<1>2. Given(call, "path") = Path(call) /\ Given(call, "as") = Mode(call)
  BY <1>1, CallKnown, ArgumentsByName DEF MoreRows
<1>3. Described(call, type, Cell)
        = IF Cell.decodes /\ Path(call)[1] \in ToSet(Cell.keys)
          THEN Some(<<ModeOr(""), Cell.id, Path(call)[1]>>) ELSE None
  BY <1>1, <1>2, DocumentAnswers DEF IfDecodes, IfPresent, GivenOr, ModeOr
<1>4. call.fn \in Answerers \cap Decoders
  BY <1>1 DEF Answerers, Decoders, Functions, Gatherers
<1> QED BY <1>1, <1>3, <1>4, BlobStep DEF Field

LEMMA TypeOfStep == ASSUME ScalarInv, TypeOf PROVE ScalarInv'
<1>1. call.fn = "type_of" /\ MoreRows("working")
  BY DEF TypeOf, Row
<1>2. Given(call, "path") = Path(call)
  BY <1>1, CallKnown, ArgumentsByName DEF MoreRows
<1>3. Described(call, type, Cell)
        = IF ~Cell.decodes THEN None
          ELSE IF Path(call) = None THEN Some(<<"object">>)
          ELSE IF Path(call)[1] \in ToSet(Cell.keys)
          THEN Some(<<"type", Cell.id, Path(call)[1]>>) ELSE None
  BY <1>1, <1>2, DocumentAnswers DEF IfDecodes, IfPresent
<1>4. call.fn \in Answerers \cap Decoders
  BY <1>1 DEF Answerers, Decoders, Functions, Gatherers
<1> QED BY <1>1, <1>3, <1>4, BlobStep DEF TypeOf

LEMMA CellKnown ==
    ASSUME ScalarInv, NEW loop, MoreRows(loop)
    PROVE  /\ Cell.null \in BOOLEAN /\ Cell.secs \in Nat
           /\ Cell.t # None => Cell.t[1].n \in Int
           /\ Cell.i # None => Cell.i[1].n \in Int
BY CellsAssumption DEF ScalarInv, TypeOK, MoreRows, Cell

LEMMA EncodeStep == ASSUME ScalarInv, Encode PROVE ScalarInv'
<1>1. call.fn = "encode" /\ MoreRows("working")
  BY DEF Encode, Row
<1>2. Described(call, type, Cell) = Some(<<"bson", Cell.id>>)
  BY <1>1, DocumentAnswers
<1>3. call.fn \in Answerers
  BY <1>1 DEF Answerers, Functions, Gatherers
<1>4. Takes(call, type, Cell) <=> Cell.null \/ (type = "struct" /\ ~Cell.odd)
  BY <1>1 DEF Takes, Decoders
<1> DEFINE access == IF Cell.null THEN "none"
                     ELSE IF type # "struct" \/ Cell.odd THEN "error" ELSE "some"
<1>5. /\ access \in {"none", "some", "error"}
      /\ access = "none" <=> Cell.null
      /\ access = "some" => Takes(call, type, Cell)
      /\ access = "error" => ~Takes(call, type, Cell)
  BY <1>4, <1>1, CellKnown
<1>6. AnswerFrom(access, Some(<<"bson", Cell.id>>))
  BY DEF Encode
<1> HIDE DEF access
<1> QED BY <1>1, <1>2, <1>3, <1>5, <1>6, AccessStep

LEMMA ObjectIdHexStep == ASSUME ScalarInv, ObjectIdHex PROVE ScalarInv'
<1>1. call.fn = "objectid_hex" /\ MoreRows("working")
  BY DEF ObjectIdHex, Row
<1>2. Described(call, type, Cell) = IF "raw" \in Cell.oid THEN Some(<<"hex", Cell.id>>) ELSE None
  BY <1>1, HexAnswer
<1>3. call.fn \in Answerers \cap Decoders
  BY <1>1 DEF Answerers, Decoders, Functions, Gatherers
<1> QED BY <1>1, <1>2, <1>3, BlobStep DEF ObjectIdHex

\* text_str on a column that is text.
LEMMA TextAccess ==
    ASSUME ScalarInv, MoreRows("working"), type = "text"
    PROVE  /\ TextStr(Cell) \in {"none", "some", "error"} /\ TextStr(Cell) # "error"
           /\ TextStr(Cell) = "none" <=> Cell.null
BY CellKnown DEF TextStr

LEMMA ObjectIdFromHexStep == ASSUME ScalarInv, ObjectIdFromHex PROVE ScalarInv'
<1>1. call.fn = "objectid_from_hex" /\ MoreRows("working")
  BY DEF ObjectIdFromHex, Row
<1>2. type = "text"
  BY <1>1 DEF ScalarInv, ArgumentsAccepted
<1>3. Described(call, type, Cell) = IF "hex" \in Cell.oid THEN Some(<<"raw", Cell.id>>) ELSE None
  BY <1>1, FromHexAnswer
<1>4. call.fn \in Answerers /\ Takes(call, type, Cell)
  BY <1>1, <1>2 DEF Answerers, Functions, Gatherers, Takes
<1> DEFINE access == TextStr(Cell)
<1>5. access \in {"none", "some", "error"} /\ access # "error" /\ (access = "none" <=> Cell.null)
  BY <1>1, <1>2, TextAccess
<1>6. AnswerFrom(access, IF "hex" \in Cell.oid THEN Some(<<"raw", Cell.id>>) ELSE None)
  BY DEF ObjectIdFromHex
<1> HIDE DEF access
<1> QED BY <1>1, <1>3, <1>4, <1>5, <1>6, AccessStep

LEMMA ObjectIdTimestampStep == ASSUME ScalarInv, ObjectIdTimestamp PROVE ScalarInv'
<1>1. call.fn = "objectid_timestamp" /\ MoreRows("working")
  BY DEF ObjectIdTimestamp, Row
<1>2. call.fn \in Answerers \cap Decoders
  BY <1>1 DEF Answerers, Decoders, Functions, Gatherers
<1> DEFINE form   == IF type = "text" THEN "hex" ELSE "raw"
           option == IF form \in Cell.oid THEN Some(1000000 * Cell.secs) ELSE None
<1>3. Described(call, type, Cell) = option
  BY <1>1, EpochAnswer
<1>4. Cell.null \in BOOLEAN /\ Cell.secs \in Nat
  BY <1>1, CellKnown
<1>5. (IF type = "text" THEN TextStr(Cell) ELSE BlobBytes(Cell)) = BlobBytes(Cell)
  BY DEF TextStr, BlobBytes
<1>6. (IF ParseObjectId(Cell, form) = None THEN None
       ELSE Some(TsMillis(ObjectIdEpochMillis(ParseObjectId(Cell, form)[1])))) = option
  <2>1. CASE form \in Cell.oid
    <3>1. ParseObjectId(Cell, form) # None /\ ParseObjectId(Cell, form)[1] = Cell
      BY <2>1 DEF ParseObjectId, Some, None
    <3>2. TsMillis(ObjectIdEpochMillis(Cell)) = 1000000 * Cell.secs
      BY <1>4 DEF TsMillis, ObjectIdEpochMillis
    <3> QED BY <3>1, <3>2, <2>1
  <2>2. CASE form \notin Cell.oid
    BY <2>2 DEF ParseObjectId
  <2> QED BY <2>1, <2>2
<1>7. AnswerFrom(BlobBytes(Cell), option)
  <2> HIDE DEF option
  <2> QED BY <1>5, <1>6 DEF ObjectIdTimestamp
<1> HIDE DEF option
<1> QED BY <1>1, <1>2, <1>3, <1>7, BlobStep

\* The column of the functions that take a STRUCT for granted.
LEMMA StructTaken ==
    ASSUME NEW q, q.fn \in {"timestamp_to_ts", "timestamp_parts"}, NEW sql,
           NEW c, c.null \in BOOLEAN
    PROVE  Takes(q, sql, c) <=> (c.null \/ sql = "struct")
<1>1. q.fn \notin Decoders /\ q.fn # "encode" /\ q.fn # "objectid_from_hex"
  BY DEF Decoders
<1> QED BY <1>1 DEF Takes

LEMMA TimestampToTsStep == ASSUME ScalarInv, TimestampToTs PROVE ScalarInv'
<1>1. call.fn = "timestamp_to_ts" /\ MoreRows("working")
  BY DEF TimestampToTs, Row
<1>2. /\ Cell.null \in BOOLEAN
      /\ StructU32(Cell.t) = AsU32(Cell.t)
      /\ StructU32(Cell.t) # None => StructU32(Cell.t)[1] \in Int
  BY <1>1, CellKnown, SameU32, U32Type
<1>3. Takes(call, type, Cell) <=> ~NotAStruct
  BY <1>1, <1>2, StructTaken DEF NotAStruct
<1>4. CASE NotAStruct
  <2>1. Stop("panicked")
    BY <1>4 DEF TimestampToTs
  <2> QED BY <1>1, <1>3, <1>4, <2>1, MisfitStep
<1>5. CASE ~NotAStruct
  <2> DEFINE option == IF Cell.null \/ StructU32(Cell.t) = None THEN None
                       ELSE Some(TsMillis(StructU32(Cell.t)[1] * 1000))
  <2>1. Answer(option)
    BY <1>5 DEF TimestampToTs
  <2>2. option = Expected(call, type, Cell)
    <3>1. CASE Cell.null
      BY <3>1 DEF Expected
    <3>2. CASE ~Cell.null
      <4>1. Expected(call, type, Cell)
                = IF AsU32(Cell.t) = None THEN None ELSE Some(1000000 * AsU32(Cell.t)[1])
        BY <1>1, <3>2, ToTsAnswer DEF Expected
      <4>2. StructU32(Cell.t) # None
                => TsMillis(StructU32(Cell.t)[1] * 1000) = 1000000 * AsU32(Cell.t)[1]
        BY <1>2 DEF TsMillis
      <4> QED BY <1>2, <3>2, <4>1, <4>2
    <3> QED BY <1>2, <3>1, <3>2
  <2>3. call.fn \in Answerers
    BY <1>1 DEF Answerers, Functions, Gatherers
  <2> HIDE DEF option
  <2> QED BY <1>1, <1>3, <1>5, <2>1, <2>2, <2>3, AnswerStep
<1> QED BY <1>4, <1>5

LEMMA TimestampPartsStep == ASSUME ScalarInv, TimestampParts PROVE ScalarInv'
<1>1. call.fn = "timestamp_parts" /\ MoreRows("working")
  BY DEF TimestampParts, Row
<1>2. /\ Cell.null \in BOOLEAN
      /\ StructU32(Cell.t) = AsU32(Cell.t) /\ StructU32(Cell.i) = AsU32(Cell.i)
  BY <1>1, CellKnown, SameU32
<1>3. Takes(call, type, Cell) <=> ~NotAStruct
  BY <1>1, <1>2, StructTaken DEF NotAStruct
<1>4. CASE NotAStruct
  <2>1. Stop("panicked")
    BY <1>4 DEF TimestampParts
  <2> QED BY <1>1, <1>3, <1>4, <2>1, MisfitStep
<1>5. CASE ~NotAStruct
  <2> DEFINE entries == IF Cell.null THEN [t |-> None, i |-> None, valid |-> FALSE]
                        ELSE [t |-> StructU32(Cell.t), i |-> StructU32(Cell.i), valid |-> TRUE]
  <2>1. Push(entries)
    BY <1>5 DEF TimestampParts
  <2>2. Entry(entries) = Expected(call, type, Cell)
    <3>0. DOMAIN cols \ {"valid"} = {"t", "i"}
      BY <1>1 DEF ScalarInv, InProcess, MoreRows, Built, NewColumns
    <3>1. CASE Cell.null
      BY <1>1, <3>1 DEF Entry, Expected
    <3>2. CASE ~Cell.null
      <4>1. Expected(call, type, Cell) = Some([t |-> AsU32(Cell.t), i |-> AsU32(Cell.i)])
        BY <1>1, <3>2, PartsAnswer DEF Expected
      <4>2. entries = [t |-> AsU32(Cell.t), i |-> AsU32(Cell.i), valid |-> TRUE]
        BY <1>2, <3>2
      <4> HIDE DEF entries
      <4>3. [c \in {"t", "i"} |-> entries[c]] = [t |-> AsU32(Cell.t), i |-> AsU32(Cell.i)]
        BY <4>2
      <4>4. Entry(entries) = Some([c \in {"t", "i"} |-> entries[c]])
        BY <1>1, <3>0, <4>2 DEF Entry
      <4> QED BY <4>1, <4>3, <4>4
    <3> QED BY <1>2, <3>1, <3>2
  <2>3. call.fn \in Functions \ {"keys"}
    BY <1>1 DEF Functions
  <2> HIDE DEF entries
  <2> QED BY <1>1, <1>3, <1>5, <2>1, <2>2, <2>3, PushStep DEF Cell
<1> QED BY <1>4, <1>5

-----------------------------------------------------------------------------
(* The functions that blob_scalar! makes.                                  *)

\* What was gathered is the cell, and the function takes it.
LEMMA InputIsTheCell ==
    ASSUME ScalarInv, MoreRows("working"), call.fn \in Gatherers
    PROVE  /\ Takes(call, type, Cell) /\ Cell.null \in BOOLEAN
           /\ input[row + 1] = None <=> Cell.null
           /\ ~Cell.null => input[row + 1][1] = Cell
<1>1. row + 1 \in 1 .. Len(batch)
  BY DEF ScalarInv, TypeOK, MoreRows
<1>2. GatheredUpTo(Len(batch))
  BY DEF ScalarInv, InProcess, MoreRows
<1>3. Takes(call, type, Cell) /\ input[row + 1] = IF Cell.null THEN None ELSE Some(Cell)
  BY <1>1, <1>2 DEF GatheredUpTo, Cell
<1>4. Cell.null \in BOOLEAN
  BY CellKnown
<1> QED BY <1>3, <1>4 DEF Some, None

LEMMA IsValidStep == ASSUME ScalarInv, IsValid PROVE ScalarInv'
<1>1. call.fn = "is_valid" /\ MoreRows("working") /\ call.fn \in Gatherers
  BY DEF IsValid, Row, Gatherers
<1> DEFINE option == IF Cell.null THEN None ELSE Some(Cell.verdict = "ok")
           entries == [value |-> option]
<1>2. /\ Cell.null \in BOOLEAN /\ (input[row + 1] = None <=> Cell.null)
      /\ ~Cell.null => input[row + 1][1] = Cell
  BY <1>1, InputIsTheCell
<1>3. Answer(IF input[row + 1] = None THEN None ELSE Some(input[row + 1][1].verdict = "ok"))
  BY DEF IsValid
<1>4. Answer(option)
  <2>1. CASE Cell.null
    BY <1>2, <1>3, <2>1
  <2>2. CASE ~Cell.null
    BY <1>2, <1>3, <2>2
  <2> QED BY <2>1, <2>2
<1>5. option = Expected(call, type, Cell)
  <2>1. Described(call, type, Cell) = Some(Cell.verdict = "ok")
    BY <1>1, IsValidAnswer
  <2> QED BY <1>2, <2>1 DEF Expected
<1> HIDE DEF option
<1>6. Push(entries) /\ Entry(entries) = option
  BY <1>1, <1>4 DEF Answer, Entry
<1> HIDE DEF entries
<1>7. call.fn \in Functions \ {"keys"}
  BY <1>1 DEF Functions
<1> QED BY <1>1, <1>5, <1>6, <1>7, PushStep DEF Cell

LEMMA WellFormedStep == ASSUME ScalarInv, WellFormed PROVE ScalarInv'
<1>1. call.fn = "well_formed" /\ MoreRows("working") /\ call.fn \in Gatherers
  BY DEF WellFormed, Row, Gatherers
<1> DEFINE verdict == Cell.verdict
           entries == IF Cell.null
                      THEN [ok |-> None, error |-> None, kind |-> None, valid |-> FALSE]
                      ELSE IF verdict = "ok"
                      THEN [ok |-> Some(TRUE), error |-> None, kind |-> None, valid |-> TRUE]
                      ELSE [ok |-> Some(FALSE), error |-> Some(<<"message", verdict>>),
                            kind |-> Some(verdict), valid |-> TRUE]
<1>2. /\ Cell.null \in BOOLEAN /\ (input[row + 1] = None <=> Cell.null)
      /\ ~Cell.null => input[row + 1][1] = Cell
  BY <1>1, InputIsTheCell
<1>3. Push(entries)
  <2>1. CASE Cell.null
    BY <1>2, <2>1 DEF WellFormed
  <2>2. CASE ~Cell.null
    BY <1>2, <2>2 DEF WellFormed
  <2> QED BY <2>1, <2>2
<1>4. DOMAIN cols \ {"valid"} = {"ok", "error", "kind"}
  BY <1>1 DEF ScalarInv, InProcess, MoreRows, Built, NewColumns
<1>5. Entry(entries) = IF entries.valid
                       THEN Some([c \in {"ok", "error", "kind"} |-> entries[c]]) ELSE None
  BY <1>1, <1>4 DEF Entry
<1>6. Entry(entries) = Expected(call, type, Cell)
  <2>1. CASE Cell.null
    BY <1>5, <2>1 DEF Expected
  <2>2. CASE ~Cell.null
    <3> DEFINE failed == verdict # "ok"
               answer == [ok    |-> Some(~failed),
                          error |-> IF failed THEN Some(<<"message", verdict>>) ELSE None,
                          kind  |-> IF failed THEN Some(verdict) ELSE None]
    <3>1. Expected(call, type, Cell) = Some(answer)
      <4>1. Described(call, type, Cell) = Some(answer)
        BY <1>1, WellFormedAnswer
      <4> HIDE DEF answer
      <4> QED BY <2>2, <4>1 DEF Expected
    <3>2. entries.valid /\ [c \in {"ok", "error", "kind"} |-> entries[c]] = answer
      <4> HIDE DEF verdict
      <4>1. CASE failed
        <5>1. (~failed) = FALSE
          BY <4>1
        <5>2. answer = [ok |-> Some(FALSE), error |-> Some(<<"message", verdict>>),
                        kind |-> Some(verdict)]
          BY <4>1, <5>1
        <5>3. entries = [ok |-> Some(FALSE), error |-> Some(<<"message", verdict>>),
                         kind |-> Some(verdict), valid |-> TRUE]
          BY <2>2, <4>1
        <5> HIDE DEF answer, entries
        <5>4. /\ answer = [c \in {"ok", "error", "kind"} |-> answer[c]]
              /\ \A c \in {"ok", "error", "kind"} : entries[c] = answer[c]
          BY <5>2, <5>3
        <5>5. entries.valid
          BY <5>3
        <5> QED BY <5>4, <5>5
      <4>2. CASE ~failed
        <5>1. (~failed) = TRUE
          BY <4>2
        <5>2. answer = [ok |-> Some(TRUE), error |-> None, kind |-> None]
          BY <4>2, <5>1
        <5>3. entries = [ok |-> Some(TRUE), error |-> None, kind |-> None, valid |-> TRUE]
          BY <2>2, <4>2
        <5> HIDE DEF answer, entries
        <5>4. /\ answer = [c \in {"ok", "error", "kind"} |-> answer[c]]
              /\ \A c \in {"ok", "error", "kind"} : entries[c] = answer[c]
          BY <5>2, <5>3
        <5>5. entries.valid
          BY <5>3
        <5> QED BY <5>4, <5>5
      <4> QED BY <4>1, <4>2
    <3> HIDE DEF answer, entries
    <3> QED BY <1>5, <3>1, <3>2
  <2> QED BY <1>2, <2>1, <2>2
<1>7. call.fn \in Functions \ {"keys"}
  BY <1>1 DEF Functions
<1> HIDE DEF entries
<1> QED BY <1>1, <1>3, <1>6, <1>7, PushStep DEF Cell

-----------------------------------------------------------------------------
(* The lists of keys.                                                      *)

LEMMA SliceBefore ==
    ASSUME NEW S, NEW s \in Seq(S), NEW t \in Seq(S),
           NEW m \in 0 .. Len(s), NEW n \in 0 .. Len(s)
    PROVE  SubSeq(s \o t, m + 1, n) = SubSeq(s, m + 1, n)
<1>1. Len(s) \in Nat /\ m + 1 \in Int /\ n \in Int
  BY LenProperties
<1>2. \A k \in m + 1 .. n : k \in 1 .. Len(s)
  BY <1>1
<1>3. \A k \in m + 1 .. n : s[k] \in S /\ (s \o t)[k] = s[k]
  BY <1>2, <1>1, ElementOfSeq, ConcatProperties, LenProperties
<1> DEFINE a == SubSeq(s \o t, m + 1, n)
           b == SubSeq(s, m + 1, n)
<1>4. /\ a \in Seq(S) /\ Len(a) = IF m + 1 <= n THEN n - (m + 1) + 1 ELSE 0
      /\ \A k \in 1 .. n - (m + 1) + 1 : a[k] = (s \o t)[m + 1 + k - 1]
  BY <1>1, <1>3, SubSeqProperties
<1>5. /\ b \in Seq(S) /\ Len(b) = IF m + 1 <= n THEN n - (m + 1) + 1 ELSE 0
      /\ \A k \in 1 .. n - (m + 1) + 1 : b[k] = s[m + 1 + k - 1]
  BY <1>1, <1>3, SubSeqProperties
<1> HIDE DEF a, b
<1>6. ASSUME NEW k \in 1 .. Len(a) PROVE a[k] = b[k]
  <2>1. k \in 1 .. n - (m + 1) + 1 /\ m + 1 + k - 1 \in m + 1 .. n
    BY <1>1, <1>4
  <2> QED BY <2>1, <1>3, <1>4, <1>5
<1>7. a = b
  BY <1>4, <1>5, <1>6, SeqEqual
<1> QED BY <1>7 DEF a, b

LEMMA SliceAfter ==
    ASSUME NEW S, NEW s \in Seq(S), NEW t \in Seq(S)
    PROVE  SubSeq(s \o t, Len(s) + 1, Len(s) + Len(t)) = t
<1>1. Len(s) \in Nat /\ Len(t) \in Nat
  BY LenProperties
<1> DEFINE m == Len(s) + 1
           n == Len(s) + Len(t)
           a == SubSeq(s \o t, m, n)
<1>2. \A k \in m .. n : (s \o t)[k] = t[k - Len(s)] /\ k - Len(s) \in 1 .. Len(t)
  BY <1>1, ConcatProperties
<1>3. \A k \in m .. n : (s \o t)[k] \in S
  BY <1>2, ElementOfSeq
<1>4. m \in Int /\ n \in Int /\ n - m + 1 = Len(t)
  BY <1>1
<1>5. /\ a \in Seq(S) /\ Len(a) = IF m <= n THEN n - m + 1 ELSE 0
      /\ \A k \in 1 .. n - m + 1 : a[k] = (s \o t)[m + k - 1]
  <2> DEFINE c == s \o t
  <2>1. \A k \in m .. n : c[k] \in S
    BY <1>3
  <2> HIDE DEF m, n, c
  <2>2. /\ SubSeq(c, m, n) \in Seq(S)
        /\ Len(SubSeq(c, m, n)) = IF m <= n THEN n - m + 1 ELSE 0
        /\ \A k \in 1 .. n - m + 1 : SubSeq(c, m, n)[k] = c[m + k - 1]
    BY <2>1, <1>4, SubSeqProperties
  <2> QED BY <2>2 DEF c
<1>6. Len(a) = Len(t)
  BY <1>1, <1>5
<1>7. ASSUME NEW k \in 1 .. Len(a) PROVE a[k] = t[k]
  <2> DEFINE j == m + k - 1
  <2>1. k \in 1 .. n - m + 1 /\ j \in m .. n /\ j - Len(s) = k
    BY <1>1, <1>4, <1>6
  <2> HIDE DEF a, m, n
  <2>2. a[k] = (s \o t)[j]
    BY <2>1, <1>5
  <2> HIDE DEF j
  <2>3. (s \o t)[j] = t[j - Len(s)]
    BY <2>1, <1>2
  <2> QED BY <2>1, <2>2, <2>3
<1> HIDE DEF a
<1>8. a = t
  BY <1>5, <1>6, <1>7, SeqEqual
<1> QED BY <1>8 DEF a

LEMMA AppendListKeepsBuilt ==
    ASSUME Built, ListsEnd, row \in Nat, call.fn = "keys",
           NEW items \in Seq(STRING), NEW valid \in BOOLEAN, AppendList(items, valid),
           (IF valid THEN Some(items) ELSE None) = Expected(call, type, batch[row + 1])
    PROVE  Built' /\ ListsEnd'
<1>1. /\ DOMAIN cols = {"values", "offsets", "valid"}
      /\ cols.values \in Seq(STRING) /\ Len(cols.values) \in Nat
      /\ IsList(cols.offsets) /\ Len(cols.offsets) = row + 1
      /\ IsList(cols.valid) /\ Len(cols.valid) = row
  BY LenProperties DEF Built, ListsEnd, NewColumns
<1> DEFINE ends == cols.offsets
           start == Len(cols.values)
           end  == start + Len(items)
<1>2. /\ \A k \in 1 .. row + 1 : ends[k] \in 0 .. start
      /\ ends[row + 1] = start
  BY DEF ListsEnd
<1>3. /\ DOMAIN cols' = {"values", "offsets", "valid"}
      /\ cols'.values = cols.values \o items
      /\ cols'.offsets = Append(ends, end) /\ cols'.valid = Append(cols.valid, valid)
      /\ row' = row + 1 /\ UNCHANGED <<call, type, batch>>
  BY DEF AppendList
<1>4. /\ cols'.values \in Seq(STRING) /\ Len(cols'.values) = end /\ Len(items) \in Nat
  BY <1>1, <1>3, ConcatProperties, LenProperties
<1>5. /\ IsList(cols'.offsets) /\ Len(cols'.offsets) = row + 2
      /\ \A k \in 1 .. row + 1 : cols'.offsets[k] = ends[k]
      /\ cols'.offsets[row + 2] = end
  <2> HIDE DEF ends, end
  <2>1. IsList(ends) /\ Len(ends) = row + 1
    BY <1>1 DEF ends
  <2>2. Len(ends) + 1 = row + 2
    BY <2>1
  <2> QED BY <1>3, <2>1, <2>2, AppendToList
<1>6. /\ IsList(cols'.valid) /\ Len(cols'.valid) = row + 1
      /\ \A k \in 1 .. row : cols'.valid[k] = cols.valid[k]
      /\ cols'.valid[row + 1] = valid
  BY <1>1, <1>3, AppendToList
<1> HIDE DEF ends, start, end
<1>7. ASSUME NEW k \in 1 .. row PROVE RowAt(k)' = Expected(call, type, batch[k])
  <2>1. k \in 1 .. row + 1 /\ k + 1 \in 1 .. row + 1
    OBVIOUS
  <2>2. ends[k] \in 0 .. Len(cols.values) /\ ends[k + 1] \in 0 .. Len(cols.values)
    BY <2>1, <1>2 DEF start
  <2>3. SubSeq(cols.values \o items, ends[k] + 1, ends[k + 1])
            = SubSeq(cols.values, ends[k] + 1, ends[k + 1])
    <3> DEFINE v == cols.values
    <3>1. v \in Seq(STRING) /\ ends[k] \in 0 .. Len(v) /\ ends[k + 1] \in 0 .. Len(v)
      BY <1>1, <2>2
    <3> HIDE DEF v
    <3>2. \A m, n \in 0 .. Len(v) : SubSeq(v \o items, m + 1, n) = SubSeq(v, m + 1, n)
      BY <3>1, SliceBefore
    <3> QED BY <3>1, <3>2 DEF v
  <2>4. SubSeq(cols'.values, cols'.offsets[k] + 1, cols'.offsets[k + 1])
            = SubSeq(cols.values, ends[k] + 1, ends[k + 1])
    BY <2>1, <2>3, <1>3, <1>5
  <2>5. cols'.valid[k] = cols.valid[k]
    BY <1>6
  <2>6. RowAt(k)' = RowAt(k)
    BY <2>4, <2>5, <1>3 DEF RowAt, ends
  <2> QED BY <2>6 DEF Built
<1>8. ASSUME NEW k, k = row + 1 PROVE RowAt(k)' = Expected(call, type, batch[k])
  <2>1. SubSeq(cols.values \o items, start + 1, start + Len(items)) = items
    BY <1>1, SliceAfter DEF start
  <2>2. cols'.offsets[k] = start /\ cols'.offsets[k + 1] = end /\ cols'.valid[k] = valid
    <3>1. k + 1 = row + 2 /\ k \in 1 .. row + 1
      BY <1>8
    <3> QED BY <3>1, <1>2, <1>5, <1>6, <1>8
  <2>3. SubSeq(cols'.values, cols'.offsets[k] + 1, cols'.offsets[k + 1]) = items
    BY <2>1, <2>2, <1>3 DEF end
  <2>4. RowAt(k)' = IF valid THEN Some(items) ELSE None
    BY <2>2, <2>3, <1>3 DEF RowAt
  <2> QED BY <2>4, <1>8
<1>9. \A k \in 1 .. row' : RowAt(k)' = Expected(call, type, batch[k])'
  <2>1. \A k \in 1 .. row' : k \in 1 .. row \/ k = row + 1
    BY <1>3
  <2> QED BY <2>1, <1>3, <1>7, <1>8
<1>10. Built'
  <2>1. DOMAIN cols' = DOMAIN NewColumns(call'.fn)
    BY <1>3 DEF NewColumns
  <2>2. IsList(cols'.values)
    BY <1>4, SeqIsList
  <2>3. \A c \in DOMAIN cols' :
           /\ IsList(cols'[c])
           /\ c # "values" => Len(cols'[c]) = row' + (IF c = "offsets" THEN 1 ELSE 0)
    <3>1. row' = row + 1 /\ row' + 1 = row + 2 /\ row' + 0 = row + 1
      BY <1>3
    <3>2. ASSUME NEW c \in {"values", "offsets", "valid"}
          PROVE  /\ IsList(cols'[c])
                 /\ c # "values" => Len(cols'[c]) = row' + (IF c = "offsets" THEN 1 ELSE 0)
      <4>1. CASE c = "values"
        BY <4>1, <2>2
      <4>2. CASE c = "offsets"
        BY <4>2, <3>1, <1>5
      <4>3. CASE c = "valid"
        BY <4>3, <3>1, <1>6
      <4> QED BY <4>1, <4>2, <4>3
    <3> QED BY <3>2, <1>3
  <2> QED BY <2>1, <2>3, <1>9 DEF Built
<1>11. ListsEnd'
  <2>1. ASSUME NEW k \in 1 .. row + 2 PROVE cols'.offsets[k] \in 0 .. end
    <3>1. start \in Nat /\ end \in Nat /\ start <= end
      BY <1>1, <1>4 DEF start, end
    <3>2. CASE k = row + 2
      BY <3>1, <3>2, <1>5
    <3>3. CASE k \in 1 .. row + 1
      BY <3>1, <3>3, <1>2, <1>5
    <3> QED BY <3>2, <3>3
  <2>2. row' + 1 = row + 2
    BY <1>3
  <2> QED BY <2>1, <2>2, <1>4, <1>5 DEF ListsEnd
<1> QED BY <1>10, <1>11

LEMMA KeysStep == ASSUME ScalarInv, Keys PROVE ScalarInv'
<1>1. call.fn = "keys" /\ MoreRows("working") /\ call.fn \in Gatherers
  BY DEF Keys, Row, Gatherers
<1>2. /\ Cell.null \in BOOLEAN /\ (input[row + 1] = None <=> Cell.null)
      /\ ~Cell.null => input[row + 1][1] = Cell
  BY <1>1, InputIsTheCell
<1>3. Cell.keys \in Seq(STRING) /\ <<>> \in Seq(STRING)
  BY <1>1, CellsAssumption, EmptySeq DEF ScalarInv, TypeOK, MoreRows, Cell
<1> DEFINE listed == ~Cell.null /\ Cell.decodes
           items  == IF listed THEN Cell.keys ELSE <<>>
<1>4. AppendList(items, listed)
  <2>1. CASE listed
    <3>1. AppendList(Cell.keys, TRUE) /\ listed = TRUE
      BY <1>2, <2>1 DEF Keys
    <3> QED BY <2>1, <3>1
  <2>2. CASE ~listed
    <3>1. AppendList(<<>>, FALSE) /\ listed = FALSE
      BY <1>2, <2>2 DEF Keys
    <3> QED BY <2>2, <3>1
  <2> QED BY <2>1, <2>2
<1>5. (IF listed THEN Some(items) ELSE None) = Expected(call, type, batch[row + 1])
  <2>1. Described(call, type, Cell) = IfDecodes(Cell, Some(Cell.keys))
    BY <1>1, KeysAnswer
  <2> QED BY <1>2, <2>1 DEF Expected, IfDecodes, Cell
<1>6. listed \in BOOLEAN /\ items \in Seq(STRING)
  BY <1>3
<1> HIDE DEF listed, items
<1>7. Built /\ ListsEnd /\ row \in Nat
  BY <1>1 DEF ScalarInv, InProcess, TypeOK, MoreRows
<1>8. Built' /\ ListsEnd'
  BY <1>1, <1>4, <1>5, <1>6, <1>7, AppendListKeepsBuilt
<1>9. RowDone
  BY <1>1, <1>4 DEF RowDone, AppendList, MoreRows
<1> QED BY <1>1, <1>8, <1>9, RowStep

-----------------------------------------------------------------------------
(* Steps around the rows.                                                  *)

LEMMA BindStep == ASSUME ScalarInv, Bind PROVE ScalarInv'
<1>1. TypeOK'
  BY DEF ScalarInv, TypeOK, Bind, Over
<1>2. ArgumentsAccepted'
  BY DEF ScalarInv, ArgumentsAccepted, Bind
<1>3. InProcess'
  BY DEF InProcess, Bind
<1>4. RowsAnswerTheirCells' /\ IsList(delivered)'
  BY DEF ScalarInv, RowsAnswerTheirCells, Bind
<1>5. StopsExactlyAtMisfits'
  BY DEF ScalarInv, StopsExactlyAtMisfits, Bind
<1> QED BY <1>1, <1>2, <1>3, <1>4, <1>5 DEF ScalarInv

LEMMA RefuseArgumentsStep == ASSUME ScalarInv, RefuseArguments PROVE ScalarInv'
<1>1. Stop("failed") /\ ProcessRefuses(call) /\ phase \notin {"planned", "refused"}
  BY DEF RefuseArguments
<1> QED BY <1>1, StopStep

\* Columns in which no row is built yet.
LEMMA NewIsBuilt ==
    ASSUME call.fn \in Functions, cols' = NewColumns(call.fn), row' = 0, call' = call
    PROVE  Built' /\ ListsEnd'
<1>1. \A c \in DOMAIN cols' :
         /\ IsList(cols'[c])
         /\ c # "values" => Len(cols'[c]) = row' + (IF c = "offsets" THEN 1 ELSE 0)
  <2>1. IsList(<<>>) /\ Len(<<>>) = 0
    BY EmptyIsList
  <2>2. IsList(<<0>>) /\ Len(<<0>>) = 1
    <3>1. <<0>> \in Seq(Nat)
      OBVIOUS
    <3> QED BY <3>1, SeqIsList
  <2>3. CASE call.fn = "keys"
    <3>1. cols' = [values |-> <<>>, offsets |-> <<0>>, valid |-> <<>>]
      BY <2>3 DEF NewColumns
    <3>2. /\ DOMAIN cols' = {"values", "offsets", "valid"}
          /\ cols'["values"] = <<>> /\ cols'["offsets"] = <<0>> /\ cols'["valid"] = <<>>
      BY <3>1
    <3>3. ASSUME NEW c \in {"values", "offsets", "valid"}
          PROVE  /\ IsList(cols'[c])
                 /\ c # "values" => Len(cols'[c]) = row' + (IF c = "offsets" THEN 1 ELSE 0)
      <4>1. CASE c = "values"
        BY <4>1, <2>1, <3>2
      <4>2. CASE c = "offsets"
        BY <4>2, <2>2, <3>2
      <4>3. CASE c = "valid"
        BY <4>3, <2>1, <3>2
      <4> QED BY <4>1, <4>2, <4>3
    <3> QED BY <3>2, <3>3
  <2>4. CASE call.fn # "keys"
    BY <2>1, <2>4 DEF NewColumns
  <2> QED BY <2>3, <2>4
<1>2. Built'
  <2>1. 1 .. row' = {}
    OBVIOUS
  <2> QED BY <1>1, <2>1 DEF Built
<1>3. ListsEnd'
  <2>1. <<>> \in Seq(STRING) /\ Len(<<>>) = 0
    BY EmptySeq
  <2>2. CASE call.fn = "keys"
    <3>1. cols'.values = <<>> /\ cols'.offsets = <<0>>
      BY <2>2 DEF NewColumns
    <3> QED BY <2>1, <3>1 DEF ListsEnd
  <2>3. CASE call.fn # "keys"
    BY <2>3 DEF ListsEnd
  <2> QED BY <2>2, <2>3
<1> QED BY <1>2, <1>3

LEMMA StartBatchStep == ASSUME ScalarInv, StartBatch PROVE ScalarInv'
<1> USE DEF StartBatch
<1>0. /\ call.fn \in Functions /\ UNCHANGED <<call, type, fed, delivered>>
      /\ batch' \in Seq(Cells[type]) /\ row' = 0 /\ input' = <<>>
  <2>1. BoundedSeq(Cells[type], MaxCells - Len(fed)) \subseteq Seq(Cells[type])
    BY DEF BoundedSeq, SeqOf
  <2> QED BY <2>1, CallKnown
<1>1. Built' /\ ListsEnd'
  BY <1>0, NewIsBuilt
<1>2. TypeOK'
  <2>1. row' \in 0 .. Len(batch')
    BY <1>0, LenProperties
  <2> QED BY <1>0, <1>1, <2>1 DEF ScalarInv, TypeOK, Over, Built
<1>3. ArgumentsAccepted'
  BY DEF ScalarInv, ArgumentsAccepted
<1>4. InProcess'
  <2>1. 1 .. row' = {}
    BY <1>0
  <2>2. GatheredUpTo(row)'
    BY <1>0, <2>1, EmptyIsList DEF GatheredUpTo
  <2> QED BY <1>0, <1>1, <2>1, <2>2 DEF InProcess
<1>5. RowsAnswerTheirCells' /\ IsList(delivered)'
  BY DEF ScalarInv, RowsAnswerTheirCells
<1>6. StopsExactlyAtMisfits'
  BY DEF ScalarInv, StopsExactlyAtMisfits
<1> QED BY <1>2, <1>3, <1>4, <1>5, <1>6 DEF ScalarInv

LEMMA GatherStep == ASSUME ScalarInv, Gather PROVE ScalarInv'
<1>1. /\ MoreRows("gathering") /\ call.fn \in Gatherers /\ cols = NewColumns(call.fn)
      /\ GatheredUpTo(row) /\ Cell.null \in BOOLEAN
      /\ row \in Nat /\ row + 1 \in 1 .. Len(batch) /\ batch \in Seq(Cells[type])
  BY CellKnown DEF Gather, MoreRows, ScalarInv, InProcess, TypeOK
<1>2. /\ BlobBytes(Cell) = "none" <=> Cell.null
      /\ BlobBytes(Cell) = "error" <=> ~Takes(call, type, Cell)
  <2>1. /\ call.fn \in Decoders
        /\ call.fn \notin {"encode", "objectid_from_hex", "timestamp_to_ts", "timestamp_parts"}
    BY <1>1 DEF Gatherers, Decoders
  <2>2. Takes(call, type, Cell) <=> Cell.null \/ type \in {"blob", "text"}
    BY <1>1, <2>1 DEF Takes
  <2> QED BY <1>1, <2>2 DEF BlobBytes
<1>3. CASE BlobBytes(Cell) = "error"
  <2>1. Stop("failed") /\ ~Takes(call, type, Cell)
    BY <1>2, <1>3 DEF Gather
  <2> QED BY <1>1, <2>1, MisfitStep
<1>4. CASE BlobBytes(Cell) # "error"
  <2> DEFINE item == IF Cell.null THEN None ELSE Some(Cell)
  <2>1. /\ input' = Append(input, item) /\ row' = row + 1
        /\ UNCHANGED <<call, type, phase, batch, cols, fed, delivered>>
    BY <1>2, <1>4 DEF Gather
  <2>2. IsList(input) /\ Len(input) = row
    BY <1>1 DEF GatheredUpTo
  <2> HIDE DEF item
  <2>3. /\ IsList(input') /\ Len(input') = row + 1
        /\ \A k \in 1 .. row : input'[k] = input[k]
        /\ input'[row + 1] = item
    BY <2>1, <2>2, AppendToList
  <2>4. ASSUME NEW k \in 1 .. row + 1
        PROVE  /\ Takes(call, type, batch[k])
               /\ input'[k] = IF batch[k].null THEN None ELSE Some(batch[k])
    <3>1. CASE k = row + 1
      BY <3>1, <1>2, <1>4, <2>3 DEF item, Cell
    <3>2. CASE k \in 1 .. row
      BY <3>2, <1>1, <2>3 DEF GatheredUpTo
    <3> QED BY <3>1, <3>2, <1>1
  <2>5. GatheredUpTo(row)'
    BY <2>1, <2>3, <2>4 DEF GatheredUpTo
  <2>6. phase = "gathering"
    BY <1>1 DEF MoreRows
  <2>7. TypeOK'
    <3>1. row' \in 0 .. Len(batch)
      BY <1>1, <2>1
    <3> QED BY <2>1, <2>6, <3>1 DEF ScalarInv, TypeOK, Over
  <2>8. ArgumentsAccepted'
    BY <2>1 DEF ScalarInv, ArgumentsAccepted
  <2>9. InProcess'
    BY <1>1, <2>1, <2>5, <2>6 DEF InProcess
  <2>10. RowsAnswerTheirCells' /\ IsList(delivered)'
    BY <2>1 DEF ScalarInv, RowsAnswerTheirCells
  <2>11. StopsExactlyAtMisfits'
    BY <2>1 DEF ScalarInv, StopsExactlyAtMisfits
  <2> QED BY <2>7, <2>8, <2>9, <2>10, <2>11 DEF ScalarInv
<1> QED BY <1>3, <1>4

LEMMA GatheredStep == ASSUME ScalarInv, Gathered PROVE ScalarInv'
<1>1. /\ call.fn \in Gatherers /\ cols = NewColumns(call.fn) /\ GatheredUpTo(Len(batch))
      /\ phase' = "working" /\ row' = 0
      /\ UNCHANGED <<call, type, batch, input, cols, fed, delivered>>
  BY DEF Gathered, ScalarInv, InProcess
<1>2. Built' /\ ListsEnd'
  <2>1. call.fn \in Functions
    BY <1>1 DEF Gatherers, Functions
  <2> QED BY <1>1, <2>1, NewIsBuilt
<1>3. TypeOK'
  <2>1. row' \in 0 .. Len(batch') /\ \A c \in DOMAIN cols' \ {"values"} :
            Len(cols'[c]) = row' + (IF c = "offsets" THEN 1 ELSE 0)
    BY <1>1, <1>2, LenProperties DEF Built, ScalarInv, TypeOK
  <2> QED BY <1>1, <2>1 DEF ScalarInv, TypeOK, Over
<1>4. ArgumentsAccepted'
  BY <1>1 DEF ScalarInv, ArgumentsAccepted, Gathered
<1>5. InProcess'
  <2>1. GatheredUpTo(Len(batch))'
    BY <1>1 DEF GatheredUpTo
  <2> QED BY <1>1, <1>2, <2>1 DEF InProcess
<1>6. RowsAnswerTheirCells' /\ IsList(delivered)'
  BY <1>1 DEF ScalarInv, RowsAnswerTheirCells
<1>7. StopsExactlyAtMisfits'
  BY <1>1 DEF ScalarInv, StopsExactlyAtMisfits
<1> QED BY <1>3, <1>4, <1>5, <1>6, <1>7 DEF ScalarInv

LEMMA ListsJoin ==
    ASSUME NEW s, IsList(s), NEW t, IsList(t)
    PROVE  /\ IsList(s \o t) /\ Len(s \o t) = Len(s) + Len(t)
           /\ \A k \in 1 .. Len(s) + Len(t) :
                  (s \o t)[k] = IF k <= Len(s) THEN s[k] ELSE t[k - Len(s)]
<1> DEFINE S == Range(s) \cup Range(t)
<1>1. s \in Seq(S) /\ t \in Seq(S)
  BY SeqMonotonic DEF IsList
<1> HIDE DEF S
<1>2. s \o t \in Seq(S)
  BY <1>1, ConcatProperties
<1>3. IsList(s \o t)
  BY <1>2, SeqIsList
<1> QED BY <1>1, <1>3, ConcatProperties

LEMMA FinishBatchStep == ASSUME ScalarInv, FinishBatch PROVE ScalarInv'
<1> DEFINE n == Len(batch)
           m == Len(fed)
           rows == [k \in 1 .. n |-> RowAt(k)]
<1>1. /\ row = n /\ n \in Nat /\ m \in Nat /\ Len(delivered) = m
      /\ batch \in Seq(Cells[type]) /\ fed \in Seq(Cells[type])
      /\ IsList(batch) /\ IsList(fed) /\ IsList(delivered)
  BY LenProperties, SeqIsList DEF FinishBatch, ScalarInv, TypeOK
<1>2. /\ phase' = "bound" /\ fed' = fed \o batch /\ delivered' = delivered \o rows
      /\ UNCHANGED <<call, type, batch, input, row, cols>>
  BY DEF FinishBatch
<1>3. IsList(rows) /\ Len(rows) = n /\ \A k \in 1 .. n : rows[k] = RowAt(k)
  <2>1. rows \in [1 .. n -> Range(rows)]
    BY DEF Range
  <2>2. rows \in Seq(Range(rows)) /\ Len(rows) = n
    <3> HIDE DEF rows, n
    <3> QED BY <1>1, <2>1
  <2> QED BY <2>2 DEF IsList
<1>4. \A k \in 1 .. n : RowAt(k) = Expected(call, type, batch[k])
  BY <1>1 DEF FinishBatch, ScalarInv, InProcess, Built
<1>5. \A k \in 1 .. n : Takes(call, type, batch[k])
  BY <1>1 DEF FinishBatch, ScalarInv, InProcess, GatheredUpTo
<1> HIDE DEF n, m, rows
<1>6. /\ IsList(delivered') /\ Len(delivered') = m + n
      /\ \A k \in 1 .. m + n : delivered'[k] = IF k <= m THEN delivered[k] ELSE rows[k - m]
  <2> DEFINE d == delivered
  <2>1. IsList(d) /\ IsList(rows) /\ Len(d) = m /\ Len(rows) = n
    BY <1>1, <1>3
  <2> HIDE DEF d
  <2>2. /\ IsList(d \o rows) /\ Len(d \o rows) = Len(d) + Len(rows)
        /\ \A k \in 1 .. Len(d) + Len(rows) :
               (d \o rows)[k] = IF k <= Len(d) THEN d[k] ELSE rows[k - Len(d)]
    BY <2>1, ListsJoin
  <2> QED BY <1>2, <2>1, <2>2 DEF d
<1>7. /\ fed' \in Seq(Cells[type]) /\ Len(fed') = m + n
      /\ \A k \in 1 .. m + n : fed'[k] = IF k <= m THEN fed[k] ELSE batch[k - m]
  BY <1>1, <1>2, ConcatProperties DEF m, n
<1>8. TypeOK'
  BY <1>2, <1>6, <1>7 DEF ScalarInv, TypeOK, Over
<1>9. ArgumentsAccepted'
  BY <1>2 DEF FinishBatch, ScalarInv, ArgumentsAccepted
<1>10. InProcess'
  BY <1>2 DEF InProcess
<1>11. RowsAnswerTheirCells'
  <2>1. ASSUME NEW k \in 1 .. m + n PROVE delivered'[k] = Expected(call, type, fed'[k])
    <3>1. CASE k <= m
      <4>1. k \in DOMAIN delivered
        BY <3>1, <1>1, ListLen
      <4> QED BY <3>1, <4>1, <1>6, <1>7 DEF ScalarInv, RowsAnswerTheirCells
    <3>2. CASE ~(k <= m)
      <4>1. k - m \in 1 .. n
        BY <3>2, <1>1
      <4> QED BY <3>2, <4>1, <1>3, <1>4, <1>6, <1>7
    <3> QED BY <3>1, <3>2
  <2>2. DOMAIN delivered' = 1 .. m + n
    BY <1>6, ListLen
  <2> QED BY <2>1, <2>2, <1>2 DEF RowsAnswerTheirCells
<1>12. StopsExactlyAtMisfits'
  <2>1. ASSUME NEW k \in 1 .. m + n PROVE Takes(call, type, fed'[k])
    <3>1. CASE k <= m
      <4>1. k \in DOMAIN fed
        BY <3>1, <1>1, ListLen DEF m
      <4> QED BY <3>1, <4>1, <1>7 DEF ScalarInv, StopsExactlyAtMisfits
    <3>2. CASE ~(k <= m)
      <4>1. k - m \in 1 .. n
        BY <3>2, <1>1
      <4> QED BY <3>2, <4>1, <1>5, <1>7
    <3> QED BY <3>1, <3>2
  <2>2. DOMAIN fed' = 1 .. m + n
    BY <1>7, LenProperties
  <2> QED BY <2>1, <2>2, <1>2 DEF StopsExactlyAtMisfits
<1> QED BY <1>6, <1>8, <1>9, <1>10, <1>11, <1>12 DEF ScalarInv

-----------------------------------------------------------------------------
LEMMA ScalarInit == Init => ScalarInv
<1> SUFFICES ASSUME Init PROVE ScalarInv
  OBVIOUS
<1>1. phase = "planned" /\ batch = <<>> /\ row = 0 /\ fed = <<>> /\ delivered = <<>>
  BY DEF Init
<1>2. call \in Calls /\ type \in DOMAIN Cells /\ (call.fn = "objectid_from_hex" => type = "text")
  BY CellsAssumption DEF Init
<1>3. IsList(<<>>) /\ Len(<<>>) = 0 /\ DOMAIN <<>> = {}
  BY EmptyIsList
<1>4. TypeOK
  <2>1. <<>> \in Seq(Cells[type])
    BY EmptySeq
  <2> QED BY <1>1, <1>2, <1>3, <2>1 DEF TypeOK, Over
<1>5. ArgumentsAccepted /\ InProcess
  BY <1>1, <1>2 DEF ArgumentsAccepted, InProcess
<1>6. RowsAnswerTheirCells /\ StopsExactlyAtMisfits /\ IsList(delivered)
  BY <1>1, <1>3 DEF RowsAnswerTheirCells, StopsExactlyAtMisfits
<1> QED BY <1>4, <1>5, <1>6 DEF ScalarInv

LEMMA ScalarUnchanged == ASSUME ScalarInv, UNCHANGED vars PROVE ScalarInv'
<1> USE DEF vars
<1>1. TypeOK'
  BY DEF ScalarInv, TypeOK
<1>2. ArgumentsAccepted'
  BY DEF ScalarInv, ArgumentsAccepted
<1>3. InProcess'
  <2>1. \A k : GatheredUpTo(k)' <=> GatheredUpTo(k)
    BY DEF GatheredUpTo
  <2>2. \A k : RowAt(k)' = RowAt(k)
    BY DEF RowAt
  <2>3. Built' <=> Built
    BY <2>2 DEF Built
  <2>4. ListsEnd' <=> ListsEnd
    BY DEF ListsEnd
  <2>5. GatheredUpTo(row)' <=> GatheredUpTo(row)
    BY DEF GatheredUpTo
  <2>6. GatheredUpTo(Len(batch))' <=> GatheredUpTo(Len(batch))
    BY DEF GatheredUpTo
  <2> QED BY <2>3, <2>4, <2>5, <2>6 DEF ScalarInv, InProcess
<1>4. RowsAnswerTheirCells' /\ IsList(delivered)'
  BY DEF ScalarInv, RowsAnswerTheirCells
<1>5. StopsExactlyAtMisfits'
  BY DEF ScalarInv, StopsExactlyAtMisfits
<1> QED BY <1>1, <1>2, <1>3, <1>4, <1>5 DEF ScalarInv

(* The inductive invariant: each step of a call, of whatever function,     *)
(* keeps it (scalar/*.rs, the process of each function; arrow_io.rs).      *)
THEOREM ScalarInductive == Spec => []ScalarInv
<1>1. ScalarInv /\ [Next]_vars => ScalarInv'
  BY BindStep, RefuseArgumentsStep, StartBatchStep, GatherStep, GatheredStep, FinishBatchStep,
     IsValidStep, WellFormedStep, KeysStep, ToJsonStep, DecodeStep, FromJsonStep, EncodeStep,
     FieldStep, TypeOfStep, ObjectIdTimestampStep, ObjectIdHexStep, ObjectIdFromHexStep,
     TimestampToTsStep, TimestampPartsStep, ScalarUnchanged
     DEF Next, Process
<1> QED BY <1>1, ScalarInit, PTL DEF Spec

(* The columns being built keep one entry for each row done, and as many   *)
(* rows are answered as cells were given, for all cells and calls.         *)
THEOREM ScalarTyped == Spec => []TypeOK
<1>1. ScalarInv => TypeOK
  BY DEF ScalarInv
<1> QED BY <1>1, ScalarInductive, PTL

(* A mode that is not known never comes as far as a row: what bind let     *)
(* pass, process can only refuse for the path (codec.rs:215, 321, 554).    *)
THEOREM ModesSettledAtBind == Spec => []ModesAreRefusedAtBind
<1>1. ScalarInv => ModesAreRefusedAtBind
  BY DEF ScalarInv, ArgumentsAccepted, ModesAreRefusedAtBind, ProcessRefuses, BindRefuses
<1> QED BY <1>1, ScalarInductive, PTL

(* Every row answers its own cell, however a column of any length is cut   *)
(* into batches (common.rs:5; the descriptions in codec.rs, objectid.rs    *)
(* and timestamp.rs).                                                      *)
THEOREM RowsAnswer == Spec => []RowsAnswerTheirCells
<1>1. ScalarInv => RowsAnswerTheirCells
  BY DEF ScalarInv
<1> QED BY <1>1, ScalarInductive, PTL

(* A query stops at a cell that its function does not take and at no       *)
(* other, whatever else is in the batch (arrow_io.rs:23-53).               *)
THEOREM StopsAtMisfits == Spec => []StopsExactlyAtMisfits
<1>1. ScalarInv => StopsExactlyAtMisfits
  BY DEF ScalarInv
<1> QED BY <1>1, ScalarInductive, PTL
=============================================================================
