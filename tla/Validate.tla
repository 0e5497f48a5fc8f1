------------------------------ MODULE Validate ------------------------------
(***************************************************************************)
(* The structural BSON validator, crates/bson-core/src/validate.rs.        *)
(*                                                                         *)
(* validate_doc and validate_value call each other to a depth bounded by   *)
(* MAX_NESTING.  Their recursion is made explicit here: `frames` holds,    *)
(* outermost first, the locals of every validate_doc that has read its     *)
(* prefix, `pos` is the one cursor they all advance, and `pc` says which   *)
(* of them runs next:                                                      *)
(*                                                                         *)
(*   "enter"    validate_doc is called at pos, at depth Len(frames)        *)
(*   "element"  the head of the innermost document's element loop          *)
(*   "value"    validate_value is called for an element of type `tag`      *)
(*   "after"    a call returned Ok to its caller                           *)
(*   "done"     the entry point returned `verdict`                         *)
(*                                                                         *)
(* An Err is propagated by `?` through every caller, so Reject ends the    *)
(* whole walk.                                                             *)
(***************************************************************************)
EXTENDS BsonBytes, SequencesExt

CONSTANTS Buffers,     \* the byte strings the validator is run on
          MaxNesting,  \* MAX_NESTING
          Entries      \* the entry points that are called

EntryPoints == {"validate", "precheck", "validate_one"}

ASSUME BuffersAssumption == Buffers \subseteq Seq(Byte)
ASSUME NestingAssumption == MaxNesting \in Nat
ASSUME EntriesAssumption == Entries \subseteq EntryPoints

VARIABLES buf,      \* the bytes under validation
          entry,    \* which entry point runs
          start,    \* the offset it was called at
          pos,      \* the cursor
          frames,   \* the active documents: where each begins and ends, its keys
          tag,      \* the type byte of the element being read
          pc,
          verdict   \* "none" while running, then "ok" or an error kind

input == <<buf, entry, start>>
vars  == <<buf, entry, start, pos, frames, tag, pc, verdict>>

Verdicts == DecodeErrors \cup {"none", "ok"}
Depth    == Len(frames)
Top      == Last(frames)

\* validate and precheck begin at 0, validate_one at any offset of its caller.
Init ==
    /\ buf \in Buffers
    /\ entry \in Entries
    /\ start \in (IF entry = "validate_one" THEN 0 .. Len(buf) ELSE {0})
    /\ pos = start
    /\ frames = <<>>
    /\ tag = 0
    /\ pc = "enter"
    /\ verdict = "none"

Accept ==
    /\ verdict' = "ok"
    /\ pc' = "done"
    /\ UNCHANGED <<input, pos, frames, tag>>

Reject(kind) ==
    /\ verdict' = kind
    /\ pc' = "done"
    /\ UNCHANGED <<input, pos, frames, tag>>

-----------------------------------------------------------------------------
(* validate_doc, up to its loop.                                           *)

\* A bug: the limit counts documents and not levels below the first.
TooDeepLate(depth) == depth > MaxNesting + 1

\* A bug: the limit is one level short.
TooDeepEarly(depth) == depth >= MaxNesting

TooDeep(depth) == depth > MaxNesting

\* A bug: the prefix is taken not to count its own four bytes.
DocOverrunsLate(p) == I32At(buf, p) - 4 > Len(buf) - p

DocOverruns(p) == I32At(buf, p) > Len(buf) - p

ChecksDupes == entry = "validate"

PushDocument ==
    /\ frames' = Append(frames, [start |-> pos, end |-> pos + I32At(buf, pos),
                                 seen |-> {}])
    /\ pos' = pos + 4
    /\ pc' = "element"
    /\ UNCHANGED <<input, tag, verdict>>

\* A bug: a document that is still incomplete is called mismatched.
EnterMisclassified ==
    /\ pc = "enter"
    /\ IF TooDeep(Depth) THEN Reject("nesting-limit")
       ELSE IF ~HasI32(buf, pos) THEN Reject("truncated")
       ELSE IF I32At(buf, pos) < 5 \/ DocOverruns(pos) THEN Reject("length-mismatch")
       ELSE PushDocument

EnterDocument ==
    /\ pc = "enter"
    /\ IF TooDeep(Depth) THEN Reject("nesting-limit")
       ELSE IF ~HasI32(buf, pos) THEN Reject("truncated")
       ELSE IF I32At(buf, pos) < 5 THEN Reject("length-mismatch")
       ELSE IF DocOverruns(pos) THEN Reject("truncated")
       ELSE PushDocument

-----------------------------------------------------------------------------
(* validate_doc, its element loop.                                         *)

BodyExhausted == pos >= Top.end

ElementOverrun ==
    /\ pc = "element"
    /\ BodyExhausted
    /\ Reject("length-mismatch")

\* The type byte is read as buf[*pos], without a bounds check of its own.
TypeByte == buf[pos + 1]

\* What the caller of the innermost validate_doc continues with.
Pop(stack) == Front(stack)

\* A bug: `*pos != doc_end` is not checked after the loop.
EndDocumentEarly ==
    /\ pc = "element"
    /\ ~BodyExhausted
    /\ TypeByte = 0
    /\ pos' = pos + 1
    /\ frames' = Pop(frames)
    /\ pc' = "after"
    /\ UNCHANGED <<input, tag, verdict>>

\* A bug: the terminator is looked at and not consumed.
EndDocumentPeeking ==
    /\ pc = "element"
    /\ ~BodyExhausted
    /\ TypeByte = 0
    /\ IF pos + 1 # Top.end
       THEN Reject("length-mismatch")
       ELSE /\ frames' = Pop(frames)
            /\ pc' = "after"
            /\ UNCHANGED <<input, pos, tag, verdict>>

EndDocument ==
    /\ pc = "element"
    /\ ~BodyExhausted
    /\ TypeByte = 0
    /\ IF pos + 1 # Top.end
       THEN Reject("length-mismatch")
       ELSE /\ pos' = pos + 1
            /\ frames' = Pop(frames)
            /\ pc' = "after"
            /\ UNCHANGED <<input, tag, verdict>>

\* A bug: one set of keys serves all nested documents.
IsDuplicateAnywhere(key) == ChecksDupes /\ \E i \in DOMAIN frames : key \in frames[i].seen

IsDuplicate(key) == ChecksDupes /\ key \in Top.seen

WithKey(key) ==
    [frames EXCEPT ![Depth].seen = IF ChecksDupes THEN @ \cup {key} ELSE @]

ReadKey ==
    /\ pc = "element"
    /\ ~BodyExhausted
    /\ TypeByte # 0
    /\ LET key == ReadCstring(buf, pos + 1)
           text == CstringText(buf, pos + 1)
       IN  IF key.err # "none" THEN Reject(key.err)
           ELSE IF IsDuplicate(text) THEN Reject("duplicate-key")
           ELSE /\ pos' = key.pos
                /\ frames' = WithKey(text)
                /\ tag' = TypeByte
                /\ pc' = "value"
                /\ UNCHANGED <<input, verdict>>

-----------------------------------------------------------------------------
(* validate_value, one action per kind of value.                           *)

Consume(result) ==
    IF result.err # "none"
    THEN Reject(result.err)
    ELSE /\ pos' = result.pos
         /\ pc' = "after"
         /\ UNCHANGED <<input, frames, tag, verdict>>

\* The types that are a fixed number of bytes, whatever those bytes are.
FixedSize ==
    [t \in {1, 6, 7, 9, 10, 16, 17, 18, 19, 127, 255} |->
        CASE t \in {1, 9, 17, 18}     -> 8     \* double, datetime, timestamp, int64
          [] t = 7                    -> 12    \* ObjectId
          [] t = 16                   -> 4     \* int32
          [] t = 19                   -> 16    \* decimal128
          [] t \in {6, 10, 127, 255}  -> 0]    \* undefined, null, maxkey, minkey

StringTags   == {2, 13, 14}
DocumentTags == {3, 4}
KnownTags    == DOMAIN FixedSize \cup StringTags \cup DocumentTags
                    \cup {5, 8, 11, 12, 15}

FixedValue ==
    /\ pc = "value"
    /\ tag \in DOMAIN FixedSize
    /\ Consume(Skip(buf, pos, FixedSize[tag]))

\* A bug: any byte is a boolean.
ReadAnyBoolean(p) == Skip(buf, p, 1)

ReadBoolean(p) ==
    IF Skip(buf, p, 1).err # "none" THEN Err("truncated")
    ELSE IF buf[p + 1] \notin {0, 1} THEN Err("invalid-type")
    ELSE Ok(p + 1)

BooleanValue ==
    /\ pc = "value"
    /\ tag = 8
    /\ Consume(ReadBoolean(pos))

StringValue ==
    /\ pc = "value"
    /\ tag \in StringTags
    /\ Consume(ReadString(buf, pos))

\* A bug: the subtype byte is stepped over unchecked, after the length was
\* compared with what is left.
ReadBinaryLate(p) ==
    IF ~HasI32(buf, p) THEN Err("truncated")
    ELSE IF I32At(buf, p) < 0 THEN Err("bad-subtype")
    ELSE IF Skip(buf, p + 4, I32At(buf, p)).err # "none" THEN Err("truncated")
    ELSE Ok(p + 5 + I32At(buf, p))

\* An i32 length, the subtype byte, and that many bytes.
ReadBinary(p) ==
    IF ~HasI32(buf, p) THEN Err("truncated")
    ELSE IF I32At(buf, p) < 0 THEN Err("bad-subtype")
    ELSE IF Skip(buf, p + 4, 1).err # "none" THEN Err("truncated")
    ELSE Skip(buf, p + 5, I32At(buf, p))

BinaryValue ==
    /\ pc = "value"
    /\ tag = 5
    /\ Consume(ReadBinary(pos))

RegexValue ==
    /\ pc = "value"
    /\ tag = 11
    /\ LET pattern == ReadCstring(buf, pos) IN
       Consume(IF pattern.err # "none" THEN pattern
               ELSE ReadCstring(buf, pattern.pos))

DbPointerValue ==
    /\ pc = "value"
    /\ tag = 12
    /\ LET name == ReadString(buf, pos) IN
       Consume(IF name.err # "none" THEN name ELSE Skip(buf, name.pos, 12))

\* The code is read here and its scope by the call that follows.  The total
\* length is read, and only its sign is looked at.
CodeWithScopeValue ==
    /\ pc = "value"
    /\ tag = 15
    /\ IF ~HasI32(buf, pos) THEN Reject("truncated")
       ELSE IF I32At(buf, pos) < 0 THEN Reject("length-mismatch")
       ELSE LET code == ReadString(buf, pos + 4) IN
            IF code.err # "none" THEN Reject(code.err)
            ELSE /\ pos' = code.pos
                 /\ pc' = "enter"
                 /\ UNCHANGED <<input, frames, tag, verdict>>

DocumentValue ==
    /\ pc = "value"
    /\ tag \in DocumentTags
    /\ pc' = "enter"
    /\ UNCHANGED <<input, pos, frames, tag, verdict>>

UnknownValue ==
    /\ pc = "value"
    /\ tag \notin KnownTags
    /\ Reject("invalid-type")

-----------------------------------------------------------------------------
(* A value was read: the element loop checks that it stayed inside the     *)
(* document and goes on.                                                   *)
\* A bug: the loop goes on with the type byte of the element just read.
NextElementSameType ==
    /\ pc = "after"
    /\ frames # <<>>
    /\ IF pos > Top.end
       THEN Reject("length-mismatch")
       ELSE /\ pc' = "value"
            /\ UNCHANGED <<input, pos, frames, tag, verdict>>

\* A bug: running past the end of a document is taken for its end.
NextElementLenient ==
    /\ pc = "after"
    /\ frames # <<>>
    /\ IF pos > Top.end
       THEN /\ frames' = Pop(frames)
            /\ UNCHANGED <<input, pos, tag, pc, verdict>>
       ELSE /\ pc' = "element"
            /\ UNCHANGED <<input, pos, frames, tag, verdict>>

NextElement ==
    /\ pc = "after"
    /\ frames # <<>>
    /\ IF pos > Top.end
       THEN Reject("length-mismatch")
       ELSE /\ pc' = "element"
            /\ UNCHANGED <<input, pos, frames, tag, verdict>>

\* A bug: `precheck` rejects trailing bytes as well.
FinishStrictly ==
    /\ pc = "after"
    /\ frames = <<>>
    /\ IF entry # "validate_one" /\ pos # Len(buf)
       THEN Reject("trailing-bytes")
       ELSE Accept

\* The outermost validate_doc returned Ok to the entry point.
Finish ==
    /\ pc = "after"
    /\ frames = <<>>
    /\ IF entry = "validate" /\ pos # Len(buf)
       THEN Reject("trailing-bytes")
       ELSE Accept

Value ==
    \/ FixedValue \/ BooleanValue \/ StringValue \/ BinaryValue \/ RegexValue
    \/ DbPointerValue \/ CodeWithScopeValue \/ DocumentValue \/ UnknownValue

Step ==
    \/ EnterDocument
    \/ ElementOverrun \/ EndDocument \/ ReadKey
    \/ Value
    \/ NextElement
    \/ Finish

\* The entry point has returned; nothing is left to do.
Returned == pc = "done" /\ UNCHANGED vars

Next == Step \/ Returned

Spec == Init /\ [][Next]_vars /\ WF_vars(Step)
-----------------------------------------------------------------------------
\* The state has the shape the code's types give it.
TypeOK ==
    /\ buf \in Seq(Byte)
    /\ entry \in EntryPoints
    /\ start \in 0 .. Len(buf)
    /\ pos \in 0 .. Len(buf)
    /\ frames \in Seq([start : Nat, end : Nat, seen : SUBSET Seq(Byte)])
    /\ tag \in Byte
    /\ pc \in {"enter", "element", "value", "after", "done"}
    /\ verdict \in Verdicts

(* The type byte is read with an unchecked index.  Whatever the length     *)
(* prefixes of the enclosing documents claim, that read stays inside the   *)
(* buffer, so the validator does not panic (validate.rs:177).              *)
IndexesInBounds == pc = "element" /\ ~BodyExhausted => pos < Len(buf)

(* No chain of nested documents, arrays and code scopes makes the          *)
(* recursion deeper than the limit: at most MAX_NESTING + 1 activations of *)
(* validate_doc hold locals at once (validate.rs:157).                     *)
BoundedDepth == Len(frames) <= MaxNesting + 1

(* An accepted document occupies exactly the bytes its prefix declares,    *)
(* inside the buffer, and `validate` accepts only a document that is the   *)
(* whole buffer: what `split` slices out is what was validated.  It has    *)
(* five bytes or more, so the guard of `split` against an Ok that does not *)
(* advance (seq.rs:33) is never needed.                                    *)
AcceptedIsFramed ==
    verdict = "ok" =>
        /\ HasI32(buf, start)
        /\ pos = start + I32At(buf, start)
        /\ start + 5 <= pos /\ pos <= Len(buf)
        /\ entry = "validate" => start = 0 /\ pos = Len(buf)

(* validate_doc compares a nested document's end with the buffer and not   *)
(* with its parent's end.  A child that claims bytes beyond its parent is  *)
(* nevertheless never part of an accepted document: the checks that follow *)
(* its return reject the parent (validate.rs:168, 174, 191, 195).          *)
Overreach == \E i \in 1 .. Len(frames) - 1 : frames[i + 1].end > frames[i].end
OverreachIsFatal == [](Overreach => [](verdict # "ok"))

(* Every step of the walk uses up input or, without moving, gets nearer to *)
(* a point that does.  The walk is over within 3 * Len(buf) + 3 steps,     *)
(* whatever lengths the input declares.                                    *)
Rank == [p \in {"enter", "element", "value", "after", "done"} |->
            CASE p = "value" -> 3
              [] p \in {"enter", "after"} -> 2
              [] p = "element" -> 1
              [] p = "done" -> 0]
Remaining == 3 * (Len(buf) - pos) + Rank[pc]
Progress == [][Remaining' < Remaining]_vars

(* Every call returns: no input makes the validator loop.                  *)
Termination == <>(pc = "done")
=============================================================================
