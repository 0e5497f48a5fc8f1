-------------------------- MODULE ValidateGrammar --------------------------
(***************************************************************************)
(* What the validator says, compared with the reference grammar.           *)
(***************************************************************************)
EXTENDS Validate, BsonGrammar

CONSTANT Longer  \* byte strings that may continue a buffer

ASSUME LongerAssumption == Longer \subseteq Seq(Byte)

Mode == [nesting |-> MaxNesting, distinct |-> entry = "validate", strict |-> FALSE]

\* The document that the length prefix at p announces.
SliceAt(s, p) ==
    IF HasI32(s, p) /\ I32At(s, p) >= 5 /\ I32At(s, p) <= Len(s) - p
    THEN SubSeq(s, p + 1, p + I32At(s, p))
    ELSE <<>>

IsDocumentAt(s, p) == IsDocument(SliceAt(s, p), 0, Mode)

(* The three entry points accept exactly the documents of the grammar:     *)
(* `validate` the whole buffer with distinct keys, `precheck` and          *)
(* `validate_one` any document that begins at the offset, whatever follows *)
(* it.  In particular the verdict about a document that is accepted does   *)
(* not depend on the bytes around it, although key and cstring scans run   *)
(* to the end of the buffer and not of the document.                       *)
AcceptsExactlyTheGrammar ==
    pc = "done" =>
        (verdict = "ok" <=> /\ IsDocumentAt(buf, start)
                            /\ entry = "validate" => SliceAt(buf, start) = buf)

(* "trailing-bytes" is said of exactly those buffers that begin with an    *)
(* acceptable document and go on after it.                                 *)
TrailingBytesExactly ==
    pc = "done" =>
        (verdict = "trailing-bytes" <=> /\ entry = "validate"
                                        /\ IsDocumentAt(buf, start)
                                        /\ SliceAt(buf, start) # buf)

\* Those of Longer that begin with a document, for each treatment of equal keys.
Completed ==
    [unique \in BOOLEAN |->
        {s \in Longer : IsDocument(SliceAt(s, 0), 0,
            [nesting |-> MaxNesting, distinct |-> unique, strict |-> FALSE])}]

(* Only "truncated" may be cured by more input: when the validator gives   *)
(* another error, no buffer that continues this one is accepted.  A reader *)
(* that waits for more bytes on "truncated" and gives up on any other      *)
(* error loses no document.                                                *)
OtherErrorsAreFinal ==
    pc = "done" /\ start = 0 /\ verdict \notin {"ok", "truncated"} =>
        \A longer \in Completed[entry = "validate"] :
            IsPrefix(buf, longer) =>
                entry = "validate" /\ SliceAt(longer, 0) # longer
=============================================================================
