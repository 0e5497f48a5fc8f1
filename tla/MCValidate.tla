----------------------------- MODULE MCValidate -----------------------------
(***************************************************************************)
(* The validator against the reference grammar, on small instances.        *)
(***************************************************************************)
EXTENDS ValidateGrammar, BsonSamples

MarkedBytes == {0, 1, 3, 4, 5, 6, 8, 12, 15, 97, 127, 128, 255}

SampleBuffers ==
    UNION {Truncations(d) : d \in SmallDocs \cup ComplexDocs \cup NestedDocs}
    \cup FixedDocs
    \cup UNION {Damaged(d, MarkedBytes) : d \in SmallDocs \cup ComplexDocs \cup NestedDocs}
    \cup {d \o <<0>> : d \in SmallDocs}
    \cup {d \o e : d \in {EmptyDoc, NullDoc, SameKeys}, e \in {EmptyDoc, NullDoc}}

BodyBytes == {0, 1, 6, 8, 195}
SmallBuffers == Prefixed({4, 5, 7, 8, 9, 10}, BodyBytes, 5)
AllBuffers == SampleBuffers \cup SmallBuffers
AllEntries == EntryPoints

-----------------------------------------------------------------------------
(* codec.rs:91-93 lists what makes a blob valid: "declared length matches  *)
(* the bytes, types known, cstrings NUL-terminated, valid UTF-8, no        *)
(* trailing bytes", and codec.rs:114 says that well_formed is "Stricter    *)
(* than `is_valid`: it also flags duplicate document keys".  So a blob     *)
(* with these properties is valid, whatever its keys.                      *)
ValidAsDocumented ==
    pc = "done" /\ entry = "validate"
        /\ IsDocument(buf, 0, [nesting |-> MaxNesting, distinct |-> FALSE,
                               strict |-> TRUE])
        => verdict = "ok"

(* codec.rs:91-92: a valid blob is a document "per the BSON spec (declared *)
(* length matches the bytes".  The total length of a code-with-scope value *)
(* is such a declared length.                                              *)
ValidLengthsMatch ==
    pc = "done" /\ entry = "validate" /\ verdict = "ok" =>
        IsDocument(buf, 0, [nesting |-> MaxNesting, distinct |-> TRUE,
                            strict |-> TRUE])
=============================================================================
