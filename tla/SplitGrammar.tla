---------------------------- MODULE SplitGrammar ----------------------------
(***************************************************************************)
(* What the splitter returns, compared with the reference grammar.         *)
(***************************************************************************)
EXTENDS SeqProducer, BsonGrammar

RowMode == [nesting |-> MaxNesting, distinct |-> FALSE, strict |-> FALSE]

(* A row taken out of its stream is, on its own, a document that precheck  *)
(* accepts: what the rows hand to the decoders does not lean on the bytes  *)
(* that followed it in the stream.                                         *)
RowsStandAlone ==
    \A i \in DOMAIN rows :
        IsDocument(SubSeq(buf, rows[i].from + 1, rows[i].to), 0, RowMode)

\* Some document begins at p.
DocumentBeginsAt(p) ==
    \E q \in p + 5 .. Len(buf) : IsDocument(SubSeq(buf, p + 1, q), 0, RowMode)

(* split gives up only where there is no document: the rows it returns are *)
(* all that lead the stream, so that a stream that was put together from   *)
(* documents comes back whole (seq.rs:22-23: "Stops at the first byte      *)
(* offset that does not begin a well-framed document").                    *)
StopsWhereNoDocumentBegins ==
    phase = "returned" => Cursor = Len(buf) \/ ~DocumentBeginsAt(Cursor)
=============================================================================
