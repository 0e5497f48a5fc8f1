------------------------------ MODULE Framing ------------------------------
(***************************************************************************)
(* What cutting a stream of concatenated BSON documents promises, of       *)
(* crates/bson-core/src/seq.rs: rows are delivered one by one, numbered    *)
(* from 0; each begins where the one before it ended and is as long as its *)
(* int32 prefix says.  Nothing is said of WHEN cutting stops: that is for  *)
(* the module that implements this one.                                    *)
(***************************************************************************)
EXTENDS BsonBytes

VARIABLES stream,   \* the bytes being cut
          rows,     \* the documents delivered: number, first byte, end
          cursor,   \* where the next document would begin
          stopped

Init ==
    /\ stream \in Seq(Byte)
    /\ rows = <<>>
    /\ cursor = 0
    /\ stopped = FALSE

\* The stream holds, at p, a length prefix and all the bytes it announces.
Framed(s, p) ==
    /\ HasI32(s, p)
    /\ I32At(s, p) >= 5
    /\ I32At(s, p) <= Len(s) - p

Deliver ==
    /\ ~stopped
    /\ Framed(stream, cursor)
    /\ cursor' = cursor + I32At(stream, cursor)
    /\ rows' = Append(rows, [idx |-> Len(rows), from |-> cursor, to |-> cursor'])
    /\ UNCHANGED <<stream, stopped>>

Stop ==
    /\ ~stopped
    /\ stopped' = TRUE
    /\ UNCHANGED <<stream, rows, cursor>>

Next == Deliver \/ Stop

Spec == Init /\ [][Next]_<<stream, rows, cursor, stopped>>

(* The rows are numbered in order and tile the stream up to the cursor:    *)
(* no byte of it is delivered twice, skipped or out of order.              *)
Tiled ==
    /\ cursor = (IF rows = <<>> THEN 0 ELSE rows[Len(rows)].to)
    /\ \A i \in DOMAIN rows :
           /\ rows[i].idx = i - 1
           /\ rows[i].from = (IF i = 1 THEN 0 ELSE rows[i - 1].to)
           /\ rows[i].to - rows[i].from >= 5
           /\ rows[i].to <= Len(stream)
=============================================================================
