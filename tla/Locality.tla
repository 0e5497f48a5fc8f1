------------------------------ MODULE Locality ------------------------------
(***************************************************************************)
(* What the validator says of a document is a matter of its bytes alone.   *)
(*                                                                         *)
(* This is not plain from the code: a key or cstring scan runs to the end  *)
(* of the buffer and not of the document, a length is compared with what   *)
(* is left of the buffer, and a nested document may claim bytes that lie   *)
(* beyond its parent.  The refinement mapping compares a run with the run  *)
(* on another byte string, There, in which the same document begins at     *)
(* `start + Shift`: the document alone, a stream it is taken from, or a    *)
(* stream it is put into.                                                  *)
(***************************************************************************)
EXTENDS Validate

CONSTANTS There,  \* the other byte string
          Shift   \* how far on the document is in it

Moved(f, n) == [start |-> f.start + n, end |-> f.end + n, seen |-> f.seen]

Elsewhere == INSTANCE Validate WITH
                 Buffers <- Seq(Byte),
                 Entries <- EntryPoints,
                 buf     <- There,
                 start   <- start + Shift,
                 pos     <- pos + Shift,
                 frames  <- [i \in DOMAIN frames |-> Moved(frames[i], Shift)]

-----------------------------------------------------------------------------
Limit  == start + I32At(buf, start)
Framed == HasI32(buf, start) /\ I32At(buf, start) >= 5 /\ Limit <= Len(buf)

\* The document that begins at start is in There, where the same entry point
\* can be called for it: only validate_one takes an offset, and for
\* `validate` it is all there is.
SameDocument ==
    /\ Framed
    /\ 0 <= start + Shift /\ Limit + Shift <= Len(There)
    /\ \A i \in start + 1 .. Limit : There[i + Shift] = buf[i]
    /\ entry # "validate_one" => start + Shift = 0
    /\ entry = "validate" => Limit + Shift = Len(There)

\* The walk read, or was told to read, beyond the document, or it is over
\* with an error.
Strayed == \/ ~Framed
           \/ verdict \notin {"none", "ok"}
           \/ pos > Limit
           \/ \E i \in DOMAIN frames : frames[i].end > Limit

(* A walk that reads beyond its document, or is told to by a nested length *)
(* prefix or a cstring without a NUL of its own, never accepts it.         *)
StrayingIsFatal == [](Strayed => [](verdict # "ok"))

(* Every other step is the step the validator takes on the same document   *)
(* elsewhere, whatever the bytes around it are here and there.             *)
SameStepElsewhere == [][SameDocument /\ ~Strayed' => Elsewhere!Next]_vars

(* A run that accepts a document is, step for step, the run on the same    *)
(* document elsewhere.  So the rows of `split` are documents on their own, *)
(* and a document that is accepted on its own is accepted in any stream.   *)
AcceptedElsewhere ==
    SameDocument /\ <>(verdict = "ok") =>
        Elsewhere!Init /\ [][Elsewhere!Next]_(Elsewhere!vars)

\* A longer buffer may hold the document that begins at start.
Unfinished == \/ ~HasI32(buf, start)
              \/ I32At(buf, start) >= 5 /\ Limit > Len(buf)

(* Of a document that is not there in full, "truncated" is said and        *)
(* nothing else, whatever is wrong with the part that is there.  One that  *)
(* is there in full is accepted if it is in any longer buffer              *)
(* (AcceptedElsewhere with Shift = 0), so more input cures no other error. *)
UnfinishedIsTruncated == pc = "done" /\ Unfinished => verdict = "truncated"
=============================================================================
