------------------------------- MODULE Split -------------------------------
(***************************************************************************)
(* The splitter of concatenated documents, crates/bson-core/src/seq.rs,    *)
(* on top of the validator it calls for every document.  One loop          *)
(* iteration is a call of validate_one at the cursor, the validator's own  *)
(* steps, and what split does with the result.                             *)
(***************************************************************************)
EXTENDS Validate

VARIABLES rows,   \* `out`: number, first byte and end of each document
          idx,    \* the number of the next row
          phase   \* "loop" at the loop head, "call" inside validate_one,
                  \* "returned" when split has returned

splitVars == <<rows, idx, phase>>
allVars   == <<vars, splitVars>>

SplitInit ==
    /\ buf \in Buffers
    /\ entry = "validate_one"
    /\ start = 0 /\ pos = 0
    /\ frames = <<>> /\ tag = 0
    /\ pc = "done" /\ verdict = "none"
    /\ rows = <<>> /\ idx = 0
    /\ phase = "loop"

\* while pos < stream.len(): validate_one(stream, &mut pos)
CallValidateOne ==
    /\ phase = "loop"
    /\ pos < Len(buf)
    /\ phase' = "call"
    /\ start' = pos
    /\ frames' = <<>>
    /\ pc' = "enter"
    /\ verdict' = "none"
    /\ UNCHANGED <<buf, entry, pos, tag, rows, idx>>

Return ==
    /\ phase' = "returned"
    /\ UNCHANGED <<vars, rows, idx>>

StreamConsumed ==
    /\ phase = "loop"
    /\ pos >= Len(buf)
    /\ Return

InValidateOne ==
    /\ phase = "call"
    /\ Step
    /\ UNCHANGED splitVars

\* A bug: the row is cut as if validate_one began after the prefix.
RowBeforePrefix(i) == [idx |-> i, from |-> start - 4, to |-> pos]

Row(i) == [idx |-> i, from |-> start, to |-> pos]

\* A bug: a row is kept and its number is not moved on.
PushRowSameNumber ==
    /\ phase = "call"
    /\ pc = "done" /\ verdict = "ok"
    /\ pos > start
    /\ rows' = Append(rows, Row(idx))
    /\ phase' = "loop"
    /\ UNCHANGED <<vars, idx>>

PushRow ==
    /\ phase = "call"
    /\ pc = "done" /\ verdict = "ok"
    /\ pos > start
    /\ rows' = Append(rows, Row(idx))
    /\ idx' = idx + 1
    /\ phase' = "loop"
    /\ UNCHANGED vars

\* A bug: a document in error is passed over, and the loop goes on from where
\* the validator gave up.
StopSplittingNot ==
    /\ phase = "call"
    /\ pc = "done"
    /\ verdict # "ok" \/ pos <= start
    /\ phase' = "loop"
    /\ UNCHANGED <<vars, rows, idx>>

\* An error ends the split, and so would a document of no bytes.
StopSplitting ==
    /\ phase = "call"
    /\ pc = "done"
    /\ verdict # "ok" \/ pos <= start
    /\ Return

SplitStep ==
    \/ CallValidateOne \/ StreamConsumed
    \/ InValidateOne
    \/ PushRow \/ StopSplitting

SplitReturned == phase = "returned" /\ UNCHANGED allVars

SplitNext == SplitStep \/ SplitReturned

SplitSpec == SplitInit /\ [][SplitNext]_allVars /\ WF_allVars(SplitStep)

-----------------------------------------------------------------------------
\* The end of the last row; the loop is at, or was called at, this offset.
Cursor == IF rows = <<>> THEN 0 ELSE Last(rows).to

SplitTypeOK ==
    /\ TypeOK
    /\ rows \in Seq([idx : Nat, from : Nat, to : Nat])
    /\ idx \in Nat
    /\ phase \in {"loop", "call", "returned"}

(* split implements Framing: its rows are numbered in order, tile the      *)
(* stream and are as long as their prefixes say, although the cursor       *)
(* wanders through every element of a document before its row is pushed.   *)
Cut == INSTANCE Framing WITH
           stream  <- buf,
           cursor  <- Cursor,
           stopped <- phase = "returned"

ImplementsFraming == Cut!Spec

RowsTile == Cut!Tiled
=============================================================================
