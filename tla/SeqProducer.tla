---------------------------- MODULE SeqProducer ----------------------------
(***************************************************************************)
(* The table function bson_seq, bson-worker/src/table/seq.rs.  The engine  *)
(* asks for a producer, which splits the stream at once, and then for      *)
(* batches of that producer, as often as it likes.                         *)
(***************************************************************************)
EXTENDS Split

CONSTANT MaxCalls  \* bound: calls of next_batch

ASSUME CallsAssumption == MaxCalls \in Nat

VARIABLES given,    \* the argument is a stream and not NULL
          stage,    \* "producer" inside producer, "batches" after it
          docs,     \* the documents not taken yet, or None
          answers   \* what next_batch returned so far

seqVars == <<allVars, given, stage, docs, answers>>

None    == <<>>
Some(x) == <<x>>

SeqInit ==
    /\ SplitInit
    /\ given \in BOOLEAN
    /\ stage = "producer" /\ docs = None /\ answers = <<>>

\* unwrap_or_default: a NULL is a stream without documents.
NullStream ==
    /\ stage = "producer" /\ ~given
    /\ docs' = Some(<<>>) /\ stage' = "batches"
    /\ UNCHANGED <<allVars, given, answers>>

SplitStream ==
    /\ stage = "producer" /\ given
    /\ SplitStep
    /\ UNCHANGED <<given, stage, docs, answers>>

KeepRows ==
    /\ stage = "producer" /\ phase = "returned"
    /\ docs' = Some(rows) /\ stage' = "batches"
    /\ UNCHANGED <<allVars, given, answers>>

Producer == NullStream \/ SplitStream \/ KeepRows

\* The columns idx and doc.
Batch(ds) ==
    [k \in DOMAIN ds |-> [idx |-> ds[k].idx, doc |-> SubSeq(buf, ds[k].from + 1, ds[k].to)]]

\* A bug: the documents are read and not taken.
GiveBatchAgain ==
    /\ stage = "batches" /\ Len(answers) < MaxCalls
    /\ docs # None
    /\ answers' = Append(answers, Some(Batch(docs[1])))
    /\ UNCHANGED <<allVars, given, stage, docs>>

GiveBatch ==
    /\ stage = "batches" /\ Len(answers) < MaxCalls
    /\ docs # None
    /\ answers' = Append(answers, Some(Batch(docs[1])))
    /\ docs' = None
    /\ UNCHANGED <<allVars, given, stage>>

NoMoreBatches ==
    /\ stage = "batches" /\ Len(answers) < MaxCalls
    /\ docs = None
    /\ answers' = Append(answers, None)
    /\ UNCHANGED <<allVars, given, stage, docs>>

\* Nobody has to ask for batches.
NotAsked == stage = "batches" /\ UNCHANGED seqVars

SeqNext == Producer \/ GiveBatch \/ NoMoreBatches \/ NotAsked

SeqSpec == SeqInit /\ [][SeqNext]_seqVars /\ WF_seqVars(Producer)

-----------------------------------------------------------------------------
(* The first answer is all rows of the stream, also when there are none,   *)
(* and none is given before the split is over; every later answer is the   *)
(* end (seq.rs, next_batch: the documents are taken).                      *)
OneBatchThenEnd ==
    /\ \A k \in DOMAIN answers : answers[k] = IF k = 1 THEN Some(Batch(rows)) ELSE None
    /\ answers # <<>> /\ given => phase = "returned"

(* producer returns: every call of validate_one does, and one that returns *)
(* Ok has moved the cursor on.                                             *)
ProducerReturns == <>(stage = "batches")
=============================================================================
