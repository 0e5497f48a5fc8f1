------------------------------ MODULE DumpRead ------------------------------
(***************************************************************************)
(* The table function mongodump_read, bson-worker/src/table/dump.rs: the   *)
(* glob is expanded when the scan starts, the files are read when the      *)
(* first batch is asked for, and between the two, as between two files,    *)
(* whoever owns the dump directory may write, remove and replace files.    *)
(*                                                                         *)
(* A path stands for a name, and paths are ordered as their names are.     *)
(* The names are text: one that is not UTF-8 is listed with replacement    *)
(* characters, as a name no file has, and reading it fails (ReadFails);    *)
(* that another file has just that name is left out.                       *)
(*                                                                         *)
(* The content of a file is a sequence of documents, each "whole" or       *)
(* "broken" (split stops before it), and perhaps one more that is only     *)
(* partly written.  `gen` tells a file from one that replaced it.          *)
(***************************************************************************)
EXTENDS Integers, Sequences, FiniteSets, SequencesExt

CONSTANTS Paths,      \* the paths the glob matches
          MaxDocs,    \* bound: documents written to a file
          MaxGens,    \* bound: times a path is created anew
          MaxCalls,   \* bound: calls of next_batch
          Capacity    \* documents whose bytes a BinaryBuilder can address

ASSUME DumpAssumption ==
    /\ Paths \subseteq Nat /\ IsFiniteSet(Paths)
    /\ MaxDocs \in Nat /\ MaxGens \in Nat /\ MaxCalls \in Nat /\ Capacity \in Nat

VARIABLES fs,       \* the directory: for each path, the file there
          stage,    \* "bound", then "idle" or, inside next_batch, "reading";
                    \* or "refused"
          files,    \* DumpProducer.files
          done,     \* DumpProducer.done
          next,     \* the file the loop of next_batch is at
          batch,    \* the rows in the builders
          answers,  \* what next_batch answered, call by call
          delivered, \* the rows the consumer got
          seen,     \* history: the paths that the expansion found
          listed    \* history: each file as the expansion found it

producerVars == <<files, done, next, batch>>
history == <<seen, listed>>
vars == <<fs, stage, producerVars, answers, delivered, history>>

File == [exists : BOOLEAN, gen : 0 .. MaxGens,
         docs : BoundedSeq({"whole", "broken"}, MaxDocs), partial : BOOLEAN]

NoFile(gen) == [exists |-> FALSE, gen |-> gen, docs |-> <<>>, partial |-> FALSE]

Init ==
    /\ fs \in [Paths -> {NoFile(0)} \cup
                   {[NoFile(0) EXCEPT !.exists = TRUE, !.docs = d] :
                        d \in BoundedSeq({"whole", "broken"}, MaxDocs)}]
    /\ stage = "bound"
    /\ files = <<>> /\ done = FALSE /\ next = 0 /\ batch = <<>>
    /\ answers = <<>> /\ delivered = <<>>
    /\ seen = {} /\ listed = fs

-----------------------------------------------------------------------------
(* The owner of the directory, external to the program.                    *)

Write(p, file) ==
    /\ fs' = [fs EXCEPT ![p] = file]
    /\ UNCHANGED <<stage, producerVars, answers, delivered, history>>

Create(p) ==
    /\ ~fs[p].exists
    /\ fs[p].gen < MaxGens
    /\ Write(p, [NoFile(fs[p].gen + 1) EXCEPT !.exists = TRUE])

BeginDocument(p) ==
    /\ fs[p].exists /\ ~fs[p].partial
    /\ Len(fs[p].docs) < MaxDocs
    /\ Write(p, [fs[p] EXCEPT !.partial = TRUE])

FinishDocument(p) ==
    /\ fs[p].partial
    /\ \E kind \in {"whole", "broken"} :
           Write(p, [fs[p] EXCEPT !.partial = FALSE, !.docs = Append(@, kind)])

Delete(p) ==
    /\ fs[p].exists
    /\ Write(p, NoFile(fs[p].gen))

Owner == \E p \in Paths : Create(p) \/ BeginDocument(p) \/ FinishDocument(p) \/ Delete(p)

-----------------------------------------------------------------------------
(* The table function.                                                     *)

\* A bug: the paths are left in the order of the directory, here descending.
UnsortedPaths(S) ==
    CHOOSE s \in [1 .. Cardinality(S) -> S] : \A i, j \in DOMAIN s : i < j => s[i] > s[j]

\* paths.sort(), of paths that all differ.
SortedPaths(S) ==
    CHOOSE s \in [1 .. Cardinality(S) -> S] : \A i, j \in DOMAIN s : i < j => s[i] < s[j]

\* What a read of the file gives.
Content(file) == file.docs \o (IF file.partial THEN <<"cut">> ELSE <<>>)

\* A bug: a document that is cut off by the end of the file counts.
LeadingDocsCut(file) ==
    Cardinality({k \in DOMAIN Content(file) : \A j \in 1 .. k : Content(file)[j] # "broken"})

\* What split finds: the documents before the first that is not well formed.
LeadingDocs(file) ==
    Cardinality({k \in DOMAIN Content(file) : \A j \in 1 .. k : Content(file)[j] = "whole"})

\* expand_glob comes to a path, and finds that it is a file.  A path may also
\* never be found: what is in a directory that cannot be read, and what cannot
\* be stat'ed, is dropped without an error.
Find(p) ==
    /\ stage = "bound"
    /\ fs[p].exists /\ p \notin seen
    /\ seen' = seen \cup {p}
    /\ listed' = [listed EXCEPT ![p] = fs[p]]
    /\ UNCHANGED <<fs, stage, producerVars, answers, delivered>>

\* producer(): the paths that were found, sorted.
Producer ==
    /\ stage = "bound"
    /\ stage' = "idle"
    /\ files' = SortedPaths(seen)
    /\ UNCHANGED <<fs, done, next, batch, answers, delivered, history>>

\* No constant glob, or one that is not a pattern: there is no scan.
ProducerRefuses ==
    /\ stage = "bound" /\ seen = {}
    /\ stage' = "refused"
    /\ UNCHANGED <<fs, producerVars, answers, delivered, history>>

MayCall == stage = "idle" /\ Len(answers) < MaxCalls

\* A bug: `done` is set only when the batch is built.
BeginBatchUnmarked ==
    /\ MayCall
    /\ ~done
    /\ stage' = "reading"
    /\ next' = 1
    /\ batch' = <<>>
    /\ UNCHANGED <<fs, files, done, answers, delivered, history>>

\* next_batch, up to its loop: the scan counts as done before a file is read.
BeginBatch ==
    /\ MayCall
    /\ ~done
    /\ stage' = "reading"
    /\ done' = TRUE
    /\ next' = 1
    /\ batch' = <<>>
    /\ UNCHANGED <<fs, files, answers, delivered, history>>

Answer(reply) ==
    /\ answers' = Append(answers, reply)
    /\ stage' = "idle"
    /\ UNCHANGED <<fs, producerVars, history>>

\* next_batch after the first call: no more rows.
NoMoreBatches ==
    /\ MayCall
    /\ done
    /\ Answer("end")
    /\ UNCHANGED delivered

\* A bug: the rows are numbered through all files.
RowsNumberedThrough(p, file) ==
    [n \in 1 .. LeadingDocs(file) |->
        [file |-> p, idx |-> Len(batch) + n - 1, gen |-> file.gen, nth |-> n]]

\* The rows of one file: idx is the position in its own file.
Rows(p, file) ==
    [n \in 1 .. LeadingDocs(file) |->
        [file |-> p, idx |-> n - 1, gen |-> file.gen, nth |-> n]]

Reading == stage = "reading" /\ next <= Len(files)

Gathered == batch \o Rows(files[next], fs[files[next]])

\* A bug: the loop moves on twice.
ReadEveryOther ==
    /\ Reading
    /\ fs[files[next]].exists
    /\ Len(Gathered) <= Capacity
    /\ batch' = Gathered
    /\ next' = next + 2
    /\ UNCHANGED <<fs, stage, files, done, answers, delivered, history>>

\* A bug: the offsets are not looked at.
ReadUnbounded ==
    /\ Reading
    /\ fs[files[next]].exists
    /\ batch' = Gathered
    /\ next' = next + 1
    /\ UNCHANGED <<fs, stage, files, done, answers, delivered, history>>

ReadFile ==
    /\ Reading
    /\ fs[files[next]].exists
    /\ Len(Gathered) <= Capacity
    /\ batch' = Gathered
    /\ next' = next + 1
    /\ UNCHANGED <<fs, stage, files, done, answers, delivered, history>>

\* A bug: a file that cannot be read is left out.
SkipUnreadable ==
    /\ Reading
    /\ next' = next + 1
    /\ UNCHANGED <<fs, stage, files, done, batch, answers, delivered, history>>

\* A bug: a file that cannot be read is tried again until it can be.
RetryUnreadable == Reading /\ UNCHANGED vars

\* A read fails when the file is gone, and may fail for other reasons; its
\* error is the answer, and the rows of the files before it are dropped.
ReadFails ==
    /\ Reading
    /\ Answer("error")
    /\ UNCHANGED delivered

\* The i32 offsets of a BinaryBuilder are used up: append_value panics.
BuilderOverflows ==
    /\ Reading
    /\ fs[files[next]].exists
    /\ Len(Gathered) > Capacity
    /\ Answer("panic")
    /\ UNCHANGED delivered

ReturnBatch ==
    /\ stage = "reading" /\ next > Len(files)
    /\ Answer("batch")
    /\ delivered' = delivered \o batch

InNextBatch == ReadFile \/ ReadFails \/ BuilderOverflows \/ ReturnBatch

Expand == (\E p \in Paths : Find(p)) \/ Producer \/ ProducerRefuses

Scan == Expand \/ BeginBatch \/ NoMoreBatches \/ InNextBatch

Next == Owner \/ Scan

\* A call that began goes on; nobody has to call, and nobody has to write.
Spec == Init /\ [][Next]_vars /\ WF_vars(InNextBatch)

-----------------------------------------------------------------------------
Row == [file : Paths, idx : Nat, gen : 0 .. MaxGens, nth : Nat]

TypeOK ==
    /\ fs \in [Paths -> File] /\ listed \in [Paths -> File]
    /\ seen \subseteq Paths
    /\ stage \in {"bound", "idle", "reading", "refused"}
    /\ files \in Seq(Paths) /\ done \in BOOLEAN
    /\ next \in 0 .. Len(files) + 1
    /\ batch \in Seq(Row) /\ delivered \in Seq(Row)
    /\ Len(batch) <= Capacity /\ Len(delivered) <= Capacity
    /\ answers \in Seq({"batch", "end", "error", "panic"})

\* Document n of the file is whole, and so is every one before it.
Sound(file, n) == n \in DOMAIN file.docs /\ \A j \in 1 .. n : file.docs[j] = "whole"

HasRow(p, gen, n) ==
    \E i \in DOMAIN delivered :
        delivered[i].file = p /\ delivered[i].gen = gen /\ delivered[i].nth = n

(* A scan that gives a batch has in it every document that led a file when *)
(* the expansion found it, unless that file was replaced by another: a     *)
(* file that has gone since fails the scan and never shortens it silently  *)
(* (dump.rs:133-135).  What is missing without an error is what the        *)
(* expansion did not find, and nothing else (dump.rs:112-113).             *)
LosesOnlyTheUnseen ==
    "batch" \in ToSet(answers) =>
        /\ \A i \in DOMAIN delivered : delivered[i].file \in seen
        /\ \A p \in seen : fs[p].gen = listed[p].gen =>
               \A n \in 1 .. MaxDocs :
                   Sound(listed[p], n) => HasRow(p, listed[p].gen, n)

(* Every row is a document that is whole in its file, with nothing broken  *)
(* before it, however the writer was caught inside a document.             *)
RowsAreWholeDocuments ==
    \A i \in DOMAIN delivered :
        LET file == fs[delivered[i].file] IN
        file.exists /\ file.gen = delivered[i].gen =>
            Sound(file, delivered[i].nth)

(* The rows come file by file in the order of the paths, and idx counts    *)
(* from 0 without a gap in each file: (file, idx) is a key.                *)
RowsInOrder ==
    \A i \in DOMAIN delivered :
        LET row == delivered[i] IN
        IF i > 1 /\ delivered[i - 1].file = row.file
        THEN row.idx = delivered[i - 1].idx + 1
        ELSE row.idx = 0 /\ (i > 1 => delivered[i - 1].file < row.file)

(* The consumer gets one batch, or an error, and nothing after it but the  *)
(* end of the scan; it is never told the end first.  (After an error, a    *)
(* caller that asks again is told that the scan is over, not the error.)   *)
OneAnswerThenEnd ==
    /\ \A i \in DOMAIN answers : answers[i] = "end" <=> i > 1
    /\ "batch" \notin ToSet(answers) => delivered = <<>>

(* Every call of next_batch is answered, whatever the owner of the files   *)
(* does meanwhile.                                                         *)
EveryCallIsAnswered == stage = "reading" ~> stage = "idle"
=============================================================================
