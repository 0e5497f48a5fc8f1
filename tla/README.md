# A verification of vgi-bson

vgi-bson is a worker that gives SQL the functions of a BSON library: it tells
whether a blob is BSON, cuts streams of documents apart, reads `mongodump`
files, converts documents to JSON and typed columns, and encodes SQL values.
This directory holds TLA+ models of it, the TLC runs that check them and the
proofs TLAPS checks. Source paths below are relative to `src/crates/`.

## Inventory

| Component | Source | State it keeps | Operations |
|---|---|---|---|
| Structural validator | `bson-core/src/validate.rs` | one cursor; per active document its start, its end, its keys | `validate`, `precheck`, `validate_one`, `is_valid`, `well_formed` |
| Stream splitter | `bson-core/src/seq.rs` | cursor, number of the next row, rows | `split` |
| `mongodump_read` | `bson-worker/src/table/dump.rs` | list of files, `done`; outside it, the directory | `producer`, `next_batch` |
| `bson_seq` | `bson-worker/src/table/seq.rs` | the rows not given yet | `producer`, `next_batch` |
| Navigation, coercion | `bson-core/src/{field,typeinfo,value}.rs` | none | `field`, `coerce`, `infer`, `uuid`, `typeof` |
| ObjectId, timestamps | `bson-core/src/objectid.rs`, `bson-worker/src/scalar/{objectid,timestamp}.rs` | none | conversions to and from 32- and 64-bit times |
| Scalar functions | `bson-worker/src/scalar/{codec,common,mod}.rs`, `arrow_io.rs` | the types fixed at bind | `on_bind`, `process`, row by row |
| Encoding | `bson-worker/src/value_in.rs` | none | `value_at`, `encode_document` and the numeric conversions |
| Extended JSON | `bson-core/src/extjson.rs` | none | conversions done by the `bson` and `serde_json` crates |
| Start-up, catalog | `bson-worker/src/{lib,main,meta}.rs`, `bson-wasm` | none | registration |
| Integration harness | `ci/run-integration.sh` (at the root) | a background process, its log, its port | start, wait, test, clean up |

**How they interact.** Everything that looks at a blob goes through the
validator. `split` calls `validate_one` in a loop, with a cursor the two share;
`mongodump_read` and `bson_seq` call `split`; the decoders call `precheck` and
then the `bson` crate; `is_valid` and `well_formed` call `validate`. A scalar
function is bound once and then processes batches, whose rows must not affect
each other. A table function is asked for a producer and the producer for
batches, until it says there is no more.

**What is hard.** Six behaviours of this code escape ordinary tests:

- *A validator of arbitrary bytes.* Every length in a document is a claim.
  The type byte is read with an unchecked index that is in bounds only because
  of comparisons made elsewhere; a nested document is compared with the
  buffer and not with its parent; a key is looked for beyond its document.
- *Cutting a stream with a cursor that the validator also moves.*
- *Reading files that somebody else is writing*, listed at one time and read
  at another, with errors half-way.
- *Partial failure inside a batch* and types that are fixed at one time and
  used at another.
- *Waiting for a process* that may be slow, silent or dead, through a log that
  may be absent or somebody else's, and cleaning up after it from any place.
- *Two ends of a conversion that are written apart*: what `encode` writes and what
  `field` reads, the two copies of `navigate`, a type name and the list of them.

A call of the worker runs on one thread and nothing is persisted, so there are
no crash-recovery models. The concurrent actors are outside it: the owner of
the dump directory, and for the integration script the worker it starts.

**What makes each component correct.** The validator: never out of bounds, never
deeper than its limit, always ends, accepts exactly the documents of the
format, and says "truncated" whenever more input might help. The splitter:
delivers exactly the documents that lead the stream, once each and in order.
`mongodump_read`: fails, or delivers every document that led a file when the
expansion of the glob found it, whole documents only, in an order that makes `(file, idx)`
a key. The scalars: one
row out for each row in, a row's failure is a NULL in that row, and the type of
the output is the type that was bound. The numeric conversions: stay in range or
say that they do not. The harness: ends, leaves nothing behind, and is green
only if tests ran.

Navigation: one path means one value, for whichever function asks, and what is
said of the value tells it. Encoding: a part of a SQL value is found in the
document under its own path, with its value and in its order.

## Plan

| Order | Module | Models | State of work |
|---|---|---|---|
| 1 | `BsonBytes`, `Validate` | the validator | done, proved |
| 2 | `BsonGrammar`, `ValidateGrammar`, `SplitGrammar` | reference definition of a document; what it has to do with validator and splitter | done, proved |
| 3 | `Framing`, `Split` | abstract cutting; the splitter that implements it | done, proved |
| 4 | `DumpRead` | `mongodump_read` and the owner of its files | done, proved |
| 5 | `ScalarBatch`, `ScalarAnswers` | bind and process; what is answered for one cell | done, proved |
| 6 | `Harness` | the integration script and its worker | done, proved |
| 7 | `Calendar`, `Times` | the calendar; dates and times computed from counts | done, proved |
| 8 | `SeqProducer` | `bson_seq`, composed with `Split` | done, proved |
| 9 | `Numbers`, `Encode` | integers, instants, decimals, keys and parts of encoded SQL values | done, proved but for texts |
| 10 | `Lookup`, `Paths` | `keys`, `type_of` and `field` on what is stored or encoded; what a path addresses | done, proved but for texts |

"Proved" says that each safety property of the module's run is a theorem; the proofs
are in modules of their own: `ValidateProofs`, `GrammarProofs` (of the validator and of the
splitter), `DumpReadProofs`, `HarnessProofs`, `ScalarProofs`, `TimesProofs` and
`LookupProofs` (of `Numbers`, `Encode` and `Lookup`). "But for texts" leaves two properties,
or parts of them, to TLC: see the end of "Proofs". `LocalityProofs` shows what no run asks: that a whole run of the validator does
not depend on the bytes around the document.

## Modules

### BsonBytes

The readers of `validate.rs`, as operators from a buffer and an offset to
`Ok(position)` or `Err(kind)`. A buffer is a sequence of integers 0..255, and
an offset counts from 0 as in the code. `I32At` is the little-endian two's
complement integer. `FirstNul` searches the rest of the *buffer*, as
the code does. `Utf8` stands for `std::str::from_utf8` and is written from the
definition of UTF-8, because the standard library is not in the repository.

### Validate

`validate_doc` and `validate_value` are mutually recursive. Their stack is
explicit here: `frames` holds the locals `doc_start`, `doc_end` and `seen` of
each active `validate_doc`, `pos` is the shared `&mut usize`, and `pc` tells
which piece of code runs next. `EnterDocument` is `validate_doc` up to its
loop, with the guards in the order of the early returns; `ElementOverrun`,
`EndDocument` and `ReadKey` are one turn of the loop; `FixedValue` to
`UnknownValue` are the arms of `validate_value`; `NextElement` is the check
after it; `Finish` is what the entry points do with an `Ok`. `depth` is the
number of frames. The constant `MaxNesting` is `MAX_NESTING`. An `Err` goes
through every caller by `?`, so `Reject` ends the walk in one step. It leaves
`pos` alone, although the code may have advanced it by a few bytes first; no
caller uses the cursor after an error.

### Locality

`Locality` relates a run of the validator to the run on another byte string, `There`, in
which the same document begins `Shift` bytes further on: the refinement mapping moves the
cursor and the frames. The relation is that the bytes from the prefix to the end it
declares are the same (`SameDocument`); nothing is said of the bytes before and after. It
is about proofs and is in no run.

### BsonGrammar, BsonSamples

`BsonGrammar` says what a document is, top-down by slices: a
document is a slice whose prefix is its own length, whose body is cut into
elements, each inside the slice. It shares no reading position, no stack and no
buffer end with `Validate`, so agreement of the two is not by construction. Documents
are in documents, and the recursion is that of a function on numbers: `ListsUpTo[n]` are
the lists of elements, as far as they have no more than `n` bytes. So both TLC and the
proofs can use it. `BsonSamples` builds
documents of every element type, truncations, and one-byte damages.

### ValidateGrammar, SplitGrammar

What the verdict of the validator and the rows of the splitter say in terms of the
grammar. `ValidateGrammar` has a constant `Longer`: byte strings that may continue the
buffer, among which `OtherErrorsAreFinal` looks for a document. The theorem holds for any
set of byte strings; TLC needs the set to be finite.

### Framing, Split

`Framing` is what a consumer of a split stream may rely on: rows numbered from
0, each beginning where the one before ended and as long as its prefix says,
until cutting stops. `Split` extends `Validate` with the loop of `split`: the
steps of `validate_one` are the validator's own actions (`InValidateOne`), so
the composition is of the two real components. `ImplementsFraming` is
the refinement, with the end of the last row as the abstract cursor.

### SeqProducer

`bson_seq` extends `Split` in turn: `SplitStream` is a step of the splitter inside
`producer`, `KeepRows` is the end of `producer`, `NullStream` what it does without a
stream, and `GiveBatch` and `NoMoreBatches` are `next_batch`, which takes the
documents the first time. The engine calls as often as it likes. A row refers to
its bytes by their place in the stream until `Batch` copies them. The
documents of a stream are together no longer than it, so the builders do not
overflow here as they may in `mongodump_read`.

### DumpRead

`mongodump_read` beside the owner of its directory. The owner creates, extends
(a document is first partly written, then complete), and removes files; `gen`
tells a file from one that replaced it. The glob is expanded path by path: `Find` comes
to one that is a file. Any path may never be found, because `expand_glob` drops without an
error what is in a directory that it cannot read and what it cannot stat (lines 112-113);
the history variable `seen` has the paths that were found and `listed` each file as it was
then. `Producer` sorts the paths, `ProducerRefuses` is a glob that is missing or is no
pattern, `BeginBatch` the start of `next_batch`, `ReadFile`, `ReadFails` and
`BuilderOverflows` one turn of its loop, `ReturnBatch` its end. Between any two,
the owner may act; reading one file is one step. A document is "whole" or "broken", and a
read also gives the beginning of one that is being written ("cut", in `Content`);
`LeadingDocs` is what `split` returns of that (see `StopsWhereNoDocumentBegins`, which the
run of `MCSplit` checks, with the bytes of such tails).

A panic of `BuilderOverflows` is an answer of the call here, as the engine sees it: that
the code panics is a fact about it and not an error of the model. What can go wrong with it is a
batch that grew past the offsets (`TypeOK`) or rows that are delivered although the call
failed (`OneAnswerThenEnd`). A name that is not UTF-8 is listed with replacement
characters (line 114) and cannot be read; that such a name is the one of another file, and
is then read in its place, is left out.

### ScalarBatch

The fourteen scalar functions. `Bind` is `on_bind` with the constant arguments;
`StartBatch` to `FinishBatch` is `process` on one batch, a row at a time, with
one action per function named as in the code. The engine chooses how a column
is cut into batches. `BlobBytes` and `TextStr` are the accesses of
`arrow_io.rs`, whose `Err` ends the call by `?`; a decoding error becomes a NULL.
The functions made by `blob_scalar!` first gather the cells of a batch (`Gather`,
`Gathered`) and then build; lists and structs are put together from several
columns of builders in `cols` (`NewColumns`, `AppendList`, `Push`), and
`FinishBatch` reads the rows back from them as Arrow does. A cell is data: what
`validate` and `bson` say of it, and an `id` that names it in what is rendered.
`Overloads` are the names that `argument_specs` declares, one list for each registered
object of a name, of which the engine takes the one with the right length; `Path` and
`Mode` read the arguments by position, as the code does. `StructU32` takes the low 32
bits of a field of four integer types.
`ScalarAnswers` says independently, one cell at a time, what each function is
described to answer (`Described`), its arguments by name (`Given`), a `u32` as the one
number that differs by a multiple of 2^32 (`AsU32`), and which cells it takes
(`Takes`). A field that is out of the range of a `u32` wraps, and a column that is no
STRUCT makes `as_struct` panic: both are what the code does, and are described so. The
properties say the rest: that each of the four types gives its low bits and not, say, the
nearest `u32`; and that a call stops at such a column only for a cell that is not
NULL, as `struct_u32` looks at the NULL first. `MCScalarBatch` has the cells and calls of the run.

### Harness

`ci/run-integration.sh` and the worker it forks. `pc` is where the script is:
`UseBinary`, `UsePreset`, `UnknownTransport` and `Launch` are the choice of the
transport; `Probe`, `LookForPort`, `LookForSocket`, `TryAgain` and `TimedOut` the
waiting loop; `StageTests` to `Report` the suite; `Cleanup` and `Waited` the trap,
into which each failing command leads by `Exit`, since the script runs under
`set -e`. The worker creates its log when the shell forks it, listens,
announces itself and dies whenever it likes. The directory `STAGE` may be used
for the second time, so that a log and a socket of an earlier worker are there;
the port of that log may be somebody's by now (`otherUp`).

### Times, Calendar

`Times` has the pure functions of `objectid.rs` that render a count of seconds or
milliseconds, a rendered text being the record of its fields. The division `/`
of Rust rounds towards zero (`Quotient`), `div_euclid` does not. `Calendar` knows
only the lengths of months and which years leap, and goes from one day to the
next. `MCTimes` walks through the days and `DatesAreTheCalendar` is the
refinement: the date computed from each day alone follows the calendar.

### Numbers, Encode, Lookup, Paths

`Numbers` has `int_from_u64` and `timestamp_millis`, with the widths of the code as
constants. `Encode` has the rest of `value_in.rs`: a cell of a column (a SQL type, a
NULL or a number, a text, items or entries) becomes a value of the `bson` crate,
or `None` where the code fails. What is text in the code and matters here is text
in the model: decimals digit by digit, the keys of a MAP. A decimal goes through three texts
as in the code: `FormatDecimal` writes it, `ParseDecimal` is `Decimal128::from_str`,
which moves zeros at the end into the exponent when the digits are too many and fails
when they are not zeros, and `DecimalToString` is what a `Decimal128` shows, in scientific
notation below 1E-6 and with an exponent above 0.

Cells and values are trees of any depth, and `value_at`, the decoder and `precheck` recur
over them. A tree is a function from addresses to nodes here: the address of a part is
the sequence of the parts that lead to it, as an XPath or a file name is. The
recursion is then a function on the addresses: `value_at` makes one node of one node
(`NodeAt`), an error of one part is one of the whole (`IsKnown`), and the depth is the length
of an address (`IsNested`). What recurs in more than this is `Document::insert`: of
equal keys the last value stays, at the place of the first (`Insert`, `Filled`), and what
was below the others is gone (`Settled`). A part is numbered by where it is in
the cell or in the bytes, so it has one address before and after.

`Lookup` asks one question of one document, stored or made by `encode`
(`EncodeDocument`). It runs `keys`, `type_of` and `field` one after the other, each
of which decodes again (`DecodeDocument`: `precheck`, then the decoder, which puts
equal keys together). One step of `TypeOf` or `Field` is one turn of the loop of
`navigate` (`Follow`); the two copies of it are kept apart (`TypeChild`,
`FieldChild`). A document is a tree, so `precheck` is here the limit of the
nesting and "is a document": what it means for bytes is `Validate`. The scope of a
code-with-scope is a level (`Nesting`), its contents are in a name. A path is the
sequence of its segments. `IndexOf`, what `parse::<usize>` makes of the segments it
takes, is a constant: the theorems hold for any such table, the run has "0", "1", "2" and
the forms with a zero or a plus in front. Extended JSON and hex are names which keep every two
values apart. The reference `cur` into the decoded document is an address.

`Paths` says independently what a path addresses, without walking, decoding or encoding:
in the stored bytes (`AddressesAt`, with the last of equal keys) and in a SQL value
(`PartsAt`), and when a value is nested too deep to be read again (`ReadsBack`, which looks at
what is stored of it: an entry of a MAP that another with its key overwrote does not
count). A decimal is described there by division (`DecimalText`, `KeepsDigits`), and by no text
that was parsed. The properties compare with these. `MCLookup` has the samples of the run and
what depends on them.

## Runs

| Run | Asks | Bounds |
|---|---|---|
| `validate_samples` | Is the validator in bounds, bounded, progressing, and exactly the grammar, on damaged documents? Are all errors but "truncated" final? | documents of every element type, nested one level beyond a limit of 2; each truncation; each byte replaced by any of 13 that mean something to the format; exhaustively, bodies of up to 5 bytes over 5 values with right and wrong prefixes |
| `split_streams` | Does `bson_seq` give exactly the leading documents, in one batch? | up to 3 parts of 10 kinds, 5 tails; one stream of three documents with any byte replaced by any of 0..12; a NULL; 3 calls |
| `dump_read` | What does a scan deliver while its files change? | 2 paths, files with up to 2 documents when the scan is bound and as many later, each path created anew once, any path not found, 2 calls, batches of at most 3 documents |
| `scalar_batches` | Does each row answer its own cell, and does a call stop exactly for what it does not take? | every function and choice of arguments; columns of each type with up to 3 cells of all kinds, cut in every way; a u32 of 4 bits |
| `harness` | Does the script end, clean up, and is green only when tests ran? | 3 turns of the waiting loop for 60; all transports; a new or a used `STAGE` |
| `civil_dates` | Are the dates right, and the times of day? | each day of 4 cycles of 400 years, the years -430 to 369 and 1570 to 2369 |
| `lookup` | Do `keys`, `type_of` and `field` find what is there, say what it is, and find what was encoded? | leaves of every type, many with the same text; 8 trees with equal keys, keys with dots and keys like indexes, nested to the limit of 2 and beyond, also by a scope; SQL values of every type at the boundaries of widths and units, decimals of scales -2 and 0 to 9 with more and fewer digits than fit, MAPs with keys that collide, also over an entry nested too deep; paths of up to 3 of 9 segments; all coercions |
| `valid_as_documented`, `valid_lengths_match`, `split_malformed_prefix`, `harness_slow_worker`, `registry` | Does the code do what a comment says? It does not. | as the run above of the same module |

Why the bounds are enough. The limit of 2 stands for 256: the comparison and
its boundary are the same, and documents on each side of it are among
the samples. The truncations reach every read of every element type with the input
ending at every place. The two-file bound of `dump_read` has a file before
and after the one that fails; a path that is created anew has a replacement, or a file
where none was; two calls have a call after each kind of answer. Three cells make a column with something before
and something after the cell at fault, in the same batch or in another. The
script does not look at the number of turns except for the last, and 3 turns have
a first, a middle and a last. Dates repeat with the cycle of 400 years (proved:
`DatesRepeat`), and the cycles on both sides of the year 0 have the change of sign
of the division.

In `lookup` 32 and 64 bits are 11 and 22 bits, the widest that TLC can multiply by
1000; doubles above are 1024 apart, as they are 2048 apart above `i64::MAX`; a
`Decimal128` has 4 digits of 34. The functions compare with these boundaries and do
nothing else with them, the samples lie at and on both sides of each, and
the proofs about `Numbers` have no bound on widths. Three segments go through a document, an array and
what is in it. In `scalar_batches` a u32 of 4 bits has fields below 0, at its end and
beyond it.

`CHECK_DEADLOCK FALSE` stands where the system may stop: in `dump_read` the
owner's bounds run out and a scan may be over, in `scalar_batches` a query is over
when it fails, in `lookup` it is over when it is answered, and in `civil_dates` the walk ends with its cycle.

## What the runs show about the comments

- `is_valid` is `validate`, so it rejects equal keys. The description of
  `well_formed` says that it is the stricter one because it flags them.
- A code-with-scope value carries a total length. Only its sign is checked.
- `split` stops at the first document that is unsound anywhere and not only in
  its length prefix, and drops what follows.
- If the log does not exist yet when it is first read, `sed` fails, `pipefail` and
  `set -e` end the script with status 2, and no turn is waited
  (`harness_slow_worker`).
- The view `bson_types` lists type names "as reported by `type_of`". It says `code` and
  `codeWithScope`; `type_of` says `javascript` and `javascriptWithScope`, so a join of
  the two loses these rows (`registry`).

Noticed while reading, without a run of their own:

- `BadSubtype` is documented for an oversized binary length, which is reported as
  `Truncated`.
- The timestamp functions are bound to columns of any type, and `as_struct` panics for one
  that is no STRUCT, which `scalar_batches` counts as a misfit. `timestamp_to_ts` is
  documented to be NULL "when the input struct has no integer `t`"; it is NULL for the
  small integer types too, and a negative or 64-bit `t` wraps.
- The log polled by the integration script has a fixed name in `STAGE` and is not removed,
  so with a used `STAGE` the endpoint of an earlier worker may be taken. `Harness`
  has this behaviour: the suite then skips or fails, unless somebody still serves that
  port, and by `GreenMeansTested` a green run has tested something.
- An http worker is started before the script changes to `STAGE`, where lines 144-145
  say its directory is.
- A decimal is described as lossless within 38 digits. A `Decimal128` has 34, so a
  longer one becomes a double, unless it ends in zeros; `PartsKeepTheirValue` says exactly
  which. Of a decimal below 1E-6, or with zeros cut off, `field` shows scientific notation.
- A small `u64` becomes an `Int32`, a small `i64` an `Int64`.
- `encode` has no limit of nesting and `precheck` has one, so `encode` writes documents that
  no function reads: nothing is found in them, as `PartsAreWhereTheyWere` says.
- Keys with a dot cannot be reached by a path. Two keys of a MAP whose texts are equal
  become one field, with the last value.
- `mongodump_read` is described as the way "to get every document joinable in SQL"
  (dump.rs:44-45). Files in a directory that cannot be read, and files that cannot be
  stat'ed, are left out without an error (dump.rs:112-113), while one that cannot be read is an
  error. `LosesOnlyTheUnseen` says that nothing else is lost silently.
- `field` answers the text `null` for a null that is there and NULL where nothing is.
- Parts of a millisecond are cut towards 1970, so of instants before it the later
  millisecond is kept (`InstantsAreCutTowards1970`).

## Fairness

`Validate`, `Split` and `SeqProducer` assume weak fairness of the steps of the
function that was called: it runs on. `DumpRead` assumes it of the steps inside `next_batch` and of
nothing else: nobody has to call, and the owner does not have to act. `Harness`
assumes it of the steps of the script, which include the end of the runner, and
of `Terminate`: a worker that was sent a signal dies. It assumes nothing else of
the worker, which may stay silent or alive for ever. The other modules state
no liveness.

## Proofs

`ValidateProofs`, `LocalityProofs` and `GrammarProofs` hold for every set of buffers, every
nesting limit and every set of entry points. The assumptions are that buffers (and the
members of `Longer`) are sequences of bytes, that the limit is a natural number, and that
entry points are the three of the code.

The inductive invariant `IInv` of the validator relates the stack to the
buffer. It has the types and the depth bound; every frame ends inside the
buffer; the outermost ends where the prefix at `start` says, and once it has
been popped the cursor is there (`Whole`); a frame exists whenever a piece of
code reads one; the verdict is open while the walk runs, and "ok" only with an
empty stack and the cursor at the declared end. The properties are not
inductive by themselves. The unchecked index is in bounds because the cursor is
before the end of the top frame *and* that end is at most the length of the
buffer; the frame may have been pushed long before, so the bound must be kept
for all frames. From `IInv` follow:

- `TypeCorrect`, `NoIndexOutOfBounds`, `DepthIsBounded`,
  `AcceptedDocumentsAreFramed`;
- `OverreachIsAlwaysFatal`: if a child's end exceeds its parent's, then either the
  two frames stay, or the walk ends with an error: a child that ends does so at its
  end, which is beyond the parent's;
- `StepsAreProgress` and `RemainingIsBounded`: a measure that every step lowers
  and that starts at no more than `3 * Len(buf) + 3`. The conclusion that
  the walk ends needs fairness and is checked by TLC.

`LocalityProofs` is about what the code leaves open by its scans to the end of the *buffer*.
A reader that succeeds and ends inside the document reads the same elsewhere, for each kind
of value (`ReadingAgrees`, `SameReading`). A reader may also end beyond the document, or a
nested prefix may claim bytes beyond it. A walk that did this stays beyond: the cursor only
moves on, and a frame is popped only where it ends (`StraysOn`), so it is never accepted
(`StrayingIsAlwaysFatal`). Every other step is the step taken elsewhere
(`StepsAreTheSameElsewhere`, one lemma for each action), so a run that accepts is a run
elsewhere (`AcceptanceIsLocal`). `There` and `Shift` are any byte string and any integer:
the document alone, the rest of a stream, a longer stream. With the same entry point, a row
of `split` is therefore accepted alone, and a document accepted alone is accepted in every
stream. A document that is not there in full is called "truncated" before it is
looked at (`MissingPartsAreTruncated`), so no longer buffer holds an accepted document
where another error was found.

`GrammarProofs` shows that the validator accepts what the grammar describes and nothing
else (`AcceptanceIsTheGrammar`), on every buffer. It has three parts.

- *Induction.* The library states induction for an operator, which these provers cannot
  instantiate, so induction over numbers is proved here for a set of numbers
  (`Induction`): a set of numbers has a least one (`LeastNumber`), because the order of
  numbers is well-founded. From it follows that a
  recursion over numbers has a solution (`Recursion`).
- *The grammar as a rule.* Whether a list of n bytes belongs to the lists depends on
  shorter lists only (`DocumentLocal`, `ValueLocal`), so more turns of the recursion
  change nothing, and the lists satisfy the rule they are described by, with no
  number in it (`ElementListRule`). For each kind of plain value, its slice is the phrase
  exactly if the reader ends at the end of the slice (`PlainRule` and the lemmas before it).
- *The invariant.* `Acceptable` says of a state what is left to be read: at "value",
  that a value of the grammar begins at the cursor and the rest of each open document
  follows it, up to the end of its frame (`Rest`). `AInv` says that this holds
  exactly if a document begins at `start`. Every step keeps the answer, one lemma for each
  (`EnterAccept` to `FinishAccept`): a step that rejects does so where no continuation is a
  phrase, and a step that goes on has taken the only phrase that can be taken. It needs
  `IInv`, and that keys are collected only where they are compared (`KeysKept`).

At the end nothing is left to be read and the verdict is the answer. `TrailingIsSaidExactly`
follows from the same invariant. `ErrorsAreFinal` adds that a document that is not there in
full is never entered (`MissingIsNoticed`), so any other error was found in bytes that a
longer buffer has too (`SameSlice`).

Its second part is about the splitter. It adds to `IInv` that outside the validator the
cursor is where the last row ended, and shows `RowsAlwaysTile` and, step by step,
`SplitImplementsFraming`: every step of the validator is a stutter of
`Framing`, a pushed row is a `Deliver`.

Both carry over to `bson_seq`, since a step of it is a step of the splitter or leaves it alone (`SplitsOrWaits`), and shows `AlwaysOneBatchThenEnd`
for any number of calls: its invariant says that after `producer` the documents
are in `docs` or in the one batch given, and never in both. The last part says what the
rows are. Its invariant `DInv` is the validator's `AInv` while `validate_one` runs, and what was found
about the calls before it: a row is a document of the grammar (`RowsAreDocuments`), and
where the splitter stops none begins, unless the stream is over (`NothingIsLeftOut`).

`TimesProofs` shows that the computed dates implement `Calendar` on every day
(`DatesImplementTheCalendar`), for whatever cycles the walk has; the only
assumption is that cycles are integers. A day is a place in an era of 400 years
(`DateInItsEra`, from `EraRoundsDown`: the subtraction in front of the division
makes it round down for negative days too). The next day is in the same era
(`TomorrowInTheEra`) or the first of the next (`TomorrowInTheNextEra`); in the
same era it is in the same year or the first of the next, after 365 or 366 days
(`DayAfter`); in the same year it is in the same month or the first of the next
(`MonthAfter`). `InstantsOfEveryDay` does the same for times of day on every
day, where the run only has the days that fit TLC's integers.

`LookupProofs` begins with the conversions of numbers, for every width and every spacing of
doubles; the assumption is that the widths are naturals and that the first integer past `i64`
is a double. An integer keeps its value up to `i64::MAX` and is beyond it at most half
a spacing off (`IntegersKeepTheirValue`, from the division of `NearestDouble`); the
smaller of two integers never becomes the larger value, whichever of three types
each becomes (`IntegersKeepTheirOrder`); an instant loses less than a millisecond,
towards 1970, keeps its place among the others also where seconds saturate, and
stays an `i64`.

The rest of `LookupProofs` is about trees of any size and depth, paths of any length, and
every nesting limit. It assumes of what is asked (`QueriesAssumption`) that a stored value is
a tree of BSON types with texts as keys, and that a cell is what Arrow hands out: a
NULL or a scalar has no parts, a `u64` is in `UInt64`, an instant in `Int64`; and of
the table of indexes that it gives natural numbers (`IndexAssumption`). Nothing
is assumed of the keys of a MAP: equal ones, and ones of types that `encode` refuses, are
included.

- *Filling.* What the loop of `insert` has made of n fields is found by induction over n
  (`FilledInserts`): no two keys are equal, a key is there exactly if it was given, and
  its part is that of the last field that gave it. Hence `Settled` is a tree again
  (`SettledIsTree`), its fields are the last of their keys (`LastFieldIsKept`), and a segment
  leads in it where it leads in the bytes (`Children`): decoding changes no path.
- *The walk.* The invariant `IInv` says that the reference is to the only part that the
  consumed segments lead to in the bytes (`Walking`, `Reached`), and of each function that
  has answered that its answer is right. `FindsExactlyThePath` looks at the end of a walk
  only, and is not inductive: that there is one such part, and that the walk has not
  left it, must be known at each segment (`ReachedNext`). A walk that ends early ends where no
  part is reached by any longer path (`FollowStep`).
- *Encoding.* A cell leads to a part by a segment exactly if its node does
  (`CellsLeadAsNodes`), so the parts of a SQL value at a path are the addresses of
  the encoded document at it (`PathsAreKept`, through two fillings: `encode` inserts and the
  decoder inserts again), and each is found with the value of its cell
  (`CellsAreKept`, from the numbers above). A part is in the encoded document exactly if it is
  stored (`StoredParts`), so the document is nested too deep exactly if what is stored of
  the value is (`NestingIsKept`), and then nothing is found.

`HarnessProofs` holds for any number of turns of the waiting loop. None of its three
properties is inductive. `LeavesNothing` needs that the trap knows of the worker from
the moment there is one, although the worker is forked, opens its log and dies between
any two steps of the script (`TrapKnowsTheWorker`). `GreenIsTested` needs that nothing
but a suite that was reached and passed leads to status 0, whichever command fails
on the way (`GreenFollowsThePass`). `GateHolds` needs what a look at the log or at the
socket means: in a new `STAGE` what is announced there was written by this worker, which
listened before, and listens still or is dead (`WhatIsSeenIsTheWorker`).

`DumpReadProofs` holds for every finite set of paths and all bounds of the owner and of
the builder. Its invariant `DInv` says how each file relates to what it was when the
expansion found it: a file that is still of the same generation has all documents that led
it then (`Evolves`, which is transitive, so it spans any number of steps of the owner).
The files of the scan are the paths that were found, so `OnlyTheUnseenIsLost` speaks of these;
of a path that was never found it says only that no row is of it.
Of the rows it says, after any number of files (`Covers`): they are in order, they
stand in their files, they are of the files passed, and nothing of these files is
missing. Each of the four must be kept by the owner (`CoversStays`) and by the next file
(`CoversNext`). Two facts on data are proved without induction: a finite set of
paths has its sorted sequence, since the number of paths up to a path is its place
(`Sorting`); and what `split` finds is a number of documents that is all of them that
are sound (`Leading`).

`ScalarProofs` holds for all cells and calls, columns of any length, and every way to cut
them, for every width of a `u32`. What it assumes of a cell are its types. The invariant `ScalarInv` has three
parts beside the two properties of the run. What was gathered are the cells of the
batch, and all were taken (`GatheredUpTo`). The columns are lists of one length, and
*read back* they answer the rows done (`Built`): a struct is read from four columns,
a list from two. Each list of keys lies within the values (`ListsEnd`), so the
items of later rows leave it alone (`SliceBefore`) and the items of this row are the
new ones (`SliceAfter`). That arguments read by position are those declared by name
is `ArgumentsByName`, over all overloads; `LowBits` says that `as u32` is what
`AsU32` describes. A step of one of the fourteen functions adds a row (`PushStep`,
`AnswerStep`, `BlobStep`, `AppendListKeepsBuilt`), or stops the call at a cell that is
not taken (`MisfitStep`).

Only model-checked:

- Liveness: that the script exits, that a call of `next_batch` is answered, that a walk ends.
- `TextAndTypeTellTheLeaf`, and of `PartsKeepTheirValue` what it says of decimals: both are
  about the characters of a text (`ToString`, `\o` of strings), of which the provers know
  nothing. `EncodingKeepsValues` is the rest of `PartsKeepTheirValue`.

Liveness under fairness is out of reach of TLAPS.

## Not modelled

- *Extended JSON.* `extjson.rs` chooses a form and calls the `bson` and `serde_json`
  crates; its modes are in `ScalarBatch`, and their texts are names.
- *Start-up and catalog.* `lib.rs`, `main.rs`, `meta.rs` and the metadata of each
  function register objects once and describe them. Only the rows of `bson_types` are
  claims about other code, and those are in `MCLookup`. The WebAssembly build starts the same
  worker; packaging and workflows have no behaviour of their own.
- *Around the harness.* Signals sent to the script, the preprocessing of its tests and
  `check-version.sh`; working directories.
- *Wording.* Messages, and the padding of rendered times (a year before 0 or after
  9999 has not four digits).
- *Data.* Floats with fractions, NaN and infinities are not encoded in `lookup`; keys
  of a MAP are scalars.

The Arrow library, the standard library, the `glob` and `bson` crates and the owner
of files are external and appear only as their users see them.
