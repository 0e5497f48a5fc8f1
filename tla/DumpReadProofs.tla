--------------------------- MODULE DumpReadProofs ---------------------------
(***************************************************************************)
(* mongodump_read, for every set of paths and every way in which the owner *)
(* of the directory goes on writing, removing and replacing files, and     *)
(* whichever of them the expansion of the glob does not find.              *)
(***************************************************************************)
EXTENDS DumpRead, FiniteSetTheorems, SequenceTheorems, TLAPS

\* A finite set of paths can be sorted: the place of a path is the number of
\* paths that are not after it.
LEMMA Sorting ==
    ASSUME NEW S \in SUBSET Nat, IsFiniteSet(S)
    PROVE  /\ Cardinality(S) \in Nat
           /\ SortedPaths(S) \in [1 .. Cardinality(S) -> S]
           /\ \A i, j \in 1 .. Cardinality(S) : i < j => SortedPaths(S)[i] < SortedPaths(S)[j]
           /\ \A p \in S : \E i \in 1 .. Cardinality(S) : SortedPaths(S)[i] = p
<1> DEFINE n == Cardinality(S)
           upTo(p) == {q \in S : q <= p}
           place == [p \in S |-> Cardinality(upTo(p))]
           Sorts(s) == \A i, j \in DOMAIN s : i < j => s[i] < s[j]
<1>0. \A p \in S : p \in Nat
  OBVIOUS
<1>1. n \in Nat /\ IsFiniteSet(1 .. n) /\ Cardinality(1 .. n) = n
  BY FS_CardinalityType, FS_Interval
<1>2. \A p \in S : IsFiniteSet(upTo(p)) /\ Cardinality(upTo(p)) \in 1 .. n
  <2> TAKE p \in S
  <2>1. upTo(p) \in SUBSET S
    OBVIOUS
  <2>2. IsFiniteSet(upTo(p)) /\ Cardinality(upTo(p)) <= n
    BY <2>1, FS_Subset
  <2>3. Cardinality(upTo(p)) \in Nat /\ Cardinality(upTo(p)) # 0
    <3>1. p \in upTo(p)
      OBVIOUS
    <3> QED BY <3>1, <2>2, FS_CardinalityType, FS_EmptySet
  <2> QED BY <2>2, <2>3, <1>1
<1>3. \A p, q \in S : p < q => place[p] < place[q]
  <2> SUFFICES ASSUME NEW p \in S, NEW q \in S, p < q PROVE place[p] < place[q]
    OBVIOUS
  <2>1. upTo(p) \in SUBSET upTo(q) /\ q \in upTo(q) /\ q \notin upTo(p)
    <3>1. p \in Nat /\ q \in Nat /\ p < q
      BY <1>0
    <3>2. \A r \in S : r \in Nat /\ (r <= p => r <= q)
      BY <1>0, <3>1
    <3>3. q \in upTo(q) /\ q \notin upTo(p)
      BY <3>1
    <3>4. \A r \in upTo(p) : r \in upTo(q)
      BY <3>2
    <3> QED BY <3>3, <3>4
  <2>2. Cardinality(upTo(p)) <= Cardinality(upTo(q))
        /\ Cardinality(upTo(p)) # Cardinality(upTo(q))
    BY <2>1, <1>2, FS_Subset
  <2> QED BY <2>2, <1>2
<1>3a. \A p, q \in S : place[p] < place[q] => p < q
  <2> SUFFICES ASSUME NEW p \in S, NEW q \in S, ~(p < q) PROVE ~(place[p] < place[q])
    OBVIOUS
  <2>1. place[p] \in Nat /\ place[q] \in Nat
    BY <1>2
  <2>2. p = q \/ q < p
    BY <1>0
  <2>3. place[p] = place[q] \/ place[q] < place[p]
    BY <2>2, <1>3
  <2> HIDE DEF place
  <2> QED BY <2>1, <2>3
<1>4. place \in Surjection(S, 1 .. n)
  <2>1. place \in [S -> 1 .. n]
    BY <1>2
  <2>2. \A p, q \in S : place[p] = place[q] => p = q
    BY <1>3, <2>1
  <2>3. place \in Injection(S, 1 .. n)
    BY <2>1, <2>2 DEF Injection, IsInjective
  <2> QED BY <2>3, <1>1, FS_Injection
<1>5. \E s \in [1 .. n -> S] : Sorts(s)
  <2> DEFINE s == [i \in 1 .. n |-> CHOOSE p \in S : place[p] = i]
  <2>1. \A i \in 1 .. n : s[i] \in S /\ place[s[i]] = i
    BY <1>4 DEF Surjection
  <2>2. s \in [1 .. n -> S]
    BY <2>1
  <2> HIDE DEF s, place
  <2>3. ASSUME NEW i \in 1 .. n, NEW j \in 1 .. n, i < j PROVE s[i] < s[j]
    <3>0. /\ s[i] \in S /\ place[s[i]] = i
          /\ s[j] \in S /\ place[s[j]] = j
      BY <2>1
    <3> QED BY <3>0, <2>3, <1>3a
  <2> QED BY <2>2, <2>3
<1> HIDE DEF place
<1> DEFINE t == SortedPaths(S)
<1>6. t \in [1 .. n -> S] /\ Sorts(t)
  BY <1>5 DEF SortedPaths
<1> HIDE DEF t
<1>7. t \in Surjection(1 .. n, S)
  <2>1. ASSUME NEW i \in 1 .. n, NEW j \in 1 .. n, t[i] = t[j] PROVE i = j
    <3>1. t[i] \in Nat /\ i \in DOMAIN t /\ j \in DOMAIN t
      BY <1>0, <1>6
    <3>2. ~(i < j) /\ ~(j < i)
      BY <1>6, <2>1, <3>1
    <3> QED BY <3>2, <1>1
  <2>2. t \in Injection(1 .. n, S)
    BY <1>6, <2>1 DEF Injection, IsInjective
  <2> QED BY <2>2, <1>1, FS_Injection
<1> QED BY <1>1, <1>6, <1>7 DEF Surjection, t

\* The documents that split finds are those that are whole with nothing
\* broken before them, and no other: not one that the end of the file cuts.
LEMMA Leading ==
    ASSUME NEW file, file.docs \in Seq({"whole", "broken"}), file.partial \in BOOLEAN
    PROVE  /\ LeadingDocs(file) \in Nat
           /\ \A n \in Nat \ {0} : n <= LeadingDocs(file) <=> Sound(file, n)
<1> DEFINE docs == file.docs
           all == Content(file)
           T == {k \in DOMAIN docs : \A j \in 1 .. k : docs[j] = "whole"}
           U == {k \in DOMAIN all : \A j \in 1 .. k : all[j] = "whole"}
<1>1. DOMAIN docs = 1 .. Len(docs) /\ Len(docs) \in Nat
  OBVIOUS
<1>1a. U = T
  <2> DEFINE rest == IF file.partial THEN <<"cut">> ELSE <<>>
  <2>1. rest \in Seq({"cut"}) /\ \A i \in 1 .. Len(rest) : rest[i] = "cut"
    <3>1. <<"cut">> \in Seq({"cut"}) /\ Len(<<"cut">>) = 1 /\ <<"cut">>[1] = "cut"
      OBVIOUS
    <3>2. CASE file.partial
      <4>1. rest = <<"cut">>
        BY <3>2
      <4> HIDE DEF rest
      <4> QED BY <4>1, <3>1
    <3>3. CASE ~file.partial
      <4>1. rest = <<>>
        BY <3>3
      <4> HIDE DEF rest
      <4> QED BY <4>1
    <3> QED BY <3>2, <3>3
  <2>2. all = docs \o rest
    BY DEF Content
  <2> HIDE DEF rest, all
  <2>3. docs \in Seq({"whole", "broken", "cut"}) /\ rest \in Seq({"whole", "broken", "cut"})
        /\ Len(rest) \in Nat
    BY <2>1
  <2>4. /\ DOMAIN all = 1 .. Len(docs) + Len(rest)
        /\ \A i \in 1 .. Len(docs) + Len(rest) :
               all[i] = IF i <= Len(docs) THEN docs[i] ELSE rest[i - Len(docs)]
    BY <2>2, <2>3, ConcatProperties
  <2>5. \A i \in 1 .. Len(docs) : all[i] = docs[i] /\ i \in DOMAIN all
    BY <2>3, <2>4, <1>1
  <2>6. ASSUME NEW k \in U PROVE k \in T
    <3>1. k \in 1 .. Len(docs) + Len(rest) /\ all[k] = "whole"
      BY <2>3, <2>4, <1>1
    <3>2. ASSUME ~(k <= Len(docs)) PROVE FALSE
      <4>1. k - Len(docs) \in 1 .. Len(rest)
        BY <3>1, <3>2, <2>3, <1>1
      <4>2. all[k] = "cut"
        BY <3>1, <3>2, <4>1, <2>1, <2>4
      <4> QED BY <3>1, <4>2
    <3> QED BY <3>1, <3>2, <2>5, <1>1
  <2>7. ASSUME NEW k \in T PROVE k \in U
    BY <2>5, <1>1
  <2> HIDE DEF T, U
  <2> QED BY <2>6, <2>7
<1>2. IsFiniteSet(T)
  <2>1. IsFiniteSet(1 .. Len(docs))
    BY <1>1, FS_Interval
  <2>2. T \in SUBSET (1 .. Len(docs))
    BY <1>1
  <2> QED BY <2>1, <2>2, FS_Subset
<1>3. Cardinality(T) \in Nat
  BY <1>2, FS_CardinalityType
<1>4. ASSUME NEW k \in T PROVE k <= Cardinality(T)
  <2>1. k \in Nat /\ 1 .. k \in SUBSET T
    BY <1>1
  <2>2. Cardinality(1 .. k) = k
    BY <2>1, <1>1, FS_Interval
  <2> QED BY <2>1, <2>2, <1>2, FS_Subset
<1>5. ASSUME NEW k \in Nat \ {0}, k \notin T PROVE Cardinality(T) < k
  <2>1. T \in SUBSET (1 .. k - 1)
    BY <1>1, <1>5
  <2>2. IsFiniteSet(1 .. k - 1) /\ Cardinality(1 .. k - 1) = k - 1
    BY FS_Interval
  <2>3. Cardinality(T) <= k - 1
    BY <2>1, <2>2, FS_Subset
  <2> HIDE DEF T
  <2> QED BY <2>3, <1>3
<1>6. LeadingDocs(file) = Cardinality(T)
  BY <1>1a DEF LeadingDocs
<1>7. \A k \in Nat : k \in T <=> Sound(file, k)
  BY DEF Sound
<1> HIDE DEF T
<1> QED BY <1>3, <1>4, <1>5, <1>6, <1>7

-----------------------------------------------------------------------------
(* The inductive invariant.                                                *)

\* How a file may change: it grows, or it is replaced by a later one, and a
\* file that is gone does not come back.
Evolves(old, new) ==
    /\ old.gen <= new.gen
    /\ new.exists /\ new.gen = old.gen =>
           old.exists /\ \A n \in DOMAIN old.docs : Sound(old, n) => Sound(new, n)

\* A document that is being written still fits its file.
RoomForPartial ==
    \A p \in Paths : fs[p].partial => fs[p].exists /\ Len(fs[p].docs) < MaxDocs

Evolving(old, new) == \A p \in Paths : Evolves(old[p], new[p])

FilesAreListed ==
    /\ \A i, j \in DOMAIN files : i < j => files[i] < files[j]
    /\ \A p \in Paths : p \in seen <=> \E j \in DOMAIN files : files[j] = p

InOrder(rows) ==
    \A i \in DOMAIN rows :
        IF i > 1 /\ rows[i - 1].file = rows[i].file
        THEN rows[i].idx = rows[i - 1].idx + 1
        ELSE rows[i].idx = 0 /\ (i > 1 => rows[i - 1].file < rows[i].file)

\* What was read of a directory has not been unwritten since.
Standing(dir, rows) ==
    \A i \in DOMAIN rows :
        LET file == dir[rows[i].file] IN
        /\ rows[i].gen <= file.gen
        /\ file.exists /\ file.gen = rows[i].gen => Sound(file, rows[i].nth)

\* The rows are those of the first k paths ...
OfPaths(paths, k, rows) == \A i \in DOMAIN rows : \E j \in 1 .. k : rows[i].file = paths[j]

\* ... and none that was there from the start is missing.
Has(rows, p, gen, n) ==
    \E i \in DOMAIN rows : rows[i].file = p /\ rows[i].gen = gen /\ rows[i].nth = n

NoneMissing(old, dir, paths, k, rows) ==
    \A j \in 1 .. k :
        LET p == paths[j] IN
        dir[p].gen = old[p].gen =>
            \A n \in DOMAIN old[p].docs : Sound(old[p], n) => Has(rows, p, old[p].gen, n)

Covers(old, dir, paths, k, rows) ==
    /\ InOrder(rows)
    /\ Standing(dir, rows)
    /\ OfPaths(paths, k, rows)
    /\ NoneMissing(old, dir, paths, k, rows)

\* The calls: a scan that has not begun has answered nothing, and one that
\* has is done.
Calling ==
    /\ stage \in {"bound", "refused"} => files = <<>> /\ next = 0 /\ ~done
    /\ ~done => answers = <<>> /\ stage # "reading"
    /\ stage = "reading" => answers = <<>> /\ next >= 1
    /\ stage = "idle" /\ done => answers # <<>>

DInv ==
    /\ TypeOK
    /\ RoomForPartial
    /\ Evolving(listed, fs)
    /\ stage \notin {"bound", "refused"} => FilesAreListed
    /\ Calling
    /\ stage = "reading" => Covers(listed, fs, files, next - 1, batch)
    /\ "batch" \in ToSet(answers) => Covers(listed, fs, files, Len(files), delivered)
    /\ OneAnswerThenEnd

-----------------------------------------------------------------------------
(* Files.                                                                  *)

Kinds == {"whole", "broken"}

LEMMA BoundedDocs ==
    ASSUME NEW docs
    PROVE  docs \in BoundedSeq(Kinds, MaxDocs) <=> docs \in Seq(Kinds) /\ Len(docs) <= MaxDocs
<1>1. MaxDocs \in Nat
  BY DumpAssumption
<1>2. ASSUME docs \in BoundedSeq(Kinds, MaxDocs)
      PROVE  docs \in Seq(Kinds) /\ Len(docs) <= MaxDocs
  <2>1. PICK m \in 0 .. MaxDocs : docs \in [1 .. m -> Kinds]
    BY <1>2 DEF BoundedSeq, SeqOf
  <2>2. m \in Nat /\ m <= MaxDocs
    BY <1>1
  <2>3. docs \in Seq(Kinds) /\ Len(docs) = m
    BY <2>1, <2>2
  <2> QED BY <2>2, <2>3
<1>3. ASSUME docs \in Seq(Kinds), Len(docs) <= MaxDocs
      PROVE  docs \in BoundedSeq(Kinds, MaxDocs)
  <2>1. Len(docs) \in 0 .. MaxDocs
    BY <1>1, <1>3
  <2>2. docs \in [1 .. Len(docs) -> Kinds]
    BY <1>3
  <2> QED BY <2>1, <2>2 DEF BoundedSeq, SeqOf
<1> QED BY <1>2, <1>3

LEMMA FileType ==
    ASSUME NEW file \in File
    PROVE  /\ file.docs \in Seq(Kinds) /\ Len(file.docs) <= MaxDocs
           /\ file.gen \in 0 .. MaxGens /\ file.gen \in Nat
           /\ file.exists \in BOOLEAN /\ file.partial \in BOOLEAN
BY BoundedDocs, DumpAssumption DEF File, Kinds

LEMMA NoFileType == ASSUME NEW gen \in 0 .. MaxGens PROVE NoFile(gen) \in File
<1>1. <<>> \in Seq(Kinds) /\ Len(<<>>) <= MaxDocs
  BY DumpAssumption
<1>2. <<>> \in BoundedSeq(Kinds, MaxDocs)
  BY <1>1, BoundedDocs
<1> QED BY <1>2 DEF NoFile, File, Kinds

LEMMA EvolvesReflexive == ASSUME NEW file \in File PROVE Evolves(file, file)
BY FileType DEF Evolves

LEMMA EvolvesTransitive ==
    ASSUME NEW f \in File, NEW g \in File, NEW h \in File, Evolves(f, g), Evolves(g, h)
    PROVE  Evolves(f, h)
<1>1. f.gen \in Nat /\ g.gen \in Nat /\ h.gen \in Nat
  BY FileType
<1>2. f.gen <= h.gen
  BY <1>1 DEF Evolves
<1>3. ASSUME h.exists, h.gen = f.gen PROVE f.exists /\ g.exists /\ g.gen = f.gen /\ h.gen = g.gen
  BY <1>1, <1>3 DEF Evolves
<1>4. ASSUME h.exists, h.gen = f.gen, NEW n \in DOMAIN f.docs, Sound(f, n) PROVE Sound(h, n)
  <2>1. Sound(g, n)
    BY <1>3, <1>4 DEF Evolves
  <2>2. n \in DOMAIN g.docs
    BY <2>1 DEF Sound
  <2> QED BY <1>3, <1>4, <2>1, <2>2 DEF Evolves
<1> QED BY <1>2, <1>3, <1>4 DEF Evolves

-----------------------------------------------------------------------------
(* The owner of the directory.                                             *)

\* What the owner does to one file.
LEMMA OwnerWrites ==
    ASSUME fs \in [Paths -> File], RoomForPartial, Owner
    PROVE  \E p \in Paths, file \in File :
               /\ Write(p, file)
               /\ Evolves(fs[p], file)
               /\ file.partial => file.exists /\ Len(file.docs) < MaxDocs
<1>1. PICK p \in Paths : Create(p) \/ BeginDocument(p) \/ FinishDocument(p) \/ Delete(p)
  BY DEF Owner
<1> DEFINE old == fs[p]
<1>2. /\ old \in File /\ old.docs \in Seq(Kinds) /\ Len(old.docs) <= MaxDocs
      /\ old.gen \in 0 .. MaxGens /\ old.gen \in Nat /\ Len(old.docs) \in Nat
  BY FileType
<1>3. MaxDocs \in Nat /\ MaxGens \in Nat
  BY DumpAssumption
<1>4. CASE Create(p)
  <2> DEFINE new == [NoFile(old.gen + 1) EXCEPT !.exists = TRUE]
  <2>1. old.gen + 1 \in 0 .. MaxGens
    BY <1>2, <1>3, <1>4 DEF Create
  <2>2. NoFile(old.gen + 1) \in File
    BY <2>1, NoFileType
  <2>3. new \in File
    BY <2>2 DEF File
  <2>4. new.gen = old.gen + 1 /\ ~new.partial
    BY DEF NoFile
  <2>5. Evolves(old, new)
    BY <2>4, <1>2 DEF Evolves
  <2>6. Write(p, new)
    BY <1>4 DEF Create
  <2> HIDE DEF new
  <2> QED BY <2>3, <2>4, <2>5, <2>6
<1>5. CASE BeginDocument(p)
  <2> DEFINE new == [old EXCEPT !.partial = TRUE]
  <2>1. new \in File /\ new.exists = old.exists /\ new.gen = old.gen /\ new.docs = old.docs
    BY <1>2 DEF File
  <2>2. Evolves(old, new)
    BY <2>1, <1>2 DEF Evolves, Sound
  <2>3. Write(p, new) /\ new.exists /\ Len(new.docs) < MaxDocs
    BY <1>5, <2>1 DEF BeginDocument
  <2> HIDE DEF new
  <2> QED BY <2>1, <2>2, <2>3
<1>6. CASE FinishDocument(p)
  <2>1. PICK kind \in Kinds :
            Write(p, [old EXCEPT !.partial = FALSE, !.docs = Append(@, kind)])
    BY <1>6 DEF FinishDocument, Kinds
  <2> DEFINE docs == Append(old.docs, kind)
             new  == [old EXCEPT !.partial = FALSE, !.docs = docs]
  <2>2. Len(old.docs) < MaxDocs
    BY <1>6 DEF FinishDocument, RoomForPartial
  <2>3. /\ docs \in Seq(Kinds) /\ Len(docs) = Len(old.docs) + 1
        /\ \A k \in 1 .. Len(old.docs) : docs[k] = old.docs[k]
    BY <1>2, AppendProperties
  <2> HIDE DEF docs
  <2>4. docs \in BoundedSeq(Kinds, MaxDocs)
    <3>1. Len(docs) <= MaxDocs
      BY <2>2, <2>3, <1>2, <1>3
    <3> QED BY <3>1, <2>3, BoundedDocs
  <2>5. /\ new \in File /\ new.exists = old.exists /\ new.gen = old.gen
        /\ new.docs = docs /\ ~new.partial
    BY <1>2, <2>4 DEF File, Kinds
  <2>6. \A n \in DOMAIN old.docs : Sound(old, n) => Sound(new, n)
    BY <2>3, <2>5, <1>2 DEF Sound
  <2>7. Evolves(old, new)
    BY <2>5, <2>6, <1>2 DEF Evolves
  <2>8. Write(p, new)
    BY <2>1 DEF docs
  <2> HIDE DEF new
  <2> QED BY <2>5, <2>7, <2>8
<1>7. CASE Delete(p)
  <2>1. NoFile(old.gen) \in File
    BY <1>2, NoFileType
  <2>2. Evolves(old, NoFile(old.gen)) /\ ~NoFile(old.gen).partial
    BY <1>2 DEF Evolves, NoFile
  <2> QED BY <1>7, <2>1, <2>2 DEF Delete
<1> QED BY <1>1, <1>4, <1>5, <1>6, <1>7

\* Whatever is written leaves the rows what they were.
LEMMA CoversStays ==
    ASSUME NEW old \in [Paths -> File], NEW dir \in [Paths -> File], NEW new \in [Paths -> File],
           Evolving(old, dir), Evolving(dir, new),
           NEW paths \in Seq(Paths), NEW k \in 0 .. Len(paths), NEW rows \in Seq(Row),
           Covers(old, dir, paths, k, rows)
    PROVE  Covers(old, new, paths, k, rows)
<1>1. \A p \in Paths : /\ old[p].gen \in Nat /\ dir[p].gen \in Nat /\ new[p].gen \in Nat
                       /\ old[p].gen <= dir[p].gen /\ dir[p].gen <= new[p].gen
  BY FileType DEF Evolving, Evolves
<1>2. Standing(new, rows)
  <2> SUFFICES ASSUME NEW i \in DOMAIN rows
               PROVE  LET file == new[rows[i].file] IN
                      /\ rows[i].gen <= file.gen
                      /\ file.exists /\ file.gen = rows[i].gen => Sound(file, rows[i].nth)
    BY DEF Standing
  <2> DEFINE p == rows[i].file
  <2>1. p \in Paths /\ rows[i].gen \in Nat
    <3>1. rows[i] \in Row
      OBVIOUS
    <3> QED BY <3>1, DumpAssumption DEF Row
  <2>2. /\ rows[i].gen <= dir[p].gen
        /\ dir[p].exists /\ dir[p].gen = rows[i].gen => Sound(dir[p], rows[i].nth)
    BY DEF Covers, Standing
  <2>3. rows[i].gen <= new[p].gen
    BY <2>1, <2>2, <1>1
  <2>4. ASSUME new[p].exists, new[p].gen = rows[i].gen PROVE Sound(new[p], rows[i].nth)
    <3>1. dir[p].gen = rows[i].gen /\ new[p].gen = dir[p].gen
      BY <2>1, <2>2, <2>4, <1>1
    <3>2. dir[p].exists /\ \A n \in DOMAIN dir[p].docs : Sound(dir[p], n) => Sound(new[p], n)
      BY <3>1, <2>1, <2>4 DEF Evolving, Evolves
    <3>3. Sound(dir[p], rows[i].nth)
      BY <3>1, <3>2, <2>2
    <3> QED BY <3>2, <3>3 DEF Sound
  <2> QED BY <2>3, <2>4
<1>3. NoneMissing(old, new, paths, k, rows)
  <2> SUFFICES ASSUME NEW j \in 1 .. k, new[paths[j]].gen = old[paths[j]].gen
               PROVE  dir[paths[j]].gen = old[paths[j]].gen
    BY DEF Covers, NoneMissing
  <2>1. paths[j] \in Paths
    OBVIOUS
  <2> QED BY <2>1, <1>1
<1> QED BY <1>2, <1>3 DEF Covers

-----------------------------------------------------------------------------
(* The rows of one more file.                                              *)

LEMMA Appended ==
    ASSUME NEW rows \in Seq(Row), NEW p \in Paths, NEW file \in File
    PROVE  LET all == rows \o Rows(p, file) IN
           /\ LeadingDocs(file) \in Nat
           /\ all \in Seq(Row) /\ Len(all) = Len(rows) + LeadingDocs(file)
           /\ \A i \in 1 .. Len(rows) : all[i] = rows[i]
           /\ \A n \in 1 .. LeadingDocs(file) :
                  all[Len(rows) + n] = [file |-> p, idx |-> n - 1, gen |-> file.gen, nth |-> n]
<1> DEFINE more == Rows(p, file)
           leading == LeadingDocs(file)
<1>1. leading \in Nat
  BY FileType, Leading DEF Kinds
<1>2. more \in Seq(Row) /\ Len(more) = leading
      /\ \A n \in 1 .. leading :
             more[n] = [file |-> p, idx |-> n - 1, gen |-> file.gen, nth |-> n]
  <2>1. \A n \in 1 .. leading :
            [file |-> p, idx |-> n - 1, gen |-> file.gen, nth |-> n] \in Row
    BY <1>1, FileType DEF Row
  <2> HIDE DEF leading
  <2>2. more = [n \in 1 .. leading |-> [file |-> p, idx |-> n - 1, gen |-> file.gen, nth |-> n]]
    BY DEF Rows, leading
  <2> HIDE DEF more
  <2>3. more \in [1 .. leading -> Row]
    BY <2>1, <2>2
  <2> QED BY <2>2, <2>3, <1>1
<1> HIDE DEF more, leading
<1>3. /\ rows \o more \in Seq(Row) /\ Len(rows \o more) = Len(rows) + Len(more)
      /\ \A i \in 1 .. Len(rows) + Len(more) :
             (rows \o more)[i] = IF i <= Len(rows) THEN rows[i] ELSE more[i - Len(rows)]
  BY <1>2, ConcatProperties
<1>4. Len(rows) \in Nat
  OBVIOUS
<1>5. \A i \in 1 .. Len(rows) : (rows \o more)[i] = rows[i]
  BY <1>1, <1>2, <1>3, <1>4
<1>6. ASSUME NEW n \in 1 .. leading PROVE (rows \o more)[Len(rows) + n] = more[n]
  <2>1. Len(rows) + n \in 1 .. Len(rows) + Len(more) /\ ~(Len(rows) + n <= Len(rows))
        /\ Len(rows) + n - Len(rows) = n
    BY <1>1, <1>2, <1>4
  <2> QED BY <2>1, <1>3
<1> QED BY <1>1, <1>2, <1>3, <1>5, <1>6 DEF more, leading

LEMMA CoversNext ==
    ASSUME NEW old \in [Paths -> File], NEW dir \in [Paths -> File], Evolving(old, dir),
           NEW paths \in Seq(Paths), \A i, j \in DOMAIN paths : i < j => paths[i] < paths[j],
           NEW k \in Nat, k < Len(paths), dir[paths[k + 1]].exists,
           NEW rows \in Seq(Row), Covers(old, dir, paths, k, rows)
    PROVE  Covers(old, dir, paths, k + 1, rows \o Rows(paths[k + 1], dir[paths[k + 1]]))
<1> DEFINE p == paths[k + 1]
           file == dir[p]
           all == rows \o Rows(p, file)
           m == Len(rows)
           leading == LeadingDocs(file)
           new(n) == [file |-> p, idx |-> n - 1, gen |-> file.gen, nth |-> n]
<1>1. p \in Paths /\ p \in Nat /\ file \in File /\ old[p] \in File /\ m \in Nat
      /\ k + 1 \in DOMAIN paths
  BY DumpAssumption
<1>2. /\ leading \in Nat
      /\ all \in Seq(Row) /\ Len(all) = m + leading
      /\ \A i \in 1 .. m : all[i] = rows[i]
      /\ \A n \in 1 .. leading : all[m + n] = new(n)
  <2> HIDE DEF p, file
  <2> QED BY <1>1, Appended
<1>3. \A n \in Nat \ {0} : n <= leading <=> Sound(file, n)
  BY <1>1, FileType, Leading DEF Kinds
<1> HIDE DEF p, file, all, m, leading
<1>4. \A i \in DOMAIN all : i \in 1 .. m \/ \E n \in 1 .. leading : i = m + n
  <2> SUFFICES ASSUME NEW i \in DOMAIN all, i \notin 1 .. m PROVE \E n \in 1 .. leading : i = m + n
    OBVIOUS
  <2>1. i - m \in 1 .. leading /\ i = m + (i - m)
    BY <1>1, <1>2
  <2> QED BY <2>1
<1>5. \A i \in 1 .. m : rows[i] \in Row /\ rows[i].file \in Nat /\ i \in DOMAIN rows
  <2> SUFFICES ASSUME NEW i \in 1 .. m
               PROVE  rows[i] \in Row /\ rows[i].file \in Nat /\ i \in DOMAIN rows
    OBVIOUS
  <2>1. i \in DOMAIN rows
    BY DEF m
  <2>2. rows[i] \in Row
    BY <2>1
  <2> QED BY <2>1, <2>2, DumpAssumption DEF Row
<1>6. InOrder(all)
  <2> SUFFICES ASSUME NEW i \in DOMAIN all
               PROVE  IF i > 1 /\ all[i - 1].file = all[i].file
                      THEN all[i].idx = all[i - 1].idx + 1
                      ELSE all[i].idx = 0 /\ (i > 1 => all[i - 1].file < all[i].file)
    BY DEF InOrder
  <2>1. CASE i \in 1 .. m
    <3>1. i > 1 => i - 1 \in 1 .. m
      BY <1>1, <2>1
    <3>2. i \in DOMAIN rows
      BY <1>5, <2>1
    <3>3. all[i] = rows[i] /\ (i > 1 => all[i - 1] = rows[i - 1])
      BY <2>1, <3>1, <1>2
    <3> QED BY <3>2, <3>3 DEF Covers, InOrder
  <2>2. CASE i = m + 1 /\ leading >= 1
    <3>1. all[i].file = p /\ all[i].idx = 0
      <4>1. 1 \in 1 .. leading
        BY <2>2, <1>2
      <4>2. all[i] = new(1)
        BY <4>1, <2>2, <1>2
      <4> QED BY <4>2
    <3>2. ASSUME i > 1 PROVE all[i - 1].file < p
      <4>1. i - 1 = m /\ m \in 1 .. m
        BY <2>2, <3>2, <1>1
      <4>2. PICK j \in 1 .. k : rows[m].file = paths[j]
        BY <4>1, <1>5 DEF Covers, OfPaths
      <4>3. j \in DOMAIN paths /\ k + 1 \in DOMAIN paths /\ j < k + 1
        BY <1>1
      <4>4. paths[j] < p
        BY <4>3 DEF p
      <4> QED BY <4>1, <4>2, <4>4, <1>2
    <3>3. i > 1 => all[i - 1].file \in Nat
      BY <2>2, <1>1, <1>2, <1>5
    <3> QED BY <3>1, <3>2, <3>3, <1>1
  <2>3. ASSUME NEW n \in 1 .. leading, n > 1, i = m + n
        PROVE  all[i - 1].file = all[i].file /\ all[i].idx = all[i - 1].idx + 1 /\ i > 1
    <3>1. n - 1 \in 1 .. leading /\ i - 1 = m + (n - 1) /\ i > 1
      BY <2>3, <1>1, <1>2
    <3>2. all[i] = new(n) /\ all[i - 1] = new(n - 1)
      BY <3>1, <2>3, <1>2
    <3> QED BY <3>1, <3>2
  <2> QED BY <2>1, <2>2, <2>3, <1>4, <1>2
<1>7. Standing(dir, all)
  <2> SUFFICES ASSUME NEW i \in DOMAIN all
               PROVE  LET f == dir[all[i].file] IN
                      /\ all[i].gen <= f.gen
                      /\ f.exists /\ f.gen = all[i].gen => Sound(f, all[i].nth)
    BY DEF Standing
  <2>1. CASE i \in 1 .. m
    BY <2>1, <1>2, <1>5 DEF Covers, Standing
  <2>2. ASSUME NEW n \in 1 .. leading, i = m + n PROVE all[i] = new(n) /\ Sound(file, n)
    BY <2>2, <1>2, <1>3
  <2>3. file.gen <= file.gen
    BY <1>1, FileType
  <2> QED BY <2>1, <2>2, <2>3, <1>4 DEF file
<1>8. OfPaths(paths, k + 1, all)
  <2> SUFFICES ASSUME NEW i \in DOMAIN all PROVE \E j \in 1 .. k + 1 : all[i].file = paths[j]
    BY DEF OfPaths
  <2>1. CASE i \in 1 .. m
    <3>1. PICK j \in 1 .. k : rows[i].file = paths[j]
      BY <2>1, <1>5 DEF Covers, OfPaths
    <3>2. j \in 1 .. k + 1
      OBVIOUS
    <3> QED BY <3>1, <3>2, <2>1, <1>2
  <2>2. CASE \E n \in 1 .. leading : i = m + n
    <3>1. all[i].file = paths[k + 1]
      <4>1. PICK n \in 1 .. leading : i = m + n
        BY <2>2
      <4>2. all[i] = new(n)
        BY <4>1, <1>2
      <4> QED BY <4>2 DEF p
    <3>2. k + 1 \in 1 .. k + 1
      OBVIOUS
    <3> QED BY <3>1, <3>2
  <2> QED BY <2>1, <2>2, <1>4
<1>9. NoneMissing(old, dir, paths, k + 1, all)
  <2> SUFFICES ASSUME NEW j \in 1 .. k + 1, dir[paths[j]].gen = old[paths[j]].gen,
                      NEW n \in DOMAIN old[paths[j]].docs, Sound(old[paths[j]], n)
               PROVE  Has(all, paths[j], old[paths[j]].gen, n)
    BY DEF NoneMissing
  <2>1. CASE j \in 1 .. k
    <3>1. PICK i \in DOMAIN rows : /\ rows[i].file = paths[j] /\ rows[i].gen = old[paths[j]].gen
                                   /\ rows[i].nth = n
      BY <2>1 DEF Covers, NoneMissing, Has
    <3>2. i \in 1 .. m /\ i \in DOMAIN all
      BY <1>1, <1>2 DEF m
    <3> QED BY <3>1, <3>2, <1>2 DEF Has
  <2>2. CASE j = k + 1
    <3>1. Sound(file, n)
      BY <2>2, <1>1 DEF Evolving, Evolves, p, file
    <3>2. n \in Nat \ {0}
      BY <2>2, <1>1, FileType DEF p
    <3>3. n \in 1 .. leading /\ m + n \in DOMAIN all
      BY <3>1, <3>2, <1>1, <1>2, <1>3
    <3>4. all[m + n] = new(n)
      BY <3>3, <1>2
    <3> QED BY <3>3, <3>4, <2>2 DEF Has, p, file
  <2> QED BY <2>1, <2>2
<1> QED BY <1>6, <1>7, <1>8, <1>9 DEF Covers, all, p, file

-----------------------------------------------------------------------------
(* Every step keeps the invariant.                                         *)

LEMMA EmptyList ==
    /\ \A S : <<>> \in Seq(S)
    /\ Len(<<>>) = 0 /\ DOMAIN <<>> = {}
OBVIOUS

LEMMA InitDInv == Init => DInv
<1> SUFFICES ASSUME Init PROVE DInv
  OBVIOUS
<1>1. 0 \in 0 .. MaxGens /\ NoFile(0) \in File
  BY NoFileType, DumpAssumption
<1>2. \A p \in Paths : fs[p] \in File /\ ~fs[p].partial
  <2> TAKE p \in Paths
  <2>1. CASE fs[p] = NoFile(0)
    BY <1>1, <2>1 DEF NoFile
  <2>2. ASSUME NEW d \in BoundedSeq(Kinds, MaxDocs),
               fs[p] = [NoFile(0) EXCEPT !.exists = TRUE, !.docs = d]
        PROVE  fs[p] \in File /\ ~fs[p].partial
    BY <1>1, <2>2 DEF NoFile, File, Kinds
  <2> QED BY <2>1, <2>2 DEF Init, Kinds
<1>3. fs \in [Paths -> File] /\ listed \in [Paths -> File]
  BY <1>2 DEF Init
<1>4. TypeOK
  <2>1. /\ files \in Seq(Paths) /\ batch \in Seq(Row) /\ delivered \in Seq(Row)
        /\ answers \in Seq({"batch", "end", "error", "panic"})
        /\ next \in 0 .. Len(files) + 1
    <3>1. files = <<>> /\ batch = <<>> /\ delivered = <<>> /\ answers = <<>> /\ next = 0
      BY DEF Init
    <3> QED BY <3>1, EmptyList
  <2>2. Len(batch) <= Capacity /\ Len(delivered) <= Capacity
    <3>1. Capacity \in Nat /\ batch = <<>> /\ delivered = <<>>
      BY DumpAssumption DEF Init
    <3> QED BY <3>1, EmptyList
  <2> QED BY <2>1, <2>2, <1>3 DEF Init, TypeOK
<1>5. Evolving(listed, fs)
  BY <1>2, EvolvesReflexive DEF Init, Evolving
<1>6. "batch" \notin ToSet(answers) /\ OneAnswerThenEnd
  <2>1. answers = <<>> /\ delivered = <<>>
    BY DEF Init
  <2> QED BY <2>1, EmptyList DEF ToSet, OneAnswerThenEnd
<1> QED BY <1>2, <1>4, <1>5, <1>6 DEF Init, DInv, RoomForPartial, Calling

LEMMA OwnerStep == DInv /\ Owner => DInv'
<1> SUFFICES ASSUME DInv, Owner PROVE DInv'
  OBVIOUS
<1> USE DEF DInv, producerVars, history
<1>1. fs \in [Paths -> File] /\ listed \in [Paths -> File] /\ TypeOK /\ RoomForPartial
  BY DEF TypeOK
<1>2. PICK p \in Paths, file \in File :
          /\ Write(p, file)
          /\ Evolves(fs[p], file)
          /\ file.partial => file.exists /\ Len(file.docs) < MaxDocs
  BY <1>1, OwnerWrites
<1>3. /\ fs' = [fs EXCEPT ![p] = file]
      /\ UNCHANGED <<stage, files, done, next, batch, answers, delivered, history>>
  BY <1>2 DEF Write
<1>4. fs' \in [Paths -> File] /\ fs'[p] = file /\ \A q \in Paths \ {p} : fs'[q] = fs[q]
  BY <1>1, <1>3
<1>5. TypeOK'
  BY <1>3, <1>4 DEF TypeOK
<1>6. RoomForPartial'
  BY <1>1, <1>2, <1>4 DEF RoomForPartial
<1>7. Evolving(fs, fs')
  BY <1>1, <1>2, <1>4, EvolvesReflexive DEF Evolving
<1>8. Evolving(listed, fs')
  <2> SUFFICES ASSUME NEW q \in Paths PROVE Evolves(listed[q], fs'[q])
    BY DEF Evolving
  <2>1. Evolves(listed[q], fs[q]) /\ Evolves(fs[q], fs'[q])
    BY <1>7 DEF Evolving
  <2> QED BY <2>1, <1>1, <1>4, EvolvesTransitive
<1>9. files \in Seq(Paths) /\ batch \in Seq(Row) /\ delivered \in Seq(Row)
      /\ next \in 0 .. Len(files) + 1
  BY DEF TypeOK
<1>10. stage = "reading" => Covers(listed, fs', files, next - 1, batch)
  <2> SUFFICES ASSUME stage = "reading" PROVE Covers(listed, fs', files, next - 1, batch)
    OBVIOUS
  <2>1. next - 1 \in 0 .. Len(files)
    BY <1>9 DEF Calling
  <2> QED BY <2>1, <1>1, <1>4, <1>7, <1>9, CoversStays
<1>11. "batch" \in ToSet(answers) => Covers(listed, fs', files, Len(files), delivered)
  <2>1. Len(files) \in 0 .. Len(files)
    BY <1>9
  <2> QED BY <2>1, <1>1, <1>4, <1>7, <1>9, CoversStays
<1> QED BY <1>3, <1>5, <1>6, <1>8, <1>10, <1>11 DEF FilesAreListed, Calling, OneAnswerThenEnd

LEMMA ExpandStep == DInv /\ Expand => DInv'
<1> SUFFICES ASSUME DInv, Expand PROVE DInv'
  OBVIOUS
<1> USE DEF DInv, history, producerVars
<1>1. /\ stage = "bound" /\ UNCHANGED <<fs, done, next, batch, answers, delivered>>
  BY DEF Expand, Find, Producer, ProducerRefuses
<1>2. files = <<>> /\ ~done /\ answers = <<>> /\ next = 0
  BY <1>1 DEF Calling
<1>3. "batch" \notin ToSet(answers)
  <2>1. DOMAIN answers = {}
    BY <1>2
  <2> QED BY <2>1 DEF ToSet
<1>4. CASE \E p \in Paths : Find(p)
  <2>1. PICK p \in Paths : Find(p)
    BY <1>4
  <2>2. /\ seen' = seen \cup {p} /\ listed' = [listed EXCEPT ![p] = fs[p]]
        /\ UNCHANGED <<stage, files>>
    BY <2>1 DEF Find
  <2>3. fs[p] \in File /\ listed \in [Paths -> File]
    BY DEF TypeOK
  <2>4. TypeOK'
    BY <1>1, <2>2, <2>3 DEF TypeOK
  <2>5. Evolving(listed', fs')
    BY <1>1, <2>2, <2>3, EvolvesReflexive DEF Evolving
  <2> QED BY <1>1, <1>2, <1>3, <2>2, <2>4, <2>5 DEF Calling, RoomForPartial, OneAnswerThenEnd
<1>5. CASE Producer
  <2>1. /\ stage' = "idle" /\ files' = SortedPaths(seen)
        /\ UNCHANGED <<seen, listed>>
    BY <1>5 DEF Producer
  <2>2. seen \in SUBSET Nat /\ seen \in SUBSET Paths /\ IsFiniteSet(seen)
    BY DumpAssumption, FS_Subset DEF TypeOK
  <2>3. /\ Cardinality(seen) \in Nat
        /\ files' \in [1 .. Cardinality(seen) -> seen]
        /\ \A i, j \in 1 .. Cardinality(seen) : i < j => files'[i] < files'[j]
        /\ \A p \in seen : \E i \in 1 .. Cardinality(seen) : files'[i] = p
    BY <2>1, <2>2, Sorting
  <2>4. files' \in Seq(Paths) /\ DOMAIN files' = 1 .. Cardinality(seen)
    <3>1. files' \in [1 .. Cardinality(seen) -> Paths]
      BY <2>2, <2>3
    <3> QED BY <3>1, <2>3
  <2>5. FilesAreListed'
    BY <2>1, <2>3, <2>4 DEF FilesAreListed
  <2>6. TypeOK'
    <3>1. next' \in 0 .. Len(files') + 1
      BY <1>1, <1>2, <2>4
    <3> QED BY <3>1, <1>1, <2>1, <2>4 DEF TypeOK
  <2> QED BY <1>1, <1>2, <1>3, <2>1, <2>5, <2>6 DEF Calling, RoomForPartial, OneAnswerThenEnd
<1>6. CASE ProducerRefuses
  <2>1. stage' = "refused" /\ UNCHANGED <<files, seen, listed>>
    BY <1>6 DEF ProducerRefuses
  <2>2. TypeOK'
    BY <1>1, <2>1 DEF TypeOK
  <2> QED BY <1>1, <1>2, <1>3, <2>1, <2>2 DEF Calling, RoomForPartial, OneAnswerThenEnd
<1> QED BY <1>4, <1>5, <1>6 DEF Expand

LEMMA CoversNothing ==
    ASSUME NEW old, NEW dir, NEW paths PROVE Covers(old, dir, paths, 0, <<>>)
<1>1. DOMAIN <<>> = {}
  BY EmptyList
<1> QED BY <1>1 DEF Covers, InOrder, Standing, OfPaths, NoneMissing

Replies == {"batch", "end", "error", "panic"}

\* One more answer: the first is any but the end, and the others are the end.
LEMMA Answered ==
    ASSUME NEW told \in Seq(Replies), NEW reply \in Replies,
           \A i \in DOMAIN told : told[i] = "end" <=> i > 1,
           reply = "end" <=> told # <<>>
    PROVE  LET new == Append(told, reply) IN
           /\ new \in Seq(Replies) /\ new # <<>>
           /\ \A i \in DOMAIN new : new[i] = "end" <=> i > 1
           /\ ToSet(new) = ToSet(told) \cup {reply}
<1> DEFINE new == Append(told, reply)
           n == Len(told)
<1>1. /\ new \in Seq(Replies) /\ Len(new) = n + 1 /\ n \in Nat
      /\ \A i \in 1 .. n : new[i] = told[i]
      /\ new[n + 1] = reply
      /\ DOMAIN new = 1 .. n + 1 /\ DOMAIN told = 1 .. n
      /\ (told = <<>> <=> n = 0)
  BY AppendProperties, EmptyList
<1> HIDE DEF new, n
<1>2. \A i \in DOMAIN new : i \in 1 .. n \/ i = n + 1
  BY <1>1
<1>3. n + 1 \in DOMAIN new /\ \A i \in 1 .. n : i \in DOMAIN new
  BY <1>1
<1>4. \A i \in DOMAIN new : new[i] = "end" <=> i > 1
  <2> SUFFICES ASSUME NEW i \in DOMAIN new PROVE new[i] = "end" <=> i > 1
    OBVIOUS
  <2>1. CASE i \in 1 .. n
    BY <2>1, <1>1
  <2>2. CASE i = n + 1
    <3>1. n + 1 > 1 <=> told # <<>>
      BY <1>1
    <3> QED BY <3>1, <2>2, <1>1
  <2> QED BY <2>1, <2>2, <1>2
<1>5. ToSet(new) = ToSet(told) \cup {reply}
  <2>1. ASSUME NEW x \in ToSet(new) PROVE x \in ToSet(told) \cup {reply}
    BY <2>1, <1>1, <1>2 DEF ToSet
  <2>2. ASSUME NEW x \in ToSet(told) \cup {reply} PROVE x \in ToSet(new)
    <3>1. CASE x = reply
      BY <3>1, <1>1, <1>3 DEF ToSet
    <3>2. CASE x \in ToSet(told)
      <4>1. PICK i \in 1 .. n : told[i] = x
        BY <3>2, <1>1 DEF ToSet
      <4> QED BY <4>1, <1>1, <1>3 DEF ToSet
    <3> QED BY <2>2, <3>1, <3>2
  <2> QED BY <2>1, <2>2
<1>6. new # <<>>
  BY <1>3, EmptyList
<1> QED BY <1>1, <1>4, <1>5, <1>6 DEF new

LEMMA CallStep == DInv /\ (BeginBatch \/ NoMoreBatches) => DInv'
<1> SUFFICES ASSUME DInv, BeginBatch \/ NoMoreBatches PROVE DInv'
  OBVIOUS
<1> USE DEF DInv, history
<1>1. CASE BeginBatch
  <2>1. /\ stage = "idle" /\ ~done
        /\ stage' = "reading" /\ done' = TRUE /\ next' = 1 /\ batch' = <<>>
        /\ UNCHANGED <<fs, files, answers, delivered, history>>
    BY <1>1 DEF BeginBatch, MayCall
  <2>2. answers = <<>>
    BY <2>1 DEF Calling
  <2>3. TypeOK'
    <3>1. 1 \in 0 .. Len(files) + 1 /\ <<>> \in Seq(Row) /\ Len(<<>>) <= Capacity
      BY EmptyList, DumpAssumption DEF TypeOK
    <3> QED BY <3>1, <2>1 DEF TypeOK
  <2>4. Covers(listed', fs', files', next' - 1, batch')
    <3>1. next' - 1 = 0
      BY <2>1
    <3> QED BY <3>1, <2>1, CoversNothing
  <2> QED BY <2>1, <2>2, <2>3, <2>4
          DEF Calling, RoomForPartial, FilesAreListed, OneAnswerThenEnd
<1>2. CASE NoMoreBatches
  <2>1. /\ stage = "idle" /\ done /\ answers' = Append(answers, "end")
        /\ stage' = "idle"
        /\ UNCHANGED <<fs, files, done, next, batch, delivered, history>>
    BY <1>2 DEF NoMoreBatches, MayCall, Answer, producerVars
  <2>2. answers \in Seq(Replies) /\ answers # <<>> /\ "end" \in Replies
    BY <2>1 DEF Calling, TypeOK, Replies
  <2>3. /\ answers' \in Seq(Replies) /\ answers' # <<>>
        /\ \A i \in DOMAIN answers' : answers'[i] = "end" <=> i > 1
        /\ ToSet(answers') = ToSet(answers) \cup {"end"}
    BY <2>1, <2>2, Answered DEF OneAnswerThenEnd
  <2>4. "batch" \in ToSet(answers') <=> "batch" \in ToSet(answers)
    BY <2>3
  <2>5. TypeOK'
    BY <2>1, <2>3 DEF TypeOK, Replies
  <2> QED BY <2>1, <2>3, <2>4, <2>5
          DEF Calling, RoomForPartial, FilesAreListed, OneAnswerThenEnd
<1> QED BY <1>1, <1>2

LEMMA ReadStep == DInv /\ ReadFile => DInv'
<1> SUFFICES ASSUME DInv, ReadFile PROVE DInv'
  OBVIOUS
<1> USE DEF DInv, history
<1>1. /\ stage = "reading" /\ next <= Len(files) /\ fs[files[next]].exists
      /\ batch' = batch \o Rows(files[next], fs[files[next]]) /\ next' = next + 1
      /\ Len(batch') <= Capacity
      /\ UNCHANGED <<fs, stage, files, done, answers, delivered, history>>
  BY DEF ReadFile, Reading, Gathered
<1>2. /\ files \in Seq(Paths) /\ batch \in Seq(Row) /\ next \in Nat /\ next >= 1
      /\ fs \in [Paths -> File] /\ listed \in [Paths -> File]
  BY <1>1 DEF Calling, TypeOK
<1>3. next - 1 \in Nat /\ next - 1 < Len(files) /\ next - 1 + 1 = next /\ next' - 1 = next
      /\ next \in DOMAIN files
  BY <1>1, <1>2
<1>4. files[next] \in Paths /\ fs[files[next]] \in File
  BY <1>2, <1>3
<1>5. batch' \in Seq(Row)
  BY <1>1, <1>2, <1>4, Appended
<1>6. TypeOK'
  <2>1. next + 1 \in 0 .. Len(files) + 1
    BY <1>1, <1>2
  <2> QED BY <2>1, <1>1, <1>5 DEF TypeOK
<1>7. Covers(listed, fs, files, next - 1, batch) /\ Evolving(listed, fs)
  BY <1>1
<1>8. \A i, j \in DOMAIN files : i < j => files[i] < files[j]
  BY <1>1 DEF FilesAreListed
<1>9. Covers(listed, fs, files, next, batch')
  BY <1>1, <1>2, <1>3, <1>7, <1>8, CoversNext
<1> QED BY <1>1, <1>3, <1>6, <1>9
        DEF Calling, RoomForPartial, FilesAreListed, OneAnswerThenEnd

\* The call is over, with or without rows.
LEMMA ReplyStep == DInv /\ (ReadFails \/ BuilderOverflows \/ ReturnBatch) => DInv'
<1> SUFFICES ASSUME DInv, ReadFails \/ BuilderOverflows \/ ReturnBatch PROVE DInv'
  OBVIOUS
<1> USE DEF DInv, history
<1>1. /\ stage = "reading"
      /\ stage' = "idle"
      /\ UNCHANGED <<fs, files, done, next, batch, history>>
  BY DEF ReadFails, BuilderOverflows, ReturnBatch, Reading, Answer, producerVars
<1>2. answers = <<>> /\ done
  BY <1>1 DEF Calling
<1>3. delivered = <<>> /\ "batch" \notin ToSet(answers)
  BY <1>2, EmptyList DEF OneAnswerThenEnd, ToSet
<1>4. PICK reply \in {"batch", "error", "panic"} :
          /\ answers' = Append(answers, reply)
          /\ IF reply = "batch" THEN next > Len(files) /\ delivered' = delivered \o batch
                                ELSE UNCHANGED delivered
  BY DEF ReadFails, BuilderOverflows, ReturnBatch, Answer
<1>5. /\ answers' \in Seq(Replies) /\ answers' # <<>>
      /\ \A i \in DOMAIN answers' : answers'[i] = "end" <=> i > 1
      /\ ToSet(answers') = ToSet(answers) \cup {reply}
  <2>1. answers \in Seq(Replies) /\ reply \in Replies /\ reply # "end"
    BY DEF TypeOK, Replies
  <2> QED BY <1>2, <1>4, <2>1, Answered DEF OneAnswerThenEnd
<1>6. "batch" \in ToSet(answers') <=> reply = "batch"
  BY <1>3, <1>5
<1>7. /\ files \in Seq(Paths) /\ batch \in Seq(Row) /\ next \in 0 .. Len(files) + 1
  BY DEF TypeOK
<1>8. delivered' = IF reply = "batch" THEN batch ELSE <<>>
  BY <1>3, <1>4, <1>7, ConcatEmptySeq
<1>9. reply = "batch" => Covers(listed', fs', files', Len(files'), delivered')
  <2> SUFFICES ASSUME reply = "batch" PROVE Covers(listed, fs, files, Len(files), batch)
    BY <1>1, <1>8
  <2>1. next - 1 = Len(files)
    BY <1>4, <1>7
  <2> QED BY <2>1, <1>1
<1>10. TypeOK'
  <2>1. delivered' \in Seq(Row) /\ Len(delivered') <= Capacity
    BY <1>7, <1>8, EmptyList, DumpAssumption DEF TypeOK
  <2> QED BY <1>1, <1>5, <1>7, <2>1 DEF TypeOK, Replies
<1>11. OneAnswerThenEnd'
  BY <1>5, <1>6, <1>8 DEF OneAnswerThenEnd
<1> QED BY <1>1, <1>2, <1>5, <1>6, <1>9, <1>10, <1>11
        DEF Calling, RoomForPartial, FilesAreListed

LEMMA DumpInv == Spec => []DInv
<1>1. DInv /\ UNCHANGED vars => DInv'
  BY DEF vars, producerVars, history, DInv, TypeOK, RoomForPartial, FilesAreListed, Calling,
         OneAnswerThenEnd
<1>2. DInv /\ [Next]_vars => DInv'
  BY <1>1, OwnerStep, ExpandStep, CallStep, ReadStep, ReplyStep DEF Next, Scan, InNextBatch
<1> QED BY <1>2, InitDInv, PTL DEF Spec

-----------------------------------------------------------------------------
(* A producer, a directory and a consumer stay within their states.        *)
THEOREM DumpTyped == Spec => []TypeOK
<1>1. DInv => TypeOK
  BY DEF DInv
<1> QED BY <1>1, DumpInv, PTL

(* One batch or one error, and then nothing but the end (dump.rs:123-126). *)
THEOREM AnswersEnd == Spec => []OneAnswerThenEnd
<1>1. DInv => OneAnswerThenEnd
  BY DEF DInv
<1> QED BY <1>1, DumpInv, PTL

\* What the consumer has is nothing, or the rows of all files.
LEMMA Delivered ==
    ASSUME DInv
    PROVE  delivered = <<>> \/ Covers(listed, fs, files, Len(files), delivered)
BY DEF DInv, OneAnswerThenEnd

(* Whatever is written meanwhile, a row that was delivered is a whole      *)
(* document of its file, with nothing broken before it.                    *)
THEOREM WholeDocuments == Spec => []RowsAreWholeDocuments
<1>1. ASSUME DInv PROVE RowsAreWholeDocuments
  BY <1>1, Delivered, EmptyList DEF Covers, Standing, RowsAreWholeDocuments
<1>2. DInv => RowsAreWholeDocuments
  BY <1>1
<1> QED BY <1>2, DumpInv, PTL

(* The rows come file by file, in the order of the paths, numbered from 0  *)
(* in each: (file, idx) is a key.                                          *)
THEOREM OrderedRows == Spec => []RowsInOrder
<1>1. ASSUME DInv PROVE RowsInOrder
  BY <1>1, Delivered, EmptyList DEF Covers, InOrder, RowsInOrder
<1>2. DInv => RowsInOrder
  BY <1>1
<1> QED BY <1>2, DumpInv, PTL

(* A scan that gives a batch gives every document that led a file when the *)
(* expansion of the glob found it, unless the file was replaced since: what *)
(* is missing without an error is what the expansion did not find          *)
(* (dump.rs:112-113), and nothing else.                                    *)
THEOREM OnlyTheUnseenIsLost == Spec => []LosesOnlyTheUnseen
<1>1. ASSUME DInv PROVE LosesOnlyTheUnseen
  <2> SUFFICES ASSUME "batch" \in ToSet(answers)
               PROVE  /\ \A i \in DOMAIN delivered : delivered[i].file \in seen
                      /\ \A p \in seen : fs[p].gen = listed[p].gen =>
                             \A n \in 1 .. MaxDocs :
                                 Sound(listed[p], n) => HasRow(p, listed[p].gen, n)
    BY DEF LosesOnlyTheUnseen
  <2>1. /\ FilesAreListed /\ seen \subseteq Paths
        /\ Covers(listed, fs, files, Len(files), delivered)
        /\ files \in Seq(Paths) /\ DOMAIN files = 1 .. Len(files)
    <3>1. answers # <<>>
      BY EmptyList DEF ToSet
    <3> QED BY <3>1, <1>1 DEF DInv, Calling, TypeOK
  <2>2. ASSUME NEW i \in DOMAIN delivered PROVE delivered[i].file \in seen
    <3>1. PICK j \in 1 .. Len(files) : delivered[i].file = files[j]
      BY <2>1 DEF Covers, OfPaths
    <3>2. files[j] \in Paths
      BY <2>1
    <3> QED BY <3>1, <3>2, <2>1 DEF FilesAreListed
  <2>3. ASSUME NEW p \in seen, fs[p].gen = listed[p].gen,
               NEW n \in 1 .. MaxDocs, Sound(listed[p], n)
        PROVE  HasRow(p, listed[p].gen, n)
    <3>1. PICK j \in 1 .. Len(files) : files[j] = p
      BY <2>1 DEF FilesAreListed
    <3>2. n \in DOMAIN listed[p].docs
      BY <2>3 DEF Sound
    <3> QED BY <2>1, <2>3, <3>1, <3>2 DEF Covers, NoneMissing, Has, HasRow
  <2> QED BY <2>2, <2>3
<1>2. DInv => LosesOnlyTheUnseen
  BY <1>1
<1> QED BY <1>2, DumpInv, PTL
=============================================================================
