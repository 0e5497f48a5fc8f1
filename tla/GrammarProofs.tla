--------------------------- MODULE GrammarProofs ---------------------------
(***************************************************************************)
(* The validator accepts the documents of the reference grammar and        *)
(* nothing else, for every buffer, entry point and nesting limit.  And the *)
(* splitter implements Framing; with what the validator accepts, it gives  *)
(* what the rows are and where the splitter stops.                         *)
(*                                                                         *)
(* The grammar is a recursive function, and what is said of it is proved   *)
(* by induction on the number of bytes.  The principle of induction is     *)
(* itself proved here, from the well-foundedness of < on Nat.              *)
(***************************************************************************)
EXTENDS ValidateGrammar, SplitGrammar, ValidateProofs, WellFoundedInduction

-----------------------------------------------------------------------------
(* Induction and recursion.                                                *)

\* A set of numbers that has a member has a least one.
LEMMA LeastNumber ==
    ASSUME NEW T \in SUBSET Nat, T # {}
    PROVE  \E x \in T : \A y \in T : x <= y
<1> DEFINE R == {ss \in Nat \X Nat : ss[1] < ss[2]}
<1>1. IsWellFoundedOn(R, Nat)
  BY NatLessThanWellFounded DEF OpToRel
<1>2. PICK x \in T : \A y \in T : <<y, x>> \notin R
  <2> HIDE DEF R
  <2> QED BY <1>1, WFMin
<1>3. ASSUME NEW y \in T PROVE x <= y
  <2>1. <<y, x>> \in Nat \X Nat /\ <<y, x>>[1] = y /\ <<y, x>>[2] = x
    OBVIOUS
  <2>2. ~(y < x)
    BY <1>2, <2>1
  <2> QED BY <2>2
<1> QED BY <1>3

\* Mathematical induction, for a set of numbers.
LEMMA Induction ==
    ASSUME NEW T \in SUBSET Nat, 0 \in T, \A n \in T : n + 1 \in T
    PROVE  T = Nat
<1> SUFFICES ASSUME Nat \ T # {} PROVE FALSE
  OBVIOUS
<1>1. PICK x \in Nat \ T : \A y \in Nat \ T : x <= y
  <2>1. Nat \ T \in SUBSET Nat
    OBVIOUS
  <2> QED BY <2>1, LeastNumber
<1>2. x - 1 \in Nat /\ x - 1 + 1 = x /\ ~(x <= x - 1)
  OBVIOUS
<1>3. x - 1 \in T
  BY <1>1, <1>2
<1> QED BY <1>2, <1>3

\* What is made of what came before it is determined for every number.
LEMMA Recursion ==
    ASSUME NEW S, NEW a \in S, NEW step \in [S -> S]
    PROVE  \E f \in [Nat -> S] : f[0] = a /\ \A n \in Nat : f[n + 1] = step[f[n]]
<1> DEFINE Approx(n, g) == /\ g \in [0 .. n -> S] /\ g[0] = a
                           /\ \A i \in 0 .. n - 1 : g[i + 1] = step[g[i]]
           T == {n \in Nat : \E g : Approx(n, g)}
<1>1. 0 \in T
  <2>1. Approx(0, [i \in 0 .. 0 |-> a])
    OBVIOUS
  <2> QED BY <2>1
<1>2. ASSUME NEW n \in T PROVE n + 1 \in T
  <2>1. PICK g : Approx(n, g)
    OBVIOUS
  <2> DEFINE h == [i \in 0 .. n + 1 |-> IF i = n + 1 THEN step[g[n]] ELSE g[i]]
  <2>2. g[n] \in S /\ step[g[n]] \in S
    BY <2>1
  <2>3. h \in [0 .. n + 1 -> S] /\ h[0] = a
    BY <2>1, <2>2
  <2>4. ASSUME NEW i \in 0 .. n PROVE h[i + 1] = step[h[i]]
    <3>1. CASE i = n
      BY <3>1
    <3>2. CASE i \in 0 .. n - 1
      <4>1. h[i + 1] = g[i + 1] /\ h[i] = g[i]
        BY <3>2
      <4> QED BY <2>1, <3>2, <4>1
    <3> QED BY <3>1, <3>2
  <2>5. n + 1 - 1 = n /\ n + 1 \in Nat
    OBVIOUS
  <2> HIDE DEF h
  <2>6. Approx(n + 1, h)
    BY <2>3, <2>4, <2>5
  <2> QED BY <2>5, <2>6
<1>3. T = Nat
  BY <1>1, <1>2, Induction
<1>4. ASSUME NEW n \in Nat, NEW m \in Nat, NEW g, NEW h, Approx(n, g), Approx(m, h)
      PROVE  \A i \in Nat : i <= n /\ i <= m => g[i] = h[i]
  <2> DEFINE U == {i \in Nat : i <= n /\ i <= m => g[i] = h[i]}
  <2>1. 0 \in U
    BY <1>4
  <2>2. ASSUME NEW i \in U PROVE i + 1 \in U
    <3> SUFFICES ASSUME i + 1 <= n, i + 1 <= m PROVE g[i + 1] = h[i + 1]
      OBVIOUS
    <3>1. g[i] = h[i] /\ i \in 0 .. n - 1 /\ i \in 0 .. m - 1
      OBVIOUS
    <3> QED BY <1>4, <3>1
  <2>3. U = Nat
    BY <2>1, <2>2, Induction
  <2> QED BY <2>3
<1> DEFINE best(n) == CHOOSE g : Approx(n, g)
           f == [n \in Nat |-> best(n)[n]]
<1>5. \A n \in Nat : Approx(n, best(n))
  BY <1>3
<1> HIDE DEF best
<1>6. f \in [Nat -> S]
  <2> SUFFICES ASSUME NEW n \in Nat PROVE best(n)[n] \in S
    OBVIOUS
  <2> QED BY <1>5
<1>7. f[0] = a
  BY <1>5
<1>8. ASSUME NEW n \in Nat PROVE f[n + 1] = step[f[n]]
  <2>1. n + 1 \in Nat /\ n \in 0 .. n + 1 - 1 /\ n <= n + 1
    OBVIOUS
  <2>2. Approx(n, best(n)) /\ Approx(n + 1, best(n + 1))
    BY <1>5, <2>1
  <2>3. best(n + 1)[n + 1] = step[best(n + 1)[n]]
    BY <2>1, <2>2
  <2>4. best(n + 1)[n] = best(n)[n]
    BY <1>4, <2>1, <2>2
  <2> QED BY <2>1, <2>3, <2>4
<1> HIDE DEF f
<1> QED BY <1>6, <1>7, <1>8

-----------------------------------------------------------------------------
(* Lists of elements.  What belongs to a list of n bytes depends on lists  *)
(* of fewer bytes only, so that n steps of the recursion settle it.        *)

\* The two sets have the same lists of fewer than n bytes.
Same(L, M, n) == \A y \in ElementList : Len(y.text) < n => (y \in L <=> y \in M)

LEMMA ListType ==
    ASSUME NEW s \in Seq(Byte), NEW d \in Nat, NEW K \in SUBSET Seq(Byte)
    PROVE  /\ List(s, d, K) \in ElementList
           /\ List(s, d, K).text = s /\ List(s, d, K).depth = d /\ List(s, d, K).barred = K
BY DEF List, ElementList

LEMMA SubSeqType ==
    ASSUME NEW s \in Seq(Byte), NEW i \in Nat \ {0}, NEW j \in 0 .. Len(s)
    PROVE  /\ SubSeq(s, i, j) \in Seq(Byte)
           /\ Len(SubSeq(s, i, j)) = IF i <= j THEN j - i + 1 ELSE 0
<1>1. \A k \in i .. j : s[k] \in Byte
  OBVIOUS
<1> QED BY <1>1, SubSeqProperties

LEMMA DocumentLocal ==
    ASSUME NEW L, NEW M, NEW s \in Seq(Byte), NEW d \in Nat, NEW mode,
           NEW n \in Nat, Len(s) <= n, Same(L, M, n)
    PROVE  DocumentWith(L, s, d, mode) <=> DocumentWith(M, s, d, mode)
<1> SUFFICES ASSUME Len(s) >= 5
             PROVE  List(SubSeq(s, 5, Len(s) - 1), d, {}) \in L
                    <=> List(SubSeq(s, 5, Len(s) - 1), d, {}) \in M
  BY DEF DocumentWith
<1>1. Len(s) \in Nat /\ Len(s) - 1 \in 0 .. Len(s)
  OBVIOUS
<1>2. /\ SubSeq(s, 5, Len(s) - 1) \in Seq(Byte)
      /\ Len(SubSeq(s, 5, Len(s) - 1)) < n
  BY <1>1, SubSeqType
<1>3. {} \in SUBSET Seq(Byte)
  OBVIOUS
<1> QED BY <1>2, <1>3, ListType, ZenonT(60) DEF Same

LEMMA ValueLocal ==
    ASSUME NEW L, NEW M, NEW t, NEW s \in Seq(Byte), NEW d \in Nat, NEW mode,
           NEW n \in Nat, Len(s) <= n, Same(L, M, n)
    PROVE  ValueWith(L, t, s, d, mode) <=> ValueWith(M, t, s, d, mode)
<1>1. d + 1 \in Nat /\ Len(s) \in Nat
  OBVIOUS
<1>2. DocumentWith(L, s, d + 1, mode) <=> DocumentWith(M, s, d + 1, mode)
  BY <1>1, DocumentLocal
<1>3. ASSUME NEW k \in 4 .. Len(s)
      PROVE  DocumentWith(L, After(s, k), d + 1, mode)
             <=> DocumentWith(M, After(s, k), d + 1, mode)
  <2>1. k + 1 \in Nat \ {0} /\ Len(s) \in 0 .. Len(s)
    BY <1>1
  <2>2. SubSeq(s, k + 1, Len(s)) \in Seq(Byte) /\ Len(SubSeq(s, k + 1, Len(s))) <= n
    BY <1>1, <2>1, SubSeqType
  <2> QED BY <1>1, <2>2, DocumentLocal, ZenonT(60) DEF After
<1>4. CodeWithScopeWith(L, s, d, mode) <=> CodeWithScopeWith(M, s, d, mode)
  BY <1>3 DEF CodeWithScopeWith
<1> QED BY <1>2, <1>4 DEF ValueWith

\* The set of keys barred from what follows a key.
Barred(K, key, mode) == IF mode.distinct THEN K \cup {key} ELSE K

LEMMA BeginsLocal ==
    ASSUME NEW L, NEW M, NEW x \in ElementList, NEW mode, Same(L, M, Len(x.text))
    PROVE  BeginsWithElement(L, x, mode) <=> BeginsWithElement(M, x, mode)
<1> DEFINE s == x.text
           key(k) == SubSeq(s, 2, k - 1)
           rest(k, e) == List(After(s, e), x.depth, Barred(x.barred, key(k), mode))
           value(LL, k, e) == ValueWith(LL, s[1], SubSeq(s, k + 1, e), x.depth, mode)
<1>1. s \in Seq(Byte) /\ x.depth \in Nat /\ x.barred \in SUBSET Seq(Byte) /\ Len(s) \in Nat
  BY DEF ElementList
<1>0. Same(L, M, Len(s))
  OBVIOUS
<1> HIDE DEF s
<1>2. ASSUME NEW k \in 2 .. Len(s), NEW e \in k .. Len(s)
      PROVE  /\ value(L, k, e) <=> value(M, k, e)
             /\ rest(k, e) \in L <=> rest(k, e) \in M
  <2>1. k + 1 \in Nat \ {0} /\ e \in 0 .. Len(s) /\ e + 1 \in Nat \ {0}
        /\ Len(s) \in 0 .. Len(s) /\ k - 1 \in 0 .. Len(s)
    BY <1>1
  <2>2. SubSeq(s, k + 1, e) \in Seq(Byte) /\ Len(SubSeq(s, k + 1, e)) <= Len(s)
    BY <1>1, <2>1, SubSeqType
  <2>3. SubSeq(s, e + 1, Len(s)) \in Seq(Byte) /\ Len(SubSeq(s, e + 1, Len(s))) < Len(s)
    BY <1>1, <2>1, SubSeqType
  <2>4. key(k) \in Seq(Byte)
    BY <1>1, <2>1, SubSeqType
  <2> HIDE DEF key
  <2>5. Barred(x.barred, key(k), mode) \in SUBSET Seq(Byte)
    BY <1>1, <2>4 DEF Barred
  <2>6. value(L, k, e) <=> value(M, k, e)
    BY <1>0, <1>1, <2>2, ValueLocal
  <2>7. rest(k, e) \in ElementList /\ rest(k, e).text = After(s, e)
    <3>1. After(s, e) \in Seq(Byte)
      BY <2>3 DEF After
    <3> QED BY <1>1, <2>5, <3>1, ListType
  <2>8. rest(k, e) \in L <=> rest(k, e) \in M
    <3>1. Len(rest(k, e).text) < Len(s)
      BY <2>3, <2>7 DEF After
    <3> HIDE DEF rest
    <3> QED BY <1>0, <2>7, <3>1 DEF Same
  <2> QED BY <2>6, <2>8
<1>3. \A LL : BeginsWithElement(LL, x, mode) <=>
         /\ s # <<>> /\ s[1] # 0
         /\ \E k \in 2 .. Len(s) :
                /\ s[k] = 0 /\ IsCstring(SubSeq(s, 2, k)) /\ key(k) \notin x.barred
                /\ \E e \in k .. Len(s) : value(LL, k, e) /\ rest(k, e) \in LL
  BY DEF BeginsWithElement, Barred, s
<1> HIDE DEF key, value, rest
<1> QED BY <1>2, <1>3

\* The recursion, unfolded.
LEMMA ListsUpToUnfold ==
    ASSUME NEW mode
    PROVE  /\ \A x \in ElementList : x \in ListsUpTo(mode)[0] <=> x.text = <<>>
           /\ \A n \in Nat : \A x \in ElementList :
                  x \in ListsUpTo(mode)[n + 1] <=>
                      x.text = <<>> \/ BeginsWithElement(ListsUpTo(mode)[n], x, mode)
<1> DEFINE S == SUBSET ElementList
           a == {x \in ElementList : x.text = <<>>}
           step == [L \in S |-> {x \in ElementList :
                                    x.text = <<>> \/ BeginsWithElement(L, x, mode)}]
           body(f, n) == {x \in ElementList :
                             \/ x.text = <<>>
                             \/ n > 0 /\ BeginsWithElement(f[n - 1], x, mode)}
<1>1. a \in S /\ step \in [S -> S]
  OBVIOUS
<1>2. PICK f \in [Nat -> S] : f[0] = a /\ \A n \in Nat : f[n + 1] = step[f[n]]
  <2> HIDE DEF a, step, S
  <2> QED BY <1>1, Recursion
<1>3. f = [n \in Nat |-> body(f, n)]
  <2>1. ASSUME NEW n \in Nat PROVE f[n] = body(f, n)
    <3>1. CASE n = 0
      BY <1>2, <3>1
    <3>2. CASE n # 0
      <4>1. n - 1 \in Nat /\ n - 1 + 1 = n /\ n > 0
        BY <3>2
      <4>2. f[n - 1] \in S
        BY <1>2, <4>1
      <4>3. f[n] = step[f[n - 1]]
        BY <1>2, <4>1
      <4> QED BY <4>1, <4>2, <4>3
    <3> QED BY <3>1, <3>2
  <2> HIDE DEF body, S
  <2> QED BY <1>2, <2>1
<1>4. ListsUpTo(mode) = [n \in Nat |-> body(ListsUpTo(mode), n)]
  <2>1. ListsUpTo(mode) = CHOOSE g : g = [n \in Nat |-> body(g, n)]
    BY DEF ListsUpTo
  <2> HIDE DEF body
  <2> QED BY <1>3, <2>1
<1>5. \A n \in Nat : ListsUpTo(mode)[n] = body(ListsUpTo(mode), n)
  <2> HIDE DEF body
  <2> QED BY <1>4
<1>6. \A x \in ElementList : x \in ListsUpTo(mode)[0] <=> x.text = <<>>
  BY <1>5
<1>7. ASSUME NEW n \in Nat, NEW x \in ElementList
      PROVE  x \in ListsUpTo(mode)[n + 1] <=>
                 x.text = <<>> \/ BeginsWithElement(ListsUpTo(mode)[n], x, mode)
  <2>1. n + 1 \in Nat /\ n + 1 - 1 = n /\ n + 1 > 0
    OBVIOUS
  <2>2. ListsUpTo(mode)[n + 1] = body(ListsUpTo(mode), n + 1)
    BY <1>5, <2>1
  <2> QED BY <2>1, <2>2
<1> QED BY <1>6, <1>7

\* More steps than there are bytes make no difference.
LEMMA Settled ==
    ASSUME NEW mode, NEW n \in Nat, NEW m \in Nat, n <= m,
           NEW x \in ElementList, Len(x.text) <= n
    PROVE  x \in ListsUpTo(mode)[m] <=> x \in ListsUpTo(mode)[n]
<1> DEFINE f == ListsUpTo(mode)
           Fixed(i) == \A j \in Nat : \A y \in ElementList :
                           (i <= j /\ Len(y.text) <= i) =>
                               (y \in f[j] <=> y \in f[i])
           T == {i \in Nat : Fixed(i)}
<1>1. /\ \A y \in ElementList : y \in f[0] <=> y.text = <<>>
      /\ \A i \in Nat : \A y \in ElementList :
             y \in f[i + 1] <=> y.text = <<>> \/ BeginsWithElement(f[i], y, mode)
  BY ListsUpToUnfold
<1> HIDE DEF f
<1>2. \A y \in ElementList : y.text \in Seq(Byte) /\ Len(y.text) \in Nat
  BY DEF ElementList
<1>3. \A j \in Nat : j = 0 \/ (j - 1 \in Nat /\ j - 1 + 1 = j)
  OBVIOUS
<1>4. 0 \in T
  <2> SUFFICES ASSUME NEW j \in Nat, NEW y \in ElementList, Len(y.text) <= 0
               PROVE  y \in f[j] <=> y \in f[0]
    OBVIOUS
  <2>1. y.text = <<>>
    BY <1>2
  <2>2. y \in f[0]
    BY <1>1, <2>1
  <2>3. CASE j = 0
    BY <2>3
  <2>4. CASE j - 1 \in Nat /\ j - 1 + 1 = j
    <3>1. y \in f[j - 1 + 1]
      BY <1>1, <2>1, <2>4
    <3> QED BY <2>2, <2>4, <3>1
  <2> QED BY <1>3, <2>3, <2>4
<1>5. ASSUME NEW i \in T PROVE i + 1 \in T
  <2> SUFFICES ASSUME NEW j \in Nat, NEW y \in ElementList, i + 1 <= j, Len(y.text) <= i + 1
               PROVE  y \in f[j] <=> y \in f[i + 1]
    OBVIOUS
  <2>1. i \in Nat /\ j - 1 \in Nat /\ j - 1 + 1 = j /\ i <= j - 1
    OBVIOUS
  <2>2. Same(f[j - 1], f[i], Len(y.text))
    <3> SUFFICES ASSUME NEW z \in ElementList, Len(z.text) < Len(y.text)
                 PROVE  z \in f[j - 1] <=> z \in f[i]
      BY DEF Same
    <3>1. Len(z.text) <= i
      BY <1>2, <2>1
    <3> QED BY <2>1, <3>1
  <2>3. BeginsWithElement(f[j - 1], y, mode) <=> BeginsWithElement(f[i], y, mode)
    BY <2>2, BeginsLocal
  <2>4. y \in f[j - 1 + 1] <=> y.text = <<>> \/ BeginsWithElement(f[j - 1], y, mode)
    BY <1>1, <2>1
  <2>5. y \in f[i + 1] <=> y.text = <<>> \/ BeginsWithElement(f[i], y, mode)
    BY <1>1, <2>1
  <2> QED BY <2>1, <2>3, <2>4, <2>5
<1> HIDE DEF Fixed
<1>6. T = Nat
  BY <1>4, <1>5, Induction
<1>7. Fixed(n)
  BY <1>6
<1> QED BY <1>7 DEF Fixed, f

(* The grammar's rule for a list, without the count of steps: a list is    *)
(* empty or begins with an element.                                        *)
LEMMA ElementListRule ==
    ASSUME NEW mode, NEW x \in ElementList
    PROVE  x \in ElementLists(mode) <=>
               x.text = <<>> \/ BeginsWithElement(ElementLists(mode), x, mode)
<1> DEFINE f == ListsUpTo(mode)
           n == Len(x.text)
<1>1. \A y \in ElementList : y.text \in Seq(Byte) /\ Len(y.text) \in Nat
  BY DEF ElementList
<1>2. \A y \in ElementList : y \in ElementLists(mode) <=> y \in f[Len(y.text)]
  BY DEF ElementLists
<1>3. /\ \A y \in ElementList : y \in f[0] <=> y.text = <<>>
      /\ \A i \in Nat : \A y \in ElementList :
             y \in f[i + 1] <=> y.text = <<>> \/ BeginsWithElement(f[i], y, mode)
  BY ListsUpToUnfold
<1>4. CASE x.text = <<>>
  <2>1. n = 0
    BY <1>4
  <2> QED BY <1>2, <1>3, <1>4, <2>1
<1>5. CASE x.text # <<>>
  <2>1. n \in Nat /\ n - 1 \in Nat /\ n - 1 + 1 = n
    BY <1>1, <1>5
  <2>2. Same(f[n - 1], ElementLists(mode), n)
    <3> SUFFICES ASSUME NEW y \in ElementList, Len(y.text) < n
                 PROVE  y \in f[n - 1] <=> y \in ElementLists(mode)
      BY DEF Same
    <3>1. Len(y.text) \in Nat /\ Len(y.text) <= n - 1
      BY <1>1, <2>1
    <3>2. y \in f[n - 1] <=> y \in f[Len(y.text)]
      BY <2>1, <3>1, Settled
    <3> QED BY <1>2, <3>2
  <2>3. BeginsWithElement(f[n - 1], x, mode)
        <=> BeginsWithElement(ElementLists(mode), x, mode)
    BY <2>2, BeginsLocal
  <2>4. x \in f[n - 1 + 1] <=> x.text = <<>> \/ BeginsWithElement(f[n - 1], x, mode)
    BY <1>3, <2>1
  <2> QED BY <1>2, <1>5, <2>1, <2>3, <2>4
<1> QED BY <1>4, <1>5

-----------------------------------------------------------------------------
(* Phrases as parts of a buffer: the bytes from one offset to another.     *)

Span(b, i, j) == SubSeq(b, i + 1, j)

LEMMA SpanFacts ==
    ASSUME NEW b \in Seq(Byte), NEW i \in Nat, NEW j \in Nat, i <= j, j <= Len(b)
    PROVE  /\ IsPart(Span(b, i, j), b, i)
           /\ Span(b, i, j) \in Seq(Byte) /\ Len(Span(b, i, j)) = j - i
           /\ \A k \in 1 .. j - i : Span(b, i, j)[k] = b[i + k]
           /\ Span(b, i, j) = <<>> <=> i = j
<1>1. IsPart(Span(b, i, j), b, i) /\ Len(Span(b, i, j)) = j - i
  BY CutIsPart DEF Span
<1>2. Span(b, i, j) \in Seq(Byte) /\ \A k \in 1 .. j - i : Span(b, i, j)[k] = b[i + k]
  BY <1>1 DEF IsPart
<1>3. Span(b, i, j) = <<>> <=> Len(Span(b, i, j)) = 0
  BY <1>2
<1>4. i = j <=> j - i = 0
  OBVIOUS
<1> QED BY <1>1, <1>2, <1>3, <1>4

\* A part of a span is a span: its bytes u + 1 to v.
LEMMA SpanOfSpan ==
    ASSUME NEW b \in Seq(Byte), NEW i \in Nat, NEW j \in Nat, i <= j, j <= Len(b),
           NEW u \in Nat, NEW v \in Nat, v <= j - i
    PROVE  SubSeq(Span(b, i, j), u + 1, v) = Span(b, i + u, i + v)
<1>1. IsPart(Span(b, i, j), b, i) /\ Len(Span(b, i, j)) = j - i
  BY SpanFacts
<1>2. SamePlace(Span(b, i, j), b, i, u + 1, v, i + u + 1, i + v)
  BY <1>1 DEF SamePlace
<1>3. Slice(Span(b, i, j), u + 1, v) = Slice(b, i + u + 1, i + v)
  BY <1>2, PartSlice
<1> QED BY <1>3 DEF Slice, Span

LEMMA SpanI32 ==
    ASSUME NEW b \in Seq(Byte), NEW i \in Nat, NEW j \in Nat, i + 4 <= j, j <= Len(b)
    PROVE  HasI32(b, i) /\ I32At(Span(b, i, j), 0) = I32At(b, i) /\ I32At(b, i) \in Int
<1>0. i <= j
  OBVIOUS
<1>1. IsPart(Span(b, i, j), b, i)
  BY <1>0, SpanFacts
<1>2. \A p \in Nat : p + 4 <= Len(Span(b, i, j)) =>
          /\ HasI32(b, p + i) /\ I32At(b, p + i) = I32At(Span(b, i, j), p)
          /\ I32At(Span(b, i, j), p) \in Int
  BY <1>1, PartI32
<1>3. 0 \in Nat /\ 0 + 4 <= Len(Span(b, i, j)) /\ 0 + i = i
  <2>1. Len(Span(b, i, j)) = j - i
    BY <1>0, SpanFacts
  <2> QED BY <2>1
<1> QED BY <1>2, <1>3

\* What ReadCstring makes of the text from p to a NUL.
LEMMA CstringRead ==
    ASSUME NEW b \in Seq(Byte), NEW p \in Nat, NEW q \in FirstNul(b, p)
    PROVE  /\ q \in Nat /\ p <= q /\ q < Len(b)
           /\ CstringText(b, p) = Span(b, p, q)
           /\ ReadCstring(b, p) = IF Utf8(Span(b, p, q)) THEN Ok(q + 1) ELSE Err("bad-utf8")
<1>1. q \in Nat /\ p <= q /\ q < Len(b) /\ Len(b) \in Nat /\ ~(p > Len(b))
  BY DEF FirstNul
<1>2. (CHOOSE x \in FirstNul(b, p) : TRUE) = q
  BY FirstNulUnique
<1>3. CstringText(b, p) = Span(b, p, q)
  BY <1>2 DEF CstringText, Span
<1>4. 1 + q = q + 1
  BY <1>1
<1> QED BY <1>1, <1>2, <1>3, <1>4 DEF ReadCstring

\* A cstring of the grammar is what ReadCstring reads.
LEMMA CstringRule ==
    ASSUME NEW b \in Seq(Byte), NEW p \in Nat, NEW e \in Nat, p <= e, e <= Len(b)
    PROVE  /\ IsCstring(Span(b, p, e)) <=> ReadCstring(b, p) = Ok(e)
           /\ IsCstring(Span(b, p, e)) => e > p /\ CstringText(b, p) = Span(b, p, e - 1)
<1> DEFINE s == Span(b, p, e)
           n == e - p
<1>0. n \in Nat /\ Len(b) \in Nat
  OBVIOUS
<1>1. /\ s \in Seq(Byte) /\ Len(s) = n
      /\ \A k \in 1 .. n : s[k] = b[p + k]
      /\ s = <<>> <=> p = e
  BY SpanFacts, ZenonT(60)
<1>2. ASSUME p < e PROVE Before(s, Len(s) - 1) = Span(b, p, e - 1)
  <2>1. SubSeq(s, 0 + 1, n - 1) = Span(b, p + 0, p + (n - 1))
    <3>1. 0 \in Nat /\ n - 1 \in Nat /\ n - 1 <= e - p
      BY <1>2
    <3>2. \A u, v \in Nat : v <= e - p => SubSeq(s, u + 1, v) = Span(b, p + u, p + v)
      BY SpanOfSpan
    <3> QED BY <3>1, <3>2
  <2>2. p + 0 = p /\ p + (n - 1) = e - 1 /\ 0 + 1 = 1
    OBVIOUS
  <2> QED BY <1>0, <1>1, <2>1, <2>2 DEF Before
<1> HIDE DEF s
<1>3. ASSUME IsCstring(s)
      PROVE  ReadCstring(b, p) = Ok(e) /\ e > p /\ CstringText(b, p) = Span(b, p, e - 1)
  <2>1. /\ s # <<>> /\ s[n] = 0 /\ \A i \in 1 .. n - 1 : s[i] # 0
        /\ Utf8(Before(s, Len(s) - 1))
    BY <1>0, <1>1, <1>3 DEF IsCstring
  <2>2. p < e /\ e - 1 \in Nat /\ e - 1 + 1 = e /\ n \in 1 .. n /\ p + n = e
    BY <1>0, <1>1, <2>1
  <2>3. b[e] = 0
    BY <1>0, <1>1, <2>1, <2>2
  <2>4. \A r \in p .. e - 1 - 1 : b[r + 1] # 0
    <3> TAKE r \in p .. e - 1 - 1
    <3>1. r + 1 - p \in 1 .. n - 1 /\ r + 1 - p \in 1 .. n /\ p + (r + 1 - p) = r + 1
      BY <2>2
    <3> QED BY <1>0, <1>1, <2>1, <3>1
  <2>5. e - 1 \in FirstNul(b, p)
    BY <1>0, <1>1, <2>2, <2>3, <2>4 DEF FirstNul
  <2> QED BY <1>2, <2>1, <2>2, <2>5, CstringRead
<1>4. ASSUME ReadCstring(b, p) = Ok(e) PROVE IsCstring(s)
  <2>1. PICK q \in FirstNul(b, p) : TRUE
    BY <1>4 DEF ReadCstring, Ok, Err
  <2>2. /\ q \in Nat /\ p <= q /\ q < Len(b) /\ Utf8(Span(b, p, q)) /\ Ok(q + 1) = Ok(e)
    <3>1. /\ q \in Nat /\ p <= q /\ q < Len(b)
          /\ ReadCstring(b, p) = IF Utf8(Span(b, p, q)) THEN Ok(q + 1) ELSE Err("bad-utf8")
      BY <2>1, CstringRead
    <3>2. Ok(e).err = "none" /\ Err("bad-utf8").err = "bad-utf8"
      BY DEF Ok, Err
    <3> QED BY <1>4, <3>1, <3>2
  <2>3. q + 1 = e
    <3>1. Ok(q + 1).pos = q + 1 /\ Ok(e).pos = e
      BY DEF Ok
    <3> QED BY <2>2, <3>1
  <2>4. p < e /\ q = e - 1 /\ n \in 1 .. n /\ p + n = e
    BY <2>2, <2>3
  <2>5. b[q + 1] = 0 /\ \A r \in p .. q - 1 : b[r + 1] # 0
    BY <2>1 DEF FirstNul
  <2>6. s[n] = 0 /\ s # <<>>
    BY <1>0, <1>1, <2>3, <2>4, <2>5
  <2>7. \A i \in 1 .. n - 1 : s[i] # 0
    <3> TAKE i \in 1 .. n - 1
    <3>1. i \in 1 .. n /\ p + i - 1 \in p .. q - 1 /\ p + i - 1 + 1 = p + i
      BY <2>4
    <3> QED BY <1>0, <1>1, <2>5, <3>1
  <2> QED BY <1>0, <1>1, <1>2, <2>2, <2>4, <2>6, <2>7 DEF IsCstring
<1> QED BY <1>3, <1>4 DEF s

\* A string of the grammar is what ReadString reads.
LEMMA StringRule ==
    ASSUME NEW b \in Seq(Byte), NEW p \in Nat, NEW e \in Nat, p <= e, e <= Len(b)
    PROVE  IsString(Span(b, p, e)) <=> ReadString(b, p) = Ok(e)
<1> DEFINE s == Span(b, p, e)
           n == I32At(b, p)
<1>0. e - p \in Nat /\ Len(b) \in Nat
  OBVIOUS
<1>1. /\ s \in Seq(Byte) /\ Len(s) = e - p
      /\ \A k \in 1 .. e - p : s[k] = b[p + k]
  BY SpanFacts
<1>2. ASSUME p + 4 <= e
      PROVE  HasI32(b, p) /\ I32At(s, 0) = n /\ n \in Int
  BY <1>2, SpanI32
<1>3. ASSUME p + 5 <= e
      PROVE  /\ s[Len(s)] = b[e]
             /\ SubSeq(s, 5, Len(s) - 1) = Span(b, p + 4, e - 1)
  <2>1. e - p \in 1 .. e - p /\ p + (e - p) = e
    BY <1>3
  <2>2. SubSeq(s, 4 + 1, e - p - 1) = Span(b, p + 4, p + (e - p - 1))
    <3>1. 4 \in Nat /\ e - p - 1 \in Nat /\ e - p - 1 <= e - p
      BY <1>3
    <3>2. \A u, v \in Nat : v <= e - p => SubSeq(s, u + 1, v) = Span(b, p + u, p + v)
      BY SpanOfSpan
    <3> QED BY <3>1, <3>2
  <2>3. 4 + 1 = 5 /\ p + (e - p - 1) = e - 1
    OBVIOUS
  <2> QED BY <1>0, <1>1, <2>1, <2>2, <2>3
<1> HIDE DEF s
<1>4. ASSUME IsString(s) PROVE ReadString(b, p) = Ok(e)
  <2>1. /\ Len(s) >= 5 /\ I32At(s, 0) = Len(s) - 4 /\ s[Len(s)] = 0
        /\ Utf8(SubSeq(s, 5, Len(s) - 1))
    BY <1>4 DEF IsString
  <2>2. p + 5 <= e /\ p + 4 <= e
    BY <1>0, <1>1, <2>1
  <2>3. HasI32(b, p) /\ n = e - p - 4 /\ n \in Int
    BY <1>0, <1>1, <1>2, <2>1, <2>2
  <2> HIDE DEF n
  <2>4. /\ ~(n < 1) /\ p + 4 + n = e /\ ~(n > Len(b) - (p + 4))
        /\ p + 4 + n - 1 = e - 1
    BY <1>0, <1>1, <2>2, <2>3
  <2>6. b[p + 4 + n] = 0 /\ Utf8(SubSeq(b, p + 4 + 1, p + 4 + n - 1))
    BY <1>3, <2>1, <2>2, <2>4 DEF Span
  <2>5. StringBody(b, p + 4, n) = Ok(e)
    BY <2>4, <2>6 DEF StringBody
  <2> QED BY <2>3, <2>4, <2>5 DEF ReadString, n
<1>5. ASSUME ReadString(b, p) = Ok(e) PROVE IsString(s)
  <2>1. HasI32(b, p) /\ ~(n < 1) /\ StringBody(b, p + 4, n) = Ok(e)
    BY <1>5 DEF ReadString, Ok, Err
  <2>2. n \in Int
    BY <2>1, I32IsInt
  <2> HIDE DEF n
  <2>3. /\ ~(n > Len(b) - (p + 4)) /\ b[p + 4 + n] = 0
        /\ Utf8(SubSeq(b, p + 4 + 1, p + 4 + n - 1)) /\ Ok(p + 4 + n) = Ok(e)
    BY <2>1 DEF StringBody, Ok, Err
  <2>4. p + 4 + n = e
    BY <2>3 DEF Ok
  <2>5. p + 5 <= e /\ p + 4 <= e /\ Len(s) >= 5 /\ n = Len(s) - 4
        /\ p + 4 + n - 1 = e - 1
    BY <1>0, <1>1, <2>1, <2>2, <2>4
  <2>6. I32At(s, 0) = n
    BY <1>2, <2>5 DEF n
  <2> QED BY <1>3, <2>3, <2>4, <2>5, <2>6 DEF IsString, Span
<1> QED BY <1>4, <1>5 DEF s

-----------------------------------------------------------------------------
(* Values and documents.                                                   *)

LEMMA BeforeAfter ==
    ASSUME NEW b \in Seq(Byte), NEW p \in Nat, NEW e \in Nat, p <= e, e <= Len(b),
           NEW n \in Nat, n <= e - p
    PROVE  /\ Before(Span(b, p, e), n) = Span(b, p, p + n)
           /\ After(Span(b, p, e), n) = Span(b, p + n, e)
<1>1. Len(Span(b, p, e)) = e - p
  BY SpanFacts
<1>2. 0 \in Nat /\ p + 0 = p /\ 0 + 1 = 1 /\ e - p \in Nat /\ e - p <= e - p
      /\ p + (e - p) = e
  OBVIOUS
<1>3. \A u, v \in Nat : v <= e - p =>
          SubSeq(Span(b, p, e), u + 1, v) = Span(b, p + u, p + v)
  BY SpanOfSpan
<1>4. SubSeq(Span(b, p, e), 0 + 1, n) = Span(b, p + 0, p + n)
  BY <1>2, <1>3
<1>5. SubSeq(Span(b, p, e), n + 1, e - p) = Span(b, p + n, p + (e - p))
  BY <1>2, <1>3
<1> QED BY <1>1, <1>2, <1>4, <1>5 DEF Before, After

\* The rule for a document, where its prefix says that it ends.
LEMMA DocumentRule ==
    ASSUME NEW L, NEW mode, NEW d \in Nat,
           NEW b \in Seq(Byte), NEW p \in Nat, NEW e \in Nat, p <= e, e <= Len(b)
    PROVE  DocumentWith(L, Span(b, p, e), d, mode) <=>
               /\ d <= mode.nesting
               /\ HasI32(b, p) /\ I32At(b, p) >= 5 /\ e = p + I32At(b, p)
               /\ b[e] = 0
               /\ List(Span(b, p + 4, e - 1), d, {}) \in L
<1> DEFINE s == Span(b, p, e)
           n == I32At(b, p)
<1>0. e - p \in Nat /\ Len(b) \in Nat
  OBVIOUS
<1>1. Len(s) = e - p /\ \A k \in 1 .. e - p : s[k] = b[p + k]
  BY SpanFacts, ZenonT(60)
<1>2. ASSUME p + 5 <= e
      PROVE  /\ HasI32(b, p) /\ I32At(s, 0) = n /\ n \in Int
             /\ s[Len(s)] = b[e]
             /\ SubSeq(s, 5, Len(s) - 1) = Span(b, p + 4, e - 1)
  <2>1. p + 4 <= e /\ e - p \in 1 .. e - p /\ p + (e - p) = e
    BY <1>2
  <2>2. HasI32(b, p) /\ I32At(s, 0) = n /\ n \in Int
    BY <2>1, SpanI32
  <2>3. SubSeq(s, 4 + 1, e - p - 1) = Span(b, p + 4, p + (e - p - 1))
    <3>1. 4 \in Nat /\ e - p - 1 \in Nat /\ e - p - 1 <= e - p
      BY <1>2
    <3>2. \A u, v \in Nat : v <= e - p => SubSeq(s, u + 1, v) = Span(b, p + u, p + v)
      BY SpanOfSpan
    <3> QED BY <3>1, <3>2
  <2>4. 4 + 1 = 5 /\ p + (e - p - 1) = e - 1
    OBVIOUS
  <2> QED BY <1>1, <2>1, <2>2, <2>3, <2>4
<1>3. Len(s) >= 5 <=> p + 5 <= e
  BY <1>0, <1>1
<1>4. ASSUME HasI32(b, p), n >= 5, e = p + n PROVE p + 5 <= e
  <2>1. n \in Int
    BY <1>4, I32IsInt
  <2> HIDE DEF n
  <2> QED BY <1>4, <2>1
<1>5. ASSUME p + 5 <= e, n \in Int PROVE n = Len(s) <=> n >= 5 /\ e = p + n
  <2> HIDE DEF n, s
  <2> QED BY <1>0, <1>1, <1>5
<1> HIDE DEF n, s
<1>6. CASE p + 5 <= e
  BY <1>2, <1>3, <1>5, <1>6 DEF DocumentWith, s, n
<1>7. CASE ~(p + 5 <= e)
  BY <1>3, <1>4, <1>7 DEF DocumentWith, s, n
<1> QED BY <1>6, <1>7

\* The rule for a code with a scope.
LEMMA ScopeRule ==
    ASSUME NEW L, NEW mode, ~mode.strict, NEW d \in Nat,
           NEW b \in Seq(Byte), NEW p \in Nat, NEW e \in Nat, p <= e, e <= Len(b)
    PROVE  CodeWithScopeWith(L, Span(b, p, e), d, mode) <=>
               /\ HasI32(b, p) /\ I32At(b, p) >= 0
               /\ \E q \in p + 4 .. e : /\ ReadString(b, p + 4) = Ok(q)
                                        /\ DocumentWith(L, Span(b, q, e), d + 1, mode)
<1> DEFINE s == Span(b, p, e)
<1>0. e - p \in Nat /\ Len(b) \in Nat
  OBVIOUS
<1>1. Len(s) = e - p
  BY SpanFacts
<1>2. CASE p + 4 <= e
  <2>1. HasI32(b, p) /\ I32At(s, 0) = I32At(b, p) /\ Len(s) >= 4
    <3>1. HasI32(b, p) /\ I32At(s, 0) = I32At(b, p)
      BY <1>2, SpanI32
    <3> QED BY <1>0, <1>1, <1>2, <3>1
  <2>2. ASSUME NEW n \in 4 .. Len(s)
        PROVE  /\ p + n \in p + 4 .. e
               /\ IsString(SubSeq(s, 5, n)) <=> ReadString(b, p + 4) = Ok(p + n)
               /\ After(s, n) = Span(b, p + n, e)
    <3>1. p + n \in p + 4 .. e /\ n \in Nat /\ n <= e - p /\ 4 \in Nat
          /\ p + 4 \in Nat /\ p + n \in Nat /\ p + 4 <= p + n /\ p + n <= Len(b)
          /\ 4 + 1 = 5
      BY <1>0, <1>1, <1>2
    <3>2. \A u, v \in Nat : v <= e - p => SubSeq(s, u + 1, v) = Span(b, p + u, p + v)
      BY SpanOfSpan
    <3>3. SubSeq(s, 5, n) = Span(b, p + 4, p + n)
      BY <3>1, <3>2
    <3>4. IsString(Span(b, p + 4, p + n)) <=> ReadString(b, p + 4) = Ok(p + n)
      BY <3>1, StringRule
    <3>5. After(s, n) = Span(b, p + n, e)
      BY <3>1, BeforeAfter
    <3> QED BY <3>1, <3>3, <3>4, <3>5
  <2>3. \A q \in p + 4 .. e : q - p \in 4 .. Len(s) /\ p + (q - p) = q
    BY <1>0, <1>1
  <2> HIDE DEF s
  <2>4. CodeWithScopeWith(L, s, d, mode) <=>
            /\ I32At(b, p) >= 0
            /\ \E n \in 4 .. Len(s) : /\ IsString(SubSeq(s, 5, n))
                                      /\ DocumentWith(L, After(s, n), d + 1, mode)
    BY <2>1 DEF CodeWithScopeWith
  <2>5. (\E n \in 4 .. Len(s) : /\ IsString(SubSeq(s, 5, n))
                                /\ DocumentWith(L, After(s, n), d + 1, mode))
        <=> \E q \in p + 4 .. e : /\ ReadString(b, p + 4) = Ok(q)
                                  /\ DocumentWith(L, Span(b, q, e), d + 1, mode)
    <3>1. ASSUME NEW n \in 4 .. Len(s), IsString(SubSeq(s, 5, n)),
                 DocumentWith(L, After(s, n), d + 1, mode)
          PROVE  \E q \in p + 4 .. e : /\ ReadString(b, p + 4) = Ok(q)
                                       /\ DocumentWith(L, Span(b, q, e), d + 1, mode)
      BY <2>2, <3>1
    <3>2. ASSUME NEW q \in p + 4 .. e, ReadString(b, p + 4) = Ok(q),
                 DocumentWith(L, Span(b, q, e), d + 1, mode)
          PROVE  \E n \in 4 .. Len(s) : /\ IsString(SubSeq(s, 5, n))
                                        /\ DocumentWith(L, After(s, n), d + 1, mode)
      <4>1. q - p \in 4 .. Len(s) /\ p + (q - p) = q
        BY <2>3
      <4>2. IsString(SubSeq(s, 5, q - p)) /\ After(s, q - p) = Span(b, q, e)
        BY <2>2, <3>2, <4>1
      <4> QED BY <3>2, <4>1, <4>2
    <3> QED BY <3>1, <3>2
  <2> QED BY <2>1, <2>4, <2>5 DEF s
<1>3. CASE ~(p + 4 <= e)
  <2>1. ~(Len(s) >= 4)
    BY <1>0, <1>1, <1>3
  <2>2. \A q \in p + 4 .. e : FALSE
    BY <1>3
  <2> QED BY <2>1, <2>2 DEF CodeWithScopeWith
<1> QED BY <1>2, <1>3

LEMMA SkipRule ==
    ASSUME NEW b \in Seq(Byte), NEW p \in Nat, NEW e \in Nat, p <= e, e <= Len(b), NEW n \in Nat
    PROVE  Skip(b, p, n) = Ok(e) <=> e = p + n
<1>1. Len(b) \in Nat /\ Ok(p + n).pos = p + n /\ Ok(e).pos = e
      /\ Ok(e).err = "none" /\ Err("truncated").err = "truncated"
  BY DEF Ok, Err
<1>2. CASE n > Len(b) - p
  <2>1. e # p + n
    BY <1>1, <1>2
  <2> QED BY <1>1, <1>2, <2>1 DEF Skip
<1>3. CASE ~(n > Len(b) - p)
  BY <1>1, <1>3 DEF Skip
<1> QED BY <1>2, <1>3

LEMMA FixedRule ==
    ASSUME NEW b \in Seq(Byte), NEW p \in Nat, NEW e \in Nat, p <= e, e <= Len(b),
           NEW t \in DOMAIN FixedSize
    PROVE  IsPlainValue(t, Span(b, p, e)) <=> Reading(b, t, p) = Ok(e)
<1> DEFINE s == Span(b, p, e)
<1>1. Len(s) = e - p /\ (s = <<>> <=> p = e)
  BY SpanFacts
<1>2. t \in {1, 6, 7, 9, 10, 16, 17, 18, 19, 127, 255}
  BY Tags
<1>3. Reading(b, t, p) = Ok(e) <=> e = p + FixedSize[t]
  <2>1. Reading(b, t, p) = Skip(b, p, FixedSize[t])
    BY Readings
  <2>2. FixedSize[t] \in Nat
    BY FixedSizeIsNat
  <2> QED BY <2>1, <2>2, SkipRule
<1> HIDE DEF s
<1>4. /\ t \in {1, 9, 17, 18} => FixedSize[t] = 8
      /\ t = 7 => FixedSize[t] = 12
      /\ t = 16 => FixedSize[t] = 4
      /\ t = 19 => FixedSize[t] = 16
      /\ t \in {6, 10, 127, 255} => FixedSize[t] = 0
  BY DEF FixedSize
<1>5. CASE t \in {1, 9, 17, 18}
  <2>1. IsPlainValue(t, s) <=> Len(s) = 8
    BY <1>5, SMTT(30) DEF IsPlainValue, Width, Empty
  <2> QED BY <1>1, <1>3, <1>4, <1>5, <2>1 DEF s
<1>6. CASE t = 7
  <2>1. IsPlainValue(t, s) <=> Len(s) = 12
    BY <1>6 DEF IsPlainValue, Width, Empty
  <2> QED BY <1>1, <1>3, <1>4, <1>6, <2>1 DEF s
<1>7. CASE t = 16
  <2>1. IsPlainValue(t, s) <=> Len(s) = 4
    BY <1>7 DEF IsPlainValue, Width, Empty
  <2> QED BY <1>1, <1>3, <1>4, <1>7, <2>1 DEF s
<1>8. CASE t = 19
  <2>1. IsPlainValue(t, s) <=> Len(s) = 16
    BY <1>8 DEF IsPlainValue, Width, Empty
  <2> QED BY <1>1, <1>3, <1>4, <1>8, <2>1 DEF s
<1>9. CASE t \in {6, 10, 127, 255}
  <2>1. IsPlainValue(t, s) <=> s = <<>>
    BY <1>9, SMTT(30) DEF IsPlainValue, Width, Empty
  <2>2. e = p + 0 <=> p = e
    OBVIOUS
  <2> QED BY <1>1, <1>3, <1>4, <1>9, <2>1, <2>2 DEF s
<1> QED BY <1>2, <1>5, <1>6, <1>7, <1>8, <1>9

LEMMA BooleanRule ==
    ASSUME NEW b \in Seq(Byte), NEW p \in Nat, NEW e \in Nat, p <= e, e <= Len(b)
    PROVE  Span(b, p, e) \in {<<0>>, <<1>>} <=> BooleanIn(b, p) = Ok(e)
<1> DEFINE s == Span(b, p, e)
<1>1. /\ s \in Seq(Byte) /\ Len(s) = e - p
      /\ \A k \in 1 .. e - p : s[k] = b[p + k]
  BY SpanFacts
<1> HIDE DEF s
<1>2. s \in {<<0>>, <<1>>} <=> Len(s) = 1 /\ s[1] \in {0, 1}
  <2>1. ASSUME Len(s) = 1, NEW x \in Byte, s[1] = x PROVE s = <<x>>
    <3>1. <<x>> \in Seq(Byte) /\ Len(<<x>>) = 1 /\ <<x>>[1] = x
      OBVIOUS
    <3>2. \A i \in 1 .. Len(s) : s[i] = <<x>>[i]
      BY <2>1, <3>1
    <3> QED BY <1>1, <2>1, <3>1, <3>2, SeqEqual
  <2>2. 0 \in Byte /\ 1 \in Byte
    BY DEF Byte
  <2> QED BY <2>1, <2>2
<1>3. e = p + 1 => s[1] = b[p + 1]
  BY <1>1
<1>4. Len(s) = 1 <=> e = p + 1
  BY <1>1
<1>5. Skip(b, p, 1) = Ok(e) <=> e = p + 1
  BY SkipRule
<1>6. /\ BooleanIn(b, p) = Ok(e) => e = p + 1 /\ b[p + 1] \in {0, 1}
      /\ Skip(b, p, 1) = Ok(e) /\ b[p + 1] \in {0, 1} => BooleanIn(b, p) = Ok(p + 1)
  BY DEF BooleanIn, Ok, Err
<1> QED BY <1>2, <1>3, <1>4, <1>5, <1>6 DEF s

LEMMA BinaryRule ==
    ASSUME NEW b \in Seq(Byte), NEW p \in Nat, NEW e \in Nat, p <= e, e <= Len(b)
    PROVE  LET s == Span(b, p, e) IN
           Len(s) >= 5 /\ I32At(s, 0) = Len(s) - 5 <=> BinaryIn(b, p) = Ok(e)
<1> DEFINE s == Span(b, p, e)
           n == I32At(b, p)
<1>1. Len(s) = e - p
  BY SpanFacts
<1>2. Len(b) \in Nat
  OBVIOUS
<1>3. ASSUME p + 5 <= e PROVE HasI32(b, p) /\ I32At(s, 0) = n /\ n \in Int
  <2>1. p + 4 <= e
    BY <1>3
  <2> QED BY <2>1, SpanI32
<1>4. ASSUME HasI32(b, p), n \in Nat, e = p + 5 + n
      PROVE  BinaryIn(b, p) = Ok(e)
  <2> HIDE DEF n
  <2>1. p + 5 \in Nat /\ p + 5 <= e /\ ~(n < 0) /\ p + 4 \in Nat /\ ~(1 > Len(b) - (p + 4))
    BY <1>2, <1>4
  <2>2. Skip(b, p + 5, n) = Ok(e)
    BY <1>4, <2>1, SkipRule
  <2>3. Skip(b, p + 4, 1).err = "none"
    BY <2>1 DEF Skip, Ok
  <2> QED BY <1>4, <2>1, <2>2, <2>3 DEF BinaryIn, n
<1>5. ASSUME BinaryIn(b, p) = Ok(e) PROVE HasI32(b, p) /\ n \in Nat /\ e = p + 5 + n
  <2>1. HasI32(b, p) /\ ~(n < 0) /\ Skip(b, p + 5, n) = Ok(e)
    BY <1>5 DEF BinaryIn, Ok, Err
  <2>2. n \in Int
    BY <2>1, I32IsInt
  <2> HIDE DEF n
  <2> QED BY <2>1, <2>2 DEF Skip, Ok, Err
<1>6. ASSUME Len(s) >= 5, I32At(s, 0) = Len(s) - 5
      PROVE  HasI32(b, p) /\ n \in Nat /\ e = p + 5 + n
  <2> HIDE DEF s, n
  <2>1. p + 5 <= e
    BY <1>1, <1>6
  <2> QED BY <1>1, <1>3, <1>6, <2>1
<1>7. ASSUME HasI32(b, p), n \in Nat, e = p + 5 + n
      PROVE  Len(s) >= 5 /\ I32At(s, 0) = Len(s) - 5
  <2> HIDE DEF s, n
  <2>1. p + 5 <= e
    BY <1>7
  <2> QED BY <1>1, <1>3, <1>7, <2>1
<1> QED BY <1>4, <1>5, <1>6, <1>7

LEMMA RegexRule ==
    ASSUME NEW b \in Seq(Byte), NEW p \in Nat, NEW e \in Nat, p <= e, e <= Len(b)
    PROVE  LET s == Span(b, p, e) IN
           (\E n \in 1 .. Len(s) : IsCstring(Before(s, n)) /\ IsCstring(After(s, n)))
           <=> RegexIn(b, p) = Ok(e)
<1> DEFINE s == Span(b, p, e)
<1>1. Len(s) = e - p
  BY SpanFacts
<1>2. Len(b) \in Nat
  OBVIOUS
<1>3. ASSUME NEW n \in 1 .. Len(s)
      PROVE  /\ IsCstring(Before(s, n)) <=> ReadCstring(b, p) = Ok(p + n)
             /\ IsCstring(After(s, n)) <=> ReadCstring(b, p + n) = Ok(e)
  <2>1. n \in Nat /\ n <= e - p /\ p + n \in Nat /\ p + n <= e /\ p + n <= Len(b)
        /\ p <= p + n
    BY <1>1, <1>2
  <2>2. Before(s, n) = Span(b, p, p + n) /\ After(s, n) = Span(b, p + n, e)
    BY <2>1, BeforeAfter
  <2>3. IsCstring(Span(b, p, p + n)) <=> ReadCstring(b, p) = Ok(p + n)
    BY <2>1, CstringRule
  <2>4. IsCstring(Span(b, p + n, e)) <=> ReadCstring(b, p + n) = Ok(e)
    BY <2>1, CstringRule
  <2> QED BY <2>2, <2>3, <2>4
<1> HIDE DEF s
<1>4. ASSUME NEW n \in 1 .. Len(s), IsCstring(Before(s, n)), IsCstring(After(s, n))
      PROVE  RegexIn(b, p) = Ok(e)
  <2>1. ReadCstring(b, p) = Ok(p + n) /\ ReadCstring(b, p + n) = Ok(e)
    BY <1>3, <1>4
  <2> QED BY <2>1 DEF RegexIn, Ok
<1>5. ASSUME RegexIn(b, p) = Ok(e)
      PROVE  \E n \in 1 .. Len(s) : IsCstring(Before(s, n)) /\ IsCstring(After(s, n))
  <2> DEFINE r == ReadCstring(b, p)
  <2>1. r.err = "none" /\ ReadCstring(b, r.pos) = Ok(e)
    BY <1>5 DEF RegexIn, Ok
  <2>2. r.pos \in p .. Len(b) /\ r.pos > p
    BY <2>1, CstringSound DEF Sound, DecodeErrors
  <2>3. r = Ok(r.pos)
    BY <2>1 DEF ReadCstring, Ok, Err
  <2> HIDE DEF r
  <2>4. e > r.pos
    <3>1. r.pos \in Nat
      BY <2>2
    <3>2. ReadCstring(b, r.pos).err = "none" /\ ReadCstring(b, r.pos).pos = e
      BY <2>1 DEF Ok
    <3> QED BY <3>1, <3>2, CstringSound
  <2>5. r.pos - p \in 1 .. Len(s) /\ p + (r.pos - p) = r.pos
    BY <1>1, <2>2, <2>4
  <2>6. ReadCstring(b, p) = Ok(p + (r.pos - p)) /\ ReadCstring(b, p + (r.pos - p)) = Ok(e)
    BY <2>1, <2>3, <2>5 DEF r
  <2> QED BY <1>3, <2>5, <2>6
<1> QED BY <1>4, <1>5 DEF s

LEMMA DbPointerRule ==
    ASSUME NEW b \in Seq(Byte), NEW p \in Nat, NEW e \in Nat, p <= e, e <= Len(b)
    PROVE  LET s == Span(b, p, e) IN
           Len(s) >= 12 /\ IsString(Before(s, Len(s) - 12)) <=> DbPointerIn(b, p) = Ok(e)
<1> DEFINE s == Span(b, p, e)
<1>1. Len(s) = e - p
  BY SpanFacts
<1>2. Len(b) \in Nat
  OBVIOUS
<1>3. ASSUME p + 12 <= e
      PROVE  IsString(Before(s, Len(s) - 12)) <=> ReadString(b, p) = Ok(e - 12)
  <2>1. /\ e - p - 12 \in Nat /\ e - p - 12 <= e - p /\ p + (e - p - 12) = e - 12
        /\ e - 12 \in Nat /\ p <= e - 12 /\ e - 12 <= Len(b)
    BY <1>2, <1>3
  <2>2. Before(s, e - p - 12) = Span(b, p, p + (e - p - 12))
    BY <2>1, BeforeAfter
  <2>3. IsString(Span(b, p, e - 12)) <=> ReadString(b, p) = Ok(e - 12)
    BY <2>1, StringRule
  <2> QED BY <1>1, <2>1, <2>2, <2>3
<1> HIDE DEF s
<1>4. ASSUME p + 12 <= e, ReadString(b, p) = Ok(e - 12) PROVE DbPointerIn(b, p) = Ok(e)
  <2>1. e - 12 \in Nat /\ e - 12 <= e /\ e = e - 12 + 12
    BY <1>4
  <2>2. Skip(b, e - 12, 12) = Ok(e)
    BY <2>1, SkipRule
  <2> QED BY <1>4, <2>2 DEF DbPointerIn, Ok
<1>5. ASSUME DbPointerIn(b, p) = Ok(e)
      PROVE  p + 12 <= e /\ ReadString(b, p) = Ok(e - 12)
  <2> DEFINE r == ReadString(b, p)
  <2>1. r.err = "none" /\ Skip(b, r.pos, 12) = Ok(e)
    BY <1>5 DEF DbPointerIn, Ok
  <2>2. r.pos \in p .. Len(b)
    BY <2>1, StringSound DEF Sound, DecodeErrors
  <2>3. r = Ok(r.pos)
    BY <2>1 DEF ReadString, StringBody, Ok, Err
  <2> HIDE DEF r
  <2>4. r.pos + 12 = e
    BY <2>1 DEF Skip, Ok, Err
  <2>5. r.pos = e - 12 /\ p + 12 <= e
    BY <2>2, <2>4
  <2> QED BY <2>3, <2>5 DEF r
<1>6. Len(s) >= 12 <=> p + 12 <= e
  BY <1>1
<1> QED BY <1>3, <1>4, <1>5, <1>6 DEF s

\* The values in which there is no document are what the readers read.
LEMMA PlainRule ==
    ASSUME NEW b \in Seq(Byte), NEW p \in Nat, NEW e \in Nat, p <= e, e <= Len(b), NEW t
    PROVE  IsPlainValue(t, Span(b, p, e)) <=> t \in ReadTags /\ Reading(b, t, p) = Ok(e)
<1> DEFINE s == Span(b, p, e)
<1>1. CASE t \in DOMAIN FixedSize
  BY <1>1, FixedRule DEF ReadTags
<1>2. CASE t \in StringTags
  <2>1. IsPlainValue(t, s) <=> IsString(s)
    <3> HIDE DEF s
    <3>1. t \in {2, 13, 14}
      BY <1>2, Tags
    <3> QED BY <3>1 DEF IsPlainValue, Width, Empty
  <2> QED BY <1>2, <2>1, StringRule, Readings DEF ReadTags
<1>3. CASE t = 5
  <2>1. IsPlainValue(t, s) <=> Len(s) >= 5 /\ I32At(s, 0) = Len(s) - 5
    <3> HIDE DEF s
    <3> QED BY <1>3 DEF IsPlainValue, Width, Empty
  <2> QED BY <1>3, <2>1, BinaryRule, Readings DEF ReadTags
<1>4. CASE t = 8
  <2>1. IsPlainValue(t, s) <=> s \in {<<0>>, <<1>>}
    <3> HIDE DEF s
    <3> QED BY <1>4 DEF IsPlainValue, Width, Empty
  <2> QED BY <1>4, <2>1, BooleanRule, Readings DEF ReadTags
<1>5. CASE t = 11
  <2>1. IsPlainValue(t, s) <=>
            \E n \in 1 .. Len(s) : IsCstring(Before(s, n)) /\ IsCstring(After(s, n))
    <3> HIDE DEF s
    <3> QED BY <1>5 DEF IsPlainValue, Width, Empty
  <2> QED BY <1>5, <2>1, RegexRule, Readings DEF ReadTags
<1>6. CASE t = 12
  <2>1. IsPlainValue(t, s) <=> Len(s) >= 12 /\ IsString(Before(s, Len(s) - 12))
    <3> HIDE DEF s
    <3> QED BY <1>6 DEF IsPlainValue, Width, Empty
  <2> QED BY <1>6, <2>1, DbPointerRule, Readings DEF ReadTags
<1>7. CASE t \notin ReadTags
  <2>1. /\ t \notin {1, 6, 7, 9, 10, 16, 17, 18, 19, 127, 255, 2, 13, 14}
        /\ t \notin {5, 8, 11, 12}
    BY <1>7, Tags DEF ReadTags
  <2>2. ~IsPlainValue(t, s)
    <3> HIDE DEF s
    <3> QED BY <2>1 DEF IsPlainValue, Width, Empty
  <2> QED BY <1>7, <2>2
<1> QED BY <1>1, <1>2, <1>3, <1>4, <1>5, <1>6, <1>7 DEF ReadTags

\* At p there is an element, and after it a list that goes on to e.
ElementAt(mode, b, p, e, d, K) ==
    LET L    == ElementLists(mode)
        key  == ReadCstring(b, p + 1)
        text == CstringText(b, p + 1)
    IN  /\ p < e /\ b[p + 1] # 0
        /\ key.err = "none" /\ text \notin K
        /\ \E v \in key.pos .. e :
               /\ ValueWith(L, b[p + 1], Span(b, key.pos, v), d, mode)
               /\ List(Span(b, v, e), d, Barred(K, text, mode)) \in L

\* The rule for a list that goes on from p to e.
LEMMA ListRule ==
    ASSUME NEW mode, NEW d \in Nat, NEW K \in SUBSET Seq(Byte),
           NEW b \in Seq(Byte), NEW p \in Nat, NEW e \in Nat, p <= e, e <= Len(b)
    PROVE  List(Span(b, p, e), d, K) \in ElementLists(mode) <=>
               p = e \/ ElementAt(mode, b, p, e, d, K)
<1> DEFINE L == ElementLists(mode)
           s == Span(b, p, e)
           key == ReadCstring(b, p + 1)
           text == CstringText(b, p + 1)
           from(q) == \E v \in q .. e :
                          /\ ValueWith(L, b[p + 1], Span(b, q, v), d, mode)
                          /\ List(Span(b, v, e), d, Barred(K, text, mode)) \in L
<1>1. /\ s \in Seq(Byte) /\ Len(s) = e - p
      /\ \A k \in 1 .. e - p : s[k] = b[p + k]
      /\ s = <<>> <=> p = e
  BY SpanFacts, ZenonT(60)
<1>2. Len(b) \in Nat /\ p + 1 \in Nat
  OBVIOUS
<1>3. List(s, d, K) \in L <=> s = <<>> \/ BeginsWithElement(L, List(s, d, K), mode)
  BY <1>1, ListType, ElementListRule
<1>4. BeginsWithElement(L, List(s, d, K), mode) <=>
          /\ s # <<>> /\ s[1] # 0
          /\ \E k \in 2 .. Len(s) :
                 /\ s[k] = 0 /\ IsCstring(SubSeq(s, 2, k)) /\ SubSeq(s, 2, k - 1) \notin K
                 /\ \E w \in k .. Len(s) :
                        /\ ValueWith(L, s[1], SubSeq(s, k + 1, w), d, mode)
                        /\ List(After(s, w), d, Barred(K, SubSeq(s, 2, k - 1), mode)) \in L
  <2> DEFINE x == List(s, d, K)
  <2>1. x.text = s /\ x.depth = d /\ x.barred = K
    BY <1>1, ListType
  <2> HIDE DEF x, s, L
  <2> QED BY <2>1 DEF BeginsWithElement, Barred, x
<1>5. CASE p = e
  BY <1>1, <1>3, <1>5
<1>6. CASE p # e
  <2>0. ElementAt(mode, b, p, e, d, K) <=>
            /\ p < e /\ b[p + 1] # 0 /\ key.err = "none" /\ text \notin K
            /\ from(key.pos)
    BY DEF ElementAt
  <2>1. p < e /\ 1 \in 1 .. e - p /\ s[1] = b[p + 1] /\ s # <<>>
    BY <1>1, <1>6
  <2>2. ASSUME NEW k \in 2 .. Len(s)
        PROVE  /\ p + k \in Nat /\ p + k \in p + 2 .. e
               /\ IsCstring(SubSeq(s, 2, k)) <=> key = Ok(p + k)
               /\ key = Ok(p + k) => SubSeq(s, 2, k - 1) = text /\ s[k] = 0
    <3>1. /\ k \in Nat /\ k - 1 \in Nat /\ k <= e - p /\ k - 1 <= e - p
          /\ p + k \in Nat /\ p + k \in p + 2 .. e /\ p + 1 <= p + k /\ p + k <= Len(b)
          /\ 1 + 1 = 2 /\ p + (k - 1) = p + k - 1 /\ k \in 1 .. e - p /\ 1 \in Nat
      BY <1>1, <1>2
    <3>2. \A u, v \in Nat : v <= e - p => SubSeq(s, u + 1, v) = Span(b, p + u, p + v)
      BY SpanOfSpan
    <3>3. SubSeq(s, 2, k) = Span(b, p + 1, p + k)
      BY <3>1, <3>2
    <3>4. SubSeq(s, 2, k - 1) = Span(b, p + 1, p + k - 1)
      BY <3>1, <3>2
    <3>5. /\ IsCstring(Span(b, p + 1, p + k)) <=> key = Ok(p + k)
          /\ IsCstring(Span(b, p + 1, p + k)) => text = Span(b, p + 1, p + k - 1)
      BY <1>2, <3>1, CstringRule
    <3>6. ASSUME IsCstring(SubSeq(s, 2, k)) PROVE s[k] = 0
      <4>1. LET c == SubSeq(s, 2, k) IN c[Len(c)] = 0 /\ Len(c) = k - 1
        <5>1. Len(SubSeq(s, 2, k)) = k - 1
          BY <1>1, <3>1
        <5> QED BY <3>6, <5>1 DEF IsCstring
      <4>2. SubSeq(s, 2, k)[k - 1] = s[k]
        <5>1. k - 1 \in 1 .. k - 1 /\ 2 + (k - 1) - 1 = k /\ k - 2 + 1 = k - 1
          BY <3>1
        <5> QED BY <1>1, <3>1, <5>1
      <4> QED BY <4>1, <4>2
    <3> QED BY <3>1, <3>3, <3>4, <3>5, <3>6
  <2>3. ASSUME NEW k \in 2 .. Len(s), NEW w \in k .. Len(s)
        PROVE  /\ p + w \in p + k .. e
               /\ SubSeq(s, k + 1, w) = Span(b, p + k, p + w)
               /\ After(s, w) = Span(b, p + w, e)
    <3>1. k \in Nat /\ w \in Nat /\ w <= e - p /\ p + w \in p + k .. e
      BY <1>1
    <3>2. SubSeq(s, k + 1, w) = Span(b, p + k, p + w)
      <4>1. \A u, v \in Nat : v <= e - p => SubSeq(s, u + 1, v) = Span(b, p + u, p + v)
        BY SpanOfSpan
      <4> QED BY <3>1, <4>1
    <3>3. After(s, w) = Span(b, p + w, e)
      BY <3>1, BeforeAfter
    <3> QED BY <3>1, <3>2, <3>3
  <2> DEFINE Begins == \E k \in 2 .. Len(s) :
                         /\ s[k] = 0 /\ IsCstring(SubSeq(s, 2, k))
                         /\ SubSeq(s, 2, k - 1) \notin K
                         /\ \E w \in k .. Len(s) :
                                /\ ValueWith(L, s[1], SubSeq(s, k + 1, w), d, mode)
                                /\ List(After(s, w), d,
                                        Barred(K, SubSeq(s, 2, k - 1), mode)) \in L
             Reads == key.err = "none" /\ text \notin K /\ from(key.pos)
  <2>4. ASSUME Begins PROVE Reads
    <3>1. PICK k \in 2 .. Len(s) :
              /\ IsCstring(SubSeq(s, 2, k)) /\ SubSeq(s, 2, k - 1) \notin K
              /\ \E w \in k .. Len(s) :
                     /\ ValueWith(L, s[1], SubSeq(s, k + 1, w), d, mode)
                     /\ List(After(s, w), d, Barred(K, SubSeq(s, 2, k - 1), mode)) \in L
      BY <2>4
    <3>2. key = Ok(p + k) /\ SubSeq(s, 2, k - 1) = text
      BY <2>2, <3>1
    <3>3. PICK w \in k .. Len(s) :
              /\ ValueWith(L, s[1], SubSeq(s, k + 1, w), d, mode)
              /\ List(After(s, w), d, Barred(K, SubSeq(s, 2, k - 1), mode)) \in L
      BY <3>1
    <3>4. /\ p + w \in p + k .. e
          /\ ValueWith(L, b[p + 1], Span(b, p + k, p + w), d, mode)
          /\ List(Span(b, p + w, e), d, Barred(K, text, mode)) \in L
      BY <2>1, <2>3, <3>2, <3>3
    <3>5. key.err = "none" /\ key.pos = p + k
      BY <3>2 DEF Ok
    <3> HIDE DEF key, text, L, s
    <3> QED BY <3>1, <3>2, <3>4, <3>5
  <2>5. ASSUME Reads PROVE Begins
    <3>1. key.pos \in Nat /\ key.pos > p + 1 /\ key = Ok(key.pos)
      <4>1. key.err = "none"
        BY <2>5
      <4>2. key.pos \in p + 1 .. Len(b) /\ key.pos > p + 1
        BY <1>2, <4>1, CstringSound DEF Sound, DecodeErrors
      <4>3. key = Ok(key.pos)
        BY <4>1 DEF ReadCstring, Ok, Err
      <4> QED BY <1>2, <4>2, <4>3
    <3>2. PICK v \in key.pos .. e :
              /\ ValueWith(L, b[p + 1], Span(b, key.pos, v), d, mode)
              /\ List(Span(b, v, e), d, Barred(K, text, mode)) \in L
      BY <2>5
    <3> DEFINE k == key.pos - p
               w == v - p
    <3> HIDE DEF key, s
    <3>3. /\ k \in 2 .. Len(s) /\ w \in k .. Len(s) /\ p + k = key.pos /\ p + w = v
      BY <1>1, <3>1, <3>2, SMTT(30)
    <3> HIDE DEF k, w
    <3>4. /\ key = Ok(p + k)
      BY <3>1, <3>3
    <3>5. /\ s[k] = 0 /\ IsCstring(SubSeq(s, 2, k)) /\ SubSeq(s, 2, k - 1) = text
      BY <2>2, <3>3, <3>4 DEF key
    <3>6. /\ ValueWith(L, s[1], SubSeq(s, k + 1, w), d, mode)
          /\ List(After(s, w), d, Barred(K, SubSeq(s, 2, k - 1), mode)) \in L
      BY <2>1, <2>3, <3>2, <3>3, <3>5
    <3>7. SubSeq(s, 2, k - 1) \notin K
      BY <2>5, <3>5
    <3> HIDE DEF s, L
    <3> QED BY <3>3, <3>5, <3>6, <3>7
  <2> HIDE DEF Begins
  <2>6. Begins <=> Reads
    BY <2>4, <2>5
  <2>7. BeginsWithElement(L, List(s, d, K), mode) <=> s # <<>> /\ s[1] # 0 /\ Begins
    BY <1>4 DEF Begins
  <2> HIDE DEF s, L, key, text
  <2> QED BY <1>3, <1>6, <2>0, <2>1, <2>6, <2>7 DEF s, L, key, text
<1> QED BY <1>5, <1>6

\* No element begins with a NUL.
LEMMA ListStops ==
    ASSUME NEW mode, NEW d \in Nat, NEW K \in SUBSET Seq(Byte),
           NEW b \in Seq(Byte), NEW p \in Nat, NEW e \in Nat, p <= e, e <= Len(b),
           b[p + 1] = 0
    PROVE  List(Span(b, p, e), d, K) \in ElementLists(mode) <=> p = e
<1>1. List(Span(b, p, e), d, K) \in ElementLists(mode) <=>
          p = e \/ ElementAt(mode, b, p, e, d, K)
  BY ListRule
<1>2. ~ElementAt(mode, b, p, e, d, K)
  BY DEF ElementAt
<1> QED BY <1>1, <1>2

-----------------------------------------------------------------------------
(* What is left to be read of the active documents.  In the innermost one  *)
(* the elements go on at p; in each of the others they go on where the     *)
(* next one ends.  The document at `start` is one of the grammar just when *)
(* all that is left of it is, and each step of the walk turns the question *)
(* into an equivalent one about less.                                      *)

\* The elements of the document f go on from p to its end.
GoesOn(mode, b, f, d, p) ==
    /\ p <= f.end - 1 /\ b[f.end] = 0
    /\ List(Span(b, p, f.end - 1), d, f.seen) \in ElementLists(mode)

Rest(mode, b, stack, p) ==
    \A i \in 1 .. Len(stack) :
        GoesOn(mode, b, stack[i], i - 1, IF i = Len(stack) THEN p ELSE stack[i + 1].end)

Acceptable ==
    \/ /\ pc = "enter"
       /\ \E e \in pos .. Len(buf) :
              /\ DocumentWith(ElementLists(Mode), Span(buf, pos, e), Len(frames), Mode)
              /\ Rest(Mode, buf, frames, e)
    \/ /\ pc = "value"
       /\ \E e \in pos .. Len(buf) :
              /\ ValueWith(ElementLists(Mode), tag, Span(buf, pos, e), Len(frames) - 1, Mode)
              /\ Rest(Mode, buf, frames, e)
    \/ pc \in {"element", "after"} /\ Rest(Mode, buf, frames, pos)
    \/ pc = "done" /\ verdict \in {"ok", "trailing-bytes"}

\* Keys are collected only where they are compared.
KeysKept == ~Mode.distinct => \A i \in 1 .. Len(frames) : frames[i].seen = {}

\* Trailing bytes are seen only after the whole document.
Trailing ==
    verdict = "trailing-bytes" => entry = "validate" /\ Whole(pos) /\ pos # Len(buf)

GInv == IInv /\ KeysKept /\ Trailing

AInv == GInv /\ (Acceptable <=> IsDocumentAt(buf, start))

LEMMA ModeFacts ==
    /\ Mode.nesting = MaxNesting /\ ~Mode.strict /\ (Mode.distinct <=> entry = "validate")
BY DEF Mode

LEMMA ModeStays == entry' = entry => Mode' = Mode
BY DEF Mode

\* The document on top of a stack, and the ones below it.
LEMMA RestStack ==
    ASSUME NEW mode, NEW b, NEW p,
           NEW below \in Seq(Frame), NEW top, NEW stack \in Seq(Frame),
           Len(stack) = Len(below) + 1, stack[Len(below) + 1] = top,
           \A i \in 1 .. Len(below) : stack[i] = below[i]
    PROVE  Rest(mode, b, stack, p) <=>
               /\ GoesOn(mode, b, top, Len(below), p)
               /\ Rest(mode, b, below, top.end)
<1> DEFINE n == Len(below)
           at(i) == GoesOn(mode, b, stack[i], i - 1, IF i = n + 1 THEN p ELSE stack[i + 1].end)
<1>1. n \in Nat
  OBVIOUS
<1>2. Rest(mode, b, stack, p) <=> \A i \in 1 .. n + 1 : at(i)
  BY DEF Rest
<1>3. at(n + 1) <=> GoesOn(mode, b, top, n, p)
  <2>1. n + 1 - 1 = n
    BY <1>1
  <2> QED BY <2>1
<1>4. ASSUME NEW i \in 1 .. n
      PROVE  at(i) <=> GoesOn(mode, b, below[i], i - 1,
                            IF i = n THEN top.end ELSE below[i + 1].end)
  <2>1. stack[i] = below[i] /\ i # n + 1
    BY <1>1
  <2>2. CASE i = n
    BY <2>1, <2>2
  <2>3. CASE i # n
    <3>1. i + 1 \in 1 .. n
      BY <1>1, <2>3
    <3>2. stack[i + 1] = below[i + 1]
      BY <3>1
    <3> QED BY <2>1, <2>3, <3>2
  <2> QED BY <2>2, <2>3
<1>5. Rest(mode, b, below, top.end) <=> \A i \in 1 .. n : at(i)
  <2> HIDE DEF at
  <2> QED BY <1>4 DEF Rest
<1> HIDE DEF at
<1>6. (\A i \in 1 .. n + 1 : at(i)) <=> at(n + 1) /\ \A i \in 1 .. n : at(i)
  <2>1. \A i : i \in 1 .. n + 1 <=> i \in 1 .. n \/ i = n + 1
    BY <1>1
  <2> QED BY <2>1
<1> QED BY <1>2, <1>3, <1>5, <1>6

\* What the invariant says of the state and of the innermost document.
LEMMA StateFacts ==
    ASSUME IInv
    PROVE  /\ buf \in Seq(Byte) /\ Len(buf) \in Nat /\ pos \in Nat /\ pos <= Len(buf)
           /\ frames \in Seq(Frame) /\ Len(frames) \in Nat
           /\ start \in Nat /\ start <= Len(buf)
BY DEF IInv, TypeOK, Frame

LEMMA TopFacts ==
    ASSUME IInv, frames # <<>>
    PROVE  /\ Top \in Frame /\ Top = frames[Len(frames)] /\ Top.end \in Nat
           /\ Top.end <= Len(buf) /\ Top.seen \in SUBSET Seq(Byte)
           /\ Front(frames) \in Seq(Frame) /\ Len(Front(frames)) = Len(frames) - 1
           /\ \A i \in 1 .. Len(frames) - 1 : Front(frames)[i] = frames[i]
           /\ Len(frames) - 1 \in Nat /\ Len(frames) \in 1 .. Len(frames)
<1>1. frames \in Seq(Frame)
  BY StateFacts
<1>2. /\ Front(frames) \in Seq(Frame) /\ Len(Front(frames)) = Len(frames) - 1
      /\ \A i \in 1 .. Len(frames) - 1 : Front(frames)[i] = frames[i]
      /\ Last(frames) = frames[Len(frames)] /\ Len(frames) \in Nat \ {0}
  BY <1>1, FrontFacts
<1>3. Len(frames) - 1 \in Nat /\ Len(frames) \in 1 .. Len(frames)
  BY <1>2
<1>4. frames[Len(frames)] \in Frame /\ frames[Len(frames)].end <= Len(buf)
  BY <1>1, <1>3 DEF IInv
<1> QED BY <1>2, <1>3, <1>4 DEF Top, Frame

LEMMA RestTop ==
    ASSUME IInv, frames # <<>>, NEW p
    PROVE  Rest(Mode, buf, frames, p) <=>
               /\ GoesOn(Mode, buf, Top, Len(frames) - 1, p)
               /\ Rest(Mode, buf, Front(frames), Top.end)
<1>1. /\ Front(frames) \in Seq(Frame) /\ Len(Front(frames)) = Len(frames) - 1
      /\ \A i \in 1 .. Len(frames) - 1 : Front(frames)[i] = frames[i]
      /\ Top = frames[Len(frames)] /\ Len(frames) - 1 \in Nat /\ frames \in Seq(Frame)
  BY TopFacts, StateFacts
<1>2. Len(frames) - 1 + 1 = Len(frames) /\ Len(Front(frames)) + 1 = Len(frames)
  BY <1>1
<1>3. /\ frames[Len(Front(frames)) + 1] = Top
      /\ \A i \in 1 .. Len(Front(frames)) : frames[i] = Front(frames)[i]
  BY <1>1, <1>2
<1> QED BY <1>1, <1>2, <1>3, RestStack

\* A rejected document is not accepted.
LEMMA Lost ==
    ASSUME NEW kind, kind \notin {"ok", "trailing-bytes"}, Reject(kind)
    PROVE  ~Acceptable'
BY DEF Reject, Acceptable

LEMMA EnterAccept ==
    ASSUME GInv, EnterDocument
    PROVE  Acceptable' <=> Acceptable
<1> DEFINE n == I32At(buf, pos)
           d == Len(frames)
           inside(e) == List(Span(buf, pos + 4, e - 1), d, {}) \in ElementLists(Mode)
           doc(e) == DocumentWith(ElementLists(Mode), Span(buf, pos, e), d, Mode)
           rest(e) == Rest(Mode, buf, frames, e)
<1>1. /\ buf \in Seq(Byte) /\ Len(buf) \in Nat /\ pos \in Nat /\ pos <= Len(buf)
      /\ frames \in Seq(Frame) /\ d \in Nat /\ pc = "enter" /\ MaxNesting \in Nat
  BY StateFacts, NestingAssumption DEF GInv, EnterDocument
<1>2. Acceptable <=> \E e \in pos .. Len(buf) : doc(e) /\ rest(e)
  BY <1>1 DEF Acceptable
<1>3. ASSUME NEW e \in pos .. Len(buf)
      PROVE  doc(e) <=> /\ d <= MaxNesting /\ HasI32(buf, pos) /\ n >= 5 /\ e = pos + n
                        /\ buf[e] = 0 /\ inside(e)
  <2>1. e \in Nat /\ pos <= e /\ e <= Len(buf)
    BY <1>1
  <2> QED BY <1>1, <2>1, DocumentRule, ModeFacts
<1> HIDE DEF doc
<1>4. CASE TooDeep(Depth) \/ ~HasI32(buf, pos)
  <2>1. ~Acceptable
    <3>1. ~(d <= MaxNesting) \/ ~HasI32(buf, pos)
      BY <1>1, <1>4 DEF TooDeep, Depth
    <3> QED BY <1>2, <1>3, <3>1
  <2>2. ~Acceptable'
    BY <1>4, Lost DEF EnterDocument
  <2> QED BY <2>1, <2>2
<1>5. CASE ~TooDeep(Depth) /\ HasI32(buf, pos)
  <2>1. n \in Int
    BY <1>1, <1>5, I32IsInt
  <2>2. d <= MaxNesting
    BY <1>1, <1>5 DEF TooDeep, Depth
  <2>3. CASE n < 5 \/ DocOverruns(pos)
    <3>1. ~Acceptable'
      BY <1>5, <2>3, Lost DEF EnterDocument
    <3>2. ASSUME NEW e \in pos .. Len(buf), n >= 5, e = pos + n PROVE FALSE
      <4>1. ~(n < 5) /\ ~(n > Len(buf) - pos)
        <5> HIDE DEF n
        <5> QED BY <1>1, <2>1, <3>2
      <4> QED BY <2>3, <4>1 DEF DocOverruns
    <3>3. ~Acceptable
      BY <1>2, <1>3, <3>2
    <3> QED BY <3>1, <3>3
  <2>4. CASE ~(n < 5 \/ DocOverruns(pos))
    <3> DEFINE E == pos + n
               f == [start |-> pos, end |-> E, seen |-> {}]
    <3>1. PushDocument
      BY <1>5, <2>4 DEF EnterDocument
    <3>2. frames' = Append(frames, f) /\ pos' = pos + 4 /\ pc' = "element"
          /\ buf' = buf /\ Mode' = Mode
      BY <3>1, ModeStays DEF PushDocument, input
    <3>3. n >= 5 /\ E \in pos .. Len(buf) /\ E \in Nat /\ pos + 4 <= E - 1
      <4>1. ~(n < 5) /\ ~(n > Len(buf) - pos)
        BY <2>4 DEF DocOverruns
      <4> HIDE DEF n
      <4> QED BY <1>1, <2>1, <4>1
    <3>4. Acceptable <=> buf[E] = 0 /\ inside(E) /\ rest(E)
      <4> HIDE DEF inside, rest
      <4>1. \A e \in pos .. Len(buf) : doc(e) <=> e = E /\ buf[e] = 0 /\ inside(e)
        BY <1>3, <1>5, <2>2, <3>3
      <4> HIDE DEF E
      <4> QED BY <1>2, <3>3, <4>1
    <3>5. f \in Frame /\ f.end = E /\ f.seen = {}
      BY <1>1, <3>3 DEF Frame
    <3> HIDE DEF f, n
    <3>6. Rest(Mode, buf, frames', pos + 4) <=> GoesOn(Mode, buf, f, d, pos + 4) /\ rest(E)
      <4>1. /\ frames' \in Seq(Frame) /\ Len(frames') = Len(frames) + 1
            /\ frames'[Len(frames) + 1] = f
            /\ \A i \in 1 .. Len(frames) : frames'[i] = frames[i]
        BY <1>1, <3>2, <3>5
      <4> QED BY <1>1, <3>5, <4>1, RestStack
    <3>7. GoesOn(Mode, buf, f, d, pos + 4) <=> buf[E] = 0 /\ inside(E)
      BY <3>3, <3>5 DEF GoesOn
    <3>8. Acceptable' <=> Rest(Mode, buf, frames', pos + 4)
      BY <3>2 DEF Acceptable
    <3> HIDE DEF inside, rest, E
    <3> QED BY <3>4, <3>6, <3>7, <3>8
  <2> QED BY <2>3, <2>4
<1> QED BY <1>4, <1>5

\* The elements of the innermost document go on at the cursor.
LEMMA ElementAcceptable ==
    ASSUME IInv, pc = "element"
    PROVE  /\ frames # <<>>
           /\ Acceptable <=> /\ GoesOn(Mode, buf, Top, Len(frames) - 1, pos)
                             /\ Rest(Mode, buf, Front(frames), Top.end)
<1>1. frames # <<>>
  BY DEF IInv
<1>2. Acceptable <=> Rest(Mode, buf, frames, pos)
  BY DEF Acceptable
<1> QED BY <1>1, <1>2, RestTop

LEMMA OverrunAccept ==
    ASSUME GInv, ElementOverrun
    PROVE  Acceptable' <=> Acceptable
<1>1. IInv /\ pc = "element" /\ pos >= Top.end /\ ~Acceptable'
  BY Lost DEF GInv, ElementOverrun, BodyExhausted
<1>2. frames # <<>> /\ pos \in Nat
  BY <1>1, ElementAcceptable, StateFacts
<1>3. ~(pos <= Top.end - 1)
  BY <1>1, <1>2, TopFacts
<1> QED BY <1>1, <1>3, ElementAcceptable DEF GoesOn

LEMMA EndAccept ==
    ASSUME GInv, EndDocument
    PROVE  Acceptable' <=> Acceptable
<1> DEFINE d == Len(frames) - 1
<1>1. IInv /\ pc = "element" /\ ~(pos >= Top.end) /\ buf[pos + 1] = 0
  BY DEF GInv, EndDocument, BodyExhausted, TypeByte
<1>2. /\ frames # <<>> /\ pos \in Nat /\ buf \in Seq(Byte) /\ Len(buf) \in Nat
      /\ pos <= Len(buf)
  BY <1>1, ElementAcceptable, StateFacts
<1>3. Top.end \in Nat /\ Top.end <= Len(buf) /\ Top.seen \in SUBSET Seq(Byte) /\ d \in Nat
  BY <1>1, <1>2, TopFacts
<1>4. Top.end - 1 \in Nat /\ pos <= Top.end - 1 /\ Top.end - 1 <= Len(buf)
  BY <1>1, <1>2, <1>3
<1>5. List(Span(buf, pos, Top.end - 1), d, Top.seen) \in ElementLists(Mode)
      <=> pos = Top.end - 1
  <2>1. ASSUME NEW K \in SUBSET Seq(Byte), NEW e \in Nat, pos <= e, e <= Len(buf)
        PROVE  List(Span(buf, pos, e), d, K) \in ElementLists(Mode) <=> pos = e
    BY <1>1, <1>2, <1>3, <2>1, ListStops
  <2> QED BY <1>3, <1>4, <2>1
<1>6. pos = Top.end - 1 <=> pos + 1 = Top.end
  BY <1>2, <1>3
<1>7. GoesOn(Mode, buf, Top, d, pos) <=> pos + 1 = Top.end
  BY <1>1, <1>4, <1>5, <1>6 DEF GoesOn
<1>8. CASE pos + 1 # Top.end
  <2>1. ~Acceptable'
    BY <1>8, Lost DEF EndDocument
  <2> QED BY <1>1, <1>7, <1>8, <2>1, ElementAcceptable
<1>9. CASE pos + 1 = Top.end
  <2>1. /\ frames' = Front(frames) /\ pos' = Top.end /\ pc' = "after"
        /\ buf' = buf /\ Mode' = Mode
    BY <1>9, ModeStays DEF EndDocument, Pop, input
  <2>2. Acceptable' <=> Rest(Mode, buf, Front(frames), Top.end)
    BY <2>1 DEF Acceptable
  <2> QED BY <1>1, <1>7, <1>9, <2>2, ElementAcceptable
<1> QED BY <1>8, <1>9

LEMMA KeyOnTop ==
    ASSUME IInv, frames # <<>>, NEW key \in Seq(Byte)
    PROVE  LET n == Len(frames) IN
           /\ WithKey(key) \in Seq(Frame) /\ Len(WithKey(key)) = n
           /\ WithKey(key)[n].end = Top.end
           /\ WithKey(key)[n].seen = Barred(Top.seen, key, Mode)
           /\ \A i \in 1 .. n - 1 : WithKey(key)[i] = frames[i]
<1> DEFINE n == Len(frames)
           keys == IF ChecksDupes THEN frames[n].seen \cup {key} ELSE frames[n].seen
           top == [frames[n] EXCEPT !.seen = keys]
<1>1. frames \in Seq(Frame) /\ n \in 1 .. n /\ n \in Nat /\ Top = frames[n] /\ Top \in Frame
  BY StateFacts, TopFacts
<1>2. WithKey(key) = [frames EXCEPT ![n] = top]
  BY DEF WithKey, Depth
<1>3. keys = Barred(Top.seen, key, Mode)
  BY <1>1, ModeFacts DEF Barred, ChecksDupes
<1> HIDE DEF keys
<1>4. top.end = Top.end /\ top.seen = keys
  BY <1>1 DEF Frame
<1> HIDE DEF top
<1>5. WithKey(key)[n] = top /\ \A i \in 1 .. n - 1 : WithKey(key)[i] = frames[i]
  BY <1>1, <1>2
<1> QED BY <1>1, <1>3, <1>4, <1>5, WithKeyFacts

\* The key, and after it a value and the rest of the list.
LEMMA KeyAccept ==
    ASSUME GInv, ReadKey
    PROVE  Acceptable' <=> Acceptable
<1> DEFINE d == Len(frames) - 1
           last == Top.end - 1
           key == ReadCstring(buf, pos + 1)
           text == CstringText(buf, pos + 1)
           below == Rest(Mode, buf, Front(frames), Top.end)
           follows(q) == \E v \in q .. last :
                            /\ ValueWith(ElementLists(Mode), buf[pos + 1], Span(buf, q, v), d, Mode)
                            /\ List(Span(buf, v, last), d, Barred(Top.seen, text, Mode))
                                   \in ElementLists(Mode)
<1>1. IInv /\ pc = "element" /\ ~(pos >= Top.end) /\ buf[pos + 1] # 0
  BY DEF GInv, ReadKey, BodyExhausted, TypeByte
<1>2. /\ frames # <<>> /\ pos \in Nat /\ pos + 1 \in Nat /\ buf \in Seq(Byte)
      /\ Len(buf) \in Nat /\ pos <= Len(buf)
  BY <1>1, ElementAcceptable, StateFacts
<1>3. Top.end \in Nat /\ Top.end <= Len(buf) /\ Top.seen \in SUBSET Seq(Byte) /\ d \in Nat
  BY <1>1, <1>2, TopFacts
<1>4. last \in Nat /\ pos <= last /\ last <= Len(buf) /\ last + 1 = Top.end
      /\ last < Len(buf)
  BY <1>1, <1>2, <1>3
<1>5. GoesOn(Mode, buf, Top, d, pos) <=>
          /\ buf[Top.end] = 0 /\ pos < last
          /\ key.err = "none" /\ text \notin Top.seen /\ follows(key.pos)
  <2>1. List(Span(buf, pos, last), d, Top.seen) \in ElementLists(Mode) <=>
            pos = last \/ ElementAt(Mode, buf, pos, last, d, Top.seen)
    <3> HIDE DEF d, last
    <3> QED BY <1>2, <1>3, <1>4, ListRule
  <2>2. ElementAt(Mode, buf, pos, last, d, Top.seen) <=>
            pos < last /\ key.err = "none" /\ text \notin Top.seen /\ follows(key.pos)
    BY <1>1 DEF ElementAt
  <2>3. pos = last => buf[Top.end] # 0
    BY <1>1, <1>4
  <2> HIDE DEF follows, key, text, d
  <2> QED BY <1>4, <2>1, <2>2, <2>3 DEF GoesOn
<1> HIDE DEF follows
<1>6. Acceptable <=> GoesOn(Mode, buf, Top, d, pos) /\ below
  BY <1>1, ElementAcceptable
<1>7. CASE key.err # "none"
  <2>1. key.err \notin {"ok", "trailing-bytes"}
    BY DEF ReadCstring, Ok, Err
  <2>2. Reject(key.err)
    BY <1>7 DEF ReadKey
  <2> HIDE DEF key
  <2> QED BY <1>5, <1>6, <1>7, <2>1, <2>2, Lost
<1>8. CASE key.err = "none" /\ IsDuplicate(text)
  <2>1. Reject("duplicate-key") /\ text \in Top.seen
    BY <1>8 DEF ReadKey, IsDuplicate
  <2> HIDE DEF text, key
  <2> QED BY <1>5, <1>6, <2>1, Lost
<1>9. CASE key.err = "none" /\ ~IsDuplicate(text)
  <2>1. /\ pos' = key.pos /\ frames' = WithKey(text) /\ tag' = buf[pos + 1] /\ pc' = "value"
        /\ buf' = buf /\ Mode' = Mode
    BY <1>9, ModeStays DEF ReadKey, TypeByte, input
  <2>2. text \in Seq(Byte) /\ key.pos > pos + 1 /\ key.pos \in Nat
    BY <1>2, <1>9, CstringSound DEF Sound, DecodeErrors
  <2>3. text \notin Top.seen
    <3>1. CASE ChecksDupes
      BY <1>9, <3>1 DEF IsDuplicate
    <3>2. CASE ~ChecksDupes
      <4>1. Top.seen = {}
        BY <1>1, <1>2, <3>2, ModeFacts, TopFacts DEF GInv, KeysKept, ChecksDupes
      <4> QED BY <4>1
    <3> QED BY <3>1, <3>2
  <2> HIDE DEF text, key
  <2>4. /\ frames' \in Seq(Frame) /\ Len(frames') = Len(frames)
        /\ frames'[Len(frames)].end = Top.end
        /\ frames'[Len(frames)].seen = Barred(Top.seen, text, Mode)
        /\ \A i \in 1 .. Len(frames) - 1 : frames'[i] = frames[i]
    BY <1>1, <1>2, <2>1, <2>2, KeyOnTop
  <2> DEFINE top == frames'[Len(frames)]
  <2>5. ASSUME NEW v
        PROVE  Rest(Mode, buf, frames', v) <=> GoesOn(Mode, buf, top, d, v) /\ below
    <3>1. /\ Front(frames) \in Seq(Frame) /\ Len(Front(frames)) = d
          /\ \A i \in 1 .. d : Front(frames)[i] = frames[i]
          /\ d + 1 = Len(frames)
      BY <1>1, <1>2, <1>3, TopFacts
    <3>2. /\ Len(frames') = Len(Front(frames)) + 1 /\ frames'[Len(Front(frames)) + 1] = top
          /\ \A i \in 1 .. Len(Front(frames)) : frames'[i] = Front(frames)[i]
      BY <2>4, <3>1
    <3> HIDE DEF top
    <3>3. Rest(Mode, buf, frames', v) <=>
              GoesOn(Mode, buf, top, Len(Front(frames)), v)
              /\ Rest(Mode, buf, Front(frames), top.end)
      BY <2>4, <3>1, <3>2, RestStack
    <3> QED BY <2>4, <3>1, <3>3 DEF top
  <2>6. Acceptable' <=>
            \E v \in key.pos .. Len(buf) :
                /\ ValueWith(ElementLists(Mode), buf[pos + 1], Span(buf, key.pos, v), d, Mode)
                /\ GoesOn(Mode, buf, top, d, v) /\ below
    <3>1. Acceptable' <=>
              \E v \in key.pos .. Len(buf) :
                  /\ ValueWith(ElementLists(Mode), buf[pos + 1], Span(buf, key.pos, v),
                               Len(frames') - 1, Mode)
                  /\ Rest(Mode, buf, frames', v)
      BY <2>1 DEF Acceptable
    <3>2. Len(frames') - 1 = d
      BY <2>4
    <3> HIDE DEF below, d, top
    <3> QED BY <2>5, <3>1, <3>2
  <2>7. ASSUME NEW v
        PROVE  GoesOn(Mode, buf, top, d, v) <=>
                   /\ v <= last /\ buf[Top.end] = 0
                   /\ List(Span(buf, v, last), d, Barred(Top.seen, text, Mode))
                          \in ElementLists(Mode)
    BY <2>4 DEF GoesOn
  <2>8. (\E v \in key.pos .. Len(buf) :
             /\ ValueWith(ElementLists(Mode), buf[pos + 1], Span(buf, key.pos, v), d, Mode)
             /\ GoesOn(Mode, buf, top, d, v) /\ below)
        <=> buf[Top.end] = 0 /\ follows(key.pos) /\ below
    <3>1. \A v : v \in key.pos .. last <=> v \in key.pos .. Len(buf) /\ v <= last
      <4> HIDE DEF last
      <4> QED BY <1>2, <1>4, <2>2
    <3> HIDE DEF below, d, top, last
    <3> QED BY <2>7, <3>1 DEF follows
  <2>9. follows(key.pos) => pos < last
    <3> SUFFICES ASSUME NEW v \in key.pos .. last PROVE pos < last
      BY DEF follows
    <3> HIDE DEF last
    <3> QED BY <1>2, <1>4, <2>2
  <2> HIDE DEF below, d, top, last
  <2> QED BY <1>5, <1>6, <1>9, <2>3, <2>6, <2>8, <2>9
<1> QED BY <1>7, <1>8, <1>9

-----------------------------------------------------------------------------
(* Values.                                                                 *)

LEMMA ValueAcceptable ==
    ASSUME pc = "value"
    PROVE  Acceptable <=>
               \E e \in pos .. Len(buf) :
                   /\ ValueWith(ElementLists(Mode), tag, Span(buf, pos, e), Len(frames) - 1, Mode)
                   /\ Rest(Mode, buf, frames, e)
BY DEF Acceptable

\* the types whose values are read in one call, in numbers
LEMMA ReadTagsAre ==
    ReadTags = {1, 2, 5, 6, 7, 8, 9, 10, 11, 12, 13, 14, 16, 17, 18, 19, 127, 255}
<1>1. DOMAIN FixedSize = {1, 6, 7, 9, 10, 16, 17, 18, 19, 127, 255}
  BY Tags
<1>2. StringTags = {2, 13, 14}
  BY Tags
<1> QED BY <1>1, <1>2 DEF ReadTags

LEMMA ReadAccept ==
    ASSUME GInv, Value, tag \in ReadTags
    PROVE  Acceptable' <=> Acceptable
<1> DEFINE r == Reading(buf, tag, pos)
           d == Len(frames) - 1
<1>1. pc = "value" /\ Consume(r) /\ IInv
  BY ReadsValue DEF GInv
<1>2. buf \in Seq(Byte) /\ Len(buf) \in Nat /\ pos \in Nat /\ pos <= Len(buf)
      /\ pos \in 0 .. Len(buf)
  BY <1>1, StateFacts
<1>3. ASSUME NEW e \in pos .. Len(buf)
      PROVE  ValueWith(ElementLists(Mode), tag, Span(buf, pos, e), d, Mode) <=> r = Ok(e)
  <2>1. tag \notin {3, 4} /\ tag # 15
    BY ReadTagsAre
  <2>2. e \in Nat /\ pos <= e /\ e <= Len(buf)
    BY <1>2
  <2>3. IsPlainValue(tag, Span(buf, pos, e)) <=> r = Ok(e)
    BY <1>2, <2>2, PlainRule
  <2> HIDE DEF r, d
  <2> QED BY <2>1, <2>3 DEF ValueWith
<1>4. Acceptable <=> \E e \in pos .. Len(buf) : r = Ok(e) /\ Rest(Mode, buf, frames, e)
  <2> HIDE DEF r
  <2> QED BY <1>1, <1>3, ValueAcceptable
<1>5. /\ r.err \notin {"ok", "trailing-bytes"}
      /\ r.err = "none" => r = Ok(r.pos) /\ r.pos \in pos .. Len(buf)
  <2>1. Sound(r, buf, pos)
    BY <1>2, ReadingSound
  <2> QED BY <2>1, ReadingResult DEF Sound, DecodeErrors
<1> HIDE DEF r
<1>6. CASE r.err # "none"
  <2>1. ~Acceptable'
    BY <1>1, <1>5, <1>6, Lost DEF Consume
  <2>2. \A e : r # Ok(e)
    BY <1>6 DEF Ok
  <2> QED BY <1>4, <2>1, <2>2
<1>7. CASE r.err = "none"
  <2>1. pos' = r.pos /\ pc' = "after" /\ frames' = frames /\ buf' = buf /\ Mode' = Mode
    BY <1>1, <1>7, ModeStays DEF Consume, input
  <2>2. Acceptable' <=> Rest(Mode, buf, frames, r.pos)
    BY <2>1 DEF Acceptable
  <2>3. \A e : r = Ok(e) => e = r.pos
    BY DEF Ok
  <2> QED BY <1>4, <1>5, <1>7, <2>2, <2>3
<1> QED BY <1>6, <1>7

LEMMA DocumentAccept ==
    ASSUME GInv, DocumentValue
    PROVE  Acceptable' <=> Acceptable
<1>1. /\ pc = "value" /\ tag \in {3, 4} /\ pc' = "enter" /\ pos' = pos /\ frames' = frames
      /\ buf' = buf /\ Mode' = Mode /\ IInv
  BY ModeStays, Tags DEF DocumentValue, GInv, input
<1>2. Len(frames) - 1 + 1 = Len(frames)
  BY <1>1, StateFacts
<1>3. ASSUME NEW e \in pos .. Len(buf)
      PROVE  ValueWith(ElementLists(Mode), tag, Span(buf, pos, e), Len(frames) - 1, Mode)
             <=> DocumentWith(ElementLists(Mode), Span(buf, pos, e), Len(frames), Mode)
  <2>1. tag \notin ReadTags /\ tag # 15
    BY <1>1, ReadTagsAre, Tags
  <2>2. e \in Nat /\ pos <= e /\ e <= Len(buf) /\ buf \in Seq(Byte) /\ pos \in Nat
    BY <1>1, StateFacts
  <2>3. ~IsPlainValue(tag, Span(buf, pos, e))
    BY <2>1, <2>2, PlainRule
  <2> QED BY <1>1, <1>2, <2>1, <2>3 DEF ValueWith
<1>4. Acceptable' <=> \E e \in pos .. Len(buf) :
                          /\ DocumentWith(ElementLists(Mode), Span(buf, pos, e), Len(frames), Mode)
                          /\ Rest(Mode, buf, frames, e)
  BY <1>1 DEF Acceptable
<1> QED BY <1>1, <1>3, <1>4, ValueAcceptable

LEMMA ScopeAccept ==
    ASSUME GInv, CodeWithScopeValue
    PROVE  Acceptable' <=> Acceptable
<1> DEFINE code == ReadString(buf, pos + 4)
           doc(q, e) == DocumentWith(ElementLists(Mode), Span(buf, q, e), Len(frames), Mode)
           rest(e) == Rest(Mode, buf, frames, e)
<1>1. pc = "value" /\ tag = 15 /\ IInv
  BY DEF CodeWithScopeValue, GInv
<1>2. /\ buf \in Seq(Byte) /\ Len(buf) \in Nat /\ pos \in Nat /\ pos <= Len(buf)
      /\ Len(frames) - 1 + 1 = Len(frames) /\ pos + 4 \in Nat
  BY <1>1, StateFacts
<1>3. ASSUME NEW e \in pos .. Len(buf)
      PROVE  ValueWith(ElementLists(Mode), tag, Span(buf, pos, e), Len(frames) - 1, Mode) <=>
                 /\ HasI32(buf, pos) /\ I32At(buf, pos) >= 0
                 /\ \E q \in pos + 4 .. e : code = Ok(q) /\ doc(q, e)
  <2>1. e \in Nat /\ pos <= e /\ e <= Len(buf)
    BY <1>2
  <2>2. ~IsPlainValue(tag, Span(buf, pos, e))
    <3>1. tag \notin ReadTags
      BY <1>1, ReadTagsAre, Tags
    <3> QED BY <1>2, <2>1, <3>1, PlainRule
  <2>3. CodeWithScopeWith(ElementLists(Mode), Span(buf, pos, e), Len(frames) - 1, Mode) <=>
            /\ HasI32(buf, pos) /\ I32At(buf, pos) >= 0
            /\ \E q \in pos + 4 .. e :
                   /\ code = Ok(q)
                   /\ DocumentWith(ElementLists(Mode), Span(buf, q, e), Len(frames) - 1 + 1, Mode)
    <3>1. Len(frames) - 1 \in Nat
      BY <1>1, TopFacts DEF IInv
    <3> QED BY <1>2, <2>1, <3>1, ModeFacts, ScopeRule
  <2> QED BY <1>1, <1>2, <2>2, <2>3 DEF ValueWith
<1>4. Acceptable <=>
          /\ HasI32(buf, pos) /\ I32At(buf, pos) >= 0
          /\ \E e \in pos .. Len(buf) :
                 (\E q \in pos + 4 .. e : code = Ok(q) /\ doc(q, e)) /\ rest(e)
  <2> HIDE DEF code, doc, rest
  <2>1. Acceptable <=>
            \E e \in pos .. Len(buf) :
                /\ ValueWith(ElementLists(Mode), tag, Span(buf, pos, e), Len(frames) - 1, Mode)
                /\ rest(e)
    BY <1>1, ValueAcceptable DEF rest
  <2> QED BY <1>3, <2>1
<1>5. CASE ~HasI32(buf, pos) \/ I32At(buf, pos) < 0
  <2>1. ~Acceptable'
    BY <1>5, Lost DEF CodeWithScopeValue
  <2>2. ~(HasI32(buf, pos) /\ I32At(buf, pos) >= 0)
    BY <1>2, <1>5, I32IsInt
  <2> HIDE DEF code, doc, rest
  <2> QED BY <1>4, <2>1, <2>2
<1>6. CASE HasI32(buf, pos) /\ ~(I32At(buf, pos) < 0)
  <2>1. I32At(buf, pos) >= 0
    BY <1>2, <1>6, I32IsInt
  <2>2. /\ code.err \notin {"ok", "trailing-bytes"}
        /\ code.err = "none" => code = Ok(code.pos)
    BY DEF ReadString, StringBody, Ok, Err
  <2>3. CASE code.err # "none"
    <3>1. ~Acceptable'
      BY <1>6, <2>2, <2>3, Lost DEF CodeWithScopeValue
    <3> HIDE DEF code, doc, rest
    <3>2. \A q : code # Ok(q)
      BY <2>3 DEF Ok
    <3> QED BY <1>4, <3>1, <3>2
  <2>4. CASE code.err = "none"
    <3>1. /\ pos' = code.pos /\ pc' = "enter" /\ frames' = frames /\ buf' = buf
          /\ Mode' = Mode
      BY <1>6, <2>4, ModeStays DEF CodeWithScopeValue, input
    <3>2. code.pos \in pos + 4 .. Len(buf)
      BY <1>2, <2>4, StringSound DEF Sound, DecodeErrors
    <3>3. Acceptable' <=> \E e \in code.pos .. Len(buf) : doc(code.pos, e) /\ rest(e)
      BY <3>1 DEF Acceptable
    <3> HIDE DEF code, doc, rest
    <3>4. \A q : code = Ok(q) <=> q = code.pos
      BY <2>2, <2>4 DEF Ok
    <3>5. \A e : e \in code.pos .. Len(buf) <=>
                     e \in pos .. Len(buf) /\ code.pos \in pos + 4 .. e
      BY <1>2, <3>2
    <3> QED BY <1>4, <1>6, <2>1, <3>3, <3>4, <3>5
  <2> QED BY <2>3, <2>4
<1> QED BY <1>5, <1>6

LEMMA UnknownAccept ==
    ASSUME GInv, UnknownValue
    PROVE  Acceptable' <=> Acceptable
<1>1. pc = "value" /\ IInv /\ ~Acceptable' /\ tag \notin KnownTags
  BY Lost DEF UnknownValue, GInv
<1>2. ASSUME NEW e \in pos .. Len(buf)
      PROVE  ~ValueWith(ElementLists(Mode), tag, Span(buf, pos, e), Len(frames) - 1, Mode)
  <2>1. tag \notin ReadTags /\ tag \notin {3, 4} /\ tag # 15
    BY <1>1, Tags
  <2>2. e \in Nat /\ pos <= e /\ e <= Len(buf) /\ buf \in Seq(Byte) /\ pos \in Nat
    BY <1>1, StateFacts
  <2>3. ~IsPlainValue(tag, Span(buf, pos, e))
    BY <2>1, <2>2, PlainRule
  <2> QED BY <2>1, <2>3 DEF ValueWith
<1> QED BY <1>1, <1>2, ValueAcceptable

LEMMA ValueAccept ==
    ASSUME GInv, Value
    PROVE  Acceptable' <=> Acceptable
<1>1. CASE tag \in ReadTags
  BY <1>1, ReadAccept
<1>2. ASSUME tag \notin ReadTags PROVE CodeWithScopeValue \/ DocumentValue \/ UnknownValue
  BY <1>2 DEF Value, FixedValue, BooleanValue, StringValue, BinaryValue, RegexValue,
              DbPointerValue, ReadTags
<1> QED BY <1>1, <1>2, ScopeAccept, DocumentAccept, UnknownAccept

LEMMA NextAccept ==
    ASSUME GInv, NextElement
    PROVE  Acceptable' <=> Acceptable
<1>1. IInv /\ pc = "after" /\ frames # <<>>
  BY DEF GInv, NextElement
<1>2. Acceptable <=> Rest(Mode, buf, frames, pos)
  BY <1>1 DEF Acceptable
<1>3. CASE pos > Top.end
  <2>1. ~Acceptable'
    BY <1>3, Lost DEF NextElement
  <2>2. ~(pos <= Top.end - 1)
    BY <1>1, <1>3, StateFacts, TopFacts
  <2> QED BY <1>1, <1>2, <2>1, <2>2, RestTop DEF GoesOn
<1>4. CASE ~(pos > Top.end)
  <2>1. pc' = "element" /\ pos' = pos /\ frames' = frames /\ buf' = buf /\ Mode' = Mode
    BY <1>4, ModeStays DEF NextElement, input
  <2> QED BY <1>2, <2>1 DEF Acceptable
<1> QED BY <1>3, <1>4

LEMMA FinishAccept ==
    ASSUME GInv, Finish
    PROVE  Acceptable' <=> Acceptable
<1>1. pc = "after" /\ frames = <<>>
  BY DEF Finish
<1>2. Acceptable
  BY <1>1 DEF Acceptable, Rest
<1>3. Acceptable'
  BY DEF Finish, Reject, Accept, Acceptable
<1> QED BY <1>2, <1>3

LEMMA StepAccept ==
    ASSUME GInv, Step
    PROVE  Acceptable' <=> Acceptable
BY EnterAccept, OverrunAccept, EndAccept, KeyAccept, ValueAccept, NextAccept, FinishAccept
   DEF Step

-----------------------------------------------------------------------------
(* The invariant is inductive.                                             *)

\* How a step changes the active documents.
LEMMA StepStack ==
    ASSUME IInv, Step
    PROVE  \/ frames' = frames
           \/ \E f : frames' = Append(frames, f) /\ f \in Frame /\ f.seen = {}
           \/ frames # <<>> /\ frames' = Front(frames)
           \/ frames # <<>> /\ \E key \in Seq(Byte) : frames' = WithKey(key)
<1>1. CASE EnterDocument
  <2>1. CASE PushDocument
    <3> DEFINE f == [start |-> pos, end |-> pos + I32At(buf, pos), seen |-> {}]
    <3>1. frames' = Append(frames, f)
      BY <2>1 DEF PushDocument
    <3>2. frames' \in Seq(Frame) /\ frames \in Seq(Frame)
      BY <1>1, EnterIInv, StateFacts DEF IInv, TypeOK, Frame
    <3>3. f.seen = {}
      OBVIOUS
    <3> HIDE DEF f
    <3>4. f \in Frame
      <4>1. frames'[Len(frames) + 1] = f /\ Len(frames) + 1 \in 1 .. Len(frames')
        BY <3>1, <3>2
      <4> QED BY <3>2, <4>1
    <3> QED BY <3>1, <3>3, <3>4
  <2> QED BY <1>1, <2>1 DEF EnterDocument, Reject
<1>2. CASE EndDocument
  BY <1>2 DEF EndDocument, Pop, Reject, IInv
<1>3. CASE ReadKey
  <2>1. ReadCstring(buf, pos + 1).err = "none" => CstringText(buf, pos + 1) \in Seq(Byte)
    BY CstringSound DEF IInv, TypeOK
  <2> QED BY <1>3, <2>1 DEF ReadKey, Reject, IInv
<1>4. CASE Value
  BY <1>4 DEF Value, FixedValue, BooleanValue, StringValue, BinaryValue, RegexValue,
              DbPointerValue, CodeWithScopeValue, DocumentValue, UnknownValue, Consume, Reject
<1>5. CASE ElementOverrun \/ NextElement \/ Finish
  BY <1>5 DEF ElementOverrun, NextElement, Finish, Reject, Accept
<1> QED BY <1>1, <1>2, <1>3, <1>4, <1>5 DEF Step

LEMMA StepKeysKept ==
    ASSUME IInv, KeysKept, Step
    PROVE  KeysKept'
<1>1. Mode' = Mode
  BY StepKeepsInput, ModeStays
<1> SUFFICES ASSUME ~Mode.distinct, NEW i \in 1 .. Len(frames') PROVE frames'[i].seen = {}
  BY <1>1 DEF KeysKept
<1>2. \A j \in 1 .. Len(frames) : frames[j].seen = {}
  BY DEF KeysKept
<1>3. frames \in Seq(Frame) /\ Len(frames) \in Nat
  BY StateFacts
<1>4. CASE frames' = frames
  BY <1>2, <1>4
<1>5. ASSUME NEW f \in Frame, frames' = Append(frames, f), f.seen = {}
      PROVE  frames'[i].seen = {}
  <2>1. frames'[i] = IF i = Len(frames) + 1 THEN f ELSE frames[i]
    BY <1>3, <1>5
  <2>2. i \in 1 .. Len(frames) \/ i = Len(frames) + 1
    BY <1>3, <1>5
  <2> QED BY <1>2, <1>5, <2>1, <2>2
<1>6. CASE frames # <<>> /\ frames' = Front(frames)
  <2>1. /\ Len(Front(frames)) = Len(frames) - 1
        /\ \A j \in 1 .. Len(frames) - 1 : Front(frames)[j] = frames[j]
    BY <1>6, TopFacts
  <2>2. i \in 1 .. Len(frames) - 1 /\ i \in 1 .. Len(frames)
    BY <1>3, <1>6, <2>1
  <2> QED BY <1>2, <1>6, <2>1, <2>2
<1>7. ASSUME frames # <<>>, NEW key \in Seq(Byte), frames' = WithKey(key)
      PROVE  frames'[i].seen = {}
  <2>1. /\ Len(frames') = Len(frames)
        /\ frames'[Len(frames)].seen = Barred(Top.seen, key, Mode)
        /\ \A j \in 1 .. Len(frames) - 1 : frames'[j] = frames[j]
    BY <1>7, KeyOnTop
  <2>2. Top = frames[Len(frames)] /\ Len(frames) \in 1 .. Len(frames)
    BY <1>7, TopFacts
  <2>3. i \in 1 .. Len(frames) /\ (i = Len(frames) \/ i \in 1 .. Len(frames) - 1)
    BY <1>3, <2>1
  <2> QED BY <1>2, <2>1, <2>2, <2>3 DEF Barred
<1> QED BY <1>4, <1>5, <1>6, <1>7, StepStack

\* Nothing but the entry point itself sees trailing bytes.
LEMMA OnlyFinish ==
    ASSUME IInv, Step, ~Finish
    PROVE  verdict' # "trailing-bytes"
<1>1. verdict # "trailing-bytes" /\ pc # "done"
  BY DEF IInv, Step, EnterDocument, ElementOverrun, EndDocument, ReadKey, Value, FixedValue,
         BooleanValue, StringValue, BinaryValue, RegexValue, DbPointerValue,
         CodeWithScopeValue, DocumentValue, UnknownValue, NextElement
<1>2. CASE EnterDocument
  BY <1>1, <1>2 DEF EnterDocument, PushDocument, Reject
<1>3. CASE ElementOverrun \/ EndDocument \/ NextElement
  BY <1>1, <1>3 DEF ElementOverrun, EndDocument, NextElement, Reject
<1>4. CASE ReadKey
  <2>1. ReadCstring(buf, pos + 1).err # "trailing-bytes"
    BY DEF ReadCstring, Ok, Err
  <2> QED BY <1>1, <1>4, <2>1 DEF ReadKey, Reject
<1>5. CASE Value /\ tag \in ReadTags
  <2>1. Consume(Reading(buf, tag, pos)) /\ Reading(buf, tag, pos).err # "trailing-bytes"
    BY <1>5, ReadsValue, ReadingResult
  <2> QED BY <1>1, <2>1 DEF Consume, Reject
<1>6. CASE CodeWithScopeValue
  <2>1. ReadString(buf, pos + 4).err # "trailing-bytes"
    BY DEF ReadString, StringBody, Ok, Err
  <2> QED BY <1>1, <1>6, <2>1 DEF CodeWithScopeValue, Reject
<1>7. CASE DocumentValue \/ UnknownValue
  BY <1>1, <1>7 DEF DocumentValue, UnknownValue, Reject
<1>8. ASSUME Value, tag \notin ReadTags PROVE CodeWithScopeValue \/ DocumentValue \/ UnknownValue
  BY <1>8 DEF Value, FixedValue, BooleanValue, StringValue, BinaryValue, RegexValue,
              DbPointerValue, ReadTags
<1> QED BY <1>2, <1>3, <1>4, <1>5, <1>6, <1>7, <1>8 DEF Step

LEMMA StepGInv ==
    ASSUME GInv, Step
    PROVE  GInv'
<1>1. IInv' /\ KeysKept'
  BY StepIInv, StepKeysKept DEF GInv
<1>2. Trailing'
  <2>1. CASE Finish
    BY <2>1 DEF Finish, Reject, Accept, input, Trailing, GInv, IInv, Whole
  <2>2. CASE ~Finish
    BY <2>2, OnlyFinish DEF GInv, Trailing
  <2> QED BY <2>1, <2>2
<1> QED BY <1>1, <1>2 DEF GInv

\* The document that the prefix at p announces, if it is there.
LEMMA SliceFacts ==
    ASSUME NEW b \in Seq(Byte), NEW p \in Nat, p <= Len(b)
    PROVE  /\ IF HasI32(b, p) /\ I32At(b, p) >= 5 /\ p + I32At(b, p) <= Len(b)
              THEN /\ p + I32At(b, p) \in Nat /\ p <= p + I32At(b, p)
                   /\ SliceAt(b, p) = Span(b, p, p + I32At(b, p))
              ELSE SliceAt(b, p) = <<>>
           /\ \A mode : ~IsDocument(<<>>, 0, mode)
<1> DEFINE n == I32At(b, p)
<1>1. HasI32(b, p) => n \in Int
  BY I32IsInt
<1>2. \A mode : ~IsDocument(<<>>, 0, mode)
  BY DEF IsDocument, DocumentWith
<1>3. SliceAt(b, p) = IF HasI32(b, p) /\ n >= 5 /\ n <= Len(b) - p
                      THEN Span(b, p, p + n) ELSE <<>>
  BY DEF SliceAt, Span
<1> HIDE DEF n
<1>4. n \in Int => (n <= Len(b) - p <=> p + n <= Len(b))
  OBVIOUS
<1>5. n \in Int /\ n >= 5 => p + n \in Nat /\ p <= p + n
  OBVIOUS
<1> QED BY <1>1, <1>2, <1>3, <1>4, <1>5 DEF n

\* Some document begins at p, ends where its prefix says, and nowhere else.
LEMMA SliceRule ==
    ASSUME NEW b \in Seq(Byte), NEW p \in Nat, p <= Len(b), NEW mode
    PROVE  (\E e \in p .. Len(b) : IsDocument(Span(b, p, e), 0, mode))
           <=> IsDocument(SliceAt(b, p), 0, mode)
<1> DEFINE n == I32At(b, p)
           inside == HasI32(b, p) /\ n >= 5 /\ p + n <= Len(b)
<1>0. Len(b) \in Nat
  OBVIOUS
<1>1. ASSUME NEW e \in p .. Len(b), IsDocument(Span(b, p, e), 0, mode)
      PROVE  inside /\ e = p + n
  <2>1. e \in Nat /\ p <= e /\ e <= Len(b) /\ 0 \in Nat
    BY <1>0
  <2>2. HasI32(b, p) /\ n >= 5 /\ e = p + n
    BY <1>1, <2>1, DocumentRule DEF IsDocument
  <2> QED BY <2>1, <2>2
<1>2. CASE inside
  <2>1. p + n \in p .. Len(b) /\ SliceAt(b, p) = Span(b, p, p + n)
    BY <1>0, <1>2, SliceFacts
  <2> HIDE DEF n, inside
  <2> QED BY <1>1, <2>1
<1>3. CASE ~inside
  <2>1. ~IsDocument(SliceAt(b, p), 0, mode)
    BY <1>3, SliceFacts
  <2> HIDE DEF inside
  <2> QED BY <1>1, <1>3, <2>1
<1> QED BY <1>2, <1>3

\* A call that begins: nothing of the document has been read.
LEMMA CallAInv ==
    ASSUME IInv, pc = "enter", frames = <<>>, verdict = "none"
    PROVE  AInv
<1>1. buf \in Seq(Byte) /\ start \in Nat /\ start <= Len(buf) /\ pos = start
  BY StateFacts DEF IInv
<1>2. \A e : Rest(Mode, buf, frames, e)
  BY DEF Rest
<1>3. Acceptable <=> \E e \in start .. Len(buf) : IsDocument(Span(buf, start, e), 0, Mode)
  BY <1>1, <1>2 DEF Acceptable, IsDocument
<1>4. Acceptable <=> IsDocumentAt(buf, start)
  <2>1. \A mode : (\E e \in start .. Len(buf) : IsDocument(Span(buf, start, e), 0, mode))
                  <=> IsDocument(SliceAt(buf, start), 0, mode)
    BY <1>1, SliceRule
  <2> QED BY <1>3, <2>1 DEF IsDocumentAt
<1>5. GInv
  BY DEF GInv, KeysKept, Trailing
<1> QED BY <1>4, <1>5 DEF AInv

LEMMA StepAInv ==
    ASSUME AInv, Step
    PROVE  AInv'
<1>1. GInv' /\ (Acceptable' <=> Acceptable)
  BY StepGInv, StepAccept DEF AInv
<1>2. buf' = buf /\ start' = start /\ Mode' = Mode
  BY StepKeepsInput, ModeStays
<1> QED BY <1>1, <1>2 DEF AInv, IsDocumentAt

LEMMA StutterAInv == AInv /\ UNCHANGED vars => AInv'
<1> SUFFICES ASSUME AInv, UNCHANGED vars PROVE AInv'
  OBVIOUS
<1>1. IInv' /\ Mode' = Mode
  BY NextIInv, ModeStays DEF AInv, GInv, vars
<1> QED BY <1>1 DEF AInv, GInv, vars, KeysKept, Trailing, Whole, Acceptable, IsDocumentAt

LEMMA AlwaysAInv == Spec => []AInv
<1>1. Init => AInv
  BY InitIInv, CallAInv DEF Init
<1>2. AInv /\ [Next]_vars => AInv'
  BY StepAInv, StutterAInv DEF Next, Returned
<1> QED BY <1>1, <1>2, PTL DEF Spec

-----------------------------------------------------------------------------
(* The results.                                                            *)

\* The walk was through the bytes from start to the cursor.
LEMMA WholeSlice ==
    ASSUME IInv, Whole(pos)
    PROVE  /\ SliceAt(buf, start) = Span(buf, start, pos)
           /\ start = 0 => (SliceAt(buf, start) = buf <=> pos = Len(buf))
<1>1. /\ buf \in Seq(Byte) /\ Len(buf) \in Nat /\ pos \in Nat /\ pos <= Len(buf)
      /\ start \in Nat /\ start <= Len(buf)
  BY StateFacts
<1>2. I32At(buf, start) \in Int /\ start <= pos /\ start + I32At(buf, start) = pos
  <2>1. I32At(buf, start) \in Int
    BY <1>1, I32IsInt DEF Whole
  <2> QED BY <1>1, <2>1 DEF Whole
<1>3. SliceAt(buf, start) = Span(buf, start, pos)
  BY <1>1, <1>2, SliceFacts DEF Whole
<1>4. Len(Span(buf, start, pos)) = pos - start
  BY <1>1, <1>2, SpanFacts
<1>5. ASSUME start = 0, pos = Len(buf) PROVE Span(buf, start, pos) = buf
  <2>1. /\ Span(buf, start, pos) \in Seq(Byte)
        /\ \A k \in 1 .. pos - start : Span(buf, start, pos)[k] = buf[start + k]
    BY <1>1, <1>2, SpanFacts
  <2>2. pos - start = Len(buf) /\ \A k \in 1 .. Len(buf) : start + k = k
    BY <1>1, <1>5
  <2>3. \A k \in 1 .. Len(buf) : Span(buf, start, pos)[k] = buf[k]
    BY <2>1, <2>2
  <2> QED BY <1>1, <1>4, <2>1, <2>2, <2>3, SeqEqual
<1>6. start = 0 /\ pos # Len(buf) => Span(buf, start, pos) # buf
  BY <1>1, <1>4
<1> QED BY <1>3, <1>5, <1>6

\* What the two verdicts on a document of the grammar mean.
LEMMA VerdictFacts ==
    ASSUME AInv, pc = "done"
    PROVE  /\ IsDocumentAt(buf, start) <=> verdict \in {"ok", "trailing-bytes"}
           /\ verdict = "ok" => (entry = "validate" => SliceAt(buf, start) = buf)
           /\ verdict = "trailing-bytes" => entry = "validate" /\ SliceAt(buf, start) # buf
<1>1. IInv /\ Trailing /\ (Acceptable <=> IsDocumentAt(buf, start))
  BY DEF AInv, GInv
<1>2. Acceptable <=> verdict \in {"ok", "trailing-bytes"}
  BY DEF Acceptable
<1>3. ASSUME verdict = "ok", entry = "validate" PROVE SliceAt(buf, start) = buf
  <2>1. Whole(pos) /\ pos = Len(buf) /\ start = 0
    BY <1>1, <1>3 DEF IInv
  <2> QED BY <1>1, <2>1, WholeSlice
<1>4. ASSUME verdict = "trailing-bytes" PROVE entry = "validate" /\ SliceAt(buf, start) # buf
  <2>1. Whole(pos) /\ pos # Len(buf) /\ start = 0 /\ entry = "validate"
    BY <1>1, <1>4 DEF IInv, Trailing
  <2> QED BY <1>1, <2>1, WholeSlice
<1> QED BY <1>1, <1>2, <1>3, <1>4

(* The three entry points accept the documents of the grammar and nothing  *)
(* else, for every buffer, offset and nesting limit: the element loop of   *)
(* validate_doc, the set of its keys, the reader of every kind of value,   *)
(* the checks of the ends after a nested document and the depth counter    *)
(* (validate.rs:97-199, 215-318) together decide membership in the         *)
(* grammar of the file's header.                                           *)
THEOREM AcceptanceIsTheGrammar == Spec => []AcceptsExactlyTheGrammar
<1>1. AInv => AcceptsExactlyTheGrammar
  BY VerdictFacts DEF AcceptsExactlyTheGrammar
<1> QED BY <1>1, AlwaysAInv, PTL

(* "trailing-bytes" is said of the buffers that `validate` would accept if *)
(* they ended where their first document ends, and of no others: no error  *)
(* in the document is hidden behind it, and it hides behind none           *)
(* (validate.rs:97-106).                                                   *)
THEOREM TrailingIsSaidExactly == Spec => []TrailingBytesExactly
<1>1. AInv => TrailingBytesExactly
  BY VerdictFacts DEF TrailingBytesExactly
<1> QED BY <1>1, AlwaysAInv, PTL

\* The document that begins at start is not there in full.
Missing == \/ ~HasI32(buf, start)
           \/ I32At(buf, start) >= 5 /\ start + I32At(buf, start) > Len(buf)

\* Such a document is not entered.
MissingIsNoticed == Missing => \/ pc = "enter" /\ frames = <<>> /\ pos = start
                               \/ pc = "done" /\ verdict = "truncated"

LEMMA StepNotices ==
    ASSUME IInv, MissingIsNoticed, Step
    PROVE  MissingIsNoticed'
<1> SUFFICES ASSUME Missing PROVE pc' = "done" /\ verdict' = "truncated"
  BY StepKeepsInput DEF MissingIsNoticed, Missing
<1>1. pc = "enter" /\ frames = <<>> /\ pos = start /\ EnterDocument
  BY DEF MissingIsNoticed, Step, EnterDocument, ElementOverrun, EndDocument, ReadKey, Value,
         FixedValue, BooleanValue, StringValue, BinaryValue, RegexValue, DbPointerValue,
         CodeWithScopeValue, DocumentValue, UnknownValue, NextElement, Finish
<1>2. ~TooDeep(Depth)
  BY <1>1, NestingAssumption DEF TooDeep, Depth
<1>3. CASE ~HasI32(buf, pos)
  BY <1>1, <1>2, <1>3 DEF EnterDocument, Reject
<1>4. CASE HasI32(buf, pos)
  <2>1. /\ buf \in Seq(Byte) /\ Len(buf) \in Nat /\ pos \in Nat
        /\ I32At(buf, pos) \in Int
    BY <1>4, I32IsInt DEF IInv, TypeOK
  <2>2. ~(I32At(buf, pos) < 5) /\ DocOverruns(pos)
    BY <1>1, <1>4, <2>1 DEF Missing, DocOverruns
  <2> QED BY <1>1, <1>2, <1>4, <2>2 DEF EnterDocument, Reject
<1> QED BY <1>3, <1>4

LEMMA AlwaysNoticed == Spec => [](AInv /\ MissingIsNoticed)
<1>1. Init => MissingIsNoticed
  BY DEF Init, MissingIsNoticed
<1>2. AInv /\ MissingIsNoticed /\ [Next]_vars => MissingIsNoticed'
  BY StepNotices DEF Next, Returned, vars, MissingIsNoticed, Missing, AInv, GInv
<1> QED BY <1>1, <1>2, AlwaysAInv, PTL DEF Spec

\* Where a buffer has all of the document that a longer one begins with, both
\* begin with the same document.
LEMMA SameSlice ==
    ASSUME NEW short \in Seq(Byte), NEW long \in Seq(Byte), IsPrefix(short, long),
           SliceAt(long, 0) # <<>>, HasI32(short, 0),
           ~(I32At(short, 0) >= 5 /\ 0 + I32At(short, 0) > Len(short))
    PROVE  SliceAt(short, 0) = SliceAt(long, 0)
<1> DEFINE n == I32At(long, 0)
<1>1. Len(short) \in Nat /\ Len(long) \in Nat /\ Len(short) <= Len(long)
      /\ short = SubSeq(long, 1, Len(short))
  <2>1. Len(short) <= Len(long) /\ SubSeq(short, 1, Len(short)) = SubSeq(long, 1, Len(short))
    BY DEF IsPrefix
  <2>2. short = SubSeq(short, 1, Len(short))
    BY SeqEqual
  <2> QED BY <2>1, <2>2
<1>2. IsPart(short, long, 0)
  <2>1. 0 \in Nat /\ Len(short) \in Nat /\ 0 <= Len(short) /\ 0 + 1 = 1
    BY <1>1
  <2>2. IsPart(SubSeq(long, 0 + 1, Len(short)), long, 0)
    BY <1>1, <2>1, CutIsPart
  <2> QED BY <1>1, <2>1, <2>2
<1>3. 0 + 4 <= Len(short)
  BY <1>1 DEF HasI32
<1>4. I32At(short, 0) = n /\ HasI32(long, 0) /\ n \in Int
  <2>1. \A p \in Nat : p + 4 <= Len(short) =>
            HasI32(long, p + 0) /\ I32At(long, p + 0) = I32At(short, p) /\ I32At(short, p) \in Int
    BY <1>2, PartI32
  <2> QED BY <1>3, <2>1
<1> HIDE DEF n
<1>5. n >= 5 /\ n <= Len(long) /\ SliceAt(long, 0) = SubSeq(long, 1, n)
  BY <1>1, <1>4 DEF SliceAt, n
<1>6. n <= Len(short) /\ n \in Nat
  BY <1>1, <1>4, <1>5
<1>7. SliceAt(short, 0) = SubSeq(short, 1, n)
  BY <1>1, <1>4, <1>5, <1>6 DEF SliceAt
<1>8. Slice(short, 1, n) = Slice(long, 1, n)
  <2>1. SamePlace(short, long, 0, 1, n, 1, n)
    BY <1>2, <1>6 DEF SamePlace
  <2> QED BY <2>1, PartSlice
<1> QED BY <1>5, <1>7, <1>8 DEF Slice

(* An error other than "truncated" is final: whatever follows the buffer,  *)
(* the document it begins with stays unacceptable, and so does the buffer  *)
(* itself once it has trailing bytes.  A caller that waits for more input  *)
(* on "truncated" and gives up on everything else loses no document        *)
(* (validate.rs:161-170: the prefix is compared with what is there before  *)
(* anything behind it is looked at).                                       *)
THEOREM ErrorsAreFinal == Spec => []OtherErrorsAreFinal
<1>1. ASSUME AInv, MissingIsNoticed, pc = "done", start = 0, verdict \notin {"ok", "truncated"},
             NEW longer \in Completed[entry = "validate"], IsPrefix(buf, longer)
      PROVE  entry = "validate" /\ SliceAt(longer, 0) # longer
  <2>1. buf \in Seq(Byte) /\ longer \in Seq(Byte) /\ IInv /\ Trailing
    BY <1>1, LongerAssumption, StateFacts DEF AInv, GInv, Completed
  <2>2. IsDocument(SliceAt(longer, 0), 0, Mode)
    BY <1>1 DEF Completed, Mode
  <2>3. SliceAt(longer, 0) # <<>>
    <3>1. \A mode : ~IsDocument(<<>>, 0, mode)
      BY DEF IsDocument, DocumentWith
    <3> QED BY <2>2, <3>1
  <2>4. HasI32(buf, 0) /\ ~(I32At(buf, 0) >= 5 /\ 0 + I32At(buf, 0) > Len(buf))
    BY <1>1 DEF MissingIsNoticed, Missing
  <2>5. SliceAt(buf, 0) = SliceAt(longer, 0)
    BY <1>1, <2>1, <2>3, <2>4, SameSlice
  <2>6. verdict = "trailing-bytes"
    BY <1>1, <2>2, <2>5, VerdictFacts DEF IsDocumentAt
  <2>7. Whole(pos) /\ pos # Len(buf) /\ entry = "validate"
    BY <2>1, <2>6 DEF Trailing
  <2>8. SliceAt(longer, 0) = Span(buf, 0, pos)
    BY <1>1, <2>1, <2>5, <2>7, WholeSlice
  <2>9. pos \in Nat /\ pos < Len(buf) /\ Len(Span(buf, 0, pos)) = pos
    <3>1. pos \in Nat /\ pos <= Len(buf) /\ 0 \in Nat /\ 0 <= pos /\ Len(buf) \in Nat
      BY <2>1, StateFacts
    <3>2. Len(Span(buf, 0, pos)) = pos - 0
      BY <2>1, <3>1, SpanFacts
    <3> QED BY <2>7, <3>1, <3>2
  <2>10. Len(buf) <= Len(longer) /\ Len(longer) \in Nat /\ Len(buf) \in Nat
    BY <1>1, <2>1 DEF IsPrefix
  <2> QED BY <2>7, <2>8, <2>9, <2>10
<1>2. AInv /\ MissingIsNoticed => OtherErrorsAreFinal
  BY <1>1 DEF OtherErrorsAreFinal
<1> QED BY <1>2, AlwaysNoticed, PTL

-----------------------------------------------------------------------------
(* The splitter.  Its invariant carries that of the validator, and ties    *)
(* the cursor that both of them move to the rows already pushed.           *)

RowType == [idx : Nat, from : Nat, to : Nat]

SInv ==
    /\ IInv
    /\ SplitTypeOK
    /\ entry = "validate_one"
    /\ idx = Len(rows)
    /\ phase = "loop" => pos = Cursor
    /\ phase = "call" => start = Cursor
    /\ RowsTile

-----------------------------------------------------------------------------
LEMMA InitSInv == SplitInit => SInv
<1> SUFFICES ASSUME SplitInit PROVE SInv
  OBVIOUS
<1>1. buf \in Seq(Byte) /\ Len(buf) \in Nat
  BY BuffersAssumption DEF SplitInit
<1>2. TypeOK
  BY <1>1 DEF SplitInit, TypeOK, Byte, Verdicts, EntryPoints
<1>3. IInv
  BY <1>2, NestingAssumption DEF SplitInit, IInv, BoundedDepth
<1>4. RowsTile /\ Cursor = 0
  BY DEF SplitInit, RowsTile, Cut!Tiled, Cursor
<1> QED BY <1>2, <1>3, <1>4 DEF SplitInit, SInv, SplitTypeOK

\* What a pushed row is: the bytes that the prefix at the cursor announces.
LEMMA PushedRow ==
    ASSUME SInv, PushRow
    PROVE  /\ rows' = Append(rows, [idx |-> Len(rows), from |-> Cursor, to |-> pos])
           /\ rows' \in Seq(RowType)
           /\ Len(rows') = Len(rows) + 1 /\ rows'[Len(rows) + 1] = Last(rows')
           /\ \A i \in 1 .. Len(rows) : rows'[i] = rows[i]
           /\ Last(rows') = [idx |-> Len(rows), from |-> Cursor, to |-> pos]
           /\ Cursor' = pos
           /\ pos = Cursor + I32At(buf, Cursor)
           /\ HasI32(buf, Cursor) /\ I32At(buf, Cursor) >= 5
           /\ pos <= Len(buf) /\ Cursor \in Nat /\ pos \in Nat
           /\ I32At(buf, Cursor) \in Int
<1> DEFINE r == [idx |-> Len(rows), from |-> Cursor, to |-> pos]
<1>1. start = Cursor /\ idx = Len(rows) /\ start \in Nat /\ pos \in 0 .. Len(buf)
      /\ rows \in Seq(RowType) /\ buf \in Seq(Byte) /\ Len(rows) \in Nat
  BY DEF SInv, SplitTypeOK, TypeOK, PushRow, RowType
<1>2. Whole(pos)
  BY DEF SInv, IInv, PushRow
<1>3. rows' = Append(rows, r)
  BY <1>1 DEF PushRow, Row
<1>4. r \in RowType /\ r.to = pos
  BY <1>1 DEF RowType
<1>5. I32At(buf, Cursor) \in Int
  BY <1>1, <1>2, I32IsInt DEF Whole
<1> HIDE DEF r
<1>6. /\ rows' \in Seq(RowType) /\ Len(rows') = Len(rows) + 1 /\ rows' # <<>>
      /\ rows'[Len(rows) + 1] = r
      /\ \A i \in 1 .. Len(rows) : rows'[i] = rows[i]
  BY <1>1, <1>3, <1>4
<1>7. Last(rows') = r
  BY <1>6 DEF Last
<1>8. Cursor' = pos
  BY <1>4, <1>6, <1>7 DEF Cursor
<1>9. /\ pos = Cursor + I32At(buf, Cursor)
      /\ HasI32(buf, Cursor) /\ I32At(buf, Cursor) >= 5
  BY <1>1, <1>2 DEF Whole
<1>10. Cursor \in Nat /\ pos \in Nat /\ pos <= Len(buf)
  BY <1>1
<1> QED BY <1>3, <1>5, <1>6, <1>7, <1>8, <1>9, <1>10 DEF r

LEMMA PushSInv ==
    ASSUME SInv, PushRow
    PROVE  SInv'
<1>1. UNCHANGED vars /\ idx' = idx + 1 /\ phase' = "loop"
  BY DEF PushRow
<1>2. IInv'
  BY <1>1 DEF SInv, vars, IInv, TypeOK, BoundedDepth, Whole
<1>3. rows \in Seq(RowType) /\ Len(rows) \in Nat /\ idx = Len(rows) /\ Cut!Tiled
  BY DEF SInv, SplitTypeOK, RowType, RowsTile
<1>4. SplitTypeOK'
  BY <1>1, <1>2, <1>3, PushedRow DEF SplitTypeOK, IInv, RowType
<1>5. idx' = Len(rows') /\ pos' = Cursor'
  BY <1>1, <1>3, PushedRow DEF vars
<1>6. RowsTile'
  <2> DEFINE n == Len(rows)
  <2>1. Cursor' = (IF rows' = <<>> THEN 0 ELSE rows'[Len(rows')].to)
    BY DEF Cursor, Last
  <2>2. ASSUME NEW i \in 1 .. n
        PROVE  /\ rows'[i].idx = i - 1
               /\ rows'[i].from = (IF i = 1 THEN 0 ELSE rows'[i - 1].to)
               /\ rows'[i].to - rows'[i].from >= 5
               /\ rows'[i].to <= Len(buf)
    <3>1. rows'[i] = rows[i] /\ (i # 1 => rows'[i - 1] = rows[i - 1])
      BY <1>3, PushedRow
    <3>2. i \in DOMAIN rows
      BY <1>3
    <3> QED BY <1>3, <3>1, <3>2 DEF Cut!Tiled
  <2>3. /\ rows'[n + 1].idx = n
        /\ rows'[n + 1].from = (IF n + 1 = 1 THEN 0 ELSE rows'[n].to)
        /\ rows'[n + 1].to - rows'[n + 1].from >= 5
        /\ rows'[n + 1].to <= Len(buf)
    <3>1. rows'[n + 1].idx = n /\ rows'[n + 1].from = Cursor /\ rows'[n + 1].to = pos
      BY PushedRow
    <3>2. Cursor = (IF n + 1 = 1 THEN 0 ELSE rows'[n].to)
      <4>1. CASE n = 0
        <5>1. rows = <<>>
          BY <1>3, <4>1
        <5> QED BY <4>1, <5>1 DEF Cursor
      <4>2. CASE n # 0
        <5>1. rows # <<>> /\ n + 1 # 1 /\ rows'[n] = rows[n]
          BY <1>3, <4>2, PushedRow
        <5> QED BY <5>1 DEF Cursor, Last
      <4> QED BY <4>1, <4>2
    <3>3. pos - Cursor >= 5 /\ pos <= Len(buf)
      BY PushedRow
    <3> QED BY <3>1, <3>2, <3>3
  <2>4. DOMAIN rows' = 1 .. n + 1 /\ Len(rows') = n + 1 /\ n \in Nat
    BY <1>3, PushedRow
  <2>5. ASSUME NEW i \in DOMAIN rows'
        PROVE  /\ rows'[i].idx = i - 1
               /\ rows'[i].from = (IF i = 1 THEN 0 ELSE rows'[i - 1].to)
               /\ rows'[i].to - rows'[i].from >= 5
               /\ rows'[i].to <= Len(buf)
    <3>1. CASE i \in 1 .. n
      BY <2>2, <3>1
    <3>2. CASE i = n + 1
      <4>1. i - 1 = n
        BY <2>4, <3>2
      <4> QED BY <2>3, <3>2, <4>1
    <3> QED BY <2>4, <3>1, <3>2
  <2>6. buf' = buf
    BY <1>1 DEF vars
  <2> QED BY <2>1, <2>5, <2>6 DEF RowsTile, Cut!Tiled
<1>7. entry' = "validate_one"
  BY <1>1 DEF vars, SInv
<1> QED BY <1>1, <1>2, <1>4, <1>5, <1>6, <1>7 DEF SInv

LEMMA SplitStepSInv == SInv /\ SplitStep => SInv'
<1> SUFFICES ASSUME SInv, SplitStep PROVE SInv'
  OBVIOUS
<1>1. ASSUME UNCHANGED <<buf, rows>>
      PROVE  RowsTile' /\ Cursor' = Cursor
  BY <1>1 DEF SInv, RowsTile, Cut!Tiled, Cursor
<1>2. CASE CallValidateOne
  <2>1. /\ UNCHANGED <<buf, entry, pos, tag, rows, idx>>
        /\ phase' = "call" /\ start' = pos /\ frames' = <<>> /\ pc' = "enter"
        /\ verdict' = "none" /\ pos = Cursor
    BY <1>2 DEF CallValidateOne, SInv
  <2>2. SplitTypeOK'
    BY <2>1 DEF SInv, SplitTypeOK, TypeOK, Verdicts
  <2>3. IInv'
    BY <2>1, <2>2, NestingAssumption DEF SInv, SplitTypeOK, IInv, BoundedDepth
  <2> QED BY <1>1, <2>1, <2>2, <2>3 DEF SInv
<1>3. CASE InValidateOne
  <2>1. IInv' /\ UNCHANGED <<buf, entry, start, rows, idx, phase>> /\ phase = "call"
    BY <1>3, StepIInv, StepKeepsInput DEF InValidateOne, splitVars, SInv
  <2> QED BY <1>1, <2>1 DEF SInv, SplitTypeOK, IInv
<1>4. CASE PushRow
  BY <1>4, PushSInv
<1>5. CASE Return
  <2>1. IInv' /\ UNCHANGED <<buf, entry, rows, idx>> /\ phase' = "returned"
    BY <1>5 DEF Return, SInv, vars, IInv, TypeOK, BoundedDepth, Whole
  <2> QED BY <1>1, <2>1 DEF SInv, SplitTypeOK, IInv
<1> QED BY <1>2, <1>3, <1>4, <1>5 DEF SplitStep, StreamConsumed, StopSplitting

LEMMA AlwaysSInv == SplitSpec => []SInv
<1>1. SInv /\ UNCHANGED allVars => SInv'
  BY DEF SInv, allVars, splitVars, vars, IInv, SplitTypeOK, TypeOK, BoundedDepth,
         Whole, RowsTile, Cut!Tiled, Cursor
<1>2. SInv /\ [SplitNext]_allVars => SInv'
  BY <1>1, SplitStepSInv DEF SplitNext, SplitReturned
<1> QED BY <1>2, InitSInv, PTL DEF SplitSpec

-----------------------------------------------------------------------------
(* The results.                                                            *)

(* The splitter's state, the validator's included, keeps its shape.        *)
THEOREM SplitTypeCorrect == SplitSpec => []SplitTypeOK
<1>1. SInv => SplitTypeOK
  BY DEF SInv
<1> QED BY <1>1, AlwaysSInv, PTL

(* The rows are numbered in order and tile the stream without gap or       *)
(* overlap, for every stream.                                              *)
THEOREM RowsAlwaysTile == SplitSpec => []RowsTile
<1>1. SInv => RowsTile
  BY DEF SInv
<1> QED BY <1>1, AlwaysSInv, PTL

LEMMA InitRefines == SplitInit => Cut!Init
BY BuffersAssumption DEF SplitInit, Cut!Init, Cursor, Cut!Byte, Byte

LEMMA StepRefines ==
    ASSUME SInv, [SplitNext]_allVars
    PROVE  [Cut!Next]_<<buf, rows, Cursor, phase = "returned">>
<1>1. CASE PushRow
  <2>1. Cut!Framed(buf, Cursor)
    BY <1>1, PushedRow DEF Cut!Framed, Cut!HasI32, Cut!I32At, HasI32, I32At
  <2>2. phase # "returned" /\ phase' # "returned" /\ buf' = buf
    BY <1>1 DEF PushRow, vars
  <2>3. Cursor' = Cursor + Cut!I32At(buf, Cursor)
    BY <1>1, PushedRow DEF Cut!I32At, I32At
  <2>4. rows' = Append(rows, [idx |-> Len(rows), from |-> Cursor, to |-> Cursor'])
    BY <1>1, PushedRow
  <2> QED BY <2>1, <2>2, <2>3, <2>4 DEF Cut!Next, Cut!Deliver
<1>2. CASE phase # "returned" /\ Return
  BY <1>2 DEF Return, vars, Cut!Next, Cut!Stop, Cursor
<1>3. CASE CallValidateOne
  BY <1>3 DEF CallValidateOne, Cursor
<1>4. CASE InValidateOne
  BY <1>4, StepKeepsInput DEF InValidateOne, splitVars, Cursor
<1>5. CASE UNCHANGED allVars
  BY <1>5 DEF allVars, splitVars, vars, Cursor
<1> QED BY <1>1, <1>2, <1>3, <1>4, <1>5
        DEF SplitNext, SplitStep, SplitReturned, StreamConsumed, StopSplitting

(* split implements Framing: between two pushes the validator may wander   *)
(* over the stream as it likes, each push delivers the document that the   *)
(* prefix at the cursor announces, and nothing else is visible.            *)
THEOREM SplitImplementsFraming == SplitSpec => ImplementsFraming
<1> QED BY InitRefines, StepRefines, AlwaysSInv, PTL DEF SplitSpec, ImplementsFraming, Cut!Spec
-----------------------------------------------------------------------------
(* What the engine gets from bson_seq, for every stream.  A step of the    *)
(* table function is one of the splitter or leaves the splitter alone, so  *)
(* the invariant and the refinement above hold for it too.                 *)

LEMMA SplitsOrWaits == [SeqNext]_seqVars => [SplitNext]_allVars
BY DEF SeqNext, Producer, NullStream, SplitStream, KeepRows, GiveBatch, NoMoreBatches,
       NotAsked, seqVars, SplitNext

LEMMA StutterSInv == SInv /\ UNCHANGED allVars => SInv'
BY DEF SInv, allVars, splitVars, vars, IInv, SplitTypeOK, TypeOK, BoundedDepth, Whole,
       RowsTile, Cut!Tiled, Cursor

LEMMA SeqSInv == SeqSpec => []SInv
<1>1. SeqInit => SInv
  BY InitSInv DEF SeqInit
<1>2. SInv /\ SplitReturned => SInv'
  BY StutterSInv DEF SplitReturned
<1>3. SInv /\ [SeqNext]_seqVars => SInv'
  BY <1>2, SplitsOrWaits, SplitStepSInv, StutterSInv DEF SplitNext
<1> QED BY <1>1, <1>3, PTL DEF SeqSpec

(* bson_seq implements Framing: asking for batches, at any time, does not  *)
(* disturb the cutting of its stream.                                      *)
THEOREM SeqImplementsFraming == SeqSpec => ImplementsFraming
<1>1. SeqInit => Cut!Init
  BY InitRefines DEF SeqInit
<1>2. SInv /\ [SeqNext]_seqVars => [Cut!Next]_<<buf, rows, Cursor, phase = "returned">>
  BY SplitsOrWaits, StepRefines
<1> QED BY <1>1, <1>2, SeqSInv, PTL DEF SeqSpec, ImplementsFraming, Cut!Spec

-----------------------------------------------------------------------------
(* The inductive invariant: the documents are where the stage says.  Once  *)
(* producer has returned they are still in docs, or they are the one batch *)
(* that was given, and never both.                                         *)
SeqInv ==
    /\ stage \in {"producer", "batches"}
    /\ answers \in Seq({None, Some(Batch(rows))})
    /\ stage = "producer" => docs = None /\ answers = <<>>
    /\ ~given => rows = <<>>
    /\ stage = "batches" => /\ given => phase = "returned"
                            /\ docs = IF answers = <<>> THEN Some(rows) ELSE None
    /\ OneBatchThenEnd

LEMMA AnsweredSeqInv ==
    ASSUME SeqInv, stage = "batches", NEW answer,
           answer = IF answers = <<>> THEN Some(Batch(rows)) ELSE None,
           answers' = Append(answers, answer), docs' = None,
           UNCHANGED <<buf, rows, phase, given, stage>>
    PROVE  SeqInv'
<1>1. UNCHANGED Batch(rows)
  BY DEF Batch
<1>2. /\ answers' \in Seq({None, Some(Batch(rows))})
      /\ Len(answers') = Len(answers) + 1 /\ answers' # <<>>
      /\ \A k \in 1 .. Len(answers) : answers'[k] = answers[k]
      /\ answers'[Len(answers) + 1] = answer
      /\ Len(answers) \in Nat /\ (answers = <<>> <=> Len(answers) = 0)
  BY DEF SeqInv
<1>3. \A k \in DOMAIN answers' :
          answers'[k] = IF k = 1 THEN Some(Batch(rows)) ELSE None
  BY <1>2 DEF SeqInv, OneBatchThenEnd
<1>4. OneBatchThenEnd'
  BY <1>1, <1>3 DEF SeqInv, OneBatchThenEnd, Some, None
<1> QED BY <1>1, <1>2, <1>4 DEF SeqInv, Some, None

LEMMA StepSeqInv == SeqInv /\ [SeqNext]_seqVars => SeqInv'
<1> SUFFICES ASSUME SeqInv, [SeqNext]_seqVars PROVE SeqInv'
  OBVIOUS
<1>1. CASE NullStream
  BY <1>1 DEF NullStream, SeqInv, OneBatchThenEnd, allVars, splitVars, vars
<1>2. CASE SplitStream
  BY <1>2 DEF SplitStream, SeqInv, OneBatchThenEnd
<1>3. CASE KeepRows
  BY <1>3 DEF KeepRows, SeqInv, OneBatchThenEnd, allVars, splitVars, vars
<1>4. CASE GiveBatch
  <2>1. docs = Some(rows) /\ docs[1] = rows /\ answers = <<>>
    BY <1>4 DEF GiveBatch, SeqInv, Some
  <2> QED BY <1>4, <2>1, AnsweredSeqInv DEF GiveBatch, allVars, splitVars, vars
<1>5. CASE NoMoreBatches
  <2>1. answers # <<>>
    BY <1>5 DEF NoMoreBatches, SeqInv, Some, None
  <2> QED BY <1>5, <2>1, AnsweredSeqInv DEF NoMoreBatches, allVars, splitVars, vars
<1>6. CASE UNCHANGED seqVars
  BY <1>6 DEF seqVars, allVars, splitVars, vars, SeqInv, OneBatchThenEnd, Batch
<1> QED BY <1>1, <1>2, <1>3, <1>4, <1>5, <1>6 DEF SeqNext, Producer, NotAsked

(* For every stream and any number of calls, the first batch is all rows   *)
(* of the finished split and every later answer is the end.                *)
THEOREM AlwaysOneBatchThenEnd == SeqSpec => []OneBatchThenEnd
<1>1. SeqInit => SeqInv
  BY DEF SeqInit, SplitInit, SeqInv, OneBatchThenEnd
<1>2. SeqInv => OneBatchThenEnd
  BY DEF SeqInv
<1> QED BY <1>1, <1>2, StepSeqInv, PTL DEF SeqSpec

(* The rows of bson_seq are numbered in order and tile its stream.         *)
THEOREM SeqRowsTile == SeqSpec => []RowsTile
<1>1. SInv => RowsTile
  BY DEF SInv
<1> QED BY <1>1, SeqSInv, PTL

-----------------------------------------------------------------------------
(* What the rows are, in terms of the grammar.  While validate_one runs,   *)
(* what is left to be read decides whether a document begins at the        *)
(* cursor; when it returns, its verdict does.                              *)

DInv ==
    /\ SInv
    /\ phase = "call" => AInv
    /\ RowsStandAlone
    /\ StopsWhereNoDocumentBegins

LEMMA CallAInvLater ==
    (IInv /\ pc = "enter" /\ frames = <<>> /\ verdict = "none" => AInv)'
<1>1. IInv /\ pc = "enter" /\ frames = <<>> /\ verdict = "none" => AInv
  BY CallAInv
<1> QED BY <1>1, PTL

\* What validate_one has said of the bytes at the cursor.
LEMMA CallFacts ==
    ASSUME DInv, phase = "call", pc = "done"
    PROVE  /\ verdict = "ok" => /\ pos > start
                                /\ IsDocument(SubSeq(buf, Cursor + 1, pos), 0, RowMode)
           /\ verdict # "ok" => ~DocumentBeginsAt(Cursor)
<1>1. /\ AInv /\ IInv /\ start = Cursor /\ entry = "validate_one" /\ Mode = RowMode
      /\ buf \in Seq(Byte) /\ Len(buf) \in Nat /\ start \in Nat /\ start <= Len(buf)
      /\ pos \in Nat
  BY StateFacts DEF DInv, SInv, Mode, RowMode
<1>2. IsDocumentAt(buf, start) <=> verdict = "ok"
  BY <1>1, VerdictFacts
<1>3. ASSUME verdict = "ok"
      PROVE  pos > start /\ IsDocument(SubSeq(buf, Cursor + 1, pos), 0, RowMode)
  <2>1. Whole(pos)
    BY <1>1, <1>3 DEF IInv
  <2>2. SliceAt(buf, start) = Span(buf, start, pos)
    BY <1>1, <2>1, WholeSlice
  <2>3. pos > start
    <3>1. I32At(buf, start) \in Int
      BY <1>1, <2>1, I32IsInt DEF Whole
    <3> QED BY <1>1, <2>1, <3>1 DEF Whole
  <2> QED BY <1>1, <1>2, <1>3, <2>2, <2>3 DEF IsDocumentAt, Span
<1>4. ASSUME verdict # "ok" PROVE ~DocumentBeginsAt(Cursor)
  <2>1. ~IsDocument(SliceAt(buf, start), 0, RowMode)
    BY <1>1, <1>2, <1>4 DEF IsDocumentAt
  <2>2. \A e \in start .. Len(buf) : ~IsDocument(Span(buf, start, e), 0, RowMode)
    BY <1>1, <2>1, SliceRule
  <2>3. \A q \in Cursor + 5 .. Len(buf) : q \in start .. Len(buf)
    BY <1>1
  <2> QED BY <1>1, <2>2, <2>3 DEF DocumentBeginsAt, Span
<1> QED BY <1>3, <1>4

\* As long as the stream and its rows stay, so do the rows' properties.
LEMMA SameRows ==
    ASSUME RowsStandAlone, UNCHANGED <<buf, rows>>
    PROVE  /\ RowsStandAlone'
           /\ Cursor' = Cursor
           /\ \A p : DocumentBeginsAt(p)' <=> DocumentBeginsAt(p)
BY DEF RowsStandAlone, Cursor, DocumentBeginsAt

LEMMA StepDInv == DInv /\ SplitStep => DInv'
<1> SUFFICES ASSUME DInv, SplitStep PROVE DInv'
  OBVIOUS
<1>1. SInv' /\ SInv /\ RowsStandAlone
  BY SplitStepSInv DEF DInv
<1>2. CASE CallValidateOne
  <2>1. /\ UNCHANGED <<buf, rows>> /\ phase' = "call" /\ frames' = <<>> /\ pc' = "enter"
        /\ verdict' = "none"
    BY <1>2 DEF CallValidateOne
  <2>2. AInv'
    BY <1>1, <2>1, CallAInvLater DEF SInv
  <2>3. StopsWhereNoDocumentBegins'
    BY <2>1 DEF StopsWhereNoDocumentBegins
  <2> QED BY <1>1, <2>1, <2>2, <2>3, SameRows DEF DInv
<1>3. CASE InValidateOne
  <2>1. Step /\ phase = "call" /\ phase' = "call" /\ UNCHANGED <<buf, rows>>
    BY <1>3, StepKeepsInput DEF InValidateOne, splitVars
  <2>2. AInv'
    BY <2>1, StepAInv DEF DInv
  <2>3. StopsWhereNoDocumentBegins'
    BY <2>1 DEF StopsWhereNoDocumentBegins
  <2> QED BY <1>1, <2>1, <2>2, <2>3, SameRows DEF DInv
<1>4. CASE PushRow
  <2> DEFINE n == Len(rows)
  <2>1. /\ phase = "call" /\ pc = "done" /\ verdict = "ok" /\ phase' = "loop" /\ buf' = buf
        /\ rows \in Seq(RowType) /\ n \in Nat
    BY <1>1, <1>4 DEF PushRow, vars, SInv, SplitTypeOK, RowType
  <2>2. /\ rows' \in Seq(RowType) /\ Len(rows') = n + 1
        /\ \A i \in 1 .. n : rows'[i] = rows[i]
        /\ rows'[n + 1].from = Cursor /\ rows'[n + 1].to = pos
    BY <1>1, <1>4, PushedRow
  <2>3. IsDocument(SubSeq(buf, Cursor + 1, pos), 0, RowMode)
    BY <2>1, CallFacts
  <2>4. ASSUME NEW i \in DOMAIN rows'
        PROVE  IsDocument(SubSeq(buf, rows'[i].from + 1, rows'[i].to), 0, RowMode)
    <3>1. i \in 1 .. n \/ i = n + 1
      BY <2>1, <2>2
    <3>2. CASE i \in 1 .. n
      BY <1>1, <2>1, <2>2, <3>2 DEF RowsStandAlone
    <3>3. CASE i = n + 1
      BY <2>2, <2>3, <3>3
    <3> QED BY <3>1, <3>2, <3>3
  <2>5. RowsStandAlone'
    BY <2>1, <2>4 DEF RowsStandAlone, RowMode
  <2>6. StopsWhereNoDocumentBegins' /\ phase' # "call"
    BY <2>1 DEF StopsWhereNoDocumentBegins
  <2> QED BY <1>1, <2>5, <2>6 DEF DInv
<1>5. CASE StreamConsumed \/ StopSplitting
  <2>1. UNCHANGED <<buf, rows>> /\ phase' = "returned"
    BY <1>5 DEF StreamConsumed, StopSplitting, Return, vars
  <2>2. Cursor = Len(buf) \/ ~DocumentBeginsAt(Cursor)
    <3>1. CASE StreamConsumed
      <4>1. pos = Cursor /\ pos \in 0 .. Len(buf) /\ pos >= Len(buf) /\ buf \in Seq(Byte)
        BY <1>1, <3>1 DEF StreamConsumed, SInv, SplitTypeOK, TypeOK
      <4> QED BY <4>1
    <3>2. CASE StopSplitting
      <4>1. phase = "call" /\ pc = "done" /\ (verdict # "ok" \/ pos <= start)
        BY <3>2 DEF StopSplitting
      <4>2. pos \in Nat /\ start \in Nat
        BY <1>1, StateFacts DEF SInv
      <4> QED BY <4>1, <4>2, CallFacts
    <3> QED BY <1>5, <3>1, <3>2
  <2>3. RowsStandAlone' /\ StopsWhereNoDocumentBegins'
    BY <1>1, <2>1, <2>2, SameRows DEF StopsWhereNoDocumentBegins
  <2> QED BY <1>1, <2>1, <2>3 DEF DInv
<1> QED BY <1>2, <1>3, <1>4, <1>5 DEF SplitStep

LEMMA StutterDInv == DInv /\ UNCHANGED allVars => DInv'
<1> SUFFICES ASSUME DInv, UNCHANGED allVars PROVE DInv'
  OBVIOUS
<1>1. UNCHANGED vars /\ UNCHANGED <<rows, phase, buf>>
  BY DEF allVars, splitVars, vars
<1>2. SInv' /\ (phase' = "call" => AInv')
  BY <1>1, StutterSInv, StutterAInv DEF DInv
<1>3. RowsStandAlone' /\ StopsWhereNoDocumentBegins'
  BY <1>1, SameRows DEF DInv, StopsWhereNoDocumentBegins
<1> QED BY <1>2, <1>3 DEF DInv

LEMMA SeqDInv == SeqSpec => []DInv
<1>1. SeqInit => DInv
  BY InitSInv DEF SeqInit, SplitInit, DInv, RowsStandAlone, StopsWhereNoDocumentBegins
<1>2. DInv /\ [SeqNext]_seqVars => DInv'
  BY SplitsOrWaits, StepDInv, StutterDInv DEF SplitNext, SplitReturned
<1> QED BY <1>1, <1>2, PTL DEF SeqSpec

(* Every row of bson_seq is a document of the grammar when it is taken out *)
(* of its stream, for every stream: the scans of validate_one that run to  *)
(* the end of the stream bring nothing of what follows into a row          *)
(* (seq.rs:27-43).                                                         *)
THEOREM RowsAreDocuments == SeqSpec => []RowsStandAlone
<1>1. DInv => RowsStandAlone
  BY DEF DInv
<1> QED BY <1>1, SeqDInv, PTL

(* Where bson_seq stops before the end of its stream no document begins,   *)
(* for every stream: no document that leads the stream is left out of the  *)
(* rows (seq.rs:27-43: the loop ends at the first error).                  *)
THEOREM NothingIsLeftOut == SeqSpec => []StopsWhereNoDocumentBegins
<1>1. DInv => StopsWhereNoDocumentBegins
  BY DEF DInv
<1> QED BY <1>1, SeqDInv, PTL
=============================================================================
