---------------------------- MODULE BsonGrammar ----------------------------
(***************************************************************************)
(* The reference grammar the validator is compared with.  validate.rs      *)
(* states it in its header:                                                *)
(*                                                                         *)
(*     document ::= int32 e_list "\x00"                                    *)
(*     e_list   ::= element*                                               *)
(*     element  ::= type_byte e_name value                                 *)
(*     e_name   ::= cstring                                                *)
(*                                                                         *)
(* Here it is a set of byte strings and no cursor moves: a phrase is of a  *)
(* kind when it can be cut into phrases of the right kinds.  A `mode` says *)
(* how deep documents may nest, whether keys must be distinct and whether  *)
(* the total length of a code-with-scope value must be its length.         *)
(***************************************************************************)
EXTENDS BsonBytes

Before(s, n) == SubSeq(s, 1, n)
After(s, n)  == SubSeq(s, n + 1, Len(s))

IsCstring(s) ==
    /\ s # <<>> /\ s[Len(s)] = 0
    /\ \A i \in 1 .. Len(s) - 1 : s[i] # 0
    /\ Utf8(Before(s, Len(s) - 1))

IsString(s) ==
    /\ Len(s) >= 5 /\ I32At(s, 0) = Len(s) - 4
    /\ s[Len(s)] = 0
    /\ Utf8(SubSeq(s, 5, Len(s) - 1))

Width == [t \in {1, 9, 17, 18} |-> 8]
Empty == {6, 10, 127, 255}

-----------------------------------------------------------------------------
(* A document holds a list of elements, and an element may hold documents. *)
(* The recursion is on the number of bytes of the lists, so a phrase is    *)
(* described by means of the set of lists that may be parts of it.         *)

\* A list of elements at a depth, none of which has a key in `barred`.
ElementList == [text : Seq(Byte), depth : Nat, barred : SUBSET Seq(Byte)]

List(s, depth, barred) == [text |-> s, depth |-> depth, barred |-> barred]

DocumentWith(lists, s, depth, mode) ==
    /\ depth <= mode.nesting
    /\ Len(s) >= 5 /\ I32At(s, 0) = Len(s)
    /\ s[Len(s)] = 0
    /\ List(SubSeq(s, 5, Len(s) - 1), depth, {}) \in lists

CodeWithScopeWith(lists, s, depth, mode) ==
    /\ Len(s) >= 4
    /\ IF mode.strict THEN I32At(s, 0) = Len(s) ELSE I32At(s, 0) >= 0
    /\ \E n \in 4 .. Len(s) :
           /\ IsString(SubSeq(s, 5, n))
           /\ DocumentWith(lists, After(s, n), depth + 1, mode)

\* The values in which there is no document.
IsPlainValue(t, s) ==
    \/ t \in DOMAIN Width /\ Len(s) = Width[t]
    \/ t \in Empty /\ s = <<>>
    \/ t = 7 /\ Len(s) = 12
    \/ t = 16 /\ Len(s) = 4
    \/ t = 19 /\ Len(s) = 16
    \/ t = 8 /\ s \in {<<0>>, <<1>>}
    \/ t \in {2, 13, 14} /\ IsString(s)
    \/ t = 5 /\ Len(s) >= 5 /\ I32At(s, 0) = Len(s) - 5
    \/ t = 11 /\ \E n \in 1 .. Len(s) : IsCstring(Before(s, n)) /\ IsCstring(After(s, n))
    \/ t = 12 /\ Len(s) >= 12 /\ IsString(Before(s, Len(s) - 12))

ValueWith(lists, t, s, depth, mode) ==
    \/ IsPlainValue(t, s)
    \/ t \in {3, 4} /\ DocumentWith(lists, s, depth + 1, mode)
    \/ t = 15 /\ CodeWithScopeWith(lists, s, depth, mode)

\* The list begins with an element: its type, its key up to s[k], its value
\* up to s[e].
BeginsWithElement(lists, x, mode) ==
    LET s == x.text IN
    /\ s # <<>> /\ s[1] # 0
    /\ \E k \in 2 .. Len(s) :
           LET key == SubSeq(s, 2, k - 1) IN
           /\ s[k] = 0
           /\ IsCstring(SubSeq(s, 2, k))
           /\ key \notin x.barred
           /\ \E e \in k .. Len(s) :
                  /\ ValueWith(lists, s[1], SubSeq(s, k + 1, e), x.depth, mode)
                  /\ List(After(s, e), x.depth,
                          IF mode.distinct THEN x.barred \cup {key} ELSE x.barred) \in lists

\* The lists, as far as they have no more than n bytes.
ListsUpTo(mode) ==
    LET lists[n \in Nat] ==
            {x \in ElementList : \/ x.text = <<>>
                                 \/ n > 0 /\ BeginsWithElement(lists[n - 1], x, mode)}
    IN  lists

ElementLists(mode) ==
    {x \in ElementList : x \in ListsUpTo(mode)[Len(x.text)]}

IsDocument(s, depth, mode) == DocumentWith(ElementLists(mode), s, depth, mode)
=============================================================================
