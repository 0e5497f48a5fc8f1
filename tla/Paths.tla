------------------------------- MODULE Paths -------------------------------
(***************************************************************************)
(* What a path addresses: in a stored document, without decoding it, and   *)
(* in a SQL value, without encoding it; and what keys, type_of and field   *)
(* answer in these terms.                                                  *)
(***************************************************************************)
EXTENDS Lookup

\* The field is the last of those with its key.
IsLast(fields, i) == \A k \in DOMAIN fields : k > i => fields[k].key # fields[i].key

\* A segment leads from a node of a document to a part of it.
Leads(seg, node, part) ==
    \/ /\ node.type = "Document"
       /\ \E i \in DOMAIN node.fields : /\ node.fields[i] = [key |-> seg, part |-> part]
                                        /\ IsLast(node.fields, i)
    \/ /\ node.type = "Array" /\ seg \in DOMAIN IndexOf
       /\ \E i \in DOMAIN node.fields : i = IndexOf[seg] + 1 /\ node.fields[i].part = part

\* The parts of the stored document that a path leads to.
AddressesAt(path) ==
    {a \in DOMAIN doc[1] :
        /\ Len(a) = Len(path)
        /\ \A i \in DOMAIN path : Leads(path[i], doc[1][SubSeq(a, 1, i - 1)], a[i])}

\* Only such bytes may reach the decoder.
Readable == doc # None /\ doc[1][<<>>].type = "Document" /\ IsNested(doc[1], MaxNesting)

TypeOK ==
    /\ query \in Queries
    /\ pc \in {"encode", "decode", "walk", "done", "failed"} /\ asked \in 1 .. 4
    /\ Len(doc) \in 0 .. 1 /\ Len(rest) <= Len(query.path)
    /\ cur \in DOMAIN tree /\ tree[cur].type \in DOMAIN TypeNames \cup {"Binary"}
    /\ \A q \in DOMAIN answers : Len(answers[q]) \in 0 .. 1
    /\ pc = "walk" => Readable

(* type_of and field find what the path addresses in the document, and     *)
(* both or neither find something: their two copies of navigate agree, an  *)
(* index may have zeros or a plus in front, of equal keys the last counts, *)
(* a key with a dot in it is never found, and a document that does not     *)
(* decode has no parts (field.rs:65-79, typeinfo.rs:68-80).                *)
FindsExactlyThePath ==
    pc = "done" /\ query.path # <<>> =>
        LET found == IF Readable THEN AddressesAt(query.path) ELSE {} IN
        /\ (found = {}) <=> (answers["field"] = None)
        /\ (found = {}) <=> (answers["type_of"] = None)
        /\ \A a \in found :
               /\ cur = a
               /\ answers["type_of"] = Some(TypeName(doc[1][a]))
               /\ answers["field"] = Some(Coerce(Referenced(Decoded(doc[1]), a), query.mode))

(* keys names, each once, exactly the paths of one segment that are found, *)
(* and the keys with a dot in them (typeinfo.rs:81-85).                    *)
KeysAreTheShortPaths ==
    pc = "done" /\ answers["keys"] # None =>
        /\ \A i, j \in DOMAIN answers["keys"][1] :
               answers["keys"][1][i] = answers["keys"][1][j] => i = j
        /\ Len(query.path) = 1 =>
               (answers["field"] # None <=> query.path[1] \in ToSet(answers["keys"][1]))

-----------------------------------------------------------------------------
\* A segment leads from a cell to a part of it: of entries whose keys are
\* stored as one text the last counts.
CellLeads(seg, c, part) ==
    /\ ~c.null
    /\ \/ /\ c.sql \in {"STRUCT", "MAP"}
          /\ \E i \in DOMAIN c.fields :
                 /\ MapKey(c.fields[i].key) = seg /\ c.fields[i].part = part
                 /\ \A k \in DOMAIN c.fields : k > i => MapKey(c.fields[k].key) # seg
       \/ /\ c.sql = "LIST" /\ seg \in DOMAIN IndexOf
          /\ \E i \in DOMAIN c.fields : i = IndexOf[seg] + 1 /\ c.fields[i].part = part

\* The parts of a SQL value that a path leads to.
PartsAt(cell, path) ==
    {a \in DOMAIN cell :
        /\ Len(a) = Len(path)
        /\ \A i \in DOMAIN path : CellLeads(path[i], cell[SubSeq(a, 1, i - 1)], a[i])}

\* A part is stored: of entries whose keys are stored as one text it is in
\* the last, and so is everything it is in.
IsStored(cell, a) ==
    \A j \in DOMAIN a :
        LET c == cell[SubSeq(a, 1, j - 1)] IN
        \E i \in DOMAIN c.fields :
            /\ c.fields[i].part = a[j]
            /\ c.sql # "LIST" => \A k \in DOMAIN c.fields :
                                    k > i => MapKey(c.fields[k].key) # MapKey(c.fields[i].key)

\* What is stored of a SQL value is not nested too deep to be read again.
ReadsBack(cell) ==
    \A a \in DOMAIN cell : HasParts(cell[a]) /\ IsStored(cell, a) => Len(a) <= MaxNesting

Encoded == query.from = "cell" /\ pc = "done" /\ query.path # <<>> /\ doc # None

(* A part of a SQL value is found in the encoded document by its own path, *)
(* and nothing is found that the value has not.  Of entries of a MAP that  *)
(* are stored under one text the last is found, as a whole: nothing in the *)
(* others is found, and nothing in them is too deep.  Of a value that is   *)
(* nested too deep nothing at all is found, without an error               *)
(* (value_in.rs:86-105, 112-126, with field.rs and validate.rs).           *)
PartsAreWhereTheyWere ==
    Encoded => (answers["field"] # None <=>
                    ReadsBack(query.value) /\ PartsAt(query.value, query.path) # {})

\* The digits of raw / 10^scale, by division; in scientific notation, as of
\* numbers below 10^-6 and of integers that end in zeros not shown.
DecimalText(raw, scale) ==
    LET size   == Magnitude(raw)
        lead   == CHOOSE k \in 0 .. 9 : size < 10 * 10^k /\ (k = 0 \/ size >= 10^k)
        Padded(n, k) == IF k = 0 THEN "" ELSE "." \o Zeros(k - Len(ToString(n))) \o ToString(n)
    IN  (IF raw < 0 THEN "-" ELSE "") \o
        IF scale < 0 \/ lead - scale < -6
        THEN ToString(size \div 10^lead) \o Padded(size % 10^lead, lead)
             \o (IF lead < scale THEN "E" ELSE "E+") \o ToString(lead - scale)
        ELSE ToString(size \div 10^scale) \o Padded(size % 10^scale, scale)

\* A decimal keeps its digits, or becomes a double if it has more than a
\* Decimal128 has, zeros at its end not counted.
KeepsDigits(v, raw, scale) ==
    LET surplus == CHOOSE k \in 0 .. 9 :
                       /\ Magnitude(raw) < 10^k * 10^MaxDigits
                       /\ (k = 0 \/ Magnitude(raw) >= 10^(k - 1) * 10^MaxDigits)
    IN  IF raw % 10^surplus # 0 THEN v.type = "Double"
        ELSE /\ v.type = "Decimal128"
             /\ v.text = DecimalText(IF raw < 0 THEN -(-raw \div 10^surplus)
                                     ELSE raw \div 10^surplus, scale - surplus)

Denotes(v, c) ==
    /\ c.null => v.type = "Null"
    /\ ~c.null =>
        /\ c.sql \in {"STRUCT", "MAP"} => v.type = "Document"
        /\ c.sql = "LIST" => v.type = "Array" /\ Len(v.fields) = Len(c.fields)
        /\ c.sql = "DECIMAL" =>
               IF c.scale < 0 THEN KeepsDigits(v, c.n * 10^(-c.scale), 0)
               ELSE KeepsDigits(v, c.n, c.scale)
        /\ c.sql = "TIMESTAMP_S" =>
               v.n = c.n * 1000 \/ (c.n * 1000 \notin Int64 /\ v.n \in {-Int64Max - 1, Int64Max})
        /\ c.sql = "TIMESTAMP_MS" => v.n = c.n
        /\ c.sql = "TIMESTAMP"    => CutTowards1970(c.n, v.n, 1000)
        /\ c.sql = "TIMESTAMP_NS" => CutTowards1970(c.n, v.n, 1000000)
        /\ c.sql = "UBIGINT" =>
               v.n = c.n \/ (c.n > Int64Max /\ 2 * Magnitude(v.n - c.n) <= Spacing)
        /\ c.sql \in DOMAIN Variant \cup {"BLOB", "UUID"} =>
               IF "text" \in DOMAIN c THEN v.text = c.text ELSE v.n = c.n

(* What is found at the path of a part is the value of the part: a decimal *)
(* digit by digit unless it has more digits than a Decimal128 and does not *)
(* end in zeros, an integer exactly if an i64 holds it and as the nearest  *)
(* double otherwise, an instant cut towards 1970 by less than a            *)
(* millisecond (value_in.rs:128-203).                                      *)
PartsKeepTheirValue ==
    Encoded /\ answers["field"] # None =>
        \A a \in PartsAt(query.value, query.path) : Denotes(tree[cur], query.value[a])
=============================================================================
