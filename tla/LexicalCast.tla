----------------------------- MODULE LexicalCast -----------------------------
(***************************************************************************)
(* The conversions of sylar/config.h between YAML and std::vector, list,   *)
(* set, unordered_set, map and unordered_map.  A node is [kind, text,      *)
(* items]: the text of a scalar, or the <<key, node>> entries of a map,    *)
(* with the key "" in a sequence.  A conversion gives {value}, and {} if   *)
(* it throws.                                                              *)
(***************************************************************************)
EXTENDS Integers, Sequences, SequencesExt, FiniteSetsExt

Scalar(text) == [kind |-> "scalar", text |-> text, items |-> <<>>]
Sequence(nodes) == [kind |-> "sequence", text |-> "", items |-> [i \in 1..Len(nodes) |-> <<"", nodes[i]>>]]

\* YAML::Load and << of yaml-cpp: an empty text is the null node, written "~".
Load(node) == IF node.kind = "scalar" /\ node.text = "" THEN Scalar("~") ELSE node

\* The conversion of a container is given what LexicalCast<std::string, T> made of
\* each of its entries, or, the other way, what LexicalCast<T, std::string> did.

\* vector and list: push_back, until one throws.  A scalar has no entries.
Elements(results) ==
    IF \E i \in DOMAIN results : results[i] = {} THEN {}
    ELSE {[i \in DOMAIN results |-> CHOOSE v \in results[i] : TRUE]}
\* set and unordered_set: insert keeps the first of the elements with one key.
Distinct(vec, keys) == {vec[i] : i \in {j \in DOMAIN vec : \A k \in 1..j-1 : keys[k] # keys[j]}}
ToSetOf(results) == {Distinct(vec, vec) : vec \in Elements(results)}
\* map and unordered_map: insert keeps the first of two entries with one key.
ToMap(node, results) ==
    LET keys == {node.items[i][1] : i \in DOMAIN node.items}
        at(k) == Min({i \in DOMAIN node.items : node.items[i][1] = k})
    IN  {[k \in keys |-> vec[at(k)]] : vec \in Elements(results)}

FromVector(written) == Sequence([i \in DOMAIN written |-> Load(written[i])])
FromSetOf(written) == FromVector(SetToSeq(written))
FromMap(written) ==
    LET keys == SetToSeq(DOMAIN written)
    IN  [kind |-> "map", text |-> "", items |-> [i \in DOMAIN keys |-> <<keys[i], Load(written[keys[i]])>>]]

\* std::string itself: boost::lexical_cast of the text of a scalar, or of the
\* text that << writes for a nested node.  Scalar is the way back.
StringOf(node) == {IF node.kind = "scalar" THEN node.text ELSE <<"written", node>>}

-----------------------------------------------------------------------------
(* Elements that are strings or containers of strings. *)

Texts == {"", "~", "a"}
Vectors(S) == UNION {[1..n -> S] : n \in 0..2}
Maps(S) == UNION {[K -> S] : K \in SUBSET {"k", "l"}}

\* The strings that survive: an empty one, inside a container, is read back as "~".
Reread(s) == IF s = "" THEN "~" ELSE s

\* What is made of the entries, and of the elements of a vector, a set or a map.
Strings(node) == [i \in 1..Len(node.items) |-> StringOf(node.items[i][2])]
Nested(node) == [i \in 1..Len(node.items) |-> Elements(Strings(node.items[i][2]))]
Scalars(f) == [x \in DOMAIN f |-> Scalar(f[x])]
Nest(f) == [x \in DOMAIN f |-> FromVector(Scalars(f[x]))]

\* Every container reads back what it writes, up to its empty strings, also when
\* it is nested; two entries of one map stay two.
ContainersReadBack ==
    /\ \A v \in Vectors(Texts) : Elements(Strings(FromVector(Scalars(v)))) = {[i \in DOMAIN v |-> Reread(v[i])]}
    /\ \A s \in SUBSET Texts : ToSetOf(Strings(FromSetOf({Scalar(x) : x \in s}))) = {{Reread(x) : x \in s}}
    /\ \A m \in Maps(Texts) :
          LET node == FromMap(Scalars(m)) IN ToMap(node, Strings(node)) = {[k \in DOMAIN m |-> Reread(m[k])]}
    /\ \A v \in Vectors(Vectors({"a"})) : Elements(Nested(FromVector(Nest(v)))) = {v}
    /\ \A s \in SUBSET Vectors({"a"}) : ToSetOf(Nested(FromSetOf({FromVector(Scalars(v)) : v \in s}))) = {s}
    /\ \A m \in Maps(Vectors({"a"})) : LET node == FromMap(Nest(m)) IN ToMap(node, Nested(node)) = {m}
=============================================================================
