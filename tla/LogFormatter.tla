---------------------------- MODULE LogFormatter ----------------------------
(***************************************************************************)
(* LogFormatter::init (sylar/log.cpp): a pattern such as                   *)
(* "%d{%H:%M}%T%m%n" is cut into literal text and items.  A pattern is a   *)
(* sequence of characters; an item is [text, fmt, type] as in the code's   *)
(* vector, type 0 for literal text, 1 for a key of s_format_items.         *)
(***************************************************************************)
EXTENDS Integers, Sequences, SequencesExt, FiniteSetsExt

CONSTANTS Letters,      \* the letters of patterns
          Keys,         \* the letters that are keys of s_format_items
          MaxPattern    \* bound: length of the patterns that are checked

ASSUME KeysAssumption == Keys \subseteq Letters

Chars == Letters \cup {"%", "{", "}", " "}

\* The inner loop: the key str, the text fmt in braces, the position n after
\* the item, and fmt_status, 1 when a brace did not close.
ScanFormat(p, begin, str) ==
    LET ends == {n \in begin + 1 .. Len(p) : p[n] = "}"}
    IN  IF ends = {} THEN [str |-> str, fmt |-> <<>>, n |-> Len(p) + 1, fmt_status |-> 1]
        ELSE [str |-> str, fmt |-> SubSeq(p, begin + 1, Min(ends) - 1), n |-> Min(ends) + 1, fmt_status |-> 0]
ScanKey(p, i) ==
    LET stops == {n \in i + 1 .. Len(p) : p[n] \notin Letters \cup {"}"}}
        n == IF stops = {} THEN Len(p) + 1 ELSE Min(stops)
        str == SubSeq(p, i + 1, n - 1)
    IN  IF stops # {} /\ p[n] = "{" THEN ScanFormat(p, n, str)
        ELSE [str |-> str, fmt |-> <<>>, n |-> n, fmt_status |-> 0]

Literal(nstr) == IF nstr = <<>> THEN <<>> ELSE << [text |-> nstr, fmt |-> <<>>, type |-> 0] >>

\* One round of the outer loop, given its variables; i is the next character.
Round(p, s) ==
    LET key == ScanKey(p, s.i)
        item == [text |-> key.str, fmt |-> key.fmt, type |-> 1]
    IN  IF s.i > Len(p) THEN s
        ELSE IF p[s.i] # "%" THEN [s EXCEPT !.i = @ + 1, !.nstr = Append(@, p[s.i])]
        ELSE IF s.i < Len(p) /\ p[s.i + 1] = "%" THEN [s EXCEPT !.i = @ + 2, !.nstr = Append(@, "%")]
        ELSE IF key.fmt_status = 0
        THEN [s EXCEPT !.i = key.n, !.nstr = <<>>, !.vec = Append(@ \o Literal(s.nstr), item)]
        ELSE [s EXCEPT !.i = @ + 1, !.m_error = TRUE,
                       !.vec = Append(@, [text |-> <<"pattern_error">>, fmt |-> key.fmt, type |-> 0])]
\* Every round takes a character, so that no more are needed than there are.
Loop(p) ==
    LET after[r \in 0..Len(p)] ==
            IF r = 0 THEN [i |-> 1, nstr |-> <<>>, vec |-> <<>>, m_error |-> FALSE] ELSE Round(p, after[r - 1])
    IN  after[Len(p)]

\* The items, and whether the pattern is in error: a brace that does not close
\* or a key that is not in s_format_items.
init(p) == LET s == Loop(p) IN [vec |-> s.vec \o Literal(s.nstr), m_error |-> s.m_error]
isError(p) ==
    \/ init(p).m_error
    \/ \E i \in 1..Len(init(p).vec) :
          init(p).vec[i].type = 1 /\ init(p).vec[i].text \notin {<<k>> : k \in Keys}

-----------------------------------------------------------------------------
\* How a reader of the pattern language would write literal text, and an item.
Escaped(text) == FlattenSeq([i \in 1..Len(text) |-> IF text[i] = "%" THEN <<"%", "%">> ELSE <<text[i]>>])
Written(item) ==
    IF item.type = 0 THEN Escaped(item.text)
    ELSE <<"%">> \o item.text \o (IF item.fmt = <<>> THEN <<>> ELSE <<"{">> \o item.fmt \o <<"}">>)
WrittenEmpty(p) ==  \* an item may also have empty braces
    \E i \in 1..Len(p) - 1 : p[i] = "{" /\ p[i+1] = "}"

Patterns == UNION {[1..n -> Chars] : n \in 0..MaxPattern}

\* The patterns that are cut without losing, adding or reordering a character
\* (the items, written one after the other, are the pattern) and without two
\* literal items in a row.
Faithful == {p \in Patterns :
    LET vec == init(p).vec
    IN  /\ WrittenEmpty(p) \/ FlattenSeq([i \in 1..Len(vec) |-> Written(vec[i])]) = p
        /\ \A i \in 1..Len(vec) - 1 : vec[i].type = 1 \/ vec[i+1].type = 1}
AllFaithful == \A p \in Patterns : isError(p) \/ p \in Faithful
=============================================================================
