----------------------------- MODULE HttpMessage -----------------------------
(***************************************************************************)
(* http/http.cpp and StringUtil of util.cpp: the parameters and cookies of *)
(* a request, which are cut out of the query, the body and a header when   *)
(* they are first asked for, and the encoding of their values.  Texts are  *)
(* sequences of ASCII codes.  A MapType, which ignores case, is a function *)
(* from keys in lower case.                                                *)
(***************************************************************************)
EXTENDS Integers, Sequences, SequencesExt, FiniteSetsExt

SPACE == 32
PERCENT == 37
AMP == 38
PLUS == 43
SEMI == 59
EQ == 61

Join(texts) == FoldLeft(LAMBDA acc, x : acc \o x, <<>>, texts)

\* uri_chars: the equals sign is among them.
Unreserved(c) == c \in (48..57) \cup (65..90) \cup (97..122) \cup {45, 46, EQ, 95, 126}
Hex(d) == IF d < 10 THEN 48 + d ELSE 55 + d
IsXdigit(c) == c \in (48..57) \cup (65..70) \cup (97..102)
XdigitValue(c) == IF c <= 57 THEN c - 48 ELSE IF c <= 70 THEN c - 55 ELSE c - 87

UrlEncode(str) ==
    Join([i \in 1..Len(str) |->
        CASE Unreserved(str[i]) -> <<str[i]>>
          [] str[i] = SPACE     -> <<PLUS>>
          [] OTHER              -> <<PERCENT, Hex(str[i] \div 16), Hex(str[i] % 16)>>])

UrlDecode_NotLast(str) ==
    LET escape(i) == /\ str[i] = PERCENT /\ i + 2 < Len(str)
                     /\ IsXdigit(str[i + 1]) /\ IsXdigit(str[i + 2])
        from[i \in 1..Len(str) + 3] ==
            IF i > Len(str) THEN <<>>
            ELSE IF str[i] = PLUS THEN <<SPACE>> \o from[i + 1]
            ELSE IF escape(i) THEN <<16 * XdigitValue(str[i + 1]) + XdigitValue(str[i + 2])>> \o from[i + 3]
            ELSE <<str[i]>> \o from[i + 1]
    IN  from[1]
\* A percent sign that no two digits follow stays as it is.
UrlDecode(str) ==
    LET escape(i) == /\ str[i] = PERCENT /\ i + 2 <= Len(str)
                     /\ IsXdigit(str[i + 1]) /\ IsXdigit(str[i + 2])
        from[i \in 1..Len(str) + 3] ==
            IF i > Len(str) THEN <<>>
            ELSE IF str[i] = PLUS THEN <<SPACE>> \o from[i + 1]
            ELSE IF escape(i) THEN <<16 * XdigitValue(str[i + 1]) + XdigitValue(str[i + 2])>> \o from[i + 3]
            ELSE <<str[i]>> \o from[i + 1]
    IN  from[1]

\* StringUtil::Trim, of blanks.
Trim(str) ==
    LET kept == {i \in 1..Len(str) : str[i] # SPACE}
    IN  IF kept = {} THEN <<>> ELSE SubSeq(str, Min(kept), Max(kept))

\* PARSE_PARAM: up to the next equals sign is the key, from there up to the
\* next separator is the value; a key is not decoded.
Find(str, c, pos) == Min({Len(str) + 1} \cup {i \in pos..Len(str) : str[i] = c})
RawPairs(str, flag) ==
    LET from[pos \in 1..Len(str) + 1] ==
            LET key == Find(str, EQ, pos)
                end == Find(str, flag, key)
                pair == << SubSeq(str, pos, key - 1), SubSeq(str, key + 1, end - 1) >>
            IN  CASE key > Len(str) -> <<>>
                  [] key <= Len(str) /\ end > Len(str) -> <<pair>>
                  [] OTHER -> <<pair>> \o from[end + 1]
    IN  from[1]

LowerCase(str) == [i \in 1..Len(str) |-> IF str[i] \in 65..90 THEN str[i] + 32 ELSE str[i]]
Put(map, key, val) == [k \in DOMAIN map \cup {LowerCase(key)} |-> IF k = LowerCase(key) THEN val ELSE map[k]]
Erase(map, key) == [k \in DOMAIN map \ {LowerCase(key)} |-> map[k]]
EmptyMap == [k \in {} |-> <<>>]
\* std::map::insert: an entry that is there stays.
InsertAll(map, pairs) ==
    FoldLeft(LAMBDA m, p : IF LowerCase(p[1]) \in DOMAIN m THEN m ELSE Put(m, p[1], UrlDecode(p[2])), map, pairs)

-----------------------------------------------------------------------------
(* HttpRequest: content_type is the header as the words between its blanks *)

NewRequest(query, body, type, cookie) ==
    [m_query |-> query, m_body |-> body, content_type |-> type, cookie |-> cookie,
     m_params |-> EmptyMap, m_cookies |-> EmptyMap, m_parserParamFlag |-> {}]

initQueryParam(r) ==
    IF 1 \in r.m_parserParamFlag THEN r
    ELSE [r EXCEPT !.m_params = InsertAll(@, RawPairs(r.m_query, AMP)), !.m_parserParamFlag = @ \cup {1}]

\* The type is looked for with a blank before it, so that it is never found at
\* the begin of the header.
FORM == "application/x-www-form-urlencoded"
IsForm(words) == \E i \in 2..Len(words) : words[i] = FORM
initBodyParam(r) ==
    IF 2 \in r.m_parserParamFlag THEN r
    ELSE [r EXCEPT !.m_params = IF IsForm(r.content_type) THEN InsertAll(@, RawPairs(r.m_body, AMP)) ELSE @,
                   !.m_parserParamFlag = @ \cup {2}]

initCookies(r) ==
    LET pairs == RawPairs(r.cookie, SEMI)
        trimmed == [i \in DOMAIN pairs |-> <<Trim(pairs[i][1]), pairs[i][2]>>]
    IN  IF 4 \in r.m_parserParamFlag THEN r
        ELSE [r EXCEPT !.m_cookies = InsertAll(@, trimmed), !.m_parserParamFlag = @ \cup {4}]

\* getParam, hasParam, getParamAs and the like first parse, and change nothing
\* else; {} stands for a key that is not there.
Params(r) == initBodyParam(initQueryParam(r))
getParam(r, key) ==
    LET m == Params(r).m_params IN IF LowerCase(key) \in DOMAIN m THEN {m[LowerCase(key)]} ELSE {}
getCookie(r, key) ==
    LET m == initCookies(r).m_cookies IN IF LowerCase(key) \in DOMAIN m THEN {m[LowerCase(key)]} ELSE {}
setParam(r, key, val) == [r EXCEPT !.m_params = Put(@, key, val)]
delParam(r, key) == [r EXCEPT !.m_params = Erase(@, key)]

-----------------------------------------------------------------------------
(* What a handler gets *)

\* "k", "K", "q", percent, plus, blank, separators, "4", "b", and a byte above 127.
SomeText == UNION {[1..n -> {107, 75, PERCENT, PLUS, SPACE, AMP, SEMI, EQ, 52, 98, 200}] : n \in 0..3}
SomeQuery == UNION {[1..n -> {107, 75, EQ, AMP, PERCENT}] : n \in 0..5}
KEY == <<107>>

\* UrlEncode loses nothing, and what it writes does not end a parameter.
EncodingSound ==
    \A s \in SomeText : /\ UrlDecode(UrlEncode(s)) = s
                        /\ {AMP, SEMI, SPACE} \cap ToSet(UrlEncode(s)) = {}

\* No character of a query is lost or taken twice: the pairs, written again,
\* are the query up to a rest without equals sign.
PairsComplete ==
    \A q \in SomeQuery :
        LET pairs == RawPairs(q, AMP)
            written == Join([i \in DOMAIN pairs |-> pairs[i][1] \o <<EQ>> \o pairs[i][2] \o
                                                    (IF i < Len(pairs) THEN <<AMP>> ELSE <<>>)])
        IN  IsPrefix(written, q) /\ EQ \notin ToSet(SubSeq(q, Len(written) + 1, Len(q)))

\* A value that is sent encoded is what the handler gets, from the query and,
\* with blanks around the key, from the cookies; the first of two wins, in
\* either case of the key; a form in the body comes after the query, and is not
\* read if its type is the first word of the header.
ParametersArrive ==
    \A v \in {s \in SomeText : Len(s) <= 2} :
        LET pair(key, val) == key \o <<EQ>> \o UrlEncode(val)
            query == pair(<<113>>, <<>>) \o <<AMP>> \o pair(<<75>>, v) \o <<AMP>> \o pair(KEY, <<113>>)
            cookie == pair(<<113>>, v) \o <<SEMI, SPACE>> \o pair(KEY, v)
            form(type) == NewRequest(pair(<<113>>, <<>>), query, type, cookie)
        IN  /\ getParam(NewRequest(query, <<>>, <<>>, <<>>), KEY) = {v}
            /\ getCookie(form(<<>>), KEY) = {v}
            /\ getParam(form(<<"text;", FORM>>), KEY) = {v}
            /\ getParam(form(<<FORM>>), KEY) = {}

\* Parsing when first asked does not undo setParam, whatever was called before;
\* it does undo a delParam that came before it.
Calls == {"get", "set", "del"}
Perform(r, call) ==
    CASE call = "get" -> Params(r) [] call = "set" -> setParam(r, KEY, <<52>>) [] call = "del" -> delParam(r, KEY)
LazyParsing ==
    \A calls \in UNION {[1..n -> Calls] : n \in 0..4} :
        LET r == FoldLeft(Perform, NewRequest(<<107, EQ, 113>>, <<>>, <<>>, <<>>), calls)
            changes == {i \in DOMAIN calls : calls[i] # "get"}
            parsed == Min({i \in DOMAIN calls : calls[i] = "get"} \cup {Len(calls) + 1})
        IN  getParam(r, KEY) =
                IF changes # {} /\ calls[Max(changes)] = "set" THEN {<<52>>}
                ELSE IF changes # {} /\ Max(changes) > parsed THEN {} ELSE {<<113>>}

ParamsExact == EncodingSound /\ PairsComplete /\ ParametersArrive /\ LazyParsing
=============================================================================
