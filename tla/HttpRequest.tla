------------------------------ MODULE HttpRequest ------------------------------
(***************************************************************************)
(* What a request is, said of its lines instead of its bytes: the reference *)
(* the parser is checked against.  A request begins with a line that names  *)
(* method, uri and version, goes on with headers and ends with an empty     *)
(* line; a line that begins with a blank continues the header above it.     *)
(***************************************************************************)
EXTENDS RequestParser, SequencesExt

\* The members of a set of numbers in their order.
Ascending(S) ==
    [n \in 1..Cardinality(S) |->
        CHOOSE i \in S : Cardinality({j \in S : j < i}) = n - 1]

\* The bytes at these places of a text, in their order.
BytesAt(text, places) ==
    LET order == Ascending(places) IN [n \in DOMAIN order |-> text[order[n]]]

Places(text, c) == {i \in DOMAIN text : text[i] = c}

-----------------------------------------------------------------------------
(* Lines *)

Ends(text) == {i \in 1..Len(text) - 1 : text[i] = "CR" /\ text[i + 1] = "LF"}
LineStarts(text) == {1} \cup {i + 2 : i \in Ends(text)}

\* The line that begins at s, of a text that ends it.
Line(text, s) == SubSeq(text, s, Min({i \in Ends(text) : i >= s}) - 1)

Protocol == <<"H", "T", "T", "P", "/">>

\* A byte that may stand at place i of a line with these marks: of the first one,
\* whose uri stands between two blanks, with a dot in its version,
InRequestLine(c, uri, version, dot, i) ==
    \/ i < uri /\ c \in Token
    \/ i \in {uri, version} /\ c = " "
    \/ i > uri /\ i < version /\ c \in Text \ {" "}
    \/ i \in version + 1..version + 5 /\ c = Protocol[i - version]
    \/ i > version + 5 /\ i # dot /\ c \in Digit
    \/ i = dot /\ c = "."

\* of a header,
InHeader(c, colon, i) ==
    \/ i < colon /\ c \in Token
    \/ i = colon /\ c = ":"
    \/ i = colon + 1 /\ c = " "
    \/ i > colon + 1 /\ c \in Text

\* and of a line that continues one behind some blanks.
InContinuation(c, blanks, i) ==
    \/ i <= blanks /\ c \in Lws
    \/ i = blanks + 1 /\ c \in Text \ Lws
    \/ i > blanks + 1 /\ c \in Text

IsRequestLine(line) ==
    \E uri, version \in Places(line, " "), dot \in Places(line, ".") :
        /\ 1 < uri /\ uri < version /\ version + 6 < dot /\ dot < Len(line)
        /\ \A i \in DOMAIN line : InRequestLine(line[i], uri, version, dot, i)

IsHeader(line) ==
    \E colon \in Places(line, ":") :
        /\ 1 < colon /\ colon < Len(line)
        /\ \A i \in DOMAIN line : InHeader(line[i], colon, i)

Continues(line) ==
    \E blanks \in 1..Len(line) :
        \A i \in DOMAIN line : InContinuation(line[i], blanks, i)

-----------------------------------------------------------------------------
(* Requests *)

\* Where a header begins: a line that does not continue one.
HeaderStarts(text) == {s \in LineStarts(text) : s > 1 /\ s <= Len(text) /\ text[s] \in Token}

GoodLine(text, s) ==
    IF s = 1 THEN IsRequestLine(Line(text, s))
    ELSE \/ IsHeader(Line(text, s))
         \/ Continues(Line(text, s)) /\ \E h \in HeaderStarts(text) : h < s

\* The empty line at e is the first one and ends a request.
EndsRequest(text, e) ==
    /\ e > 1
    /\ e \in LineStarts(text) \cap Ends(text)
    /\ \A s \in LineStarts(text) : s < e => GoodLine(text, s)

IsRequest(text) == \E e \in Ends(text) : EndsRequest(text, e)

\* The number some digits are.
NumberOf(digits) ==
    LET upto[n \in 0..Len(digits)] ==
            IF n = 0 THEN 0 ELSE upto[n - 1] * 10 + Value(digits[n])
    IN  upto[Len(digits)]

\* The bytes of the value of the header at s: behind its colon and a blank, up
\* to the next header, without ends of lines and the blanks that begin a line.
ValuePlaces(text, s) ==
    {i \in s..Len(text) :
        /\ text[i] \in Text
        /\ \E j \in s..i - 2 : text[j] = ":"
        /\ \A h \in HeaderStarts(text) : h <= s \/ h > i
        /\ \A c \in LineStarts(text) : c > s /\ c <= i => \E j \in c..i : text[j] \notin Lws}

\* The bytes of its name: up to the colon.
NamePlaces(text, s) == {i \in s..Len(text) : \A j \in s..i : text[j] # ":"}

HeaderAt(text, s) ==
    [name |-> BytesAt(text, NamePlaces(text, s)), value |-> BytesAt(text, ValuePlaces(text, s))]

\* What the lines of a request say.
SaidBy(text) ==
    LET uri == Min(Places(text, " "))
        version == Min({i \in Places(text, " ") : i > uri})
        dot == Min({i \in Places(text, ".") : i > version})
        order == Ascending(HeaderStarts(text))
    IN  [method |-> SubSeq(text, 1, uri - 1),
         uri |-> SubSeq(text, uri + 1, version - 1),
         major |-> NumberOf(SubSeq(text, version + 6, dot - 1)),
         minor |-> NumberOf(SubSeq(text, dot + 1, Min(Ends(text)) - 1)),
         headers |-> [n \in DOMAIN order |-> HeaderAt(text, order[n])]]

\* The request a text that is one says; what follows it is none of it.
RequestOf(text) == SaidBy(SubSeq(text, 1, (CHOOSE e \in Ends(text) : EndsRequest(text, e)) - 1))

-----------------------------------------------------------------------------
(* The same for the path a uri encodes.                                      *)

\* Every % stands before two hexadecimal digits.
WellEncoded(uri, hex) ==
    \A i \in DOMAIN uri :
        uri[i] = "%" => i + 2 <= Len(uri) /\ uri[i + 1] \in hex /\ uri[i + 2] \in hex

\* A uri that ends inside an escape, whose % is no digit of another.
CutEscape(uri) ==
    \E i \in DOMAIN uri : /\ uri[i] = "%" /\ i > Len(uri) - 2
                          /\ \A j \in DOMAIN uri \cap {i - 2, i - 1} : uri[j] # "%"

\* An escape at its percent sign, and nothing at its digits.
Encoded(uri, Decoded(_, _)) ==
    LET digits == UNION {{i + 1, i + 2} : i \in {j \in DOMAIN uri : uri[j] = "%"}}
        kept == Ascending(DOMAIN uri \ digits)
    IN  [n \in DOMAIN kept |->
            LET i == kept[n] IN
            IF uri[i] = "%" THEN Decoded(uri[i + 1], uri[i + 2])
            ELSE IF uri[i] = "+" THEN " " ELSE uri[i]]
===============================================================================
