----------------------------- MODULE RequestParser -----------------------------
(***************************************************************************)
(* The parser of HTTP requests (Networks/RequestParser.cpp): a state        *)
(* machine fed one byte at a time that builds the request it recognises.    *)
(*                                                                         *)
(* A byte is a symbol.  The bytes the code tells apart have one each; a     *)
(* word such as "api" stands for a run of letters, which every state        *)
(* treats as it treats one of them.  Letters also come one by one where an   *)
(* escape in a uri may take them for digits; "G" is any that is none.        *)
(***************************************************************************)
EXTENDS Integers, Sequences

CONSTANT Words  \* symbols for runs of letters

Digits == <<"0", "1", "2", "3", "4", "5", "6", "7", "8", "9">>
Digit == {Digits[i] : i \in 1..10}

\* is_char is false of a byte above 127, since char is signed in this build.
NonAscii == {"e'"}

\* is_ctl
Ctl == {"CR", "LF", "HT", "DEL"}

\* is_tspecial, as far as symbols of requests go
TSpecial == {" ", "HT", "/", ":", ",", "[", "]", "{", "}", "\"", "\\"}

Plain == {"H", "T", "P", "G", "A", "B", "C", "D", "E", "F",
          "a", "b", "c", "d", "e", "f", "x", "X", "%", "+", "-", "."}

Bytes == Words \cup Digit \cup NonAscii \cup Ctl \cup TSpecial \cup Plain

ASSUME WordsAssumption == Words \subseteq STRING

Token == Bytes \ (NonAscii \cup Ctl \cup TSpecial)
Text == Bytes \ Ctl
Lws == {" ", "HT"}

NoRequest == [method |-> <<>>, uri |-> <<>>, major |-> 0, minor |-> 0,
              headers |-> <<>>]

\* A parser with the request it fills.  verdict is what the last consume
\* returned: "more" for indeterminate, "ok" for true, "bad" for false.
Fresh == [state |-> "method_start", verdict |-> "more", request |-> NoRequest]

-----------------------------------------------------------------------------
(* The transitions: in state `from`, on a byte of `on`, to state `to`, and     *)
(* what becomes of the byte.  No transition: the request is bad.              *)

Edge(from, on, to, into) == [from |-> from, on |-> on, to |-> to, into |-> into]

\* Mutant: a blank always continues a header.
FoldsWithoutHeader(headers) == TRUE

\* A line that starts with a blank continues the header before it, if there
\* is one.
MayFold(headers) == headers # <<>>

LineStart(headers) ==
    {Edge("header_line_start", {"CR"}, "expecting_newline_3", "nothing"),
     Edge("header_line_start", Token, "header_name", "new_header")} \cup
    (IF MayFold(headers)
     THEN {Edge("header_line_start", Lws, "header_lws", "nothing")}
     ELSE {})

RequestLine ==
    {Edge("method_start", Token, "method", "method"),
     Edge("method", Token, "method", "method"),
     Edge("method", {" "}, "uri", "nothing"),
     Edge("uri", Text \ {" "}, "uri", "uri"),
     Edge("uri", {" "}, "http_version_h", "nothing"),
     Edge("http_version_h", {"H"}, "http_version_t_1", "nothing"),
     Edge("http_version_t_1", {"T"}, "http_version_t_2", "nothing"),
     Edge("http_version_t_2", {"T"}, "http_version_p", "nothing"),
     Edge("http_version_p", {"P"}, "http_version_slash", "nothing"),
     Edge("http_version_slash", {"/"}, "http_version_major_start", "no_version"),
     Edge("http_version_major_start", Digit, "http_version_major", "major"),
     Edge("http_version_major", Digit, "http_version_major", "major"),
     Edge("http_version_major", {"."}, "http_version_minor_start", "nothing"),
     Edge("http_version_minor_start", Digit, "http_version_minor", "minor"),
     Edge("http_version_minor", Digit, "http_version_minor", "minor"),
     Edge("http_version_minor", {"CR"}, "expecting_newline_1", "nothing"),
     Edge("expecting_newline_1", {"LF"}, "header_line_start", "nothing")}

HeaderLine ==
    {Edge("header_lws", {"CR"}, "expecting_newline_2", "nothing"),
     Edge("header_lws", Lws, "header_lws", "nothing"),
     Edge("header_lws", Text \ Lws, "header_value", "value"),
     Edge("header_name", {":"}, "space_before_header_value", "nothing"),
     Edge("header_name", Token, "header_name", "name"),
     Edge("space_before_header_value", {" "}, "header_value", "nothing"),
     Edge("header_value", {"CR"}, "expecting_newline_2", "nothing"),
     Edge("header_value", Text, "header_value", "value"),
     Edge("expecting_newline_2", {"LF"}, "header_line_start", "nothing"),
     Edge("expecting_newline_3", {"LF"}, "expecting_newline_3", "complete")}

States == {e.from : e \in RequestLine \cup HeaderLine} \cup {"header_line_start"}

\* The transitions of a state; only those of a line's start depend on more.
Leaving == [s \in States |-> {e \in RequestLine \cup HeaderLine : e.from = s}]
Edges(state, headers) ==
    IF state = "header_line_start" THEN LineStart(headers) ELSE Leaving[state]

-----------------------------------------------------------------------------
Value(c) == (CHOOSE i \in 1..10 : Digits[i] = c) - 1

\* The request after a byte went `into` it.  headers.back() of an empty vector
\* is undefined, hence "undefined" for the request.
Store(into, c, r) ==
    LET last == Len(r.headers) IN
    CASE into \in {"nothing", "complete"} -> r
      [] into = "method" -> [r EXCEPT !.method = Append(@, c)]
      [] into = "uri" -> [r EXCEPT !.uri = Append(@, c)]
      [] into = "no_version" -> [r EXCEPT !.major = 0, !.minor = 0]
      [] into = "major" -> [r EXCEPT !.major = @ * 10 + Value(c)]
      [] into = "minor" -> [r EXCEPT !.minor = @ * 10 + Value(c)]
      [] into = "new_header" ->
            [r EXCEPT !.headers = Append(@, [name |-> <<c>>, value |-> <<>>])]
      [] into = "name" /\ last > 0 ->
            [r EXCEPT !.headers[last].name = Append(@, c)]
      [] into = "value" /\ last > 0 ->
            [r EXCEPT !.headers[last].value = Append(@, c)]

Along(e, p, c) ==
    IF e.into \in {"name", "value"} /\ p.request.headers = <<>>
    THEN [p EXCEPT !.verdict = "undefined"]
    ELSE [state |-> e.to,
          verdict |-> IF e.into = "complete" THEN "ok" ELSE "more",
          request |-> Store(e.into, c, p.request)]

\* consume: one byte.
Consume(p, c) ==
    LET taken == {e \in Edges(p.state, p.request.headers) : c \in e.on} IN
    IF taken = {} THEN [p EXCEPT !.verdict = "bad"]
    ELSE CHOOSE next \in {Along(e, p, c) : e \in taken} : TRUE

Feed(p, c) == IF p.verdict = "more" THEN Consume(p, c) ELSE p

\* parse: the bytes of one read, up to the first that decides.  What follows it
\* in the buffer is dropped.
Parse(p, input) ==
    LET after[i \in 0..Len(input)] ==
            IF i = 0 THEN p
            ELSE CHOOSE next \in {Feed(before, input[i]) : before \in {after[i - 1]}} : TRUE
    IN  after[Len(input)]
===============================================================================
