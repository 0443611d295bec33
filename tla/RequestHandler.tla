----------------------------- MODULE RequestHandler ----------------------------
(***************************************************************************)
(* What the handler of a request computes (Networks/RequestHandler.cpp,     *)
(* Reply.cpp, MimeTypes.cpp): the path it asks for, the endpoint and the    *)
(* file this names, the headers an endpoint reads and the replies.  The     *)
(* steps it takes on the files are actions of HttpServer.                   *)
(***************************************************************************)
EXTENDS RequestParser, SequencesExt

CONSTANT Documents  \* paths of the files under the document root

Api(dir, name) == <<"/", "api", "/", dir, "/", name, ".", "json">>

\* The comparisons of the path in handle_request.
Endpoint == [register   |-> Api("clients", "register"),
             deregister |-> Api("clients", "deregister"),
             sensors    |-> Api("sensors", "register"),
             listing    |-> Api("clients", "listing"),
             order      |-> Api("visualisations", "order"),
             calibrate  |-> Api("visualisations", "calibrate"),
             data       |-> Api("visualisations", "data")]

\* Those that answer through a file of their own path.
Writers == {"register", "listing", "order", "calibrate", "data"}

-----------------------------------------------------------------------------
(* url_decode *)

\* Hexadecimal digits in either case.
UpperDigits == Digits \o <<"A", "B", "C", "D", "E", "F">>
LowerDigits == Digits \o <<"a", "b", "c", "d", "e", "f">>
Hex == {UpperDigits[i] : i \in 1..16} \cup {LowerDigits[i] : i \in 1..16}
HexValue(c) == (CHOOSE i \in 1..16 : c \in {UpperDigits[i], LowerDigits[i]}) - 1

\* static_cast<char> of a code, for the characters that matter to a path.  A
\* letter would have to become part of a word: texts have no such escapes.
Letters == (65..90) \cup (97..122)
Char(code) ==
    CASE code = 47 -> "/" [] code = 46 -> "." [] code = 32 -> " "
      [] OTHER -> "#" \o ToString(code)

\* What `is >> std::hex >> value` makes of two characters: it stops at the first
\* that is no digit and fails only without any; a sign is part of a number, and
\* so is the prefix 0x, which is no digit.
NoNumber == -1
Prefix(a, b) == a = "0" /\ b \in {"x", "X"}
ReadHex(a, b) ==
    CASE a \in Hex /\ b \in Hex -> 16 * HexValue(a) + HexValue(b)
      [] a \in Hex /\ b \notin Hex /\ ~Prefix(a, b) -> HexValue(a)
      [] a = "+" /\ b \in Hex -> HexValue(b)
      [] a = "-" /\ b \in Hex -> (256 - HexValue(b)) % 256
      [] OTHER -> NoNumber

\* In the request line of a text an escape ends before any word, and none stands
\* for a letter.
Spelled(text) ==
    LET line == {i \in DOMAIN text : \A j \in 1..i : text[j] # "CR"}
    IN  \A i \in line :
            text[i] = "%" =>
                /\ \A j \in {i + 1, i + 2} \cap line : text[j] \notin Words
                /\ {i + 1, i + 2} \subseteq line =>
                       ReadHex(text[i + 1], text[i + 2]) \notin Letters

\* Mutant: an escape at the very end is out of bounds.
EscapeBeforeEnd(i, size) == i + 3 <= size
LastEscape(i, size) == i + 2 <= size          \* i + 3 <= in.size(), from 0

UrlDecode(in) ==
    LET Failed == [ok |-> FALSE, path |-> <<>>]
        Put(c, rest) == [rest EXCEPT !.path = <<c>> \o @]
        from[i \in 1..Len(in) + 1] ==
            IF i > Len(in) THEN [ok |-> TRUE, path |-> <<>>]
            ELSE IF in[i] = "%"
            THEN IF /\ LastEscape(i, Len(in))
                    /\ ReadHex(in[i + 1], in[i + 2]) # NoNumber
                 THEN Put(Char(ReadHex(in[i + 1], in[i + 2])), from[i + 3])
                 ELSE Failed
            ELSE Put(IF in[i] = "+" THEN " " ELSE in[i], from[i + 1])
    IN  from[1]

-----------------------------------------------------------------------------
(* From the request to the endpoint and the file *)

HasDotDot(path) == \E i \in 1..Len(path) - 1 : path[i] = "." /\ path[i + 1] = "."

\* The decoded path, with index.html for a directory; <<>> for a bad request.
Requested(decoded) ==
    LET path == decoded.path IN
    IF ~decoded.ok \/ path = <<>> \/ path[1] # "/" \/ HasDotDot(path) THEN <<>>
    ELSE IF Last(path) = "/" THEN path \o <<"index", ".", "html">> ELSE path
RequestPath(uri) ==
    CHOOSE path \in {Requested(decoded) : decoded \in {UrlDecode(uri)}} : TRUE

Route(path) ==
    IF \E e \in DOMAIN Endpoint : Endpoint[e] = path
    THEN CHOOSE e \in DOMAIN Endpoint : Endpoint[e] = path
    ELSE "file"

\* Names of files are case-insensitive, which the lower-case paths of the
\* endpoints under Web/API rely on.
FileOf(path) == [i \in DOMAIN path |-> IF path[i] = "API" THEN "api" ELSE path[i]]

\* The name behind the last dot, if no slash follows it.
Extension(path) ==
    LET slash == SelectLastInSeq(path, LAMBDA c : c = "/")
        dot == SelectLastInSeq(path, LAMBDA c : c = ".")
    IN  IF dot > slash THEN SubSeq(path, dot + 1, Len(path)) ELSE <<>>

\* request_header_val: the last header of that name, "" if there is none.
HeaderValue(r, name) ==
    LET named == {i \in DOMAIN r.headers : r.headers[i].name = <<name>>} IN
    IF named = {} THEN <<>>
    ELSE r.headers[CHOOSE i \in named : \A j \in named : j <= i].value

\* std::stoi converts a leading number behind blanks, and throws without one.
IsNumber(value) ==
    \E i \in DOMAIN value :
        /\ value[i] \in Digit
        /\ \A j \in 1..i - 1 : value[j] = " " \/ (j = i - 1 /\ value[j] \in {"+", "-"})

\* Whether an endpoint gets past the numbers it reads from the headers.
AlwaysConverts(route, r) == TRUE
Converts(route, r) ==
    LET numbers == CASE route \in {"deregister", "sensors"} -> {"CLIENT_ID"}
                     [] route = "calibrate" -> {"SCENE_A_ORDER", "SCENE_B_ORDER"}
                     [] OTHER -> {}
    IN  \A name \in numbers : IsNumber(HeaderValue(r, name))

\* A data request for neither scene leaves the pointer as it found it.
SetsScene(r) == HeaderValue(r, "Request-Type") \in {<<"global">>, <<"single">>}

-----------------------------------------------------------------------------
(* Replies *)

MimeTypes == [gif |-> "image/gif", htm |-> "text/html", html |-> "text/html",
              jpg |-> "image/jpeg", png |-> "image/png", css |-> "text/css",
              js |-> "application/javascript"]

ExtensionToType(extension) ==
    IF \E e \in DOMAIN MimeTypes : extension = <<e>>
    THEN MimeTypes[extension[1]]
    ELSE "text/plain"

StockReply(status) ==
    [status |-> status, content |-> <<status>>, type |-> "text/html"]
OkReply(content, path) ==
    [status |-> "200", content |-> content,
     type |-> ExtensionToType(Extension(path))]

\* An ofstream opened without ios::app empties the file, and writes from its
\* start what it has buffered when it is closed: over what others wrote since.
Written(old, new) == new \o SubSeq(old, Len(new) + 1, Len(old))
===============================================================================
