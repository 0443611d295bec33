------------------------------ MODULE RequestProofs -----------------------------
(***************************************************************************)
(* Theorems about the parser of requests and about the paths its requests   *)
(* ask for, for every sequence of bytes: the parser keeps the types of what *)
(* it builds, in every state in which a byte goes into a header there is    *)
(* one; it accepts exactly the texts that begin with the lines of a request *)
(* and reads in them what HttpRequest says they say; and a request is       *)
(* refused or asks for an absolute path without a step upwards.             *)
(*                                                                         *)
(* The parser sees bytes, the reference sees lines of a whole text.  What   *)
(* relates them is Knows, which every byte keeps: a parser that wants more  *)
(* has read the first line up to some place between its marks, or good      *)
(* lines and a part of the next one, or the first byte of the end; its      *)
(* state says which (FirstState, LaterState), and its request is what the   *)
(* places read so far say.  A byte with no transition from that state is    *)
(* one that no line of that kind has at that place.                         *)
(***************************************************************************)
EXTENDS RequestHandler, HttpRequest, OperatorLemmas, FiniteSetTheorems

Header == [name : Seq(Bytes), value : Seq(Bytes)]
Request == [method : Seq(Bytes), uri : Seq(Bytes), major : Nat, minor : Nat,
            headers : Seq(Header)]

\* The states between the first byte of a header and the end of its line.
HeaderStates == {"header_lws", "header_name", "space_before_header_value",
                 "header_value", "expecting_newline_2"}

\* What consume keeps true of a parser.
Parsers ==
    {p \in [state : States, verdict : {"more", "ok", "bad"}, request : Request] :
        p.state \in HeaderStates => p.request.headers # <<>>}

Targets == {"nothing", "complete", "method", "uri", "no_version", "major", "minor",
            "new_header", "name", "value"}

\* What the transitions have in common.
Sound(e, headers) ==
    /\ e.to \in States
    /\ e.into \in Targets
    /\ e.into \in {"major", "minor"} => e.on = Digit
    /\ e.into \in {"name", "value"} => e.from \in HeaderStates
    /\ e.to \in HeaderStates =>
          e.from \in HeaderStates \/ e.into = "new_header" \/ headers # <<>>

\* The fields of a transition.
LEMMA EdgeFields ==
    \A from, on, to, into :
        LET e == Edge(from, on, to, into) IN
        e.from = from /\ e.on = on /\ e.to = to /\ e.into = into
BY DEF Edge

\* The states, one by one.
LEMMA StateNames ==
    /\ {"method_start", "method", "uri", "http_version_h", "http_version_t_1",
        "http_version_t_2", "http_version_p", "http_version_slash"} \subseteq States
    /\ {"http_version_major_start", "http_version_major",
        "http_version_minor_start", "http_version_minor",
        "expecting_newline_1", "expecting_newline_3",
        "header_line_start"} \subseteq States
    /\ HeaderStates \subseteq States
<1>1. \A e \in RequestLine \cup HeaderLine : e.from \in States
  BY DEF States
<1>2. /\ Edge("method_start", Token, "method", "method") \in RequestLine
      /\ Edge("method", {" "}, "uri", "nothing") \in RequestLine
      /\ Edge("uri", {" "}, "http_version_h", "nothing") \in RequestLine
      /\ Edge("http_version_h", {"H"}, "http_version_t_1", "nothing") \in RequestLine
      /\ Edge("http_version_t_1", {"T"}, "http_version_t_2", "nothing") \in RequestLine
      /\ Edge("http_version_t_2", {"T"}, "http_version_p", "nothing") \in RequestLine
      /\ Edge("http_version_p", {"P"}, "http_version_slash", "nothing") \in RequestLine
      /\ Edge("http_version_slash", {"/"}, "http_version_major_start", "no_version")
            \in RequestLine
  BY DEF RequestLine
<1>3. /\ Edge("http_version_major_start", Digit, "http_version_major", "major")
            \in RequestLine
      /\ Edge("http_version_major", Digit, "http_version_major", "major") \in RequestLine
      /\ Edge("http_version_minor_start", Digit, "http_version_minor", "minor")
            \in RequestLine
      /\ Edge("http_version_minor", Digit, "http_version_minor", "minor") \in RequestLine
      /\ Edge("expecting_newline_1", {"LF"}, "header_line_start", "nothing")
            \in RequestLine
  BY DEF RequestLine
<1>4. /\ Edge("header_lws", Lws, "header_lws", "nothing") \in HeaderLine
      /\ Edge("header_name", Token, "header_name", "name") \in HeaderLine
      /\ Edge("space_before_header_value", {" "}, "header_value", "nothing") \in HeaderLine
      /\ Edge("header_value", Text, "header_value", "value") \in HeaderLine
      /\ Edge("expecting_newline_2", {"LF"}, "header_line_start", "nothing") \in HeaderLine
      /\ Edge("expecting_newline_3", {"LF"}, "expecting_newline_3", "complete")
            \in HeaderLine
  BY DEF HeaderLine
<1>5. \A from, on, to, into :
          Edge(from, on, to, into) \in RequestLine \cup HeaderLine => from \in States
  BY <1>1, EdgeFields
<1>6. "header_line_start" \in States
  BY DEF States
<1>7. {"method_start", "method", "uri", "http_version_h", "http_version_t_1",
       "http_version_t_2", "http_version_p", "http_version_slash"} \subseteq States
  BY <1>2, <1>5
<1>8. {"http_version_major_start", "http_version_major",
       "http_version_minor_start", "http_version_minor",
       "expecting_newline_1", "expecting_newline_3"} \subseteq States
  BY <1>3, <1>4, <1>5
<1>9. HeaderStates \subseteq States
  BY <1>4, <1>5 DEF HeaderStates
<1>. QED
  BY <1>6, <1>7, <1>8, <1>9

\* Every transition of the tables is sound.
LEMMA EdgesSound ==
    ASSUME NEW headers, NEW e \in RequestLine \cup HeaderLine \cup LineStart(headers)
    PROVE  Sound(e, headers)
<1>1. CASE e \in RequestLine
  <2>1. PICK on :
           \/ e = Edge("method_start", on, "method", "method")
           \/ e = Edge("method", on, "method", "method")
           \/ e = Edge("method", on, "uri", "nothing")
           \/ e = Edge("uri", on, "uri", "uri")
           \/ e = Edge("uri", on, "http_version_h", "nothing")
           \/ e = Edge("http_version_h", on, "http_version_t_1", "nothing")
           \/ e = Edge("http_version_t_1", on, "http_version_t_2", "nothing")
           \/ e = Edge("http_version_t_2", on, "http_version_p", "nothing")
           \/ e = Edge("http_version_p", on, "http_version_slash", "nothing")
           \/ e = Edge("http_version_slash", on, "http_version_major_start", "no_version")
           \/ on = Digit /\ e = Edge("http_version_major_start", on, "http_version_major",
                                     "major")
           \/ on = Digit /\ e = Edge("http_version_major", on, "http_version_major",
                                     "major")
           \/ e = Edge("http_version_major", on, "http_version_minor_start", "nothing")
           \/ on = Digit /\ e = Edge("http_version_minor_start", on, "http_version_minor",
                                     "minor")
           \/ on = Digit /\ e = Edge("http_version_minor", on, "http_version_minor",
                                     "minor")
           \/ e = Edge("http_version_minor", on, "expecting_newline_1", "nothing")
           \/ e = Edge("expecting_newline_1", on, "header_line_start", "nothing")
    BY <1>1, Zenon DEF RequestLine
  <2>2. e.to \in States
    BY <2>1, EdgeFields, StateNames
  <2>3. e.into \in Targets
    BY <2>1, EdgeFields DEF Targets
  <2>4. e.into \in {"major", "minor"} => e.on = Digit
    BY <2>1, EdgeFields
  <2>5. e.into \notin {"name", "value"} /\ e.to \notin HeaderStates
    BY <2>1, EdgeFields DEF HeaderStates
  <2>. QED
    BY <2>2, <2>3, <2>4, <2>5 DEF Sound
<1>2. CASE e \in HeaderLine
  <2>1. PICK on :
           \/ e = Edge("header_lws", on, "expecting_newline_2", "nothing")
           \/ e = Edge("header_lws", on, "header_lws", "nothing")
           \/ e = Edge("header_lws", on, "header_value", "value")
           \/ e = Edge("header_name", on, "space_before_header_value", "nothing")
           \/ e = Edge("header_name", on, "header_name", "name")
           \/ e = Edge("space_before_header_value", on, "header_value", "nothing")
           \/ e = Edge("header_value", on, "expecting_newline_2", "nothing")
           \/ e = Edge("header_value", on, "header_value", "value")
           \/ e = Edge("expecting_newline_2", on, "header_line_start", "nothing")
           \/ e = Edge("expecting_newline_3", on, "expecting_newline_3", "complete")
    BY <1>2, Zenon DEF HeaderLine
  <2>2. e.to \in States
    BY <2>1, EdgeFields, StateNames DEF HeaderStates
  <2>3. e.into \in Targets
    BY <2>1, EdgeFields DEF Targets
  <2>4. e.into \notin {"major", "minor"}
    BY <2>1, EdgeFields
  <2>5. e.into \in {"name", "value"} \/ e.to \in HeaderStates => e.from \in HeaderStates
    BY <2>1, EdgeFields DEF HeaderStates
  <2>. QED
    BY <2>2, <2>3, <2>4, <2>5 DEF Sound
<1>3. CASE e \in LineStart(headers)
  <2>1. PICK on :
           \/ e = Edge("header_line_start", on, "expecting_newline_3", "nothing")
           \/ e = Edge("header_line_start", on, "header_name", "new_header")
           \/ MayFold(headers) /\ e = Edge("header_line_start", on, "header_lws", "nothing")
    BY <1>3, Zenon DEF LineStart
  <2>2. e.to \in States
    BY <2>1, EdgeFields, StateNames DEF HeaderStates
  <2>3. e.into \in Targets
    BY <2>1, EdgeFields DEF Targets
  <2>4. e.into \notin {"major", "minor", "name", "value"}
    BY <2>1, EdgeFields
  <2>5. e.to \in HeaderStates => e.into = "new_header" \/ headers # <<>>
    BY <2>1, EdgeFields DEF HeaderStates, MayFold
  <2>. QED
    BY <2>2, <2>3, <2>4, <2>5 DEF Sound
<1>. QED
  BY <1>1, <1>2, <1>3

\* The transitions of a state leave it.
LEMMA EdgesOf ==
    ASSUME NEW s \in States, NEW headers, NEW e \in Edges(s, headers)
    PROVE  e \in RequestLine \cup HeaderLine \cup LineStart(headers) /\ e.from = s
<1>1. CASE s = "header_line_start"
  <2>1. e \in LineStart(headers)
    BY <1>1 DEF Edges
  <2>2. \E on, to, into : e = Edge("header_line_start", on, to, into)
    BY <2>1, Zenon DEF LineStart
  <2>3. e.from = "header_line_start"
    BY <2>2, EdgeFields
  <2>. QED
    BY <1>1, <2>1, <2>3
<1>2. CASE s # "header_line_start"
  BY <1>2 DEF Edges, Leaving
<1>. QED
  BY <1>1, <1>2

-----------------------------------------------------------------------------
\* The value of a digit.
LEMMA DigitValue ==
    ASSUME NEW c \in Digit
    PROVE  Value(c) \in 0..9
<1>1. PICK i \in 1..10 : Digits[i] = c
  BY Zenon DEF Digit
<1>2. (CHOOSE j \in 1..10 : Digits[j] = c) \in 1..10
  BY <1>1
<1> DEFINE chosen == CHOOSE j \in 1..10 : Digits[j] = c
<1> HIDE DEF chosen
<1>3. chosen \in 1..10
  BY <1>2 DEF chosen
<1>4. Value(c) = chosen - 1
  BY Zenon DEF Value, chosen
<1>. QED
  BY <1>3, <1>4

\* A byte appended to the name or the value of the last header.
LEMMA StoreInHeader ==
    ASSUME NEW r \in Request, NEW c \in Bytes, NEW into \in {"name", "value"},
           r.headers # <<>>
    PROVE  /\ Store(into, c, r) \in Request
           /\ Store(into, c, r).headers # <<>>
<1> DEFINE h == r.headers
           last == Len(h)
<1>1. h \in Seq(Header) /\ last \in 1..Len(h)
  BY DEF Request
<1>2. h[last] \in Header
  BY <1>1
<1>3. Append(h[last].name, c) \in Seq(Bytes) /\ Append(h[last].value, c) \in Seq(Bytes)
  BY <1>2 DEF Header
<1>4. \A x \in Header : [h EXCEPT ![last] = x] \in Seq(Header)
                        /\ [h EXCEPT ![last] = x] # <<>>
  BY <1>1
<1>5. \A m \in Seq(Bytes) : [h[last] EXCEPT !.name = m] \in Header
                           /\ [h[last] EXCEPT !.value = m] \in Header
  BY <1>2 DEF Header
<1>6. \A m \in Seq(Header) : m # <<>> => [r EXCEPT !.headers = m] \in Request
                                        /\ [r EXCEPT !.headers = m].headers # <<>>
  BY DEF Request
<1>7. CASE into = "name"
  <2>1. Store(into, c, r) = [r EXCEPT !.headers[last].name = Append(@, c)]
    BY <1>1, <1>7 DEF Store
  <2>2. @ = [r EXCEPT !.headers =
                [h EXCEPT ![last] = [h[last] EXCEPT !.name = Append(h[last].name, c)]]]
    BY <1>1 DEF Request
  <2>. QED
    BY <1>3, <1>4, <1>5, <1>6, <2>1, <2>2
<1>8. CASE into = "value"
  <2>1. Store(into, c, r) = [r EXCEPT !.headers[last].value = Append(@, c)]
    BY <1>1, <1>8 DEF Store
  <2>2. @ = [r EXCEPT !.headers =
                [h EXCEPT ![last] = [h[last] EXCEPT !.value = Append(h[last].value, c)]]]
    BY <1>1 DEF Request
  <2>. QED
    BY <1>3, <1>4, <1>5, <1>6, <2>1, <2>2
<1>. QED
  BY <1>7, <1>8

\* A byte that goes anywhere else.
LEMMA StoreElsewhere ==
    ASSUME NEW r \in Request, NEW c \in Bytes, NEW into \in Targets \ {"name", "value"},
           into \in {"major", "minor"} => c \in Digit
    PROVE  /\ Store(into, c, r) \in Request
           /\ into = "new_header" \/ r.headers # <<>> => Store(into, c, r).headers # <<>>
<1>1. /\ r.method \in Seq(Bytes) /\ r.uri \in Seq(Bytes) /\ r.headers \in Seq(Header)
      /\ r.major \in Nat /\ r.minor \in Nat
  BY DEF Request
<1>2. \A m \in Seq(Bytes) :
         /\ [r EXCEPT !.method = m] \in Request /\ [r EXCEPT !.uri = m] \in Request
         /\ [r EXCEPT !.method = m].headers = r.headers
         /\ [r EXCEPT !.uri = m].headers = r.headers
  BY DEF Request
<1>3. \A n \in Nat :
         /\ [r EXCEPT !.major = n] \in Request /\ [r EXCEPT !.minor = n] \in Request
         /\ [r EXCEPT !.major = 0, !.minor = 0] \in Request
         /\ [r EXCEPT !.major = n].headers = r.headers
         /\ [r EXCEPT !.minor = n].headers = r.headers
         /\ [r EXCEPT !.major = 0, !.minor = 0].headers = r.headers
  BY DEF Request
<1>4. \A m \in Seq(Header) : [r EXCEPT !.headers = m] \in Request
                            /\ [r EXCEPT !.headers = m].headers = m
  BY DEF Request
<1>5. CASE into \in {"nothing", "complete"}
  BY <1>5 DEF Store
<1>6. CASE into = "method"
  <2>1. Append(r.method, c) \in Seq(Bytes)
    BY <1>1
  <2>2. Store(into, c, r) = [r EXCEPT !.method = Append(r.method, c)]
    BY <1>6 DEF Store
  <2>. QED
    BY <1>2, <1>6, <2>1, <2>2
<1>7. CASE into = "uri"
  <2>1. Append(r.uri, c) \in Seq(Bytes)
    BY <1>1
  <2>2. Store(into, c, r) = [r EXCEPT !.uri = Append(r.uri, c)]
    BY <1>7 DEF Store
  <2>. QED
    BY <1>2, <1>7, <2>1, <2>2
<1>8. CASE into = "no_version"
  BY <1>3, <1>8 DEF Store
<1>9. CASE into = "major"
  <2>1. Value(c) \in Nat
    BY <1>9, DigitValue
  <2>2. r.major * 10 + Value(c) \in Nat
    BY <1>1, <2>1
  <2>. QED
    BY <1>3, <1>9, <2>2 DEF Store
<1>10. CASE into = "minor"
  <2>1. Value(c) \in Nat
    BY <1>10, DigitValue
  <2>2. r.minor * 10 + Value(c) \in Nat
    BY <1>1, <2>1
  <2>. QED
    BY <1>3, <1>10, <2>2 DEF Store
<1>11. CASE into = "new_header"
  <2>1. <<c>> \in Seq(Bytes) /\ <<>> \in Seq(Bytes)
    OBVIOUS
  <2>2. [name |-> <<c>>, value |-> <<>>] \in Header
    BY <2>1 DEF Header
  <2> DEFINE x == [name |-> <<c>>, value |-> <<>>]
  <2> HIDE DEF x
  <2>3. Append(r.headers, x) \in Seq(Header) /\ Append(r.headers, x) # <<>>
    BY <1>1, <2>2 DEF x
  <2>4. Store(into, c, r) = [r EXCEPT !.headers = Append(r.headers, x)]
    BY <1>11 DEF Store, x
  <2>. QED
    BY <1>4, <2>3, <2>4
<1>. QED
  BY <1>5, <1>6, <1>7, <1>8, <1>9, <1>10, <1>11 DEF Targets

\* One transition.
LEMMA AlongTyped ==
    ASSUME NEW p \in Parsers, NEW c \in Bytes,
           NEW e \in Edges(p.state, p.request.headers), c \in e.on
    PROVE  Along(e, p, c) \in Parsers
<1>1. p.state \in States /\ p.request \in Request
  BY DEF Parsers
<1>2. e.from = p.state /\ Sound(e, p.request.headers)
  BY <1>1, EdgesOf, EdgesSound
<1>3. e.into \in {"name", "value"} => p.request.headers # <<>>
  BY <1>2 DEF Sound, Parsers
<1> DEFINE r == Store(e.into, c, p.request)
<1>4. r \in Request
  BY <1>1, <1>2, <1>3, StoreInHeader, StoreElsewhere DEF Sound
<1>5. e.to \in HeaderStates => r.headers # <<>>
  <2>1. e.from \in HeaderStates => p.request.headers # <<>>
    BY <1>2 DEF Parsers
  <2>. QED
    BY <1>1, <1>2, <1>3, <2>1, StoreInHeader, StoreElsewhere DEF Sound
<1>6. Along(e, p, c) = [state |-> e.to,
                        verdict |-> IF e.into = "complete" THEN "ok" ELSE "more",
                        request |-> r]
  BY <1>3 DEF Along
<1> HIDE DEF r
<1>. QED
  BY <1>2, <1>4, <1>5, <1>6 DEF Sound, Parsers

\* consume and the loop around it keep the types, and never read the last
\* header where there is none.
LEMMA FeedTyped ==
    ASSUME NEW p \in Parsers, NEW c \in Bytes
    PROVE  Feed(p, c) \in Parsers
<1> DEFINE taken == {e \in Edges(p.state, p.request.headers) : c \in e.on}
<1>1. CASE p.verdict # "more"
  BY <1>1 DEF Feed
<1>2. CASE p.verdict = "more" /\ taken = {}
  BY <1>2 DEF Feed, Consume, Parsers
<1>3. CASE p.verdict = "more" /\ taken # {}
  <2>1. \A e \in taken : Along(e, p, c) \in Parsers
    BY AlongTyped
  <2>2. Feed(p, c) = CHOOSE next \in {Along(e, p, c) : e \in taken} : TRUE
    BY <1>3 DEF Feed, Consume
  <2>3. Feed(p, c) \in {Along(e, p, c) : e \in taken}
    BY <1>3, <2>2
  <2>. QED
    BY <2>1, <2>3
<1>. QED
  BY <1>1, <1>2, <1>3

\* A parser as it starts.
LEMMA FreshTyped == Fresh \in Parsers
<1>1. <<>> \in Seq(Bytes) /\ <<>> \in Seq(Header)
  OBVIOUS
<1>2. NoRequest \in Request
  BY <1>1 DEF NoRequest, Request
<1>. QED
  BY <1>2, StateNames DEF Fresh, Parsers, HeaderStates

\* What parse makes of its input, byte for byte.
LEMMA ParseSteps ==
    ASSUME NEW p \in Parsers, NEW input \in Seq(Bytes)
    PROVE  \E after \in [0..Len(input) -> Parsers] :
              /\ after[0] = p
              /\ \A i \in 1..Len(input) : after[i] = Feed(after[i - 1], input[i])
              /\ Parse(p, input) = after[Len(input)]
<1> DEFINE n == Len(input)
           Body(f, i) == IF i = 0 THEN p
                         ELSE CHOOSE next \in {Feed(before, input[i]) : before \in {f[i - 1]}} : TRUE
           G == [i \in 0..n |-> [f \in [0..n -> Parsers] |-> Body(f, i)]]
           after[i \in 0..n] == Body(after, i)
<1>1. n \in Nat /\ \A i \in 1..n : input[i] \in Bytes
  OBVIOUS
<1>2. ASSUME NEW f, NEW i \in 1..n
      PROVE  /\ Body(f, i) = Feed(f[i - 1], input[i])
             /\ f[i - 1] \in Parsers => Body(f, i) \in Parsers
  <2>1. Body(f, i) = CHOOSE next \in {Feed(f[i - 1], input[i])} : TRUE
    BY <1>1
  <2>2. Body(f, i) = Feed(f[i - 1], input[i])
    BY <2>1
  <2>. QED
    BY <1>1, <1>2, <2>2, FeedTyped
<1>3. \A f \in [0..n -> Parsers], i \in 0..n : Body(f, i) \in Parsers
  BY <1>1, <1>2
<1>16. \A f : Body(f, 0) = p
  OBVIOUS
<1> HIDE DEF Body
<1>4. G \in [0..n -> [[0..n -> Parsers] -> Parsers]]
  BY <1>3
<1>5. \A i \in 0..n : \A f, g \in [0..n -> Parsers] :
         (\A j \in 0..i - 1 : f[j] = g[j]) => Body(f, i) = Body(g, i)
  BY <1>1 DEF Body
<1>6. \A i \in 0..n : \A f, g \in [0..n -> Parsers] :
         (\A j \in 0..i - 1 : f[j] = g[j]) => G[i][f] = G[i][g]
  BY <1>5
<1>7. PICK h \in [0..n -> Parsers] : \A i \in 0..n : h[i] = G[i][h]
  <2>1. Parsers # {}
    OBVIOUS
  <2>2. n \in Nat /\ G \in Steps(n, Parsers) /\ LooksBack(G, n, Parsers)
    BY <1>1, <1>4, <1>6 DEF Steps, LooksBack
  <2> HIDE DEF G, n
  <2>. QED
    BY <2>1, <2>2, Recursion
<1> HIDE DEF n
<1>8. h = [i \in 0..n |-> Body(h, i)]
  BY <1>7 DEF G
<1> DEFINE Solves(f) == f = [i \in 0..n |-> Body(f, i)]
<1>9. after = CHOOSE f : Solves(f)
  OBVIOUS
<1>10. Solves(after)
  BY <1>8, <1>9
<1>11. Parse(p, input) = after[n]
  BY DEF Parse, after, Body, n
<1> HIDE DEF after
<1>12. 0 \in 0..n /\ \A i \in 1..n : i \in 0..n
  BY <1>1
<1>13. after[0] = p /\ \A i \in 1..n : after[i] = Feed(after[i - 1], input[i])
  BY <1>2, <1>16, <1>10, <1>12
<1> DEFINE T == {i \in 0..n : after[i] \notin Parsers}
<1>14. ASSUME T # {} PROVE FALSE
  <2>1. PICK m \in T : \A i \in T : m <= i
    <3>1. T \subseteq Nat
      BY <1>1
    <3> HIDE DEF T
    <3>. QED
      BY <1>14, <3>1, Least
  <2>2. after[m] = Body(after, m)
    BY <1>10
  <2>3. m # 0
    BY <1>13, <2>1
  <2>4. m \in 1..n /\ after[m - 1] \in Parsers
    <3>1. m \in 1..n /\ m - 1 \in 0..n /\ ~(m <= m - 1)
      BY <1>1, <2>3
    <3>2. m - 1 \notin T
      BY <2>1, <3>1
    <3>. QED
      BY <3>1, <3>2
  <2>. QED
    BY <1>2, <2>2, <2>4
<1>15. after \in [0..n -> Parsers]
  <2>1. \A i \in 0..n : after[i] \in Parsers
    BY <1>14
  <2>2. after = [i \in 0..n |-> after[i]]
    BY <1>10
  <2>. QED
    BY <2>1, <2>2
<1>. QED
  BY <1>11, <1>13, <1>15 DEF n


-----------------------------------------------------------------------------
(* However a text is cut into reads and whatever its bytes are, parse keeps   *)
(* the types of the request it fills and never touches a header there is not  *)
(* (RequestParser.cpp:27-283, RequestParser.h:33-47).                         *)
THEOREM ParseTyped ==
    ASSUME NEW p \in Parsers, NEW input \in Seq(Bytes)
    PROVE  Parse(p, input) \in Parsers
<1>1. PICK after \in [0..Len(input) -> Parsers] : Parse(p, input) = after[Len(input)]
  BY ParseSteps
<1>2. Len(input) \in 0..Len(input)
  OBVIOUS
<1>. QED
  BY <1>1, <1>2

-----------------------------------------------------------------------------
(* Places of a text *)

\* o lists the numbers of P in their order.
Lists(o, P) ==
    /\ o \in Seq(Nat)
    /\ \A i, j \in 1..Len(o) : i < j => o[i] < o[j]
    /\ P = {o[i] : i \in 1..Len(o)}

\* A list in order is the one that Ascending makes.
LEMMA AscendingLists ==
    ASSUME NEW P, NEW o, Lists(o, P)
    PROVE  Ascending(P) = o
<1> DEFINE n == Len(o)
           below(x) == {j \in P : j < x}
<1>1. /\ n \in Nat /\ o \in [1..n -> Nat] /\ \A i \in 1..n : o[i] \in Nat /\ o[i] \in P
      /\ \A x \in P : \E i \in 1..n : o[i] = x
      /\ \A i, j \in 1..n : i < j => o[i] < o[j]
  BY DEF Lists
<1> HIDE DEF n
<1>2. ASSUME NEW k \in 0..n, NEW Q,
             Q = {o[i] : i \in 1..k}
      PROVE  Cardinality(Q) = k
  <2> DEFINE f == [i \in 1..k |-> o[i]]
  <2>1. f \in Bijection(1..k, Q)
    <3>1. f \in [1..k -> Q]
      BY <1>2
    <3>2. \A i, j \in 1..k : f[i] = f[j] => i = j
      <4>1. \A i, j \in 1..k : i \in 1..n /\ j \in 1..n /\ (i < j \/ j < i \/ i = j)
        BY <1>1
      <4>. QED
        BY <1>1, <4>1
    <3>3. \A x \in Q : \E i \in 1..k : f[i] = x
      BY <1>2
    <3>. QED
      BY <3>1, <3>2, <3>3 DEF Bijection, Injection, Surjection, IsInjective
  <2>2. IsFiniteSet(1..k) /\ Cardinality(1..k) = k
    BY <1>1, FS_Interval
  <2>3. ExistsBijection(1..k, Q)
    BY <2>1 DEF ExistsBijection
  <2>. QED
    BY <2>2, <2>3, FS_Bijection
<1>3. ASSUME NEW i \in 1..n PROVE Cardinality(below(o[i])) = i - 1
  <2>1. below(o[i]) = {o[j] : j \in 1..i - 1}
    <3>1. \A j \in 1..n : o[j] < o[i] <=> j \in 1..i - 1
      <4>1. \A j \in 1..n : j < i \/ j = i \/ i < j
        BY <1>1
      <4>2. \A j \in 1..n : j < i <=> j \in 1..i - 1
        BY <1>1
      <4>. QED
        BY <1>1, <4>1, <4>2
    <3>. QED
      BY <1>1, <3>1
  <2>2. i - 1 \in 0..n
    BY <1>1
  <2> HIDE DEF below
  <2>. QED
    BY <1>2, <2>1, <2>2
<1>4. Cardinality(P) = n
  <2>1. P = {o[i] : i \in 1..n} /\ n \in 0..n
    BY <1>1
  <2>. QED
    BY <1>2, <2>1
<1>5. ASSUME NEW i \in 1..n
      PROVE  (CHOOSE x \in P : Cardinality(below(x)) = i - 1) = o[i]
  <2>1. o[i] \in P /\ Cardinality(below(o[i])) = i - 1
    BY <1>1, <1>3
  <2>2. ASSUME NEW x \in P, Cardinality(below(x)) = i - 1 PROVE x = o[i]
    <3>1. PICK j \in 1..n : o[j] = x
      BY <1>1
    <3>2. j - 1 = i - 1
      BY <1>3, <2>2, <3>1
    <3>. QED
      BY <1>1, <3>1, <3>2
  <2> HIDE DEF below
  <2>. QED
    BY <2>1, <2>2
<1>6. Ascending(P) = [i \in 1..n |-> CHOOSE x \in P : Cardinality(below(x)) = i - 1]
  BY <1>4 DEF Ascending
<1> HIDE DEF below
<1>7. Ascending(P) = [i \in 1..n |-> o[i]]
  BY <1>5, <1>6
<1>. QED
  BY <1>1, <1>7

\* A list goes on with a greater number.
LEMMA ListsMore ==
    ASSUME NEW P, NEW o, Lists(o, P), NEW m \in Nat, \A x \in P : x < m
    PROVE  Lists(Append(o, m), P \cup {m})
<1> DEFINE n == Len(o)
           q == Append(o, m)
<1>1. /\ n \in Nat /\ o \in Seq(Nat)
      /\ \A i \in 1..n : o[i] \in P
      /\ \A i, j \in 1..n : i < j => o[i] < o[j]
      /\ P = {o[i] : i \in 1..n}
  BY DEF Lists
<1>2. /\ q \in Seq(Nat) /\ Len(q) = n + 1 /\ q[n + 1] = m
      /\ \A i \in 1..n : q[i] = o[i]
  BY <1>1
<1> HIDE DEF q, n
<1>3. \A i \in 1..n + 1 : i \in 1..n \/ i = n + 1
  BY <1>1
<1>4. ASSUME NEW i \in 1..n + 1, NEW j \in 1..n + 1, i < j PROVE q[i] < q[j]
  <2>1. i \in 1..n
    BY <1>1, <1>4
  <2>2. CASE j \in 1..n
    BY <1>1, <1>2, <1>4, <2>1, <2>2
  <2>3. CASE j = n + 1
    BY <1>1, <1>2, <2>1, <2>3
  <2>. QED
    BY <1>3, <2>2, <2>3
<1>5. P \cup {m} = {q[i] : i \in 1..n + 1}
  <2>1. \A i \in 1..n : i \in 1..n + 1
    BY <1>1
  <2>2. n + 1 \in 1..n + 1
    BY <1>1
  <2>. QED
    BY <1>1, <1>2, <1>3, <2>1, <2>2
<1>. QED
  BY <1>2, <1>4, <1>5 DEF Lists, q

\* The first place of those that satisfy a condition, by the operator that
\* chooses it.
LEMMA LeastIs ==
    ASSUME NEW T, T \subseteq Nat, NEW x \in T, \A y \in T : x <= y
    PROVE  Min(T) = x
<1>1. Min(T) \in T /\ \A y \in T : Min(T) <= y
  BY MinIsLeast
<1>2. Min(T) <= x /\ x <= Min(T) /\ Min(T) \in Nat /\ x \in Nat
  BY <1>1
<1>. QED
  BY <1>2

\* A function on the first numbers is a sequence.
LEMMA FunctionIsSeq ==
    ASSUME NEW S, NEW k \in Nat, NEW f \in [1..k -> S]
    PROVE  f \in Seq(S) /\ Len(f) = k
OBVIOUS

\* A text and the byte behind it.
LEMMA TextMore ==
    ASSUME NEW S, NEW t \in Seq(S), NEW b \in S
    PROVE  LET more == Append(t, b) IN
           /\ more \in Seq(S) /\ Len(t) \in Nat
           /\ Len(more) = Len(t) + 1 /\ more[Len(t) + 1] = b
           /\ \A i \in 1..Len(t) : more[i] = t[i]
OBVIOUS

\* A part of a text, and one that ends with it.
LEMMA PartSame ==
    ASSUME NEW S, NEW t \in Seq(S), NEW b \in S, NEW i \in Nat \ {0}, NEW k \in Nat, k <= Len(t)
    PROVE  SubSeq(Append(t, b), i, k) = SubSeq(t, i, k)
<1> DEFINE more == Append(t, b)
<1>1. /\ more \in Seq(S) /\ Len(t) \in Nat /\ \A j \in 1..Len(t) : more[j] = t[j]
      /\ \A j \in 1..Len(t) : t[j] \in S
  BY TextMore
<1> HIDE DEF more
<1>2. \A j \in i..k : j \in 1..Len(t)
  BY <1>1
<1>3. /\ SubSeq(t, i, k) \in Seq(S)
      /\ Len(SubSeq(t, i, k)) = IF i <= k THEN k - i + 1 ELSE 0
      /\ \A j \in 1..k - i + 1 : SubSeq(t, i, k)[j] = t[i + j - 1]
  BY <1>1, <1>2, SubSeqProperties
<1>4. /\ SubSeq(more, i, k) \in Seq(S)
      /\ Len(SubSeq(more, i, k)) = IF i <= k THEN k - i + 1 ELSE 0
      /\ \A j \in 1..k - i + 1 : SubSeq(more, i, k)[j] = more[i + j - 1]
  BY <1>1, <1>2, SubSeqProperties
<1>5. \A j \in 1..Len(SubSeq(t, i, k)) : SubSeq(more, i, k)[j] = SubSeq(t, i, k)[j]
  <2>1. \A j \in 1..Len(SubSeq(t, i, k)) : j \in 1..k - i + 1 /\ i + j - 1 \in i..k
    BY <1>3
  <2>. QED
    BY <1>1, <1>2, <1>3, <1>4, <2>1
<1>. QED
  BY <1>3, <1>4, <1>5, SeqEqual DEF more

\* A part of a text that goes to its end takes the byte behind it.
LEMMA PartMore ==
    ASSUME NEW S, NEW t \in Seq(S), NEW b \in S, NEW i \in 1..Len(t) + 1
    PROVE  SubSeq(Append(t, b), i, Len(t) + 1) = Append(SubSeq(t, i, Len(t)), b)
<1> DEFINE more == Append(t, b)
           n == Len(t)
           x == SubSeq(t, i, n)
           y == SubSeq(more, i, n + 1)
<1>0. x = SubSeq(t, i, n) /\ y = SubSeq(more, i, n + 1)
  OBVIOUS
<1> HIDE DEF x, y
<1>1. /\ more \in Seq(S) /\ n \in Nat /\ \A j \in 1..n : more[j] = t[j]
      /\ more[n + 1] = b
      /\ \A j \in 1..n : t[j] \in S
  BY TextMore
<1> HIDE DEF more, n
<1>2. \A j \in i..n : j \in 1..n
  BY <1>1 DEF n
<1>3. /\ x \in Seq(S) /\ Len(x) = n - i + 1
      /\ \A j \in 1..n - i + 1 : x[j] = t[i + j - 1]
  <2>1. n - i + 1 = IF i <= n THEN n - i + 1 ELSE 0
    BY <1>1 DEF n
  <2>. QED
    BY <1>0, <1>1, <1>2, <2>1, SubSeqProperties DEF n
<1>4. /\ y \in Seq(S) /\ Len(y) = n + 1 - i + 1
      /\ \A j \in 1..n + 1 - i + 1 : y[j] = more[i + j - 1]
  <2>1. i <= n + 1 /\ i \in Int /\ n + 1 \in Int
    BY <1>1 DEF n
  <2>2. \A j \in i..n + 1 : more[j] \in S
    BY <1>1, <2>1 DEF n
  <2>3. n + 1 - i + 1 = IF i <= n + 1 THEN n + 1 - i + 1 ELSE 0
    BY <1>1, <2>1 DEF n
  <2>4. \A k \in Int : (\A j \in i..k : more[j] \in S) =>
           /\ SubSeq(more, i, k) \in Seq(S)
           /\ Len(SubSeq(more, i, k)) = IF i <= k THEN k - i + 1 ELSE 0
           /\ \A j \in 1..k - i + 1 : SubSeq(more, i, k)[j] = more[i + j - 1]
    BY <2>1, SubSeqProperties
  <2>5. y \in Seq(S) /\ Len(y) = IF i <= n + 1 THEN n + 1 - i + 1 ELSE 0
    BY <1>0, <1>1, <2>1, <2>2, <2>4
  <2>6. \A j \in 1..n + 1 - i + 1 : y[j] = more[i + j - 1]
    BY <1>0, <1>1, <2>1, <2>2, <2>4
  <2>. QED
    BY <2>3, <2>5, <2>6
<1> DEFINE z == Append(x, b)
<1>5. z \in Seq(S) /\ Len(z) = Len(x) + 1 /\ z[Len(x) + 1] = b
      /\ \A j \in 1..Len(x) : z[j] = x[j]
  <2> SUFFICES x \in Seq(S) /\ b \in S
    BY TextMore
  <2>. QED
    BY <1>3
<1> HIDE DEF z
<1>6. \A j \in 1..Len(y) : y[j] = z[j]
  <2>1. ASSUME NEW j \in 1..Len(x) PROVE y[j] = z[j]
    <3>1. j \in 1..n - i + 1 /\ j \in 1..n + 1 - i + 1 /\ i + j - 1 \in 1..n
      BY <1>1, <1>3, <2>1 DEF n
    <3>. QED
      BY <1>1, <1>3, <1>4, <1>5, <2>1, <3>1
  <2>2. y[Len(x) + 1] = b
    <3>1. Len(x) + 1 \in 1..n + 1 - i + 1 /\ i + (Len(x) + 1) - 1 = n + 1
      BY <1>1, <1>3 DEF n
    <3>. QED
      BY <1>1, <1>4, <3>1
  <2>3. \A j \in 1..Len(y) : j \in 1..Len(x) \/ j = Len(x) + 1
    BY <1>1, <1>3, <1>4 DEF n
  <2>. QED
    BY <1>5, <2>1, <2>2, <2>3
<1>7. Len(y) = Len(z)
  BY <1>1, <1>3, <1>4, <1>5 DEF n
<1>8. y = z
  BY <1>4, <1>5, <1>6, <1>7, SeqEqual
<1>. QED
  BY <1>0, <1>8 DEF z, n, more

\* The bytes at more places.
LEMMA BytesMore ==
    ASSUME NEW t \in Seq(Bytes), NEW b \in Bytes, NEW P, P \subseteq 1..Len(t),
           NEW o, Lists(o, P)
    PROVE  /\ Lists(Append(o, Len(t) + 1), P \cup {Len(t) + 1})
           /\ BytesAt(t, P) \in Seq(Bytes)
           /\ BytesAt(Append(t, b), P) = BytesAt(t, P)
           /\ BytesAt(Append(t, b), P \cup {Len(t) + 1}) = Append(BytesAt(t, P), b)
<1> DEFINE n == Len(t)
           more == Append(t, b)
           q == Append(o, n + 1)
           x == BytesAt(t, P)
           y == BytesAt(more, P \cup {n + 1})
<1>1. /\ more \in Seq(Bytes) /\ n \in Nat /\ more[n + 1] = b
      /\ \A i \in 1..n : more[i] = t[i] /\ t[i] \in Bytes
  BY TextMore
<1>2. Lists(q, P \cup {n + 1})
  <2>1. n + 1 \in Nat /\ \A i \in P : i < n + 1
    BY <1>1
  <2> HIDE DEF n
  <2>. QED
    BY <2>1, ListsMore
<1> HIDE DEF more, n
<1>3. /\ Len(o) \in Nat /\ o \in Seq(Nat) /\ \A i \in 1..Len(o) : o[i] \in 1..n
      /\ DOMAIN o = 1..Len(o)
  BY DEF Lists, n
<1>4. q \in Seq(Nat) /\ Len(q) = Len(o) + 1 /\ q[Len(o) + 1] = n + 1 /\ DOMAIN q = 1..Len(o) + 1
      /\ \A i \in 1..Len(o) : q[i] = o[i]
  BY <1>1, <1>3
<1> HIDE DEF q
<1>5. \A text : BytesAt(text, P) = [i \in 1..Len(o) |-> text[o[i]]]
  <2>1. Ascending(P) = o
    BY AscendingLists
  <2>. QED
    BY <1>3, <2>1 DEF BytesAt
<1>6. y = [i \in 1..Len(o) + 1 |-> more[q[i]]]
  <2>1. Ascending(P \cup {n + 1}) = q
    BY <1>2, AscendingLists
  <2>. QED
    BY <1>4, <2>1 DEF BytesAt
<1>7. x \in Seq(Bytes) /\ Len(x) = Len(o) /\ \A i \in 1..Len(o) : x[i] = t[o[i]]
  <2>1. x = [i \in 1..Len(o) |-> t[o[i]]]
    BY <1>5
  <2>2. x \in [1..Len(o) -> Bytes]
    BY <1>1, <1>3, <2>1
  <2> HIDE DEF x
  <2>3. x \in Seq(Bytes) /\ Len(x) = Len(o)
    BY <1>3, <2>2, FunctionIsSeq
  <2>. QED
    BY <2>1, <2>3
<1>8. BytesAt(more, P) = x
  BY <1>1, <1>3, <1>5
<1>9. y \in Seq(Bytes) /\ Len(y) = Len(o) + 1 /\ y[Len(o) + 1] = b
      /\ \A i \in 1..Len(o) : y[i] = t[o[i]]
  <2>1. \A i \in 1..Len(o) : i \in 1..Len(o) + 1 /\ more[q[i]] = t[o[i]] /\ t[o[i]] \in Bytes
    BY <1>1, <1>3, <1>4, SMTT(30)
  <2>2. \A i \in 1..Len(o) + 1 : i \in 1..Len(o) \/ i = Len(o) + 1
    BY <1>3
  <2>3. Len(o) + 1 \in 1..Len(o) + 1 /\ more[q[Len(o) + 1]] = b
    BY <1>1, <1>3, <1>4
  <2> HIDE DEF y
  <2>4. y \in [1..Len(o) + 1 -> Bytes]
    <3>1. \A i \in 1..Len(o) + 1 : more[q[i]] \in Bytes
      BY <2>1, <2>2, <2>3
    <3>. QED
      BY <1>6, <3>1
  <2>5. y \in Seq(Bytes) /\ Len(y) = Len(o) + 1
    BY <1>3, <2>4
  <2>. QED
    BY <1>6, <2>1, <2>3, <2>5
<1> HIDE DEF x, y
<1>10. y = Append(x, b)
  <2>1. Append(x, b) \in Seq(Bytes) /\ Len(Append(x, b)) = Len(x) + 1
        /\ Append(x, b)[Len(x) + 1] = b /\ \A i \in 1..Len(x) : Append(x, b)[i] = x[i]
    BY <1>7, TextMore
  <2>2. \A i \in 1..Len(y) : i \in 1..Len(o) \/ i = Len(o) + 1
    BY <1>3, <1>9
  <2>3. \A i \in 1..Len(y) : y[i] = Append(x, b)[i]
    BY <1>7, <1>9, <2>1, <2>2
  <2>. QED
    BY <1>7, <1>9, <2>1, <2>3, SeqEqual
<1>. QED
  BY <1>2, <1>7, <1>8, <1>10 DEF x, y, n, more, q

\* What the classes of bytes have in common and what not.
LEMMA Classes ==
    /\ Token \subseteq Text /\ Digit \subseteq Text /\ Text \subseteq Bytes
    /\ {" ", ":", ".", "H", "T", "P", "/"} \subseteq Text
    /\ {"CR", "LF", "HT"} \cap Text = {}
    /\ {" ", ":", "HT", "CR", "LF"} \cap Token = {}
    /\ {" ", "."} \cap Digit = {}
    /\ Lws = {" ", "HT"}
<1>1. \A d \in Digit : d \in {"0", "1", "2", "3", "4", "5", "6", "7", "8", "9"}
  BY DEF Digit, Digits
<1>2. Digit \subseteq Bytes /\ Text = Bytes \ Ctl
  BY DEF Bytes, Text
<1>3. Digit \subseteq Text /\ {" ", "."} \cap Digit = {}
  BY <1>1, <1>2 DEF Ctl
<1>4. {" ", ":", ".", "H", "T", "P", "/"} \subseteq Text
  BY <1>2 DEF Bytes, Ctl, TSpecial, Plain
<1>5. Token \subseteq Text /\ {" ", ":", "HT", "CR", "LF"} \cap Token = {}
  BY <1>2 DEF Token, Ctl, TSpecial
<1>. QED
  BY <1>2, <1>3, <1>4, <1>5 DEF Lws, Ctl

-----------------------------------------------------------------------------
(* Lines *)

\* The ends and starts of lines in a text and the byte behind it.
LEMMA EndsMore ==
    ASSUME NEW t \in Seq(Bytes), NEW b \in Bytes, NEW n, n = Len(t), NEW more, more = Append(t, b)
    PROVE  /\ Ends(t) \subseteq 1..n - 1
           /\ Ends(more) = Ends(t) \cup (IF n > 0 /\ t[n] = "CR" /\ b = "LF" THEN {n} ELSE {})
           /\ LineStarts(t) \subseteq 1..n + 1
           /\ LineStarts(more) = LineStarts(t)
                 \cup (IF n > 0 /\ t[n] = "CR" /\ b = "LF" THEN {n + 2} ELSE {})
<1>1. /\ more \in Seq(Bytes) /\ n \in Nat /\ Len(more) = n + 1 /\ more[n + 1] = b
      /\ \A i \in 1..n : more[i] = t[i]
  BY TextMore
<1>2. Ends(t) \subseteq 1..n - 1
  BY <1>1 DEF Ends
<1>3. ASSUME NEW i PROVE i \in Ends(more) <=> i \in Ends(t) \/ (i = n /\ n > 0 /\ t[n] = "CR" /\ b = "LF")
  <2>1. i \in Ends(more) <=> i \in 1..n /\ more[i] = "CR" /\ more[i + 1] = "LF"
    BY <1>1 DEF Ends
  <2>2. CASE i \in 1..n - 1
    <3>1. i \in 1..n /\ i + 1 \in 1..n /\ i # n
      BY <1>1, <2>2
    <3>2. i \in Ends(t) <=> t[i] = "CR" /\ t[i + 1] = "LF"
      BY <1>1, <2>2 DEF Ends
    <3>. QED
      BY <1>1, <2>1, <3>1, <3>2
  <2>3. CASE i \notin 1..n - 1
    <3>1. i \in 1..n <=> i = n /\ n > 0
      BY <1>1, <2>3
    <3>. QED
      BY <1>1, <1>2, <2>1, <2>3, <3>1
  <2>. QED
    BY <2>2, <2>3
<1>4. Ends(more) = Ends(t) \cup (IF n > 0 /\ t[n] = "CR" /\ b = "LF" THEN {n} ELSE {})
  BY <1>3
<1>5. LineStarts(t) \subseteq 1..n + 1
  BY <1>1, <1>2 DEF LineStarts
<1>6. LineStarts(more) = LineStarts(t) \cup (IF n > 0 /\ t[n] = "CR" /\ b = "LF" THEN {n + 2} ELSE {})
  <2>1. CASE n > 0 /\ t[n] = "CR" /\ b = "LF"
    BY <1>4, <2>1 DEF LineStarts
  <2>2. CASE ~(n > 0 /\ t[n] = "CR" /\ b = "LF")
    BY <1>4, <2>2 DEF LineStarts
  <2>. QED
    BY <2>1, <2>2
<1>. QED
  BY <1>2, <1>4, <1>5, <1>6

\* The line from s ends at e.
Spans(t, s, e) == e \in Ends(t) /\ s <= e /\ \A i \in Ends(t) : i < s \/ e <= i

\* The line from s, byte by byte.
LEMMA LineSpanned ==
    ASSUME NEW t \in Seq(Bytes), NEW s \in Nat \ {0}, NEW e, Spans(t, s, e)
    PROVE  /\ Line(t, s) = SubSeq(t, s, e - 1)
           /\ Line(t, s) \in Seq(Bytes) /\ Len(Line(t, s)) = e - s
           /\ \A i \in 1..e - s : Line(t, s)[i] = t[s - 1 + i]
<1>0. Len(t) \in Nat /\ Ends(t) \subseteq 1..Len(t) - 1 /\ \A i \in 1..Len(t) : t[i] \in Bytes
  BY DEF Ends
<1>1. Min({i \in Ends(t) : i >= s}) = e
  <2>1. {i \in Ends(t) : i >= s} \subseteq Nat
    BY <1>0
  <2>2. e \in {i \in Ends(t) : i >= s}
    BY <1>0 DEF Spans
  <2>3. \A i \in {i \in Ends(t) : i >= s} : e <= i
    BY <1>0 DEF Spans
  <2>. QED
    BY <2>1, <2>2, <2>3, LeastIs
<1>2. e \in 1..Len(t) - 1 /\ s <= e
  BY <1>0 DEF Spans
<1>3. \A i \in s..e - 1 : i \in 1..Len(t)
  BY <1>0, <1>2
<1>4. /\ SubSeq(t, s, e - 1) \in Seq(Bytes)
      /\ Len(SubSeq(t, s, e - 1)) = IF s <= e - 1 THEN e - 1 - s + 1 ELSE 0
      /\ \A i \in 1..e - 1 - s + 1 : SubSeq(t, s, e - 1)[i] = t[s + i - 1]
  <2>1. s \in Int /\ e - 1 \in Int /\ \A i \in s..e - 1 : t[i] \in Bytes
    BY <1>0, <1>2, <1>3
  <2>. QED
    BY <1>0, <1>2, <2>1, SubSeqProperties
<1>5. Line(t, s) = SubSeq(t, s, e - 1)
  BY <1>1 DEF Line
<1>6. (IF s <= e - 1 THEN e - 1 - s + 1 ELSE 0) = e - s /\ e - 1 - s + 1 = e - s
      /\ \A i \in 1..e - s : s - 1 + i = s + i - 1
  BY <1>0, <1>2
<1>. QED
  BY <1>4, <1>5, <1>6

\* A line that has an end has a first one.
LEMMA LineEnds ==
    ASSUME NEW t \in Seq(Bytes), NEW s \in Nat \ {0}, NEW i \in Ends(t), s <= i
    PROVE  \E e : Spans(t, s, e) /\ e <= i
<1> DEFINE T == {j \in Ends(t) : s <= j}
<1>1. Len(t) \in Nat /\ Ends(t) \subseteq 1..Len(t) - 1
  BY DEF Ends
<1>2. i \in T /\ T \subseteq Nat
  BY <1>1
<1> HIDE DEF T
<1>3. PICK e \in T : \A j \in T : e <= j
  BY <1>2, Least
<1>4. Spans(t, s, e)
  <2>1. \A j \in Ends(t) : j < s \/ j \in T
    BY <1>1 DEF T
  <2>2. e \in Ends(t) /\ s <= e
    BY DEF T
  <2>. QED
    BY <1>3, <2>1, <2>2 DEF Spans
<1>. QED
  BY <1>2, <1>3, <1>4

-----------------------------------------------------------------------------
(* Numbers *)

\* The number some digits are comes of the numbers the first of them are.
LEMMA NumberUpto ==
    ASSUME NEW d \in Seq(Digit)
    PROVE  \E f \in [0..Len(d) -> Nat] :
              /\ f[0] = 0 /\ \A i \in 1..Len(d) : f[i] = f[i - 1] * 10 + Value(d[i])
              /\ NumberOf(d) = f[Len(d)]
<1> DEFINE n == Len(d)
           Body(f, i) == IF i = 0 THEN 0 ELSE f[i - 1] * 10 + Value(d[i])
           G == [i \in 0..n |-> [f \in [0..n -> Nat] |-> Body(f, i)]]
           Solves(f) == f = [i \in 0..n |-> Body(f, i)]
<1>1. n \in Nat /\ \A i \in 1..n : d[i] \in Digit /\ Value(d[i]) \in Nat
  BY DigitValue
<1>2. NumberOf(d) = (CHOOSE f : Solves(f))[n]
  BY DEF NumberOf
<1> HIDE DEF n
<1>3. \A f \in [0..n -> Nat], i \in 0..n : Body(f, i) \in Nat
  <2>1. ASSUME NEW f \in [0..n -> Nat], NEW i \in 1..n PROVE f[i - 1] * 10 + Value(d[i]) \in Nat
    <3>1. f[i - 1] \in Nat
      BY <1>1
    <3>2. \A x, y \in Nat : x * 10 + y \in Nat
      OBVIOUS
    <3>. QED
      BY <1>1, <3>1, <3>2
  <2>. QED
    BY <1>1, <2>1, SMTT(30)
<1>4. \A i \in 0..n : \A f, g \in [0..n -> Nat] :
         (\A j \in 0..i - 1 : f[j] = g[j]) => Body(f, i) = Body(g, i)
  BY <1>1
<1> HIDE DEF Body
<1>5. PICK h \in [0..n -> Nat] : \A i \in 0..n : h[i] = G[i][h]
  <2>1. n \in Nat /\ G \in Steps(n, Nat) /\ LooksBack(G, n, Nat) /\ Nat # {}
    BY <1>1, <1>3, <1>4 DEF Steps, LooksBack
  <2> HIDE DEF G
  <2>2. PICK S : S = Nat
    OBVIOUS
  <2>3. n \in Nat /\ G \in Steps(n, S) /\ LooksBack(G, n, S) /\ S # {}
    BY <2>1, <2>2
  <2>4. \E h \in [0..n -> S] : \A i \in 0..n : h[i] = G[i][h]
    BY <2>3, Recursion
  <2>. QED
    BY <2>2, <2>4
<1>6. Solves(h)
  BY <1>5
<1>7. Solves(CHOOSE f : Solves(f))
  BY <1>6
<1> DEFINE f == CHOOSE f : Solves(f)
<1>8. f = [i \in 0..n |-> Body(f, i)]
  BY <1>7
<1> HIDE DEF f
<1>9. /\ \A i \in 0..n : f[i] = Body(f, i)
      /\ DOMAIN f = 0..n
  BY <1>8
<1>10. f[0] = 0 /\ \A i \in 1..n : f[i] = f[i - 1] * 10 + Value(d[i])
  BY <1>1, <1>9, SMTT(30) DEF Body
<1>11. f \in [0..n -> Nat]
  <2> DEFINE T == {i \in 0..n : f[i] \notin Nat}
  <2>1. ASSUME T # {} PROVE FALSE
    <3>1. PICK m \in T : \A i \in T : m <= i
      <4>1. T \subseteq Nat
        BY <1>1
      <4> HIDE DEF T
      <4>. QED
        BY <2>1, <4>1, Least
    <3>2. m \in 1..n /\ m - 1 \in 0..n /\ ~(m <= m - 1)
      BY <1>1, <1>10
    <3>3. f[m - 1] \in Nat
      BY <3>1, <3>2
    <3>4. f[m] = f[m - 1] * 10 + Value(d[m]) /\ Value(d[m]) \in Nat
      BY <1>1, <1>10, <3>2
    <3>5. \A x, y \in Nat : x * 10 + y \in Nat
      OBVIOUS
    <3>. QED
      BY <3>3, <3>4, <3>5
  <2>2. \A i \in 0..n : f[i] \in Nat
    BY <2>1
  <2>. QED
    BY <1>8, <2>2
<1>12. NumberOf(d) = f[n]
  BY <1>2 DEF f
<1>. QED
  BY <1>10, <1>11, <1>12 DEF n

\* No digits are nought, and a digit more is the number ten times and the digit.
LEMMA NumberNone == NumberOf(<<>>) = 0
<1>1. <<>> \in Seq(Digit) /\ Len(<<>>) = 0
  OBVIOUS
<1>. QED
  BY <1>1, NumberUpto

\* One digit more: ten times the number and the digit.
LEMMA NumberMore ==
    ASSUME NEW d \in Seq(Digit), NEW c \in Digit
    PROVE  NumberOf(Append(d, c)) = NumberOf(d) * 10 + Value(c)
<1> DEFINE n == Len(d)
           e == Append(d, c)
<1>1. n \in Nat /\ e \in Seq(Digit) /\ Len(e) = n + 1 /\ e[n + 1] = c /\ \A i \in 1..n : e[i] = d[i]
  BY TextMore
<1>2. PICK f \in [0..n -> Nat] :
              /\ f[0] = 0 /\ \A i \in 1..n : f[i] = f[i - 1] * 10 + Value(d[i])
              /\ NumberOf(d) = f[n]
  BY NumberUpto
<1>3. PICK g \in [0..n + 1 -> Nat] :
              /\ g[0] = 0 /\ \A i \in 1..n + 1 : g[i] = g[i - 1] * 10 + Value(e[i])
              /\ NumberOf(e) = g[n + 1]
  <2>1. \E g \in [0..Len(e) -> Nat] :
              /\ g[0] = 0 /\ \A i \in 1..Len(e) : g[i] = g[i - 1] * 10 + Value(e[i])
              /\ NumberOf(e) = g[Len(e)]
    BY <1>1, NumberUpto
  <2>. QED
    BY <1>1, <2>1
<1> HIDE DEF n, e
<1> DEFINE T == {i \in 0..n : f[i] # g[i]}
<1>4. ASSUME T # {} PROVE FALSE
  <2>1. PICK m \in T : \A i \in T : m <= i
    <3>1. T \subseteq Nat
      BY <1>1
    <3> HIDE DEF T
    <3>. QED
      BY <1>4, <3>1, Least
  <2>2. m \in 1..n /\ m \in 1..n + 1 /\ m - 1 \in 0..n /\ ~(m <= m - 1)
    BY <1>1, <1>2, <1>3
  <2>3. f[m - 1] = g[m - 1]
    BY <2>1, <2>2
  <2>4. f[m] = f[m - 1] * 10 + Value(d[m]) /\ g[m] = g[m - 1] * 10 + Value(e[m]) /\ e[m] = d[m]
    BY <1>1, <1>2, <1>3, <2>2
  <2>5. f[m] # g[m]
    OBVIOUS
  <2>. QED
    BY <2>3, <2>4, <2>5
<1>5. f[n] = g[n] /\ n + 1 \in 1..n + 1 /\ n + 1 - 1 = n
  <2>1. \A i \in 0..n : f[i] = g[i]
    BY <1>4
  <2> HIDE DEF T
  <2>. QED
    BY <1>1, <2>1
<1>6. g[n + 1] = g[n] * 10 + Value(e[n + 1])
  <2> HIDE DEF T
  <2>. QED
    BY <1>1, <1>3, <1>5
<1>. QED
  BY <1>1, <1>2, <1>3, <1>5, <1>6 DEF e

-----------------------------------------------------------------------------
(* What consume does *)

\* The transitions of the first line, of a line's start and of a header.
GoesInRequestLine(from, c, to, into) ==
    \/ from = "method_start" /\ c \in Token /\ to = "method" /\ into = "method"
    \/ from = "method" /\ c \in Token /\ to = "method" /\ into = "method"
    \/ from = "method" /\ c \in {" "} /\ to = "uri" /\ into = "nothing"
    \/ from = "uri" /\ c \in Text \ {" "} /\ to = "uri" /\ into = "uri"
    \/ from = "uri" /\ c \in {" "} /\ to = "http_version_h" /\ into = "nothing"
    \/ from = "http_version_h" /\ c \in {"H"} /\ to = "http_version_t_1" /\ into = "nothing"
    \/ from = "http_version_t_1" /\ c \in {"T"} /\ to = "http_version_t_2" /\ into = "nothing"
    \/ from = "http_version_t_2" /\ c \in {"T"} /\ to = "http_version_p" /\ into = "nothing"
    \/ from = "http_version_p" /\ c \in {"P"} /\ to = "http_version_slash" /\ into = "nothing"
    \/ /\ from = "http_version_slash" /\ c \in {"/"} /\ to = "http_version_major_start"
       /\ into = "no_version"
    \/ /\ from = "http_version_major_start" /\ c \in Digit /\ to = "http_version_major"
       /\ into = "major"
    \/ from = "http_version_major" /\ c \in Digit /\ to = "http_version_major" /\ into = "major"
    \/ /\ from = "http_version_major" /\ c \in {"."} /\ to = "http_version_minor_start"
       /\ into = "nothing"
    \/ /\ from = "http_version_minor_start" /\ c \in Digit /\ to = "http_version_minor"
       /\ into = "minor"
    \/ from = "http_version_minor" /\ c \in Digit /\ to = "http_version_minor" /\ into = "minor"

GoesAtStart(from, c, to, into, headers) ==
    /\ from = "header_line_start"
    /\ \/ c \in {"CR"} /\ to = "expecting_newline_3" /\ into = "nothing"
       \/ c \in Token /\ to = "header_name" /\ into = "new_header"
       \/ c \in Lws /\ to = "header_lws" /\ into = "nothing" /\ headers # <<>>

GoesInHeader(from, c, to, into) ==
    \/ from = "header_lws" /\ c \in Lws /\ to = "header_lws" /\ into = "nothing"
    \/ from = "header_lws" /\ c \in Text \ Lws /\ to = "header_value" /\ into = "value"
    \/ from = "header_name" /\ c \in {":"} /\ to = "space_before_header_value" /\ into = "nothing"
    \/ from = "header_name" /\ c \in Token /\ to = "header_name" /\ into = "name"
    \/ /\ from = "space_before_header_value" /\ c \in {" "} /\ to = "header_value"
       /\ into = "nothing"
    \/ from = "header_value" /\ c \in Text /\ to = "header_value" /\ into = "value"

\* The transitions along an end of a line.
GoesAtEnd(from, c, to, into) ==
    \/ /\ from = "http_version_minor" /\ c \in {"CR"} /\ to = "expecting_newline_1"
       /\ into = "nothing"
    \/ from = "header_lws" /\ c \in {"CR"} /\ to = "expecting_newline_2" /\ into = "nothing"
    \/ from = "header_value" /\ c \in {"CR"} /\ to = "expecting_newline_2" /\ into = "nothing"
    \/ /\ from \in {"expecting_newline_1", "expecting_newline_2"} /\ c \in {"LF"}
       /\ to = "header_line_start" /\ into = "nothing"
    \/ /\ from = "expecting_newline_3" /\ c \in {"LF"} /\ to = "expecting_newline_3"
       /\ into = "complete"

Goes(from, c, to, into, headers) ==
    \/ GoesInRequestLine(from, c, to, into)
    \/ GoesAtStart(from, c, to, into, headers)
    \/ GoesInHeader(from, c, to, into)
    \/ GoesAtEnd(from, c, to, into)

\* These are the transitions of the tables.
LEMMA EdgeGoes ==
    ASSUME NEW headers, NEW s \in States, NEW e \in Edges(s, headers), NEW c \in e.on
    PROVE  Goes(s, c, e.to, e.into, headers)
<1>1. e \in RequestLine \cup HeaderLine \cup LineStart(headers) /\ e.from = s
  BY EdgesOf
<1>2. CASE e \in RequestLine
  <2>1. PICK from, on, to, into :
           /\ e = Edge(from, on, to, into)
           /\ \/ from = "method_start" /\ on = Token /\ to = "method" /\ into = "method"
              \/ from = "method" /\ on = Token /\ to = "method" /\ into = "method"
              \/ from = "method" /\ on = {" "} /\ to = "uri" /\ into = "nothing"
              \/ from = "uri" /\ on = Text \ {" "} /\ to = "uri" /\ into = "uri"
              \/ from = "uri" /\ on = {" "} /\ to = "http_version_h" /\ into = "nothing"
              \/ from = "http_version_h" /\ on = {"H"} /\ to = "http_version_t_1" /\ into = "nothing"
              \/ from = "http_version_t_1" /\ on = {"T"} /\ to = "http_version_t_2"
                 /\ into = "nothing"
              \/ from = "http_version_t_2" /\ on = {"T"} /\ to = "http_version_p"
                 /\ into = "nothing"
              \/ from = "http_version_p" /\ on = {"P"} /\ to = "http_version_slash"
                 /\ into = "nothing"
              \/ from = "http_version_slash" /\ on = {"/"} /\ to = "http_version_major_start"
                 /\ into = "no_version"
              \/ from = "http_version_major_start" /\ on = Digit /\ to = "http_version_major"
                 /\ into = "major"
              \/ from = "http_version_major" /\ on = Digit /\ to = "http_version_major"
                 /\ into = "major"
              \/ from = "http_version_major" /\ on = {"."} /\ to = "http_version_minor_start"
                 /\ into = "nothing"
              \/ from = "http_version_minor_start" /\ on = Digit /\ to = "http_version_minor"
                 /\ into = "minor"
              \/ from = "http_version_minor" /\ on = Digit /\ to = "http_version_minor"
                 /\ into = "minor"
              \/ from = "http_version_minor" /\ on = {"CR"} /\ to = "expecting_newline_1"
                 /\ into = "nothing"
              \/ from = "expecting_newline_1" /\ on = {"LF"} /\ to = "header_line_start"
                 /\ into = "nothing"
    BY <1>2, Zenon DEF RequestLine
  <2> HIDE DEF Edges
  <2>2. e.from = from /\ e.on = on /\ e.to = to /\ e.into = into
    <3>1. e = Edge(from, on, to, into)
      BY <2>1
    <3>. QED
      BY <3>1, EdgeFields
  <2>3. c \in on /\ s = from
    BY <1>1, <2>2
  <2>4. GoesInRequestLine(from, c, to, into) \/ GoesAtEnd(from, c, to, into)
    <3> DEFINE late == {"http_version_p", "http_version_slash", "http_version_major_start",
                        "http_version_major", "http_version_minor_start"}
    <3>1. CASE from \in {"http_version_minor", "expecting_newline_1"}
      BY <2>1, <2>3, <3>1 DEF GoesInRequestLine, GoesAtEnd
    <3>2. CASE from \in late
      BY <2>1, <2>3, <3>2, ZenonT(40) DEF GoesInRequestLine
    <3>3. CASE from \notin late \cup {"http_version_minor", "expecting_newline_1"}
      BY <2>1, <2>3, <3>3, ZenonT(40) DEF GoesInRequestLine
    <3>. QED
      BY <3>1, <3>2, <3>3
  <2>5. Goes(s, c, to, into, headers)
    BY <2>3, <2>4, Zenon DEF Goes
  <2>. QED
    BY <2>2, <2>5, Zenon
<1>3. CASE e \in HeaderLine
  <2>1. PICK from, on, to, into :
           /\ e = Edge(from, on, to, into)
           /\ \/ from = "header_lws" /\ on = {"CR"} /\ to = "expecting_newline_2"
                 /\ into = "nothing"
              \/ from = "header_lws" /\ on = Lws /\ to = "header_lws" /\ into = "nothing"
              \/ from = "header_lws" /\ on = Text \ Lws /\ to = "header_value" /\ into = "value"
              \/ from = "header_name" /\ on = {":"} /\ to = "space_before_header_value"
                 /\ into = "nothing"
              \/ from = "header_name" /\ on = Token /\ to = "header_name" /\ into = "name"
              \/ from = "space_before_header_value" /\ on = {" "} /\ to = "header_value"
                 /\ into = "nothing"
              \/ from = "header_value" /\ on = {"CR"} /\ to = "expecting_newline_2"
                 /\ into = "nothing"
              \/ from = "header_value" /\ on = Text /\ to = "header_value" /\ into = "value"
              \/ from = "expecting_newline_2" /\ on = {"LF"} /\ to = "header_line_start"
                 /\ into = "nothing"
              \/ from = "expecting_newline_3" /\ on = {"LF"} /\ to = "expecting_newline_3"
                 /\ into = "complete"
    BY <1>3, Zenon DEF HeaderLine
  <2>2. e.from = from /\ e.on = on /\ e.to = to /\ e.into = into
    <3>1. e = Edge(from, on, to, into)
      BY <2>1
    <3>. QED
      BY <3>1, EdgeFields
  <2>3. c \in on /\ s = from
    BY <1>1, <2>2
  <2>4. GoesInHeader(from, c, to, into) \/ GoesAtEnd(from, c, to, into)
    BY <2>1, <2>3, ZenonT(40) DEF GoesInHeader, GoesAtEnd
  <2>5. Goes(s, c, to, into, headers)
    BY <2>3, <2>4, Zenon DEF Goes
  <2>. QED
    BY <2>2, <2>5, Zenon
<1>4. CASE e \in LineStart(headers)
  <2>1. PICK on, to, into :
           /\ e = Edge("header_line_start", on, to, into)
           /\ \/ on = {"CR"} /\ to = "expecting_newline_3" /\ into = "nothing"
              \/ on = Token /\ to = "header_name" /\ into = "new_header"
              \/ MayFold(headers) /\ on = Lws /\ to = "header_lws" /\ into = "nothing"
    BY <1>4, Zenon DEF LineStart
  <2>2. e.from = "header_line_start" /\ e.on = on /\ e.to = to /\ e.into = into
    BY <2>1, EdgeFields
  <2>3. GoesAtStart(s, c, e.to, e.into, headers)
    BY <1>1, <2>1, <2>2 DEF GoesAtStart, MayFold
  <2>. QED
    BY <2>3 DEF Goes
<1>. QED
  BY <1>1, <1>2, <1>3, <1>4

\* And all of them.
LEMMA GoesEdge ==
    ASSUME NEW headers, NEW s, NEW c, NEW to, NEW into, Goes(s, c, to, into, headers)
    PROVE  \E e \in Edges(s, headers) : c \in e.on
<1>1. ASSUME NEW on, NEW far, NEW way, c \in on, s # "header_line_start",
             Edge(s, on, far, way) \in RequestLine \cup HeaderLine
      PROVE  \E e \in Edges(s, headers) : c \in e.on
  <2> DEFINE e == Edge(s, on, far, way)
  <2>1. e.from = s /\ e.on = on
    BY EdgeFields
  <2>2. s \in States
    BY <1>1, <2>1 DEF States
  <2> HIDE DEF e
  <2>3. e \in Edges(s, headers)
    BY <1>1, <2>1, <2>2 DEF Edges, Leaving, e
  <2>. QED
    BY <1>1, <2>1, <2>3
<1>2. /\ Edge("method_start", Token, "method", "method") \in RequestLine
      /\ Edge("method", Token, "method", "method") \in RequestLine
      /\ Edge("method", {" "}, "uri", "nothing") \in RequestLine
      /\ Edge("uri", Text \ {" "}, "uri", "uri") \in RequestLine
      /\ Edge("uri", {" "}, "http_version_h", "nothing") \in RequestLine
      /\ Edge("http_version_h", {"H"}, "http_version_t_1", "nothing") \in RequestLine
      /\ Edge("http_version_t_1", {"T"}, "http_version_t_2", "nothing") \in RequestLine
      /\ Edge("http_version_t_2", {"T"}, "http_version_p", "nothing") \in RequestLine
      /\ Edge("http_version_p", {"P"}, "http_version_slash", "nothing") \in RequestLine
  BY DEF RequestLine
<1>3. /\ Edge("http_version_slash", {"/"}, "http_version_major_start", "no_version") \in RequestLine
      /\ Edge("http_version_major_start", Digit, "http_version_major", "major") \in RequestLine
      /\ Edge("http_version_major", Digit, "http_version_major", "major") \in RequestLine
      /\ Edge("http_version_major", {"."}, "http_version_minor_start", "nothing") \in RequestLine
      /\ Edge("http_version_minor_start", Digit, "http_version_minor", "minor") \in RequestLine
      /\ Edge("http_version_minor", Digit, "http_version_minor", "minor") \in RequestLine
      /\ Edge("http_version_minor", {"CR"}, "expecting_newline_1", "nothing") \in RequestLine
      /\ Edge("expecting_newline_1", {"LF"}, "header_line_start", "nothing") \in RequestLine
  BY DEF RequestLine
<1>4. /\ Edge("header_lws", {"CR"}, "expecting_newline_2", "nothing") \in HeaderLine
      /\ Edge("header_lws", Lws, "header_lws", "nothing") \in HeaderLine
      /\ Edge("header_lws", Text \ Lws, "header_value", "value") \in HeaderLine
      /\ Edge("header_name", {":"}, "space_before_header_value", "nothing") \in HeaderLine
      /\ Edge("header_name", Token, "header_name", "name") \in HeaderLine
      /\ Edge("space_before_header_value", {" "}, "header_value", "nothing") \in HeaderLine
      /\ Edge("header_value", {"CR"}, "expecting_newline_2", "nothing") \in HeaderLine
      /\ Edge("header_value", Text, "header_value", "value") \in HeaderLine
      /\ Edge("expecting_newline_2", {"LF"}, "header_line_start", "nothing") \in HeaderLine
      /\ Edge("expecting_newline_3", {"LF"}, "expecting_newline_3", "complete") \in HeaderLine
  BY DEF HeaderLine
<1>5. ASSUME GoesInRequestLine(s, c, to, into)
      PROVE  \E on, far, way : /\ c \in on /\ s # "header_line_start"
                               /\ Edge(s, on, far, way) \in RequestLine \cup HeaderLine
  <2>1. c = " " => c \in {" "}
    OBVIOUS
  <2>. QED
    BY <1>2, <1>3, <1>5 DEF GoesInRequestLine
<1>6. ASSUME GoesInHeader(s, c, to, into) \/ GoesAtEnd(s, c, to, into)
      PROVE  \E on, far, way : /\ c \in on /\ s # "header_line_start"
                               /\ Edge(s, on, far, way) \in RequestLine \cup HeaderLine
  BY <1>3, <1>4, <1>6 DEF GoesInHeader, GoesAtEnd
<1>7. ASSUME GoesAtStart(s, c, to, into, headers)
      PROVE  \E e \in Edges(s, headers) : c \in e.on
  <2>1. \E on, far, way : c \in on /\ Edge("header_line_start", on, far, way) \in LineStart(headers)
    <3>1. /\ Edge("header_line_start", {"CR"}, "expecting_newline_3", "nothing") \in LineStart(headers)
          /\ Edge("header_line_start", Token, "header_name", "new_header") \in LineStart(headers)
          /\ headers # <<>> =>
                Edge("header_line_start", Lws, "header_lws", "nothing") \in LineStart(headers)
      BY DEF LineStart, MayFold
    <3>. QED
      BY <1>7, <3>1 DEF GoesAtStart
  <2>. QED
    BY <1>7, <2>1, EdgeFields DEF Edges, GoesAtStart
<1>. QED
  BY <1>1, <1>5, <1>6, <1>7 DEF Goes

\* A byte is taken by a transition, or there is none for it and the request is
\* bad.
LEMMA FeedCases ==
    ASSUME NEW p \in Parsers, NEW c \in Bytes, p.verdict = "more"
    PROVE  \/ /\ \A to, into : ~Goes(p.state, c, to, into, p.request.headers)
              /\ Feed(p, c).verdict = "bad"
           \/ \E to, into :
                /\ Goes(p.state, c, to, into, p.request.headers)
                /\ Feed(p, c) = [state |-> to,
                                 verdict |-> IF into = "complete" THEN "ok" ELSE "more",
                                 request |-> Store(into, c, p.request)]
<1> DEFINE taken == {e \in Edges(p.state, p.request.headers) : c \in e.on}
<1>1. CASE taken = {}
  <2>1. \A to, into : ~Goes(p.state, c, to, into, p.request.headers)
    BY <1>1, GoesEdge
  <2>2. Feed(p, c) = [p EXCEPT !.verdict = "bad"]
    BY <1>1 DEF Feed, Consume
  <2>. QED
    BY <2>1, <2>2 DEF Parsers
<1>2. CASE taken # {}
  <2>1. Feed(p, c) = CHOOSE next \in {Along(e, p, c) : e \in taken} : TRUE
    BY <1>2 DEF Feed, Consume
  <2>2. PICK e \in taken : Feed(p, c) = Along(e, p, c)
    BY <1>2, <2>1
  <2>3. p.state \in States
    BY DEF Parsers
  <2>4. Goes(p.state, c, e.to, e.into, p.request.headers)
    BY <2>3, EdgeGoes
  <2>5. e.into \in {"name", "value"} => p.request.headers # <<>>
    <3>1. e.from = p.state /\ Sound(e, p.request.headers)
      BY <2>3, EdgesOf, EdgesSound
    <3>. QED
      BY <3>1 DEF Sound, Parsers
  <2>6. Along(e, p, c) = [state |-> e.to,
                          verdict |-> IF e.into = "complete" THEN "ok" ELSE "more",
                          request |-> Store(e.into, c, p.request)]
    BY <2>5 DEF Along
  <2>. QED
    BY <2>2, <2>4, <2>6
<1>. QED
  BY <1>1, <1>2

-----------------------------------------------------------------------------
(* The first line *)

\* The bytes of a text from a place to before a mark, as far as there are any.
Part(text, i, mark) == SubSeq(text, i, IF Len(text) < mark THEN Len(text) ELSE mark - 1)

\* A part takes the byte behind a text where its mark is not reached yet.
LEMMA PartStep ==
    ASSUME NEW S, NEW t \in Seq(S), NEW c \in S, NEW i \in Nat \ {0}, NEW mark \in Nat \ {0}
    PROVE  Part(Append(t, c), i, mark) =
              IF i <= Len(t) + 1 /\ Len(t) + 1 < mark THEN Append(Part(t, i, mark), c)
              ELSE Part(t, i, mark)
<1>1. Len(t) \in Nat /\ Len(Append(t, c)) = Len(t) + 1
  OBVIOUS
<1>2. CASE Len(t) + 1 < mark /\ i <= Len(t) + 1
  <2>1. /\ Part(Append(t, c), i, mark) = SubSeq(Append(t, c), i, Len(t) + 1)
        /\ Part(t, i, mark) = SubSeq(t, i, Len(t))
    BY <1>1, <1>2 DEF Part
  <2>2. i \in 1..Len(t) + 1
    BY <1>1, <1>2
  <2>. QED
    BY <1>2, <2>1, <2>2, PartMore
<1>3. CASE Len(t) + 1 < mark /\ ~(i <= Len(t) + 1)
  <2>1. /\ Part(Append(t, c), i, mark) = SubSeq(Append(t, c), i, Len(t) + 1)
        /\ Part(t, i, mark) = SubSeq(t, i, Len(t))
    BY <1>1, <1>3 DEF Part
  <2>2. /\ i \in Int /\ Len(t) \in Int /\ Len(t) + 1 \in Int
        /\ Len(t) + 1 < i /\ Len(t) < i
    BY <1>1, <1>3
  <2>. QED
    BY <1>3, <2>1, <2>2, SubSeqEmpty
<1>4. CASE ~(Len(t) + 1 < mark)
  <2>1. /\ Part(Append(t, c), i, mark) = SubSeq(Append(t, c), i, mark - 1)
        /\ Part(t, i, mark) = SubSeq(t, i, mark - 1)
    BY <1>1, <1>4 DEF Part
  <2>2. mark - 1 \in Nat /\ mark - 1 <= Len(t)
    BY <1>1, <1>4
  <2>. QED
    BY <1>4, <2>1, <2>2, PartSame
<1>. QED
  BY <1>2, <1>3, <1>4

\* The bytes of a part are of the kind the text has between its places.
LEMMA PartIn ==
    ASSUME NEW S, NEW t \in Seq(S), NEW R, NEW i \in Nat \ {0}, NEW mark \in Nat \ {0},
           \A j \in 1..Len(t) : i <= j /\ j < mark => t[j] \in R
    PROVE  Part(t, i, mark) \in Seq(R)
<1> DEFINE k == IF Len(t) < mark THEN Len(t) ELSE mark - 1
<1>1. Len(t) \in Nat /\ k \in Int /\ i \in Int
  OBVIOUS
<1>2. \A j \in i..k : j \in 1..Len(t) /\ i <= j /\ j < mark
  BY <1>1
<1>3. \A j \in i..k : t[j] \in R
  BY <1>2
<1> HIDE DEF k
<1>4. SubSeq(t, i, k) \in Seq(R)
  BY <1>1, <1>3, SubSeqProperties
<1>. QED
  BY <1>4 DEF Part, k

\* The marks of a first line: the blanks, the dot and the end.
RequestMarks(u, v, d, e) ==
    /\ u \in Nat /\ v \in Nat /\ d \in Nat /\ e \in Nat
    /\ 1 < u /\ u < v /\ v + 6 < d /\ d + 1 < e

\* The bytes a text has of it are such as may stand there.
FirstTakes(c, u, v, d, e, i) ==
    /\ i < e => InRequestLine(c, u, v, d, i)
    /\ i = e => c = "CR"
    /\ i = e + 1 => c = "LF"

FirstFits(t, u, v, d, e) == \A i \in 1..Len(t) : FirstTakes(t[i], u, v, d, e, i)

\* The state of the parser n bytes into it.
FirstState(state, u, v, d, e, n) ==
    \/ n = 0 /\ state = "method_start"
    \/ 0 < n /\ n < u /\ state = "method"
    \/ u <= n /\ n < v /\ state = "uri"
    \/ n = v /\ state = "http_version_h"
    \/ n = v + 1 /\ state = "http_version_t_1"
    \/ n = v + 2 /\ state = "http_version_t_2"
    \/ n = v + 3 /\ state = "http_version_p"
    \/ n = v + 4 /\ state = "http_version_slash"
    \/ n = v + 5 /\ state = "http_version_major_start"
    \/ v + 5 < n /\ n < d /\ state = "http_version_major"
    \/ n = d /\ state = "http_version_minor_start"
    \/ d < n /\ n < e /\ state = "http_version_minor"
    \/ n = e /\ state = "expecting_newline_1"

\* What a request has of it.
FirstSaid(t, u, v, d, e, r) ==
    /\ r.method = Part(t, 1, u)
    /\ r.uri = Part(t, u + 1, v)
    /\ r.major = NumberOf(Part(t, v + 6, d))
    /\ r.minor = NumberOf(Part(t, d + 1, e))

\* The bytes that may stand there, place by place.
ByPlace(c, u, v, d, i) ==
    /\ i < u => (InRequestLine(c, u, v, d, i) <=> c \in Token)
    /\ i = u \/ i = v => (InRequestLine(c, u, v, d, i) <=> c = " ")
    /\ u < i /\ i < v => (InRequestLine(c, u, v, d, i) <=> c \in Text \ {" "})
    /\ i = v + 1 => (InRequestLine(c, u, v, d, i) <=> c = "H")
    /\ i = v + 2 \/ i = v + 3 => (InRequestLine(c, u, v, d, i) <=> c = "T")
    /\ i = v + 4 => (InRequestLine(c, u, v, d, i) <=> c = "P")
    /\ i = v + 5 => (InRequestLine(c, u, v, d, i) <=> c = "/")
    /\ v + 5 < i /\ i # d => (InRequestLine(c, u, v, d, i) <=> c \in Digit)
    /\ i = d => (InRequestLine(c, u, v, d, i) <=> c = ".")

\* What may stand at a place of the first line, mark by mark.
LEMMA FirstClass ==
    ASSUME NEW c, NEW u, NEW v, NEW d, NEW e, RequestMarks(u, v, d, e), NEW i \in Nat \ {0}
    PROVE  ByPlace(c, u, v, d, i)
<1>1. u \in Nat /\ v \in Nat /\ d \in Nat /\ 1 < u /\ u < v /\ v + 6 < d
  BY DEF RequestMarks
<1>2. Protocol[1] = "H" /\ Protocol[2] = "T" /\ Protocol[3] = "T" /\ Protocol[4] = "P" /\ Protocol[5] = "/"
  BY DEF Protocol
<1>3. ASSUME NEW k \in 1..5, i = v + k PROVE InRequestLine(c, u, v, d, i) <=> c = Protocol[k]
  <2>1. /\ i \in v + 1..v + 5 /\ i - v = k /\ i # d /\ i \notin {u, v}
        /\ ~(i < u) /\ ~(i < v) /\ ~(i > v + 5)
    BY <1>1, <1>3
  <2>. QED
    BY <2>1, Zenon DEF InRequestLine
<1>4. /\ i = v + 1 => (InRequestLine(c, u, v, d, i) <=> c = "H")
      /\ i = v + 2 \/ i = v + 3 => (InRequestLine(c, u, v, d, i) <=> c = "T")
      /\ i = v + 4 => (InRequestLine(c, u, v, d, i) <=> c = "P")
      /\ i = v + 5 => (InRequestLine(c, u, v, d, i) <=> c = "/")
  BY <1>2, <1>3
<1>5. ASSUME i < u PROVE InRequestLine(c, u, v, d, i) <=> c \in Token
  <2>1. i \notin {u, v} /\ i \notin v + 1..v + 5 /\ ~(i > u) /\ ~(i > v + 5) /\ i # d
    BY <1>1, <1>5
  <2>. QED
    BY <1>5, <2>1, Zenon DEF InRequestLine
<1>6. ASSUME i = u \/ i = v PROVE InRequestLine(c, u, v, d, i) <=> c = " "
  <2>1. /\ i \in {u, v} /\ i \notin v + 1..v + 5 /\ ~(i < u) /\ ~(i > u /\ i < v)
        /\ ~(i > v + 5) /\ i # d
    BY <1>1, <1>6
  <2>. QED
    BY <1>6, <2>1, Zenon DEF InRequestLine
<1>7. ASSUME u < i, i < v PROVE InRequestLine(c, u, v, d, i) <=> c \in Text \ {" "}
  <2>1. /\ i \notin {u, v} /\ i \notin v + 1..v + 5 /\ ~(i < u) /\ i > u /\ i < v
        /\ ~(i > v + 5) /\ i # d
    BY <1>1, <1>7
  <2>. QED
    BY <1>7, <2>1, Zenon DEF InRequestLine
<1>8. ASSUME i = d PROVE InRequestLine(c, u, v, d, i) <=> c = "."
  <2>1. /\ i \notin {u, v} /\ i \notin v + 1..v + 5 /\ ~(i < u) /\ ~(i < v)
    BY <1>1, <1>8
  <2>. QED
    BY <1>8, <2>1, Zenon DEF InRequestLine
<1>9. ASSUME v + 5 < i, i # d PROVE InRequestLine(c, u, v, d, i) <=> c \in Digit
  <2>1. /\ i \notin {u, v} /\ i \notin v + 1..v + 5 /\ ~(i < u) /\ ~(i < v) /\ i > v + 5
    BY <1>1, <1>9
  <2>. QED
    BY <1>9, <2>1, Zenon DEF InRequestLine
<1>. QED
  BY <1>4, <1>5, <1>6, <1>7, <1>8, <1>9 DEF ByPlace

\* Two marks are the same, or both behind the n bytes there are.
SameUpTo(n, i, j) == i = j \/ (n < i /\ n < j)

\* Marks that are the same up to n say the same of n bytes.
LEMMA FirstRemarked ==
    ASSUME NEW t \in Seq(Bytes), NEW state, NEW r, NEW u, NEW v, NEW d, NEW e,
           NEW u1, NEW v1, NEW d1, NEW e1,
           RequestMarks(u, v, d, e), RequestMarks(u1, v1, d1, e1),
           SameUpTo(Len(t), u, u1), SameUpTo(Len(t), v, v1), SameUpTo(Len(t), d, d1),
           SameUpTo(Len(t), e, e1)
    PROVE  /\ FirstFits(t, u, v, d, e) => FirstFits(t, u1, v1, d1, e1)
           /\ FirstState(state, u, v, d, e, Len(t)) => FirstState(state, u1, v1, d1, e1, Len(t))
           /\ FirstSaid(t, u, v, d, e, r) => FirstSaid(t, u1, v1, d1, e1, r)
<1>1. /\ u \in Nat /\ v \in Nat /\ d \in Nat /\ e \in Nat
      /\ 1 < u /\ u < v /\ v + 6 < d /\ d + 1 < e
      /\ u1 \in Nat /\ v1 \in Nat /\ d1 \in Nat /\ e1 \in Nat
      /\ 1 < u1 /\ u1 < v1 /\ v1 + 6 < d1 /\ d1 + 1 < e1
      /\ Len(t) \in Nat
  BY DEF RequestMarks
<1>2. ASSUME NEW i \in 1..Len(t), NEW c
      PROVE  InRequestLine(c, u, v, d, i) <=> InRequestLine(c, u1, v1, d1, i)
  <2>1. (i < u <=> i < u1) /\ (i = u <=> i = u1) /\ (i < v <=> i < v1) /\ (i = v <=> i = v1)
        /\ (i = d <=> i = d1)
    BY <1>1 DEF SameUpTo
  <2>2. i \in Nat \ {0} /\ i \in Nat
    BY <1>1
  <2>0. ByPlace(c, u, v, d, i) /\ ByPlace(c, u1, v1, d1, i)
    BY <2>2, FirstClass
  <2>3. CASE i < u \/ i = u \/ i = v \/ (u < i /\ i < v)
    <3>1. /\ i < u => (InRequestLine(c, u, v, d, i) <=> c \in Token)
          /\ (i = u \/ i = v => (InRequestLine(c, u, v, d, i) <=> c = " "))
          /\ (u < i /\ i < v => (InRequestLine(c, u, v, d, i) <=> c \in Text \ {" "}))
      BY <2>0 DEF ByPlace
    <3>2. /\ i < u1 => (InRequestLine(c, u1, v1, d1, i) <=> c \in Token)
          /\ (i = u1 \/ i = v1 => (InRequestLine(c, u1, v1, d1, i) <=> c = " "))
          /\ (u1 < i /\ i < v1 => (InRequestLine(c, u1, v1, d1, i) <=> c \in Text \ {" "}))
      BY <2>0 DEF ByPlace
    <3>3. u < i <=> u1 < i
      BY <1>1, <2>1, <2>2
    <3>. QED
      BY <2>1, <2>3, <3>1, <3>2, <3>3
  <2>4. CASE v < i
    <3>1. v = v1 /\ (v + 5 < i \/ \E k \in 1..5 : i = v + k)
      BY <1>1, <2>2, <2>4 DEF SameUpTo
    <3>2. /\ v + 5 < i /\ i # d => (InRequestLine(c, u, v, d, i) <=> c \in Digit)
          /\ i = d => (InRequestLine(c, u, v, d, i) <=> c = ".")
          /\ i = v + 1 => (InRequestLine(c, u, v, d, i) <=> c = "H")
          /\ i = v + 2 \/ i = v + 3 => (InRequestLine(c, u, v, d, i) <=> c = "T")
          /\ i = v + 4 => (InRequestLine(c, u, v, d, i) <=> c = "P")
          /\ i = v + 5 => (InRequestLine(c, u, v, d, i) <=> c = "/")
      BY <2>0 DEF ByPlace
    <3>3. /\ v1 + 5 < i /\ i # d1 => (InRequestLine(c, u1, v1, d1, i) <=> c \in Digit)
          /\ i = d1 => (InRequestLine(c, u1, v1, d1, i) <=> c = ".")
          /\ i = v1 + 1 => (InRequestLine(c, u1, v1, d1, i) <=> c = "H")
          /\ i = v1 + 2 \/ i = v1 + 3 => (InRequestLine(c, u1, v1, d1, i) <=> c = "T")
          /\ i = v1 + 4 => (InRequestLine(c, u1, v1, d1, i) <=> c = "P")
          /\ i = v1 + 5 => (InRequestLine(c, u1, v1, d1, i) <=> c = "/")
      BY <2>0 DEF ByPlace
    <3>4. v + 5 < i \/ i = v + 1 \/ i = v + 2 \/ i = v + 3 \/ i = v + 4 \/ i = v + 5
      BY <1>1, <2>2, <2>4
    <3>. QED
      BY <2>1, <3>1, <3>2, <3>3, <3>4
  <2>. QED
    BY <1>1, <2>2, <2>3, <2>4
<1>3. FirstFits(t, u, v, d, e) => FirstFits(t, u1, v1, d1, e1)
  <2>1. \A i \in 1..Len(t) : (i < e <=> i < e1) /\ (i = e <=> i = e1) /\ (i = e + 1 <=> i = e1 + 1)
    BY <1>1 DEF SameUpTo
  <2>. QED
    BY <1>2, <2>1 DEF FirstFits, FirstTakes
<1>4. FirstState(state, u, v, d, e, Len(t)) => FirstState(state, u1, v1, d1, e1, Len(t))
  BY <1>1, SMTT(30) DEF FirstState, SameUpTo
<1>5. FirstSaid(t, u, v, d, e, r) => FirstSaid(t, u1, v1, d1, e1, r)
  <2>1. \A i, m, m1 : SameUpTo(Len(t), m, m1) => Part(t, i, m) = Part(t, i, m1)
    BY DEF SameUpTo, Part
  <2>2. Part(t, u + 1, v) = Part(t, u1 + 1, v1)
    <3>1. CASE u = u1
      BY <2>1, <3>1
    <3>2. CASE Len(t) < u /\ Len(t) < u1
      <4>1. Part(t, u + 1, v) = SubSeq(t, u + 1, Len(t)) /\ Part(t, u1 + 1, v1) = SubSeq(t, u1 + 1, Len(t))
        BY <1>1, <3>2 DEF Part
      <4>2. Len(t) \in Int /\ u + 1 \in Int /\ u1 + 1 \in Int /\ Len(t) < u + 1 /\ Len(t) < u1 + 1
        BY <1>1, <3>2
      <4>. QED
        BY <4>1, <4>2, SubSeqEmpty
    <3>. QED
      BY <3>1, <3>2 DEF SameUpTo
  <2>3. Part(t, v + 6, d) = Part(t, v1 + 6, d1)
    <3>1. CASE v = v1
      BY <2>1, <3>1
    <3>2. CASE Len(t) < v /\ Len(t) < v1
      <4>1. Part(t, v + 6, d) = SubSeq(t, v + 6, Len(t)) /\ Part(t, v1 + 6, d1) = SubSeq(t, v1 + 6, Len(t))
        BY <1>1, <3>2 DEF Part
      <4>2. Len(t) \in Int /\ v + 6 \in Int /\ v1 + 6 \in Int /\ Len(t) < v + 6 /\ Len(t) < v1 + 6
        BY <1>1, <3>2
      <4>. QED
        BY <4>1, <4>2, SubSeqEmpty
    <3>. QED
      BY <3>1, <3>2 DEF SameUpTo
  <2>4. Part(t, d + 1, e) = Part(t, d1 + 1, e1)
    <3>1. CASE d = d1
      BY <2>1, <3>1
    <3>2. CASE Len(t) < d /\ Len(t) < d1
      <4>1. Part(t, d + 1, e) = SubSeq(t, d + 1, Len(t)) /\ Part(t, d1 + 1, e1) = SubSeq(t, d1 + 1, Len(t))
        BY <1>1, <3>2 DEF Part
      <4>2. Len(t) \in Int /\ d + 1 \in Int /\ d1 + 1 \in Int /\ Len(t) < d + 1 /\ Len(t) < d1 + 1
        BY <1>1, <3>2
      <4>. QED
        BY <4>1, <4>2, SubSeqEmpty
    <3>. QED
      BY <3>1, <3>2 DEF SameUpTo
  <2>. QED
    BY <2>1, <2>2, <2>3, <2>4 DEF FirstSaid
<1>. QED
  BY <1>3, <1>4, <1>5

\* A text fits two rows of marks only if they are the same as far as it goes.
LEMMA FirstDetermined ==
    ASSUME NEW t \in Seq(Bytes), NEW u, NEW v, NEW d, NEW e, NEW u1, NEW v1, NEW d1, NEW e1,
           RequestMarks(u, v, d, e), RequestMarks(u1, v1, d1, e1),
           FirstFits(t, u, v, d, e), FirstFits(t, u1, v1, d1, e1)
    PROVE  /\ SameUpTo(Len(t), u, u1) /\ SameUpTo(Len(t), v, v1)
           /\ SameUpTo(Len(t), d, d1) /\ SameUpTo(Len(t), e, e1)
<1> DEFINE n == Len(t)
<1>0. n \in Nat
  OBVIOUS
<1>1. ASSUME NEW a, NEW b, NEW f, NEW g, NEW a1, NEW b1, NEW f1, NEW g1,
             RequestMarks(a, b, f, g), RequestMarks(a1, b1, f1, g1),
             FirstFits(t, a, b, f, g), FirstFits(t, a1, b1, f1, g1)
      PROVE  /\ a <= n => a1 <= a
             /\ b <= n /\ a = a1 => b1 <= b
             /\ f <= n /\ b = b1 => f1 <= f
             /\ g <= n /\ f = f1 => g1 <= g
  <2>1. /\ a \in Nat /\ b \in Nat /\ f \in Nat /\ g \in Nat
        /\ 1 < a /\ a < b /\ b + 6 < f /\ f + 1 < g
        /\ a1 \in Nat /\ b1 \in Nat /\ f1 \in Nat /\ g1 \in Nat
        /\ 1 < a1 /\ a1 < b1 /\ b1 + 6 < f1 /\ f1 + 1 < g1
    BY <1>1 DEF RequestMarks
  <2>2. ASSUME NEW i \in 1..n
        PROVE  /\ i < g => InRequestLine(t[i], a, b, f, i)
               /\ i < g1 => InRequestLine(t[i], a1, b1, f1, i)
               /\ i = g => t[i] = "CR"
    BY <1>1 DEF FirstFits, FirstTakes
  <2>3. ASSUME a <= n, a < a1 PROVE FALSE
    <3>1. a \in 1..n /\ a \in Nat \ {0} /\ a < g /\ a < g1
      BY <1>0, <2>1, <2>3
    <3>2. t[a] = " " /\ t[a] \in Token
      <4>0. ByPlace(t[a], a, b, f, a) /\ ByPlace(t[a], a1, b1, f1, a)
        BY <1>1, <3>1, FirstClass
      <4>1. /\ a = a => (InRequestLine(t[a], a, b, f, a) <=> t[a] = " ")
            /\ a < a1 => (InRequestLine(t[a], a1, b1, f1, a) <=> t[a] \in Token)
        BY <4>0 DEF ByPlace
      <4>. QED
        <5>1. InRequestLine(t[a], a, b, f, a) /\ InRequestLine(t[a], a1, b1, f1, a)
          BY <2>2, <3>1, Zenon
        <5>. QED
          BY <2>3, <3>1, <4>1, <5>1
    <3>. QED
      BY <3>2, Classes
  <2>4. ASSUME b <= n, a = a1, b < b1 PROVE FALSE
    <3>1. b \in 1..n /\ b \in Nat \ {0} /\ b < g /\ b < g1 /\ a1 < b
      BY <1>0, <2>1, <2>4
    <3>2. t[b] = " " /\ t[b] \in Text \ {" "}
      <4>0. ByPlace(t[b], a, b, f, b) /\ ByPlace(t[b], a1, b1, f1, b)
        BY <1>1, <3>1, FirstClass
      <4>1. /\ b = b => (InRequestLine(t[b], a, b, f, b) <=> t[b] = " ")
            /\ a1 < b /\ b < b1 => (InRequestLine(t[b], a1, b1, f1, b) <=> t[b] \in Text \ {" "})
        BY <4>0 DEF ByPlace
      <4>. QED
        <5>1. InRequestLine(t[b], a, b, f, b) /\ InRequestLine(t[b], a1, b1, f1, b)
          BY <2>2, <3>1, Zenon
        <5>. QED
          BY <2>4, <3>1, <4>1, <5>1
    <3>. QED
      BY <3>2
  <2>5. ASSUME f <= n, b = b1, f < f1 PROVE FALSE
    <3>1. f \in 1..n /\ f \in Nat \ {0} /\ f < g /\ f < g1 /\ b1 + 5 < f /\ f # f1
      BY <1>0, <2>1, <2>5
    <3>2. t[f] = "." /\ t[f] \in Digit
      <4>0. ByPlace(t[f], a, b, f, f) /\ ByPlace(t[f], a1, b1, f1, f)
        BY <1>1, <3>1, FirstClass
      <4>1. /\ f = f => (InRequestLine(t[f], a, b, f, f) <=> t[f] = ".")
            /\ b1 + 5 < f /\ f # f1 => (InRequestLine(t[f], a1, b1, f1, f) <=> t[f] \in Digit)
        BY <4>0 DEF ByPlace
      <4>. QED
        <5>1. InRequestLine(t[f], a, b, f, f) /\ InRequestLine(t[f], a1, b1, f1, f)
          BY <2>2, <3>1, Zenon
        <5>. QED
          BY <2>5, <3>1, <4>1, <5>1
    <3>. QED
      BY <3>2, Classes
  <2>6. ASSUME g <= n, f = f1, g < g1 PROVE FALSE
    <3>1. g \in 1..n /\ g \in Nat \ {0} /\ g < g1 /\ b1 + 5 < g /\ g # f1
      BY <1>0, <2>1, <2>6
    <3>2. t[g] = "CR" /\ t[g] \in Digit
      <4>0. ByPlace(t[g], a1, b1, f1, g)
        BY <1>1, <3>1, FirstClass
      <4>1. b1 + 5 < g /\ g # f1 => (InRequestLine(t[g], a1, b1, f1, g) <=> t[g] \in Digit)
        BY <4>0 DEF ByPlace
      <4>. QED
        <5>1. InRequestLine(t[g], a1, b1, f1, g) /\ t[g] = "CR"
          BY <2>2, <3>1, Zenon
        <5>. QED
          BY <3>1, <4>1, <5>1
    <3>. QED
      BY <3>2, Classes
  <2>. QED
    BY <1>0, <2>1, <2>3, <2>4, <2>5, <2>6
<1>2. /\ u \in Nat /\ v \in Nat /\ d \in Nat /\ e \in Nat
      /\ 1 < u /\ u < v /\ v + 6 < d /\ d + 1 < e
      /\ u1 \in Nat /\ v1 \in Nat /\ d1 \in Nat /\ e1 \in Nat
      /\ 1 < u1 /\ u1 < v1 /\ v1 + 6 < d1 /\ d1 + 1 < e1
  BY DEF RequestMarks
<1>3. /\ u <= n => u1 <= u
      /\ v <= n /\ u = u1 => v1 <= v
      /\ d <= n /\ v = v1 => d1 <= d
      /\ e <= n /\ d = d1 => e1 <= e
  BY <1>1
<1>4. /\ u1 <= n => u <= u1
      /\ v1 <= n /\ u = u1 => v <= v1
      /\ d1 <= n /\ v = v1 => d <= d1
      /\ e1 <= n /\ d = d1 => e <= e1
  BY <1>1
<1> HIDE DEF n
<1>5. SameUpTo(n, u, u1)
  BY <1>0, <1>2, <1>3, <1>4 DEF SameUpTo
<1>6. SameUpTo(n, v, v1)
  BY <1>0, <1>2, <1>3, <1>4, <1>5 DEF SameUpTo
<1>7. SameUpTo(n, d, d1)
  BY <1>0, <1>2, <1>3, <1>4, <1>6 DEF SameUpTo
<1>8. SameUpTo(n, e, e1)
  BY <1>0, <1>2, <1>3, <1>4, <1>7 DEF SameUpTo
<1>. QED
  BY <1>5, <1>6, <1>7, <1>8 DEF n

-----------------------------------------------------------------------------
(* A text and one that goes on from it *)

\* T begins with t.
GoesOn(T, t) == T \in Seq(Bytes) /\ Len(t) <= Len(T) /\ \A i \in 1..Len(t) : T[i] = t[i]

\* What a text has of lines that end in it stays.
LEMMA EndsStay ==
    ASSUME NEW t \in Seq(Bytes), NEW T, GoesOn(T, t)
    PROVE  /\ Ends(t) \subseteq Ends(T) /\ \A i \in Ends(T) : i < Len(t) => i \in Ends(t)
           /\ LineStarts(t) \subseteq LineStarts(T)
           /\ \A s \in LineStarts(T) : s <= Len(t) + 1 => s \in LineStarts(t)
           /\ Ends(t) \subseteq 1..Len(t) - 1 /\ LineStarts(t) \subseteq 1..Len(t) + 1
           /\ Ends(T) \subseteq 1..Len(T) - 1 /\ LineStarts(T) \subseteq 1..Len(T) + 1
<1>1. Len(t) \in Nat /\ Len(T) \in Nat /\ Len(t) <= Len(T) /\ \A i \in 1..Len(t) : T[i] = t[i]
  BY DEF GoesOn
<1>2. /\ \A i : i \in Ends(t) <=> i \in 1..Len(t) - 1 /\ t[i] = "CR" /\ t[i + 1] = "LF"
      /\ \A i : i \in Ends(T) <=> i \in 1..Len(T) - 1 /\ T[i] = "CR" /\ T[i + 1] = "LF"
  BY DEF Ends
<1>3. \A i \in 1..Len(t) - 1 : i \in 1..Len(T) - 1 /\ i \in 1..Len(t) /\ i + 1 \in 1..Len(t)
  BY <1>1
<1>4. Ends(t) \subseteq Ends(T)
  BY <1>1, <1>2, <1>3
<1>5. ASSUME NEW i \in Ends(T), i < Len(t) PROVE i \in Ends(t)
  <2>1. i \in 1..Len(t) - 1
    BY <1>1, <1>2, <1>5
  <2>. QED
    BY <1>1, <1>2, <1>3, <2>1
<1>6. Ends(t) \subseteq 1..Len(t) - 1 /\ Ends(T) \subseteq 1..Len(T) - 1
  BY <1>2
<1>7. LineStarts(t) \subseteq LineStarts(T)
  BY <1>4 DEF LineStarts
<1>8. LineStarts(t) \subseteq 1..Len(t) + 1 /\ LineStarts(T) \subseteq 1..Len(T) + 1
  BY <1>1, <1>6 DEF LineStarts
<1>9. ASSUME NEW s \in LineStarts(T), s <= Len(t) + 1 PROVE s \in LineStarts(t)
  <2>1. CASE s = 1
    BY <2>1 DEF LineStarts
  <2>2. CASE s # 1
    <3>1. PICK i \in Ends(T) : s = i + 2
      BY <2>2 DEF LineStarts
    <3>2. i < Len(t)
      BY <1>1, <1>6, <1>9, <3>1
    <3>. QED
      BY <1>5, <3>1, <3>2 DEF LineStarts
  <2>. QED
    BY <2>1, <2>2
<1>. QED
  BY <1>4, <1>5, <1>6, <1>7, <1>8, <1>9

\* The headers that begin in a text begin in one that goes on from it, and no other there.
LEMMA HeadersStay ==
    ASSUME NEW t \in Seq(Bytes), NEW T, GoesOn(T, t)
    PROVE  /\ HeaderStarts(t) \subseteq HeaderStarts(T) /\ HeaderStarts(t) \subseteq 1..Len(t)
           /\ \A h \in HeaderStarts(T) : h <= Len(t) => h \in HeaderStarts(t)
<1>1. /\ Len(t) \in Nat /\ Len(T) \in Nat /\ Len(t) <= Len(T) /\ \A i \in 1..Len(t) : T[i] = t[i]
      /\ LineStarts(t) \subseteq LineStarts(T)
      /\ \A s \in LineStarts(T) : s <= Len(t) + 1 => s \in LineStarts(t)
      /\ LineStarts(t) \subseteq 1..Len(t) + 1 /\ LineStarts(T) \subseteq 1..Len(T) + 1
  BY EndsStay DEF GoesOn
<1>2. /\ \A h : h \in HeaderStarts(t) <=> h \in LineStarts(t) /\ h > 1 /\ h <= Len(t) /\ t[h] \in Token
      /\ \A h : h \in HeaderStarts(T) <=> h \in LineStarts(T) /\ h > 1 /\ h <= Len(T) /\ T[h] \in Token
  BY DEF HeaderStarts
<1>3. \A h \in LineStarts(t) : h <= Len(t) => h \in 1..Len(t)
  BY <1>1
<1>4. \A h \in HeaderStarts(t) : h \in 1..Len(t) /\ h \in HeaderStarts(T)
  <2> TAKE h \in HeaderStarts(t)
  <2>1. h \in 1..Len(t)
    BY <1>2, <1>3
  <2>2. h <= Len(T)
    BY <1>1, <2>1
  <2>. QED
    BY <1>1, <1>2, <2>1, <2>2
<1>5. ASSUME NEW h \in HeaderStarts(T), h <= Len(t) PROVE h \in HeaderStarts(t)
  <2>1. h \in LineStarts(T) /\ h \in 1..Len(T) + 1 /\ h \in Nat
    BY <1>1, <1>2
  <2>2. h \in LineStarts(t) /\ h \in 1..Len(t)
    BY <1>1, <1>5, <2>1
  <2>. QED
    BY <1>1, <1>2, <1>5, <2>2
<1>. QED
  BY <1>4, <1>5

\* A line that ends in a text ends there in one that goes on from it.
LEMMA SpansStay ==
    ASSUME NEW t \in Seq(Bytes), NEW T, GoesOn(T, t), NEW s \in Nat \ {0}, NEW e, Spans(t, s, e)
    PROVE  Spans(T, s, e) /\ e \in Nat /\ s <= e /\ e < Len(t)
<1>1. /\ Len(t) \in Nat /\ Len(T) \in Nat /\ Len(t) <= Len(T)
      /\ Ends(t) \subseteq Ends(T) /\ \A i \in Ends(T) : i < Len(t) => i \in Ends(t)
      /\ Ends(t) \subseteq 1..Len(t) - 1 /\ Ends(T) \subseteq 1..Len(T) - 1
  BY EndsStay DEF GoesOn
<1>2. e \in Ends(t) /\ s <= e /\ \A i \in Ends(t) : i < s \/ e <= i
  BY DEF Spans
<1>3. e \in Nat /\ e < Len(t) /\ e \in Ends(T)
  BY <1>1, <1>2
<1>4. ASSUME NEW i \in Ends(T) PROVE i < s \/ e <= i
  <2>1. i \in Nat
    BY <1>1
  <2>2. CASE i < e
    <3>1. i < Len(t)
      BY <1>1, <1>3, <2>1, <2>2
    <3>. QED
      BY <1>1, <1>2, <3>1
  <2>. QED
    BY <1>3, <2>1, <2>2
<1>. QED
  BY <1>2, <1>3, <1>4 DEF Spans

-----------------------------------------------------------------------------
(* Good lines, by their marks *)

\* A first line that ends at e, with its marks.
FirstLine(t, u, v, d, e) ==
    RequestMarks(u, v, d, e) /\ \A i \in 1..e - 1 : InRequestLine(t[i], u, v, d, i)

HeaderLineAt(t, s, k, e) ==
    k \in Nat /\ s < k /\ k + 1 < e /\ \A i \in s..e - 1 : InHeader(t[i], k, i)

ContinuedAt(t, s, m, e) ==
    m \in Nat /\ s <= m /\ m < e /\ \A i \in s..e - 1 : InContinuation(t[i], m, i)

LaterLine(t, s, e) ==
    \/ \E k : HeaderLineAt(t, s, k, e)
    \/ (\E m : ContinuedAt(t, s, m, e)) /\ \E h \in HeaderStarts(t) : h < s

\* A first line that ends is good exactly if it has the marks of one.
LEMMA GoodFirst ==
    ASSUME NEW t \in Seq(Bytes), NEW e, Spans(t, 1, e)
    PROVE  GoodLine(t, 1) <=> \E u, v, d : FirstLine(t, u, v, d, e)
<1> DEFINE line == Line(t, 1)
<1>1. /\ line \in Seq(Bytes) /\ Len(line) = e - 1 /\ e \in Nat /\ 1 <= e
      /\ \A i \in 1..e - 1 : line[i] = t[i]
  <2>1. /\ Line(t, 1) \in Seq(Bytes) /\ Len(Line(t, 1)) = e - 1
        /\ \A i \in 1..e - 1 : Line(t, 1)[i] = t[1 - 1 + i]
    BY LineSpanned
  <2>2. Len(t) \in Nat /\ e \in 1..Len(t) - 1
    BY DEF Spans, Ends
  <2>. QED
    BY <2>1, <2>2
<1>2. GoodLine(t, 1) <=> IsRequestLine(line)
  BY DEF GoodLine
<1> HIDE DEF line
<1>3. DOMAIN line = 1..e - 1
  BY <1>1
<1>4. ASSUME IsRequestLine(line) PROVE \E u, v, d : FirstLine(t, u, v, d, e)
  <2>1. PICK u, v, d :
           /\ u \in Places(line, " ") /\ v \in Places(line, " ") /\ d \in Places(line, ".")
           /\ 1 < u /\ u < v /\ v + 6 < d /\ d < Len(line)
           /\ \A i \in DOMAIN line : InRequestLine(line[i], u, v, d, i)
    BY <1>4 DEF IsRequestLine
  <2>2. u \in 1..e - 1 /\ v \in 1..e - 1 /\ d \in 1..e - 1
    BY <1>3, <2>1 DEF Places
  <2>3. RequestMarks(u, v, d, e)
    <3>0. e \in Nat /\ Len(line) = e - 1
      BY <1>1
    <3>1. 1 < u /\ u < v /\ v + 6 < d /\ d < e - 1 /\ e \in Nat
      BY <2>1, <3>0
    <3>2. u \in Nat /\ v \in Nat /\ d \in Nat
      BY <2>2, <3>0
    <3>3. d + 1 < e
      BY <3>1, <3>2
    <3>. QED
      BY <3>1, <3>2, <3>3 DEF RequestMarks
  <2>4. \A i \in 1..e - 1 : InRequestLine(t[i], u, v, d, i)
    BY <1>1, <1>3, <2>1
  <2>. QED
    BY <2>3, <2>4 DEF FirstLine
<1>5. ASSUME NEW u, NEW v, NEW d, FirstLine(t, u, v, d, e) PROVE IsRequestLine(line)
  <2>1. /\ RequestMarks(u, v, d, e)
        /\ \A i \in 1..e - 1 : InRequestLine(line[i], u, v, d, i)
    BY <1>1, <1>5 DEF FirstLine
  <2>2. /\ u \in 1..e - 1 /\ v \in 1..e - 1 /\ d \in 1..e - 1
        /\ u \in Nat \ {0} /\ v \in Nat \ {0} /\ d \in Nat \ {0}
        /\ 1 < u /\ u < v /\ v + 6 < d /\ d < Len(line)
    BY <1>1, <2>1 DEF RequestMarks
  <2>3. ByPlace(line[u], u, v, d, u) /\ ByPlace(line[v], u, v, d, v) /\ ByPlace(line[d], u, v, d, d)
    BY <2>1, <2>2, FirstClass
  <2>4. InRequestLine(line[u], u, v, d, u) /\ InRequestLine(line[v], u, v, d, v)
        /\ InRequestLine(line[d], u, v, d, d)
    BY <2>1, <2>2, Zenon
  <2>5. line[u] = " " /\ line[v] = " " /\ line[d] = "."
    BY <2>3, <2>4 DEF ByPlace
  <2>6. u \in Places(line, " ") /\ v \in Places(line, " ") /\ d \in Places(line, ".")
    BY <1>3, <2>2, <2>5 DEF Places
  <2>. QED
    BY <1>3, <2>1, <2>2, <2>6 DEF IsRequestLine
<1>. QED
  BY <1>2, <1>4, <1>5

\* The marks of a line are the same from wherever they are counted.
LEMMA Shifted ==
    ASSUME NEW c, NEW k \in Int, NEW i \in Int, NEW s \in Int
    PROVE  /\ InHeader(c, k, i) <=> InHeader(c, k + s, i + s)
           /\ InContinuation(c, k, i) <=> InContinuation(c, k + s, i + s)
<1>1. /\ i < k <=> i + s < k + s
      /\ i = k <=> i + s = k + s
      /\ i = k + 1 <=> i + s = k + s + 1
      /\ i > k + 1 <=> i + s > k + s + 1
      /\ i <= k <=> i + s <= k + s
  OBVIOUS
<1>. QED
  BY <1>1, Zenon DEF InHeader, InContinuation

\* A later line that ends is good exactly if it is a header or continues one.
LEMMA GoodLater ==
    ASSUME NEW t \in Seq(Bytes), NEW s \in Nat, s > 1, NEW e, Spans(t, s, e)
    PROVE  GoodLine(t, s) <=> LaterLine(t, s, e)
<1> DEFINE line == Line(t, s)
<1>1. /\ line \in Seq(Bytes) /\ Len(line) = e - s /\ e \in Nat /\ s <= e
      /\ \A i \in 1..e - s : line[i] = t[s - 1 + i]
  <2>1. Len(t) \in Nat /\ e \in 1..Len(t) - 1 /\ s <= e /\ s \in Nat \ {0}
    BY DEF Spans, Ends
  <2>. QED
    BY <2>1, LineSpanned
<1>2. GoodLine(t, s) <=> \/ IsHeader(line)
                         \/ Continues(line) /\ \E h \in HeaderStarts(t) : h < s
  BY DEF GoodLine
<1> HIDE DEF line
<1>3. DOMAIN line = 1..e - s
  BY <1>1
<1>4. \A i \in s..e - 1 : /\ i - (s - 1) \in 1..e - s /\ i \in Int /\ i - (s - 1) \in Int
                          /\ i - (s - 1) + (s - 1) = i /\ line[i - (s - 1)] = t[i]
  <2>0. e \in Nat
    BY <1>1
  <2> TAKE i \in s..e - 1
  <2>1. i - (s - 1) \in 1..e - s /\ s - 1 + (i - (s - 1)) = i /\ i - (s - 1) + (s - 1) = i
        /\ i \in Int /\ i - (s - 1) \in Int
    BY <2>0
  <2>2. line[i - (s - 1)] = t[s - 1 + (i - (s - 1))]
    BY <1>1, <2>1, Zenon
  <2>. QED
    BY <2>1, <2>2
<1>5. \A i \in 1..e - s : s - 1 + i \in s..e - 1 /\ i + (s - 1) = s - 1 + i /\ i \in Int /\ s - 1 \in Int
  <2>1. e \in Nat /\ s \in Nat
    BY <1>1
  <2>2. ASSUME NEW i \in 1..e - s PROVE s - 1 + i \in s..e - 1 /\ i + (s - 1) = s - 1 + i
    BY <2>1
  <2>. QED
    BY <2>1, <2>2
<1>6. ASSUME IsHeader(line) PROVE \E k : HeaderLineAt(t, s, k, e)
  <2>1. PICK k \in Places(line, ":") :
           1 < k /\ k < Len(line) /\ \A i \in DOMAIN line : InHeader(line[i], k, i)
    BY <1>6 DEF IsHeader
  <2>2. k \in 1..e - s
    BY <1>3 DEF Places
  <2>3. /\ k + (s - 1) \in Nat /\ k \in Int /\ s - 1 \in Int
        /\ s < k + (s - 1) /\ k + (s - 1) + 1 < e
    BY <1>1, <2>1, <2>2
  <2>4. ASSUME NEW i \in s..e - 1 PROVE InHeader(t[i], k + (s - 1), i)
    <3>1. InHeader(line[i - (s - 1)], k, i - (s - 1))
      BY <1>3, <1>4, <2>1
    <3>2. InHeader(line[i - (s - 1)], k + (s - 1), i - (s - 1) + (s - 1))
      BY <1>4, <2>3, <3>1, Shifted
    <3>. QED
      BY <1>4, <3>2
  <2>. QED
    BY <2>3, <2>4 DEF HeaderLineAt
<1>7. ASSUME NEW k, HeaderLineAt(t, s, k, e) PROVE IsHeader(line)
  <2> DEFINE j == k - (s - 1)
  <2>1. k \in Nat /\ s < k /\ k + 1 < e /\ \A i \in s..e - 1 : InHeader(t[i], k, i)
    BY <1>7 DEF HeaderLineAt
  <2>2. j \in 1..e - s /\ 1 < j /\ j < Len(line) /\ j \in Int /\ s - 1 \in Int /\ j + (s - 1) = k
    BY <1>1, <2>1
  <2> HIDE DEF j
  <2>3. ASSUME NEW i \in 1..e - s PROVE InHeader(line[i], j, i)
    <3>1. InHeader(line[i], k, i + (s - 1))
      BY <1>1, <1>5, <2>1
    <3>. QED
      BY <1>5, <2>2, <3>1, Shifted
  <2>4. line[j] = ":"
    <3>1. InHeader(line[j], j, j)
      BY <2>2, <2>3
    <3>2. ~(j < j) /\ j # j + 1 /\ ~(j > j + 1)
      BY <2>2
    <3>. QED
      BY <3>1, <3>2, Zenon DEF InHeader
  <2>5. j \in Places(line, ":")
    BY <1>3, <2>2, <2>4 DEF Places
  <2>. QED
    BY <1>3, <2>2, <2>3, <2>5 DEF IsHeader
<1>8. ASSUME Continues(line) PROVE \E m : ContinuedAt(t, s, m, e)
  <2>1. PICK m \in 1..Len(line) : \A i \in DOMAIN line : InContinuation(line[i], m, i)
    BY <1>8 DEF Continues
  <2>2. m + (s - 1) \in Nat /\ m \in Int /\ s - 1 \in Int /\ s <= m + (s - 1) /\ m + (s - 1) < e
    BY <1>1, <2>1
  <2>4. ASSUME NEW i \in s..e - 1 PROVE InContinuation(t[i], m + (s - 1), i)
    <3>1. InContinuation(line[i - (s - 1)], m, i - (s - 1))
      BY <1>3, <1>4, <2>1
    <3>2. InContinuation(line[i - (s - 1)], m + (s - 1), i - (s - 1) + (s - 1))
      BY <1>4, <2>2, <3>1, Shifted
    <3>. QED
      BY <1>4, <3>2
  <2>. QED
    BY <2>2, <2>4 DEF ContinuedAt
<1>9. ASSUME NEW m, ContinuedAt(t, s, m, e) PROVE Continues(line)
  <2> DEFINE j == m - (s - 1)
  <2>1. m \in Nat /\ s <= m /\ m < e /\ \A i \in s..e - 1 : InContinuation(t[i], m, i)
    BY <1>9 DEF ContinuedAt
  <2>2. j \in 1..Len(line) /\ j \in Int /\ s - 1 \in Int /\ j + (s - 1) = m
    BY <1>1, <2>1
  <2> HIDE DEF j
  <2>3. ASSUME NEW i \in 1..e - s PROVE InContinuation(line[i], j, i)
    <3>1. InContinuation(line[i], m, i + (s - 1))
      BY <1>1, <1>5, <2>1
    <3>. QED
      BY <1>5, <2>2, <3>1, Shifted
  <2>. QED
    BY <1>3, <2>2, <2>3 DEF Continues
<1>. QED
  BY <1>2, <1>6, <1>7, <1>8, <1>9 DEF LaterLine

\* The bytes of later lines, place by place.
LEMMA HeaderClass ==
    ASSUME NEW c, NEW k \in Nat, NEW i \in Nat
    PROVE  /\ i < k => (InHeader(c, k, i) <=> c \in Token)
           /\ i = k => (InHeader(c, k, i) <=> c = ":")
           /\ i = k + 1 => (InHeader(c, k, i) <=> c = " ")
           /\ i > k + 1 => (InHeader(c, k, i) <=> c \in Text)
<1>1. /\ i < k => ~(i = k) /\ ~(i = k + 1) /\ ~(i > k + 1)
      /\ i = k => ~(i < k) /\ ~(i = k + 1) /\ ~(i > k + 1)
      /\ i = k + 1 => ~(i < k) /\ ~(i = k) /\ ~(i > k + 1)
      /\ i > k + 1 => ~(i < k) /\ ~(i = k) /\ ~(i = k + 1)
  OBVIOUS
<1>. QED
  BY <1>1, Zenon DEF InHeader

\* What may stand at a place of a line that continues one.
LEMMA ContinuationClass ==
    ASSUME NEW c, NEW m \in Nat, NEW i \in Nat
    PROVE  /\ i <= m => (InContinuation(c, m, i) <=> c \in Lws)
           /\ i = m + 1 => (InContinuation(c, m, i) <=> c \in Text \ Lws)
           /\ i > m + 1 => (InContinuation(c, m, i) <=> c \in Text)
<1>1. /\ i <= m => ~(i = m + 1) /\ ~(i > m + 1)
      /\ i = m + 1 => ~(i <= m) /\ ~(i > m + 1)
      /\ i > m + 1 => ~(i <= m) /\ ~(i = m + 1)
  OBVIOUS
<1>. QED
  BY <1>1, Zenon DEF InContinuation

\* No end of a line stands in one.
LEMMA InLine ==
    ASSUME NEW c
    PROVE  /\ \A u, v, d, i : InRequestLine(c, u, v, d, i) => c \in Text \/ i \in v + 1..v + 5
           /\ \A k, i : InHeader(c, k, i) => c \in Text
           /\ \A m, i : InContinuation(c, m, i) => c \in Text \cup {"HT"}
           /\ c \in Text \cup {"HT"} => c \notin {"CR", "LF"}
<1>1. c \in Token => c \in Text
  BY Classes
<1>2. c \in Digit => c \in Text
  BY Classes
<1>3. c = " " \/ c = ":" \/ c = "." => c \in Text
  BY Classes
<1>4. c \in Lws => c \in Text \cup {"HT"}
  BY Classes
<1>5. c \in Text \cup {"HT"} => c \notin {"CR", "LF"}
  BY Classes
<1>6. \A u, v, d, i : InRequestLine(c, u, v, d, i) => c \in Text \/ i \in v + 1..v + 5
  BY <1>1, <1>2, <1>3, Zenon DEF InRequestLine
<1>7. \A k, i : InHeader(c, k, i) => c \in Text
  BY <1>1, <1>3, Zenon DEF InHeader
<1>8. \A m, i : InContinuation(c, m, i) => c \in Text \cup {"HT"}
  BY <1>4, Zenon DEF InContinuation
<1>. QED
  BY <1>5, <1>6, <1>7, <1>8

\* No end of a line stands in the first line.
LEMMA InFirstLine ==
    ASSUME NEW t, NEW u, NEW v, NEW d, NEW e, RequestMarks(u, v, d, e),
           NEW i \in Nat \ {0}, InRequestLine(t[i], u, v, d, i)
    PROVE  t[i] \in Text
<1>1. ByPlace(t[i], u, v, d, i)
  BY FirstClass
<1>2. t[i] \in Text \/ i \in v + 1..v + 5
  BY InLine, Zenon
<1>3. ASSUME i \in v + 1..v + 5 PROVE t[i] \in Text
  <2>1. v \in Nat
    BY DEF RequestMarks
  <2>2. i = v + 1 \/ i = v + 2 \/ i = v + 3 \/ i = v + 4 \/ i = v + 5
    BY <1>3, <2>1
  <2>3. t[i] = "H" \/ t[i] = "T" \/ t[i] = "P" \/ t[i] = "/"
    BY <1>1, <2>2, Zenon DEF ByPlace
  <2>. QED
    BY <2>3, Classes
<1>. QED
  BY <1>2, <1>3

\* A good line is not empty, and no end of a line stands in it.
LEMMA GoodFilled ==
    ASSUME NEW t \in Seq(Bytes), NEW s \in Nat \ {0}, NEW e, Spans(t, s, e), GoodLine(t, s)
    PROVE  s < e /\ e \in Nat /\ \A i \in s..e - 1 : t[i] \notin {"CR", "LF"}
<1>1. e \in Nat
  BY DEF Spans, Ends
<1>2. CASE s = 1
  <2>1. PICK u, v, d : FirstLine(t, u, v, d, e)
    BY <1>2, GoodFirst
  <2>2. RequestMarks(u, v, d, e) /\ \A i \in 1..e - 1 : InRequestLine(t[i], u, v, d, i)
    BY <2>1 DEF FirstLine
  <2>3. 1 < e
    BY <2>2 DEF RequestMarks
  <2>4. ASSUME NEW i \in 1..e - 1 PROVE t[i] \notin {"CR", "LF"}
    <3>1. i \in Nat \ {0}
      BY <1>1
    <3>2. t[i] \in Text
      BY <2>2, <3>1, InFirstLine
    <3>. QED
      BY <3>2, InLine
  <2>. QED
    BY <1>1, <1>2, <2>3, <2>4
<1>3. CASE s > 1
  <2>1. LaterLine(t, s, e)
    BY <1>3, GoodLater
  <2>2. CASE \E k : HeaderLineAt(t, s, k, e)
    <3>1. PICK k : HeaderLineAt(t, s, k, e)
      BY <2>2
    <3>2. \A i \in s..e - 1 : t[i] \in Text
      BY <3>1, InLine, Zenon DEF HeaderLineAt
    <3>3. k \in Nat /\ s < k /\ k + 1 < e
      BY <3>1 DEF HeaderLineAt
    <3>4. s < e
      BY <1>1, <3>3
    <3>. QED
      BY <1>1, <3>2, <3>4, InLine
  <2>3. CASE \E m : ContinuedAt(t, s, m, e)
    <3>1. PICK m : ContinuedAt(t, s, m, e)
      BY <2>3
    <3>2. \A i \in s..e - 1 : t[i] \in Text \cup {"HT"}
      BY <3>1, InLine, Zenon DEF ContinuedAt
    <3>3. m \in Nat /\ s <= m /\ m < e
      BY <3>1 DEF ContinuedAt
    <3>4. s < e
      BY <1>1, <3>3
    <3>. QED
      BY <1>1, <3>2, <3>4, InLine
  <2>. QED
    BY <2>1, <2>2, <2>3 DEF LaterLine
<1>. QED
  BY <1>2, <1>3

\* A line that ends is as good in a text that goes on.
LEMMA GoodStays ==
    ASSUME NEW t \in Seq(Bytes), NEW T, GoesOn(T, t), NEW s \in Nat \ {0}, NEW e, Spans(t, s, e)
    PROVE  GoodLine(t, s) <=> GoodLine(T, s)
<1>1. /\ Spans(T, s, e) /\ e \in Nat /\ s <= e /\ e < Len(t)
      /\ T \in Seq(Bytes) /\ Len(t) \in Nat
      /\ \A i \in 1..Len(t) : T[i] = t[i]
  BY SpansStay DEF GoesOn
<1>2. \A i \in s..e - 1 : T[i] = t[i]
  <2>1. \A i \in s..e - 1 : i \in 1..Len(t)
    BY <1>1
  <2>. QED
    BY <1>1, <2>1
<1>3. CASE s = 1
  <2>1. \A u, v, d : FirstLine(t, u, v, d, e) <=> FirstLine(T, u, v, d, e)
    BY <1>2, <1>3, Zenon DEF FirstLine
  <2>. QED
    BY <1>1, <1>3, <2>1, GoodFirst
<1>4. CASE s > 1
  <2>1. \A k : HeaderLineAt(t, s, k, e) <=> HeaderLineAt(T, s, k, e)
    BY <1>2, Zenon DEF HeaderLineAt
  <2>2. \A m : ContinuedAt(t, s, m, e) <=> ContinuedAt(T, s, m, e)
    BY <1>2, Zenon DEF ContinuedAt
  <2>3. (\E h \in HeaderStarts(t) : h < s) <=> (\E h \in HeaderStarts(T) : h < s)
    <3>1. /\ HeaderStarts(t) \subseteq HeaderStarts(T)
          /\ \A h \in HeaderStarts(T) : h <= Len(t) => h \in HeaderStarts(t)
          /\ HeaderStarts(T) \subseteq 1..Len(T)
      <4>1. GoesOn(T, T)
        BY <1>1 DEF GoesOn
      <4>. QED
        BY <1>1, <4>1, HeadersStay
    <3>2. \A h \in HeaderStarts(T) : h < s => h <= Len(t)
      BY <1>1, <3>1
    <3>. QED
      BY <3>1, <3>2
  <2>4. LaterLine(t, s, e) <=> LaterLine(T, s, e)
    BY <2>1, <2>2, <2>3 DEF LaterLine
  <2>. QED
    BY <1>1, <1>4, <2>4, GoodLater
<1>. QED
  BY <1>3, <1>4

\* An empty line is not good.
LEMMA EmptyEnds ==
    ASSUME NEW t \in Seq(Bytes), NEW s \in Ends(t), GoodLine(t, s)
    PROVE  FALSE
<1>1. Ends(t) \subseteq Nat \ {0}
  BY DEF Ends
<1>2. Spans(t, s, s)
  BY <1>1 DEF Spans
<1>3. s < s /\ s \in Nat
  BY <1>1, <1>2, GoodFilled
<1>. QED
  BY <1>3

\* A request ends once.
LEMMA EndsOnce ==
    ASSUME NEW t \in Seq(Bytes), NEW e, NEW f, EndsRequest(t, e), EndsRequest(t, f)
    PROVE  e = f
<1>1. Ends(t) \subseteq Nat \ {0}
  BY DEF Ends
<1>2. ASSUME NEW i, NEW j, EndsRequest(t, i), EndsRequest(t, j), i < j PROVE FALSE
  <2>1. i \in LineStarts(t) /\ i \in Ends(t) /\ GoodLine(t, i)
    BY <1>2 DEF EndsRequest
  <2>. QED
    BY <2>1, EmptyEnds
<1>3. e \in Nat /\ f \in Nat
  BY <1>1 DEF EndsRequest
<1>4. ~(e < f) /\ ~(f < e)
  BY <1>2
<1>. QED
  BY <1>3, <1>4

-----------------------------------------------------------------------------
(* The line that is being read *)

\* It begins at s, and those before it are good.
Opens(t, s) ==
    /\ s \in LineStarts(t)
    /\ \A i \in LineStarts(t) : i <= s
    /\ \A i \in LineStarts(t) : i < s => GoodLine(t, i)

\* The lines before it do not end a request.
LEMMA OpensNone ==
    ASSUME NEW t \in Seq(Bytes), NEW s, Opens(t, s), NEW T, GoesOn(T, t), NEW e, EndsRequest(T, e)
    PROVE  s <= e
<1>1. /\ s \in LineStarts(t) /\ \A i \in LineStarts(t) : i < s => GoodLine(t, i)
      /\ e \in LineStarts(T) /\ e \in Ends(T)
  BY DEF Opens, EndsRequest
<1>2. /\ Len(t) \in Nat /\ LineStarts(t) \subseteq 1..Len(t) + 1 /\ Len(T) \in Nat /\ Len(t) <= Len(T)
      /\ LineStarts(T) \subseteq 1..Len(T) + 1
      /\ Ends(t) \subseteq 1..Len(t) - 1
      /\ \A i \in LineStarts(T) : i <= Len(t) + 1 => i \in LineStarts(t)
      /\ \A i \in Ends(T) : i < Len(t) => i \in Ends(t)
      /\ \A i \in 1..Len(t) : T[i] = t[i]
  BY EndsStay DEF GoesOn
<1>3. s \in 1..Len(t) + 1 /\ e \in 1..Len(T) + 1 /\ s \in Nat /\ e \in Nat
  BY <1>1, <1>2
<1>4. SUFFICES ASSUME e < s PROVE FALSE
  BY <1>3
<1>5. e \in LineStarts(t)
  BY <1>1, <1>2, <1>3, <1>4
<1>6. GoodLine(t, e)
  BY <1>1, <1>4, <1>5
<1>7. CASE e < Len(t)
  BY <1>1, <1>2, <1>6, <1>7, EmptyEnds
<1>8. CASE ~(e < Len(t))
  <2>1. e = Len(t) /\ s = Len(t) + 1 /\ s # 1
    BY <1>2, <1>3, <1>4, <1>8
  <2>2. PICK i \in Ends(t) : s = i + 2
    BY <1>1, <2>1 DEF LineStarts
  <2>3. i + 1 = Len(t) /\ Len(t) \in 1..Len(t)
    BY <1>2, <1>3, <2>1, <2>2
  <2>4. t[Len(t)] = "LF"
    BY <2>3 DEF Ends
  <2>5. T[e] = "CR"
    BY <1>1 DEF Ends
  <2>. QED
    BY <1>2, <2>1, <2>3, <2>4, <2>5
<1>. QED
  BY <1>7, <1>8

\* Nor does a text end one before the line that is being read.
LEMMA OpensMore ==
    ASSUME NEW t \in Seq(Bytes), NEW s, Opens(t, s)
    PROVE  ~IsRequest(t)
<1> SUFFICES ASSUME NEW e, EndsRequest(t, e) PROVE FALSE
  BY DEF IsRequest
<1>1. GoesOn(t, t)
  BY DEF GoesOn
<1>2. s <= e
  BY <1>1, OpensNone
<1>3. e \in Ends(t) /\ s \in LineStarts(t) /\ \A i \in LineStarts(t) : i <= s
  BY DEF EndsRequest, Opens
<1>4. e + 2 \in LineStarts(t)
  BY <1>3 DEF LineStarts
<1>5. e \in Nat /\ s \in Nat
  BY <1>1, <1>3, EndsStay
<1>6. e + 2 <= s
  BY <1>3, <1>4
<1>. QED
  BY <1>2, <1>5, <1>6

-----------------------------------------------------------------------------
(* A byte of the first line *)

\* The part of the request a byte at place i of the first line goes into.
FirstStores(into, u, v, d, e, i) ==
    /\ into \in {"method", "uri", "no_version", "major", "minor", "nothing"}
    /\ into = "method" <=> i < u
    /\ into = "uri" <=> u < i /\ i < v
    /\ into = "no_version" <=> i = v + 5
    /\ into = "major" <=> v + 5 < i /\ i < d
    /\ into = "minor" <=> d < i /\ i < e

\* Marks with which a byte behind n others fits.
Choice(c, to, into, n, u, v, d, e, u1, v1, d1, e1) ==
    /\ RequestMarks(u1, v1, d1, e1)
    /\ SameUpTo(n, u, u1) /\ SameUpTo(n, v, v1) /\ SameUpTo(n, d, d1) /\ SameUpTo(n, e, e1)
    /\ FirstTakes(c, u1, v1, d1, e1, n + 1)
    /\ FirstState(to, u1, v1, d1, e1, n + 1)
    /\ FirstStores(into, u1, v1, d1, e1, n + 1)

\* Marks that agree with others as far as the text goes are a choice for one more byte.
LEMMA Choosing ==
    ASSUME NEW c, NEW to, NEW into, NEW n \in Nat, NEW u, NEW v, NEW d, NEW e,
           NEW u1, NEW v1, NEW d1, NEW e1, RequestMarks(u1, v1, d1, e1),
           SameUpTo(n, u, u1), SameUpTo(n, v, v1), SameUpTo(n, d, d1), SameUpTo(n, e, e1),
           FirstState(to, u1, v1, d1, e1, n + 1), FirstStores(into, u1, v1, d1, e1, n + 1),
           ByPlace(c, u1, v1, d1, n + 1) => FirstTakes(c, u1, v1, d1, e1, n + 1)
    PROVE  Choice(c, to, into, n, u, v, d, e, u1, v1, d1, e1)
<1>1. n + 1 \in Nat \ {0}
  OBVIOUS
<1>2. ByPlace(c, u1, v1, d1, n + 1)
  BY <1>1, FirstClass
<1>. QED
  BY <1>2 DEF Choice

\* Whatever byte goes on from a state of the first line, there are such marks.
LEMMA FirstChoice ==
    ASSUME NEW c, NEW state, NEW to, NEW into, NEW n \in Nat, NEW u, NEW v, NEW d, NEW e,
           RequestMarks(u, v, d, e), FirstState(state, u, v, d, e, n),
           \/ GoesInRequestLine(state, c, to, into)
           \/ /\ state = "http_version_minor" /\ c \in {"CR"} /\ to = "expecting_newline_1"
              /\ into = "nothing"
    PROVE  \E u1, v1, d1, e1 : Choice(c, to, into, n, u, v, d, e, u1, v1, d1, e1)
<1>1. /\ u \in Nat /\ v \in Nat /\ d \in Nat /\ e \in Nat
      /\ 1 < u /\ u < v /\ v + 6 < d /\ d + 1 < e
  BY DEF RequestMarks
<1>2. CASE state = "method_start" /\ c \in Token /\ to = "method" /\ into = "method"
  <2>1. n = 0
    BY <1>2 DEF FirstState
  <2>2. PICK u1, v1, d1, e1 : u1 = n + 2 /\ v1 = n + 3 /\ d1 = n + 10 /\ e1 = n + 12
    OBVIOUS
  <2>3. RequestMarks(u1, v1, d1, e1)
    BY <1>1, <2>1, <2>2 DEF RequestMarks
  <2>4. SameUpTo(n, u, u1) /\ SameUpTo(n, v, v1) /\ SameUpTo(n, d, d1) /\ SameUpTo(n, e, e1)
    BY <1>1, <2>1, <2>2 DEF SameUpTo
  <2>5. 0 < n + 1 /\ n + 1 < u1
    BY <1>1, <2>1, <2>2
  <2>6. FirstState(to, u1, v1, d1, e1, n + 1)
    BY <1>2, <2>5, Zenon DEF FirstState
  <2>7. /\ n + 1 < u1 /\ ~(u1 < n + 1 /\ n + 1 < v1)
        /\ ~(n + 1 = v1 + 5)
        /\ ~(v1 + 5 < n + 1 /\ n + 1 < d1)
        /\ ~(d1 < n + 1 /\ n + 1 < e1)
    BY <1>1, <2>1, <2>2
  <2>8. FirstStores(into, u1, v1, d1, e1, n + 1)
    BY <1>2, <2>7, Zenon DEF FirstStores
  <2>9. n + 1 < e1 /\ n + 1 # e1 /\ n + 1 # e1 + 1 /\ n + 1 < u1
    BY <1>1, <2>1, <2>2
  <2>10. ByPlace(c, u1, v1, d1, n + 1) => FirstTakes(c, u1, v1, d1, e1, n + 1)
    BY <1>2, <2>9, Zenon DEF ByPlace, FirstTakes
  <2>11. Choice(c, to, into, n, u, v, d, e, u1, v1, d1, e1)
    BY <2>3, <2>4, <2>6, <2>8, <2>10, Choosing
  <2>. QED
    BY <2>11
<1>3. CASE state = "method" /\ c \in Token /\ to = "method" /\ into = "method"
  <2>1. 0 < n /\ n < u
    BY <1>3 DEF FirstState
  <2>2. PICK u1, v1, d1, e1 : u1 = n + 2 /\ v1 = n + 3 /\ d1 = n + 10 /\ e1 = n + 12
    OBVIOUS
  <2>3. RequestMarks(u1, v1, d1, e1)
    BY <1>1, <2>1, <2>2 DEF RequestMarks
  <2>4. SameUpTo(n, u, u1) /\ SameUpTo(n, v, v1) /\ SameUpTo(n, d, d1) /\ SameUpTo(n, e, e1)
    BY <1>1, <2>1, <2>2 DEF SameUpTo
  <2>5. 0 < n + 1 /\ n + 1 < u1
    BY <1>1, <2>1, <2>2
  <2>6. FirstState(to, u1, v1, d1, e1, n + 1)
    BY <1>3, <2>5, Zenon DEF FirstState
  <2>7. /\ n + 1 < u1 /\ ~(u1 < n + 1 /\ n + 1 < v1)
        /\ ~(n + 1 = v1 + 5)
        /\ ~(v1 + 5 < n + 1 /\ n + 1 < d1)
        /\ ~(d1 < n + 1 /\ n + 1 < e1)
    BY <1>1, <2>1, <2>2
  <2>8. FirstStores(into, u1, v1, d1, e1, n + 1)
    BY <1>3, <2>7, Zenon DEF FirstStores
  <2>9. n + 1 < e1 /\ n + 1 # e1 /\ n + 1 # e1 + 1 /\ n + 1 < u1
    BY <1>1, <2>1, <2>2
  <2>10. ByPlace(c, u1, v1, d1, n + 1) => FirstTakes(c, u1, v1, d1, e1, n + 1)
    BY <1>3, <2>9, Zenon DEF ByPlace, FirstTakes
  <2>11. Choice(c, to, into, n, u, v, d, e, u1, v1, d1, e1)
    BY <2>3, <2>4, <2>6, <2>8, <2>10, Choosing
  <2>. QED
    BY <2>11
<1>4. CASE state = "method" /\ c \in {" "} /\ to = "uri" /\ into = "nothing"
  <2>1. 0 < n /\ n < u
    BY <1>4 DEF FirstState
  <2>2. PICK u1, v1, d1, e1 : u1 = n + 1 /\ v1 = n + 2 /\ d1 = n + 9 /\ e1 = n + 11
    OBVIOUS
  <2>3. RequestMarks(u1, v1, d1, e1)
    BY <1>1, <2>1, <2>2 DEF RequestMarks
  <2>4. SameUpTo(n, u, u1) /\ SameUpTo(n, v, v1) /\ SameUpTo(n, d, d1) /\ SameUpTo(n, e, e1)
    BY <1>1, <2>1, <2>2 DEF SameUpTo
  <2>5. u1 <= n + 1 /\ n + 1 < v1
    BY <1>1, <2>1, <2>2
  <2>6. FirstState(to, u1, v1, d1, e1, n + 1)
    BY <1>4, <2>5, Zenon DEF FirstState
  <2>7. /\ ~(n + 1 < u1) /\ ~(u1 < n + 1 /\ n + 1 < v1)
        /\ ~(n + 1 = v1 + 5)
        /\ ~(v1 + 5 < n + 1 /\ n + 1 < d1)
        /\ ~(d1 < n + 1 /\ n + 1 < e1)
    BY <1>1, <2>1, <2>2
  <2>8. FirstStores(into, u1, v1, d1, e1, n + 1)
    BY <1>4, <2>7, Zenon DEF FirstStores
  <2>9. n + 1 < e1 /\ n + 1 # e1 /\ n + 1 # e1 + 1 /\ n + 1 = u1
    BY <1>1, <2>1, <2>2
  <2>10. ByPlace(c, u1, v1, d1, n + 1) => FirstTakes(c, u1, v1, d1, e1, n + 1)
    BY <1>4, <2>9, Zenon DEF ByPlace, FirstTakes
  <2>11. Choice(c, to, into, n, u, v, d, e, u1, v1, d1, e1)
    BY <2>3, <2>4, <2>6, <2>8, <2>10, Choosing
  <2>. QED
    BY <2>11
<1>5. CASE state = "uri" /\ c \in Text \ {" "} /\ to = "uri" /\ into = "uri"
  <2>1. u <= n /\ n < v
    BY <1>5 DEF FirstState
  <2>2. PICK u1, v1, d1, e1 : u1 = u /\ v1 = n + 2 /\ d1 = n + 9 /\ e1 = n + 11
    OBVIOUS
  <2>3. RequestMarks(u1, v1, d1, e1)
    BY <1>1, <2>1, <2>2 DEF RequestMarks
  <2>4. SameUpTo(n, u, u1) /\ SameUpTo(n, v, v1) /\ SameUpTo(n, d, d1) /\ SameUpTo(n, e, e1)
    BY <1>1, <2>1, <2>2 DEF SameUpTo
  <2>5. u1 <= n + 1 /\ n + 1 < v1
    BY <1>1, <2>1, <2>2
  <2>6. FirstState(to, u1, v1, d1, e1, n + 1)
    BY <1>5, <2>5, Zenon DEF FirstState
  <2>7. /\ ~(n + 1 < u1) /\ (u1 < n + 1 /\ n + 1 < v1)
        /\ ~(n + 1 = v1 + 5)
        /\ ~(v1 + 5 < n + 1 /\ n + 1 < d1)
        /\ ~(d1 < n + 1 /\ n + 1 < e1)
    BY <1>1, <2>1, <2>2
  <2>8. FirstStores(into, u1, v1, d1, e1, n + 1)
    BY <1>5, <2>7, Zenon DEF FirstStores
  <2>9. n + 1 < e1 /\ n + 1 # e1 /\ n + 1 # e1 + 1 /\ u1 < n + 1 /\ n + 1 < v1
    BY <1>1, <2>1, <2>2
  <2>10. ByPlace(c, u1, v1, d1, n + 1) => FirstTakes(c, u1, v1, d1, e1, n + 1)
    BY <1>5, <2>9, Zenon DEF ByPlace, FirstTakes
  <2>11. Choice(c, to, into, n, u, v, d, e, u1, v1, d1, e1)
    BY <2>3, <2>4, <2>6, <2>8, <2>10, Choosing
  <2>. QED
    BY <2>11
<1>6. CASE state = "uri" /\ c \in {" "} /\ to = "http_version_h" /\ into = "nothing"
  <2>1. u <= n /\ n < v
    BY <1>6 DEF FirstState
  <2>2. PICK u1, v1, d1, e1 : u1 = u /\ v1 = n + 1 /\ d1 = n + 8 /\ e1 = n + 10
    OBVIOUS
  <2>3. RequestMarks(u1, v1, d1, e1)
    BY <1>1, <2>1, <2>2 DEF RequestMarks
  <2>4. SameUpTo(n, u, u1) /\ SameUpTo(n, v, v1) /\ SameUpTo(n, d, d1) /\ SameUpTo(n, e, e1)
    BY <1>1, <2>1, <2>2 DEF SameUpTo
  <2>5. n + 1 = v1
    BY <1>1, <2>1, <2>2
  <2>6. FirstState(to, u1, v1, d1, e1, n + 1)
    BY <1>6, <2>5, Zenon DEF FirstState
  <2>7. /\ ~(n + 1 < u1) /\ ~(u1 < n + 1 /\ n + 1 < v1)
        /\ ~(n + 1 = v1 + 5)
        /\ ~(v1 + 5 < n + 1 /\ n + 1 < d1)
        /\ ~(d1 < n + 1 /\ n + 1 < e1)
    BY <1>1, <2>1, <2>2
  <2>8. FirstStores(into, u1, v1, d1, e1, n + 1)
    BY <1>6, <2>7, Zenon DEF FirstStores
  <2>9. n + 1 < e1 /\ n + 1 # e1 /\ n + 1 # e1 + 1 /\ n + 1 = v1
    BY <1>1, <2>1, <2>2
  <2>10. ByPlace(c, u1, v1, d1, n + 1) => FirstTakes(c, u1, v1, d1, e1, n + 1)
    BY <1>6, <2>9, Zenon DEF ByPlace, FirstTakes
  <2>11. Choice(c, to, into, n, u, v, d, e, u1, v1, d1, e1)
    BY <2>3, <2>4, <2>6, <2>8, <2>10, Choosing
  <2>. QED
    BY <2>11
<1>7. CASE state = "http_version_h" /\ c \in {"H"} /\ to = "http_version_t_1" /\ into = "nothing"
  <2>1. n = v
    BY <1>7 DEF FirstState
  <2>2. PICK u1, v1, d1, e1 : u1 = u /\ v1 = v /\ d1 = n + 7 /\ e1 = n + 9
    OBVIOUS
  <2>3. RequestMarks(u1, v1, d1, e1)
    BY <1>1, <2>1, <2>2 DEF RequestMarks
  <2>4. SameUpTo(n, u, u1) /\ SameUpTo(n, v, v1) /\ SameUpTo(n, d, d1) /\ SameUpTo(n, e, e1)
    BY <1>1, <2>1, <2>2 DEF SameUpTo
  <2>5. n + 1 = v1 + 1
    BY <1>1, <2>1, <2>2
  <2>6. FirstState(to, u1, v1, d1, e1, n + 1)
    BY <1>7, <2>5, Zenon DEF FirstState
  <2>7. /\ ~(n + 1 < u1) /\ ~(u1 < n + 1 /\ n + 1 < v1)
        /\ ~(n + 1 = v1 + 5)
        /\ ~(v1 + 5 < n + 1 /\ n + 1 < d1)
        /\ ~(d1 < n + 1 /\ n + 1 < e1)
    BY <1>1, <2>1, <2>2
  <2>8. FirstStores(into, u1, v1, d1, e1, n + 1)
    BY <1>7, <2>7, Zenon DEF FirstStores
  <2>9. n + 1 < e1 /\ n + 1 # e1 /\ n + 1 # e1 + 1 /\ n + 1 = v1 + 1
    BY <1>1, <2>1, <2>2
  <2>10. ByPlace(c, u1, v1, d1, n + 1) => FirstTakes(c, u1, v1, d1, e1, n + 1)
    BY <1>7, <2>9, Zenon DEF ByPlace, FirstTakes
  <2>11. Choice(c, to, into, n, u, v, d, e, u1, v1, d1, e1)
    BY <2>3, <2>4, <2>6, <2>8, <2>10, Choosing
  <2>. QED
    BY <2>11
<1>8. CASE state = "http_version_t_1" /\ c \in {"T"} /\ to = "http_version_t_2" /\ into = "nothing"
  <2>1. n = v + 1
    BY <1>8 DEF FirstState
  <2>2. PICK u1, v1, d1, e1 : u1 = u /\ v1 = v /\ d1 = n + 7 /\ e1 = n + 9
    OBVIOUS
  <2>3. RequestMarks(u1, v1, d1, e1)
    BY <1>1, <2>1, <2>2 DEF RequestMarks
  <2>4. SameUpTo(n, u, u1) /\ SameUpTo(n, v, v1) /\ SameUpTo(n, d, d1) /\ SameUpTo(n, e, e1)
    BY <1>1, <2>1, <2>2 DEF SameUpTo
  <2>5. n + 1 = v1 + 2
    BY <1>1, <2>1, <2>2
  <2>6. FirstState(to, u1, v1, d1, e1, n + 1)
    BY <1>8, <2>5, Zenon DEF FirstState
  <2>7. /\ ~(n + 1 < u1) /\ ~(u1 < n + 1 /\ n + 1 < v1)
        /\ ~(n + 1 = v1 + 5)
        /\ ~(v1 + 5 < n + 1 /\ n + 1 < d1)
        /\ ~(d1 < n + 1 /\ n + 1 < e1)
    BY <1>1, <2>1, <2>2
  <2>8. FirstStores(into, u1, v1, d1, e1, n + 1)
    BY <1>8, <2>7, Zenon DEF FirstStores
  <2>9. n + 1 < e1 /\ n + 1 # e1 /\ n + 1 # e1 + 1 /\ n + 1 = v1 + 2
    BY <1>1, <2>1, <2>2
  <2>10. ByPlace(c, u1, v1, d1, n + 1) => FirstTakes(c, u1, v1, d1, e1, n + 1)
    BY <1>8, <2>9, Zenon DEF ByPlace, FirstTakes
  <2>11. Choice(c, to, into, n, u, v, d, e, u1, v1, d1, e1)
    BY <2>3, <2>4, <2>6, <2>8, <2>10, Choosing
  <2>. QED
    BY <2>11
<1>9. CASE state = "http_version_t_2" /\ c \in {"T"} /\ to = "http_version_p" /\ into = "nothing"
  <2>1. n = v + 2
    BY <1>9 DEF FirstState
  <2>2. PICK u1, v1, d1, e1 : u1 = u /\ v1 = v /\ d1 = n + 7 /\ e1 = n + 9
    OBVIOUS
  <2>3. RequestMarks(u1, v1, d1, e1)
    BY <1>1, <2>1, <2>2 DEF RequestMarks
  <2>4. SameUpTo(n, u, u1) /\ SameUpTo(n, v, v1) /\ SameUpTo(n, d, d1) /\ SameUpTo(n, e, e1)
    BY <1>1, <2>1, <2>2 DEF SameUpTo
  <2>5. n + 1 = v1 + 3
    BY <1>1, <2>1, <2>2
  <2>6. FirstState(to, u1, v1, d1, e1, n + 1)
    BY <1>9, <2>5, Zenon DEF FirstState
  <2>7. /\ ~(n + 1 < u1) /\ ~(u1 < n + 1 /\ n + 1 < v1)
        /\ ~(n + 1 = v1 + 5)
        /\ ~(v1 + 5 < n + 1 /\ n + 1 < d1)
        /\ ~(d1 < n + 1 /\ n + 1 < e1)
    BY <1>1, <2>1, <2>2
  <2>8. FirstStores(into, u1, v1, d1, e1, n + 1)
    BY <1>9, <2>7, Zenon DEF FirstStores
  <2>9. n + 1 < e1 /\ n + 1 # e1 /\ n + 1 # e1 + 1 /\ n + 1 = v1 + 3
    BY <1>1, <2>1, <2>2
  <2>10. ByPlace(c, u1, v1, d1, n + 1) => FirstTakes(c, u1, v1, d1, e1, n + 1)
    BY <1>9, <2>9, Zenon DEF ByPlace, FirstTakes
  <2>11. Choice(c, to, into, n, u, v, d, e, u1, v1, d1, e1)
    BY <2>3, <2>4, <2>6, <2>8, <2>10, Choosing
  <2>. QED
    BY <2>11
<1>10. CASE state = "http_version_p" /\ c \in {"P"} /\ to = "http_version_slash" /\ into = "nothing"
  <2>1. n = v + 3
    BY <1>10 DEF FirstState
  <2>2. PICK u1, v1, d1, e1 : u1 = u /\ v1 = v /\ d1 = n + 7 /\ e1 = n + 9
    OBVIOUS
  <2>3. RequestMarks(u1, v1, d1, e1)
    BY <1>1, <2>1, <2>2 DEF RequestMarks
  <2>4. SameUpTo(n, u, u1) /\ SameUpTo(n, v, v1) /\ SameUpTo(n, d, d1) /\ SameUpTo(n, e, e1)
    BY <1>1, <2>1, <2>2 DEF SameUpTo
  <2>5. n + 1 = v1 + 4
    BY <1>1, <2>1, <2>2
  <2>6. FirstState(to, u1, v1, d1, e1, n + 1)
    BY <1>10, <2>5, Zenon DEF FirstState
  <2>7. /\ ~(n + 1 < u1) /\ ~(u1 < n + 1 /\ n + 1 < v1)
        /\ ~(n + 1 = v1 + 5)
        /\ ~(v1 + 5 < n + 1 /\ n + 1 < d1)
        /\ ~(d1 < n + 1 /\ n + 1 < e1)
    BY <1>1, <2>1, <2>2
  <2>8. FirstStores(into, u1, v1, d1, e1, n + 1)
    BY <1>10, <2>7, Zenon DEF FirstStores
  <2>9. n + 1 < e1 /\ n + 1 # e1 /\ n + 1 # e1 + 1 /\ n + 1 = v1 + 4
    BY <1>1, <2>1, <2>2
  <2>10. ByPlace(c, u1, v1, d1, n + 1) => FirstTakes(c, u1, v1, d1, e1, n + 1)
    BY <1>10, <2>9, Zenon DEF ByPlace, FirstTakes
  <2>11. Choice(c, to, into, n, u, v, d, e, u1, v1, d1, e1)
    BY <2>3, <2>4, <2>6, <2>8, <2>10, Choosing
  <2>. QED
    BY <2>11
<1>11. CASE state = "http_version_slash" /\ c \in {"/"} /\ to = "http_version_major_start" /\ into = "no_version"
  <2>1. n = v + 4
    BY <1>11 DEF FirstState
  <2>2. PICK u1, v1, d1, e1 : u1 = u /\ v1 = v /\ d1 = n + 7 /\ e1 = n + 9
    OBVIOUS
  <2>3. RequestMarks(u1, v1, d1, e1)
    BY <1>1, <2>1, <2>2 DEF RequestMarks
  <2>4. SameUpTo(n, u, u1) /\ SameUpTo(n, v, v1) /\ SameUpTo(n, d, d1) /\ SameUpTo(n, e, e1)
    BY <1>1, <2>1, <2>2 DEF SameUpTo
  <2>5. n + 1 = v1 + 5
    BY <1>1, <2>1, <2>2
  <2>6. FirstState(to, u1, v1, d1, e1, n + 1)
    BY <1>11, <2>5, Zenon DEF FirstState
  <2>7. /\ ~(n + 1 < u1) /\ ~(u1 < n + 1 /\ n + 1 < v1)
        /\ n + 1 = v1 + 5
        /\ ~(v1 + 5 < n + 1 /\ n + 1 < d1)
        /\ ~(d1 < n + 1 /\ n + 1 < e1)
    BY <1>1, <2>1, <2>2
  <2>8. FirstStores(into, u1, v1, d1, e1, n + 1)
    BY <1>11, <2>7, Zenon DEF FirstStores
  <2>9. n + 1 < e1 /\ n + 1 # e1 /\ n + 1 # e1 + 1 /\ n + 1 = v1 + 5
    BY <1>1, <2>1, <2>2
  <2>10. ByPlace(c, u1, v1, d1, n + 1) => FirstTakes(c, u1, v1, d1, e1, n + 1)
    BY <1>11, <2>9, Zenon DEF ByPlace, FirstTakes
  <2>11. Choice(c, to, into, n, u, v, d, e, u1, v1, d1, e1)
    BY <2>3, <2>4, <2>6, <2>8, <2>10, Choosing
  <2>. QED
    BY <2>11
<1>12. CASE state = "http_version_major_start" /\ c \in Digit /\ to = "http_version_major" /\ into = "major"
  <2>1. n = v + 5
    BY <1>12 DEF FirstState
  <2>2. PICK u1, v1, d1, e1 : u1 = u /\ v1 = v /\ d1 = n + 2 /\ e1 = n + 4
    OBVIOUS
  <2>3. RequestMarks(u1, v1, d1, e1)
    BY <1>1, <2>1, <2>2 DEF RequestMarks
  <2>4. SameUpTo(n, u, u1) /\ SameUpTo(n, v, v1) /\ SameUpTo(n, d, d1) /\ SameUpTo(n, e, e1)
    BY <1>1, <2>1, <2>2 DEF SameUpTo
  <2>5. v1 + 5 < n + 1 /\ n + 1 < d1
    BY <1>1, <2>1, <2>2
  <2>6. FirstState(to, u1, v1, d1, e1, n + 1)
    BY <1>12, <2>5, Zenon DEF FirstState
  <2>7. /\ ~(n + 1 < u1) /\ ~(u1 < n + 1 /\ n + 1 < v1)
        /\ ~(n + 1 = v1 + 5)
        /\ (v1 + 5 < n + 1 /\ n + 1 < d1)
        /\ ~(d1 < n + 1 /\ n + 1 < e1)
    BY <1>1, <2>1, <2>2
  <2>8. FirstStores(into, u1, v1, d1, e1, n + 1)
    BY <1>12, <2>7, Zenon DEF FirstStores
  <2>9. n + 1 < e1 /\ n + 1 # e1 /\ n + 1 # e1 + 1 /\ v1 + 5 < n + 1 /\ n + 1 # d1
    BY <1>1, <2>1, <2>2
  <2>10. ByPlace(c, u1, v1, d1, n + 1) => FirstTakes(c, u1, v1, d1, e1, n + 1)
    BY <1>12, <2>9, Zenon DEF ByPlace, FirstTakes
  <2>11. Choice(c, to, into, n, u, v, d, e, u1, v1, d1, e1)
    BY <2>3, <2>4, <2>6, <2>8, <2>10, Choosing
  <2>. QED
    BY <2>11
<1>13. CASE state = "http_version_major" /\ c \in Digit /\ to = "http_version_major" /\ into = "major"
  <2>1. v + 5 < n /\ n < d
    BY <1>13 DEF FirstState
  <2>2. PICK u1, v1, d1, e1 : u1 = u /\ v1 = v /\ d1 = n + 2 /\ e1 = n + 4
    OBVIOUS
  <2>3. RequestMarks(u1, v1, d1, e1)
    BY <1>1, <2>1, <2>2 DEF RequestMarks
  <2>4. SameUpTo(n, u, u1) /\ SameUpTo(n, v, v1) /\ SameUpTo(n, d, d1) /\ SameUpTo(n, e, e1)
    BY <1>1, <2>1, <2>2 DEF SameUpTo
  <2>5. v1 + 5 < n + 1 /\ n + 1 < d1
    BY <1>1, <2>1, <2>2
  <2>6. FirstState(to, u1, v1, d1, e1, n + 1)
    BY <1>13, <2>5, Zenon DEF FirstState
  <2>7. /\ ~(n + 1 < u1) /\ ~(u1 < n + 1 /\ n + 1 < v1)
        /\ ~(n + 1 = v1 + 5)
        /\ (v1 + 5 < n + 1 /\ n + 1 < d1)
        /\ ~(d1 < n + 1 /\ n + 1 < e1)
    BY <1>1, <2>1, <2>2
  <2>8. FirstStores(into, u1, v1, d1, e1, n + 1)
    BY <1>13, <2>7, Zenon DEF FirstStores
  <2>9. n + 1 < e1 /\ n + 1 # e1 /\ n + 1 # e1 + 1 /\ v1 + 5 < n + 1 /\ n + 1 # d1
    BY <1>1, <2>1, <2>2
  <2>10. ByPlace(c, u1, v1, d1, n + 1) => FirstTakes(c, u1, v1, d1, e1, n + 1)
    BY <1>13, <2>9, Zenon DEF ByPlace, FirstTakes
  <2>11. Choice(c, to, into, n, u, v, d, e, u1, v1, d1, e1)
    BY <2>3, <2>4, <2>6, <2>8, <2>10, Choosing
  <2>. QED
    BY <2>11
<1>14. CASE state = "http_version_major" /\ c \in {"."} /\ to = "http_version_minor_start" /\ into = "nothing"
  <2>1. v + 5 < n /\ n < d
    BY <1>14 DEF FirstState
  <2>2. PICK u1, v1, d1, e1 : u1 = u /\ v1 = v /\ d1 = n + 1 /\ e1 = n + 3
    OBVIOUS
  <2>3. RequestMarks(u1, v1, d1, e1)
    BY <1>1, <2>1, <2>2 DEF RequestMarks
  <2>4. SameUpTo(n, u, u1) /\ SameUpTo(n, v, v1) /\ SameUpTo(n, d, d1) /\ SameUpTo(n, e, e1)
    BY <1>1, <2>1, <2>2 DEF SameUpTo
  <2>5. n + 1 = d1
    BY <1>1, <2>1, <2>2
  <2>6. FirstState(to, u1, v1, d1, e1, n + 1)
    BY <1>14, <2>5, Zenon DEF FirstState
  <2>7. /\ ~(n + 1 < u1) /\ ~(u1 < n + 1 /\ n + 1 < v1)
        /\ ~(n + 1 = v1 + 5)
        /\ ~(v1 + 5 < n + 1 /\ n + 1 < d1)
        /\ ~(d1 < n + 1 /\ n + 1 < e1)
    BY <1>1, <2>1, <2>2
  <2>8. FirstStores(into, u1, v1, d1, e1, n + 1)
    BY <1>14, <2>7, Zenon DEF FirstStores
  <2>9. n + 1 < e1 /\ n + 1 # e1 /\ n + 1 # e1 + 1 /\ n + 1 = d1
    BY <1>1, <2>1, <2>2
  <2>10. ByPlace(c, u1, v1, d1, n + 1) => FirstTakes(c, u1, v1, d1, e1, n + 1)
    BY <1>14, <2>9, Zenon DEF ByPlace, FirstTakes
  <2>11. Choice(c, to, into, n, u, v, d, e, u1, v1, d1, e1)
    BY <2>3, <2>4, <2>6, <2>8, <2>10, Choosing
  <2>. QED
    BY <2>11
<1>15. CASE state = "http_version_minor_start" /\ c \in Digit /\ to = "http_version_minor" /\ into = "minor"
  <2>1. n = d
    BY <1>15 DEF FirstState
  <2>2. PICK u1, v1, d1, e1 : u1 = u /\ v1 = v /\ d1 = d /\ e1 = n + 2
    OBVIOUS
  <2>3. RequestMarks(u1, v1, d1, e1)
    BY <1>1, <2>1, <2>2 DEF RequestMarks
  <2>4. SameUpTo(n, u, u1) /\ SameUpTo(n, v, v1) /\ SameUpTo(n, d, d1) /\ SameUpTo(n, e, e1)
    BY <1>1, <2>1, <2>2 DEF SameUpTo
  <2>5. d1 < n + 1 /\ n + 1 < e1
    BY <1>1, <2>1, <2>2
  <2>6. FirstState(to, u1, v1, d1, e1, n + 1)
    BY <1>15, <2>5, Zenon DEF FirstState
  <2>7. /\ ~(n + 1 < u1) /\ ~(u1 < n + 1 /\ n + 1 < v1)
        /\ ~(n + 1 = v1 + 5)
        /\ ~(v1 + 5 < n + 1 /\ n + 1 < d1)
        /\ (d1 < n + 1 /\ n + 1 < e1)
    BY <1>1, <2>1, <2>2
  <2>8. FirstStores(into, u1, v1, d1, e1, n + 1)
    BY <1>15, <2>7, Zenon DEF FirstStores
  <2>9. n + 1 < e1 /\ n + 1 # e1 /\ n + 1 # e1 + 1 /\ v1 + 5 < n + 1 /\ n + 1 # d1
    BY <1>1, <2>1, <2>2
  <2>10. ByPlace(c, u1, v1, d1, n + 1) => FirstTakes(c, u1, v1, d1, e1, n + 1)
    BY <1>15, <2>9, Zenon DEF ByPlace, FirstTakes
  <2>11. Choice(c, to, into, n, u, v, d, e, u1, v1, d1, e1)
    BY <2>3, <2>4, <2>6, <2>8, <2>10, Choosing
  <2>. QED
    BY <2>11
<1>16. CASE state = "http_version_minor" /\ c \in Digit /\ to = "http_version_minor" /\ into = "minor"
  <2>1. d < n /\ n < e
    BY <1>16 DEF FirstState
  <2>2. PICK u1, v1, d1, e1 : u1 = u /\ v1 = v /\ d1 = d /\ e1 = n + 2
    OBVIOUS
  <2>3. RequestMarks(u1, v1, d1, e1)
    BY <1>1, <2>1, <2>2 DEF RequestMarks
  <2>4. SameUpTo(n, u, u1) /\ SameUpTo(n, v, v1) /\ SameUpTo(n, d, d1) /\ SameUpTo(n, e, e1)
    BY <1>1, <2>1, <2>2 DEF SameUpTo
  <2>5. d1 < n + 1 /\ n + 1 < e1
    BY <1>1, <2>1, <2>2
  <2>6. FirstState(to, u1, v1, d1, e1, n + 1)
    BY <1>16, <2>5, Zenon DEF FirstState
  <2>7. /\ ~(n + 1 < u1) /\ ~(u1 < n + 1 /\ n + 1 < v1)
        /\ ~(n + 1 = v1 + 5)
        /\ ~(v1 + 5 < n + 1 /\ n + 1 < d1)
        /\ (d1 < n + 1 /\ n + 1 < e1)
    BY <1>1, <2>1, <2>2
  <2>8. FirstStores(into, u1, v1, d1, e1, n + 1)
    BY <1>16, <2>7, Zenon DEF FirstStores
  <2>9. n + 1 < e1 /\ n + 1 # e1 /\ n + 1 # e1 + 1 /\ v1 + 5 < n + 1 /\ n + 1 # d1
    BY <1>1, <2>1, <2>2
  <2>10. ByPlace(c, u1, v1, d1, n + 1) => FirstTakes(c, u1, v1, d1, e1, n + 1)
    BY <1>16, <2>9, Zenon DEF ByPlace, FirstTakes
  <2>11. Choice(c, to, into, n, u, v, d, e, u1, v1, d1, e1)
    BY <2>3, <2>4, <2>6, <2>8, <2>10, Choosing
  <2>. QED
    BY <2>11
<1>17. CASE state = "http_version_minor" /\ c \in {"CR"} /\ to = "expecting_newline_1" /\ into = "nothing"
  <2>1. d < n /\ n < e
    BY <1>17 DEF FirstState
  <2>2. PICK u1, v1, d1, e1 : u1 = u /\ v1 = v /\ d1 = d /\ e1 = n + 1
    OBVIOUS
  <2>3. RequestMarks(u1, v1, d1, e1)
    BY <1>1, <2>1, <2>2 DEF RequestMarks
  <2>4. SameUpTo(n, u, u1) /\ SameUpTo(n, v, v1) /\ SameUpTo(n, d, d1) /\ SameUpTo(n, e, e1)
    BY <1>1, <2>1, <2>2 DEF SameUpTo
  <2>5. n + 1 = e1
    BY <1>1, <2>1, <2>2
  <2>6. FirstState(to, u1, v1, d1, e1, n + 1)
    BY <1>17, <2>5, Zenon DEF FirstState
  <2>7. /\ ~(n + 1 < u1) /\ ~(u1 < n + 1 /\ n + 1 < v1)
        /\ ~(n + 1 = v1 + 5)
        /\ ~(v1 + 5 < n + 1 /\ n + 1 < d1)
        /\ ~(d1 < n + 1 /\ n + 1 < e1)
    BY <1>1, <2>1, <2>2
  <2>8. FirstStores(into, u1, v1, d1, e1, n + 1)
    BY <1>17, <2>7, Zenon DEF FirstStores
  <2>9. ~(n + 1 < e1) /\ n + 1 # e1 + 1
    BY <1>1, <2>1, <2>2
  <2>10. ByPlace(c, u1, v1, d1, n + 1) => FirstTakes(c, u1, v1, d1, e1, n + 1)
    BY <1>17, <2>9, Zenon DEF ByPlace, FirstTakes
  <2>11. Choice(c, to, into, n, u, v, d, e, u1, v1, d1, e1)
    BY <2>3, <2>4, <2>6, <2>8, <2>10, Choosing
  <2>. QED
    BY <2>11
<1>. QED
  BY <1>2, <1>3, <1>4, <1>5, <1>6, <1>7, <1>8, <1>9, <1>10, <1>11, <1>12, <1>13,
     <1>14, <1>15, <1>16, <1>17 DEF GoesInRequestLine

-----------------------------------------------------------------------------
(* What a byte changes of the request *)

\* What a byte changes of a request, part by part.
Changes(into, c, r, to) ==
    /\ to.method = (IF into = "method" THEN Append(r.method, c) ELSE r.method)
    /\ to.uri = (IF into = "uri" THEN Append(r.uri, c) ELSE r.uri)
    /\ to.major = (IF into = "major" THEN r.major * 10 + Value(c)
                   ELSE IF into = "no_version" THEN 0 ELSE r.major)
    /\ to.minor = (IF into = "minor" THEN r.minor * 10 + Value(c)
                   ELSE IF into = "no_version" THEN 0 ELSE r.minor)
    /\ to.headers = (IF into = "new_header"
                     THEN Append(r.headers, [name |-> <<c>>, value |-> <<>>])
                     ELSE r.headers)

\* What Store changes of a request outside of its last header,
LEMMA StoreParts ==
    ASSUME NEW r \in Request, NEW c, NEW into \in Targets \ {"name", "value"}
    PROVE  Changes(into, c, r, Store(into, c, r))
<1>1. CASE into \in {"nothing", "complete"}
  BY <1>1 DEF Store, Changes
<1>2. CASE into = "method"
  <2>1. Store(into, c, r) = [r EXCEPT !.method = Append(r.method, c)]
    BY <1>2 DEF Store
  <2>. QED
    BY <1>2, <2>1 DEF Request, Changes
<1>3. CASE into = "uri"
  <2>1. Store(into, c, r) = [r EXCEPT !.uri = Append(r.uri, c)]
    BY <1>3 DEF Store
  <2>. QED
    BY <1>3, <2>1 DEF Request, Changes
<1>4. CASE into = "no_version"
  <2>1. Store(into, c, r) = [r EXCEPT !.major = 0, !.minor = 0]
    BY <1>4 DEF Store
  <2>. QED
    BY <1>4, <2>1 DEF Request, Changes
<1>5. CASE into = "major"
  <2>1. Store(into, c, r) = [r EXCEPT !.major = r.major * 10 + Value(c)]
    BY <1>5 DEF Store
  <2>. QED
    BY <1>5, <2>1 DEF Request, Changes
<1>6. CASE into = "minor"
  <2>1. Store(into, c, r) = [r EXCEPT !.minor = r.minor * 10 + Value(c)]
    BY <1>6 DEF Store
  <2>. QED
    BY <1>6, <2>1 DEF Request, Changes
<1>7. CASE into = "new_header"
  <2>1. Store(into, c, r) = [r EXCEPT !.headers = Append(r.headers, [name |-> <<c>>, value |-> <<>>])]
    BY <1>7 DEF Store
  <2>. QED
    BY <1>7, <2>1 DEF Request, Changes
<1>. QED
  BY <1>1, <1>2, <1>3, <1>4, <1>5, <1>6, <1>7 DEF Targets

\* A byte of the last header.
WithByte(h, into, c) ==
    [name |-> IF into = "name" THEN Append(h.name, c) ELSE h.name,
     value |-> IF into = "value" THEN Append(h.value, c) ELSE h.value]
ChangesLast(into, c, r, to) ==
    /\ to.method = r.method /\ to.uri = r.uri /\ to.major = r.major /\ to.minor = r.minor
    /\ to.headers =
          [r.headers EXCEPT ![Len(r.headers)] = WithByte(r.headers[Len(r.headers)], into, c)]

\* and what of the last header.
LEMMA StoreLast ==
    ASSUME NEW r \in Request, NEW c, NEW into \in {"name", "value"}, r.headers # <<>>
    PROVE  ChangesLast(into, c, r, Store(into, c, r))
<1> SUFFICES
           /\ Store(into, c, r).method = r.method /\ Store(into, c, r).uri = r.uri
           /\ Store(into, c, r).major = r.major /\ Store(into, c, r).minor = r.minor
           /\ Store(into, c, r).headers =
                 [r.headers EXCEPT ![Len(r.headers)] =
                    [name |-> IF into = "name" THEN Append(r.headers[Len(r.headers)].name, c)
                              ELSE r.headers[Len(r.headers)].name,
                     value |-> IF into = "value" THEN Append(r.headers[Len(r.headers)].value, c)
                               ELSE r.headers[Len(r.headers)].value]]
  BY DEF ChangesLast, WithByte
<1> DEFINE h == r.headers
           k == Len(h)
<1>1. h \in Seq(Header) /\ k \in 1..Len(h) /\ k > 0
  BY DEF Request
<1>2. h[k] \in Header
  BY <1>1
<1>0. \A g \in Header : \A m : /\ [g EXCEPT !.name = m] = [name |-> m, value |-> g.value]
                              /\ [g EXCEPT !.value = m] = [name |-> g.name, value |-> m]
  BY DEF Header
<1>3. CASE into = "name"
  <2>1. Store(into, c, r) = [r EXCEPT !.headers[k].name = Append(@, c)]
    BY <1>1, <1>3 DEF Store
  <2>2. @ = [r EXCEPT !.headers =
                [h EXCEPT ![k] = [h[k] EXCEPT !.name = Append(h[k].name, c)]]]
    BY <1>1 DEF Request
  <2>3. [h[k] EXCEPT !.name = Append(h[k].name, c)] =
           [name |-> Append(h[k].name, c), value |-> h[k].value]
    BY <1>0, <1>2
  <2>4. Store(into, c, r) = [r EXCEPT !.headers =
                [h EXCEPT ![k] = [name |-> Append(h[k].name, c), value |-> h[k].value]]]
    BY <2>1, <2>2, <2>3
  <2>5. [name |-> IF into = "name" THEN Append(h[k].name, c) ELSE h[k].name,
         value |-> IF into = "value" THEN Append(h[k].value, c) ELSE h[k].value] =
           [name |-> Append(h[k].name, c), value |-> h[k].value]
    BY <1>3
  <2> DEFINE x == [name |-> Append(h[k].name, c), value |-> h[k].value]
  <2>6. x = [name |-> Append(h[k].name, c), value |-> h[k].value]
    OBVIOUS
  <2> HIDE DEF x
  <2>7. Store(into, c, r) = [r EXCEPT !.headers = [h EXCEPT ![k] = x]]
    BY <2>4, <2>6
  <2>8. Store(into, c, r).headers = [h EXCEPT ![k] = x]
    BY <2>7 DEF Request
  <2>. QED
    BY <2>5, <2>6, <2>7, <2>8 DEF Request
<1>4. CASE into = "value"
  <2>1. Store(into, c, r) = [r EXCEPT !.headers[k].value = Append(@, c)]
    BY <1>1, <1>4 DEF Store
  <2>2. @ = [r EXCEPT !.headers =
                [h EXCEPT ![k] = [h[k] EXCEPT !.value = Append(h[k].value, c)]]]
    BY <1>1 DEF Request
  <2>3. [h[k] EXCEPT !.value = Append(h[k].value, c)] =
           [name |-> h[k].name, value |-> Append(h[k].value, c)]
    BY <1>0, <1>2
  <2>4. Store(into, c, r) = [r EXCEPT !.headers =
                [h EXCEPT ![k] = [name |-> h[k].name, value |-> Append(h[k].value, c)]]]
    BY <2>1, <2>2, <2>3
  <2>5. [name |-> IF into = "name" THEN Append(h[k].name, c) ELSE h[k].name,
         value |-> IF into = "value" THEN Append(h[k].value, c) ELSE h[k].value] =
           [name |-> h[k].name, value |-> Append(h[k].value, c)]
    BY <1>4
  <2> DEFINE x == [name |-> h[k].name, value |-> Append(h[k].value, c)]
  <2>6. x = [name |-> h[k].name, value |-> Append(h[k].value, c)]
    OBVIOUS
  <2> HIDE DEF x
  <2>7. Store(into, c, r) = [r EXCEPT !.headers = [h EXCEPT ![k] = x]]
    BY <2>4, <2>6
  <2>8. Store(into, c, r).headers = [h EXCEPT ![k] = x]
    BY <2>7 DEF Request
  <2>. QED
    BY <2>5, <2>6, <2>7, <2>8 DEF Request
<1>. QED
  BY <1>3, <1>4

\* A byte of the first line goes where its marks say.
LEMMA FirstSaidMore ==
    ASSUME NEW t \in Seq(Bytes), NEW c \in Bytes, NEW r \in Request, NEW into,
           NEW u, NEW v, NEW d, NEW e, RequestMarks(u, v, d, e), Len(t) < e,
           FirstFits(Append(t, c), u, v, d, e), FirstSaid(t, u, v, d, e, r),
           FirstStores(into, u, v, d, e, Len(t) + 1)
    PROVE  /\ FirstSaid(Append(t, c), u, v, d, e, Store(into, c, r))
           /\ Store(into, c, r).headers = r.headers
<1> DEFINE n == Len(t)
           T == Append(t, c)
           to == Store(into, c, r)
<1>1. /\ u \in Nat \ {0} /\ v \in Nat \ {0} /\ d \in Nat \ {0} /\ e \in Nat \ {0}
      /\ 1 < u /\ u < v /\ v + 6 < d /\ d + 1 < e
  BY DEF RequestMarks
<1>2. /\ T \in Seq(Bytes) /\ n \in Nat /\ Len(T) = n + 1 /\ T[n + 1] = c
      /\ \A i \in 1..n : T[i] = t[i]
  BY TextMore
<1>3. \A i \in 1..n + 1 : i < e => InRequestLine(T[i], u, v, d, i)
  BY <1>2 DEF FirstFits, FirstTakes
<1>4. into \in Targets \ {"name", "value"} /\ into # "new_header"
  BY DEF FirstStores, Targets
<1>5. /\ to.method = (IF into = "method" THEN Append(r.method, c) ELSE r.method)
      /\ to.uri = (IF into = "uri" THEN Append(r.uri, c) ELSE r.uri)
      /\ to.major = (IF into = "major" THEN r.major * 10 + Value(c)
                     ELSE IF into = "no_version" THEN 0 ELSE r.major)
      /\ to.minor = (IF into = "minor" THEN r.minor * 10 + Value(c)
                     ELSE IF into = "no_version" THEN 0 ELSE r.minor)
      /\ to.headers = r.headers
  <2>1. Changes(into, c, r, to)
    BY <1>4, StoreParts
  <2>. QED
    BY <1>4, <2>1 DEF Changes
<1>6. /\ r.method = Part(t, 1, u) /\ r.uri = Part(t, u + 1, v)
      /\ r.major = NumberOf(Part(t, v + 6, d)) /\ r.minor = NumberOf(Part(t, d + 1, e))
  BY DEF FirstSaid
<1> HIDE DEF T, to, n
<1>7. /\ into = "method" <=> n + 1 < u
      /\ into = "uri" <=> u < n + 1 /\ n + 1 < v
      /\ into = "no_version" <=> n + 1 = v + 5
      /\ into = "major" <=> v + 5 < n + 1 /\ n + 1 < d
      /\ into = "minor" <=> d < n + 1 /\ n + 1 < e
  BY DEF FirstStores, n
<1>8. \A i, mark \in Nat \ {0} :
         Part(T, i, mark) = IF i <= n + 1 /\ n + 1 < mark THEN Append(Part(t, i, mark), c)
                            ELSE Part(t, i, mark)
  <2> SUFFICES ASSUME NEW i \in Nat \ {0}, NEW mark \in Nat \ {0}
               PROVE  Part(T, i, mark) = IF i <= n + 1 /\ n + 1 < mark THEN Append(Part(t, i, mark), c)
                                         ELSE Part(t, i, mark)
    OBVIOUS
  <2>. QED
    BY PartStep DEF T, n
<1>9. to.method = Part(T, 1, u)
  <2>1. Part(T, 1, u) = IF 1 <= n + 1 /\ n + 1 < u THEN Append(Part(t, 1, u), c) ELSE Part(t, 1, u)
    BY <1>1, <1>8
  <2>. QED
    BY <1>2, <1>5, <1>6, <1>7, <2>1
<1>10. to.uri = Part(T, u + 1, v)
  <2>1. u + 1 \in Nat \ {0} /\ (u + 1 <= n + 1 <=> u < n + 1)
    BY <1>1, <1>2
  <2>2. Part(T, u + 1, v) = IF u + 1 <= n + 1 /\ n + 1 < v THEN Append(Part(t, u + 1, v), c)
                            ELSE Part(t, u + 1, v)
    BY <1>1, <1>8, <2>1
  <2>. QED
    BY <1>5, <1>6, <1>7, <2>1, <2>2
<1>11. \A i \in 1..n : v + 6 <= i /\ i < d => t[i] \in Digit
  <2> SUFFICES ASSUME NEW i \in 1..n, v + 6 <= i, i < d PROVE t[i] \in Digit
    OBVIOUS
  <2>1. i \in Nat \ {0} /\ i \in 1..n + 1 /\ i < e /\ v + 5 < i /\ i # d
    BY <1>1, <1>2
  <2>2. InRequestLine(t[i], u, v, d, i)
    BY <1>2, <1>3, <2>1
  <2>3. ByPlace(t[i], u, v, d, i)
    BY <2>1, FirstClass
  <2>. QED
    BY <2>1, <2>2, <2>3, Zenon DEF ByPlace
<1>12. \A i \in 1..n : d + 1 <= i /\ i < e => t[i] \in Digit
  <2> SUFFICES ASSUME NEW i \in 1..n, d + 1 <= i, i < e PROVE t[i] \in Digit
    OBVIOUS
  <2>1. i \in Nat \ {0} /\ i \in 1..n + 1 /\ i < e /\ v + 5 < i /\ i # d
    BY <1>1, <1>2
  <2>2. InRequestLine(t[i], u, v, d, i)
    BY <1>2, <1>3, <2>1
  <2>3. ByPlace(t[i], u, v, d, i)
    BY <2>1, FirstClass
  <2>. QED
    BY <2>1, <2>2, <2>3, Zenon DEF ByPlace
<1>13. n + 1 < e /\ v + 5 < n + 1 /\ n + 1 # d => c \in Digit
  <2> SUFFICES ASSUME n + 1 < e, v + 5 < n + 1, n + 1 # d PROVE c \in Digit
    OBVIOUS
  <2>1. n + 1 \in Nat \ {0} /\ n + 1 \in 1..n + 1
    BY <1>2
  <2>2. InRequestLine(c, u, v, d, n + 1)
    BY <1>2, <1>3, <2>1
  <2>3. ByPlace(c, u, v, d, n + 1)
    BY <2>1, FirstClass
  <2>. QED
    BY <2>1, <2>2, <2>3, Zenon DEF ByPlace
<1>14. v + 6 \in Nat \ {0} /\ d + 1 \in Nat \ {0}
  BY <1>1
<1>15. Part(t, v + 6, d) \in Seq(Digit) /\ Part(t, d + 1, e) \in Seq(Digit)
  BY <1>1, <1>11, <1>12, <1>14, PartIn DEF n
<1>16. ASSUME n + 1 = v + 5
       PROVE  Part(t, v + 6, d) = <<>> /\ Part(t, d + 1, e) = <<>>
  <2>1. Part(t, v + 6, d) = SubSeq(t, v + 6, n) /\ Part(t, d + 1, e) = SubSeq(t, d + 1, n)
    BY <1>1, <1>2, <1>16 DEF Part, n
  <2>2. v + 6 \in Int /\ d + 1 \in Int /\ n \in Int /\ n < v + 6 /\ n < d + 1
    BY <1>1, <1>2, <1>16
  <2>. QED
    BY <2>1, <2>2, SubSeqEmpty
<1>17. to.major = NumberOf(Part(T, v + 6, d))
  <2>1. v + 6 <= n + 1 <=> v + 5 < n + 1
    BY <1>1, <1>2
  <2>2. Part(T, v + 6, d) = IF v + 6 <= n + 1 /\ n + 1 < d THEN Append(Part(t, v + 6, d), c)
                            ELSE Part(t, v + 6, d)
    BY <1>1, <1>8, <1>14
  <2>3. CASE into = "major"
    <3>1. v + 6 <= n + 1 /\ n + 1 < d /\ n + 1 < e /\ v + 5 < n + 1 /\ n + 1 # d
      BY <1>1, <1>2, <1>7, <2>1, <2>3
    <3>2. c \in Digit
      BY <1>13, <3>1
    <3>3. NumberOf(Append(Part(t, v + 6, d), c)) = NumberOf(Part(t, v + 6, d)) * 10 + Value(c)
      BY <1>15, <3>2, NumberMore
    <3>. QED
      BY <1>5, <1>6, <2>2, <2>3, <3>1, <3>3
  <2>4. CASE into # "major"
    <3>1. Part(T, v + 6, d) = Part(t, v + 6, d)
      BY <1>7, <2>1, <2>2, <2>4
    <3>2. CASE into = "no_version"
      BY <1>5, <1>7, <1>16, <3>1, <3>2, NumberNone
    <3>3. CASE into # "no_version"
      BY <1>5, <1>6, <2>4, <3>1, <3>3
    <3>. QED
      BY <3>2, <3>3
  <2>. QED
    BY <2>3, <2>4
<1>18. to.minor = NumberOf(Part(T, d + 1, e))
  <2>1. d + 1 <= n + 1 <=> d < n + 1
    BY <1>1, <1>2
  <2>2. Part(T, d + 1, e) = IF d + 1 <= n + 1 /\ n + 1 < e THEN Append(Part(t, d + 1, e), c)
                            ELSE Part(t, d + 1, e)
    BY <1>1, <1>8, <1>14
  <2>3. CASE into = "minor"
    <3>1. d + 1 <= n + 1 /\ n + 1 < e /\ v + 5 < n + 1 /\ n + 1 # d
      BY <1>1, <1>2, <1>7, <2>1, <2>3
    <3>2. c \in Digit
      BY <1>13, <3>1
    <3>3. NumberOf(Append(Part(t, d + 1, e), c)) = NumberOf(Part(t, d + 1, e)) * 10 + Value(c)
      BY <1>15, <3>2, NumberMore
    <3>. QED
      BY <1>5, <1>6, <2>2, <2>3, <3>1, <3>3
  <2>4. CASE into # "minor"
    <3>1. Part(T, d + 1, e) = Part(t, d + 1, e)
      BY <1>7, <2>1, <2>2, <2>4
    <3>2. CASE into = "no_version"
      BY <1>5, <1>7, <1>16, <3>1, <3>2, NumberNone
    <3>3. CASE into # "no_version"
      BY <1>5, <1>6, <2>4, <3>1, <3>3
    <3>. QED
      BY <3>2, <3>3
  <2>. QED
    BY <2>3, <2>4
<1>. QED
  BY <1>5, <1>9, <1>10, <1>17, <1>18 DEF FirstSaid, T, to, n

\* There is a transition for a byte that fits the marks of the first line.
LEMMA FirstGoes ==
    ASSUME NEW c, NEW state, NEW headers, NEW n \in Nat, NEW u, NEW v, NEW d, NEW e,
           RequestMarks(u, v, d, e), FirstState(state, u, v, d, e, n),
           FirstTakes(c, u, v, d, e, n + 1)
    PROVE  \E to, into : Goes(state, c, to, into, headers)
<1>1. /\ u \in Nat /\ v \in Nat /\ d \in Nat /\ e \in Nat
      /\ 1 < u /\ u < v /\ v + 6 < d /\ d + 1 < e
  BY DEF RequestMarks
<1>2. /\ n + 1 < e => InRequestLine(c, u, v, d, n + 1)
      /\ n + 1 = e => c = "CR"
      /\ n + 1 = e + 1 => c = "LF"
  BY DEF FirstTakes
<1>3. ByPlace(c, u, v, d, n + 1)
  <2>1. n + 1 \in Nat \ {0}
    OBVIOUS
  <2>. QED
    BY <2>1, FirstClass
<1>4. ASSUME NEW to, NEW into, GoesInRequestLine(state, c, to, into) \/ GoesAtEnd(state, c, to, into)
      PROVE  \E x, y : Goes(state, c, x, y, headers)
  BY <1>4, Zenon DEF Goes
<1>5. CASE state = "method_start" /\ n = 0
  <2>1. n + 1 < u
    BY <1>1, <1>5
  <2>2. CASE n + 1 < u
    <3>1. n + 1 < e
      BY <1>1, <1>5, <2>2
    <3>2. c \in Token
      BY <1>2, <1>3, <2>2, <3>1, Zenon DEF ByPlace
    <3>3. GoesInRequestLine(state, c, "method", "method")
      BY <1>5, <3>2, Zenon DEF GoesInRequestLine
    <3>. QED
      BY <1>4, <3>3
  <2>. QED
    BY <2>1, <2>2
<1>6. CASE state = "method" /\ 0 < n /\ n < u
  <2>1. n + 1 < u \/ n + 1 = u
    BY <1>1, <1>6
  <2>2. CASE n + 1 < u
    <3>1. n + 1 < e
      BY <1>1, <1>6, <2>2
    <3>2. c \in Token
      BY <1>2, <1>3, <2>2, <3>1, Zenon DEF ByPlace
    <3>3. GoesInRequestLine(state, c, "method", "method")
      BY <1>6, <3>2, Zenon DEF GoesInRequestLine
    <3>. QED
      BY <1>4, <3>3
  <2>3. CASE n + 1 = u
    <3>1. n + 1 < e
      BY <1>1, <1>6, <2>3
    <3>2. c \in {" "}
      BY <1>2, <1>3, <2>3, <3>1, Zenon DEF ByPlace
    <3>3. GoesInRequestLine(state, c, "uri", "nothing")
      BY <1>6, <3>2, Zenon DEF GoesInRequestLine
    <3>. QED
      BY <1>4, <3>3
  <2>. QED
    BY <2>1, <2>2, <2>3
<1>7. CASE state = "uri" /\ u <= n /\ n < v
  <2>1. (u < n + 1 /\ n + 1 < v) \/ n + 1 = v
    BY <1>1, <1>7
  <2>2. CASE u < n + 1 /\ n + 1 < v
    <3>1. n + 1 < e
      BY <1>1, <1>7, <2>2
    <3>2. c \in Text \ {" "}
      BY <1>2, <1>3, <2>2, <3>1, Zenon DEF ByPlace
    <3>3. GoesInRequestLine(state, c, "uri", "uri")
      BY <1>7, <3>2, Zenon DEF GoesInRequestLine
    <3>. QED
      BY <1>4, <3>3
  <2>3. CASE n + 1 = v
    <3>1. n + 1 < e
      BY <1>1, <1>7, <2>3
    <3>2. c \in {" "}
      BY <1>2, <1>3, <2>3, <3>1, Zenon DEF ByPlace
    <3>3. GoesInRequestLine(state, c, "http_version_h", "nothing")
      BY <1>7, <3>2, Zenon DEF GoesInRequestLine
    <3>. QED
      BY <1>4, <3>3
  <2>. QED
    BY <2>1, <2>2, <2>3
<1>8. CASE state = "http_version_h" /\ n = v
  <2>1. n + 1 = v + 1
    BY <1>1, <1>8
  <2>2. CASE n + 1 = v + 1
    <3>1. n + 1 < e
      BY <1>1, <1>8, <2>2
    <3>2. c \in {"H"}
      BY <1>2, <1>3, <2>2, <3>1, Zenon DEF ByPlace
    <3>3. GoesInRequestLine(state, c, "http_version_t_1", "nothing")
      BY <1>8, <3>2, Zenon DEF GoesInRequestLine
    <3>. QED
      BY <1>4, <3>3
  <2>. QED
    BY <2>1, <2>2
<1>9. CASE state = "http_version_t_1" /\ n = v + 1
  <2>1. n + 1 = v + 2
    BY <1>1, <1>9
  <2>2. CASE n + 1 = v + 2
    <3>1. n + 1 < e
      BY <1>1, <1>9, <2>2
    <3>2. c \in {"T"}
      BY <1>2, <1>3, <2>2, <3>1, Zenon DEF ByPlace
    <3>3. GoesInRequestLine(state, c, "http_version_t_2", "nothing")
      BY <1>9, <3>2, Zenon DEF GoesInRequestLine
    <3>. QED
      BY <1>4, <3>3
  <2>. QED
    BY <2>1, <2>2
<1>10. CASE state = "http_version_t_2" /\ n = v + 2
  <2>1. n + 1 = v + 3
    BY <1>1, <1>10
  <2>2. CASE n + 1 = v + 3
    <3>1. n + 1 < e
      BY <1>1, <1>10, <2>2
    <3>2. c \in {"T"}
      BY <1>2, <1>3, <2>2, <3>1, Zenon DEF ByPlace
    <3>3. GoesInRequestLine(state, c, "http_version_p", "nothing")
      BY <1>10, <3>2, Zenon DEF GoesInRequestLine
    <3>. QED
      BY <1>4, <3>3
  <2>. QED
    BY <2>1, <2>2
<1>11. CASE state = "http_version_p" /\ n = v + 3
  <2>1. n + 1 = v + 4
    BY <1>1, <1>11
  <2>2. CASE n + 1 = v + 4
    <3>1. n + 1 < e
      BY <1>1, <1>11, <2>2
    <3>2. c \in {"P"}
      BY <1>2, <1>3, <2>2, <3>1, Zenon DEF ByPlace
    <3>3. GoesInRequestLine(state, c, "http_version_slash", "nothing")
      BY <1>11, <3>2, Zenon DEF GoesInRequestLine
    <3>. QED
      BY <1>4, <3>3
  <2>. QED
    BY <2>1, <2>2
<1>12. CASE state = "http_version_slash" /\ n = v + 4
  <2>1. n + 1 = v + 5
    BY <1>1, <1>12
  <2>2. CASE n + 1 = v + 5
    <3>1. n + 1 < e
      BY <1>1, <1>12, <2>2
    <3>2. c \in {"/"}
      BY <1>2, <1>3, <2>2, <3>1, Zenon DEF ByPlace
    <3>3. GoesInRequestLine(state, c, "http_version_major_start", "no_version")
      BY <1>12, <3>2, Zenon DEF GoesInRequestLine
    <3>. QED
      BY <1>4, <3>3
  <2>. QED
    BY <2>1, <2>2
<1>13. CASE state = "http_version_major_start" /\ n = v + 5
  <2>1. v + 5 < n + 1 /\ n + 1 # d
    BY <1>1, <1>13
  <2>2. CASE v + 5 < n + 1 /\ n + 1 # d
    <3>1. n + 1 < e
      BY <1>1, <1>13, <2>2
    <3>2. c \in Digit
      BY <1>2, <1>3, <2>2, <3>1, Zenon DEF ByPlace
    <3>3. GoesInRequestLine(state, c, "http_version_major", "major")
      BY <1>13, <3>2, Zenon DEF GoesInRequestLine
    <3>. QED
      BY <1>4, <3>3
  <2>. QED
    BY <2>1, <2>2
<1>14. CASE state = "http_version_major" /\ v + 5 < n /\ n < d
  <2>1. (v + 5 < n + 1 /\ n + 1 # d) \/ n + 1 = d
    BY <1>1, <1>14
  <2>2. CASE v + 5 < n + 1 /\ n + 1 # d
    <3>1. n + 1 < e
      BY <1>1, <1>14, <2>2
    <3>2. c \in Digit
      BY <1>2, <1>3, <2>2, <3>1, Zenon DEF ByPlace
    <3>3. GoesInRequestLine(state, c, "http_version_major", "major")
      BY <1>14, <3>2, Zenon DEF GoesInRequestLine
    <3>. QED
      BY <1>4, <3>3
  <2>3. CASE n + 1 = d
    <3>1. n + 1 < e
      BY <1>1, <1>14, <2>3
    <3>2. c \in {"."}
      BY <1>2, <1>3, <2>3, <3>1, Zenon DEF ByPlace
    <3>3. GoesInRequestLine(state, c, "http_version_minor_start", "nothing")
      BY <1>14, <3>2, Zenon DEF GoesInRequestLine
    <3>. QED
      BY <1>4, <3>3
  <2>. QED
    BY <2>1, <2>2, <2>3
<1>15. CASE state = "http_version_minor_start" /\ n = d
  <2>1. v + 5 < n + 1 /\ n + 1 # d
    BY <1>1, <1>15
  <2>2. CASE v + 5 < n + 1 /\ n + 1 # d
    <3>1. n + 1 < e
      BY <1>1, <1>15, <2>2
    <3>2. c \in Digit
      BY <1>2, <1>3, <2>2, <3>1, Zenon DEF ByPlace
    <3>3. GoesInRequestLine(state, c, "http_version_minor", "minor")
      BY <1>15, <3>2, Zenon DEF GoesInRequestLine
    <3>. QED
      BY <1>4, <3>3
  <2>. QED
    BY <2>1, <2>2
<1>16. CASE state = "http_version_minor" /\ d < n /\ n < e
  <2>1. (v + 5 < n + 1 /\ n + 1 # d /\ n + 1 < e) \/ n + 1 = e
    BY <1>1, <1>16
  <2>2. CASE v + 5 < n + 1 /\ n + 1 # d /\ n + 1 < e
    <3>1. n + 1 < e
      BY <1>1, <1>16, <2>2
    <3>2. c \in Digit
      BY <1>2, <1>3, <2>2, <3>1, Zenon DEF ByPlace
    <3>3. GoesInRequestLine(state, c, "http_version_minor", "minor")
      BY <1>16, <3>2, Zenon DEF GoesInRequestLine
    <3>. QED
      BY <1>4, <3>3
  <2>3. CASE n + 1 = e
    <3>1. c \in {"CR"}
      BY <1>2, <2>3
    <3>3. GoesAtEnd(state, c, "expecting_newline_1", "nothing")
      BY <1>16, <3>1 DEF GoesAtEnd
    <3>. QED
      BY <1>4, <3>3
  <2>. QED
    BY <2>1, <2>2, <2>3
<1>17. CASE state = "expecting_newline_1" /\ n = e
  <2>1. n + 1 = e + 1
    BY <1>1, <1>17
  <2>2. CASE n + 1 = e + 1
    <3>1. c \in {"LF"}
      BY <1>2, <2>2
    <3>3. GoesAtEnd(state, c, "header_line_start", "nothing")
      BY <1>17, <3>1 DEF GoesAtEnd
    <3>. QED
      BY <1>4, <3>3
  <2>. QED
    BY <2>1, <2>2
<1>. QED
  BY <1>5, <1>6, <1>7, <1>8, <1>9, <1>10, <1>11, <1>12, <1>13, <1>14, <1>15, <1>16, <1>17 DEF FirstState

-----------------------------------------------------------------------------
(* The parser in the first line *)

\* A text is in its first line.
ReadsFirst(t, state, r) ==
    /\ LineStarts(t) = {1}
    /\ r.headers = <<>>
    /\ \E u, v, d, e :
          /\ RequestMarks(u, v, d, e) /\ Len(t) <= e
          /\ FirstFits(t, u, v, d, e) /\ FirstState(state, u, v, d, e, Len(t))
          /\ FirstSaid(t, u, v, d, e, r)

\* It is behind it.
ReadFirst(t, r) ==
    \E u, v, d, e : FirstLine(t, u, v, d, e) /\ Spans(t, 1, e) /\ FirstSaid(t, u, v, d, e, r)

\* What comes behind the first line says nothing of it.
LEMMA FirstSaidStays ==
    ASSUME NEW t \in Seq(Bytes), NEW c \in Bytes, NEW u, NEW v, NEW d, NEW e,
           RequestMarks(u, v, d, e), e <= Len(t), NEW r, FirstSaid(t, u, v, d, e, r), NEW r1,
           r1.method = r.method, r1.uri = r.uri, r1.major = r.major, r1.minor = r.minor
    PROVE  FirstSaid(Append(t, c), u, v, d, e, r1)
<1>1. /\ u \in Nat \ {0} /\ v \in Nat \ {0} /\ d \in Nat \ {0} /\ e \in Nat \ {0}
      /\ u < e /\ v < e /\ d < e /\ Len(t) \in Nat
      /\ u + 1 \in Nat \ {0} /\ v + 6 \in Nat \ {0} /\ d + 1 \in Nat \ {0} /\ 1 \in Nat \ {0}
  BY DEF RequestMarks
<1>2. \A i, mark \in Nat \ {0} : mark <= e => Part(Append(t, c), i, mark) = Part(t, i, mark)
  <2> SUFFICES ASSUME NEW i \in Nat \ {0}, NEW mark \in Nat \ {0}, mark <= e
               PROVE  Part(Append(t, c), i, mark) = Part(t, i, mark)
    OBVIOUS
  <2>1. ~(Len(t) + 1 < mark)
    BY <1>1
  <2>. QED
    BY <2>1, PartStep
<1>3. /\ Part(Append(t, c), 1, u) = Part(t, 1, u)
      /\ Part(Append(t, c), u + 1, v) = Part(t, u + 1, v)
      /\ Part(Append(t, c), v + 6, d) = Part(t, v + 6, d)
      /\ Part(Append(t, c), d + 1, e) = Part(t, d + 1, e)
  BY <1>1, <1>2
<1>. QED
  BY <1>3 DEF FirstSaid

\* The first line that was read stays read.
LEMMA ReadFirstStays ==
    ASSUME NEW t \in Seq(Bytes), NEW c \in Bytes, NEW r, ReadFirst(t, r), NEW r1,
           r1.method = r.method, r1.uri = r.uri, r1.major = r.major, r1.minor = r.minor
    PROVE  ReadFirst(Append(t, c), r1)
<1>1. PICK u, v, d, e : FirstLine(t, u, v, d, e) /\ Spans(t, 1, e) /\ FirstSaid(t, u, v, d, e, r)
  BY DEF ReadFirst
<1>2. GoesOn(Append(t, c), t)
  BY TextMore DEF GoesOn
<1>3. /\ Spans(Append(t, c), 1, e) /\ e \in Nat /\ e < Len(t) /\ Len(t) \in Nat
      /\ \A i \in 1..Len(t) : Append(t, c)[i] = t[i]
  <2>1. 1 \in Nat \ {0}
    OBVIOUS
  <2>2. Spans(Append(t, c), 1, e) /\ e \in Nat /\ e < Len(t)
    BY <1>1, <1>2, <2>1, SpansStay
  <2>. QED
    BY <2>2, TextMore
<1>4. RequestMarks(u, v, d, e) /\ \A i \in 1..e - 1 : InRequestLine(t[i], u, v, d, i)
  BY <1>1 DEF FirstLine
<1>5. \A i \in 1..e - 1 : i \in 1..Len(t)
  BY <1>3
<1>6. FirstLine(Append(t, c), u, v, d, e)
  BY <1>3, <1>4, <1>5 DEF FirstLine
<1>7. FirstSaid(Append(t, c), u, v, d, e, r1)
  BY <1>1, <1>3, <1>4, FirstSaidStays
<1>. QED
  BY <1>3, <1>6, <1>7 DEF ReadFirst

\* One byte more, in the first line
LEMMA FirstGoesOn ==
    ASSUME NEW t \in Seq(Bytes), NEW state, NEW r \in Request, ReadsFirst(t, state, r),
           NEW c \in Bytes, NEW to, NEW into,
           \/ GoesInRequestLine(state, c, to, into)
           \/ /\ state = "http_version_minor" /\ c \in {"CR"} /\ to = "expecting_newline_1"
              /\ into = "nothing"
    PROVE  ReadsFirst(Append(t, c), to, Store(into, c, r))
<1> DEFINE n == Len(t)
           T == Append(t, c)
<1>1. /\ T \in Seq(Bytes) /\ n \in Nat /\ Len(T) = n + 1 /\ T[n + 1] = c
      /\ \A i \in 1..n : T[i] = t[i]
  BY TextMore
<1>2. PICK u, v, d, e :
          /\ RequestMarks(u, v, d, e) /\ n <= e
          /\ FirstFits(t, u, v, d, e) /\ FirstState(state, u, v, d, e, n)
          /\ FirstSaid(t, u, v, d, e, r)
  BY DEF ReadsFirst
<1>3. PICK u1, v1, d1, e1 : Choice(c, to, into, n, u, v, d, e, u1, v1, d1, e1)
  BY <1>1, <1>2, FirstChoice
<1>4. /\ RequestMarks(u1, v1, d1, e1)
      /\ SameUpTo(n, u, u1) /\ SameUpTo(n, v, v1) /\ SameUpTo(n, d, d1) /\ SameUpTo(n, e, e1)
      /\ FirstTakes(c, u1, v1, d1, e1, n + 1)
      /\ FirstState(to, u1, v1, d1, e1, n + 1)
      /\ FirstStores(into, u1, v1, d1, e1, n + 1)
  BY <1>3 DEF Choice
<1>5. FirstFits(t, u1, v1, d1, e1) /\ FirstSaid(t, u1, v1, d1, e1, r)
  BY <1>2, <1>4, FirstRemarked
<1> HIDE DEF T, n
<1>6. FirstFits(T, u1, v1, d1, e1)
  <2>1. \A i \in 1..Len(T) : i \in 1..n \/ i = n + 1
    BY <1>1
  <2>2. \A i \in 1..n : FirstTakes(T[i], u1, v1, d1, e1, i)
    BY <1>1, <1>5 DEF FirstFits, n
  <2>. QED
    BY <1>1, <1>4, <2>1, <2>2 DEF FirstFits
<1>7. n + 1 <= e1 /\ n < e1
  <2>1. /\ u1 \in Nat /\ v1 \in Nat /\ d1 \in Nat /\ e1 \in Nat
        /\ 1 < u1 /\ u1 < v1 /\ v1 + 6 < d1 /\ d1 + 1 < e1
    BY <1>4 DEF RequestMarks
  <2>. QED
    BY <1>1, <1>4, <2>1 DEF FirstState
<1>8. FirstSaid(T, u1, v1, d1, e1, Store(into, c, r)) /\ Store(into, c, r).headers = r.headers
  BY <1>4, <1>5, <1>6, <1>7, FirstSaidMore DEF T, n
<1>9. LineStarts(T) = {1}
  <2>1. c # "LF"
    <3>1. CASE n + 1 = e1
      BY <1>4, <3>1 DEF FirstTakes
    <3>2. CASE n + 1 < e1
      <4>1. InRequestLine(T[n + 1], u1, v1, d1, n + 1) /\ n + 1 \in Nat \ {0}
        BY <1>1, <1>4, <3>2 DEF FirstTakes
      <4>2. T[n + 1] \in Text
        BY <1>4, <4>1, InFirstLine
      <4>. QED
        BY <1>1, <4>2, InLine
    <3>3. e1 \in Nat
      BY <1>4 DEF RequestMarks
    <3>. QED
      BY <1>1, <1>7, <3>1, <3>2, <3>3
  <2>2. LineStarts(T) = LineStarts(t)
    BY <2>1, EndsMore DEF T
  <2>. QED
    BY <2>2 DEF ReadsFirst
<1>. QED
  BY <1>1, <1>4, <1>6, <1>7, <1>8, <1>9 DEF ReadsFirst, T

\* and at its end.
LEMMA FirstOver ==
    ASSUME NEW t \in Seq(Bytes), NEW r \in Request, ReadsFirst(t, "expecting_newline_1", r)
    PROVE  /\ Opens(Append(t, "LF"), Len(t) + 2) /\ HeaderStarts(Append(t, "LF")) = {}
           /\ ReadFirst(Append(t, "LF"), r)
<1> DEFINE n == Len(t)
           T == Append(t, "LF")
<1>1. /\ T \in Seq(Bytes) /\ n \in Nat /\ Len(T) = n + 1 /\ T[n + 1] = "LF" /\ "LF" \in Bytes
      /\ \A i \in 1..n : T[i] = t[i]
  <2>1. "LF" \in Bytes
    BY DEF Bytes, Ctl
  <2>. QED
    BY <2>1, TextMore
<1>2. PICK u, v, d, e :
          /\ RequestMarks(u, v, d, e) /\ n <= e
          /\ FirstFits(t, u, v, d, e) /\ FirstState("expecting_newline_1", u, v, d, e, n)
          /\ FirstSaid(t, u, v, d, e, r)
  BY DEF ReadsFirst
<1> HIDE DEF T
<1>3. /\ u \in Nat /\ v \in Nat /\ d \in Nat /\ e \in Nat
      /\ 1 < u /\ u < v /\ v + 6 < d /\ d + 1 < e
  BY <1>2 DEF RequestMarks
<1>4. n = e
  BY <1>2 DEF FirstState
<1>5. n \in 1..n /\ t[n] = "CR"
  <2>1. n \in 1..n
    BY <1>3, <1>4
  <2>2. FirstTakes(t[n], u, v, d, e, n)
    BY <1>2, <2>1 DEF FirstFits
  <2>. QED
    BY <1>4, <2>1, <2>2 DEF FirstTakes
<1>6. LineStarts(t) = {1} /\ LineStarts(t) \subseteq 1..n + 1 /\ Ends(t) = {}
  <2>1. LineStarts(t) = {1}
    BY DEF ReadsFirst
  <2>2. \A i \in Ends(t) : i + 2 \in LineStarts(t) /\ i \in Nat \ {0}
    BY <1>1 DEF Ends, LineStarts
  <2>3. \A i \in Ends(t) : FALSE
    <3>1. \A i \in Nat \ {0} : i + 2 # 1
      OBVIOUS
    <3>. QED
      BY <2>1, <2>2, <3>1
  <2>. QED
    BY <1>1, <2>1, <2>3
<1>7. Ends(T) = {n} /\ LineStarts(T) = {1, n + 2}
  <2>1. n > 0
    BY <1>3, <1>4
  <2>2. /\ Ends(T) = Ends(t) \cup (IF n > 0 /\ t[n] = "CR" /\ "LF" = "LF" THEN {n} ELSE {})
        /\ LineStarts(T) = LineStarts(t)
                 \cup (IF n > 0 /\ t[n] = "CR" /\ "LF" = "LF" THEN {n + 2} ELSE {})
    BY <1>1, EndsMore DEF T
  <2>3. Ends(T) = Ends(t) \cup {n} /\ LineStarts(T) = LineStarts(t) \cup {n + 2}
    BY <1>5, <2>1, <2>2
  <2>. QED
    BY <1>6, <2>3
<1>8. Spans(T, 1, e)
  BY <1>3, <1>4, <1>7 DEF Spans
<1>9. FirstLine(T, u, v, d, e)
  <2>1. ASSUME NEW i \in 1..e - 1 PROVE InRequestLine(T[i], u, v, d, i)
    <3>1. i \in 1..n /\ i < e
      BY <1>3, <1>4
    <3>. QED
      BY <1>1, <1>2, <3>1 DEF FirstFits, FirstTakes
  <2>. QED
    BY <1>2, <2>1 DEF FirstLine
<1>10. FirstSaid(T, u, v, d, e, r)
  BY <1>1, <1>2, <1>3, <1>4, FirstSaidStays DEF T
<1>11. GoodLine(T, 1)
  BY <1>1, <1>8, <1>9, GoodFirst
<1>12. Opens(T, n + 2)
  BY <1>1, <1>7, <1>11 DEF Opens
<1>13. HeaderStarts(T) = {}
  BY <1>1, <1>7 DEF HeaderStarts
<1>. QED
  BY <1>8, <1>9, <1>10, <1>12, <1>13 DEF ReadFirst, T, n

\* A byte that does not fit the first line fits none: no text that goes on with
\* it is a request.
LEMMA FirstRefuses ==
    ASSUME NEW t \in Seq(Bytes), NEW state, NEW r, ReadsFirst(t, state, r), NEW c \in Bytes,
           \A to, into : ~Goes(state, c, to, into, r.headers),
           NEW T, GoesOn(T, Append(t, c))
    PROVE  ~IsRequest(T)
<1> DEFINE n == Len(t)
           more == Append(t, c)
<1> SUFFICES ASSUME NEW f, EndsRequest(T, f) PROVE FALSE
  BY DEF IsRequest
<1>1. /\ more \in Seq(Bytes) /\ n \in Nat /\ Len(more) = n + 1 /\ more[n + 1] = c
      /\ \A i \in 1..n : more[i] = t[i]
  BY TextMore
<1>2. PICK u, v, d, e :
          /\ RequestMarks(u, v, d, e) /\ n <= e
          /\ FirstFits(t, u, v, d, e) /\ FirstState(state, u, v, d, e, n)
  BY DEF ReadsFirst
<1> HIDE DEF more
<1>3. GoesOn(T, t)
  <2>1. /\ T \in Seq(Bytes) /\ n + 1 <= Len(T) /\ Len(T) \in Nat
        /\ \A i \in 1..n + 1 : T[i] = more[i]
    BY <1>1 DEF GoesOn, more
  <2>2. \A i \in 1..n : i \in 1..n + 1
    BY <1>1
  <2>. QED
    BY <1>1, <2>1, <2>2 DEF GoesOn
<1>4. T \in Seq(Bytes) /\ n + 1 <= Len(T) /\ Len(T) \in Nat /\ T[n + 1] = c
      /\ \A i \in 1..n : T[i] = t[i]
  BY <1>1, <1>3 DEF GoesOn, more
<1>5. /\ f > 1 /\ f \in LineStarts(T) /\ f \in Ends(T) /\ f \in Nat /\ 1 \in LineStarts(T)
      /\ GoodLine(T, 1)
  <2>1. f > 1 /\ f \in LineStarts(T) /\ f \in Ends(T) /\ \A s \in LineStarts(T) : s < f => GoodLine(T, s)
    BY DEF EndsRequest
  <2>2. f \in Nat /\ 1 \in LineStarts(T)
    BY <1>4, <2>1 DEF Ends, LineStarts
  <2>. QED
    BY <2>1, <2>2
<1>6. PICK e1 : Spans(T, 1, e1) /\ e1 <= f
  BY <1>4, <1>5, LineEnds, SMTT(30)
<1>7. PICK u1, v1, d1 : FirstLine(T, u1, v1, d1, e1)
  BY <1>4, <1>5, <1>6, GoodFirst
<1>8. RequestMarks(u1, v1, d1, e1) /\ \A i \in 1..e1 - 1 : InRequestLine(T[i], u1, v1, d1, i)
  BY <1>7 DEF FirstLine
<1>9. e1 \in Nat /\ e1 \in Ends(T) /\ T[e1] = "CR" /\ T[e1 + 1] = "LF" /\ e1 \in 1..Len(T) - 1
  BY <1>4, <1>6 DEF Spans, Ends
<1>10. n <= e1
  <2> SUFFICES ASSUME e1 < n PROVE FALSE
    BY <1>1, <1>9
  <2>1. e1 \in Ends(t)
    BY <1>3, <1>9, EndsStay
  <2>2. e1 + 2 \in LineStarts(t) /\ e1 + 2 # 1
    BY <1>9, <2>1 DEF LineStarts
  <2>. QED
    BY <2>2 DEF ReadsFirst
<1>11. \A i \in 1..n + 1 : FirstTakes(T[i], u1, v1, d1, e1, i)
  <2> SUFFICES ASSUME NEW i \in 1..n + 1 PROVE FirstTakes(T[i], u1, v1, d1, e1, i)
    OBVIOUS
  <2>1. i < e1 => i \in 1..e1 - 1
    BY <1>1, <1>9
  <2>2. i < e1 => InRequestLine(T[i], u1, v1, d1, i)
    BY <1>8, <2>1
  <2>. QED
    BY <1>9, <2>2 DEF FirstTakes
<1>12. FirstFits(t, u1, v1, d1, e1)
  <2>1. \A i \in 1..n : i \in 1..n + 1
    BY <1>1
  <2>. QED
    BY <1>4, <1>11, <2>1 DEF FirstFits
<1>13. FirstState(state, u1, v1, d1, e1, n)
  <2>1. /\ SameUpTo(n, u, u1) /\ SameUpTo(n, v, v1) /\ SameUpTo(n, d, d1) /\ SameUpTo(n, e, e1)
    BY <1>2, <1>8, <1>12, FirstDetermined
  <2>. QED
    BY <1>2, <1>8, <2>1, FirstRemarked
<1>14. FirstTakes(c, u1, v1, d1, e1, n + 1)
  <2>1. n + 1 \in 1..n + 1
    BY <1>1
  <2>. QED
    BY <1>4, <1>11, <2>1
<1>15. \E to, into : Goes(state, c, to, into, r.headers)
  BY <1>1, <1>8, <1>13, <1>14, FirstGoes
<1>. QED
  BY <1>15

-----------------------------------------------------------------------------
(* A later line, as it is read *)

\* A list of any places of a text.
LEMMA AllListed ==
    ASSUME NEW n \in Nat, NEW P, P \subseteq 1..n
    PROVE  \E o : Lists(o, P)
<1> DEFINE B == {k \in Nat : \E Q \in SUBSET (1..k) : \A o : ~Lists(o, Q)}
<1> SUFFICES ASSUME \A o : ~Lists(o, P) PROVE FALSE
  OBVIOUS
<1>1. n \in B
  OBVIOUS
<1>2. PICK k \in B : \A m \in B : k <= m
  <2>1. B \subseteq Nat /\ B # {}
    BY <1>1
  <2> HIDE DEF B
  <2>. QED
    BY <2>1, Least
<1>3. PICK Q : Q \subseteq 1..k /\ \A o : ~Lists(o, Q)
  BY <1>2
<1>4. k \in Nat
  BY <1>2
<1>5. k # 0
  <2> SUFFICES ASSUME k = 0 PROVE FALSE
    OBVIOUS
  <2>1. Q = {}
    BY <1>3
  <2>2. Lists(<< >>, Q)
    BY <2>1 DEF Lists
  <2>. QED
    BY <1>3, <2>2
<1>6. k - 1 \in Nat /\ k - 1 \notin B
  <2>1. k - 1 \in Nat /\ ~(k <= k - 1)
    BY <1>4, <1>5
  <2> HIDE DEF B
  <2>. QED
    BY <1>2, <2>1
<1>7. Q \ {k} \subseteq 1..k - 1
  BY <1>3, <1>4
<1>8. PICK o : Lists(o, Q \ {k})
  BY <1>6, <1>7
<1>9. CASE k \in Q
  <2>1. (Q \ {k}) \cup {k} = Q /\ \A x \in Q \ {k} : x < k
    BY <1>4, <1>7, <1>9
  <2>2. Lists(Append(o, k), (Q \ {k}) \cup {k})
    BY <1>4, <1>8, <2>1, ListsMore
  <2>. QED
    BY <1>3, <2>1, <2>2
<1>10. CASE k \notin Q
  <2>1. Q \ {k} = Q
    BY <1>10
  <2>. QED
    BY <1>3, <1>8, <2>1
<1>. QED
  BY <1>9, <1>10

\* A line before another one ends before it.
LEMMA EndsBefore ==
    ASSUME NEW t \in Seq(Bytes), NEW s \in LineStarts(t), NEW i \in LineStarts(t), i < s
    PROVE  \E e : Spans(t, i, e) /\ e + 2 <= s
<1>1. GoesOn(t, t) /\ Len(t) \in Nat
  BY DEF GoesOn
<1>2. LineStarts(t) \subseteq 1..Len(t) + 1 /\ Ends(t) \subseteq 1..Len(t) - 1
  BY <1>1, EndsStay
<1>3. i \in Nat \ {0} /\ s \in Nat /\ s # 1
  BY <1>1, <1>2
<1>4. PICK f \in Ends(t) : s = f + 2
  BY <1>3 DEF LineStarts
<1>5. f \in Nat /\ f \in 1..Len(t) - 1 /\ t[f] = "CR"
  BY <1>2, <1>4 DEF Ends
<1>6. i <= f
  <2> SUFFICES ASSUME i = f + 1 PROVE FALSE
    BY <1>3, <1>4, <1>5
  <2>1. i # 1
    BY <1>5
  <2>2. PICK g \in Ends(t) : i = g + 2
    BY <2>1 DEF LineStarts
  <2>3. g + 1 = f /\ g \in Nat
    BY <1>2, <1>5, <2>2
  <2>4. t[g + 1] = "LF"
    BY <2>2 DEF Ends
  <2>. QED
    BY <1>5, <2>3, <2>4
<1>7. PICK e : Spans(t, i, e) /\ e <= f
  BY <1>3, <1>6, LineEnds
<1>8. e \in Nat
  BY <1>2, <1>7 DEF Spans
<1>. QED
  BY <1>4, <1>5, <1>7, <1>8

\* What goes on from a text has the same good lines before the one that is being
\* read.
LEMMA OpensStays ==
    ASSUME NEW t \in Seq(Bytes), NEW s, Opens(t, s), NEW T, GoesOn(T, t)
    PROVE  \A i \in LineStarts(T) : i < s => i \in LineStarts(t) /\ GoodLine(T, i)
<1> SUFFICES ASSUME NEW i \in LineStarts(T), i < s PROVE i \in LineStarts(t) /\ GoodLine(T, i)
  OBVIOUS
<1>1. /\ Len(t) \in Nat /\ LineStarts(t) \subseteq 1..Len(t) + 1 /\ Len(T) \in Nat
      /\ LineStarts(T) \subseteq 1..Len(T) + 1
      /\ \A j \in LineStarts(T) : j <= Len(t) + 1 => j \in LineStarts(t)
  BY EndsStay DEF GoesOn
<1>2. s \in LineStarts(t) /\ s \in 1..Len(t) + 1 /\ i \in Nat \ {0}
  BY <1>1 DEF Opens
<1>3. i \in LineStarts(t)
  BY <1>1, <1>2
<1>4. PICK e : Spans(t, i, e)
  BY <1>2, <1>3, EndsBefore
<1>5. GoodLine(t, i)
  BY <1>3 DEF Opens
<1>. QED
  BY <1>2, <1>3, <1>4, <1>5, GoodStays

\* A header begins before s.
Headed(t, s) == \E h \in HeaderStarts(t) : h < s

\* The line that begins at s, as far as the text goes, in the words of the
\* parser's state.
Named(t, s) == s <= Len(t) /\ \A i \in s..Len(t) : t[i] \in Token
Coloned(t, s) == s < Len(t) /\ \A i \in s..Len(t) : InHeader(t[i], Len(t), i)
Blank(t, s) == s <= Len(t) /\ \A i \in s..Len(t) : t[i] \in Lws
Valued(t, s) ==
    \/ \E k : HeaderLineAt(t, s, k, Len(t) + 1)
    \/ Headed(t, s) /\ \E m : m < Len(t) /\ ContinuedAt(t, s, m, Len(t) + 1)
LineClosed(t, s) ==
    /\ 0 < Len(t) /\ t[Len(t)] = "CR"
    /\ \/ \E k : HeaderLineAt(t, s, k, Len(t))
       \/ Headed(t, s) /\ \E m : ContinuedAt(t, s, m, Len(t))
LaterState(t, s, state) ==
    \/ state = "header_line_start" /\ s = Len(t) + 1
    \/ state = "header_name" /\ Named(t, s)
    \/ state = "space_before_header_value" /\ Coloned(t, s)
    \/ state = "header_lws" /\ Headed(t, s) /\ Blank(t, s)
    \/ state = "header_value" /\ Valued(t, s)
    \/ state = "expecting_newline_2" /\ LineClosed(t, s)

\* The starts of headers in a text and a byte behind it.
LEMMA HeadersMore ==
    ASSUME NEW t \in Seq(Bytes), NEW s, Opens(t, s), s > 1, NEW c \in Bytes
    PROVE  /\ HeaderStarts(Append(t, c)) = HeaderStarts(t)
                 \cup (IF s = Len(t) + 1 /\ c \in Token THEN {Len(t) + 1} ELSE {})
           /\ HeaderStarts(t) \subseteq 1..Len(t)
<1> DEFINE n == Len(t)
           T == Append(t, c)
<1>1. /\ T \in Seq(Bytes) /\ n \in Nat /\ Len(T) = n + 1 /\ T[n + 1] = c
      /\ \A i \in 1..n : T[i] = t[i]
  BY TextMore
<1>2. /\ LineStarts(t) \subseteq 1..n + 1
      /\ LineStarts(T) = LineStarts(t) \cup (IF n > 0 /\ t[n] = "CR" /\ c = "LF" THEN {n + 2} ELSE {})
  BY EndsMore
<1>3. /\ s \in LineStarts(t) /\ \A i \in LineStarts(t) : i <= s
  BY DEF Opens
<1> HIDE DEF T, n
<1>4. s \in Nat /\ s <= n + 1 /\ n + 1 > 1 /\ 0 < n
  BY <1>1, <1>2, <1>3
<1>5. \A i : i \in HeaderStarts(T) <=> i \in LineStarts(T) /\ i > 1 /\ i <= n + 1 /\ T[i] \in Token
  BY <1>1 DEF HeaderStarts
<1>6. \A i : i \in HeaderStarts(t) <=> i \in LineStarts(t) /\ i > 1 /\ i <= n /\ t[i] \in Token
  BY DEF HeaderStarts, n
<1>7. ASSUME NEW i
      PROVE  i \in HeaderStarts(T)
                 <=> i \in HeaderStarts(t) \/ (i = n + 1 /\ s = n + 1 /\ c \in Token)
  <2>1. i \in LineStarts(T) <=> i \in LineStarts(t) \/ (n > 0 /\ t[n] = "CR" /\ c = "LF" /\ i = n + 2)
    BY <1>2
  <2>2. CASE i \in LineStarts(t)
    <3>1. i \in Nat /\ i \in 1..n + 1 /\ (i <= n \/ i = n + 1)
      BY <1>1, <1>2, <2>2
    <3>2. CASE i = n + 1
      <4>1. i = s
        BY <1>1, <1>3, <1>4, <2>2, <3>2
      <4>. QED
        BY <1>1, <1>4, <1>5, <1>6, <2>1, <2>2, <3>2, <4>1
    <3>3. CASE i <= n
      <4>1. i \in 1..n /\ i # n + 1
        BY <1>1, <3>1, <3>3
      <4>. QED
        BY <1>1, <1>5, <1>6, <2>1, <2>2, <3>1, <4>1
    <3>. QED
      BY <3>1, <3>2, <3>3
  <2>3. CASE i \notin LineStarts(t)
    <3>1. i \notin HeaderStarts(t) /\ ~(i = n + 1 /\ s = n + 1)
      BY <1>3, <1>6, <2>3
    <3>2. ~(n + 2 <= n + 1)
      BY <1>1
    <3>. QED
      BY <1>5, <2>1, <2>3, <3>1, <3>2
  <2>. QED
    BY <2>2, <2>3
<1>8. HeaderStarts(t) \subseteq 1..n
  <2> SUFFICES ASSUME NEW i \in HeaderStarts(t) PROVE i \in 1..n
    OBVIOUS
  <2>1. i \in LineStarts(t) /\ i <= n
    BY <1>6
  <2>. QED
    BY <1>1, <1>2, <2>1
<1>. QED
  BY <1>7, <1>8 DEF T, n

\* The line that is read stays open until it ends, and then the next one is.
LEMMA OpensOn ==
    ASSUME NEW t \in Seq(Bytes), NEW s, Opens(t, s), NEW c \in Bytes, c # "LF"
    PROVE  Opens(Append(t, c), s) /\ LineStarts(Append(t, c)) = LineStarts(t)
<1>1. GoesOn(Append(t, c), t)
  BY TextMore DEF GoesOn
<1>2. LineStarts(Append(t, c)) = LineStarts(t)
  BY EndsMore, ZenonT(40)
<1>3. \A i \in LineStarts(Append(t, c)) : i < s => GoodLine(Append(t, c), i)
  BY <1>1, OpensStays
<1>. QED
  BY <1>2, <1>3 DEF Opens

\* The end of a later line that is good opens the next line.
LEMMA OpensNext ==
    ASSUME NEW t \in Seq(Bytes), NEW s, Opens(t, s), s > 1, 0 < Len(t), t[Len(t)] = "CR",
           LaterLine(t, s, Len(t))
    PROVE  Opens(Append(t, "LF"), Len(t) + 2) /\ Spans(Append(t, "LF"), s, Len(t))
<1> DEFINE n == Len(t)
           T == Append(t, "LF")
<1>0. "LF" \in Bytes
  BY DEF Bytes, Ctl
<1>1. /\ T \in Seq(Bytes) /\ n \in Nat /\ Len(T) = n + 1 /\ T[n + 1] = "LF"
      /\ \A i \in 1..n : T[i] = t[i]
  BY <1>0, TextMore
<1>2. GoesOn(T, t)
  BY <1>1 DEF GoesOn
<1>3. LineStarts(T) = LineStarts(t) \cup {n + 2} /\ Ends(T) = Ends(t) \cup {n}
      /\ LineStarts(t) \subseteq 1..n + 1 /\ Ends(t) \subseteq 1..n - 1
  BY <1>0, EndsMore
<1>4. s \in LineStarts(t) /\ (\A i \in LineStarts(t) : i <= s) /\ s \in Nat \ {0}
  BY <1>1, <1>3 DEF Opens
<1>5. s < n
  BY <1>1, <1>4 DEF LaterLine, HeaderLineAt, ContinuedAt
<1> HIDE DEF T
<1>6. Spans(T, s, n)
  <2> SUFFICES ASSUME NEW i \in Ends(t) PROVE i < s \/ n <= i
    BY <1>1, <1>3, <1>4, <1>5 DEF Spans
  <2>1. i + 2 \in LineStarts(t) /\ i \in Nat
    BY <1>3 DEF LineStarts
  <2>2. i + 2 <= s
    BY <1>4, <2>1
  <2>. QED
    BY <1>4, <2>1, <2>2
<1>7. LaterLine(T, s, n)
  <2>1. \A i \in s..n - 1 : T[i] = t[i]
    BY <1>1, <1>4
  <2>2. \A k : HeaderLineAt(T, s, k, n) <=> HeaderLineAt(t, s, k, n)
    BY <2>1, Zenon DEF HeaderLineAt
  <2>3. \A m : ContinuedAt(T, s, m, n) <=> ContinuedAt(t, s, m, n)
    BY <2>1, Zenon DEF ContinuedAt
  <2>4. HeaderStarts(t) \subseteq HeaderStarts(T)
    BY <1>2, HeadersStay
  <2>. QED
    BY <2>2, <2>3, <2>4 DEF LaterLine
<1>8. GoodLine(T, s)
  BY <1>1, <1>4, <1>6, <1>7, GoodLater
<1>9. \A i \in LineStarts(T) : i < s => i \in LineStarts(t) /\ GoodLine(T, i)
  BY <1>2, OpensStays
<1>10. \A i \in LineStarts(T) : i < n + 2 => GoodLine(T, i)
  <2> SUFFICES ASSUME NEW i \in LineStarts(T), i < n + 2 PROVE GoodLine(T, i)
    OBVIOUS
  <2>1. i \in LineStarts(t)
    BY <1>1, <1>3
  <2>2. i <= s /\ i \in Nat
    BY <1>3, <1>4, <2>1
  <2>3. i < s \/ i = s
    BY <1>4, <2>2
  <2>. QED
    BY <1>8, <1>9, <2>3
<1>11. \A i \in LineStarts(T) : i <= n + 2
  BY <1>1, <1>3
<1>12. Opens(T, n + 2)
  BY <1>3, <1>10, <1>11 DEF Opens
<1>. QED
  BY <1>6, <1>12 DEF T

\* What the next byte may be in a later line, by what the line is so far.
StartGoes(t, s, c, to, into, headers) ==
    /\ s = Len(t) + 1
    /\ \/ c = "CR" /\ to = "expecting_newline_3" /\ into = "nothing"
       \/ c \in Token /\ to = "header_name" /\ into = "new_header"
       \/ c \in Lws /\ to = "header_lws" /\ into = "nothing" /\ headers # <<>>
NameGoes(t, s, c, to, into) ==
    \/ Named(t, s) /\ c = ":" /\ to = "space_before_header_value" /\ into = "nothing"
    \/ Named(t, s) /\ c \in Token /\ to = "header_name" /\ into = "name"
    \/ Coloned(t, s) /\ c = " " /\ to = "header_value" /\ into = "nothing"
BlankGoes(t, s, c, to, into) ==
    /\ Headed(t, s) /\ Blank(t, s)
    /\ \/ c \in Lws /\ to = "header_lws" /\ into = "nothing"
       \/ c \in Text \ Lws /\ to = "header_value" /\ into = "value"
       \/ c = "CR" /\ to = "expecting_newline_2" /\ into = "nothing"
ValueGoes(t, s, c, to, into) ==
    /\ Valued(t, s)
    /\ \/ c \in Text /\ to = "header_value" /\ into = "value"
       \/ c = "CR" /\ to = "expecting_newline_2" /\ into = "nothing"
ClosedGoes(t, s, c, to, into) ==
    LineClosed(t, s) /\ c = "LF" /\ to = "header_line_start" /\ into = "nothing"

\* A transition in a later line, from what the line is so far.
LEMMA LaterCases ==
    ASSUME NEW t, NEW s, NEW state, LaterState(t, s, state), NEW c, NEW to, NEW into, NEW headers,
           Goes(state, c, to, into, headers)
    PROVE  \/ StartGoes(t, s, c, to, into, headers)
           \/ NameGoes(t, s, c, to, into)
           \/ BlankGoes(t, s, c, to, into)
           \/ ValueGoes(t, s, c, to, into)
           \/ ClosedGoes(t, s, c, to, into)
<1>1. ~GoesInRequestLine(state, c, to, into)
  BY DEF LaterState, GoesInRequestLine
<1>2. CASE state = "header_line_start" /\ s = Len(t) + 1
  BY <1>1, <1>2 DEF Goes, GoesAtStart, GoesInHeader, GoesAtEnd, StartGoes
<1>3. CASE state = "header_name" /\ Named(t, s)
  BY <1>1, <1>3 DEF Goes, GoesAtStart, GoesInHeader, GoesAtEnd, NameGoes
<1>4. CASE state = "space_before_header_value" /\ Coloned(t, s)
  BY <1>1, <1>4 DEF Goes, GoesAtStart, GoesInHeader, GoesAtEnd, NameGoes
<1>5. CASE state = "header_lws" /\ Headed(t, s) /\ Blank(t, s)
  BY <1>1, <1>5 DEF Goes, GoesAtStart, GoesInHeader, GoesAtEnd, BlankGoes
<1>6. CASE state = "header_value" /\ Valued(t, s)
  BY <1>1, <1>6 DEF Goes, GoesAtStart, GoesInHeader, GoesAtEnd, ValueGoes
<1>7. CASE state = "expecting_newline_2" /\ LineClosed(t, s)
  BY <1>1, <1>7 DEF Goes, GoesAtStart, GoesInHeader, GoesAtEnd, ClosedGoes
<1>. QED
  BY <1>2, <1>3, <1>4, <1>5, <1>6, <1>7 DEF LaterState

\* A line as far as its last byte.
LEMMA LineUpTo ==
    ASSUME NEW t, NEW s, NEW k, NEW n \in Nat
    PROVE  /\ HeaderLineAt(t, s, k, n + 1)
                 <=> k \in Nat /\ s < k /\ k + 1 < n + 1 /\ \A i \in s..n : InHeader(t[i], k, i)
           /\ ContinuedAt(t, s, k, n + 1)
                 <=> k \in Nat /\ s <= k /\ k < n + 1 /\ \A i \in s..n : InContinuation(t[i], k, i)
<1>1. s..n + 1 - 1 = s..n
  <2>1. n + 1 - 1 = n
    OBVIOUS
  <2>. QED
    BY <2>1
<1>2. /\ HeaderLineAt(t, s, k, n + 1)
            <=> k \in Nat /\ s < k /\ k + 1 < n + 1 /\ \A i \in s..n + 1 - 1 : InHeader(t[i], k, i)
      /\ ContinuedAt(t, s, k, n + 1)
            <=> k \in Nat /\ s <= k /\ k < n + 1
                /\ \A i \in s..n + 1 - 1 : InContinuation(t[i], k, i)
  BY DEF HeaderLineAt, ContinuedAt
<1>. QED
  BY <1>1, <1>2

\* A line with a byte behind it.
Follows(T, t, c, s) ==
    /\ Len(t) \in Nat /\ Len(T) = Len(t) + 1 /\ T[Len(t) + 1] = c
    /\ \A i \in s..Len(t) : T[i] = t[i]

\* What a line becomes by a byte that goes on in a name,
LEMMA NameMore ==
    ASSUME NEW T, NEW t, NEW s \in Nat, NEW c, Follows(T, t, c, s), NEW to, NEW into,
           NameGoes(t, s, c, to, into)
    PROVE  LaterState(T, s, to)
<1> DEFINE n == Len(t)
<1>1. /\ n \in Nat /\ Len(T) = n + 1 /\ T[n + 1] = c /\ \A i \in s..n : T[i] = t[i]
  BY DEF Follows
<1>2. \A i \in s..n + 1 : i \in s..n \/ i = n + 1
  BY <1>1
<1>3. \A i \in s..n + 1 : i \in Nat
  OBVIOUS
<1> HIDE DEF n
<1>4. CASE Named(t, s) /\ c = ":" /\ to = "space_before_header_value"
  <2>1. ASSUME NEW i \in s..n + 1 PROVE InHeader(T[i], n + 1, i)
    <3>1. i < n + 1 \/ i = n + 1
      BY <1>1, <1>3
    <3>2. i < n + 1 => T[i] \in Token
      BY <1>1, <1>2, <1>3, <1>4 DEF Named, n
    <3>3. /\ i < n + 1 => (InHeader(T[i], n + 1, i) <=> T[i] \in Token)
          /\ i = n + 1 => (InHeader(T[i], n + 1, i) <=> T[i] = ":")
      <4>1. i \in Nat /\ n + 1 \in Nat
        BY <1>1, <1>3
      <4>. QED
        BY <4>1, HeaderClass
    <3>4. i = n + 1 => T[i] = ":"
      BY <1>1, <1>4
    <3>. QED
      BY <3>1, <3>2, <3>3, <3>4
  <2>2. s < n + 1
    BY <1>1, <1>4 DEF Named, n
  <2>. QED
    BY <1>1, <1>4, <2>1, <2>2 DEF LaterState, Coloned
<1>5. CASE Named(t, s) /\ c \in Token /\ to = "header_name"
  <2>1. \A i \in s..n + 1 : T[i] \in Token
    BY <1>1, <1>2, <1>5 DEF Named, n
  <2>2. s <= n + 1
    BY <1>1, <1>5 DEF Named, n
  <2>. QED
    BY <1>1, <1>5, <2>1, <2>2 DEF LaterState, Named
<1>6. CASE Coloned(t, s) /\ c = " " /\ to = "header_value"
  <2>1. ASSUME NEW i \in s..n + 1 PROVE InHeader(T[i], n, i)
    <3>1. i \in s..n => InHeader(T[i], n, i)
      BY <1>1, <1>6 DEF Coloned, n
    <3>2. i = n + 1 => InHeader(T[i], n, i)
      BY <1>1, <1>3, <1>6, HeaderClass
    <3>. QED
      BY <1>2, <3>1, <3>2
  <2>2. s < n
    BY <1>6 DEF Coloned, n
  <2>3. n + 1 \in Nat /\ n + 1 < n + 1 + 1
    BY <1>1
  <2>4. HeaderLineAt(T, s, n, n + 1 + 1)
    BY <1>1, <2>1, <2>2, <2>3, LineUpTo
  <2>. QED
    BY <1>1, <1>6, <2>4 DEF LaterState, Valued
<1>. QED
  BY <1>4, <1>5, <1>6 DEF NameGoes

\* in the blanks that begin it,
LEMMA BlankMore ==
    ASSUME NEW T, NEW t, NEW s \in Nat, NEW c, Follows(T, t, c, s), NEW to, NEW into,
           Headed(t, s) => Headed(T, s), BlankGoes(t, s, c, to, into)
    PROVE  LaterState(T, s, to)
<1> DEFINE n == Len(t)
<1>1. /\ n \in Nat /\ Len(T) = n + 1 /\ T[n + 1] = c /\ \A i \in s..n : T[i] = t[i]
  BY DEF Follows
<1>2. /\ \A i \in s..n + 1 : i \in s..n \/ i = n + 1
      /\ \A i \in s..n + 1 : i \in Nat
      /\ \A i \in s..n : i <= n
  BY <1>1
<1> HIDE DEF n
<1>3. Headed(T, s) /\ s <= n /\ \A i \in s..n : T[i] \in Lws
  BY <1>1 DEF BlankGoes, Blank, n
<1>4. CASE c \in Lws /\ to = "header_lws"
  <2>1. \A i \in s..n + 1 : T[i] \in Lws
    BY <1>1, <1>2, <1>3, <1>4
  <2>2. s <= n + 1
    BY <1>1, <1>3
  <2>. QED
    BY <1>1, <1>3, <1>4, <2>1, <2>2 DEF LaterState, Blank
<1>5. CASE c \in Text \ Lws /\ to = "header_value"
  <2>1. ASSUME NEW i \in s..n + 1 PROVE InContinuation(T[i], n, i)
    <3>1. i \in s..n => InContinuation(T[i], n, i)
      BY <1>1, <1>2, <1>3, ContinuationClass
    <3>2. i = n + 1 => InContinuation(T[i], n, i)
      BY <1>1, <1>2, <1>5, ContinuationClass
    <3>. QED
      BY <1>2, <3>1, <3>2
  <2>2. n + 1 \in Nat /\ n < n + 1 + 1 /\ n < n + 1
    BY <1>1
  <2>3. ContinuedAt(T, s, n, n + 1 + 1)
    BY <1>1, <1>3, <2>1, <2>2, LineUpTo
  <2>. QED
    BY <1>1, <1>3, <1>5, <2>2, <2>3 DEF LaterState, Valued
<1>6. CASE c = "CR" /\ to = "expecting_newline_2"
  <2>1. \A i \in s..n : InContinuation(T[i], n, i)
    BY <1>1, <1>2, <1>3, ContinuationClass
  <2>2. n < n + 1 /\ 0 < n + 1
    BY <1>1
  <2>3. ContinuedAt(T, s, n, n + 1)
    BY <1>1, <1>3, <2>1, <2>2, LineUpTo
  <2>. QED
    BY <1>1, <1>3, <1>6, <2>2, <2>3 DEF LaterState, LineClosed
<1>. QED
  BY <1>4, <1>5, <1>6 DEF BlankGoes

\* and in a value.
LEMMA ValueMore ==
    ASSUME NEW T, NEW t, NEW s \in Nat, NEW c, Follows(T, t, c, s), NEW to, NEW into,
           Headed(t, s) => Headed(T, s), ValueGoes(t, s, c, to, into)
    PROVE  LaterState(T, s, to)
<1> DEFINE n == Len(t)
<1>1. /\ n \in Nat /\ Len(T) = n + 1 /\ T[n + 1] = c /\ \A i \in s..n : T[i] = t[i]
  BY DEF Follows
<1>2. /\ \A i \in s..n + 1 : i \in s..n \/ i = n + 1
      /\ \A i \in s..n + 1 : i \in Nat
      /\ n + 1 \in Nat /\ 0 < n + 1
  BY <1>1
<1> HIDE DEF n
<1>3. /\ \A k : HeaderLineAt(t, s, k, n + 1) => HeaderLineAt(T, s, k, n + 1)
      /\ \A m : ContinuedAt(t, s, m, n + 1) => ContinuedAt(T, s, m, n + 1)
  BY <1>1, LineUpTo
<1>4. CASE c = "CR" /\ to = "expecting_newline_2"
  <2>1. LineClosed(T, s)
    BY <1>1, <1>2, <1>3, <1>4 DEF ValueGoes, Valued, LineClosed, n
  <2>. QED
    BY <1>4, <2>1 DEF LaterState
<1>5. CASE c \in Text /\ to = "header_value"
  <2>1. ASSUME NEW k, HeaderLineAt(T, s, k, n + 1) PROVE HeaderLineAt(T, s, k, n + 1 + 1)
    <3>1. /\ k \in Nat /\ s < k /\ k + 1 < n + 1
          /\ \A i \in s..n : InHeader(T[i], k, i)
      BY <1>1, <2>1, LineUpTo
    <3>2. k + 1 < n + 1 + 1 /\ n + 1 > k + 1
      BY <1>1, <3>1
    <3>3. InHeader(T[n + 1], k, n + 1)
      BY <1>1, <1>2, <1>5, <3>1, <3>2, HeaderClass
    <3>4. \A i \in s..n + 1 : InHeader(T[i], k, i)
      BY <1>2, <3>1, <3>3
    <3>. QED
      BY <1>2, <3>1, <3>2, <3>4, LineUpTo
  <2>2. ASSUME NEW m, m < n, ContinuedAt(T, s, m, n + 1)
        PROVE  m < n + 1 /\ ContinuedAt(T, s, m, n + 1 + 1)
    <3>1. /\ m \in Nat /\ s <= m /\ m < n + 1
          /\ \A i \in s..n : InContinuation(T[i], m, i)
      BY <1>1, <2>2, LineUpTo
    <3>2. m < n + 1 + 1 /\ n + 1 > m + 1
      BY <1>1, <2>2, <3>1
    <3>3. InContinuation(T[n + 1], m, n + 1)
      BY <1>1, <1>2, <1>5, <3>1, <3>2, ContinuationClass
    <3>4. \A i \in s..n + 1 : InContinuation(T[i], m, i)
      BY <1>2, <3>1, <3>3
    <3>. QED
      BY <1>2, <3>1, <3>2, <3>4, LineUpTo
  <2>3. Valued(T, s)
    <3>1. CASE \E k : HeaderLineAt(t, s, k, n + 1)
      BY <1>1, <1>2, <1>3, <2>1, <3>1 DEF Valued
    <3>2. CASE Headed(t, s) /\ \E m : m < n /\ ContinuedAt(t, s, m, n + 1)
      BY <1>1, <1>2, <1>3, <2>2, <3>2 DEF Valued
    <3>. QED
      BY <3>1, <3>2 DEF ValueGoes, Valued, n
  <2>. QED
    BY <1>5, <2>3 DEF LaterState
<1>. QED
  BY <1>4, <1>5 DEF ValueGoes

\* The line goes on, and the state with it.
LEMMA LineGoesOn ==
    ASSUME NEW t \in Seq(Bytes), NEW s, Opens(t, s), s > 1, NEW state, LaterState(t, s, state),
           NEW c \in Bytes, NEW to, NEW into, NEW headers, Goes(state, c, to, into, headers),
           headers # <<>> => HeaderStarts(t) # {}
    PROVE  \/ /\ s = Len(t) + 1 /\ c = "CR" /\ to = "expecting_newline_3" /\ into = "nothing"
              /\ state = "header_line_start"
           \/ /\ c # "LF" /\ to # "expecting_newline_3" /\ LaterState(Append(t, c), s, to)
           \/ /\ c = "LF" /\ to = "header_line_start" /\ into = "nothing" /\ LineClosed(t, s)
<1> DEFINE n == Len(t)
           T == Append(t, c)
<1>1. /\ T \in Seq(Bytes) /\ n \in Nat /\ Len(T) = n + 1 /\ T[n + 1] = c
      /\ \A i \in 1..n : T[i] = t[i]
  BY TextMore
<1>2. s \in LineStarts(t) /\ LineStarts(t) \subseteq 1..n + 1
  BY EndsMore DEF Opens
<1>3. s \in Nat /\ s > 1
  BY <1>1, <1>2
<1> HIDE DEF T
<1>4. Follows(T, t, c, s)
  <2>1. \A i \in s..n : i \in 1..n
    BY <1>1, <1>3
  <2>. QED
    BY <1>1, <2>1 DEF Follows
<1>5. HeaderStarts(t) \subseteq HeaderStarts(T) /\ HeaderStarts(t) \subseteq 1..n
  BY HeadersMore DEF T
<1>6. Headed(t, s) => Headed(T, s)
  BY <1>5 DEF Headed
<1>7. "LF" \notin Text /\ "LF" \notin Token /\ "LF" \notin Lws
  BY Classes
<1>8. CASE StartGoes(t, s, c, to, into, headers)
  <2>1. CASE c = "CR" /\ to = "expecting_newline_3" /\ into = "nothing"
    <3>1. state = "header_line_start"
      BY <1>1, <1>3, <1>8, <2>1 DEF Goes, GoesInRequestLine, GoesAtStart, GoesInHeader, GoesAtEnd
    <3>. QED
      BY <1>8, <2>1, <3>1 DEF StartGoes
  <2>2. CASE c \in Token /\ to = "header_name"
    <3>1. Named(T, s)
      BY <1>1, <1>3, <1>8, <2>2 DEF StartGoes, Named
    <3>. QED
      BY <1>7, <2>2, <3>1 DEF LaterState, T
  <2>3. CASE c \in Lws /\ to = "header_lws" /\ headers # <<>>
    <3>1. Blank(T, s)
      BY <1>1, <1>3, <1>8, <2>3 DEF StartGoes, Blank
    <3>2. Headed(T, s)
      <4>1. \A h \in HeaderStarts(t) : h < s
        BY <1>1, <1>3, <1>5, <1>8 DEF StartGoes
      <4>. QED
        BY <1>6, <2>3, <4>1 DEF Headed
    <3>. QED
      BY <1>7, <2>3, <3>1, <3>2 DEF LaterState, T
  <2>. QED
    BY <1>8, <2>1, <2>2, <2>3 DEF StartGoes
<1>9. CASE NameGoes(t, s, c, to, into)
  <2>1. LaterState(T, s, to)
    BY <1>3, <1>4, <1>9, NameMore
  <2>. QED
    BY <1>7, <1>9, <2>1 DEF NameGoes, T
<1>10. CASE BlankGoes(t, s, c, to, into)
  <2>1. LaterState(T, s, to)
    BY <1>3, <1>4, <1>6, <1>10, BlankMore
  <2>. QED
    BY <1>7, <1>10, <2>1 DEF BlankGoes, T
<1>11. CASE ValueGoes(t, s, c, to, into)
  <2>1. LaterState(T, s, to)
    BY <1>3, <1>4, <1>6, <1>11, ValueMore
  <2>. QED
    BY <1>7, <1>11, <2>1 DEF ValueGoes, T
<1>12. CASE ClosedGoes(t, s, c, to, into)
  BY <1>12 DEF ClosedGoes
<1>. QED
  BY <1>8, <1>9, <1>10, <1>11, <1>12, LaterCases

-----------------------------------------------------------------------------
(* The places of a header and one byte more *)

\* The last byte of a text belongs to the name or the value of the header at h.
LastHeader(T, h) == \A g \in HeaderStarts(T) : g <= h
InName(T, h) == \A j \in h..Len(T) : T[j] # ":"
InValue(T, h) ==
    /\ T[Len(T)] \in Text
    /\ \E j \in h..Len(T) - 2 : T[j] = ":"
    /\ LastHeader(T, h)
    /\ \A q \in LineStarts(T) : q > h /\ q <= Len(T) => \E j \in q..Len(T) : T[j] \notin Lws

\* The places of a header, and the last byte.
LEMMA PlacesMore ==
    ASSUME NEW t \in Seq(Bytes), NEW s, Opens(t, s), s > 1, NEW c \in Bytes, NEW h \in 1..Len(t)
    PROVE  /\ NamePlaces(Append(t, c), h) =
                 NamePlaces(t, h) \cup (IF InName(Append(t, c), h) THEN {Len(t) + 1} ELSE {})
           /\ ValuePlaces(Append(t, c), h) =
                 ValuePlaces(t, h) \cup (IF InValue(Append(t, c), h) THEN {Len(t) + 1} ELSE {})
           /\ NamePlaces(t, h) \subseteq 1..Len(t) /\ ValuePlaces(t, h) \subseteq 1..Len(t)
<1> DEFINE n == Len(t)
           T == Append(t, c)
<1>1. /\ T \in Seq(Bytes) /\ n \in Nat /\ Len(T) = n + 1 /\ T[n + 1] = c
      /\ \A i \in 1..n : T[i] = t[i]
  BY TextMore
<1>2. /\ LineStarts(t) \subseteq 1..n + 1
      /\ LineStarts(T) = LineStarts(t) \cup (IF n > 0 /\ t[n] = "CR" /\ c = "LF" THEN {n + 2} ELSE {})
  BY EndsMore
<1>3. /\ HeaderStarts(T) = HeaderStarts(t) \cup (IF s = n + 1 /\ c \in Token THEN {n + 1} ELSE {})
      /\ HeaderStarts(t) \subseteq 1..n
  BY HeadersMore
<1> HIDE DEF T, n
<1>4. /\ h \in 1..n /\ h \in Nat
      /\ \A i \in h..n + 1 : i \in h..n \/ i = n + 1
      /\ \A i \in h..n : i \in h..n + 1 /\ i \in 1..n /\ i \in Nat /\ i # n + 1
      /\ n + 1 \in h..n + 1 /\ n + 1 - 2 = n - 1
  BY <1>1 DEF n
<1>5. ASSUME NEW i \in h..n
      PROVE  i \in NamePlaces(T, h) <=> i \in NamePlaces(t, h)
  <2>1. \A j \in h..i : T[j] = t[j]
    BY <1>1, <1>4
  <2>. QED
    BY <1>1, <1>4, <2>1 DEF NamePlaces, n
<1>6. ASSUME NEW i \in h..n
      PROVE  i \in ValuePlaces(T, h) <=> i \in ValuePlaces(t, h)
  <2>1. /\ T[i] = t[i] /\ \A j \in h..i - 2 : T[j] = t[j]
    BY <1>1, <1>4
  <2>2. (\A g \in HeaderStarts(T) : g <= h \/ g > i)
           <=> (\A g \in HeaderStarts(t) : g <= h \/ g > i)
    <3>1. n + 1 > i
      BY <1>1, <1>4
    <3>. QED
      BY <1>3, <3>1
  <2>3. ASSUME NEW q \in LineStarts(t), q > h, q <= i
        PROVE  (\E j \in q..i : T[j] \notin Lws) <=> (\E j \in q..i : t[j] \notin Lws)
    <3>1. \A j \in q..i : j \in 1..n
      BY <1>1, <1>2, <1>4
    <3>. QED
      BY <1>1, <3>1
  <2>4. \A q \in LineStarts(T) : q <= i => q \in LineStarts(t)
    <3>1. ~(n + 2 <= i)
      BY <1>1, <1>4
    <3>. QED
      BY <1>2, <3>1
  <2>5. (\A q \in LineStarts(T) : q > h /\ q <= i => \E j \in q..i : T[j] \notin Lws)
           <=> (\A q \in LineStarts(t) : q > h /\ q <= i => \E j \in q..i : t[j] \notin Lws)
    <3>1. LineStarts(t) \subseteq LineStarts(T)
      BY <1>2
    <3>. QED
      BY <2>3, <2>4, <3>1
  <2>. QED
    BY <1>1, <1>4, <2>1, <2>2, <2>5 DEF ValuePlaces, n
<1>7. n + 1 \in NamePlaces(T, h) <=> InName(T, h)
  BY <1>1, <1>4 DEF NamePlaces, InName
<1>8. n + 1 \in ValuePlaces(T, h) <=> InValue(T, h)
  <2>1. LastHeader(T, h) <=> \A g \in HeaderStarts(T) : g <= h \/ g > n + 1
    <3>1. \A g \in HeaderStarts(T) : ~(g > n + 1)
      <4>1. \A g \in 1..n : ~(g > n + 1)
        BY <1>1
      <4>2. ~(n + 1 > n + 1)
        BY <1>1
      <4>. QED
        BY <1>3, <4>1, <4>2
    <3>. QED
      BY <3>1 DEF LastHeader
  <2>. QED
    BY <1>1, <1>4, <2>1 DEF ValuePlaces, InValue
<1>9. /\ NamePlaces(T, h) \subseteq h..n + 1 /\ NamePlaces(t, h) \subseteq h..n
      /\ ValuePlaces(T, h) \subseteq h..n + 1 /\ ValuePlaces(t, h) \subseteq h..n
  BY <1>1 DEF NamePlaces, ValuePlaces, n
<1>10. NamePlaces(T, h) = NamePlaces(t, h) \cup (IF InName(T, h) THEN {n + 1} ELSE {})
  BY <1>4, <1>5, <1>7, <1>9
<1>11. ValuePlaces(T, h) = ValuePlaces(t, h) \cup (IF InValue(T, h) THEN {n + 1} ELSE {})
  BY <1>4, <1>6, <1>8, <1>9
<1>12. h..n \subseteq 1..n
  BY <1>4
<1>. QED
  BY <1>9, <1>10, <1>11, <1>12 DEF T, n

\* What a header has with the byte behind it.
LEMMA HeaderMore ==
    ASSUME NEW t \in Seq(Bytes), NEW s, Opens(t, s), s > 1, NEW c \in Bytes, NEW h \in 1..Len(t)
    PROVE  HeaderAt(Append(t, c), h) =
              [name |-> IF InName(Append(t, c), h) THEN Append(HeaderAt(t, h).name, c)
                        ELSE HeaderAt(t, h).name,
               value |-> IF InValue(Append(t, c), h) THEN Append(HeaderAt(t, h).value, c)
                         ELSE HeaderAt(t, h).value]
<1> DEFINE n == Len(t)
           T == Append(t, c)
           P == NamePlaces(t, h)
           V == ValuePlaces(t, h)
<1>1. /\ NamePlaces(T, h) = P \cup (IF InName(T, h) THEN {n + 1} ELSE {})
      /\ ValuePlaces(T, h) = V \cup (IF InValue(T, h) THEN {n + 1} ELSE {})
      /\ P \subseteq 1..n /\ V \subseteq 1..n
  BY PlacesMore
<1>2. n \in Nat
  OBVIOUS
<1>3. ASSUME NEW Q, Q \subseteq 1..n
      PROVE  /\ BytesAt(T, Q) = BytesAt(t, Q)
             /\ BytesAt(T, Q \cup {n + 1}) = Append(BytesAt(t, Q), c)
  <2>1. PICK o : Lists(o, Q)
    BY <1>2, <1>3, AllListed
  <2>. QED
    BY <1>3, <2>1, BytesMore
<1>4. /\ HeaderAt(t, h).name = BytesAt(t, P) /\ HeaderAt(t, h).value = BytesAt(t, V)
      /\ HeaderAt(T, h) = [name |-> BytesAt(T, NamePlaces(T, h)),
                           value |-> BytesAt(T, ValuePlaces(T, h))]
  BY DEF HeaderAt
<1> HIDE DEF T, n, P, V
<1>5. BytesAt(T, NamePlaces(T, h)) = IF InName(T, h) THEN Append(BytesAt(t, P), c) ELSE BytesAt(t, P)
  <2>1. CASE InName(T, h)
    BY <1>1, <1>3, <2>1
  <2>2. CASE ~InName(T, h)
    <3>1. NamePlaces(T, h) = P
      BY <1>1, <2>2
    <3>. QED
      BY <1>1, <1>3, <2>2, <3>1
  <2>. QED
    BY <2>1, <2>2
<1>6. BytesAt(T, ValuePlaces(T, h)) =
         IF InValue(T, h) THEN Append(BytesAt(t, V), c) ELSE BytesAt(t, V)
  <2>1. CASE InValue(T, h)
    BY <1>1, <1>3, <2>1
  <2>2. CASE ~InValue(T, h)
    <3>1. ValuePlaces(T, h) = V
      BY <1>1, <2>2
    <3>. QED
      BY <1>1, <1>3, <2>2, <3>1
  <2>. QED
    BY <2>1, <2>2
<1>. QED
  BY <1>4, <1>5, <1>6 DEF T

\* The header that begins with the byte.
LEMMA HeaderNew ==
    ASSUME NEW t \in Seq(Bytes), NEW c \in Token
    PROVE  HeaderAt(Append(t, c), Len(t) + 1) = [name |-> <<c>>, value |-> << >>]
<1> DEFINE n == Len(t)
           T == Append(t, c)
<1>0. c \in Bytes /\ c # ":"
  BY Classes
<1>1. /\ T \in Seq(Bytes) /\ n \in Nat /\ Len(T) = n + 1 /\ T[n + 1] = c
  BY <1>0, TextMore
<1> HIDE DEF T, n
<1>2. \A i : i \in n + 1..n + 1 <=> i = n + 1
  BY <1>1
<1>3. NamePlaces(T, n + 1) = {n + 1}
  BY <1>0, <1>1, <1>2 DEF NamePlaces
<1>4. ValuePlaces(T, n + 1) = {}
  <2>1. n + 1..n + 1 - 2 = {}
    BY <1>1
  <2>2. ASSUME NEW i \in ValuePlaces(T, n + 1) PROVE FALSE
    <3>1. i \in n + 1..Len(T) /\ \E j \in n + 1..i - 2 : T[j] = ":"
      BY <2>2 DEF ValuePlaces
    <3>2. i = n + 1
      BY <1>1, <1>2, <3>1
    <3>. QED
      BY <2>1, <3>1, <3>2
  <2>. QED
    BY <2>2
<1>5. BytesAt(T, {n + 1}) = <<c>>
  <2>1. Lists(<<n + 1>>, {n + 1})
    BY <1>1 DEF Lists
  <2>2. Ascending({n + 1}) = <<n + 1>>
    BY <2>1, AscendingLists
  <2>3. BytesAt(T, {n + 1}) = [i \in DOMAIN <<n + 1>> |-> T[<<n + 1>>[i]]]
    BY <2>2 DEF BytesAt
  <2>4. DOMAIN <<n + 1>> = 1..1 /\ \A i \in 1..1 : <<n + 1>>[i] = n + 1
    OBVIOUS
  <2>5. BytesAt(T, {n + 1}) = [i \in 1..1 |-> c]
    BY <1>1, <2>3, <2>4
  <2>. QED
    BY <2>5
<1>6. BytesAt(T, {}) = << >>
  <2>1. Lists(<< >>, {})
    BY DEF Lists
  <2>2. Ascending({}) = << >>
    BY <2>1, AscendingLists
  <2>3. BytesAt(T, {}) = [i \in DOMAIN << >> |-> T[<< >>[i]]]
    BY <2>2 DEF BytesAt
  <2>. QED
    BY <2>3
<1>. QED
  BY <1>3, <1>4, <1>5, <1>6 DEF HeaderAt, T, n

\* A header that began before the line has its colon, and takes the last byte
\* into its value if it is the last header and the line is not all blanks so far.
LEMMA OldHeader ==
    ASSUME NEW t \in Seq(Bytes), NEW s, Opens(t, s), s > 1, NEW c \in Bytes,
           NEW h \in HeaderStarts(Append(t, c)), h < s
    PROVE  /\ ~InName(Append(t, c), h)
           /\ InValue(Append(t, c), h)
                 <=> /\ c \in Text /\ LastHeader(Append(t, c), h)
                     /\ \E j \in s..Len(t) + 1 : Append(t, c)[j] \notin Lws
<1> DEFINE n == Len(t)
           T == Append(t, c)
<1>1. /\ T \in Seq(Bytes) /\ n \in Nat /\ Len(T) = n + 1 /\ T[n + 1] = c
      /\ \A i \in 1..n : T[i] = t[i]
  BY TextMore
<1>2. /\ LineStarts(t) \subseteq 1..n + 1 /\ Ends(t) \subseteq 1..n - 1
      /\ LineStarts(T) = LineStarts(t) \cup (IF n > 0 /\ t[n] = "CR" /\ c = "LF" THEN {n + 2} ELSE {})
  BY EndsMore
<1>3. /\ HeaderStarts(T) = HeaderStarts(t) \cup (IF s = n + 1 /\ c \in Token THEN {n + 1} ELSE {})
      /\ HeaderStarts(t) \subseteq 1..n
  BY HeadersMore
<1>4. /\ s \in LineStarts(t) /\ (\A i \in LineStarts(t) : i <= s)
      /\ \A i \in LineStarts(t) : i < s => GoodLine(t, i)
  BY DEF Opens
<1>0. h \in HeaderStarts(T)
  OBVIOUS
<1> HIDE DEF T
<1>5. s \in Nat /\ s <= n + 1
  BY <1>1, <1>2, <1>4
<1>6. h \in HeaderStarts(t) /\ h \in 1..n
  <2>1. h \in HeaderStarts(t) \/ (h = n + 1 /\ s = n + 1)
    BY <1>3, <1>0
  <2>. QED
    BY <1>3, <1>5, <2>1
<1>7. h \in LineStarts(t) /\ h > 1 /\ t[h] \in Token
  BY <1>6 DEF HeaderStarts
<1>8. PICK e : Spans(t, h, e) /\ e + 2 <= s
  BY <1>4, <1>7, EndsBefore
<1>9. e \in Nat /\ e \in Ends(t) /\ h <= e
  BY <1>2, <1>8 DEF Spans
<1>10. LaterLine(t, h, e)
  <2>1. GoodLine(t, h) /\ h \in Nat
    BY <1>4, <1>6, <1>7
  <2>. QED
    BY <1>7, <1>8, <2>1, GoodLater
<1>11. PICK k : HeaderLineAt(t, h, k, e)
  <2>1. ASSUME NEW m, ContinuedAt(t, h, m, e) PROVE FALSE
    <3>1. m \in Nat /\ h <= m /\ m < e /\ h \in h..e - 1 /\ h \in Nat
      BY <1>6, <1>9, <2>1 DEF ContinuedAt
    <3>2. InContinuation(t[h], m, h)
      BY <2>1, <3>1 DEF ContinuedAt
    <3>3. t[h] \in Lws
      BY <3>1, <3>2, ContinuationClass
    <3>. QED
      BY <1>7, <3>3, Classes
  <2>. QED
    BY <1>10, <2>1 DEF LaterLine
<1>12. k \in Nat /\ h < k /\ k + 1 < e /\ k \in h..e - 1
  BY <1>6, <1>9, <1>11 DEF HeaderLineAt
<1>13. t[k] = ":"
  <2>1. InHeader(t[k], k, k)
    BY <1>11, <1>12 DEF HeaderLineAt
  <2>. QED
    BY <1>12, <2>1, HeaderClass
<1>14. k \in h..n + 1 - 2 /\ k \in h..n + 1 /\ T[k] = ":"
  <2>1. k \in h..n + 1 - 2 /\ k \in h..n + 1 /\ k \in 1..n
    BY <1>1, <1>5, <1>6, <1>8, <1>9, <1>12
  <2>. QED
    BY <1>1, <1>13, <2>1
<1>15. ~InName(T, h)
  BY <1>1, <1>14 DEF InName
<1>16. ASSUME NEW q \in LineStarts(T), q > h, q < s
       PROVE  \E j \in q..n + 1 : T[j] \notin Lws
  <2>1. q \in LineStarts(t)
    BY <1>1, <1>2, <1>5, <1>16
  <2>2. PICK f : Spans(t, q, f) /\ f + 2 <= s
    BY <1>4, <1>16, <2>1, EndsBefore
  <2>3. f \in Ends(t) /\ q <= f /\ f \in 1..n - 1 /\ t[f] = "CR"
    BY <1>2, <2>2 DEF Spans, Ends
  <2>4. q \in Nat
    BY <1>2, <2>1
  <2>5. f \in q..n + 1 /\ f \in 1..n
    BY <1>1, <2>3, <2>4
  <2>6. T[f] \notin Lws
    BY <1>1, <2>3, <2>5 DEF Lws
  <2>. QED
    BY <2>5, <2>6
<1>17. (\A q \in LineStarts(T) : q > h /\ q <= n + 1 => \E j \in q..n + 1 : T[j] \notin Lws)
          <=> \E j \in s..n + 1 : T[j] \notin Lws
  <2>1. s \in LineStarts(T) /\ s > h
    BY <1>2, <1>4
  <2>2. ASSUME NEW q \in LineStarts(T), q <= n + 1 PROVE q < s \/ q = s
    <3>1. ~(n + 2 <= n + 1)
      BY <1>1
    <3>2. q \in LineStarts(t) /\ q <= s /\ q \in Nat
      BY <1>2, <1>4, <2>2, <3>1
    <3>. QED
      BY <1>5, <3>2
  <2>. QED
    BY <1>5, <1>16, <2>1, <2>2
<1>18. InValue(T, h)
          <=> c \in Text /\ LastHeader(T, h) /\ \E j \in s..n + 1 : T[j] \notin Lws
  BY <1>1, <1>14, <1>17 DEF InValue
<1>. QED
  BY <1>15, <1>18 DEF T

\* The header that the line begins is the last one.
LEMMA OwnHeader ==
    ASSUME NEW t \in Seq(Bytes), NEW s, Opens(t, s), s > 1, NEW c \in Bytes
    PROVE  /\ s \in HeaderStarts(Append(t, c))
                 <=> s <= Len(t) + 1 /\ Append(t, c)[s] \in Token
           /\ \A h \in HeaderStarts(Append(t, c)) : h < s \/ h = s
           /\ s \in HeaderStarts(Append(t, c)) =>
                 /\ LastHeader(Append(t, c), s)
                 /\ InValue(Append(t, c), s)
                       <=> c \in Text /\ \E j \in s..Len(t) - 1 : Append(t, c)[j] = ":"
<1> DEFINE n == Len(t)
           T == Append(t, c)
<1>1. /\ T \in Seq(Bytes) /\ n \in Nat /\ Len(T) = n + 1 /\ T[n + 1] = c
      /\ \A i \in 1..n : T[i] = t[i]
  BY TextMore
<1>2. /\ LineStarts(t) \subseteq 1..n + 1
      /\ LineStarts(T) = LineStarts(t) \cup (IF n > 0 /\ t[n] = "CR" /\ c = "LF" THEN {n + 2} ELSE {})
  BY EndsMore
<1>4. s \in LineStarts(t) /\ (\A i \in LineStarts(t) : i <= s)
  BY DEF Opens
<1> HIDE DEF T
<1>5. s \in Nat /\ s <= n + 1 /\ ~(n + 2 <= n + 1)
  BY <1>1, <1>2, <1>4
<1>6. s \in HeaderStarts(T) <=> s <= n + 1 /\ T[s] \in Token
  BY <1>1, <1>2, <1>4 DEF HeaderStarts
<1>7. ASSUME NEW q \in LineStarts(T), q <= n + 1 PROVE q \in Nat /\ q <= s
  <2>1. q \in LineStarts(t)
    BY <1>2, <1>5, <1>7
  <2>. QED
    BY <1>2, <1>4, <2>1
<1>8. \A h \in HeaderStarts(T) : h \in Nat /\ h <= s
  BY <1>1, <1>7 DEF HeaderStarts
<1>9. LastHeader(T, s)
  BY <1>8 DEF LastHeader
<1>10. ASSUME NEW q \in LineStarts(T), q > s, q <= n + 1 PROVE FALSE
  BY <1>5, <1>7, <1>10
<1>11. n + 1 - 2 = n - 1
  BY <1>1
<1>12. InValue(T, s) <=> c \in Text /\ \E j \in s..n - 1 : T[j] = ":"
  BY <1>1, <1>9, <1>10, <1>11 DEF InValue
<1>13. \A h \in HeaderStarts(T) : h < s \/ h = s
  BY <1>5, <1>8
<1>. QED
  BY <1>6, <1>9, <1>12, <1>13 DEF T

-----------------------------------------------------------------------------
(* Where a byte of a header belongs *)

\* What a byte adds to the headers is what the parser adds.
Adds(T, into) ==
    \A h \in HeaderStarts(T) :
        /\ InName(T, h) <=> into \in {"name", "new_header"} /\ LastHeader(T, h)
        /\ InValue(T, h) <=> into = "value" /\ LastHeader(T, h)

\* It is enough to know the line.
LEMMA AddsBy ==
    ASSUME NEW t \in Seq(Bytes), NEW s, Opens(t, s), s > 1, NEW c \in Bytes, NEW into,
           into \in {"name", "new_header", "value", "nothing"},
           \/ /\ Append(t, c)[s] \in Token /\ s <= Len(t) + 1
              /\ (\A j \in s..Len(t) + 1 : Append(t, c)[j] # ":") <=> into \in {"name", "new_header"}
              /\ (c \in Text /\ \E j \in s..Len(t) - 1 : Append(t, c)[j] = ":") <=> into = "value"
           \/ /\ Append(t, c)[s] \notin Token /\ into \in {"value", "nothing"}
              /\ (c \in Text /\ \E j \in s..Len(t) + 1 : Append(t, c)[j] \notin Lws) <=> into = "value"
    PROVE  Adds(Append(t, c), into)
<1> DEFINE n == Len(t)
           T == Append(t, c)
<1>1. n \in Nat /\ Len(T) = n + 1
  BY TextMore
<1>2. s \in Nat /\ s <= n + 1
  <2>1. LineStarts(t) \subseteq 1..n + 1
    BY EndsMore
  <2>. QED
    BY <1>1, <2>1 DEF Opens
<1>3. /\ s \in HeaderStarts(T) <=> s <= n + 1 /\ T[s] \in Token
      /\ \A h \in HeaderStarts(T) : h < s \/ h = s
      /\ s \in HeaderStarts(T) =>
           /\ LastHeader(T, s)
           /\ InValue(T, s) <=> c \in Text /\ \E j \in s..n - 1 : T[j] = ":"
  BY OwnHeader
<1>4. \A h \in HeaderStarts(T) : h < s =>
         /\ ~InName(T, h)
         /\ InValue(T, h)
               <=> c \in Text /\ LastHeader(T, h) /\ \E j \in s..n + 1 : T[j] \notin Lws
  BY OldHeader
<1> SUFFICES Adds(T, into)
  OBVIOUS
<1>0. \/ /\ T[s] \in Token /\ s <= n + 1
         /\ (\A j \in s..n + 1 : T[j] # ":") <=> into \in {"name", "new_header"}
         /\ (c \in Text /\ \E j \in s..n - 1 : T[j] = ":") <=> into = "value"
      \/ /\ T[s] \notin Token /\ into \in {"value", "nothing"}
         /\ (c \in Text /\ \E j \in s..n + 1 : T[j] \notin Lws) <=> into = "value"
  OBVIOUS
<1> HIDE DEF T, n
<1>5. CASE /\ T[s] \in Token /\ s <= n + 1
           /\ (\A j \in s..n + 1 : T[j] # ":") <=> into \in {"name", "new_header"}
           /\ (c \in Text /\ \E j \in s..n - 1 : T[j] = ":") <=> into = "value"
  <2>1. s \in HeaderStarts(T)
    BY <1>3, <1>5
  <2>2. ASSUME NEW h \in HeaderStarts(T), h < s PROVE ~LastHeader(T, h)
    <3> SUFFICES ASSUME LastHeader(T, h) PROVE FALSE
      OBVIOUS
    <3>1. s <= h
      BY <2>1 DEF LastHeader
    <3>2. h \in Nat
      <4>1. h <= Len(T) /\ h \in LineStarts(T) /\ T \in Seq(Bytes)
        BY TextMore DEF HeaderStarts, T
      <4>2. h = 1 \/ \E i \in 1..Len(T) - 1 : h = i + 2
        BY <4>1 DEF LineStarts, Ends
      <4>. QED
        BY <1>1, <4>2
    <3>. QED
      BY <1>2, <2>2, <3>1, <3>2
  <2>3. InName(T, s) <=> into \in {"name", "new_header"}
    BY <1>1, <1>5 DEF InName
  <2>. QED
    BY <1>3, <1>4, <1>5, <2>1, <2>2, <2>3 DEF Adds
<1>6. CASE /\ T[s] \notin Token /\ into \in {"value", "nothing"}
           /\ (c \in Text /\ \E j \in s..n + 1 : T[j] \notin Lws) <=> into = "value"
  <2>1. s \notin HeaderStarts(T)
    BY <1>3, <1>6
  <2>2. \A h \in HeaderStarts(T) : h < s
    BY <1>3, <2>1
  <2>. QED
    BY <1>4, <1>6, <2>2 DEF Adds
<1>. QED
  BY <1>0, <1>5, <1>6

\* A line that has its colon.
HasColon(T, t, s) == s < Len(t) /\ T[s] \in Token /\ \E j \in s..Len(t) - 1 : T[j] = ":"

\* The line of a header has its colon,
LEMMA LineColon ==
    ASSUME NEW T, NEW t, NEW s \in Nat, NEW c, Follows(T, t, c, s), NEW k, NEW n,
           n \in {Len(t), Len(t) + 1}, HeaderLineAt(t, s, k, n)
    PROVE  HasColon(T, t, s)
<1>1. /\ Len(t) \in Nat /\ \A i \in s..Len(t) : T[i] = t[i]
  BY DEF Follows
<1>2. /\ k \in Nat /\ s < k /\ k + 1 < n /\ \A i \in s..n - 1 : InHeader(t[i], k, i)
  BY DEF HeaderLineAt
<1>3. s \in s..n - 1 /\ k \in s..n - 1 /\ s \in s..Len(t) /\ k \in s..Len(t) /\ k \in s..Len(t) - 1
      /\ s < Len(t)
  BY <1>1, <1>2
<1>4. t[s] \in Token /\ t[k] = ":"
  BY <1>2, <1>3, HeaderClass
<1>. QED
  BY <1>1, <1>3, <1>4 DEF HasColon

\* A line that continues a header.
HasBlank(T, t, s) == s <= Len(t) /\ T[s] \in Lws

\* and one that continues a header begins with a blank.
LEMMA LineBlank ==
    ASSUME NEW T, NEW t, NEW s \in Nat, NEW c, Follows(T, t, c, s), NEW m, NEW n,
           n \in {Len(t), Len(t) + 1}, ContinuedAt(t, s, m, n)
    PROVE  HasBlank(T, t, s)
<1>1. /\ Len(t) \in Nat /\ \A i \in s..Len(t) : T[i] = t[i]
  BY DEF Follows
<1>2. /\ m \in Nat /\ s <= m /\ m < n /\ \A i \in s..n - 1 : InContinuation(t[i], m, i)
  BY DEF ContinuedAt
<1>3. s \in s..n - 1 /\ s \in s..Len(t) /\ s <= Len(t)
  BY <1>1, <1>2
<1>4. t[s] \in Lws
  BY <1>2, <1>3, ContinuationClass
<1>. QED
  BY <1>1, <1>3, <1>4 DEF HasBlank

\* What the parser adds is what the byte adds.
AddsIn(T, t, c, s, into) ==
    \/ /\ T[s] \in Token /\ s <= Len(t) + 1
       /\ (\A j \in s..Len(t) + 1 : T[j] # ":") <=> into \in {"name", "new_header"}
       /\ (c \in Text /\ \E j \in s..Len(t) - 1 : T[j] = ":") <=> into = "value"
    \/ /\ T[s] \notin Token /\ into \in {"value", "nothing"}
       /\ (c \in Text /\ \E j \in s..Len(t) + 1 : T[j] \notin Lws) <=> into = "value"

\* Where a byte goes that begins a line,
LEMMA StartAdds ==
    ASSUME NEW T, NEW t, NEW s \in Nat, NEW c, Follows(T, t, c, s), NEW to, NEW into, NEW headers,
           StartGoes(t, s, c, to, into, headers)
    PROVE  AddsIn(T, t, c, s, into)
<1> DEFINE n == Len(t)
<1>1. n \in Nat /\ T[n + 1] = c
  BY DEF Follows
<1>2. s = n + 1
  BY DEF StartGoes
<1>3. /\ \A j \in s..n + 1 : j = n + 1
      /\ s \in s..n + 1
      /\ s..n - 1 = {}
      /\ s <= n + 1
  BY <1>1, <1>2
<1> HIDE DEF n
<1>4. CASE c = "CR" /\ into = "nothing"
  <2>1. c \notin Text /\ c \notin Token
    BY <1>4, Classes
  <2>. QED
    BY <1>1, <1>2, <1>4, <2>1 DEF AddsIn, n
<1>5. CASE c \in Token /\ into = "new_header"
  <2>1. c # ":"
    BY <1>5, Classes
  <2>2. (\A j \in s..n + 1 : T[j] # ":") /\ ~\E j \in s..n - 1 : T[j] = ":"
    BY <1>1, <1>3, <2>1
  <2>. QED
    BY <1>1, <1>2, <1>3, <1>5, <2>2 DEF AddsIn, n
<1>6. CASE c \in Lws /\ into = "nothing"
  <2>1. c \notin Token
    BY <1>6, Classes
  <2>2. ~\E j \in s..n + 1 : T[j] \notin Lws
    BY <1>1, <1>3, <1>6
  <2>. QED
    BY <1>1, <1>2, <1>6, <2>1, <2>2 DEF AddsIn, n
<1>. QED
  BY <1>4, <1>5, <1>6 DEF StartGoes

\* that goes on in a name,
LEMMA NameAdds ==
    ASSUME NEW T, NEW t, NEW s \in Nat, NEW c, Follows(T, t, c, s), NEW to, NEW into,
           NameGoes(t, s, c, to, into)
    PROVE  AddsIn(T, t, c, s, into)
<1> DEFINE n == Len(t)
<1>1. n \in Nat /\ T[n + 1] = c /\ \A i \in s..n : T[i] = t[i]
  BY DEF Follows
<1>2. \A c1 \in Token : c1 # ":"
  BY Classes
<1>3. /\ \A j \in s..n + 1 : j \in s..n \/ j = n + 1
      /\ \A j \in s..n - 1 : j \in s..n /\ j < n /\ j \in Nat
  BY <1>1
<1> HIDE DEF n
<1>4. CASE Named(t, s)
  <2>1. s <= n /\ \A i \in s..n : T[i] \in Token
    BY <1>1, <1>4 DEF Named, n
  <2>2. T[s] \in Token /\ s <= n + 1 /\ n + 1 \in s..n + 1
    BY <1>1, <2>1
  <2>3. ~\E j \in s..n - 1 : T[j] = ":"
    BY <1>2, <1>3, <2>1
  <2>4. (\A j \in s..n + 1 : T[j] # ":") <=> c # ":"
    BY <1>1, <1>2, <1>3, <2>1, <2>2
  <2>5. \/ c = ":" /\ into = "nothing"
        \/ c \in Token /\ into = "name"
        \/ c = " " /\ into = "nothing" /\ Coloned(t, s)
    BY DEF NameGoes
  <2>6. ~Coloned(t, s)
    <3> SUFFICES ASSUME Coloned(t, s) PROVE FALSE
      OBVIOUS
    <3>1. n \in s..n /\ n \in Nat
      BY <1>1, <2>1
    <3>2. InHeader(t[n], n, n)
      BY <3>1 DEF Coloned, n
    <3>3. t[n] = ":"
      BY <3>1, <3>2, HeaderClass
    <3>. QED
      BY <1>1, <1>2, <2>1, <3>1, <3>3
  <2>. QED
    BY <1>2, <2>2, <2>3, <2>4, <2>5, <2>6 DEF AddsIn, n
<1>5. CASE Coloned(t, s) /\ c = " " /\ into = "nothing"
  <2>1. s < n /\ \A i \in s..n : InHeader(T[i], n, i)
    BY <1>1, <1>5 DEF Coloned, n
  <2>2. s \in s..n /\ n \in s..n /\ n \in s..n + 1 /\ s <= n + 1 /\ s \in Nat
    BY <1>1, <2>1
  <2>3. T[s] \in Token /\ T[n] = ":"
    BY <1>1, <2>1, <2>2, HeaderClass
  <2>4. \A j \in s..n - 1 : T[j] \in Token
    <3>1. \A j \in s..n - 1 : InHeader(T[j], n, j)
      BY <1>3, <2>1
    <3>. QED
      BY <1>1, <1>3, <3>1, HeaderClass
  <2>5. ~(\A j \in s..n + 1 : T[j] # ":") /\ ~\E j \in s..n - 1 : T[j] = ":"
    BY <1>2, <2>2, <2>3, <2>4
  <2>. QED
    BY <1>5, <2>2, <2>3, <2>5 DEF AddsIn, n
<1>. QED
  BY <1>4, <1>5 DEF NameGoes

\* of a line that has its colon or its blanks
LEMMA ColonAdds ==
    ASSUME NEW T, NEW t, NEW s \in Nat, NEW c, Follows(T, t, c, s), HasColon(T, t, s), NEW into,
           into = IF c \in Text THEN "value" ELSE "nothing"
    PROVE  AddsIn(T, t, c, s, into)
<1>1. s < Len(t) /\ T[s] \in Token /\ Len(t) \in Nat
  BY DEF HasColon, Follows
<1>2. PICK j \in s..Len(t) - 1 : T[j] = ":"
  BY DEF HasColon
<1>3. j \in s..Len(t) + 1 /\ s <= Len(t) + 1
  BY <1>1
<1>4. ~(\A i \in s..Len(t) + 1 : T[i] # ":") /\ \E i \in s..Len(t) - 1 : T[i] = ":"
  BY <1>2, <1>3
<1>. QED
  BY <1>1, <1>3, <1>4 DEF AddsIn

\* and that goes on in a line that begins with a blank.
LEMMA BlankAdds ==
    ASSUME NEW T, NEW t, NEW s \in Nat, NEW c, Follows(T, t, c, s), HasBlank(T, t, s), NEW into,
           into \in {"value", "nothing"},
           (c \in Text /\ \E j \in s..Len(t) + 1 : T[j] \notin Lws) <=> into = "value"
    PROVE  AddsIn(T, t, c, s, into)
<1>1. T[s] \notin Token
  BY Classes DEF HasBlank
<1>. QED
  BY <1>1 DEF AddsIn

\* Where the byte of any transition goes in a later line.
LEMMA LineAdds ==
    ASSUME NEW t \in Seq(Bytes), NEW s, Opens(t, s), s > 1, NEW state, LaterState(t, s, state),
           NEW c \in Bytes, NEW to, NEW into, NEW headers, Goes(state, c, to, into, headers)
    PROVE  /\ Adds(Append(t, c), into) /\ into \in {"name", "new_header", "value", "nothing"}
           /\ into = "new_header" <=> s = Len(t) + 1 /\ c \in Token
           /\ into \in {"name", "value"} => HeaderStarts(t) # {}
<1> DEFINE n == Len(t)
           T == Append(t, c)
<1>1. /\ T \in Seq(Bytes) /\ n \in Nat /\ Len(T) = n + 1 /\ T[n + 1] = c
      /\ \A i \in 1..n : T[i] = t[i]
  BY TextMore
<1>2. s \in LineStarts(t) /\ LineStarts(t) \subseteq 1..n + 1
  BY EndsMore DEF Opens
<1>3. s \in Nat /\ s > 1 /\ s <= n + 1
  BY <1>1, <1>2
<1> HIDE DEF T
<1>4. Follows(T, t, c, s)
  <2>1. \A i \in s..n : i \in 1..n
    BY <1>1, <1>3
  <2>. QED
    BY <1>1, <2>1 DEF Follows
<1>5. /\ {"CR", "LF"} \cap Text = {} /\ Lws \cap {"CR", "LF"} = {}
      /\ \A x : x \in Text \ Lws => x \in Text /\ x \notin Lws
  BY Classes
<1>6. Headed(t, s) => HeaderStarts(t) # {}
  BY DEF Headed
<1>7. s <= n /\ T[s] \in Token => HeaderStarts(t) # {}
  <2> SUFFICES ASSUME s <= n, T[s] \in Token PROVE HeaderStarts(t) # {}
    OBVIOUS
  <2>1. s \in 1..n
    BY <1>1, <1>3
  <2>2. t[s] \in Token
    BY <1>1, <2>1
  <2>. QED
    BY <1>2, <1>3, <2>2 DEF HeaderStarts
<1>8. /\ AddsIn(T, t, c, s, into) /\ into \in {"name", "new_header", "value", "nothing"}
      /\ into = "new_header" <=> s = Len(t) + 1 /\ c \in Token
      /\ into \in {"name", "value"} => HeaderStarts(t) # {}
  <2>1. CASE StartGoes(t, s, c, to, into, headers)
    <3>1. AddsIn(T, t, c, s, into)
      BY <1>3, <1>4, <2>1, StartAdds
    <3>2. {"CR"} \cap Token = {} /\ Lws \cap Token = {}
      BY Classes
    <3>. QED
      BY <2>1, <3>1, <3>2 DEF StartGoes
  <2>2. CASE NameGoes(t, s, c, to, into)
    <3>1. AddsIn(T, t, c, s, into)
      BY <1>3, <1>4, <2>2, NameAdds
    <3>2. s <= n
      <4>1. Named(t, s) \/ Coloned(t, s)
        BY <2>2 DEF NameGoes
      <4>2. s <= n \/ s < n
        BY <4>1 DEF Named, Coloned
      <4>. QED
        BY <1>1, <1>3, <4>2
    <3>3. s # n + 1
      BY <1>1, <1>3, <3>2
    <3>4. into = "name" => T[s] \in Token
      <4>1. s \in s..n
        BY <1>1, <1>3, <3>2
      <4>. QED
        BY <1>4, <2>2, <4>1 DEF NameGoes, Named, Follows
    <3>. QED
      BY <1>7, <2>2, <3>1, <3>2, <3>3, <3>4 DEF NameGoes
  <2>3. CASE BlankGoes(t, s, c, to, into)
    <3>1. s <= n /\ \A i \in s..n : t[i] \in Lws
      BY <2>3 DEF BlankGoes, Blank
    <3>2. /\ s # n + 1 /\ s \in s..n /\ n + 1 \in s..n + 1
          /\ \A j \in s..n + 1 : j \in s..n \/ j = n + 1
      BY <1>1, <1>3, <3>1
    <3>3. HasBlank(T, t, s)
      BY <1>4, <3>1, <3>2 DEF HasBlank, Follows
    <3>4. (\E j \in s..n + 1 : T[j] \notin Lws) <=> c \notin Lws
      BY <1>1, <1>4, <3>1, <3>2 DEF Follows
    <3>5. into \in {"value", "nothing"} /\ (c \in Text /\ c \notin Lws <=> into = "value")
      BY <1>5, <2>3 DEF BlankGoes
    <3>6. AddsIn(T, t, c, s, into)
      BY <1>3, <1>4, <3>3, <3>4, <3>5, BlankAdds
    <3>. QED
      BY <1>6, <2>3, <3>2, <3>5, <3>6 DEF BlankGoes
  <2>4. CASE ValueGoes(t, s, c, to, into)
    <3>1. into = IF c \in Text THEN "value" ELSE "nothing"
      BY <1>5, <2>4 DEF ValueGoes
    <3>2. CASE \E k : HeaderLineAt(t, s, k, n + 1)
      <4>1. HasColon(T, t, s)
        BY <1>3, <1>4, <3>2, LineColon
      <4>2. AddsIn(T, t, c, s, into)
        BY <1>3, <1>4, <3>1, <4>1, ColonAdds
      <4>3. s < n /\ T[s] \in Token /\ s # n + 1 /\ s <= n
        BY <1>1, <1>3, <4>1 DEF HasColon
      <4>. QED
        BY <1>7, <3>1, <4>2, <4>3
    <3>3. CASE Headed(t, s) /\ \E m : m < n /\ ContinuedAt(t, s, m, n + 1)
      <4>1. PICK m : m < n /\ ContinuedAt(t, s, m, n + 1)
        BY <3>3
      <4>2. HasBlank(T, t, s)
        BY <1>3, <1>4, <4>1, LineBlank
      <4>3. m \in Nat /\ s <= m /\ \A i \in s..n : InContinuation(t[i], m, i)
        BY <1>1, <4>1, LineUpTo
      <4>4. m + 1 \in s..n /\ m + 1 \in s..n + 1
        BY <1>1, <1>3, <4>1, <4>3
      <4>5. T[m + 1] \notin Lws
        <5>1. m + 1 \in Nat
          BY <4>3
        <5>2. t[m + 1] \in Text \ Lws
          BY <4>3, <4>4, <5>1, ContinuationClass
        <5>. QED
          BY <1>4, <4>4, <5>2 DEF Follows
      <4>6. \E j \in s..n + 1 : T[j] \notin Lws
        BY <4>4, <4>5
      <4>7. AddsIn(T, t, c, s, into)
        BY <1>3, <1>4, <3>1, <4>2, <4>6, BlankAdds
      <4>8. s # n + 1
        BY <1>1, <1>3, <4>2 DEF HasBlank
      <4>. QED
        BY <1>6, <3>1, <3>3, <4>7, <4>8
    <3>. QED
      BY <2>4, <3>2, <3>3 DEF ValueGoes, Valued
  <2>5. CASE ClosedGoes(t, s, c, to, into)
    <3>1. c = "LF" /\ into = "nothing" /\ c \notin Text
      BY <1>5, <2>5 DEF ClosedGoes
    <3>2. CASE \E k : HeaderLineAt(t, s, k, n)
      <4>1. HasColon(T, t, s)
        BY <1>3, <1>4, <3>2, LineColon
      <4>2. AddsIn(T, t, c, s, into)
        BY <1>3, <1>4, <3>1, <4>1, ColonAdds
      <4>3. s # n + 1
        BY <1>1, <1>3, <4>1 DEF HasColon
      <4>. QED
        BY <3>1, <4>2, <4>3
    <3>3. CASE \E m : ContinuedAt(t, s, m, n)
      <4>1. HasBlank(T, t, s)
        BY <1>3, <1>4, <3>3, LineBlank
      <4>2. AddsIn(T, t, c, s, into)
        BY <1>3, <1>4, <3>1, <4>1, BlankAdds
      <4>3. s # n + 1
        BY <1>1, <1>3, <4>1 DEF HasBlank
      <4>. QED
        BY <3>1, <4>2, <4>3
    <3>. QED
      BY <2>5, <3>2, <3>3 DEF ClosedGoes, LineClosed
  <2>. QED
    BY <2>1, <2>2, <2>3, <2>4, <2>5, LaterCases
<1>9. Adds(T, into)
  BY <1>8, AddsBy DEF AddsIn, T
<1>. QED
  BY <1>8, <1>9 DEF T

-----------------------------------------------------------------------------
(* The headers of the request *)

\* The headers a text has so far.
HeadersSaid(t, hs) ==
    \E o : /\ Lists(o, HeaderStarts(t)) /\ Len(hs) = Len(o)
           /\ \A i \in 1..Len(o) : hs[i] = HeaderAt(t, o[i])

\* A byte more leaves those it is not added to.
LEMMA HeaderKept ==
    ASSUME NEW t \in Seq(Bytes), NEW s, Opens(t, s), s > 1, NEW c \in Bytes, NEW into,
           Adds(Append(t, c), into), NEW h \in HeaderStarts(t),
           into = "nothing" \/ ~LastHeader(Append(t, c), h)
    PROVE  HeaderAt(Append(t, c), h) = HeaderAt(t, h)
<1>1. /\ HeaderStarts(t) \subseteq HeaderStarts(Append(t, c)) /\ HeaderStarts(t) \subseteq 1..Len(t)
  BY HeadersMore
<1>2. ~InName(Append(t, c), h) /\ ~InValue(Append(t, c), h)
  BY <1>1 DEF Adds
<1>3. HeaderAt(Append(t, c), h) = [name |-> HeaderAt(t, h).name, value |-> HeaderAt(t, h).value]
  BY <1>1, <1>2, HeaderMore
<1>. QED
  BY <1>3 DEF HeaderAt

\* The headers of a request are still those of its text when a byte went there.
LEMMA HeadersSaidMore ==
    ASSUME NEW t \in Seq(Bytes), NEW s, Opens(t, s), s > 1, NEW c \in Bytes, NEW into,
           into \in {"name", "new_header", "value", "nothing"},
           into = "new_header" <=> s = Len(t) + 1 /\ c \in Token,
           into \in {"name", "value"} => HeaderStarts(t) # {},
           Adds(Append(t, c), into), NEW r \in Request, HeadersSaid(t, r.headers)
    PROVE  /\ HeadersSaid(Append(t, c), Store(into, c, r).headers)
           /\ Store(into, c, r).method = r.method /\ Store(into, c, r).uri = r.uri
           /\ Store(into, c, r).major = r.major /\ Store(into, c, r).minor = r.minor
<1> DEFINE n == Len(t)
           T == Append(t, c)
           hs == r.headers
           more == Store(into, c, r)
<1>1. n \in Nat /\ T \in Seq(Bytes)
  BY TextMore
<1>2. /\ HeaderStarts(T) = HeaderStarts(t) \cup (IF s = n + 1 /\ c \in Token THEN {n + 1} ELSE {})
      /\ HeaderStarts(t) \subseteq 1..n
  BY HeadersMore
<1>3. PICK o : /\ Lists(o, HeaderStarts(t)) /\ Len(hs) = Len(o)
               /\ \A i \in 1..Len(o) : hs[i] = HeaderAt(t, o[i])
  BY DEF HeadersSaid
<1>4. /\ o \in Seq(Nat) /\ Len(o) \in Nat
      /\ \A i, j \in 1..Len(o) : i < j => o[i] < o[j]
      /\ HeaderStarts(t) = {o[i] : i \in 1..Len(o)}
  BY <1>3 DEF Lists
<1>5. hs \in Seq(Header)
  BY DEF Request
<1>6. \A i \in 1..Len(o) : o[i] \in HeaderStarts(t) /\ o[i] \in 1..n /\ o[i] \in Nat
  BY <1>2, <1>4
<1>7. \A h \in HeaderStarts(t) : into = "nothing" \/ ~LastHeader(T, h) => HeaderAt(T, h) = HeaderAt(t, h)
  BY HeaderKept
<1>8. CASE into = "nothing"
  <2>1. more = r
    BY <1>8 DEF Store
  <2>2. HeaderStarts(T) = HeaderStarts(t)
    BY <1>2, <1>8
  <2>3. \A i \in 1..Len(o) : hs[i] = HeaderAt(T, o[i])
    BY <1>3, <1>6, <1>7, <1>8
  <2>4. HeadersSaid(T, hs)
    BY <1>3, <2>2, <2>3 DEF HeadersSaid
  <2>. QED
    BY <2>1, <2>4
<1>9. CASE into = "new_header"
  <2>1. Changes(into, c, r, more)
    BY <1>9, StoreParts DEF Targets
  <2>2. /\ more.headers = Append(hs, [name |-> <<c>>, value |-> << >>])
        /\ more.method = r.method /\ more.uri = r.uri
        /\ more.major = r.major /\ more.minor = r.minor
    BY <1>9, <2>1 DEF Changes
  <2>3. c \in Token /\ HeaderStarts(T) = HeaderStarts(t) \cup {n + 1}
    BY <1>2, <1>9
  <2>4. Lists(Append(o, n + 1), HeaderStarts(T))
    <3>1. \A x \in HeaderStarts(t) : x < n + 1
      BY <1>1, <1>2
    <3>2. n + 1 \in Nat
      BY <1>1
    <3>. QED
      BY <1>3, <2>3, <3>1, <3>2, ListsMore
  <2>5. HeaderAt(T, n + 1) = [name |-> <<c>>, value |-> << >>]
    BY <2>3, HeaderNew
  <2>6. \A h \in HeaderStarts(t) : HeaderAt(T, h) = HeaderAt(t, h)
    <3>1. \A h \in HeaderStarts(t) : ~(n + 1 <= h)
      BY <1>1, <1>2
    <3>2. \A h \in HeaderStarts(t) : ~LastHeader(T, h)
      BY <2>3, <3>1 DEF LastHeader
    <3>. QED
      BY <1>7, <3>2
  <2>7. /\ Len(Append(o, n + 1)) = Len(o) + 1 /\ Append(o, n + 1)[Len(o) + 1] = n + 1
        /\ \A i \in 1..Len(o) : Append(o, n + 1)[i] = o[i]
    BY <1>1, <1>4
  <2>8. /\ Len(more.headers) = Len(o) + 1 /\ more.headers[Len(o) + 1] = HeaderAt(T, n + 1)
        /\ \A i \in 1..Len(o) : more.headers[i] = hs[i]
    <3> DEFINE new == [name |-> <<c>>, value |-> << >>]
    <3>0. new \in Header
      <4>1. c \in Bytes /\ <<c>> \in Seq(Bytes) /\ << >> \in Seq(Bytes)
        OBVIOUS
      <4>. QED
        BY <4>1 DEF Header
    <3> HIDE DEF new
    <3>1. /\ Len(Append(hs, new)) = Len(hs) + 1 /\ Append(hs, new)[Len(hs) + 1] = new
          /\ \A i \in 1..Len(hs) : Append(hs, new)[i] = hs[i]
      BY <1>5, <3>0
    <3>. QED
      BY <1>3, <2>2, <2>5, <3>1 DEF new
  <2> HIDE DEF more, T, n
  <2>9. \A i \in 1..Len(o) + 1 : more.headers[i] = HeaderAt(T, Append(o, n + 1)[i])
    <3>1. \A i \in 1..Len(o) + 1 : i \in 1..Len(o) \/ i = Len(o) + 1
      BY <1>4
    <3>. QED
      BY <1>3, <1>6, <2>6, <2>7, <2>8, <3>1
  <2>10. HeadersSaid(T, more.headers)
    BY <2>4, <2>7, <2>8, <2>9 DEF HeadersSaid
  <2>. QED
    BY <2>2, <2>10 DEF more, T
<1>10. CASE into \in {"name", "value"}
  <2> DEFINE l == Len(o)
             new == WithByte(hs[l], into, c)
  <2>1. l \in 1..l /\ hs # << >>
    <3>1. l # 0
      BY <1>4, <1>10
    <3>2. hs = << >> => Len(hs) = 0
      OBVIOUS
    <3>. QED
      BY <1>3, <1>4, <3>1, <3>2
  <2>2. /\ more.headers = [hs EXCEPT ![l] = new]
        /\ more.method = r.method /\ more.uri = r.uri
        /\ more.major = r.major /\ more.minor = r.minor
    <3>1. ChangesLast(into, c, r, more)
      BY <1>10, <2>1, StoreLast
    <3>. QED
      BY <1>3, <3>1 DEF ChangesLast
  <2>3. HeaderStarts(T) = HeaderStarts(t)
    BY <1>2, <1>10
  <2>4. \A i \in 1..l : LastHeader(T, o[i]) <=> i = l
    <3>1. ASSUME NEW i \in 1..l, i # l PROVE ~(o[l] <= o[i])
      <4>1. i < l
        BY <1>4, <3>1
      <4>2. o[i] < o[l] /\ o[i] \in Nat /\ o[l] \in Nat
        BY <1>4, <1>6, <2>1, <4>1
      <4>. QED
        BY <4>2
    <3>2. \A i \in 1..l : o[i] <= o[l]
      <4>1. \A i \in 1..l : i < l \/ i = l
        BY <1>4
      <4>. QED
        BY <1>4, <1>6, <2>1, <4>1, SMTT(30)
    <3>. QED
      BY <1>4, <2>1, <2>3, <3>1, <3>2 DEF LastHeader
  <2>5. \A i \in 1..l : i # l => HeaderAt(T, o[i]) = hs[i]
    BY <1>3, <1>6, <1>7, <2>4
  <2>6. HeaderAt(T, o[l]) = new
    <3>1. o[l] \in HeaderStarts(T) /\ o[l] \in 1..n /\ LastHeader(T, o[l])
      BY <1>6, <2>1, <2>3, <2>4
    <3>2. InName(T, o[l]) <=> into = "name"
      BY <1>10, <3>1 DEF Adds
    <3>3. InValue(T, o[l]) <=> into = "value"
      BY <1>10, <3>1 DEF Adds
    <3>4. hs[l] = HeaderAt(t, o[l])
      BY <1>3, <2>1
    <3>5. HeaderAt(T, o[l]) =
             [name |-> IF InName(T, o[l]) THEN Append(HeaderAt(t, o[l]).name, c)
                       ELSE HeaderAt(t, o[l]).name,
              value |-> IF InValue(T, o[l]) THEN Append(HeaderAt(t, o[l]).value, c)
                        ELSE HeaderAt(t, o[l]).value]
      BY <3>1, HeaderMore
    <3>. QED
      BY <3>2, <3>3, <3>4, <3>5 DEF WithByte
  <2> HIDE DEF more, new, T, n
  <2>7. /\ Len(more.headers) = Len(o)
        /\ \A i \in 1..l : more.headers[i] = IF i = l THEN new ELSE hs[i]
    <3>1. DOMAIN hs = 1..l /\ Len(hs) = l
      BY <1>3, <1>5
    <3>2. DOMAIN [hs EXCEPT ![l] = new] = 1..l
      BY <3>1
    <3>3. \A i \in 1..l : [hs EXCEPT ![l] = new][i] = IF i = l THEN new ELSE hs[i]
      BY <3>1
    <3>4. Len([hs EXCEPT ![l] = new]) = l
      BY <1>4, <3>2
    <3>. QED
      BY <2>2, <3>3, <3>4
  <2>8. \A i \in 1..l : more.headers[i] = HeaderAt(T, o[i])
    BY <2>5, <2>6, <2>7
  <2>9. HeadersSaid(T, more.headers)
    BY <1>3, <2>3, <2>7, <2>8 DEF HeadersSaid
  <2>. QED
    BY <2>2, <2>9 DEF more, T
<1>. QED
  BY <1>8, <1>9, <1>10

\* The first place of a byte behind w.
FirstAfter(t, b, w) == Min({i \in Places(t, b) : i > w})

\* The first place of a byte behind another one.
LEMMA FirstPlace ==
    ASSUME NEW t \in Seq(Bytes), NEW b, NEW u \in 1..Len(t), t[u] = b, NEW w \in Nat, w < u,
           \A y \in 1..Len(t) : w < y /\ y < u => t[y] # b
    PROVE  /\ FirstAfter(t, b, w) = u
           /\ w = 0 => Min(Places(t, b)) = u
<1> DEFINE P == {i \in Places(t, b) : i > w}
<1>1. DOMAIN t = 1..Len(t) /\ Len(t) \in Nat
  OBVIOUS
<1>2. P \subseteq Nat /\ u \in P
  BY <1>1 DEF Places
<1>3. \A y \in P : u <= y
  BY <1>1 DEF Places
<1>4. w = 0 => P = Places(t, b)
  BY <1>1 DEF Places
<1> HIDE DEF P
<1>5. Min(P) = u
  BY <1>2, <1>3, LeastIs
<1>. QED
  BY <1>4, <1>5 DEF P, FirstAfter

\* What is read of a text whose lines are good is what they say.
LEMMA SaidIs ==
    ASSUME NEW t \in Seq(Bytes), NEW r \in Request, ReadFirst(t, r), HeadersSaid(t, r.headers)
    PROVE  r = SaidBy(t)
<1>1. PICK u, v, d, e : FirstLine(t, u, v, d, e) /\ Spans(t, 1, e) /\ FirstSaid(t, u, v, d, e, r)
  BY DEF ReadFirst
<1>2. RequestMarks(u, v, d, e) /\ \A i \in 1..e - 1 : InRequestLine(t[i], u, v, d, i)
  BY <1>1 DEF FirstLine
<1>3. /\ u \in Nat /\ v \in Nat /\ d \in Nat /\ e \in Nat
      /\ 1 < u /\ u < v /\ v + 6 < d /\ d + 1 < e
  BY <1>2 DEF RequestMarks
<1>4. e \in Ends(t) /\ e \in 1..Len(t) - 1 /\ Len(t) \in Nat /\ DOMAIN t = 1..Len(t)
  BY <1>1 DEF Spans, Ends
<1>5. ASSUME NEW i \in 1..Len(t), i < e PROVE ByPlace(t[i], u, v, d, i) /\ InRequestLine(t[i], u, v, d, i)
  <2>1. i \in Nat \ {0} /\ i \in 1..e - 1
    BY <1>3, <1>5
  <2>. QED
    BY <1>2, <2>1, FirstClass
<1>6. \A i \in 1..Len(t) : i \in Nat \ {0}
  OBVIOUS
<1>7. ASSUME NEW y \in 1..Len(t), y < u PROVE t[y] # " "
  <2>1. y < e
    BY <1>3, <1>7
  <2>2. t[y] \in Token
    BY <1>5, <1>7, <2>1 DEF ByPlace
  <2>. QED
    BY <2>2, Classes
<1>8. ASSUME NEW y \in 1..Len(t), u < y, y < v PROVE t[y] # " "
  <2>1. y < e
    BY <1>3, <1>8
  <2>2. t[y] \in Text \ {" "}
    BY <1>5, <1>8, <2>1 DEF ByPlace
  <2>. QED
    BY <2>2
<1>9. ASSUME NEW y \in 1..Len(t), v < y, y < d PROVE t[y] # "."
  <2>1. y < e /\ y # d
    BY <1>3, <1>9
  <2>2. ByPlace(t[y], u, v, d, y) /\ InRequestLine(t[y], u, v, d, y)
    BY <1>5, <2>1
  <2>3. y = v + 1 \/ y = v + 2 \/ y = v + 3 \/ y = v + 4 \/ y = v + 5 \/ v + 5 < y
    BY <1>3, <1>9
  <2>4. t[y] \in {"H", "T", "P", "/"} \cup Digit
    BY <2>1, <2>2, <2>3 DEF ByPlace
  <2>. QED
    BY <2>4, Classes
<1>16. u \in 1..Len(t) /\ v \in 1..Len(t) /\ d \in 1..Len(t) /\ u < e /\ v < e /\ d < e
  BY <1>3, <1>4
<1>17. t[u] = " " /\ t[v] = " " /\ t[d] = "."
  BY <1>5, <1>16 DEF ByPlace
<1>18. /\ Min(Places(t, " ")) = u
       /\ Min({i \in Places(t, " ") : i > u}) = v
       /\ Min({i \in Places(t, ".") : i > v}) = d
  <2>1. 0 \in Nat /\ 0 < u /\ u < v /\ v < d
    BY <1>3
  <2>2. /\ \A y \in 1..Len(t) : 0 < y /\ y < u => t[y] # " "
        /\ \A y \in 1..Len(t) : u < y /\ y < v => t[y] # " "
        /\ \A y \in 1..Len(t) : v < y /\ y < d => t[y] # "."
    BY <1>7, <1>8, <1>9, Zenon
  <2>3. Min(Places(t, " ")) = u
    BY <1>16, <1>17, <2>1, <2>2, FirstPlace, Zenon
  <2>4. FirstAfter(t, " ", u) = v
    BY <1>3, <1>16, <1>17, <2>1, <2>2, FirstPlace, ZenonT(40)
  <2>5. FirstAfter(t, ".", v) = d
    <3>1. /\ t[d] = "." /\ d \in 1..Len(t) /\ v \in Nat /\ v < d
          /\ \A y \in 1..Len(t) : v < y /\ y < d => t[y] # "."
      BY <1>3, <1>16, <1>17, <2>1, <2>2, Zenon
    <3>. QED
      BY <3>1, FirstPlace
  <2>. QED
    BY <2>3, <2>4, <2>5 DEF FirstAfter
<1>10. Min(Ends(t)) = e
  <2>1. Ends(t) \subseteq Nat
    BY DEF Ends
  <2>2. \A y \in Ends(t) : e <= y
    <3>1. \A y \in Ends(t) : ~(y < 1)
      BY DEF Ends
    <3>. QED
      BY <1>1, <3>1 DEF Spans
  <2>. QED
    BY <1>4, <2>1, <2>2, LeastIs
<1>11. /\ r.method = SubSeq(t, 1, u - 1) /\ r.uri = SubSeq(t, u + 1, v - 1)
       /\ r.major = NumberOf(SubSeq(t, v + 6, d - 1)) /\ r.minor = NumberOf(SubSeq(t, d + 1, e - 1))
  <2>1. ~(Len(t) < u) /\ ~(Len(t) < v) /\ ~(Len(t) < d) /\ ~(Len(t) < e)
    BY <1>3, <1>4
  <2>. QED
    BY <1>1, <2>1 DEF FirstSaid, Part
<1>12. PICK o : /\ Lists(o, HeaderStarts(t)) /\ Len(r.headers) = Len(o)
                /\ \A i \in 1..Len(o) : r.headers[i] = HeaderAt(t, o[i])
  BY DEF HeadersSaid
<1>13. r.headers = [i \in DOMAIN o |-> HeaderAt(t, o[i])]
  <2>1. r.headers \in Seq(Header) /\ o \in Seq(Nat)
    BY <1>12 DEF Request, Lists
  <2>2. DOMAIN o = 1..Len(o) /\ r.headers = [i \in 1..Len(o) |-> r.headers[i]]
    BY <1>12, <2>1
  <2>. QED
    BY <1>12, <2>2
<1>14. Ascending(HeaderStarts(t)) = o
  BY <1>12, AscendingLists
<1>15. SaidBy(t) = [method |-> r.method, uri |-> r.uri, major |-> r.major, minor |-> r.minor,
                    headers |-> r.headers]
  BY <1>10, <1>11, <1>13, <1>14, <1>18 DEF SaidBy
<1>. QED
  BY <1>15 DEF Request

-----------------------------------------------------------------------------
(* Behind the first line *)

\* The parser behind the first line: the first line and the headers are read, and a later line is.
ReadsLater(t, state, r) ==
    /\ ReadFirst(t, r)
    /\ HeadersSaid(t, r.headers)
    /\ \E s : s > 1 /\ Opens(t, s) /\ LaterState(t, s, state)

\* It has read the first byte of the end of the last line.
ReadsEnd(t, r) ==
    \E u \in Seq(Bytes) :
        t = Append(u, "CR") /\ Len(u) > 0 /\ Opens(u, Len(u) + 1) /\ r = SaidBy(u)

\* A request that has a header was read from a text in which one begins.
LEMMA HeadersThere ==
    ASSUME NEW t, NEW r \in Request, HeadersSaid(t, r.headers), r.headers # << >>
    PROVE  HeaderStarts(t) # {}
<1>1. PICK o : Lists(o, HeaderStarts(t)) /\ Len(r.headers) = Len(o)
  BY DEF HeadersSaid
<1>2. r.headers \in Seq(Header) /\ Len(r.headers) # 0 /\ Len(r.headers) \in Nat
  BY DEF Request
<1>3. 1 \in 1..Len(o)
  BY <1>1, <1>2
<1>. QED
  BY <1>1, <1>3 DEF Lists

\* One byte more, in a later line: it goes on, ends, or is the first byte of the last line.
LEMMA LaterGoesOn ==
    ASSUME NEW t \in Seq(Bytes), NEW state, NEW r \in Request, ReadsLater(t, state, r),
           NEW c \in Bytes, NEW to, NEW into, Goes(state, c, to, into, r.headers)
    PROVE  IF to = "expecting_newline_3" THEN ReadsEnd(Append(t, c), Store(into, c, r))
           ELSE ReadsLater(Append(t, c), to, Store(into, c, r))
<1> DEFINE n == Len(t)
           T == Append(t, c)
           more == Store(into, c, r)
<1>1. PICK s : s > 1 /\ Opens(t, s) /\ LaterState(t, s, state)
  BY DEF ReadsLater
<1>2. n \in Nat /\ T \in Seq(Bytes)
  BY TextMore
<1>3. r.headers # << >> => HeaderStarts(t) # {}
  BY HeadersThere DEF ReadsLater
<1>4. /\ Adds(T, into) /\ into \in {"name", "new_header", "value", "nothing"}
      /\ into = "new_header" <=> s = n + 1 /\ c \in Token
      /\ into \in {"name", "value"} => HeaderStarts(t) # {}
  BY <1>1, LineAdds
<1>5. /\ HeadersSaid(T, more.headers)
      /\ more.method = r.method /\ more.uri = r.uri
      /\ more.major = r.major /\ more.minor = r.minor
  BY <1>1, <1>4, HeadersSaidMore DEF ReadsLater
<1>6. ReadFirst(T, more)
  BY <1>5, ReadFirstStays DEF ReadsLater
<1>7. \/ /\ s = n + 1 /\ c = "CR" /\ to = "expecting_newline_3" /\ into = "nothing"
      \/ /\ c # "LF" /\ to # "expecting_newline_3" /\ LaterState(T, s, to)
      \/ /\ c = "LF" /\ to = "header_line_start" /\ into = "nothing" /\ LineClosed(t, s)
  BY <1>1, <1>3, LineGoesOn
<1> HIDE DEF T, n, more
<1>8. CASE s = n + 1 /\ c = "CR" /\ to = "expecting_newline_3" /\ into = "nothing"
  <2>1. more = r
    BY <1>8 DEF more, Store
  <2>2. r = SaidBy(t)
    BY SaidIs DEF ReadsLater
  <2>3. n > 0
    BY <1>1, <1>2, <1>8
  <2>. QED
    BY <1>1, <1>8, <2>1, <2>2, <2>3 DEF ReadsEnd, T, n, more
<1>9. CASE c # "LF" /\ to # "expecting_newline_3" /\ LaterState(T, s, to)
  <2>1. Opens(T, s)
    BY <1>1, <1>9, OpensOn DEF T
  <2>. QED
    BY <1>1, <1>5, <1>6, <1>9, <2>1 DEF ReadsLater, T, more
<1>10. CASE c = "LF" /\ to = "header_line_start" /\ LineClosed(t, s)
  <2>1. 0 < n /\ t[n] = "CR" /\ LaterLine(t, s, n)
    BY <1>10 DEF LineClosed, LaterLine, Headed, n
  <2>2. Opens(T, n + 2)
    BY <1>1, <1>10, <2>1, OpensNext DEF T, n
  <2>3. Len(T) = n + 1 /\ n + 2 = Len(T) + 1 /\ n + 2 > 1
    BY <1>2 DEF T, n
  <2>4. LaterState(T, n + 2, to)
    BY <1>10, <2>3 DEF LaterState
  <2>. QED
    BY <1>5, <1>6, <1>10, <2>2, <2>3, <2>4 DEF ReadsLater, T, more
<1>. QED
  BY <1>7, <1>8, <1>9, <1>10

\* The first line over, the second one is read.
LEMMA FirstThenLater ==
    ASSUME NEW t \in Seq(Bytes), NEW r \in Request, ReadsFirst(t, "expecting_newline_1", r)
    PROVE  ReadsLater(Append(t, "LF"), "header_line_start", r)
<1> DEFINE T == Append(t, "LF")
<1>1. Opens(T, Len(t) + 2) /\ HeaderStarts(T) = {} /\ ReadFirst(T, r)
  BY FirstOver
<1>2. r.headers = << >>
  BY DEF ReadsFirst
<1>3. HeadersSaid(T, r.headers)
  <2>1. Lists(<< >>, {})
    BY DEF Lists
  <2>2. Lists(<< >>, HeaderStarts(T)) /\ Len(r.headers) = Len(<< >>)
    BY <1>1, <1>2, <2>1
  <2>3. 1..Len(<< >>) = {}
    OBVIOUS
  <2>. QED
    BY <2>2, <2>3 DEF HeadersSaid
<1>4. Len(T) + 1 = Len(t) + 2 /\ Len(t) + 2 > 1
  <2>1. "LF" \in Bytes
    BY DEF Bytes, Ctl
  <2>. QED
    BY <2>1, TextMore
<1>5. LaterState(T, Len(t) + 2, "header_line_start")
  BY <1>4 DEF LaterState
<1>. QED
  BY <1>1, <1>3, <1>4, <1>5 DEF ReadsLater

MayGo(state, c, headers) == \E to, into : Goes(state, c, to, into, headers)

\* The bytes that go on, by the state.
LEMMA LaterMayGo ==
    ASSUME NEW c, NEW headers
    PROVE  /\ c = "CR" \/ c \in Token => MayGo("header_line_start", c, headers)
           /\ c \in Lws /\ headers # << >> => MayGo("header_line_start", c, headers)
           /\ c \in Token \/ c = ":" => MayGo("header_name", c, headers)
           /\ c = " " => MayGo("space_before_header_value", c, headers)
           /\ c \in Lws \/ c \in Text \ Lws \/ c = "CR" => MayGo("header_lws", c, headers)
           /\ c \in Text \/ c = "CR" => MayGo("header_value", c, headers)
           /\ c = "LF" => MayGo("expecting_newline_2", c, headers)
           /\ c = "LF" => MayGo("expecting_newline_3", c, headers)
<1>1. /\ c = "CR" => Goes("header_line_start", c, "expecting_newline_3", "nothing", headers)
      /\ c \in Token => Goes("header_line_start", c, "header_name", "new_header", headers)
      /\ c \in Lws /\ headers # << >> =>
            Goes("header_line_start", c, "header_lws", "nothing", headers)
  BY DEF Goes, GoesAtStart
<1>2. /\ c \in Token => Goes("header_name", c, "header_name", "name", headers)
      /\ c = ":" => Goes("header_name", c, "space_before_header_value", "nothing", headers)
      /\ c = " " => Goes("space_before_header_value", c, "header_value", "nothing", headers)
      /\ c \in Lws => Goes("header_lws", c, "header_lws", "nothing", headers)
      /\ c \in Text \ Lws => Goes("header_lws", c, "header_value", "value", headers)
      /\ c \in Text => Goes("header_value", c, "header_value", "value", headers)
  BY DEF Goes, GoesInHeader
<1>3. /\ c = "CR" => Goes("header_lws", c, "expecting_newline_2", "nothing", headers)
      /\ c = "CR" => Goes("header_value", c, "expecting_newline_2", "nothing", headers)
      /\ c = "LF" => Goes("expecting_newline_2", c, "header_line_start", "nothing", headers)
      /\ c = "LF" => Goes("expecting_newline_3", c, "expecting_newline_3", "complete", headers)
  BY DEF Goes, GoesAtEnd
<1>. QED
  BY <1>1, <1>2, <1>3 DEF MayGo

\* A line from s to e of a text that goes on from t with c.
Reaches(T, t, c, s, e) ==
    /\ Len(t) \in Nat /\ s \in Nat /\ e \in Nat /\ s <= Len(t) + 1 /\ Len(t) <= e
    /\ T[Len(t) + 1] = c /\ \A i \in s..Len(t) : T[i] = t[i]
    /\ T[e] = "CR" /\ T[e + 1] = "LF"

\* The byte that comes next in a header, or a line that continues one, is one the
\* parser goes on with.
LEMMA HeaderGoes ==
    ASSUME NEW T, NEW t, NEW c, NEW s, NEW e, Reaches(T, t, c, s, e), NEW state, NEW headers,
           LaterState(t, s, state), NEW k, HeaderLineAt(T, s, k, e)
    PROVE  MayGo(state, c, headers)
<1> DEFINE n == Len(t)
<1>1. /\ n \in Nat /\ s \in Nat /\ e \in Nat /\ s <= n + 1 /\ n <= e
      /\ T[n + 1] = c /\ \A i \in s..n : T[i] = t[i]
  BY DEF Reaches
<1>2. T[e] = "CR" /\ T[e + 1] = "LF"
  BY DEF Reaches
<1>3. k \in Nat /\ s < k /\ k + 1 < e /\ \A i \in s..e - 1 : InHeader(T[i], k, i)
  BY DEF HeaderLineAt
<1>4. \A i \in s..e - 1 : /\ i < k => T[i] \in Token
                          /\ i = k => T[i] = ":"
                          /\ i = k + 1 => T[i] = " "
                          /\ i > k + 1 => T[i] \in Text
  <2> SUFFICES ASSUME NEW i \in s..e - 1
               PROVE  /\ i < k => T[i] \in Token
                      /\ i = k => T[i] = ":"
                      /\ i = k + 1 => T[i] = " "
                      /\ i > k + 1 => T[i] \in Text
    OBVIOUS
  <2>1. i \in Nat /\ InHeader(T[i], k, i)
    BY <1>1, <1>3
  <2>. QED
    BY <1>3, <2>1, HeaderClass
<1>5. s \in s..e - 1 /\ k \in s..e - 1 /\ T[s] \in Token /\ T[k] = ":"
  <2>1. s \in s..e - 1 /\ k \in s..e - 1
    BY <1>1, <1>3
  <2>. QED
    BY <1>3, <1>4, <2>1
<1>6. \A x \in Token : x \notin Lws /\ x # ":"
  BY Classes
<1>7. n + 1 < e => n + 1 \in s..e - 1
  BY <1>1
<1>8. /\ n + 1 < k => c \in Token
      /\ n + 1 = k => c = ":"
      /\ n + 1 = k + 1 => c = " "
      /\ n + 1 > k + 1 /\ n + 1 < e => c \in Text
      /\ n + 1 = e => c = "CR"
      /\ n = e => c = "LF"
  <2>1. n + 1 <= k + 1 => n + 1 < e
    BY <1>1, <1>3
  <2>2. n + 1 < k \/ n + 1 = k \/ n + 1 = k + 1 => n + 1 <= k + 1
    BY <1>1, <1>3
  <2>. QED
    BY <1>1, <1>2, <1>4, <1>7, <2>1, <2>2
<1>9. \A i \in s..n : i \in s..e - 1 => t[i] = T[i]
  BY <1>1
<1>10. s..n \subseteq s..e - 1 \cup {e}
  BY <1>1
<1> HIDE DEF n
<1>11. CASE state = "header_line_start" /\ s = n + 1
  BY <1>3, <1>8, <1>11, LaterMayGo
<1>12. CASE state = "header_name" /\ Named(t, s)
  <2>1. k \notin s..n
    <3> SUFFICES ASSUME k \in s..n PROVE FALSE
      OBVIOUS
    <3>1. t[k] \in Token
      BY <1>12 DEF Named, n
    <3>. QED
      BY <1>1, <1>5, <1>6, <3>1
  <2>2. n + 1 < k \/ n + 1 = k
    BY <1>1, <1>3, <2>1
  <2>3. c \in Token \/ c = ":"
    BY <1>8, <2>2
  <2>. QED
    BY <1>12, <2>3, LaterMayGo
<1>13. CASE state = "space_before_header_value" /\ Coloned(t, s)
  <2>1. s < n /\ \A i \in s..n : InHeader(T[i], n, i)
    BY <1>1, <1>13 DEF Coloned, n
  <2>2. n \in s..n /\ n \in Nat
    BY <1>1, <2>1
  <2>3. T[n] = ":" /\ \A i \in s..n : i < n => T[i] \in Token
    <3>1. \A i \in s..n : i \in Nat /\ InHeader(T[i], n, i)
      BY <1>1, <2>1
    <3>. QED
      BY <2>2, <3>1, HeaderClass
  <2>4. ~(k < n)
    <3> SUFFICES ASSUME k < n PROVE FALSE
      OBVIOUS
    <3>1. k \in s..n
      BY <1>1, <1>3
    <3>. QED
      BY <1>5, <1>6, <2>3, <3>1
  <2>5. ~(n < k)
    <3> SUFFICES ASSUME n < k PROVE FALSE
      OBVIOUS
    <3>1. n \in s..e - 1
      BY <1>1, <1>3, <2>1
    <3>2. T[n] \in Token
      BY <1>4, <3>1
    <3>. QED
      BY <1>6, <2>3, <3>2
  <2>6. n + 1 = k + 1
    BY <1>1, <1>3, <2>4, <2>5
  <2>7. c = " "
    BY <1>8, <2>6
  <2>. QED
    BY <1>13, <2>7, LaterMayGo
<1>14. CASE state = "header_lws" /\ Blank(t, s)
  <2>1. s \in s..n
    BY <1>1, <1>14 DEF Blank, n
  <2>2. t[s] \in Lws
    BY <1>14, <2>1 DEF Blank, n
  <2>. QED
    BY <1>1, <1>5, <1>6, <2>1, <2>2
<1>15. CASE state = "header_value" /\ Valued(t, s)
  <2>1. PICK j : HeaderLineAt(t, s, j, n + 1)
    <3>1. ASSUME NEW m, m < n, ContinuedAt(t, s, m, n + 1) PROVE FALSE
      <4>1. m \in Nat /\ s <= m /\ \A i \in s..n : InContinuation(t[i], m, i)
        BY <1>1, <3>1, LineUpTo
      <4>2. s \in s..n
        BY <1>1, <3>1, <4>1
      <4>3. t[s] \in Lws
        BY <1>1, <4>1, <4>2, ContinuationClass
      <4>. QED
        BY <1>1, <1>5, <1>6, <4>2, <4>3
    <3>. QED
      BY <1>15, <3>1 DEF Valued, n
  <2>2. j \in Nat /\ s < j /\ j + 1 < n + 1 /\ \A i \in s..n : InHeader(t[i], j, i)
    BY <1>1, <2>1, LineUpTo
  <2>3. j \in s..n /\ n \in s..n
    BY <1>1, <2>2
  <2>4. t[j] = ":"
    BY <2>2, <2>3, HeaderClass
  <2>5. t[n] # "CR"
    <3>1. InHeader(t[n], j, n)
      BY <2>2, <2>3
    <3>. QED
      BY <3>1, InLine
  <2>6. n # e
    BY <1>1, <1>2, <2>3, <2>5
  <2>7. ~(j < k)
    <3> SUFFICES ASSUME j < k PROVE FALSE
      OBVIOUS
    <3>1. j \in s..e - 1
      BY <1>1, <1>3, <2>2
    <3>2. T[j] \in Token
      BY <1>4, <3>1
    <3>. QED
      BY <1>1, <1>6, <2>3, <2>4, <3>2
  <2>8. n + 1 > k + 1 /\ (n + 1 < e \/ n + 1 = e)
    BY <1>1, <1>3, <2>2, <2>6, <2>7
  <2>9. c \in Text \/ c = "CR"
    BY <1>8, <2>8
  <2>. QED
    BY <1>15, <2>9, LaterMayGo
<1>16. CASE state = "expecting_newline_2" /\ LineClosed(t, s)
  <2>1. s < n /\ t[n] = "CR"
    <3>1. /\ t[n] = "CR"
          /\ (\E j : HeaderLineAt(t, s, j, n)) \/ \E m : ContinuedAt(t, s, m, n)
      BY <1>16 DEF LineClosed, n
    <3>2. s < n
      BY <1>1, <3>1 DEF HeaderLineAt, ContinuedAt
    <3>. QED
      BY <3>1, <3>2
  <2>2. n = e
    <3> SUFFICES ASSUME n < e PROVE FALSE
      BY <1>1
    <3>1. n \in s..e - 1 /\ n \in s..n
      BY <1>1, <2>1
    <3>2. InHeader(T[n], k, n)
      BY <1>3, <3>1
    <3>. QED
      BY <1>1, <2>1, <3>1, <3>2, InLine
  <2>. QED
    BY <1>8, <1>16, <2>2, LaterMayGo
<1>. QED
  BY <1>11, <1>12, <1>13, <1>14, <1>15, <1>16 DEF LaterState, n

\* The next byte of a line that continues one goes on from the state the line is in.
LEMMA ContinuationGoes ==
    ASSUME NEW T, NEW t, NEW c, NEW s, NEW e, Reaches(T, t, c, s, e), NEW state, NEW headers,
           LaterState(t, s, state), NEW m, ContinuedAt(T, s, m, e),
           s = Len(t) + 1 => headers # << >>
    PROVE  MayGo(state, c, headers)
<1> DEFINE n == Len(t)
<1>1. /\ n \in Nat /\ s \in Nat /\ e \in Nat /\ s <= n + 1 /\ n <= e
      /\ T[n + 1] = c /\ \A i \in s..n : T[i] = t[i]
  BY DEF Reaches
<1>2. T[e] = "CR" /\ T[e + 1] = "LF"
  BY DEF Reaches
<1>3. m \in Nat /\ s <= m /\ m < e /\ \A i \in s..e - 1 : InContinuation(T[i], m, i)
  BY DEF ContinuedAt
<1>4. \A i \in s..e - 1 : /\ i <= m => T[i] \in Lws
                          /\ i = m + 1 => T[i] \in Text \ Lws
                          /\ i > m + 1 => T[i] \in Text
  <2> SUFFICES ASSUME NEW i \in s..e - 1
               PROVE  /\ i <= m => T[i] \in Lws
                      /\ i = m + 1 => T[i] \in Text \ Lws
                      /\ i > m + 1 => T[i] \in Text
    OBVIOUS
  <2>1. i \in Nat /\ InContinuation(T[i], m, i)
    BY <1>1, <1>3
  <2>. QED
    BY <1>3, <2>1, ContinuationClass
<1>5. s \in s..e - 1 /\ T[s] \in Lws
  <2>1. s \in s..e - 1
    BY <1>1, <1>3
  <2>. QED
    BY <1>3, <1>4, <2>1
<1>6. /\ \A x \in Token : x \notin Lws
      /\ "CR" \notin Lws /\ "CR" \notin Text
  BY Classes
<1>7. n + 1 < e => n + 1 \in s..e - 1
  BY <1>1
<1>8. /\ n + 1 <= m => c \in Lws
      /\ n + 1 = m + 1 /\ n + 1 < e => c \in Text \ Lws
      /\ n + 1 > m + 1 /\ n + 1 < e => c \in Text
      /\ n + 1 = e => c = "CR"
      /\ n = e => c = "LF"
  <2>1. n + 1 <= m => n + 1 < e
    BY <1>1, <1>3
  <2>. QED
    BY <1>1, <1>2, <1>4, <1>7, <2>1
<1> HIDE DEF n
<1>11. CASE state = "header_line_start" /\ s = n + 1
  <2>1. c \in Lws /\ headers # << >>
    BY <1>3, <1>8, <1>11 DEF n
  <2>. QED
    BY <1>11, <2>1, LaterMayGo
<1>12. CASE Named(t, s)
  <2>1. s \in s..n
    BY <1>1, <1>12 DEF Named, n
  <2>2. t[s] \in Token
    BY <1>12, <2>1 DEF Named, n
  <2>. QED
    BY <1>1, <1>5, <1>6, <2>1, <2>2
<1>13. CASE Coloned(t, s)
  <2>1. s \in s..n /\ s < n
    BY <1>1, <1>13 DEF Coloned, n
  <2>2. InHeader(t[s], n, s)
    BY <1>13, <2>1 DEF Coloned, n
  <2>3. t[s] \in Token
    BY <1>1, <2>1, <2>2, HeaderClass
  <2>. QED
    BY <1>1, <1>5, <1>6, <2>1, <2>3
<1>14. CASE state = "header_lws" /\ Blank(t, s)
  <2>1. n \in s..n /\ s <= n
    BY <1>1, <1>14 DEF Blank, n
  <2>2. \A i \in s..n : T[i] \in Lws
    BY <1>1, <1>14 DEF Blank, n
  <2>3. n # e
    BY <1>2, <1>6, <2>1, <2>2
  <2>4. ~(n + 1 > m + 1)
    <3> SUFFICES ASSUME n + 1 > m + 1 PROVE FALSE
      OBVIOUS
    <3>1. m + 1 \in s..n /\ m + 1 \in s..e - 1
      BY <1>1, <1>3, <2>3
    <3>2. T[m + 1] \in Text \ Lws
      BY <1>4, <3>1
    <3>. QED
      BY <2>2, <3>1, <3>2
  <2>5. n + 1 <= m \/ (n + 1 = m + 1 /\ n + 1 < e) \/ n + 1 = e
    BY <1>1, <1>3, <2>3, <2>4
  <2>6. c \in Lws \/ c \in Text \ Lws \/ c = "CR"
    BY <1>8, <2>5
  <2>. QED
    BY <1>14, <2>6, LaterMayGo
<1>15. CASE state = "header_value" /\ Valued(t, s)
  <2>1. PICK j : j < n /\ ContinuedAt(t, s, j, n + 1)
    <3>1. ASSUME NEW k, HeaderLineAt(t, s, k, n + 1) PROVE FALSE
      <4>1. k \in Nat /\ s < k /\ k + 1 < n + 1 /\ \A i \in s..n : InHeader(t[i], k, i)
        BY <1>1, <3>1, LineUpTo
      <4>2. s \in s..n
        BY <1>1, <4>1
      <4>3. t[s] \in Token
        BY <1>1, <4>1, <4>2, HeaderClass
      <4>. QED
        BY <1>1, <1>5, <1>6, <4>2, <4>3
    <3>. QED
      BY <1>15, <3>1 DEF Valued, n
  <2>2. j \in Nat /\ s <= j /\ \A i \in s..n : InContinuation(t[i], j, i)
    BY <1>1, <2>1, LineUpTo
  <2>3. j + 1 \in s..n /\ n \in s..n /\ j + 1 \in Nat
    BY <1>1, <2>1, <2>2
  <2>4. t[j + 1] \in Text \ Lws
    BY <2>2, <2>3, ContinuationClass
  <2>5. t[n] # "CR"
    <3>1. InContinuation(t[n], j, n)
      BY <2>2, <2>3
    <3>. QED
      BY <3>1, InLine
  <2>6. n # e
    BY <1>1, <1>2, <2>3, <2>5
  <2>7. ~(j + 1 <= m)
    <3> SUFFICES ASSUME j + 1 <= m PROVE FALSE
      OBVIOUS
    <3>1. j + 1 \in s..e - 1
      BY <1>1, <1>3, <2>2
    <3>2. T[j + 1] \in Lws
      BY <1>4, <3>1
    <3>. QED
      BY <1>1, <2>3, <2>4, <3>2
  <2>8. n + 1 > m + 1 /\ (n + 1 < e \/ n + 1 = e)
    BY <1>1, <1>3, <2>1, <2>2, <2>6, <2>7
  <2>9. c \in Text \/ c = "CR"
    BY <1>8, <2>8
  <2>. QED
    BY <1>15, <2>9, LaterMayGo
<1>16. CASE state = "expecting_newline_2" /\ LineClosed(t, s)
  <2>1. s < n /\ t[n] = "CR"
    <3>1. /\ t[n] = "CR"
          /\ (\E j : HeaderLineAt(t, s, j, n)) \/ \E j : ContinuedAt(t, s, j, n)
      BY <1>16 DEF LineClosed, n
    <3>2. s < n
      BY <1>1, <3>1 DEF HeaderLineAt, ContinuedAt
    <3>. QED
      BY <3>1, <3>2
  <2>2. n = e
    <3> SUFFICES ASSUME n < e PROVE FALSE
      BY <1>1
    <3>1. n \in s..e - 1 /\ n \in s..n
      BY <1>1, <2>1
    <3>2. InContinuation(T[n], m, n)
      BY <1>3, <3>1
    <3>. QED
      BY <1>1, <2>1, <3>1, <3>2, InLine
  <2>. QED
    BY <1>8, <1>16, <2>2, LaterMayGo
<1>. QED
  BY <1>11, <1>12, <1>13, <1>14, <1>15, <1>16 DEF LaterState, n

\* A later line that has begun does not begin with its end.
LEMMA LineFilled ==
    ASSUME NEW t, Len(t) \in Nat, NEW s \in Nat, NEW state, LaterState(t, s, state)
    PROVE  \/ s = Len(t) + 1 /\ state = "header_line_start"
           \/ s <= Len(t) /\ t[s] # "CR"
<1> DEFINE n == Len(t)
<1>1. "CR" \notin Token /\ "CR" \notin Lws
  BY Classes
<1>2. ASSUME s <= n PROVE s \in s..n
  BY <1>2
<1>3. CASE Named(t, s)
  BY <1>1, <1>2, <1>3 DEF Named
<1>4. CASE Coloned(t, s)
  <2>1. s < n /\ s <= n
    BY <1>4 DEF Coloned
  <2>2. InHeader(t[s], n, s)
    BY <1>2, <1>4, <2>1 DEF Coloned
  <2>. QED
    BY <2>1, <2>2, InLine
<1>5. CASE Blank(t, s)
  BY <1>1, <1>2, <1>5 DEF Blank
<1>6. ASSUME NEW e \in {n, n + 1}, NEW k, HeaderLineAt(t, s, k, e) PROVE s <= n /\ t[s] # "CR"
  <2>1. k \in Nat /\ s < k /\ k + 1 < e /\ \A i \in s..e - 1 : InHeader(t[i], k, i)
    BY <1>6 DEF HeaderLineAt
  <2>2. s \in s..e - 1 /\ s <= n
    BY <2>1
  <2>3. InHeader(t[s], k, s)
    BY <2>1, <2>2
  <2>. QED
    BY <2>2, <2>3, InLine
<1>7. ASSUME NEW e \in {n, n + 1}, NEW m, ContinuedAt(t, s, m, e) PROVE s <= n /\ t[s] # "CR"
  <2>1. m \in Nat /\ s <= m /\ m < e /\ \A i \in s..e - 1 : InContinuation(t[i], m, i)
    BY <1>7 DEF ContinuedAt
  <2>2. s \in s..e - 1 /\ s <= n
    BY <2>1
  <2>3. InContinuation(t[s], m, s)
    BY <2>1, <2>2
  <2>. QED
    BY <2>2, <2>3, InLine
<1> HIDE DEF n
<1>8. CASE Valued(t, s)
  BY <1>6, <1>7, <1>8 DEF Valued, n
<1>9. CASE LineClosed(t, s)
  BY <1>6, <1>7, <1>9 DEF LineClosed, n
<1>. QED
  BY <1>3, <1>4, <1>5, <1>8, <1>9 DEF LaterState

\* What goes on from more goes on from less.
LEMMA GoesOnLess ==
    ASSUME NEW t \in Seq(Bytes), NEW c \in Bytes, NEW T, GoesOn(T, Append(t, c))
    PROVE  /\ GoesOn(T, t) /\ T \in Seq(Bytes) /\ Len(T) \in Nat
           /\ Len(t) + 1 <= Len(T) /\ T[Len(t) + 1] = c
<1> DEFINE n == Len(t)
           more == Append(t, c)
<1>1. /\ more \in Seq(Bytes) /\ n \in Nat /\ Len(more) = n + 1 /\ more[n + 1] = c
      /\ \A i \in 1..n : more[i] = t[i]
  BY TextMore
<1>2. /\ T \in Seq(Bytes) /\ Len(T) \in Nat /\ n + 1 <= Len(T)
      /\ \A i \in 1..n + 1 : T[i] = more[i]
  BY <1>1 DEF GoesOn
<1> HIDE DEF more
<1>3. n + 1 \in 1..n + 1 /\ \A i \in 1..n : i \in 1..n + 1
  BY <1>1
<1>. QED
  BY <1>1, <1>2, <1>3 DEF GoesOn

\* A byte that does not fit a later line fits none.
LEMMA LaterRefuses ==
    ASSUME NEW t \in Seq(Bytes), NEW state, NEW r \in Request, ReadsLater(t, state, r),
           NEW c \in Bytes, ~MayGo(state, c, r.headers), NEW T, GoesOn(T, Append(t, c))
    PROVE  ~IsRequest(T)
<1> DEFINE n == Len(t)
<1> SUFFICES ASSUME NEW f, EndsRequest(T, f) PROVE FALSE
  BY DEF IsRequest
<1>1. /\ GoesOn(T, t) /\ T \in Seq(Bytes) /\ Len(T) \in Nat /\ n \in Nat
      /\ n + 1 <= Len(T) /\ T[n + 1] = c
  BY GoesOnLess
<1>2. PICK s : s > 1 /\ Opens(t, s) /\ LaterState(t, s, state)
  BY DEF ReadsLater
<1>3. /\ LineStarts(t) \subseteq LineStarts(T) /\ LineStarts(t) \subseteq 1..n + 1
      /\ Ends(T) \subseteq 1..Len(T) - 1
      /\ \A i \in Ends(T) : i < n => i \in Ends(t)
      /\ \A i \in 1..n : T[i] = t[i]
  BY <1>1, EndsStay DEF GoesOn
<1>4. /\ s \in LineStarts(t) /\ s \in LineStarts(T) /\ s \in Nat /\ s <= n + 1 /\ s > 1
      /\ \A i \in LineStarts(t) : i <= s
  BY <1>1, <1>2, <1>3 DEF Opens
<1>5. s <= f
  BY <1>1, <1>2, OpensNone
<1>6. /\ f \in Ends(T) /\ f \in Nat /\ T[f] = "CR"
      /\ \A i \in LineStarts(T) : i < f => GoodLine(T, i)
  BY <1>3 DEF EndsRequest, Ends
<1>7. CASE f = s
  <2>1. \/ s = n + 1 /\ state = "header_line_start"
        \/ s <= n /\ t[s] # "CR"
    BY <1>1, <1>2, <1>4, LineFilled
  <2>2. CASE s = n + 1 /\ state = "header_line_start"
    BY <1>1, <1>6, <1>7, <2>2, LaterMayGo
  <2>3. CASE s <= n /\ t[s] # "CR"
    <3>1. s \in 1..n
      BY <1>4, <2>3
    <3>. QED
      BY <1>3, <1>6, <1>7, <2>3, <3>1
  <2>. QED
    BY <2>1, <2>2, <2>3
<1>8. CASE s < f
  <2>1. GoodLine(T, s)
    BY <1>4, <1>6, <1>8
  <2>2. PICK e : Spans(T, s, e)
    BY <1>1, <1>4, <1>5, <1>6, LineEnds
  <2>3. e \in Ends(T) /\ s <= e /\ e \in Nat /\ T[e] = "CR" /\ T[e + 1] = "LF"
    BY <1>3, <2>2 DEF Spans, Ends
  <2>4. n <= e
    <3> SUFFICES ASSUME e < n PROVE FALSE
      BY <1>1, <2>3
    <3>1. e + 2 \in LineStarts(t)
      BY <1>3, <2>3 DEF LineStarts
    <3>2. e + 2 <= s
      BY <1>4, <3>1
    <3>. QED
      BY <1>4, <2>3, <3>2
  <2>5. LaterLine(T, s, e)
    BY <1>1, <1>4, <2>1, <2>2, GoodLater
  <2>6. Reaches(T, t, c, s, e)
    <3>1. \A i \in s..n : i \in 1..n
      BY <1>4
    <3>. QED
      BY <1>1, <1>3, <1>4, <2>3, <2>4, <3>1 DEF Reaches
  <2>7. ASSUME NEW k, HeaderLineAt(T, s, k, e) PROVE FALSE
    BY <1>2, <2>6, <2>7, HeaderGoes
  <2>8. ASSUME NEW m, ContinuedAt(T, s, m, e), NEW h \in HeaderStarts(T), h < s PROVE FALSE
    <3>1. s = n + 1 => r.headers # << >>
      <4> SUFFICES ASSUME s = n + 1, r.headers = << >> PROVE FALSE
        OBVIOUS
      <4>1. HeaderStarts(T) \subseteq Nat
        <5>1. GoesOn(T, T)
          BY <1>1 DEF GoesOn
        <5>. QED
          BY <1>1, <5>1, HeadersStay
      <4>2. h <= n
        BY <1>1, <2>8, <4>1
      <4>3. h \in HeaderStarts(t)
        BY <1>1, <4>2, HeadersStay
      <4>4. PICK o : Lists(o, HeaderStarts(t)) /\ Len(<< >>) = Len(o)
        BY DEF ReadsLater, HeadersSaid
      <4>5. 1..Len(o) = {}
        BY <4>4
      <4>. QED
        BY <4>3, <4>4, <4>5 DEF Lists
    <3>. QED
      BY <1>2, <2>6, <2>8, <3>1, ContinuationGoes
  <2>. QED
    BY <2>5, <2>7, <2>8 DEF LaterLine
<1>. QED
  BY <1>4, <1>5, <1>6, <1>7, <1>8

-----------------------------------------------------------------------------
(* The end *)

\* A byte behind the last CR that is no LF: nothing that goes on from it is a request.
LEMMA EndRefuses ==
    ASSUME NEW t \in Seq(Bytes), NEW r, ReadsEnd(t, r), NEW c \in Bytes, c # "LF",
           NEW T, GoesOn(T, Append(t, c))
    PROVE  ~IsRequest(T)
<1> SUFFICES ASSUME NEW f, EndsRequest(T, f) PROVE FALSE
  BY DEF IsRequest
<1>1. PICK u \in Seq(Bytes) : t = Append(u, "CR") /\ Len(u) > 0 /\ Opens(u, Len(u) + 1)
  BY DEF ReadsEnd
<1> DEFINE n == Len(t)
<1>2. "CR" \in Bytes
  BY DEF Bytes, Ctl
<1>3. /\ GoesOn(T, t) /\ T \in Seq(Bytes) /\ Len(T) \in Nat
      /\ n + 1 <= Len(T) /\ T[n + 1] = c
  BY GoesOnLess
<1>4. n = Len(u) + 1 /\ Len(u) \in Nat
  BY <1>1, <1>2, TextMore
<1>5. GoesOn(T, u) /\ T[n] = "CR"
  <2>1. GoesOn(T, Append(u, "CR"))
    BY <1>1, <1>3
  <2>. QED
    BY <1>2, <1>4, <2>1, GoesOnLess
<1> HIDE DEF n
<1>6. n <= f
  BY <1>1, <1>4, <1>5, OpensNone
<1>7. /\ f \in Ends(T) /\ f \in Nat /\ T[f + 1] = "LF"
      /\ \A i \in LineStarts(T) : i < f => GoodLine(T, i)
  BY DEF EndsRequest, Ends
<1>8. f # n
  BY <1>3, <1>7
<1>9. n \in LineStarts(T) /\ n \in Nat \ {0}
  <2>1. LineStarts(u) \subseteq LineStarts(T)
    BY <1>5, EndsStay
  <2>. QED
    BY <1>1, <1>4, <2>1 DEF Opens
<1>10. n < f
  BY <1>6, <1>7, <1>8, <1>9
<1>11. GoodLine(T, n)
  BY <1>7, <1>9, <1>10
<1>12. PICK e : Spans(T, n, e)
  BY <1>3, <1>6, <1>7, <1>9, LineEnds
<1>13. n < e /\ e \in Nat /\ \A i \in n..e - 1 : T[i] \notin {"CR", "LF"}
  BY <1>3, <1>9, <1>11, <1>12, GoodFilled
<1>14. n \in n..e - 1
  BY <1>9, <1>13
<1>. QED
  BY <1>5, <1>13, <1>14

\* A text that is one request, whatever comes behind it.
LEMMA Completes ==
    ASSUME NEW t \in Seq(Bytes), NEW r, ReadsEnd(t, r), NEW T, GoesOn(T, Append(t, "LF"))
    PROVE  IsRequest(T) /\ RequestOf(T) = r
<1>1. PICK u \in Seq(Bytes) : /\ t = Append(u, "CR") /\ Len(u) > 0 /\ Opens(u, Len(u) + 1)
                              /\ r = SaidBy(u)
  BY DEF ReadsEnd
<1> DEFINE n == Len(t)
<1>2. "CR" \in Bytes /\ "LF" \in Bytes
  BY DEF Bytes, Ctl
<1>3. /\ GoesOn(T, t) /\ T \in Seq(Bytes) /\ Len(T) \in Nat
      /\ n + 1 <= Len(T) /\ T[n + 1] = "LF"
  BY <1>2, GoesOnLess
<1>4. n = Len(u) + 1 /\ Len(u) \in Nat
  BY <1>1, <1>2, TextMore
<1>5. GoesOn(T, u) /\ T[n] = "CR"
  <2>1. GoesOn(T, Append(u, "CR"))
    BY <1>1, <1>3
  <2>. QED
    BY <1>2, <1>4, <2>1, GoesOnLess
<1> HIDE DEF n
<1>6. n \in LineStarts(T) /\ n > 1 /\ n \in Nat
  <2>1. LineStarts(u) \subseteq LineStarts(T)
    BY <1>5, EndsStay
  <2>. QED
    BY <1>1, <1>4, <2>1 DEF Opens
<1>7. n \in Ends(T)
  <2>1. n \in 1..Len(T) - 1
    BY <1>3, <1>6
  <2>. QED
    BY <1>3, <1>5, <2>1 DEF Ends
<1>8. \A s \in LineStarts(T) : s < n => GoodLine(T, s)
  BY <1>1, <1>4, <1>5, OpensStays
<1>9. EndsRequest(T, n)
  BY <1>6, <1>7, <1>8 DEF EndsRequest
<1>10. (CHOOSE e \in Ends(T) : EndsRequest(T, e)) = n
  BY <1>3, <1>7, <1>9, EndsOnce
<1>11. SubSeq(T, 1, n - 1) = u
  <2>1. n - 1 = Len(u) /\ Len(u) <= Len(T) /\ \A i \in 1..Len(u) : T[i] = u[i]
    BY <1>4, <1>5 DEF GoesOn
  <2>2. SubSeq(T, 1, Len(u)) = u
    <3>1. /\ SubSeq(T, 1, Len(u)) \in Seq(Bytes) /\ Len(SubSeq(T, 1, Len(u))) = Len(u)
          /\ \A i \in 1..Len(u) : SubSeq(T, 1, Len(u))[i] = T[i]
      BY <1>3, <1>4, <2>1
    <3>. QED
      BY <2>1, <3>1, SeqEqual
  <2>. QED
    BY <2>1, <2>2
<1>12. RequestOf(T) = SaidBy(u)
  BY <1>10, <1>11 DEF RequestOf
<1>. QED
  BY <1>1, <1>7, <1>9, <1>12 DEF IsRequest

-----------------------------------------------------------------------------
(* What a parser knows of the text it has read *)

\* The states of the first line, and of those behind it.
FirstNames ==
    {"method_start", "method", "uri", "http_version_h", "http_version_t_1",
     "http_version_t_2", "http_version_p", "http_version_slash",
     "http_version_major_start", "http_version_major", "http_version_minor_start",
     "http_version_minor", "expecting_newline_1"}
LaterNames ==
    {"header_line_start", "header_name", "space_before_header_value", "header_lws",
     "header_value", "expecting_newline_2"}

\* The states in the first line, and behind it.
LEMMA NamesRead ==
    ASSUME NEW t, NEW state, NEW r
    PROVE  /\ ReadsFirst(t, state, r) => state \in FirstNames
           /\ ReadsLater(t, state, r) => state \in LaterNames
<1>1. ASSUME NEW u, NEW v, NEW d, NEW e, NEW n, FirstState(state, u, v, d, e, n)
      PROVE  state \in FirstNames
  BY <1>1, Zenon DEF FirstState, FirstNames
<1>2. ASSUME NEW s, LaterState(t, s, state) PROVE state \in LaterNames
  BY <1>2, Zenon DEF LaterState, LaterNames
<1>. QED
  BY <1>1, <1>2 DEF ReadsFirst, ReadsLater

\* The transitions from these states.
LEMMA GoesByName ==
    ASSUME NEW state, NEW c, NEW to, NEW into, NEW headers, Goes(state, c, to, into, headers)
    PROVE  /\ state \in FirstNames =>
                 \/ /\ into # "complete" /\ to # "expecting_newline_3"
                    /\ GoesInRequestLine(state, c, to, into)
                 \/ /\ state = "http_version_minor" /\ c \in {"CR"} /\ to = "expecting_newline_1"
                    /\ into = "nothing"
                 \/ /\ state = "expecting_newline_1" /\ c = "LF" /\ to = "header_line_start"
                    /\ into = "nothing"
           /\ state \in LaterNames => into # "complete"
           /\ state = "expecting_newline_3" =>
                 c = "LF" /\ to = "expecting_newline_3" /\ into = "complete"
<1>1. CASE GoesInRequestLine(state, c, to, into)
  BY <1>1 DEF GoesInRequestLine, LaterNames
<1>2. CASE GoesAtStart(state, c, to, into, headers)
  BY <1>2 DEF GoesAtStart, FirstNames, LaterNames
<1>3. CASE GoesInHeader(state, c, to, into)
  BY <1>3 DEF GoesInHeader, FirstNames, LaterNames
<1>4. CASE GoesAtEnd(state, c, to, into)
  BY <1>4 DEF GoesAtEnd, FirstNames, LaterNames
<1>. QED
  BY <1>1, <1>2, <1>3, <1>4 DEF Goes

\* What a parser that wants more bytes has read: a part of the first line, or of a later
\* one, or the first byte of the end of the last.
Reading(t, state, r) ==
    IF state = "expecting_newline_3" THEN ReadsEnd(t, r)
    ELSE ReadsFirst(t, state, r) \/ ReadsLater(t, state, r)

\* What it says of the text: more bytes may make it a request; it begins with the request
\* it has read; nothing that begins with it is one.
Knows(p, t) ==
    /\ p.verdict = "more" => Reading(t, p.state, p.request)
    /\ p.verdict = "ok" =>
          \A T : GoesOn(T, t) => IsRequest(T) /\ RequestOf(T) = p.request
    /\ p.verdict = "bad" => \A T : GoesOn(T, t) => ~IsRequest(T)

\* One byte that goes on
LEMMA ReadingGoesOn ==
    ASSUME NEW t \in Seq(Bytes), NEW state, NEW r \in Request, Reading(t, state, r),
           NEW c \in Bytes, NEW to, NEW into, Goes(state, c, to, into, r.headers)
    PROVE  IF into = "complete"
           THEN c = "LF" /\ ReadsEnd(t, r) /\ Store(into, c, r) = r
           ELSE Reading(Append(t, c), to, Store(into, c, r))
<1> DEFINE T == Append(t, c)
           more == Store(into, c, r)
<1>1. CASE state = "expecting_newline_3"
  <2>1. c = "LF" /\ into = "complete"
    BY <1>1, GoesByName
  <2>. QED
    BY <1>1, <2>1 DEF Reading, Store
<1>2. CASE ReadsFirst(t, state, r)
  <2>1. state \in FirstNames
    BY <1>2, NamesRead
  <2>2. CASE /\ into # "complete" /\ to # "expecting_newline_3"
             /\ ReadsFirst(T, to, more)
    BY <2>2 DEF Reading
  <2>3. ASSUME into # "complete", to # "expecting_newline_3",
               GoesInRequestLine(state, c, to, into)
        PROVE  ReadsFirst(T, to, more)
    BY <1>2, <2>3, FirstGoesOn
  <2>4. ASSUME state = "http_version_minor", c \in {"CR"}, to = "expecting_newline_1",
               into = "nothing"
        PROVE  ReadsFirst(T, to, more)
    BY <1>2, <2>4, FirstGoesOn
  <2>5. CASE state = "expecting_newline_1" /\ c = "LF" /\ to = "header_line_start" /\ into = "nothing"
    <3>1. more = r
      BY <2>5 DEF Store
    <3>2. ReadsLater(T, to, r)
      BY <1>2, <2>5, FirstThenLater
    <3>. QED
      BY <2>5, <3>1, <3>2 DEF Reading
  <2> HIDE DEF T, more
  <2>6. to = "expecting_newline_1" /\ into = "nothing" =>
           into # "complete" /\ to # "expecting_newline_3"
    OBVIOUS
  <2>. QED
    BY <2>1, <2>2, <2>3, <2>4, <2>5, <2>6, GoesByName DEF T, more
<1>3. CASE state # "expecting_newline_3" /\ ReadsLater(t, state, r)
  <2>1. state \in LaterNames
    BY <1>3, NamesRead
  <2>2. into # "complete"
    BY <2>1, GoesByName
  <2>3. IF to = "expecting_newline_3" THEN ReadsEnd(T, more) ELSE ReadsLater(T, to, more)
    BY <1>3, LaterGoesOn
  <2> HIDE DEF T, more
  <2>4. Reading(T, to, more)
    BY <2>3 DEF Reading
  <2>. QED
    BY <2>2, <2>4 DEF T, more
<1>. QED
  BY <1>1, <1>2, <1>3 DEF Reading

\* and one that does not.
LEMMA ReadingRefuses ==
    ASSUME NEW t \in Seq(Bytes), NEW state, NEW r \in Request, Reading(t, state, r),
           NEW c \in Bytes, \A to, into : ~Goes(state, c, to, into, r.headers),
           NEW T, GoesOn(T, Append(t, c))
    PROVE  ~IsRequest(T)
<1>1. ~MayGo(state, c, r.headers)
  BY DEF MayGo
<1>2. CASE state = "expecting_newline_3"
  <2>1. c # "LF"
    BY <1>1, <1>2, LaterMayGo
  <2>2. ReadsEnd(t, r)
    BY <1>2 DEF Reading
  <2>. QED
    BY <2>1, <2>2, EndRefuses
<1>3. CASE ReadsFirst(t, state, r)
  BY <1>3, FirstRefuses
<1>4. CASE ReadsLater(t, state, r)
  BY <1>1, <1>4, LaterRefuses
<1>. QED
  BY <1>2, <1>3, <1>4 DEF Reading

\* consume keeps what a parser knows of its text.
LEMMA FeedKnows ==
    ASSUME NEW p \in Parsers, NEW t \in Seq(Bytes), Knows(p, t), NEW c \in Bytes
    PROVE  Knows(Feed(p, c), Append(t, c))
<1> DEFINE T == Append(t, c)
<1>1. CASE p.verdict # "more"
  <2>1. Feed(p, c) = p
    BY <1>1 DEF Feed
  <2>2. \A U : GoesOn(U, T) => GoesOn(U, t)
    BY GoesOnLess
  <2> HIDE DEF T
  <2>. QED
    BY <1>1, <2>1, <2>2 DEF Knows, T
<1>2. CASE p.verdict = "more"
  <2>1. p.request \in Request /\ Reading(t, p.state, p.request)
    BY <1>2 DEF Parsers, Knows
  <2>2. CASE /\ \A to, into : ~Goes(p.state, c, to, into, p.request.headers)
             /\ Feed(p, c).verdict = "bad"
    <3>1. \A U : GoesOn(U, T) => ~IsRequest(U)
      BY <2>1, <2>2, ReadingRefuses
    <3> HIDE DEF T
    <3>. QED
      BY <2>2, <3>1 DEF Knows, T
  <2>3. ASSUME NEW to, NEW into, Goes(p.state, c, to, into, p.request.headers),
               Feed(p, c) = [state |-> to,
                             verdict |-> IF into = "complete" THEN "ok" ELSE "more",
                             request |-> Store(into, c, p.request)]
        PROVE  Knows(Feed(p, c), T)
    <3>1. IF into = "complete"
          THEN c = "LF" /\ ReadsEnd(t, p.request) /\ Store(into, c, p.request) = p.request
          ELSE Reading(T, to, Store(into, c, p.request))
      BY <2>1, <2>3, ReadingGoesOn
    <3>2. CASE into = "complete"
      <4>1. Feed(p, c).verdict = "ok" /\ Feed(p, c).request = p.request
        BY <2>3, <3>1, <3>2
      <4>2. T = Append(t, "LF") /\ ReadsEnd(t, p.request)
        BY <3>1, <3>2
      <4> HIDE DEF T
      <4>3. \A U : GoesOn(U, T) => IsRequest(U) /\ RequestOf(U) = p.request
        BY <4>2, Completes
      <4>. QED
        BY <4>1, <4>3 DEF Knows
    <3>3. CASE into # "complete"
      <4>1. /\ Feed(p, c).verdict = "more" /\ Feed(p, c).state = to
            /\ Feed(p, c).request = Store(into, c, p.request)
        BY <2>3, <3>3
      <4>2. Reading(T, to, Store(into, c, p.request))
        BY <3>1, <3>3
      <4> HIDE DEF T
      <4>. QED
        BY <4>1, <4>2 DEF Knows
    <3>. QED
      BY <3>2, <3>3
  <2>. QED
    BY <1>2, <2>2, <2>3, FeedCases
<1>. QED
  BY <1>1, <1>2

\* A text that is not read to its end is no request.
LEMMA ReadingMore ==
    ASSUME NEW t \in Seq(Bytes), NEW state, NEW r, Reading(t, state, r)
    PROVE  ~IsRequest(t)
<1>1. CASE ReadsFirst(t, state, r)
  <2> SUFFICES ASSUME NEW f, f \in Ends(t) PROVE FALSE
    BY DEF IsRequest
  <2>1. LineStarts(t) = {1}
    BY <1>1 DEF ReadsFirst
  <2>2. f + 2 \in {1} /\ f \in Nat
    BY <2>1 DEF LineStarts, Ends
  <2>. QED
    BY <2>2
<1>2. CASE ReadsLater(t, state, r)
  BY <1>2, OpensMore DEF ReadsLater
<1>3. CASE ReadsEnd(t, r)
  <2>1. PICK u \in Seq(Bytes) : t = Append(u, "CR") /\ Opens(u, Len(u) + 1)
    BY <1>3 DEF ReadsEnd
  <2>2. "CR" \in Bytes /\ "CR" # "LF"
    BY DEF Bytes, Ctl
  <2>3. Opens(t, Len(u) + 1)
    BY <2>1, <2>2, OpensOn
  <2>. QED
    BY <2>3, OpensMore
<1>. QED
  BY <1>1, <1>2, <1>3 DEF Reading

\* A parser as it starts has read nothing.
LEMMA FreshKnows == Knows(Fresh, << >>)
<1> DEFINE t == << >>
<1>1. t \in Seq(Bytes) /\ Len(t) = 0 /\ LineStarts(t) = {1}
  <2>1. Ends(t) = {}
    BY DEF Ends
  <2>. QED
    BY <2>1 DEF LineStarts
<1>2. \A i, mark \in Nat \ {0} : Part(t, i, mark) = << >>
  <2> SUFFICES ASSUME NEW i \in Nat \ {0}, NEW mark \in Nat \ {0} PROVE Part(t, i, mark) = << >>
    OBVIOUS
  <2>1. Part(t, i, mark) = SubSeq(t, i, 0)
    BY <1>1 DEF Part
  <2>. QED
    BY <2>1, <1>1
<1>3. RequestMarks(2, 3, 10, 12) /\ Len(t) <= 12
  BY <1>1 DEF RequestMarks
<1>4. FirstFits(t, 2, 3, 10, 12)
  BY <1>1 DEF FirstFits
<1>5. FirstState("method_start", 2, 3, 10, 12, 0)
  BY DEF FirstState
<1>6. FirstSaid(t, 2, 3, 10, 12, NoRequest)
  <2>1. /\ Part(t, 1, 2) = << >> /\ Part(t, 2 + 1, 3) = << >>
        /\ Part(t, 3 + 6, 10) = << >> /\ Part(t, 10 + 1, 12) = << >>
    BY <1>2
  <2>. QED
    BY <2>1, NumberNone DEF FirstSaid, NoRequest
<1>7. ReadsFirst(t, "method_start", NoRequest)
  <2> HIDE DEF t
  <2>1. NoRequest.headers = << >>
    BY DEF NoRequest
  <2>. QED
    BY <1>1, <1>3, <1>4, <1>5, <1>6, <2>1 DEF ReadsFirst
<1>. QED
  BY <1>7 DEF Knows, Reading, Fresh

-----------------------------------------------------------------------------
(* Texts that come in pieces *)

\* f lists what the first pieces of a text are together.
Joins(f, s) ==
    /\ f \in [0..Len(s) -> Seq(Bytes)]
    /\ f[0] = << >>
    /\ \A i \in 1..Len(s) : f[i] = f[i - 1] \o s[i]

\* There is such a list.
LEMMA Joined ==
    ASSUME NEW s \in Seq(Seq(Bytes))
    PROVE  \E f : Joins(f, s)
<1> DEFINE n == Len(s)
           S == Seq(Bytes)
           Body(f, i) == IF i = 0 THEN << >> ELSE f[i - 1] \o s[i]
           G == [i \in 0..n |-> [f \in [0..n -> S] |-> Body(f, i)]]
<1>1. n \in Nat /\ \A i \in 1..n : s[i] \in S
  OBVIOUS
<1>2. << >> \in S /\ \A a, b \in S : a \o b \in S
  OBVIOUS
<1> HIDE DEF S
<1>3. \A f \in [0..n -> S], i \in 0..n : Body(f, i) \in S
  <2> SUFFICES ASSUME NEW f \in [0..n -> S], NEW i \in 0..n PROVE Body(f, i) \in S
    OBVIOUS
  <2>1. CASE i = 0
    BY <1>2, <2>1
  <2>2. CASE i # 0
    <3>1. i \in 1..n /\ i - 1 \in 0..n
      BY <1>1, <2>2
    <3>. QED
      BY <1>1, <1>2, <2>2, <3>1
  <2>. QED
    BY <2>1, <2>2
<1>4. \A i \in 0..n : \A f, g \in [0..n -> S] :
         (\A j \in 0..i - 1 : f[j] = g[j]) => Body(f, i) = Body(g, i)
  <2> SUFFICES ASSUME NEW i \in 0..n, NEW f, NEW g, \A j \in 0..i - 1 : f[j] = g[j]
               PROVE  Body(f, i) = Body(g, i)
    OBVIOUS
  <2>1. CASE i = 0
    BY <2>1
  <2>2. CASE i # 0
    <3>1. i - 1 \in 0..i - 1
      BY <1>1, <2>2
    <3>. QED
      BY <2>2, <3>1
  <2>. QED
    BY <2>1, <2>2
<1>5. ASSUME NEW f PROVE Body(f, 0) = << >> /\ \A i \in 1..n : Body(f, i) = f[i - 1] \o s[i]
  <2>1. \A i \in 1..n : i # 0
    BY <1>1
  <2> HIDE DEF n
  <2>. QED
    BY <2>1, Zenon
<1> HIDE DEF Body
<1>6. G \in Steps(n, S) /\ LooksBack(G, n, S)
  BY <1>3, <1>4 DEF Steps, LooksBack
<1>7. \A i \in 0..n : \A f \in [0..n -> S] : G[i][f] = Body(f, i)
  OBVIOUS
<1> HIDE DEF G
<1>8. PICK f \in [0..n -> S] : \A i \in 0..n : f[i] = G[i][f]
  BY <1>1, <1>2, <1>6, Recursion
<1>9. \A i \in 0..n : f[i] = Body(f, i)
  BY <1>7, <1>8
<1>10. 0 \in 0..n /\ \A i \in 1..n : i \in 0..n
  BY <1>1
<1>. QED
  BY <1>5, <1>8, <1>9, <1>10 DEF Joins, S

\* And it lists what the first pieces make.
LEMMA JoinedFirst ==
    ASSUME NEW s \in Seq(Seq(Bytes)), NEW f, Joins(f, s), NEW k \in 0..Len(s)
    PROVE  FlattenSeq(SubSeq(s, 1, k)) = f[k]
<1> DEFINE r == SubSeq(s, 1, k)
<1>1. /\ Len(s) \in Nat /\ k \in Nat /\ k <= Len(s)
      /\ r \in Seq(Seq(Bytes)) /\ Len(r) = k /\ \A i \in 1..k : r[i] = s[i]
      /\ \A i \in 1..k : s[i] \in Seq(Bytes)
  OBVIOUS
<1> HIDE DEF r
<1>2. /\ f[0] = << >> /\ \A i \in 1..k : f[i] = f[i - 1] \o r[i]
      /\ \A i \in 1..k : f[i] \in Seq(Bytes)
  <2>1. \A i \in 1..k : i \in 1..Len(s) /\ i \in 0..Len(s)
    BY <1>1
  <2>. QED
    BY <1>1, <2>1 DEF Joins
<1>3. CASE k = 0
  <2>1. r = << >>
    BY <1>1, <1>3
  <2>. QED
    BY <1>2, <1>3, <2>1 DEF FlattenSeq, r
<1>4. CASE k # 0
  <2> DEFINE Body(g, i) == IF i = 1 THEN r[i] ELSE g[i - 1] \o r[i]
             flatten[i \in 1..Len(r)] == Body(flatten, i)
             Solves(g) == g = [i \in 1..Len(r) |-> Body(g, i)]
             h == [i \in 1..Len(r) |-> f[i]]
  <2>1. FlattenSeq(r) = flatten[Len(r)]
    BY <1>1, <1>4 DEF FlattenSeq
  <2>2. \A i \in 1..k : f[i] = Body(f, i)
    <3> SUFFICES ASSUME NEW i \in 1..k PROVE f[i] = Body(f, i)
      OBVIOUS
    <3>1. CASE i = 1
      <4>1. 1 \in 1..k /\ 1 - 1 = 0
        BY <1>1, <1>4
      <4>2. f[1] = f[1 - 1] \o r[1] /\ r[1] \in Seq(Bytes)
        BY <1>1, <1>2, <4>1
      <4>3. f[1] = << >> \o r[1]
        BY <1>2, <4>1, <4>2
      <4>4. << >> \o r[1] = r[1]
        BY <4>2
      <4>. QED
        BY <3>1, <4>3, <4>4
    <3>2. CASE i # 1
      BY <1>2, <3>2
    <3>. QED
      BY <3>1, <3>2
  <2>3. Solves(h)
    <3>1. \A i \in 1..Len(r) : Body(h, i) = Body(f, i)
      <4> SUFFICES ASSUME NEW i \in 1..Len(r) PROVE Body(h, i) = Body(f, i)
        OBVIOUS
      <4>1. i # 1 => i - 1 \in 1..Len(r)
        BY <1>1
      <4>. QED
        BY <4>1
    <3> HIDE DEF Body
    <3>2. \A i \in 1..Len(r) : h[i] = Body(h, i)
      BY <1>1, <2>2, <3>1
    <3>. QED
      BY <3>2
  <2>4. flatten = CHOOSE g : Solves(g)
    OBVIOUS
  <2>5. Solves(flatten)
    <3> HIDE DEF h, flatten, Solves
    <3>. QED
      BY <2>3, <2>4
  <2> HIDE DEF flatten
  <2>6. \A i \in 1..k : flatten[i] = Body(flatten, i)
    <3> HIDE DEF Body
    <3>. QED
      BY <1>1, <2>5
  <2> DEFINE T == {i \in 1..k : flatten[i] # f[i]}
  <2>7. ASSUME T # {} PROVE FALSE
    <3>1. T \subseteq Nat
      BY <1>1
    <3>2. PICK m \in T : \A i \in T : m <= i
      <4> HIDE DEF T
      <4>. QED
        BY <2>7, <3>1, Least
    <3>3. m \in 1..k /\ flatten[m] # f[m]
      OBVIOUS
    <3>4. m # 1 => m - 1 \in 1..k /\ ~(m <= m - 1)
      BY <1>1, <3>3
    <3>5. m # 1 => flatten[m - 1] = f[m - 1]
      BY <3>2, <3>4
    <3>6. Body(flatten, m) = Body(f, m)
      BY <3>5
    <3> HIDE DEF Body
    <3>. QED
      BY <2>2, <2>6, <3>3, <3>6
  <2>8. k \in 1..k
    BY <1>1, <1>4
  <2>. QED
    BY <1>1, <2>1, <2>7, <2>8 DEF r
<1>. QED
  BY <1>3, <1>4

\* A text that goes on does so with any bytes.
LEMMA GoesOnJoined ==
    ASSUME NEW a \in Seq(Bytes), NEW t \in Seq(Bytes), GoesOn(a, t), NEW b \in Seq(Bytes)
    PROVE  GoesOn(a \o b, t)
<1>1. /\ a \o b \in Seq(Bytes) /\ Len(a \o b) = Len(a) + Len(b) /\ Len(a) \in Nat /\ Len(b) \in Nat
      /\ \A i \in 1..Len(a) : (a \o b)[i] = a[i]
  OBVIOUS
<1>2. Len(t) \in Nat /\ Len(t) <= Len(a) /\ \A i \in 1..Len(t) : a[i] = t[i]
  BY DEF GoesOn
<1>3. Len(t) <= Len(a \o b)
  BY <1>1, <1>2
<1>4. \A i \in 1..Len(t) : i \in 1..Len(a)
  BY <1>1, <1>2
<1>. QED
  BY <1>1, <1>2, <1>3, <1>4 DEF GoesOn

\* The pieces that have come are a text, one more comes behind it, and all of them go on
\* from it.
LEMMA Pieces ==
    ASSUME NEW s \in Seq(Seq(Bytes)), NEW k \in 0..Len(s)
    PROVE  /\ FlattenSeq(SubSeq(s, 1, k)) \in Seq(Bytes)
           /\ k < Len(s) => FlattenSeq(SubSeq(s, 1, k + 1)) = FlattenSeq(SubSeq(s, 1, k)) \o s[k + 1]
           /\ GoesOn(FlattenSeq(s), FlattenSeq(SubSeq(s, 1, k)))
           /\ FlattenSeq(SubSeq(s, 1, 0)) = << >>
<1> DEFINE n == Len(s)
<1>1. PICK f : Joins(f, s)
  BY Joined
<1>2. /\ n \in Nat /\ k \in 0..n /\ \A i \in 1..n : s[i] \in Seq(Bytes)
      /\ f \in [0..n -> Seq(Bytes)] /\ f[0] = << >> /\ \A i \in 1..n : f[i] = f[i - 1] \o s[i]
  <2>1. n \in Nat /\ \A i \in 1..n : s[i] \in Seq(Bytes)
    OBVIOUS
  <2>2. f \in [0..n -> Seq(Bytes)] /\ f[0] = << >> /\ \A i \in 1..n : f[i] = f[i - 1] \o s[i]
    BY <1>1, Zenon DEF Joins
  <2>. QED
    BY <2>1, <2>2
<1>3. \A i \in 0..n : FlattenSeq(SubSeq(s, 1, i)) = f[i]
  BY <1>1, JoinedFirst
<1>4. SubSeq(s, 1, n) = s
  OBVIOUS
<1> HIDE DEF n
<1>5. n \in 0..n /\ 0 \in 0..n
  BY <1>2
<1>6. k < n => k + 1 \in 0..n /\ k + 1 \in 1..n /\ k + 1 - 1 = k
  BY <1>2
<1>7. k < n => FlattenSeq(SubSeq(s, 1, k + 1)) = FlattenSeq(SubSeq(s, 1, k)) \o s[k + 1]
  <2> SUFFICES ASSUME k < n
               PROVE  FlattenSeq(SubSeq(s, 1, k + 1)) = FlattenSeq(SubSeq(s, 1, k)) \o s[k + 1]
    OBVIOUS
  <2>1. f[k + 1] = f[k] \o s[k + 1]
    <3>1. k + 1 \in 1..n /\ k + 1 - 1 = k
      BY <1>6
    <3>2. \A i \in 1..n : i - 1 = k => f[i] = f[k] \o s[i]
      BY <1>2
    <3>3. PICK i \in 1..n : i = k + 1 /\ i - 1 = k
      BY <1>2, <3>1
    <3>4. f[i] = f[k] \o s[i]
      BY <3>2, <3>3, Zenon
    <3>. QED
      BY <3>3, <3>4, Zenon
  <2>2. FlattenSeq(SubSeq(s, 1, k + 1)) = f[k + 1] /\ FlattenSeq(SubSeq(s, 1, k)) = f[k]
    BY <1>2, <1>3, <1>6
  <2>. QED
    BY <2>1, <2>2
<1>8. GoesOn(f[n], f[k])
  <2> DEFINE T == {i \in k..n : ~GoesOn(f[i], f[k])}
  <2>1. ASSUME T # {} PROVE FALSE
    <3>1. T \subseteq Nat
      BY <1>2
    <3>2. PICK m \in T : \A i \in T : m <= i
      <4> HIDE DEF T
      <4>. QED
        BY <2>1, <3>1, Least
    <3>3. m \in k..n /\ ~GoesOn(f[m], f[k])
      OBVIOUS
    <3>4. f[k] \in Seq(Bytes)
      BY <1>2
    <3>5. GoesOn(f[k], f[k])
      BY <3>4 DEF GoesOn
    <3>6. m # k
      BY <3>3, <3>5
    <3>7. m - 1 \in k..n /\ ~(m <= m - 1) /\ m \in 1..n /\ m - 1 \in 0..n
      BY <1>2, <3>3, <3>6
    <3>8. GoesOn(f[m - 1], f[k])
      BY <3>2, <3>7
    <3>9. f[m - 1] \in Seq(Bytes) /\ s[m] \in Seq(Bytes) /\ f[m] = f[m - 1] \o s[m]
      BY <1>2, <3>7
    <3>10. GoesOn(f[m], f[k])
      BY <3>4, <3>8, <3>9, GoesOnJoined
    <3>. QED
      BY <3>3, <3>10
  <2>2. n \in k..n
    BY <1>2
  <2>. QED
    BY <2>1, <2>2
<1>. QED
  BY <1>2, <1>3, <1>4, <1>5, <1>7, <1>8 DEF n

-----------------------------------------------------------------------------
(* What parse makes of a text *)

\* parse keeps what a parser knows of its text.
LEMMA ParseKnows ==
    ASSUME NEW p \in Parsers, NEW t \in Seq(Bytes), Knows(p, t), NEW input \in Seq(Bytes)
    PROVE  Knows(Parse(p, input), t \o input)
<1> DEFINE n == Len(input)
           upto(i) == t \o SubSeq(input, 1, i)
<1>1. PICK after \in [0..n -> Parsers] :
         /\ after[0] = p
         /\ \A i \in 1..n : after[i] = Feed(after[i - 1], input[i])
         /\ Parse(p, input) = after[n]
  BY ParseSteps
<1>2. n \in Nat /\ \A i \in 1..n : input[i] \in Bytes
  OBVIOUS
<1>3. /\ upto(0) = t /\ upto(n) = t \o input
      /\ \A i \in 0..n : upto(i) \in Seq(Bytes)
  <2>1. SubSeq(input, 1, 0) = << >> /\ SubSeq(input, 1, n) = input
    OBVIOUS
  <2>2. \A i \in 0..n : SubSeq(input, 1, i) \in Seq(Bytes)
    OBVIOUS
  <2>3. t \o << >> = t
    OBVIOUS
  <2>. QED
    BY <2>1, <2>2, <2>3
<1>4. ASSUME NEW i \in 1..n PROVE upto(i) = Append(upto(i - 1), input[i])
  <2> DEFINE a == SubSeq(input, 1, i - 1)
             b == SubSeq(input, 1, i)
  <2>1. i \in Nat /\ i - 1 \in Nat /\ i <= n /\ i - 1 + 1 = i
    BY <1>2
  <2>2. /\ a \in Seq(Bytes) /\ Len(a) = i - 1 /\ \A j \in 1..i - 1 : a[j] = input[j]
        /\ b \in Seq(Bytes) /\ Len(b) = i /\ \A j \in 1..i : b[j] = input[j]
    BY <1>2, <2>1
  <2> HIDE DEF a, b
  <2>3. b = Append(a, input[i])
    <3> DEFINE more == Append(a, input[i])
    <3>1. /\ more \in Seq(Bytes) /\ Len(more) = i
          /\ \A j \in 1..i - 1 : more[j] = a[j]
      BY <1>2, <2>1, <2>2
    <3>2. more[i] = input[i]
      BY <1>2, <2>1, <2>2
    <3> HIDE DEF more
    <3>3. ASSUME NEW j \in 1..i PROVE more[j] = b[j]
      <4>1. CASE j = i
        BY <2>2, <3>2, <4>1
      <4>2. CASE j # i
        <5>1. j \in 1..i - 1
          BY <2>1, <4>2
        <5>. QED
          BY <2>2, <3>1, <5>1
      <4>. QED
        BY <4>1, <4>2
    <3>. QED
      BY <2>2, <3>1, <3>3, SeqEqual DEF more
  <2>4. t \o Append(a, input[i]) = Append(t \o a, input[i])
    BY <1>2, <2>2
  <2>. QED
    BY <2>3, <2>4 DEF a, b
<1> HIDE DEF upto, n
<1> DEFINE T == {i \in 0..n : ~Knows(after[i], upto(i))}
<1>5. ASSUME T # {} PROVE FALSE
  <2>1. PICK m \in T : \A i \in T : m <= i
    <3>1. T \subseteq Nat
      BY <1>2
    <3> HIDE DEF T
    <3>. QED
      BY <1>5, <3>1, Least
  <2>2. m \in 0..n /\ ~Knows(after[m], upto(m))
    OBVIOUS
  <2>3. m # 0
    BY <1>1, <1>3, <2>2
  <2>4. m \in 1..n /\ m - 1 \in 0..n /\ ~(m <= m - 1)
    BY <1>2, <2>2, <2>3
  <2>5. Knows(after[m - 1], upto(m - 1))
    BY <2>1, <2>4
  <2>6. /\ after[m - 1] \in Parsers /\ upto(m - 1) \in Seq(Bytes) /\ input[m] \in Bytes
        /\ after[m] = Feed(after[m - 1], input[m]) /\ upto(m) = Append(upto(m - 1), input[m])
    BY <1>1, <1>2, <1>3, <1>4, <2>4
  <2>7. Knows(after[m], upto(m))
    BY <2>5, <2>6, FeedKnows
  <2>. QED
    BY <2>2, <2>7
<1>6. n \in 0..n
  BY <1>2
<1>7. Knows(after[n], upto(n))
  BY <1>5, <1>6
<1>. QED
  BY <1>1, <1>3, <1>7

\* What that says of the text itself and of one that goes on from it.
LEMMA KnowsRequest ==
    ASSUME NEW p \in Parsers, NEW t \in Seq(Bytes), Knows(p, t)
    PROVE  /\ p.verdict = "ok" <=> IsRequest(t)
           /\ p.verdict = "ok" => p.request = RequestOf(t)
           /\ p.verdict = "bad" => \A T : GoesOn(T, t) => ~IsRequest(T)
           /\ p.verdict # "undefined"
<1>1. GoesOn(t, t)
  BY DEF GoesOn
<1>2. p.verdict \in {"more", "ok", "bad"}
  BY DEF Parsers
<1>3. p.verdict = "more" => ~IsRequest(t)
  BY ReadingMore DEF Knows
<1>. QED
  BY <1>1, <1>2, <1>3 DEF Knows

(* For every sequence of bytes: parse accepts a text exactly if it begins with *)
(* the lines of a request, and then has read the method, uri, version and     *)
(* headers they say; it refuses a text only where nothing that goes on from   *)
(* it is a request (RequestParser.cpp:27-283).                                *)
THEOREM ParsesRequests ==
    ASSUME NEW text \in Seq(Bytes)
    PROVE  LET p == Parse(Fresh, text) IN
           /\ p.verdict = "ok" <=> IsRequest(text)
           /\ p.verdict = "ok" => p.request = RequestOf(text)
           /\ p.verdict = "bad" => \A more \in Seq(Bytes) : ~IsRequest(text \o more)
<1> DEFINE p == Parse(Fresh, text)
<1>1. p \in Parsers
  BY FreshTyped, ParseTyped
<1>2. Knows(p, text)
  <2>1. << >> \in Seq(Bytes) /\ << >> \o text = text
    OBVIOUS
  <2>2. Knows(Parse(Fresh, text), << >> \o text)
    BY <2>1, FreshTyped, FreshKnows, ParseKnows
  <2>. QED
    BY <2>1, <2>2
<1> HIDE DEF p
<1>3. \A more \in Seq(Bytes) : GoesOn(text \o more, text)
  <2>1. GoesOn(text, text)
    BY DEF GoesOn
  <2>. QED
    BY <2>1, GoesOnJoined
<1>4. /\ p.verdict = "ok" <=> IsRequest(text)
      /\ p.verdict = "ok" => p.request = RequestOf(text)
      /\ p.verdict = "bad" => \A more \in Seq(Bytes) : ~IsRequest(text \o more)
  BY <1>1, <1>2, <1>3, KnowsRequest
<1>. QED
  BY <1>4 DEF p

-----------------------------------------------------------------------------
(* The path of a request *)

\* The symbols of a path: bytes, and characters an escape stands for.
Symbols == Bytes \cup {Char(code) : code \in 0..255} \cup {"index", ".", "html"}
Decodings == [ok : BOOLEAN, path : Seq(Symbols)]

\* The value of a hexadecimal digit.
LEMMA HexValueRange ==
    ASSUME NEW c \in Hex
    PROVE  HexValue(c) \in 0..15
<1> DEFINE chosen == CHOOSE i \in 1..16 : c \in {UpperDigits[i], LowerDigits[i]}
<1>1. chosen \in 1..16
  <2>1. PICK i \in 1..16 : c \in {UpperDigits[i], LowerDigits[i]}
    BY Zenon DEF Hex
  <2>. QED
    BY <2>1
<1>2. HexValue(c) = chosen - 1
  BY Zenon DEF HexValue
<1> HIDE DEF chosen
<1>. QED
  BY <1>1, <1>2

\* What the two characters of an escape are read as is no number or a byte.
LEMMA ReadHexRange ==
    ASSUME NEW a, NEW b
    PROVE  ReadHex(a, b) = NoNumber \/ ReadHex(a, b) \in 0..255
<1>1. CASE a \in Hex /\ b \in Hex
  <2>1. ReadHex(a, b) \in {16 * HexValue(a) + HexValue(b), HexValue(b),
                          (256 - HexValue(b)) % 256}
    BY <1>1 DEF ReadHex
  <2>2. HexValue(a) \in 0..15 /\ HexValue(b) \in 0..15
    BY HexValueRange, <1>1
  <2>3. (256 - HexValue(b)) % 256 \in 0..255
    BY <2>2
  <2>. QED
    BY <2>1, <2>2, <2>3
<1>2. CASE a \in Hex /\ b \notin Hex
  <2>1. ReadHex(a, b) \in {HexValue(a), NoNumber}
    <3>1. CASE Prefix(a, b)
      <4>1. a # "+" /\ a # "-"
        BY <3>1 DEF Prefix
      <4>. QED
        BY <1>2, <3>1, <4>1 DEF ReadHex
    <3>2. CASE ~Prefix(a, b)
      BY <1>2, <3>2 DEF ReadHex
    <3>. QED
      BY <3>1, <3>2
  <2>2. HexValue(a) \in 0..15
    BY HexValueRange, <1>2
  <2>. QED
    BY <2>1, <2>2
<1>3. CASE a \notin Hex /\ b \in Hex
  <2>1. ReadHex(a, b) \in {HexValue(b), (256 - HexValue(b)) % 256, NoNumber}
    BY <1>3 DEF ReadHex
  <2>2. HexValue(b) \in 0..15
    BY HexValueRange, <1>3
  <2>3. (256 - HexValue(b)) % 256 \in 0..255
    BY <2>2
  <2>. QED
    BY <2>1, <2>2, <2>3
<1>4. CASE a \notin Hex /\ b \notin Hex
  BY <1>4 DEF ReadHex
<1>. QED
  BY <1>1, <1>2, <1>3, <1>4

\* What url_decode makes of a uri, place by place from its end.
Before(c, rest) == [rest EXCEPT !.path = <<c>> \o @]
Unescaped(c) == IF c = "+" THEN " " ELSE c
Nothing == [ok |-> FALSE, path |-> <<>>]
DecodedAt(in, from, i) ==
    IF i > Len(in) THEN [ok |-> TRUE, path |-> <<>>]
    ELSE IF in[i] = "%"
    THEN IF LastEscape(i, Len(in)) /\ ReadHex(in[i + 1], in[i + 2]) # NoNumber
         THEN Before(Char(ReadHex(in[i + 1], in[i + 2])), from[i + 3])
         ELSE Nothing
    ELSE Before(Unescaped(in[i]), from[i + 1])

\* There is such a recursion, and it is url_decode.
LEMMA DecodingSolved ==
    ASSUME NEW in \in Seq(Bytes)
    PROVE  \E from :
              /\ UrlDecode(in) = from[1]
              /\ \A i \in 1..Len(in) + 1 :
                    from[i] = DecodedAt(in, from, i) /\ from[i] \in Decodings
<1> DEFINE n == Len(in)
           Body(f, i) == DecodedAt(in, f, i)
           Back(g) == [i \in 1..n + 1 |-> g[n + 1 - i]]
           G == [k \in 0..n |-> [g \in [0..n -> Decodings] |-> Body(Back(g), n + 1 - k)]]
           Solves(f) == f = [i \in 1..n + 1 |-> Body(f, i)]
<1>1. n \in Nat /\ \A i \in 1..n : in[i] \in Bytes
  OBVIOUS
<1>2. UrlDecode(in) = (CHOOSE f : Solves(f))[1]
  BY DEF UrlDecode, DecodedAt, Before, Unescaped, Nothing
<1>3. /\ \A c \in Bytes : Unescaped(c) \in Symbols
      /\ \A code \in 0..255 : Char(code) \in Symbols
      /\ Symbols # {}
  <2>1. \A c \in Bytes : Unescaped(c) \in Bytes
    BY Zenon DEF Bytes, TSpecial, Unescaped
  <2>. QED
    BY <2>1, ZenonT(40) DEF Symbols
<1>4. \A c \in Symbols, rest \in Decodings : Before(c, rest) \in Decodings
  <2>1. ASSUME NEW c \in Symbols, NEW path \in Seq(Symbols)
        PROVE  <<c>> \o path \in Seq(Symbols)
    OBVIOUS
  <2>. QED
    BY <2>1 DEF Decodings, Before
<1>5. Nothing \in Decodings /\ [ok |-> TRUE, path |-> <<>>] \in Decodings
  <2>1. <<>> \in Seq(Symbols)
    OBVIOUS
  <2>. QED
    BY <2>1 DEF Decodings, Nothing
<1>6. ASSUME NEW f, NEW i \in 1..n + 1,
             \A j \in i + 1..n + 1 : f[j] \in Decodings
      PROVE  Body(f, i) \in Decodings
  <2>1. CASE i > n
    BY <1>5, <2>1 DEF DecodedAt
  <2>2. CASE i <= n
    <3>1. Before(Unescaped(in[i]), f[i + 1]) \in Decodings
      <4>1. i \in 1..n /\ i + 1 \in i + 1..n + 1
        BY <1>1, <2>2
      <4>2. Unescaped(in[i]) \in Symbols
        BY <1>1, <1>3, <4>1
      <4>3. f[i + 1] \in Decodings
        BY <1>6, <4>1
      <4>. QED
        BY <1>4, <4>2, <4>3
    <3>2. ASSUME LastEscape(i, n), ReadHex(in[i + 1], in[i + 2]) # NoNumber
          PROVE  Before(Char(ReadHex(in[i + 1], in[i + 2])), f[i + 3]) \in Decodings
      <4>1. f[i + 3] \in Decodings
        BY <1>1, <1>6, <2>2, <3>2 DEF LastEscape
      <4>2. Char(ReadHex(in[i + 1], in[i + 2])) \in Symbols
        BY <1>3, <3>2, ReadHexRange
      <4>. QED
        BY <1>4, <4>1, <4>2
    <3>. QED
      BY <1>1, <1>5, <2>2, <3>1, <3>2 DEF DecodedAt
  <2>. QED
    BY <1>1, <2>1, <2>2
<1>7. ASSUME NEW f \in [1..n + 1 -> Decodings], NEW g \in [1..n + 1 -> Decodings],
             NEW i \in 1..n + 1, \A j \in i + 1..n + 1 : f[j] = g[j]
      PROVE  Body(f, i) = Body(g, i)
  <2>1. i <= n => f[i + 1] = g[i + 1]
    BY <1>1, <1>7
  <2>2. LastEscape(i, n) => f[i + 3] = g[i + 3]
    BY <1>1, <1>7 DEF LastEscape
  <2>. QED
    BY <1>1, <2>1, <2>2 DEF DecodedAt
<1> HIDE DEF Body, n
<1>8. \A g \in [0..n -> Decodings] : Back(g) \in [1..n + 1 -> Decodings]
  BY <1>1
<1>9. G \in [0..n -> [[0..n -> Decodings] -> Decodings]]
  <2>1. ASSUME NEW g \in [0..n -> Decodings], NEW k \in 0..n
        PROVE  Body(Back(g), n + 1 - k) \in Decodings
    <3>1. /\ n + 1 - k \in 1..n + 1
          /\ \A j \in n + 1 - k + 1..n + 1 : Back(g)[j] \in Decodings
      BY <1>1
    <3> HIDE DEF Back
    <3>. QED
      BY <1>6, <3>1
  <2> HIDE DEF Back
  <2>. QED
    BY <2>1
<1>10. ASSUME NEW k \in 0..n, NEW f \in [0..n -> Decodings], NEW g \in [0..n -> Decodings],
              \A j \in 0..k - 1 : f[j] = g[j]
       PROVE  G[k][f] = G[k][g]
  <2>1. n + 1 - k \in 1..n + 1
    BY <1>1
  <2>2. \A j \in n + 1 - k + 1..n + 1 : Back(f)[j] = Back(g)[j]
    BY <1>1, <1>10
  <2>3. Body(Back(f), n + 1 - k) = Body(Back(g), n + 1 - k)
    <3> HIDE DEF Back
    <3>. QED
      BY <1>7, <1>8, <2>1, <2>2
  <2> HIDE DEF Back
  <2>. QED
    BY <2>3
<1>11. PICK h \in [0..n -> Decodings] : \A k \in 0..n : h[k] = G[k][h]
  <2>1. Decodings # {}
    BY <1>5
  <2>2. n \in Nat /\ G \in Steps(n, Decodings) /\ LooksBack(G, n, Decodings)
    BY <1>1, <1>9, <1>10 DEF Steps, LooksBack
  <2> HIDE DEF G
  <2>. QED
    BY <2>1, <2>2, Recursion
<1>12. Solves(Back(h))
  <2>1. ASSUME NEW i \in 1..n + 1
        PROVE  Back(h)[i] = Body(Back(h), i)
    <3>1. n + 1 - i \in 0..n /\ n + 1 - (n + 1 - i) = i
      BY <1>1
    <3>2. Back(h)[i] = h[n + 1 - i]
      OBVIOUS
    <3>3. h[n + 1 - i] = Body(Back(h), n + 1 - (n + 1 - i))
      <4> HIDE DEF Back
      <4>. QED
        BY <1>11, <3>1
    <3>. QED
      BY <3>1, <3>2, <3>3
  <2>2. Back(h) = [i \in 1..n + 1 |-> Back(h)[i]]
    OBVIOUS
  <2> HIDE DEF Back
  <2>. QED
    BY <2>1, <2>2
<1> HIDE DEF Back, G
<1>13. Solves(CHOOSE f : Solves(f))
  BY <1>12
<1> DEFINE from == CHOOSE f : Solves(f)
<1>14. \A i \in 1..n + 1 : from[i] = Body(from, i)
  BY <1>13
<1> HIDE DEF from
<1> DEFINE T == {k \in 0..n : from[n + 1 - k] \notin Decodings}
<1>15. ASSUME T # {} PROVE FALSE
  <2>1. PICK m \in T : \A k \in T : m <= k
    <3>1. T \subseteq Nat
      BY <1>1
    <3> HIDE DEF T
    <3>. QED
      BY <1>15, <3>1, Least
  <2>2. n + 1 - m \in 1..n + 1 /\ from[n + 1 - m] \notin Decodings
    BY <1>1
  <2>3. ASSUME NEW j \in n + 1 - m + 1..n + 1
        PROVE  from[j] \in Decodings
    <3>1. n + 1 - j \in 0..n /\ ~(m <= n + 1 - j) /\ n + 1 - (n + 1 - j) = j
      BY <1>1
    <3>2. n + 1 - j \notin T
      BY <2>1, <3>1
    <3>. QED
      BY <3>1, <3>2
  <2>. QED
    BY <1>6, <1>14, <2>2, <2>3
<1>16. \A i \in 1..n + 1 : from[i] \in Decodings
  <2>1. \A i \in 1..n + 1 : n + 1 - i \in 0..n /\ n + 1 - (n + 1 - i) = i
    BY <1>1
  <2>. QED
    BY <1>15, <2>1
<1>17. UrlDecode(in) = from[1]
  BY <1>2 DEF from
<1>. QED
  BY <1>14, <1>16, <1>17 DEF Body, n

\* What comes out is a decoding.
LEMMA DecodingTyped ==
    ASSUME NEW in \in Seq(Bytes)
    PROVE  UrlDecode(in) \in Decodings
<1>1. 1 \in 1..Len(in) + 1
  OBVIOUS
<1>. QED
  BY <1>1, DecodingSolved

\* A list begins with a lesser number.
LEMMA ListsLess ==
    ASSUME NEW P, NEW o, Lists(o, P), NEW m \in Nat, \A x \in P : m < x
    PROVE  Lists(<< m >> \o o, P \cup {m})
<1> DEFINE n == Len(o)
           q == << m >> \o o
<1>1. /\ n \in Nat /\ o \in Seq(Nat)
      /\ \A i \in 1..n : o[i] \in P
      /\ \A i, j \in 1..n : i < j => o[i] < o[j]
      /\ P = {o[i] : i \in 1..n}
  BY DEF Lists
<1>2. /\ q \in Seq(Nat) /\ Len(q) = n + 1 /\ q[1] = m
      /\ \A i \in 2..n + 1 : q[i] = o[i - 1]
  BY <1>1
<1> HIDE DEF q, n
<1>3. \A i \in 1..n + 1 : i = 1 \/ (i \in 2..n + 1 /\ i - 1 \in 1..n)
  BY <1>1
<1>4. ASSUME NEW i \in 1..n + 1, NEW j \in 1..n + 1, i < j PROVE q[i] < q[j]
  <2>1. j \in 2..n + 1 /\ j - 1 \in 1..n
    BY <1>1, <1>4
  <2>2. CASE i = 1
    BY <1>1, <1>2, <2>1, <2>2
  <2>3. CASE i \in 2..n + 1 /\ i - 1 \in 1..n
    <3>1. i - 1 < j - 1
      BY <1>1, <1>4
    <3>. QED
      BY <1>1, <1>2, <2>1, <2>3, <3>1
  <2>. QED
    BY <1>3, <2>2, <2>3
<1>5. P \cup {m} = {q[i] : i \in 1..n + 1}
  <2>1. 1 \in 1..n + 1
    BY <1>1
  <2>2. ASSUME NEW x \in P PROVE \E i \in 1..n + 1 : q[i] = x
    <3>1. PICK k \in 1..n : o[k] = x
      BY <1>1
    <3>2. k + 1 \in 1..n + 1 /\ k + 1 \in 2..n + 1 /\ k + 1 - 1 = k
      BY <1>1
    <3>3. q[k + 1] = o[k + 1 - 1]
      BY <1>2, <3>2
    <3>. QED
      BY <3>1, <3>2, <3>3
  <2>3. ASSUME NEW i \in 1..n + 1 PROVE q[i] \in P \cup {m}
    BY <1>1, <1>2, <1>3
  <2>. QED
    BY <1>2, <2>1, <2>2, <2>3
<1>. QED
  BY <1>2, <1>4, <1>5 DEF Lists, q

\* What is listed, mapped.
Mapped(f, o) == [k \in 1..Len(o) |-> f[o[k]]]
\* The same with one more in front.
LEMMA MappedLess ==
    ASSUME NEW o \in Seq(Nat), NEW m \in Nat, NEW f
    PROVE  << f[m] >> \o Mapped(f, o) = Mapped(f, << m >> \o o)
<1> DEFINE n == Len(o)
           q == << m >> \o o
           g == [k \in 1..n |-> f[o[k]]]
           S == {f[i] : i \in Nat}
<1>1. n \in Nat /\ Len(q) = n + 1 /\ q[1] = m /\ \A k \in 2..n + 1 : q[k] = o[k - 1]
  OBVIOUS
<1>2. g \in Seq(S) /\ Len(g) = n /\ f[m] \in S
  <2>1. \A k \in 1..n : o[k] \in Nat
    OBVIOUS
  <2>2. g \in [1..n -> S] /\ f[m] \in S
    BY <2>1
  <2> HIDE DEF g, S, n, q
  <2>. QED
    BY <1>1, <2>2, FunctionIsSeq
<1>3. \A k \in 1..n : g[k] = f[o[k]]
  OBVIOUS
<1> HIDE DEF q, g, S, n
<1>4. << f[m] >> \o g = [k \in 1..n + 1 |-> IF k = 1 THEN f[m] ELSE g[k - 1]]
  <2>1. /\ << f[m] >> \o g \in Seq(S) /\ Len(<< f[m] >> \o g) = n + 1
        /\ (<< f[m] >> \o g)[1] = f[m]
        /\ \A k \in 2..n + 1 : (<< f[m] >> \o g)[k] = g[k - 1]
    BY <1>1, <1>2
  <2>. QED
    BY <1>1, <2>1
<1>5. \A k \in 1..n + 1 : (IF k = 1 THEN f[m] ELSE g[k - 1]) = f[q[k]]
  <2>1. \A k \in 1..n + 1 : k = 1 \/ (k \in 2..n + 1 /\ k - 1 \in 1..n)
    BY <1>1
  <2>. QED
    BY <1>1, <1>3, <2>1
<1>6. << f[m] >> \o g = [k \in 1..n + 1 |-> f[q[k]]]
  BY <1>4, <1>5
<1>. QED
  BY <1>1, <1>6 DEF g, q, n, Mapped

\* The digits of the escapes of a uri.
DigitPlaces(uri) == {i \in Nat : \E p \in DOMAIN uri : uri[p] = "%" /\ i \in {p + 1, p + 2}}

\* What a uri says at a place: an escape the character of its digits.
Escaped(a, b) == Char(16 * HexValue(a) + HexValue(b))
SaidAt(uri) ==
    [i \in Nat |-> IF uri[i] = "%" THEN Escaped(uri[i + 1], uri[i + 2])
                   ELSE IF uri[i] = "+" THEN " " ELSE uri[i]]

\* The percent sign is no hexadecimal digit, and two of them are a number.
LEMMA HexNumbers ==
    /\ "%" \notin Hex
    /\ \A a, b \in Hex : ReadHex(a, b) = 16 * HexValue(a) + HexValue(b)
                         /\ ReadHex(a, b) # NoNumber
<1>1. {"%", "+", "-"} \cap Hex = {}
  <2> DEFINE upper == <<"A", "B", "C", "D", "E", "F">>
             lower == <<"a", "b", "c", "d", "e", "f">>
             S == {"0", "1", "2", "3", "4", "5", "6", "7", "8", "9",
                   "A", "B", "C", "D", "E", "F", "a", "b", "c", "d", "e", "f"}
  <2>1. Digits \in Seq(S) /\ upper \in Seq(S) /\ lower \in Seq(S)
    BY DEF Digits
  <2>2. Len(Digits) = 10 /\ Len(upper) = 6 /\ Len(lower) = 6
    BY DEF Digits
  <2>3. {"%", "+", "-"} \cap S = {}
    OBVIOUS
  <2> HIDE DEF upper, lower, S
  <2>4. UpperDigits = Digits \o upper /\ LowerDigits = Digits \o lower
    BY DEF UpperDigits, LowerDigits, upper, lower
  <2>5. ASSUME NEW T, NEW p \in Seq(T), NEW q \in Seq(T), Len(p) = 10, Len(q) = 6,
               NEW i \in 1..16
        PROVE  (p \o q)[i] \in T
    <3>1. p \o q \in Seq(T) /\ Len(p \o q) = Len(p) + Len(q)
      OBVIOUS
    <3>2. i \in 1..Len(p \o q)
      BY <2>5, <3>1
    <3>. QED
      BY <3>1, <3>2
  <2>6. \A i \in 1..16 : UpperDigits[i] \in S /\ LowerDigits[i] \in S
    BY <2>1, <2>2, <2>4, <2>5
  <2>. QED
    BY <2>3, <2>6, Zenon DEF Hex
<1>2. ASSUME NEW a \in Hex, NEW b \in Hex
      PROVE  ReadHex(a, b) = 16 * HexValue(a) + HexValue(b) /\ ReadHex(a, b) # NoNumber
  <2>1. ReadHex(a, b) = 16 * HexValue(a) + HexValue(b)
    BY <1>1 DEF ReadHex
  <2>. QED
    BY <2>1, HexValueRange DEF NoNumber
<1>. QED
  BY <1>1, <1>2

\* A character in front of a path.
LEMMA BeforeIs ==
    ASSUME NEW b, NEW c, NEW path
    PROVE  Before(c, [ok |-> b, path |-> path]) = [ok |-> b, path |-> << c >> \o path]
<1>1. ASSUME NEW r, NEW t, r = [ok |-> b, path |-> path]
      PROVE  r.path = path /\ [r EXCEPT !.path = t] = [ok |-> b, path |-> t]
  BY <1>1
<1>. QED
  BY <1>1 DEF Before

\* A well encoded uri is decoded to what it says outside of the digits.
LEMMA DecodesWell ==
    ASSUME NEW in \in Seq(Bytes), WellEncoded(in, Hex)
    PROVE  \E o : /\ Lists(o, DOMAIN in \ DigitPlaces(in))
                  /\ UrlDecode(in) = [ok |-> TRUE,
                                      path |-> Mapped(SaidAt(in), o)]
<1> DEFINE n == Len(in)
           D == DigitPlaces(in)
           f == SaidAt(in)
           Rest(i) == {j \in i..n : j \notin D}
           Told(i, r) == \E o : /\ Lists(o, Rest(i))
                                /\ r = [ok |-> TRUE, path |-> Mapped(f, o)]
<1>1. n \in Nat /\ DOMAIN in = 1..n /\ \A i \in 1..n : in[i] \in Bytes
  OBVIOUS
<1>2. PICK from : /\ UrlDecode(in) = from[1]
                  /\ \A i \in 1..n + 1 : from[i] = DecodedAt(in, from, i)
  BY DecodingSolved
<1>3. \A p \in 1..n : in[p] = "%" => p + 2 <= n /\ in[p + 1] \in Hex /\ in[p + 2] \in Hex
  BY <1>1 DEF WellEncoded
<1>4. \A i \in Nat : i \in D <=> \E p \in 1..n : in[p] = "%" /\ (i = p + 1 \/ i = p + 2)
  BY <1>1 DEF DigitPlaces
<1>5. \A i \in 1..n : f[i] = IF in[i] = "%" THEN Escaped(in[i + 1], in[i + 2])
                             ELSE IF in[i] = "+" THEN " " ELSE in[i]
  <2>1. \A i \in 1..n : i \in Nat
    BY <1>1
  <2>. QED
    BY <2>1 DEF SaidAt
<1>6. \A i \in 1..n : from[i] = IF in[i] = "%"
          THEN IF LastEscape(i, n) /\ ReadHex(in[i + 1], in[i + 2]) # NoNumber
               THEN Before(Char(ReadHex(in[i + 1], in[i + 2])), from[i + 3]) ELSE Nothing
          ELSE Before(Unescaped(in[i]), from[i + 1])
  <2>1. \A i \in 1..n : i \in 1..n + 1 /\ ~(i > n)
    BY <1>1
  <2>. QED
    BY <1>2, <2>1 DEF DecodedAt
<1>7. from[n + 1] = [ok |-> TRUE, path |-> << >>]
  <2>1. n + 1 \in 1..n + 1 /\ n + 1 > n
    BY <1>1
  <2>. QED
    BY <1>2, <2>1 DEF DecodedAt
<1> HIDE DEF n, D, f
<1>8. n + 1 \notin D /\ 1 \notin D
  <2>1. n + 1 \in Nat /\ 1 \in Nat
    BY <1>1
  <2>2. \A p \in 1..n : in[p] = "%" => n + 1 # p + 1 /\ n + 1 # p + 2
    BY <1>1, <1>3
  <2>3. \A p \in 1..n : 1 # p + 1 /\ 1 # p + 2
    BY <1>1
  <2>. QED
    BY <1>4, <2>1, <2>2, <2>3
<1>9. ASSUME NEW i \in 1..n, NEW j \in i + 1..n + 1, Rest(i) = Rest(j) \cup {i},
             Told(j, from[j]), from[i] = Before(f[i], from[j])
      PROVE  Told(i, from[i])
  <2>1. PICK o : /\ Lists(o, Rest(j))
                 /\ from[j] = [ok |-> TRUE, path |-> Mapped(f, o)]
    BY <1>9
  <2>2. i \in Nat /\ \A x \in Rest(j) : i < x
    BY <1>1
  <2>3. o \in Seq(Nat)
    BY <2>1 DEF Lists
  <2> HIDE DEF Rest
  <2>4. Lists(<< i >> \o o, Rest(i))
    <3>1. Lists(<< i >> \o o, Rest(j) \cup {i})
      BY <2>1, <2>2, ListsLess, Zenon
    <3>. QED
      BY <1>9, <3>1, Zenon
  <2>5. from[i] = [ok |-> TRUE, path |-> << f[i] >> \o Mapped(f, o)]
    <3>1. PICK b : b = TRUE
      OBVIOUS
    <3>2. from[j] = [ok |-> b, path |-> Mapped(f, o)]
      BY <2>1, <3>1
    <3>3. Before(f[i], [ok |-> b, path |-> Mapped(f, o)])
              = [ok |-> b, path |-> << f[i] >> \o Mapped(f, o)]
      BY BeforeIs, Zenon
    <3>4. from[i] = [ok |-> b, path |-> << f[i] >> \o Mapped(f, o)]
      BY <1>9, <3>2, <3>3, Zenon
    <3>. QED
      BY <3>1, <3>4
  <2>6. << f[i] >> \o Mapped(f, o)
            = Mapped(f, << i >> \o o)
    BY <2>2, <2>3, MappedLess, Zenon
  <2>. QED
    BY <2>4, <2>5, <2>6
<1>10. ASSUME NEW i \in 1..n, i \notin D
       PROVE  \E j \in i + 1..n + 1 :
                 j \notin D /\ Rest(i) = Rest(j) \cup {i} /\ from[i] = Before(f[i], from[j])
  <2>1. CASE in[i] # "%"
    <3>1. i + 1 \in i + 1..n + 1 /\ i \in Nat /\ i + 1 \in Nat
      BY <1>1
    <3>2. i + 1 \notin D
      <4>1. ASSUME NEW p \in 1..n, in[p] = "%", i + 1 = p + 1 \/ i + 1 = p + 2 PROVE FALSE
        <5>1. p # i /\ p \in Int /\ i \in Int
          BY <2>1, <4>1
        <5>2. i = p + 1
          BY <4>1, <5>1
        <5>. QED
          BY <1>4, <1>10, <3>1, <4>1, <5>2
      <4>. QED
        BY <1>4, <3>1, <4>1
    <3>3. Rest(i) = Rest(i + 1) \cup {i}
      <4>1. \A j \in i..n : j = i \/ j \in i + 1..n
        BY <1>1
      <4>2. \A j \in i + 1..n : j \in i..n
        BY <1>1
      <4>3. i \in i..n
        BY <1>1
      <4>. QED
        BY <1>10, <4>1, <4>2, <4>3
    <3>4. from[i] = Before(f[i], from[i + 1])
      <4>1. f[i] = Unescaped(in[i])
        BY <1>5, <2>1 DEF Unescaped
      <4>. QED
        BY <1>6, <2>1, <4>1
    <3>. QED
      BY <3>1, <3>2, <3>3, <3>4
  <2>2. CASE in[i] = "%"
    <3>1. /\ i + 2 <= n /\ in[i + 1] \in Hex /\ in[i + 2] \in Hex
          /\ in[i + 1] # "%" /\ in[i + 2] # "%"
      BY <1>3, <2>2, HexNumbers
    <3>2. /\ i + 3 \in i + 1..n + 1 /\ i \in Nat /\ i + 3 \in Nat
          /\ i + 1 \in Nat /\ i + 2 \in Nat
      BY <1>1, <3>1
    <3>3. i + 3 \notin D
      <4>1. ASSUME NEW p \in 1..n, in[p] = "%", i + 3 = p + 1 \/ i + 3 = p + 2 PROVE FALSE
        <5>1. p = i + 2 \/ p = i + 1
          BY <3>2, <4>1
        <5>. QED
          BY <3>1, <4>1, <5>1
      <4>. QED
        BY <1>4, <3>2, <4>1
    <3>4. Rest(i) = Rest(i + 3) \cup {i}
      <4>1. \A j \in i..n : j = i \/ j = i + 1 \/ j = i + 2 \/ j \in i + 3..n
        BY <1>1
      <4>2. \A j \in i + 3..n : j \in i..n
        BY <1>1
      <4>3. i \in i..n
        BY <1>1
      <4>4. i + 1 \in D /\ i + 2 \in D
        BY <1>4, <2>2, <3>2
      <4>. QED
        BY <1>10, <4>1, <4>2, <4>3, <4>4
    <3>5. from[i] = Before(f[i], from[i + 3])
      <4>1. f[i] = Char(ReadHex(in[i + 1], in[i + 2]))
            /\ ReadHex(in[i + 1], in[i + 2]) # NoNumber
        BY <1>5, <2>2, <3>1, HexNumbers DEF Escaped
      <4>2. LastEscape(i, n)
        BY <3>1 DEF LastEscape
      <4>. QED
        BY <1>6, <2>2, <4>1, <4>2
    <3>. QED
      BY <3>2, <3>3, <3>4, <3>5
  <2>. QED
    BY <2>1, <2>2
<1>11. Told(n + 1, from[n + 1])
  <2>1. Lists(<< >>, {}) /\ Len(<< >>) = 0
    BY DEF Lists
  <2>2. Rest(n + 1) = {}
    BY <1>1
  <2>3. Mapped(f, << >>) = << >>
    BY <2>1 DEF Mapped
  <2>. QED
    BY <1>7, <2>1, <2>2, <2>3
<1> HIDE DEF Rest, Told
<1> DEFINE T == {k \in 0..n : n + 1 - k \notin D /\ ~Told(n + 1 - k, from[n + 1 - k])}
<1>12. ASSUME T # {} PROVE FALSE
  <2>1. PICK m \in T : \A k \in T : m <= k
    <3>1. T \subseteq Nat
      BY <1>1
    <3> HIDE DEF T
    <3>. QED
      BY <1>12, <3>1, Least
  <2> DEFINE i == n + 1 - m
  <2>2. i \in 1..n + 1 /\ m \in 0..n /\ i \notin D /\ ~Told(i, from[i])
    BY <1>1
  <2>3. i \in 1..n
    BY <1>1, <1>11, <2>2
  <2> HIDE DEF i
  <2>4. PICK j \in i + 1..n + 1 :
           j \notin D /\ Rest(i) = Rest(j) \cup {i} /\ from[i] = Before(f[i], from[j])
    BY <1>10, <2>2, <2>3
  <2>5. ~Told(j, from[j])
    BY <1>9, <2>2, <2>3, <2>4
  <2>6. n + 1 - j \in 0..n /\ n + 1 - (n + 1 - j) = j /\ ~(m <= n + 1 - j)
    BY <1>1, <2>2, <2>3 DEF i
  <2>7. n + 1 - j \in T
    BY <2>4, <2>5, <2>6
  <2>. QED
    BY <2>1, <2>6, <2>7
<1>13. Told(1, from[1])
  <2>1. n \in 0..n /\ n + 1 - n = 1
    BY <1>1
  <2>. QED
    BY <1>8, <1>12, <2>1
<1>14. Rest(1) = DOMAIN in \ D
  BY <1>1 DEF Rest
<1>. QED
  BY <1>2, <1>13, <1>14 DEF Told, D, f

\* So it is decoded to what it encodes.
LEMMA WellDecoded ==
    ASSUME NEW in \in Seq(Bytes), WellEncoded(in, Hex)
    PROVE  UrlDecode(in) = [ok |-> TRUE, path |-> Encoded(in, Escaped)]
<1> DEFINE digits == UNION {{i + 1, i + 2} : i \in {j \in DOMAIN in : in[j] = "%"}}
           kept == Ascending(DOMAIN in \ digits)
<1>1. digits = DigitPlaces(in)
  BY DEF DigitPlaces
<1>2. PICK o : /\ Lists(o, DOMAIN in \ DigitPlaces(in))
               /\ UrlDecode(in) = [ok |-> TRUE,
                                   path |-> Mapped(SaidAt(in), o)]
  BY DecodesWell
<1>3. kept = o
  BY <1>1, <1>2, AscendingLists
<1>4. o \in Seq(Nat)
  BY <1>2 DEF Lists
<1>5. Encoded(in, Escaped) = Mapped(SaidAt(in), o)
  <2>1. Encoded(in, Escaped) =
           [k \in DOMAIN kept |-> IF in[kept[k]] = "%" THEN Escaped(in[kept[k] + 1], in[kept[k] + 2])
                                  ELSE IF in[kept[k]] = "+" THEN " " ELSE in[kept[k]]]
    BY DEF Encoded
  <2> HIDE DEF kept
  <2>2. DOMAIN kept = 1..Len(o) /\ \A k \in 1..Len(o) : o[k] \in Nat
    BY <1>3, <1>4
  <2>. QED
    BY <1>3, <2>1, <2>2 DEF SaidAt, Mapped
<1>. QED
  BY <1>2, <1>5

\* A uri that ends inside an escape is not decoded.
LEMMA CutFails ==
    ASSUME NEW in \in Seq(Bytes), CutEscape(in)
    PROVE  UrlDecode(in).ok = FALSE
<1> DEFINE n == Len(in)
<1>1. n \in Nat /\ DOMAIN in = 1..n
  OBVIOUS
<1>2. PICK i \in 1..n : /\ in[i] = "%" /\ i > n - 2
                        /\ \A j \in 1..n : j = i - 2 \/ j = i - 1 => in[j] # "%"
  BY <1>1 DEF CutEscape
<1>3. PICK from : /\ UrlDecode(in) = from[1]
                  /\ \A k \in 1..n + 1 : from[k] = DecodedAt(in, from, k)
                                         /\ from[k] \in Decodings
  BY DecodingSolved
<1>4. \A k \in 1..n : from[k] = IF in[k] = "%"
          THEN IF LastEscape(k, n) /\ ReadHex(in[k + 1], in[k + 2]) # NoNumber
               THEN Before(Char(ReadHex(in[k + 1], in[k + 2])), from[k + 3]) ELSE Nothing
          ELSE Before(Unescaped(in[k]), from[k + 1])
  <2>1. \A k \in 1..n : k \in 1..n + 1 /\ ~(k > n)
    BY <1>1
  <2>. QED
    BY <1>3, <2>1 DEF DecodedAt
<1>5. \A c : \A r \in Decodings : Before(c, r).ok = r.ok
  BY DEF Decodings, Before
<1>6. Nothing.ok = FALSE
  BY DEF Nothing
<1> HIDE DEF n
<1>7. ASSUME NEW k \in 1..i, \A j \in k + 1..i : from[j].ok = FALSE
      PROVE  from[k].ok = FALSE
  <2>1. k \in 1..n /\ k \in Nat /\ i \in Nat
    BY <1>1
  <2>2. CASE in[k] # "%"
    <3>1. k # i
      BY <1>2, <2>2
    <3>2. k + 1 \in k + 1..i /\ k + 1 \in 1..n + 1
      BY <1>1, <2>1, <3>1
    <3>3. from[k] = Before(Unescaped(in[k]), from[k + 1])
      BY <1>4, <2>1, <2>2
    <3>. QED
      BY <1>3, <1>5, <1>7, <3>2, <3>3
  <2>3. CASE in[k] = "%" /\ ~LastEscape(k, n)
    <3>1. from[k] = Nothing
      BY <1>4, <2>1, <2>3
    <3>. QED
      BY <1>6, <3>1
  <2>4. CASE in[k] = "%" /\ LastEscape(k, n) /\ ReadHex(in[k + 1], in[k + 2]) = NoNumber
    <3>1. from[k] = Nothing
      BY <1>4, <2>1, <2>4
    <3>. QED
      BY <1>6, <3>1
  <2>5. CASE in[k] = "%" /\ LastEscape(k, n) /\ ReadHex(in[k + 1], in[k + 2]) # NoNumber
    <3>1. k + 2 <= n /\ k # i - 1 /\ k # i - 2
      BY <1>2, <2>1, <2>5 DEF LastEscape
    <3>2. k + 3 \in k + 1..i /\ k + 3 \in 1..n + 1
      BY <1>1, <1>2, <2>1, <3>1
    <3>3. from[k] = Before(Char(ReadHex(in[k + 1], in[k + 2])), from[k + 3])
      BY <1>4, <2>1, <2>5
    <3>. QED
      BY <1>3, <1>5, <1>7, <3>2, <3>3
  <2>. QED
    BY <2>2, <2>3, <2>4, <2>5
<1> DEFINE Failed(k) == from[k].ok = FALSE
           T == {m \in 0..i - 1 : ~Failed(i - m)}
<1> HIDE DEF Failed
<1>8. ASSUME T # {} PROVE FALSE
  <2>1. PICK m \in T : \A x \in T : m <= x
    <3>1. T \subseteq Nat
      BY <1>1
    <3> HIDE DEF T
    <3>. QED
      BY <1>8, <3>1, Least
  <2>2. m \in 0..i - 1 /\ i - m \in 1..i /\ ~Failed(i - m)
    BY <1>1
  <2>3. ASSUME NEW j \in i - m + 1..i PROVE Failed(j)
    <3>1. i - j \in 0..i - 1 /\ ~(m <= i - j) /\ i - (i - j) = j
      BY <1>1, <2>2
    <3>2. i - j \notin T
      BY <2>1, <3>1
    <3>. QED
      BY <3>1, <3>2
  <2>. QED
    BY <1>7, <2>2, <2>3 DEF Failed
<1>9. i - 1 \in 0..i - 1 /\ i - (i - 1) = 1
  BY <1>1
<1>10. from[1].ok = FALSE
  BY <1>8, <1>9 DEF Failed
<1>. QED
  BY <1>3, <1>10

\* Nor is there a path to go on with.
LEMMA CutRefused ==
    ASSUME NEW in \in Seq(Bytes), CutEscape(in)
    PROVE  RequestPath(in) = << >>
<1>1. UrlDecode(in).ok = FALSE
  BY CutFails
<1>2. Requested(UrlDecode(in)) = << >>
  BY <1>1 DEF Requested
<1>3. {Requested(decoded) : decoded \in {UrlDecode(in)}} = {<< >>}
  BY <1>2
<1>. QED
  BY <1>3 DEF RequestPath

\* The parts of a path.
Absolute(path) == path[1] = "/" /\ ~HasDotDot(path)

\* The last byte of a path that is a directory is behind its first.
LEMMA RequestedAbsolute ==
    ASSUME NEW path \in Seq(Symbols), path # <<>>, path[1] = "/", ~HasDotDot(path),
           Last(path) = "/"
    PROVE  /\ path \o <<"index", ".", "html">> \in Seq(Symbols) \ {<<>>}
           /\ Absolute(path \o <<"index", ".", "html">>)
<1> DEFINE more == <<"index", ".", "html">>
           whole == path \o more
           n == Len(path)
<1>1. more \in Seq(Symbols)
  BY DEF Symbols
<1>2. whole \in Seq(Symbols) /\ Len(whole) = n + 3 /\ n \in Nat \ {0}
  BY <1>1
<1>3. /\ \A i \in 1..n : whole[i] = path[i]
      /\ whole[n + 1] = "index" /\ whole[n + 2] = "." /\ whole[n + 3] = "html"
  BY <1>1
<1>4. path[n] = "/"
  BY <1>2 DEF Last
<1>. QED
  BY <1>2, <1>3, <1>4 DEF HasDotDot, Absolute

(* A request is refused or asks for an absolute path without a step upwards,  *)
(* whatever its uri says and encodes (RequestHandler.cpp:14-37, 261-298).     *)
THEOREM PathAbsolute ==
    ASSUME NEW uri \in Seq(Bytes)
    PROVE  /\ RequestPath(uri) \in Seq(Symbols)
           /\ RequestPath(uri) # <<>> => Absolute(RequestPath(uri))
<1> DEFINE d == UrlDecode(uri)
<1>1. RequestPath(uri) = Requested(d)
  BY DEF RequestPath
<1>2. d.path \in Seq(Symbols)
  BY DecodingTyped DEF Decodings
<1>3. <<>> \in Seq(Symbols)
  OBVIOUS
<1> HIDE DEF d
<1>4. CASE ~d.ok \/ d.path = <<>> \/ d.path[1] # "/" \/ HasDotDot(d.path)
  BY <1>1, <1>3, <1>4 DEF Requested
<1>5. CASE ~(~d.ok \/ d.path = <<>> \/ d.path[1] # "/" \/ HasDotDot(d.path))
  BY <1>1, <1>2, <1>5, RequestedAbsolute DEF Requested, Absolute
<1>. QED
  BY <1>4, <1>5

-----------------------------------------------------------------------------
(* Files and endpoints *)

\* A name is a file of JSON whatever the case of the directories before it.
LEMMA ExtensionOfFile ==
    ASSUME NEW path \in Seq(Symbols)
    PROVE  Extension(FileOf(path)) = <<"json">> <=> Extension(path) = <<"json">>
<1> DEFINE n == Len(path)
           file == FileOf(path)
           slashes(p) == {i \in 1..Len(p) : p[i] = "/"}
           dots(p) == {i \in 1..Len(p) : p[i] = "."}
           slash(p) == IF slashes(p) # {} THEN Max(slashes(p)) ELSE 0
           dot(p) == IF dots(p) # {} THEN Max(dots(p)) ELSE 0
<1>1. n \in Nat /\ DOMAIN path = 1..n
  OBVIOUS
<1>2. /\ file \in Seq(Symbols \cup {"api"}) /\ Len(file) = n
      /\ \A i \in 1..n : file[i] = IF path[i] = "API" THEN "api" ELSE path[i]
  <2>1. file = [i \in 1..n |-> IF path[i] = "API" THEN "api" ELSE path[i]]
    BY <1>1 DEF FileOf
  <2> HIDE DEF file, n
  <2>2. file \in [1..n -> Symbols \cup {"api"}]
    BY <1>1, <2>1
  <2>. QED
    BY <1>1, <2>1, <2>2
<1> HIDE DEF file
<1>3. slashes(file) = slashes(path) /\ dots(file) = dots(path)
  BY <1>2
<1>4. dot(path) \in 0..n
  <2>1. ASSUME dots(path) # {} PROVE Max(dots(path)) \in dots(path)
    <3>1. dots(path) \subseteq 0..n
      BY <1>1
    <3> HIDE DEF dots, n
    <3>. QED
      BY <1>1, <2>1, <3>1, MaxIsGreatest
  <2>. QED
    BY <1>1, <2>1
<1>5. \A p : Extension(p) = IF dot(p) > slash(p) THEN SubSeq(p, dot(p) + 1, Len(p)) ELSE <<>>
  BY DEF Extension, SelectLastInSeq
<1>6. dot(file) = dot(path) /\ slash(file) = slash(path)
  BY <1>3
<1> HIDE DEF dot, slash
<1>7. CASE dot(path) > slash(path) /\ dot(path) # n
  <2>1. dot(path) + 1 \in 1..n
    BY <1>1, <1>4, <1>7
  <2>2. ASSUME NEW S, NEW p \in Seq(S), Len(p) = n
        PROVE  SubSeq(p, dot(path) + 1, n) = <<"json">>
                 <=> dot(path) + 1 = n /\ p[dot(path) + 1] = "json"
    BY <2>1, <2>2, LastOnly
  <2>3. file[dot(path) + 1] = "json" <=> path[dot(path) + 1] = "json"
    BY <1>2, <2>1
  <2>4. Extension(path) = SubSeq(path, dot(path) + 1, n)
    BY <1>5, <1>7
  <2>5. Extension(file) = SubSeq(file, dot(path) + 1, n)
    BY <1>2, <1>5, <1>6, <1>7
  <2>6. /\ Extension(path) = <<"json">> <=> dot(path) + 1 = n /\ path[dot(path) + 1] = "json"
        /\ Extension(file) = <<"json">> <=> dot(path) + 1 = n /\ file[dot(path) + 1] = "json"
    BY <1>2, <2>2, <2>4, <2>5
  <2>. QED
    BY <2>3, <2>6 DEF file
<1>8. CASE dot(path) > slash(path) /\ dot(path) = n
  <2>1. \A p : SubSeq(p, n + 1, n) = <<>>
    BY <1>1, SubSeqEmpty
  <2>. QED
    BY <1>2, <1>5, <1>6, <1>8, <2>1 DEF file
<1>9. CASE ~(dot(path) > slash(path))
  BY <1>5, <1>6, <1>9 DEF file
<1>. QED
  BY <1>7, <1>8, <1>9

\* What an endpoint that answers through a file has it called.
LEMMA WriterRoute ==
    ASSUME NEW path \in Seq(Symbols), Route(path) \in Writers
    PROVE  /\ path \in {Endpoint[e] : e \in Writers}
           /\ FileOf(path) = path
           /\ Extension(path) = <<"json">>
<1>1. path \in {Endpoint[e] : e \in Writers}
  BY DEF Route, Writers
<1>2. PICK dir, name : dir # "API" /\ name # "API" /\ dir \notin {"/", "."}
                       /\ name \notin {"/", "."} /\ path = Api(dir, name)
  <2>1. \A e \in Writers : \E dir, name :
           dir # "API" /\ name # "API" /\ dir \notin {"/", "."}
           /\ name \notin {"/", "."} /\ Endpoint[e] = Api(dir, name)
    BY DEF Writers, Endpoint
  <2>. QED
    BY <1>1, <2>1
<1>3. path = <<"/", "api", "/", dir, "/", name, ".", "json">>
  BY <1>2 DEF Api
<1>4. /\ DOMAIN path = 1..8 /\ Len(path) = 8
      /\ path[1] = "/" /\ path[2] = "api" /\ path[3] = "/" /\ path[4] = dir
      /\ path[5] = "/" /\ path[6] = name /\ path[7] = "." /\ path[8] = "json"
  BY <1>3
<1>5. FileOf(path) = path
  <2>1. \A i \in DOMAIN path : path[i] # "API"
    BY <1>2, <1>4
  <2>2. path = [i \in DOMAIN path |-> path[i]]
    OBVIOUS
  <2>. QED
    BY <2>1, <2>2 DEF FileOf
<1>6. Extension(path) = <<"json">>
  <2> DEFINE slashes == {i \in 1..Len(path) : path[i] = "/"}
             dots == {i \in 1..Len(path) : path[i] = "."}
  <2>1. dots = {7} /\ slashes = {1, 3, 5}
    BY <1>2, <1>4
  <2>2. Max(dots) = 7
    BY <2>1 DEF Max
  <2>3. Max(slashes) \in slashes
    <3>1. slashes \subseteq 0..8 /\ slashes # {} /\ 8 \in Nat
      BY <2>1
    <3> HIDE DEF slashes
    <3>. QED
      BY <3>1, MaxIsGreatest
  <2>4. Extension(path) = IF (IF dots # {} THEN Max(dots) ELSE 0)
                              > (IF slashes # {} THEN Max(slashes) ELSE 0)
                          THEN SubSeq(path, (IF dots # {} THEN Max(dots) ELSE 0) + 1,
                                      Len(path))
                          ELSE <<>>
    BY DEF Extension, SelectLastInSeq
  <2> HIDE DEF dots, slashes
  <2>5. Extension(path) = SubSeq(path, 8, 8)
    BY <1>4, <2>1, <2>2, <2>3, <2>4
  <2>6. 8 \in 1..Len(path) /\ Len(path) = 8
    BY <1>4
  <2>7. SubSeq(path, 8, Len(path)) = <<"json">>
    <3>1. \A x : \A i \in 1..Len(path) :
             SubSeq(path, i, Len(path)) = <<x>> <=> i = Len(path) /\ path[i] = x
      BY LastOnly
    <3>. QED
      BY <1>4, <2>6, <3>1
  <2>. QED
    BY <2>5, <2>6, <2>7
<1>. QED
  BY <1>1, <1>5, <1>6
===============================================================================
