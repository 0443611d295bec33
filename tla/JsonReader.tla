------------------------------- MODULE JsonReader ------------------------------
(***************************************************************************)
(* Json::Reader (Data/JSON/json_reader.cpp): tokens, values and the         *)
(* decoding of numbers and strings.  A document is a sequence of symbols;   *)
(* a word stands for a run of letters.  Numbers have no exponent and at     *)
(* most one decimal.  Comments are skipped; that they are kept with the     *)
(* values for a writer is left out.                                         *)
(***************************************************************************)
EXTENDS JsonValue, SequencesExt

Spaces == {" ", "HT", "CR", "LF"}
Quote == "\""
Backslash == "\\"

DecimalDigits == <<"0", "1", "2", "3", "4", "5", "6", "7", "8", "9">>
Decimal == {DecimalDigits[i] : i \in 1..10}
NumberSigns == {".", "+", "-"}

UpperCase == DecimalDigits \o <<"A", "B", "C", "D", "E", "F">>
LowerCase == DecimalDigits \o <<"a", "b", "c", "d", "e", "f">>
Hexadecimal == {UpperCase[i] : i \in 1..16} \cup {LowerCase[i] : i \in 1..16}
DigitValue(c) == (CHOOSE i \in 1..16 : c \in {UpperCase[i], LowerCase[i]}) - 1

At(doc, i) == IF i <= Len(doc) THEN doc[i] ELSE "end"

\* The first position from i on where Test fails, or the end.
Past(doc, i, Test(_)) ==
    Min({j \in i..Len(doc) : ~Test(doc[j])} \cup {Len(doc) + 1})

SkipSpaces(doc, i) == Past(doc, i, LAMBDA c : c \in Spaces)

-----------------------------------------------------------------------------
(* Tokens: readToken with readString, readComment, readNumber and match.      *)

Lexeme(type, start, next) == [type |-> type, start |-> start, next |-> next]

\* Behind the quote that ends a string begun before i; a backslash hides the
\* character after it.  0: there is none.
StopsAtEveryQuote(doc, i) ==
    LET quotes == {j \in i..Len(doc) : doc[j] = Quote} IN
    IF quotes = {} THEN 0 ELSE Min(quotes) + 1
RECURSIVE StringEnd(_, _)
StringEnd(doc, i) ==
    CASE i > Len(doc) -> 0
      [] At(doc, i) = Backslash -> StringEnd(doc, i + 2)
      [] At(doc, i) = Quote -> i + 1
      [] OTHER -> StringEnd(doc, i + 1)

\* Behind the comment whose slash is before i; 0 if it is none.
CommentEnd(doc, i) ==
    LET closed == {j \in i + 1..Len(doc) - 1 : doc[j] = "*" /\ doc[j + 1] = "/"} IN
    CASE At(doc, i) = "*" /\ closed # {} -> Min(closed) + 2
      [] At(doc, i) = "/" ->
            Min({Past(doc, i + 1, LAMBDA c : c \notin {"CR", "LF"}) + 1,
                 Len(doc) + 1})
      [] OTHER -> 0

ReadToken(doc, from) ==
    LET i == SkipSpaces(doc, from)
        c == At(doc, i)
        Ending(type, end) ==
            IF end = 0 THEN Lexeme("error", i, Len(doc) + 1) ELSE Lexeme(type, i, end)
    IN  CASE c \in {"{", "}", "[", "]", ",", ":", "true", "false", "null"} ->
                Lexeme(c, i, i + 1)
          [] c = "end" -> Lexeme("end", i, i)
          [] c = Quote -> Ending("string", StringEnd(doc, i + 1))
          [] c = "/" -> Ending("comment", CommentEnd(doc, i + 1))
          [] c \in Decimal \cup {"-"} ->
                Lexeme("number", i,
                      Past(doc, i + 1, LAMBDA d : d \in Decimal \cup NumberSigns))
          [] OTHER -> Lexeme("error", i, i + 1)

\* skipCommentTokens
RECURSIVE NextToken(_, _)
NextToken(doc, i) ==
    LET t == ReadToken(doc, i) IN
    IF t.type = "comment" THEN NextToken(doc, t.next) ELSE t

-----------------------------------------------------------------------------
(* decodeNumber, decodeDouble                                                *)

Good(value) == [ok |-> TRUE, value |-> value]
Bad == [ok |-> FALSE, value |-> Null]

Number(digits) == FoldLeft(LAMBDA n, d : 10 * n + DigitValue(d), 0, digits)

\* What sscanf reads of a text: a sign, digits, and a decimal.
DecodeDouble(text) ==
    LET IsDigit(c) == c \in Decimal
        begin == IF text[1] = "-" THEN 2 ELSE 1
        point == Past(text, begin, IsDigit)
        end == IF At(text, point) = "." THEN Past(text, point + 1, IsDigit) ELSE point
        decimal == IF end > point + 1 THEN DigitValue(text[point + 1]) ELSE 0
        tenths == 10 * Number(SubSeq(text, begin, point - 1)) + decimal
    IN  IF point = begin /\ end <= point + 1
        THEN Bad
        ELSE Good(Make("real", IF begin = 2 THEN -tenths ELSE tenths))

\* Mutant: one digit more before a number becomes a double.
TooFarThreshold(negative) == (IF negative THEN MaxInt + 1 ELSE MaxUInt) \div 10 + 1

\* A number that may not fit, judged by all digits but the last, is a double.
Threshold(negative) == (IF negative THEN MaxInt + 1 ELSE MaxUInt) \div 10
Fits(digits, negative) ==
    \A i \in 1..Len(digits) : Number(SubSeq(digits, 1, i - 1)) < Threshold(negative)

DecodeNumber(text) ==
    LET negative == text[1] = "-"
        digits == IF negative THEN Tail(text) ELSE text
        n == Number(digits)
    IN  IF \/ \E i \in DOMAIN digits : digits[i] \notin Decimal
           \/ ~Fits(digits, negative)
        THEN DecodeDouble(text)
        ELSE Good(CASE negative -> Make("int", -n)
                    [] ~negative /\ n <= MaxInt -> Make("int", n)
                    [] OTHER -> Make("uint", n % (MaxUInt + 1)))

-----------------------------------------------------------------------------
(* decodeString                                                              *)

Escapes == [c \in {Quote, "/", Backslash, "b", "f", "n", "r", "t"} |->
               CASE c = "n" -> "LF" [] c = "r" -> "CR" [] c = "t" -> "HT"
                 [] c = "b" -> "BS" [] c = "f" -> "FF" [] OTHER -> c]

\* decodeUnicodeEscapeSequence: the four digits from i on; -1 if they are not.
CodeUnit(text, i) ==
    IF i + 3 <= Len(text) /\ \A j \in i..i + 3 : text[j] \in Hexadecimal
    THEN FoldLeft(LAMBDA n, d : 16 * n + DigitValue(d), 0, SubSeq(text, i, i + 3))
    ELSE -1

HighSurrogate(unit) == unit \in 55296..56319

\* decodeUnicodeCodePoint: the code point whose digits begin at i and where the
\* text goes on; a second escape completes a surrogate pair.
CodePoint(text, i) ==
    LET unit == CodeUnit(text, i)
        second == IF /\ i + 9 <= Len(text)
                     /\ text[i + 4] = Backslash /\ text[i + 5] = "u"
                  THEN CodeUnit(text, i + 6) ELSE -1
    IN  CASE HighSurrogate(unit) /\ second = -1 -> [code |-> -1, next |-> i]
          [] HighSurrogate(unit) /\ second # -1 ->
                [code |-> 65536 + 1024 * (unit % 1024) + (second % 1024), next |-> i + 10]
          [] OTHER -> [code |-> unit, next |-> i + 4]

\* The characters between the quotes; an unknown escape is an error.
RECURSIVE Unescape(_, _)
Unescape(text, i) ==
    LET Put(c, rest) == [rest EXCEPT !.value = <<c>> \o @]
        escaped == At(text, i + 1)
        point == CodePoint(text, i + 2)
    IN  CASE i > Len(text) -> Good(<<>>)
          [] At(text, i) # Backslash /\ i <= Len(text) ->
                Put(text[i], Unescape(text, i + 1))
          [] At(text, i) = Backslash /\ escaped \in DOMAIN Escapes ->
                Put(Escapes[escaped], Unescape(text, i + 2))
          [] At(text, i) = Backslash /\ escaped = "u" /\ point.code # -1 ->
                Put("#" \o ToString(point.code), Unescape(text, point.next))
          [] OTHER -> [ok |-> FALSE, value |-> <<>>]

DecodeString(doc, t) == Unescape(SubSeq(doc, t.start + 1, t.next - 2), 1)
StringValue(string) == [string EXCEPT !.value = Make("string", @)]

-----------------------------------------------------------------------------
(* Values.  What an error inside leaves of the value is not used: the whole   *)
(* parse returns false, so recoverFromError has nothing to add.              *)

Read(value, next) == [ok |-> TRUE, value |-> value, next |-> next]
ReadError == [ok |-> FALSE, value |-> Null, next |-> 0]

RECURSIVE ReadValue(_, _), ReadObject(_, _, _, _), ReadArray(_, _, _)

\* Between two members: a closing brace, or anything that is taken for a comma.
NextMember(doc, comma, object, name) ==
    IF comma.type = "}" THEN Read(object, comma.next)
    ELSE ReadObject(doc, comma.next, object, name)

\* A comment may stand before what separates two members.
AfterMember(doc, name, member, object) ==
    IF ~member.ok \/ ReadToken(doc, member.next).type \notin {"}", ",", "comment"}
    THEN ReadError
    ELSE NextMember(doc, NextToken(doc, member.next),
                    Insert(object, "object", name, member.value), name)

NamedMember(doc, key, colon, object) ==
    IF ~key.ok \/ colon.type # ":" THEN ReadError
    ELSE AfterMember(doc, key.value, ReadValue(doc, colon.next), object)

\* The closing brace is expected in place of a name only while the last name is
\* empty.
MemberFrom(doc, t, object, name) ==
    IF t.type = "}" /\ name = <<>> THEN Read(object, t.next)
    ELSE IF t.type # "string" THEN ReadError
    ELSE NamedMember(doc, DecodeString(doc, t), ReadToken(doc, t.next), object)

\* The members from i on, after those of `object`, the last of which is `name`.
ReadObject(doc, i, object, name) == MemberFrom(doc, NextToken(doc, i), object, name)

\* What follows an element and is not the closing bracket is taken for a comma.
AfterElement(doc, t, array) ==
    IF t.type = "]" THEN Read(array, t.next) ELSE ReadArray(doc, t.next, array)

Element(doc, element, array) ==
    IF ~element.ok THEN ReadError
    ELSE AfterElement(doc, NextToken(doc, element.next), Appended(array, element.value))

\* The elements from i on, after those of `array`.
ReadArray(doc, i, array) == Element(doc, ReadValue(doc, i), array)

Decoded(d, next) == IF d.ok THEN Read(d.value, next) ELSE ReadError

ValueFrom(doc, t) ==
    CASE t.type = "{" -> ReadObject(doc, t.next, Empty("object"), <<>>)
      [] t.type = "[" /\ At(doc, SkipSpaces(doc, t.next)) = "]" ->
            Read(Empty("array"), SkipSpaces(doc, t.next) + 1)
      [] t.type = "[" /\ At(doc, SkipSpaces(doc, t.next)) # "]" ->
            ReadArray(doc, t.next, Empty("array"))
      [] t.type = "number" ->
            Decoded(DecodeNumber(SubSeq(doc, t.start, t.next - 1)), t.next)
      [] t.type = "string" -> Decoded(StringValue(DecodeString(doc, t)), t.next)
      [] t.type \in {"true", "false"} -> Read(Make("boolean", t.type = "true"), t.next)
      [] t.type = "null" -> Read(Null, t.next)
      [] OTHER -> ReadError

ReadValue(doc, i) == ValueFrom(doc, NextToken(doc, i))

\* parse: what follows the value is ignored.
ParseDocument(doc) == ReadValue(doc, 1)
===============================================================================
