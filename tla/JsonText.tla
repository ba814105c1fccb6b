------------------------------ MODULE JsonText ------------------------------
(***************************************************************************)
(* The text in which seeds, machines and big integers are kept (json.hpp): *)
(* the writer, and the reader that the resumed program parses it with.     *)
(*                                                                         *)
(* A text is a sequence of characters; a word with nothing in it that the  *)
(* reader looks at, such as a key, counts as one character, and "nul" is   *)
(* what peek and get answer past the end.  An integer is exact: strtoll    *)
(* saturates only past 64 bits.                                            *)
(***************************************************************************)
EXTENDS Decimals, SequencesExt

Value(type, of) == [type |-> type, of |-> of]
IntOf(n) == Value("int", n)
Bool(b) == Value("bool", b)
Str(s) == Value("str", s)
Arr(a) == Value("arr", a)
Obj(o) == Value("obj", o)   \* a function from keys to values
Null == Value("null", <<>>)
Throws == Value("throws", <<>>)

White == {"space", "newline", "tab", "return"}
Escape == [c \in {"quote", "backslash", "newline", "tab", "return"} |->
              CASE c = "newline" -> "n"
                [] c = "tab" -> "t"
                [] c = "return" -> "r"
                [] OTHER -> c]

-----------------------------------------------------------------------------
(* dump.  A value is written part by part, so a text is composed here of the *)
(* texts of the parts that the code composes the value of.                 *)

\* mutant: a backslash is written as it is
EscapedQuotesOnly(s) ==
    FlattenSeq([i \in DOMAIN s |->
        IF s[i] = "quote" THEN <<"backslash", "quote">> ELSE <<s[i]>>])

\* dump_string, between its quotes
Escaped(s) ==
    FlattenSeq([i \in DOMAIN s |->
        IF s[i] \in DOMAIN Escape THEN <<"backslash", Escape[s[i]]>> ELSE <<s[i]>>])

DumpString(s) == <<"quote">> \o Escaped(s) \o <<"quote">>

\* std::to_string
Decimal(n) ==
    LET digits[m \in Nat] ==
            IF m < 10 THEN <<Figures[m + 1]>>
            ELSE digits[m \div 10] \o <<Figures[(m % 10) + 1]>>
    IN IF n < 0 THEN <<"-">> \o digits[-n] ELSE digits[n]

DumpBool(b) ==
    IF b THEN <<"t", "r", "u", "e">> ELSE <<"f", "a", "l", "s", "e">>

Listed(parts) ==
    FlattenSeq([i \in DOMAIN parts |->
        IF i = 1 THEN parts[i] ELSE <<"comma">> \o parts[i]])

DumpArr(parts) == <<"[">> \o Listed(parts) \o <<"]">>

\* The members are pairs of a key and a text, in the order of std::map.
DumpObj(members) ==
    <<"openbrace">> \o Listed([i \in DOMAIN members |->
                         DumpString(members[i][1]) \o <<":">> \o members[i][2]])
        \o <<"closebrace">>

-----------------------------------------------------------------------------
(* parse: what is read from text s at position p, and where the reader     *)
(* stands after it.                                                        *)

Places == Nat \ {0}
Read(v, p) == [value |-> v, at |-> p]
Fails == Read(Throws, 0)
Failed(r) == r.at = 0

\* r has been read: v is what it comes to, or what it adds to the rest.
Given(r, v) == IF Failed(r) THEN Fails ELSE Read(v, r.at)
Before(x, rest) == Given(rest, <<x>> \o rest.value)

Peek(s, p) == IF p \in DOMAIN s THEN s[p] ELSE "nul"

\* Where a run of characters of some set, from p on, is over.
Past(s, p, set) ==
    CHOOSE q \in p..(p + Len(s)) :
        Peek(s, q) \notin set /\ \A i \in p..(q - 1) : Peek(s, i) \in set

\* skip_ws
Skip(s, p) == Past(s, p, White)

Unescaped(e) ==
    IF \E c \in DOMAIN Escape : Escape[c] = e
    THEN CHOOSE c \in DOMAIN Escape : Escape[c] = e ELSE e

\* parse_string after its opening quote
Body(s) ==
    LET body[p \in Places] ==
            CASE Peek(s, p) = "nul" -> Fails
              [] Peek(s, p) = "quote" -> Read(<<>>, p + 1)
              [] Peek(s, p) = "backslash" -> Before(Unescaped(Peek(s, p + 1)), body[p + 2])
              [] OTHER -> Before(Peek(s, p), body[p + 1])
    IN body

ParseString(s, p) == IF Peek(s, p) = "quote" THEN Body(s)[p + 1] ELSE Fails

\* The number that strtoll counts up, figure by figure from p on.
Counted(s, p) ==
    Loop(0, [i \in Nat |-> [n \in Nat |->
                LET c == Peek(s, p + i)
                IN IF c \in DOMAIN FigureValue THEN 10 * n + FigureValue[c] ELSE n]])

\* parse_int: digits may be missing, and then it is 0.
ParseInt(s, p) ==
    LET minus == Peek(s, p) = "-"
        start == IF minus THEN p + 1 ELSE p
        end == Past(s, start, DOMAIN FigureValue)
        n == Counted(s, start)[end - start]
    IN Read(IntOf(IF minus THEN -n ELSE n), end)

\* The loop of parse_object and parse_array: item[p] is what is read at p.
Items(s, item, close) ==
    LET items[p \in Places] ==
            LET r == item[p]
                end == Skip(s, r.at)
            IN IF Failed(r) THEN Fails
               ELSE CASE Peek(s, end) = close -> Read(<<r.value>>, end + 1)
                      [] Peek(s, end) = "comma" -> Before(r.value, items[end + 1])
                      [] OTHER -> Fails
    IN items

\* All that stands in brackets, the opening one at p.
Enclosed(s, p, item, close) ==
    LET q == Skip(s, p + 1)
    IN IF Peek(s, q) = close THEN Read(<<>>, q + 1) ELSE Items(s, item, close)[q]

\* A member of an object; inner[p] is the value that parse_value reads at p.
Member(s, inner, p) ==
    LET key == ParseString(s, Skip(s, p))
        colon == Skip(s, key.at)
        val == inner[colon + 1]
    IN IF Failed(key) \/ Peek(s, colon) # ":" THEN Fails
       ELSE Given(val, <<key.value, val.value>>)

\* emplace: of two members with one key the first stays.
Emplaced(members) ==
    [k \in {members[i][1] : i \in DOMAIN members} |->
        members[CHOOSE i \in DOMAIN members :
                    /\ members[i][1] = k
                    /\ \A j \in 1..(i - 1) : members[j][1] # k][2]]

\* parse_value.  A literal is skipped over by its length, unread.
ParseValue(s, inner, start) ==
    LET p == Skip(s, start)
        c == Peek(s, p)
        members == Enclosed(s, p, [q \in Places |-> Member(s, inner, q)], "closebrace")
        elements == Enclosed(s, p, inner, "]")
        string == ParseString(s, p)
    IN CASE c = "openbrace" -> Given(members, Obj(Emplaced(members.value)))
         [] c = "[" -> Given(elements, Arr(elements.value))
         [] c = "quote" -> Given(string, Str(string.value))
         [] c = "t" -> Read(Bool(TRUE), p + 4)
         [] c = "f" -> Read(Bool(FALSE), p + 5)
         [] c = "n" -> Read(Null, p + 4)
         [] OTHER -> ParseInt(s, p)

\* What it reads with n brackets within each other; no text has more of them
\* than characters.
Values(s) ==
    LET values[n \in Nat] ==
            [p \in Places |->
                ParseValue(s, IF n = 0 THEN [q \in Places |-> Fails]
                              ELSE values[n - 1], p)]
    IN values

\* parse: text after the value is not looked at.
Parse(s) == Values(s)[Len(s)][1].value
=============================================================================
