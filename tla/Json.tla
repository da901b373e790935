--------------------------------- MODULE Json ---------------------------------
(***************************************************************************)
(* The recursive-descent JSON parser of json_minimal.h, and the grammar    *)
(* that it is meant to accept.                                             *)
(*                                                                         *)
(* A text is a sequence of symbols.  A symbol is a character, the four hex *)
(* digits of a \u escape, a literal (true, false, null) or a word whose    *)
(* letters nothing tells apart.  A parser function takes the text and the  *)
(* position pos_ and returns a value and the next position, or the         *)
(* position at which it throws.                                            *)
(***************************************************************************)
EXTENDS Integers, Sequences, SequencesExt, FiniteSets, FiniteSetsExt, TLC

CONSTANTS
    kMaxDepth,   \* a value inside more containers than this is refused
    Precision,   \* significant bits of a double (53)
    MinExponent, \* a double other than 0 is at least 2^MinExponent (-1022)
    MaxExponent  \* and less than 2^MaxExponent (1024)

ASSUME DoubleAssumption ==
    /\ kMaxDepth \in Nat /\ Precision \in Nat \ {0}
    /\ MinExponent \in Int /\ MaxExponent \in Int
    /\ MinExponent <= 0 /\ Precision <= MaxExponent

Quote == "\""
Backslash == "\\"
Ws == {" ", "TAB", "LF", "CR"}
Digits == {"0", "1", "5", "9"}

\* The value of four hex digits; the surrogates are D800 to DFFF.
CodeUnit ==
    "0001" :> 1 @@ "007F" :> 127 @@ "0080" :> 128 @@ "07FF" :> 2047 @@ "0800" :> 2048
    @@ "D7FF" :> 55295 @@ "D800" :> 55296 @@ "DBFF" :> 56319 @@ "DC00" :> 56320
    @@ "DFFF" :> 57343 @@ "E000" :> 57344 @@ "FFFF" :> 65535

High == 55296 .. 56319
Low  == 56320 .. 57343

\* The byte of a character.  What stands for several bytes has a number of its own.
Words == <<"true", "false", "null", "messages", "prompt", "max_tokens", "stream", "role",
           "content", "choices", "message", "text", "delta", "error", "type", "object",
           "finish_reason", "stop", "timings", "usage", "prompt_n", "server_error",
           "user", "temperature", "top_p", "prompt_ms", "prompt_tokens">>
Code ==
    "TAB" :> 9 @@ "LF" :> 10 @@ "CR" :> 13 @@ "^A" :> 1 @@ " " :> 32
    @@ Quote :> 34 @@ Backslash :> 92 @@ "/" :> 47 @@ "x" :> 120 @@ "y" :> 121
    @@ "b" :> 98 @@ "f" :> 102 @@ "n" :> 110 @@ "r" :> 114 @@ "t" :> 116 @@ "u" :> 117
    @@ "0" :> 48 @@ "1" :> 49 @@ "5" :> 53 @@ "9" :> 57 @@ "-" :> 45 @@ "+" :> 43
    @@ "." :> 46 @@ "e" :> 101 @@ "E" :> 69
    @@ "[" :> 91 @@ "]" :> 93 @@ "{" :> 123 @@ "}" :> 125 @@ "," :> 44 @@ ":" :> 58
    @@ [h \in DOMAIN CodeUnit |-> 1000000 + CodeUnit[h]]
    @@ [w \in Range(Words) |-> 2000000 + (CHOOSE i \in DOMAIN Words : Words[i] = w)]

\* The bytes of the escapes of one character.
Escapes ==
    Quote :> 34 @@ Backslash :> 92 @@ "/" :> 47 @@ "b" :> 8 @@ "f" :> 12 @@ "n" :> 10
    @@ "r" :> 13 @@ "t" :> 9

-----------------------------------------------------------------------------
(* Values *)

Null      == [type |-> "Null"]
Bool(b)   == [type |-> "Bool", bool |-> b]
Number(n) == [type |-> "Number", number |-> n]
String(s) == [type |-> "String", string |-> s]
Array(a)  == [type |-> "Array", array |-> a]
Object(o) == [type |-> "Object", object |-> o]

Name(word) == <<Code[word]>>

contains(v, word) == v.type = "Object" /\ Name(word) \in DOMAIN v.object

\* operator[]: an absent key gives null.
Get(v, word) == IF contains(v, word) THEN v.object[Name(word)] ELSE Null

as_string(v) == IF v.type = "String" THEN v.string ELSE << >>

-----------------------------------------------------------------------------
(* Parser *)

Ok(p, v) == [ok |-> TRUE, pos |-> p, val |-> v]
Throw(p) == [ok |-> FALSE, pos |-> p]

\* The rest of a function runs unless something has thrown.
Then(r, Rest(_, _)) == IF r.ok THEN Rest(r.pos, r.val) ELSE r

At(t, p) == IF p <= Len(t) THEN t[p] ELSE "end of input"

\* The first position from p on whose symbol is not in S.
RECURSIVE Past(_, _, _)
Past(t, p, S) == IF At(t, p) \in S THEN Past(t, p + 1, S) ELSE p

skip_ws(t, p) == Past(t, p, Ws)

expect(t, p, c) ==
    LET q == skip_ws(t, p) IN IF At(t, q) = c THEN Ok(q + 1, c) ELSE Throw(q)

\* The six bits of a code point from this power of two on, as a continuation byte.
Six(c, power) == 128 + ((c \div power) % 64)

append_utf8(c) ==
    CASE c <= 127          -> <<c>>
      [] c \in 128 .. 2047   -> <<192 + (c \div 64), Six(c, 1)>>
      [] c \in 2048 .. 65535 -> <<224 + (c \div 4096), Six(c, 64), Six(c, 1)>>
      [] c > 65535 -> <<240 + (c \div 262144), Six(c, 4096), Six(c, 64), Six(c, 1)>>

parse_unicode_code_unit(t, p) ==
    IF At(t, p) \in DOMAIN CodeUnit THEN Ok(p + 1, CodeUnit[t[p]]) ELSE Throw(p)

\* Mutant of Pair: the offset of the supplementary planes is forgotten.
PairLow(high, low) == (high - 55296) * 1024 + (low - 56320)

Pair(high, low) == 65536 + (high - 55296) * 1024 + (low - 56320)

append_unicode_escape(t, p) ==
    Then(parse_unicode_code_unit(t, p), LAMBDA q, unit :
        CASE unit \in High ->
                IF At(t, q) # Backslash \/ At(t, q + 1) # "u" THEN Throw(q)
                ELSE Then(parse_unicode_code_unit(t, q + 2), LAMBDA r, low :
                         IF low \in Low THEN Ok(r, append_utf8(Pair(unit, low)))
                                        ELSE Throw(r))
          [] unit \in Low -> Throw(q)
          [] OTHER -> Ok(q, append_utf8(unit)))

Escape(t, p) ==
    CASE At(t, p) \in DOMAIN Escapes -> Ok(p + 1, <<Escapes[t[p]]>>)
      [] At(t, p) = "u" -> append_unicode_escape(t, p + 1)
      [] OTHER -> Throw(Min({p + 1, Len(t) + 1}))

RECURSIVE Characters(_, _, _)
Characters(t, p, result) ==
    LET c == At(t, p)
    IN  CASE p > Len(t) -> Throw(p)
          [] c = Quote -> Ok(p + 1, result)
          [] p <= Len(t) /\ c = Backslash ->
                Then(Escape(t, p + 1), LAMBDA q, bytes : Characters(t, q, result \o bytes))
          [] p <= Len(t) /\ c \notin {Quote, Backslash} ->
                IF Code[c] < 32 THEN Throw(p + 1)
                ELSE Characters(t, p + 1, Append(result, Code[c]))

parse_string(t, p) ==
    Then(expect(t, p, Quote), LAMBDA q, c : Characters(t, q, << >>))

Abs(n) == IF n < 0 THEN -n ELSE n

Natural(digits) ==
    FoldLeft(LAMBDA n, d : 10 * n + (Code[d] - 48), 0, SelectSeq(digits, LAMBDA s : s \in Digits))

\* What a number says: mantissa and decimal exponent.
Decimal(lexeme) ==
    LET x == Past(lexeme, 1, DOMAIN Code \ {"e", "E"})
        dot == Min({x, Past(lexeme, 1, DOMAIN Code \ {"."})})
        sign(t) == IF Contains(t, "-") THEN -1 ELSE 1
        number == SubSeq(lexeme, 1, x - 1)
        power == SubSeq(lexeme, x + 1, Len(lexeme))
    IN  [mantissa |-> sign(number) * Natural(number),
         exponent |-> sign(power) * Natural(power) - (IF dot < x THEN x - dot - 1 ELSE 0)]

\* The decimal as numerator over denominator.
Numerator(x)   == x.mantissa * 10 ^ Max({0, x.exponent})
Denominator(x) == 10 ^ Max({0, - x.exponent})

\* The magnitude is less than 10 ^ Order, and at least a tenth of that.
Order(x) == x.exponent + Cardinality({k \in 0 .. 9 : 10 ^ k <= Abs(x.mantissa)})

\* n / d as a mantissa of Precision bits, rounded to the nearest and to even, times a power
\* of two.
RECURSIVE Rounded(_, _, _)
Rounded(n, d, exponent) ==
    LET q == n \div d
        up == LET left == 2 * (n % d) IN left > d \/ (left = d /\ q % 2 = 1)
    IN  CASE n < d * 2 ^ (Precision - 1) -> Rounded(2 * n, d, exponent - 1)
          [] n >= d * 2 ^ Precision -> Rounded(n, 2 * d, exponent + 1)
          [] OTHER -> [mantissa |-> IF up THEN q + 1 ELSE q, exponent |-> exponent]

Nearest(x) == Rounded(Abs(Numerator(x)), Denominator(x), 0)

\* The double r is below 2 ^ Top, and at least half of that.
Top(r) == r.exponent + Precision + (IF r.mantissa = 2 ^ Precision THEN 1 ELSE 0)

WithSign(r, n) == [r EXCEPT !.mantissa = IF n < 0 THEN - @ ELSE @]

InRange(x, r, end) ==
    IF Top(r) \in MinExponent + 1 .. MaxExponent THEN Ok(end, WithSign(r, x.mantissa))
    ELSE Throw(end)

\* Three bits are less than a decimal place: what is far outside need not be written out.
FarOutside(x) == Order(x) - 1 > MaxExponent \div 3 \/ 3 * Order(x) <= MinExponent

Double(x, end) ==
    IF x.mantissa = 0 THEN Ok(end, [mantissa |-> 0, exponent |-> 0])
    ELSE IF FarOutside(x) THEN Throw(end)
    ELSE InRange(x, Nearest(x), end)

\* std::stod of a number that ends at this place: the nearest double, or out_of_range beyond
\* the normal ones.  (Of the subnormal ones libraries refuse those that are not exact; here
\* all are.)
stod(lexeme, end) == Double(Decimal(lexeme), end)

\* What stod returns is finite: the check behind it never throws.
parse_number(t, p) ==
    LET int  == IF t[p] = "-" THEN p + 1 ELSE p
        dot  == IF At(t, int) = "0" THEN int + 1 ELSE Past(t, int, Digits)
        e    == IF At(t, dot) = "." THEN Past(t, dot + 1, Digits) ELSE dot
        exp  == IF At(t, e) \notin {"e", "E"} THEN e
                ELSE IF At(t, e + 1) \in {"+", "-"} THEN e + 2 ELSE e + 1
        end  == IF exp = e THEN e ELSE Past(t, exp, Digits)
    IN  CASE At(t, int) \notin Digits -> Throw(int)
          [] At(t, int) = "0" /\ At(t, dot) \in Digits -> Throw(dot)
          [] At(t, dot) = "." /\ e = dot + 1 -> Throw(e)
          [] exp # e /\ end = exp -> Throw(end)
          [] OTHER -> Then(stod(SubSeq(t, p, end - 1), end), LAMBDA q, v : Ok(q, Number(v)))

\* std::map::emplace keeps the first.
emplace(object, key, value) == object @@ (key :> value)

RECURSIVE parse_value(_, _, _), Members(_, _, _, _), Elements(_, _, _, _)

\* The loops of parse_object and parse_array.
Members(t, p, depth, object) ==
    LET q == skip_ws(t, p)
    IN  IF At(t, q) # Quote THEN Throw(q)
        ELSE Then(parse_string(t, q), LAMBDA r, key :
             Then(expect(t, r, ":"), LAMBDA s, c :
             Then(parse_value(t, s, depth), LAMBDA v, value :
                 LET end == skip_ws(t, v)
                     members == emplace(object, key, value)
                 IN  CASE At(t, end) = "}" -> Ok(end + 1, Object(members))
                       [] At(t, end) = "," -> Members(t, end + 1, depth, members)
                       [] OTHER -> Throw(end))))

Elements(t, p, depth, array) ==
    Then(parse_value(t, p, depth), LAMBDA v, value :
        LET end == skip_ws(t, v)
            elements == Append(array, value)
        IN  CASE At(t, end) = "]" -> Ok(end + 1, Array(elements))
              [] At(t, end) = "," -> Elements(t, end + 1, depth, elements)
              [] OTHER -> Throw(end))

parse_object(t, p, depth) ==
    LET q == skip_ws(t, p + 1)
    IN  IF At(t, q) = "}" THEN Ok(q + 1, Object(<< >>)) ELSE Members(t, q, depth, << >>)

parse_array(t, p, depth) ==
    LET q == skip_ws(t, p + 1)
    IN  IF At(t, q) = "]" THEN Ok(q + 1, Array(<< >>)) ELSE Elements(t, q, depth, << >>)

parse_value(t, p, depth) ==
    LET q == skip_ws(t, p)
        c == At(t, q)
    IN  IF depth > kMaxDepth THEN Throw(p)
        ELSE CASE c = Quote -> Then(parse_string(t, q), LAMBDA r, s : Ok(r, String(s)))
               [] c = "{" -> parse_object(t, q, depth + 1)
               [] c = "[" -> parse_array(t, q, depth + 1)
               [] c \in {"true", "false"} -> Ok(q + 1, Bool(c = "true"))
               [] c = "null" -> Ok(q + 1, Null)
               [] c \in Digits \cup {"-"} -> parse_number(t, q)
               [] OTHER -> Throw(q)

parse(t) ==
    Then(parse_value(t, 1, 0), LAMBDA p, v :
        LET end == skip_ws(t, p) IN IF end = Len(t) + 1 THEN Ok(end, v) ELSE Throw(end))

-----------------------------------------------------------------------------
(* The JSON grammar (RFC 8259): what a text may denote *)

Part(t, i, j) == SubSeq(t, i, j)
Inner(t) == SubSeq(t, 2, Len(t) - 1)
Cuts(t, c) == {i \in DOMAIN t : t[i] = c}

Trim(t) ==
    LET solid == {i \in DOMAIN t : t[i] \notin Ws}
    IN  IF solid = {} THEN << >> ELSE SubSeq(t, Min(solid), Max(solid))

\* A non-empty sequence of digits.
AllDigits(t) == t # << >> /\ Range(t) \subseteq Digits

\* number = [ minus ] int [ frac ] [ exp ]
IsNumber(t) ==
    \E i, j, k \in 0 .. Len(t) :
        /\ i <= j /\ j <= k
        /\ Part(t, 1, i) \in {<< >>, <<"-">>}
        /\ \/ Part(t, i + 1, j) = <<"0">>
           \/ AllDigits(Part(t, i + 1, j)) /\ t[i + 1] # "0"
        /\ \/ j = k
           \/ j < k /\ t[j + 1] = "." /\ AllDigits(Part(t, j + 2, k))
        /\ \/ k = Len(t)
           \/ /\ t[k + 1] \in {"e", "E"}
              /\ \E s \in {<< >>, <<"+">>, <<"-">>} :
                     /\ Len(s) <= Len(t) - k - 1
                     /\ Part(t, k + 2, k + 1 + Len(s)) = s
                     /\ AllDigits(Part(t, k + 2 + Len(s), Len(t)))

Prepend(heads, tails) == {<<h>> \o s : h \in heads, s \in tails}

\* The code points that the symbols between the quotes stand for.
RECURSIVE CodePoints(_)
CodePoints(t) ==
    LET rest(n) == CodePoints(SubSeq(t, n + 1, Len(t)))
        unit(i) == IF i + 2 <= Len(t) /\ t[i] = Backslash /\ t[i + 1] = "u"
                      /\ t[i + 2] \in DOMAIN CodeUnit
                   THEN {CodeUnit[t[i + 2]]} ELSE {}
    IN  IF t = << >> THEN {<< >>}
        ELSE UNION
        {IF t[1] \notin {Quote, Backslash} /\ Code[t[1]] >= 32
            THEN Prepend({Code[t[1]]}, rest(1)) ELSE {},
         IF Len(t) > 1 /\ t[1] = Backslash /\ t[2] \in DOMAIN Escapes
            THEN Prepend({Escapes[t[2]]}, rest(2)) ELSE {},
         IF unit(1) \ (High \cup Low) # {}
            THEN Prepend(unit(1), rest(3)) ELSE {},
         IF unit(1) \cap High # {} /\ unit(4) \cap Low # {}
            THEN Prepend({65536 + (h % 1024) * 1024 + (l % 1024) : h \in unit(1), l \in unit(4)},
                         rest(6)) ELSE {}}

RECURSIVE Denotes(_), Sequence(_), Pairs(_)

\* Comma-separated values, and comma-separated names and values.
Sequence(t) ==
    Prepend(Denotes(t), {<< >>}) \cup
    UNION {Prepend(Denotes(Part(t, 1, i - 1)), Sequence(Part(t, i + 1, Len(t)))) :
               i \in Cuts(t, ",")}

Pairs(t) ==
    LET named(u) == UNION {{<<n.string, v>> :
                                n \in {m \in Denotes(Part(u, 1, i - 1)) : m.type = "String"},
                                v \in Denotes(Part(u, i + 1, Len(u)))} :
                           i \in Cuts(u, ":")}
    IN  Prepend(named(t), {<< >>}) \cup
        UNION {Prepend(named(Part(t, 1, i - 1)), Pairs(Part(t, i + 1, Len(t)))) :
                   i \in Cuts(t, ",")}

\* The object of a sequence of pairs: the first of a name counts.
FirstOf(pairs) ==
    [n \in {p[1] : p \in Range(pairs)} |->
        pairs[Min({i \in DOMAIN pairs : pairs[i][1] = n})][2]]

\* The values that a text denotes.  A number stays the decimal that is written, and is one
\* that doubles have room for.
Denotes(text) ==
    LET t == Trim(text)
        within(open, close) == Len(t) > 1 /\ t[1] = open /\ t[Len(t)] = close
        blank == Trim(Inner(t)) = << >>
    IN  IF t = << >> THEN {}
        ELSE UNION
        {IF t = <<"null">> THEN {Null} ELSE {},
         {Bool(b) : b \in {c \in BOOLEAN : t = <<IF c THEN "true" ELSE "false">>}},
         IF IsNumber(t) /\ stod(t, Len(t)).ok THEN {Number(t)} ELSE {},
         IF within(Quote, Quote) THEN {String(s) : s \in CodePoints(Inner(t))} ELSE {},
         IF within("[", "]")
            THEN {Array(s) : s \in IF blank THEN {<< >>} ELSE Sequence(Inner(t))}
            ELSE {},
         IF within("{", "}")
            THEN {Object(FirstOf(s)) : s \in IF blank THEN {<< >>} ELSE Pairs(Inner(t))}
            ELSE {}}

\* A value with the nearest doubles for its decimals.
RECURSIVE Held(_)
Held(v) ==
    CASE v.type = "Number" -> Number(stod(v.number, Len(v.number)).val)
      [] v.type = "Array"  -> Array([i \in DOMAIN v.array |-> Held(v.array[i])])
      [] v.type = "Object" -> Object([n \in DOMAIN v.object |-> Held(v.object[n])])
      [] OTHER -> v

\* The most containers around one value, by counting the brackets outside strings.
Nesting(t) ==
    LET Outside(s, c) ==
            [string |-> c = Quote, escape |-> FALSE,
             depth  |-> s.depth + (CASE c \in {"[", "{"} -> 1 [] c \in {"]", "}"} -> -1
                                      [] OTHER -> 0),
             most   |-> IF c \in Ws \cup {"]", "}"} THEN s.most ELSE Max({s.most, s.depth})]
        Inside(s, c) ==
            [s EXCEPT !.string = c # Quote \/ s.escape, !.escape = c = Backslash /\ ~ s.escape]
    IN  FoldLeft(LAMBDA s, c : IF s.string THEN Inside(s, c) ELSE Outside(s, c),
                 [string |-> FALSE, escape |-> FALSE, depth |-> 0, most |-> 0], t).most

\* The code points of well-formed UTF-8 (RFC 3629); << >> stays for what is not.
Continuation == 128 .. 191
RECURSIVE Decoded(_)
Decoded(bytes) ==
    LET size == IF bytes[1] \in 194 .. 223 THEN 2
                ELSE IF bytes[1] \in 224 .. 239 THEN 3
                ELSE IF bytes[1] \in 240 .. 244 THEN 4 ELSE 1
        valid == /\ bytes[1] \notin 128 .. 193 \cup 245 .. 255
                 /\ size <= Len(bytes)
                 /\ \A i \in 2 .. size : bytes[i] \in Continuation
        lead == IF size = 1 THEN bytes[1] ELSE bytes[1] % (2 ^ (7 - size))
        point == FoldLeft(LAMBDA n, b : 64 * n + (b % 64), lead, SubSeq(bytes, 2, size))
    IN  IF bytes = << >> THEN << >>
        ELSE IF ~ valid THEN <<-1>>
        ELSE <<point>> \o Decoded(SubSeq(bytes, size + 1, Len(bytes)))

\* A value with code points for the bytes of its strings.
RECURSIVE Meaning(_)
Meaning(v) ==
    CASE v.type = "String" -> String(Decoded(v.string))
      [] v.type = "Array"  -> Array([i \in DOMAIN v.array |-> Meaning(v.array[i])])
      [] v.type = "Object" ->
            Object([n \in {Decoded(k) : k \in DOMAIN v.object} |->
                        Meaning(v.object[CHOOSE k \in DOMAIN v.object : Decoded(k) = n])])
      [] OTHER -> v
=============================================================================
