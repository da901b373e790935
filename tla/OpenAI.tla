-------------------------------- MODULE OpenAI --------------------------------
(***************************************************************************)
(* The texts that the server reads and writes: parse_request_body and the  *)
(* checks of handle_completion on a request, and the bodies and events it  *)
(* answers with (openai_api.cpp, http_server.cpp).                         *)
(*                                                                         *)
(* The state is a text that grows piece by piece, as long as the parser    *)
(* could still accept what it becomes.  Each text is taken for a request   *)
(* body, and those of some sets also for the content of a response.        *)
(***************************************************************************)
EXTENDS Json

CONSTANTS
    Families,   \* sets of texts by name: seeds, pieces, their number (size), and whether the
                \* texts are content of a response too (said)
    Int32Max    \* the largest max_tokens (std::numeric_limits<int32_t>::max())

ASSUME FamiliesAssumption ==
    /\ Int32Max \in 0 .. 2 ^ Precision
    /\ \A f \in DOMAIN Families : Families[f].size \in Nat /\ Families[f].said \in BOOLEAN

VARIABLES
    family,     \* the name of the set that the text is taken from
    size,       \* pieces of the text
    text

vars == <<family, size, text>>

Init ==
    /\ family \in DOMAIN Families /\ text \in Families[family].seeds
    /\ size = 0

\* The parser stopped inside the text.
Hopeless == LET r == parse(text) IN ~ r.ok /\ r.pos <= Len(text)

Extend ==
    /\ size < Families[family].size /\ ~ Hopeless
    /\ \E piece \in Families[family].pieces : text' = text \o piece
    /\ size' = size + 1
    /\ UNCHANGED family

Next == Extend

Spec == Init /\ [][Next]_vars

-----------------------------------------------------------------------------
(* parse_request_body and handle_completion *)

ChatMessage(m) ==
    [role    |-> IF contains(m, "role") THEN as_string(Get(m, "role")) ELSE Name("user"),
     content |-> as_string(Get(m, "content"))]

messages(body) ==
    IF Get(body, "messages").type = "Array"
    THEN [i \in DOMAIN Get(body, "messages").array |->
             ChatMessage(Get(body, "messages").array[i])]
    ELSE << >>

\* The prompt counts only without an array of messages.
prompt(body) ==
    IF Get(body, "messages").type = "Array" THEN << >> ELSE as_string(Get(body, "prompt"))

Whole(n) == n.exponent >= 0 \/ n.mantissa % (2 ^ (- n.exponent)) = 0
Floor(n) == IF n.exponent >= 0 THEN n.mantissa * (2 ^ n.exponent)
                               ELSE n.mantissa \div (2 ^ (- n.exponent))

\* Mutant of Int32: a fraction is cut off.
Int32Cut(n) == Floor(n) \in 0 .. Int32Max

\* A number that max_tokens takes.
Int32(n) == Whole(n) /\ Floor(n) \in 0 .. Int32Max

\* max_tokens: "default" stands for that of the configuration.
max_tokens(body) ==
    IF contains(body, "max_tokens") THEN Floor(Get(body, "max_tokens").number) ELSE "default"

InvalidArgument(body) ==
    /\ contains(body, "max_tokens")
    /\ \/ Get(body, "max_tokens").type # "Number"
       \/ ~ Int32(Get(body, "max_tokens").number)

\* temperature and top_p are numbers or those of the configuration.
Tuned(body, word) ==
    IF Get(body, word).type = "Number" THEN Get(body, word).number ELSE "default"

stream(body) == Get(body, "stream") = Bool(TRUE)

Request(body) ==
    [messages |-> messages(body), prompt |-> prompt(body), stream |-> stream(body),
     max_tokens |-> max_tokens(body), temperature |-> Tuned(body, "temperature"),
     top_p |-> Tuned(body, "top_p")]

\* handle_completion goes on with the request; otherwise the answer is status 400.
Accepted(t) ==
    LET body == parse(t)
    IN  /\ body.ok /\ ~ InvalidArgument(body.val)
        /\ prompt(body.val) # << >> \/ messages(body.val) # << >>

-----------------------------------------------------------------------------
(* Responses *)

\* Mutant of Escaped: only what has a letter is escaped.
EscapedLetters(c) ==
    CASE c \in {Quote, Backslash} -> <<Backslash, c>>
      [] c = "LF"  -> <<Backslash, "n">>
      [] c = "CR"  -> <<Backslash, "r">>
      [] c = "TAB" -> <<Backslash, "t">>
      [] OTHER -> <<c>>

\* What json_escape writes for a byte.
Escaped(c) ==
    CASE c \in {Quote, Backslash} -> <<Backslash, c>>
      [] c = "LF"  -> <<Backslash, "n">>
      [] c = "CR"  -> <<Backslash, "r">>
      [] c = "TAB" -> <<Backslash, "t">>
      [] c = "^A"  -> <<Backslash, "u", "0001">>
      [] OTHER -> <<c>>

json_escape(t) == FlattenSeq([i \in DOMAIN t |-> Escaped(t[i])])

Quoted(t) == <<Quote>> \o t \o <<Quote>>
Member(word, t) == Quoted(<<word>>) \o <<":">> \o t

\* The other numbers of InferenceStats are written in the same way.
timings_json == <<"{">> \o Member("prompt_n", <<"1">>) \o <<",">>
                        \o Member("prompt_ms", <<"0", ".", "5">>) \o <<"}">>

usage_json == <<"{">> \o Member("prompt_tokens", <<"1">>) \o <<"}">>

Timed == <<",">> \o Member("timings", timings_json) \o <<",">> \o Member("usage", usage_json)

error_json(message) ==
    <<"{">> \o Member("error", <<"{">> \o Member("message", Quoted(json_escape(message)))
        \o <<",">> \o Member("type", Quoted(<<"server_error">>)) \o <<"}">>) \o <<"}">>

completion_json(content, is_chat) ==
    LET said == Quoted(json_escape(content))
    IN  <<"{">> \o Member("object", Quoted(<<"text">>)) \o <<",">>
        \o Member("choices",
               <<"[", "{">>
               \o (IF is_chat
                   THEN Member("message", <<"{">> \o Member("role", Quoted(<<"text">>)) \o <<",">>
                                          \o Member("content", said) \o <<"}">>)
                   ELSE Member("text", said))
               \o <<",">> \o Member("finish_reason", Quoted(<<"stop">>)) \o <<"}", "]">>)
        \o Timed \o <<"}">>

\* The event of on_token; the worker gives the last one the statistics.
chunk_json(content, is_last) ==
    <<"{">> \o Member("choices",
        <<"[", "{">>
        \o Member("delta", <<"{">> \o Member("content", Quoted(json_escape(content))) \o <<"}">>)
        \o <<",">> \o Member("finish_reason", IF is_last THEN Quoted(<<"stop">>) ELSE <<"null">>))
    \o (IF is_last THEN <<"}", "]">> \o Timed \o <<"}">> ELSE <<"}", "]", "}">>)

-----------------------------------------------------------------------------
(* Properties *)

\* README "The minimal JSON parser is strict" and test_openai_api: the parser accepts exactly
\* the texts of the JSON grammar whose numbers doubles have room for and in which no value is
\* inside more than kMaxDepth containers, and gives each the one value it denotes, with the
\* nearest doubles for its decimals, the code points of its escapes as well-formed UTF-8 and
\* the first of two members of a name.  (README.md:198 refuses "nesting deeper than 64
\* levels"; the code counts the containers around a value, so that an empty one may be the
\* 65th.)
ParseExact ==
    LET read == parse(text)
        denoted == IF Nesting(text) > kMaxDepth THEN {} ELSE {Held(v) : v \in Denotes(text)}
    IN  denoted = IF read.ok THEN {Meaning(read.val)} ELSE {}

\* What goes on to the worker can be served: there is something to tokenize, and a
\* max_tokens that the client wrote is the number of its body, never a default, a fraction
\* cut off or a value cut down to 32 bits: the very number when that is whole, and otherwise
\* no further from it than the rounding of a double.  (README.md:197 wants an integer; the
\* code looks at the double, and takes a fraction beyond its Precision for one.)
RequestFaithful ==
    Accepted(text) =>
        LET request == Request(parse(text).val)
            given == request.max_tokens
        IN  /\ request.prompt # << >> \/ request.messages # << >>
            /\ \A body \in Denotes(text) : contains(body, "max_tokens") =>
                   LET x == Decimal(Get(body, "max_tokens").number)
                       missed == Abs(given * Denominator(x) - Numerator(x))
                   IN  /\ given \in 0 .. Int32Max
                       /\ Denominator(x) = 1 => given = Numerator(x)
                       /\ missed * 2 ^ Precision <= given * Denominator(x)

Written(t) == [i \in DOMAIN t |-> Code[t[i]]]
Choice(r) == Get(r.val, "choices").array[1]

\* Whatever the model generates and whatever an error says, each body and event is JSON of
\* which a client reads the very same text.
ResponsesParse ==
    Families[family].said =>
    LET chat  == parse(completion_json(text, TRUE))
        plain == parse(completion_json(text, FALSE))
        error == parse(error_json(text))
    IN  /\ chat.ok /\ Get(Get(Choice(chat), "message"), "content") = String(Written(text))
        /\ plain.ok /\ Get(Choice(plain), "text") = String(Written(text))
        /\ error.ok /\ Get(Get(error.val, "error"), "message") = String(Written(text))
        /\ \A is_last \in BOOLEAN :
               LET chunk == parse(chunk_json(text, is_last))
               IN  /\ chunk.ok
                   /\ Get(Get(Choice(chunk), "delta"), "content") = String(Written(text))
                   /\ contains(chunk.val, "usage") = is_last
=============================================================================
