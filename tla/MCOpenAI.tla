------------------------------- MODULE MCOpenAI -------------------------------
(***************************************************************************)
(* OpenAI for TLC: containers, strings, numbers and request bodies.        *)
(***************************************************************************)
EXTENDS OpenAI

Key(word) == Member(word, << >>)
Unicode(hex) == <<Backslash, "u", hex>>

\* Both sides of the nesting limit, and the repeated name of a member.
Deep == <<"[", "[", "[">>
Containers ==
    [seeds  |-> {<< >>, <<"[">>, Append(Deep, "["), <<"{">> \o Key("x") \o <<"[", "0", "]", ",">>,
                 <<"{">> \o Key("x") \o Deep},
     pieces |-> {<<"[">>, <<"]">>, <<"]", "]", "]">>, <<"{">>, <<"}">>, <<",">>, <<":">>, <<" ">>,
                 <<"0">>, <<"null">>, Quoted(<<"x">>)},
     size   |-> 5, said |-> FALSE]

Strings ==
    [seeds  |-> {<<Quote>>},
     pieces |-> {Unicode(hex) : hex \in DOMAIN CodeUnit}
                \cup {<<Backslash, c>> : c \in {Quote, Backslash, "/", "b", "n", "x", "u"}}
                \cup {<<c>> : c \in {Quote, Backslash, "x", "FFFF", " ", "LF", "TAB", "CR", "^A"}},
     size   |-> 3, said |-> TRUE]

\* A long exponent comes in one piece.
Numbers ==
    [seeds  |-> {<< >>, <<"[">>, <<"-">>},
     pieces |-> {<<c>> : c \in {"-", "+", "0", "1", ".", "e", "]", " "}}
                \cup {<<"e", "1", "1", "1">>},
     size   |-> 5, said |-> FALSE]

Amounts == {<<"1">>, <<"-", "1">>, <<"1", ".", "5">>, <<"1", ".", "0", "1">>,
            <<"9", ".", "9">>, <<"1", "e", "1">>, <<"1", "e", "9">>,
            <<"9", "0", "e", "-", "1">>, Quoted(<<"x">>)}
Chat == <<"[", "{">> \o Key("role") \o Quoted(<<"x">>) \o <<"}", ",", "0", "]">>

Bodies ==
    [seeds  |-> {<<"{">>},
     pieces |-> {Member("max_tokens", n) : n \in Amounts}
                \cup {Member("prompt", t) : t \in {Quoted(<<"x">>), Quoted(<< >>), <<"0">>}}
                \cup {Member("messages", t) : t \in {Chat, <<"[", "]">>, <<"null">>}}
                \cup {Member("stream", <<"true">>), <<",">>, <<"}">>},
     size   |-> 4, said |-> TRUE]

\* Normal doubles from 2^-8 on.
MCMinExponent == -8

MCFamilies ==
    [containers |-> Containers, strings |-> Strings, numbers |-> Numbers, bodies |-> Bodies]
=============================================================================
