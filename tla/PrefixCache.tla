----------------------------- MODULE PrefixCache -----------------------------
(***************************************************************************)
(* What the prefix cache promises, without tree, sequence ids or           *)
(* reference counts: a set of token sequences whose KV may be reused, and  *)
(* sessions that start from one of them instead of from nothing.           *)
(*                                                                         *)
(* A session only ever attends to its own tokens; it takes over nothing    *)
(* that was not published, always computes at least one token of its       *)
(* prompt itself, and publishes nothing before the whole prompt is         *)
(* computed.  The cache may forget anything at any time.                   *)
(*                                                                         *)
(* KVMapper implements this specification (KVMapper!ImplementsPrefixCache) *)
(***************************************************************************)
EXTENDS Integers, Sequences

CONSTANTS
    Token,      \* token vocabulary
    Prompts,    \* the prompts of the sessions
    Requests    \* session slots

VARIABLES
    cached,     \* token sequences whose KV may be taken over, closed under prefixes
    sessions    \* running, prompt and the tokens attended to, of each slot

Idle == [running |-> FALSE, prompt |-> << >>, tokens |-> << >>]

Prefixes(tokens) == {SubSeq(tokens, 1, n) : n \in 1 .. Len(tokens)}

\* The cache keeps some of S, and whole prefixes of what it keeps.
Keeps(S) ==
    /\ cached' \subseteq S
    /\ \A tokens \in cached' : Prefixes(tokens) \subseteq cached'

Init ==
    /\ cached = {}
    /\ sessions = [r \in Requests |-> Idle]

\* The first n tokens are taken over; some of the prompt is left to compute.
Start(r, prompt, n) ==
    /\ ~ sessions[r].running
    /\ n > 0 => SubSeq(prompt, 1, n) \in cached
    /\ n < Len(prompt) \/ prompt = << >>
    /\ sessions' = [sessions EXCEPT ![r] = [running |-> TRUE, prompt |-> prompt,
                                            tokens |-> SubSeq(prompt, 1, n)]]
    /\ Keeps(cached)

\* k more tokens of the prompt are computed; with the last of them the prompt may be
\* published.
ComputePrompt(r, k) ==
    LET s == sessions[r]
        n == Len(s.tokens) + k
    IN  /\ s.running /\ n <= Len(s.prompt)
        /\ sessions' = [sessions EXCEPT ![r].tokens = SubSeq(s.prompt, 1, n)]
        /\ Keeps(IF n = Len(s.prompt) THEN cached \cup Prefixes(s.prompt) ELSE cached)

Generate(r, token) ==
    /\ sessions[r].running
    /\ Len(sessions[r].tokens) >= Len(sessions[r].prompt)
    /\ sessions' = [sessions EXCEPT ![r].tokens = Append(@, token)]
    /\ Keeps(cached)

\* The prompt and what was generated after it may be published.
Publish(r) ==
    /\ sessions[r].running
    /\ Len(sessions[r].tokens) > Len(sessions[r].prompt)
    /\ Keeps(cached \cup Prefixes(sessions[r].tokens))
    /\ UNCHANGED sessions

End(r) ==
    /\ sessions[r].running
    /\ sessions' = [sessions EXCEPT ![r] = Idle]
    /\ Keeps(cached)

Forget == Keeps(cached) /\ UNCHANGED sessions

Next ==
    \/ \E r \in Requests :
        \/ \E prompt \in Prompts : \E n \in 0 .. Len(prompt) : Start(r, prompt, n)
        \/ \E k \in 1 .. Len(sessions[r].prompt) : ComputePrompt(r, k)
        \/ \E token \in Token : Generate(r, token)
        \/ Publish(r)
        \/ End(r)
    \/ Forget

Spec == Init /\ [][Next]_<<cached, sessions>>
=============================================================================
