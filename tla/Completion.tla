------------------------------ MODULE Completion ------------------------------
(***************************************************************************)
(* One completion request (handle_completion in http_server.cpp): the HTTP *)
(* thread that serves it, the worker thread that calls back into it, and   *)
(* the peer, who may disconnect at any time.  The request is either        *)
(* streamed (SSE) or answered synchronously.                               *)
(*                                                                         *)
(* Everything under the mutex of the shared state is one step.  What the   *)
(* code does outside of it are steps of their own: the two reads of        *)
(* cancelled(), the test of cancelled before the lock in the synchronous   *)
(* callbacks, sink.done(), and the return of the handler, after which the  *)
(* sink and the HTTP request are gone.                                     *)
(*                                                                         *)
(* The worker is reduced to what module Worker shows of it: polls of       *)
(* cancelled(), tokens, and at most one terminal callback (OneReply).  How *)
(* long it takes is left open.                                             *)
(*                                                                         *)
(* A token is a few bytes of UTF-8, not always whole characters.  A byte   *)
(* is the length of the character that it begins: 1 for ASCII and for a    *)
(* byte that begins none, 2 to 4 for a lead byte, 0 for a continuation.    *)
(***************************************************************************)
EXTENDS Integers, Sequences, FiniteSets, SequencesExt

CONSTANTS
    Pieces,         \* texts of tokens
    MaxText,        \* bound: bytes that the worker produces
    MaxKeepAlive    \* bound: keep-alive events on the wire

Bytes == 0 .. 4

ASSUME BoundsAssumption ==
    /\ Pieces \subseteq Seq(Bytes) \ {<< >>}
    /\ MaxText \in Nat \ {0} /\ MaxKeepAlive \in Nat

VARIABLES
    stream,         \* InferenceRequest::stream
    handler,        \* start, waiting, finishing, returned
    connected,      \* the peer is there
    cancelled, done,    \* of StreamState or NonStreamState
    error_status,   \* of NonStreamState
    full_response,  \* bytes collected, or written to the sink
    incomplete_utf8,    \* bytes held back because they end inside a character
    wire,           \* SSE events written
    response,       \* HTTP status of a synchronous answer, 0 without one
    worker,         \* none, poll, peek, act, append, released
    what,           \* the synchronous callback in progress: its kind and text
    ended,          \* the worker has made its terminal callback
    said,           \* bytes that the worker has produced
    counted         \* calls of record_cancelled_request

flags  == <<cancelled, done, error_status>>
text   == <<full_response, incomplete_utf8>>
shared == <<flags, text, wire>>
http   == <<stream, handler, connected>>
calls  == <<worker, what, ended, said, counted>>
vars   == <<http, shared, response, calls>>

NoCall == <<"", << >>>>

Init ==
    /\ stream \in BOOLEAN
    /\ handler = "start" /\ connected = TRUE
    /\ cancelled = FALSE /\ done = FALSE /\ error_status = 0
    /\ full_response = << >> /\ incomplete_utf8 = << >> /\ wire = << >>
    /\ response = 0
    /\ worker = "none" /\ what = NoCall /\ ended = FALSE /\ said = << >> /\ counted = 0

-----------------------------------------------------------------------------
(* The HTTP thread *)

\* Draining (503), or a body that does not parse or has no prompt (400).
Refuse(status) ==
    /\ handler = "start"
    /\ response' = status
    /\ handler' = "returned"
    /\ UNCHANGED <<stream, connected, shared, calls>>

\* The callbacks are set and the request is enqueued; the handler waits for done.
Submit ==
    /\ handler = "start"
    /\ handler' = "waiting"
    /\ worker' = "poll"
    /\ UNCHANGED <<stream, connected, shared, response, what, ended, said, counted>>

Disconnect ==
    /\ connected
    /\ connected' = FALSE
    /\ UNCHANGED <<stream, handler, shared, response, calls>>

\* Mutant of WaitExpires: the predicate is not looked at again when the time is up.
WaitExpiresDone == handler = "waiting"

\* wait_for returns without done.
WaitExpires == handler = "waiting" /\ ~ done

\* Two seconds without done: a keep-alive event, if the peer is there.
KeepAlive ==
    /\ stream /\ WaitExpires /\ connected
    /\ Len(SelectSeq(wire, LAMBDA e : e = "keepalive")) < MaxKeepAlive
    /\ wire' = Append(wire, "keepalive")
    /\ UNCHANGED <<http, flags, text, response, calls>>

\* Mutant of Lost: the handler gives up without telling the worker.
LostQuietly == FALSE

\* What cancelled becomes when the keep-alive finds the peer gone.
Lost == TRUE

KeepAliveLost ==
    /\ stream /\ WaitExpires /\ ~ connected
    /\ cancelled' = Lost
    /\ handler' = "returned"
    /\ UNCHANGED <<stream, connected, done, error_status, text, wire, response, calls>>

\* The stream is done: sink.done() follows, unless it was cancelled.
StreamWake ==
    /\ stream /\ handler = "waiting" /\ done
    /\ handler' = IF cancelled THEN "returned" ELSE "finishing"
    /\ UNCHANGED <<stream, connected, shared, response, calls>>

\* The timeout of a synchronous request.
Timeout ==
    /\ ~ stream /\ WaitExpires
    /\ cancelled' = TRUE
    /\ response' = 504
    /\ handler' = "finishing"
    /\ UNCHANGED <<stream, connected, done, error_status, text, wire, calls>>

SyncWake ==
    /\ ~ stream /\ handler = "waiting" /\ done
    /\ response' = IF error_status # 0 THEN error_status ELSE 200
    /\ handler' = "finishing"
    /\ UNCHANGED <<stream, connected, shared, calls>>

Return ==
    /\ handler = "finishing"
    /\ handler' = "returned"
    /\ UNCHANGED <<stream, connected, shared, response, calls>>

-----------------------------------------------------------------------------
(* The worker thread: is_cancelled *)

\* The sequence is released; on_cancel runs when the request was found cancelled.
Release(found) ==
    /\ worker' = "released"
    /\ counted' = IF found THEN counted + 1 ELSE counted

\* state->cancelled is read; when it is not set, a synchronous request goes on to read
\* the connection.  A poll after the terminal callback changes nothing else.
Poll ==
    /\ worker = "poll"
    /\ IF cancelled THEN Release(TRUE)
       ELSE IF ~ stream THEN worker' = "peek" /\ UNCHANGED counted
       ELSE IF ended THEN Release(FALSE)
       ELSE worker' = "act" /\ UNCHANGED counted
    /\ UNCHANGED <<http, shared, response, what, ended, said>>

\* req_http.is_connection_closed(), of a dead object when the handler has returned.
Peek ==
    /\ worker = "peek"
    /\ \E closed \in IF handler = "returned" THEN BOOLEAN ELSE {~ connected} :
           IF closed \/ ended THEN Release(closed)
           ELSE worker' = "act" /\ UNCHANGED counted
    /\ UNCHANGED <<http, shared, response, what, ended, said>>

\* A step of the worker without a token for this request.
Again ==
    /\ worker = "act"
    /\ worker' = "poll"
    /\ UNCHANGED <<http, shared, response, what, ended, said, counted>>

-----------------------------------------------------------------------------
(* The worker thread: on_token and on_error *)

Callbacks == {"token", "final", "stop", "error"}

\* token and final carry text, stop is the empty last token of an end of generation.
Texts(c) == IF c \in {"token", "final"} THEN Pieces ELSE {<< >>}

Says(c, piece) ==
    /\ worker = "act"
    /\ piece \in Texts(c) /\ Len(said) + Len(piece) <= MaxText
    /\ said' = said \o piece
    /\ ended' = (c # "token")

\* A token is followed by a poll, and so is a final one that is not the first.
Continues(c) ==
    (IF c \in {"token", "final"} THEN {"poll"} ELSE {})
        \cup (IF c # "token" THEN {"released"} ELSE {})

\* Mutant of Answers: done is set with every token.
AnswersEarly(c) == TRUE

\* Mutant of Answers: an end of generation does not set done.
AnswersFinal(c) == c = "final"

\* The callbacks that set done.
Answers(c) == c # "token"

\* The peer is gone, or a write fails: the worker will find the request cancelled, and no
\* text is looked at again.
Breaks ==
    /\ cancelled' = TRUE /\ done' = TRUE
    /\ connected' = FALSE

\* The continuation bytes at the end, at most three of them.
continuation_count(bytes) ==
    Cardinality({n \in 1 .. 3 : /\ n <= Len(bytes)
                                /\ \A i \in Len(bytes) - n + 1 .. Len(bytes) : bytes[i] = 0})

\* Mutant of complete_utf8_prefix_length: only a lead byte at the very end is held back.
LeadAtEnd(bytes) ==
    IF bytes # << >> /\ Last(bytes) > 1 THEN Len(bytes) - 1 ELSE Len(bytes)

\* Everything but a last character that more bytes would complete.
complete_utf8_prefix_length(bytes) ==
    LET available == continuation_count(bytes) + 1
        lead == Len(bytes) - available + 1
    IN  IF lead > 0 /\ bytes[lead] > available THEN lead - 1 ELSE Len(bytes)

\* Mutant of Written: a trailing fragment stays behind for ever.
WrittenPartly(c, content) == complete_utf8_prefix_length(content)

\* How much of the content is written: a last callback flushes everything.
Written(c, content) ==
    IF c = "token" THEN complete_utf8_prefix_length(content) ELSE Len(content)

\* on_token of a stream.
StreamToken(c, piece) ==
    /\ stream /\ c # "error" /\ Says(c, piece)
    /\ worker' \in Continues(c)
    /\ LET content == incomplete_utf8 \o piece
           n == Written(c, content)
       IN  \/ /\ cancelled
              /\ UNCHANGED <<connected, shared>>
           \/ /\ ~ cancelled
              /\ Breaks
              /\ UNCHANGED <<error_status, text, wire>>
           \/ /\ ~ cancelled /\ connected
              /\ full_response' = full_response \o SubSeq(content, 1, n)
              /\ incomplete_utf8' = SubSeq(content, n + 1, Len(content))
              /\ \/ /\ c = "token"
                    /\ wire' = Append(wire, "chunk")
                    /\ UNCHANGED <<cancelled, done, connected>>
                 \/ /\ c # "token"
                    /\ wire' = wire \o <<"stop", "DONE">>
                    /\ done' = Answers(c)
                    /\ UNCHANGED <<cancelled, connected>>
                 \/ /\ c # "token"
                    /\ wire' = Append(wire, "stop")
                    /\ Breaks
              /\ UNCHANGED error_status
    /\ UNCHANGED <<stream, handler, response, what, counted>>

\* on_error of a stream.
StreamError ==
    /\ stream /\ Says("error", << >>)
    /\ worker' = "released"
    /\ \/ /\ cancelled
          /\ UNCHANGED <<connected, shared>>
       \/ /\ ~ cancelled
          /\ Breaks
          /\ wire' \in {wire, Append(wire, "error")}
          /\ UNCHANGED <<error_status, text>>
       \/ /\ ~ cancelled /\ connected
          /\ wire' = wire \o <<"error", "DONE">>
          /\ done' = TRUE
          /\ UNCHANGED <<cancelled, connected, error_status, text>>
    /\ UNCHANGED <<stream, handler, response, what, counted>>

\* A synchronous callback tests cancelled before it takes the lock.
SyncCall(c, piece) ==
    /\ ~ stream /\ Says(c, piece)
    /\ IF cancelled THEN worker' \in Continues(c) /\ UNCHANGED what
       ELSE worker' = "append" /\ what' = <<c, piece>>
    /\ UNCHANGED <<http, shared, response, counted>>

SyncAppend(status) ==
    /\ worker = "append"
    /\ status \in IF what[1] = "error" THEN {400, 500, 503} ELSE {0}
    /\ full_response' = full_response \o what[2]
    /\ error_status' = status
    /\ done' = (done \/ Answers(what[1]))
    /\ worker' \in Continues(what[1])
    /\ what' = NoCall
    /\ UNCHANGED <<http, cancelled, incomplete_utf8, wire, response, ended, said,
                   counted>>

-----------------------------------------------------------------------------
HandlerStep ==
    \/ Submit \/ KeepAliveLost \/ StreamWake \/ Timeout \/ SyncWake \/ Return

WorkerStep ==
    \/ Poll \/ Peek \/ Again
    \/ \E c \in Callbacks, piece \in Pieces \cup {<< >>} :
           StreamToken(c, piece) \/ SyncCall(c, piece)
    \/ StreamError
    \/ \E status \in {0, 400, 500, 503} : SyncAppend(status)

Next ==
    \/ \E status \in {400, 503} : Refuse(status)
    \/ Disconnect \/ KeepAlive
    \/ HandlerStep \/ WorkerStep

\* The threads are scheduled and their timers run: every two seconds a waiting stream
\* looks at its peer, and a synchronous wait ends.
Fairness == WF_vars(HandlerStep) /\ WF_vars(WorkerStep)

Spec == Init /\ [][Next]_vars /\ Fairness

-----------------------------------------------------------------------------
(* Properties *)

\* Every variable has its type.
TypeOK ==
    /\ {stream, connected, cancelled, done, ended} \subseteq BOOLEAN
    /\ handler \in {"start", "waiting", "finishing", "returned"}
    /\ error_status \in {0, 400, 500, 503} /\ response \in {0, 200, 400, 500, 503, 504}
    /\ {full_response, incomplete_utf8, said, what[2]} \subseteq Seq(Bytes)
    /\ wire \in Seq({"keepalive", "chunk", "stop", "error", "DONE"})
    /\ worker \in {"none", "poll", "peek", "act", "append", "released"}
    /\ what[1] \in Callbacks \cup {""}
    /\ Len(said) <= MaxText /\ counted \in 0 .. 1

\* http_server.cpp "The sink is valid until this provider returns. The mutex synchronizes
\* disconnect with worker writes" and "Mark cancelled BEFORE returning": as long as the
\* worker may still call back with effect, the handler has not gone on.
SinkAlive ==
    ~ cancelled /\ ~ ended /\ worker # "none" => handler = "waiting"

\* README on streaming: an error or the choice with finish_reason "stop" is followed by
\* [DONE] and by nothing else, and a stream that was not cancelled has both when the
\* provider finishes it.
StreamWellFormed ==
    /\ \A i \in DOMAIN wire :
           /\ wire[i] = "DONE" => i = Len(wire)
           /\ wire[i] \in {"stop", "error"} /\ i < Len(wire) => wire[i + 1] = "DONE"
    /\ stream /\ handler \in {"finishing", "returned"} /\ response = 0 /\ ~ cancelled
           => wire # << >> /\ Last(wire) = "DONE"

\* No text is lost, repeated or reordered by the buffering of fragments: what is written
\* and what is held back is what was produced so far, and nothing is held back when the
\* stream has stopped.
StreamComplete ==
    stream /\ ~ cancelled =>
        /\ full_response \o incomplete_utf8 = said
        /\ Contains(wire, "stop") => incomplete_utf8 = << >>

\* The beginning of a character: a lead byte and some, but not all, of its continuations.
Fragment(bytes) ==
    /\ bytes # << >> /\ Len(bytes) < Head(bytes)
    /\ \A i \in 2 .. Len(bytes) : bytes[i] = 0

\* README "a multi-byte code point is not split across SSE content chunks; invalid bytes are
\* flushed rather than held back": until the last callback no chunk ends inside a character
\* that the next byte may go on with, however the tokens cut the text, and nothing but the
\* beginning of a character is held back.
WholeCharacters ==
    stream /\ ~ cancelled /\ ~ ended =>
        /\ \A i \in DOMAIN full_response :
               Fragment(SubSeq(full_response, i, Len(full_response)))
                   => incomplete_utf8 # << >> /\ Head(incomplete_utf8) # 0
        /\ incomplete_utf8 = << >> \/ Fragment(incomplete_utf8)

\* A synchronous answer with status 200 carries the whole text of a generation that has
\* ended; a token that is still on its way to the shared state is never missing from it.
SyncComplete ==
    ~ stream /\ response = 200 => ended /\ full_response = said

\* No wake-up is lost and no dead peer keeps a thread: a handler whose request has ended,
\* whose peer is gone, or which has a timeout, returns.
HandlerReturns ==
    handler = "waiting" /\ (ended \/ ~ connected \/ ~ stream) ~> handler = "returned"

\* README "If a client disconnects, its request is cancelled and its sequence released",
\* however long the generation would still take.
DisconnectReleases ==
    ~ connected /\ worker # "none" ~> worker = "released"

\* http_server.cpp "safe even if this handler returns (timeout) before the worker calls
\* on_token": the worker reads the HTTP request only while its handler has not returned.
RequestAlive == worker = "peek" => handler # "returned"
=============================================================================
