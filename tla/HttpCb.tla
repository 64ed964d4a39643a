------------------------------- MODULE HttpCb -------------------------------
(***************************************************************************)
(* The HTTP protocol handler (http_cb in http.cpp) on one connection that  *)
(* a server accepted, inside the visits mgr_poll() makes to it: requests   *)
(* arrive in pieces and pipelined, handlers answer at once or later, and   *)
(* requests that break the rules end the connection in different ways.     *)
(*                                                                         *)
(* Input is a sequence of pieces <<i, k>>: piece k of request i.  The head *)
(* of a request is its first two pieces, its body the others.  What a      *)
(* piece says is its kind; the parsers themselves are not modelled here.   *)
(***************************************************************************)
EXTENDS Integers, Sequences, FiniteSets, SequencesExt

CONSTANTS
    Requests,       \* how many requests the client sends (bound)
    Kinds,          \* the kinds it may choose from
    EarlyAnswers    \* headers are answered only while fewer answers than this
                    \* wait to be written (bound)

Shape == [get      |-> 2,   \* no body
          close    |-> 2,   \* no body, "Connection: close"
          post     |-> 3,   \* Content-Length and a body
          big      |-> 3,   \* Content-Length over max_body_size
          chunked  |-> 4,   \* a chunk and the last chunk
          bigchunk |-> 4,   \* chunks that add up to more than max_body_size
          badchunk |-> 3,   \* a chunk that cannot be parsed
          badte    |-> 2,   \* Transfer-Encoding that is not chunked
          toomany  |-> 2,   \* more headers than fit
          response |-> 2,   \* the head of a response, without Content-Length
          garbage  |-> 1]   \* not HTTP

ASSUME HttpAssumption ==
    /\ {Requests, EarlyAnswers} \subseteq Nat
    /\ Kinds \subseteq DOMAIN Shape

VARIABLES
    script,         \* the kinds of the requests, chosen by the client
    arrived,        \* number of pieces read from the socket
    recv,           \* the buffered pieces
    send,           \* answers buffered and not yet written
    is_resp, is_draining,
    closing,        \* is_closing
    detached,       \* the user's handler took the connection over (pfn)
    place, back,    \* where the loop is, where it returns after the handlers
    event,          \* the event http_cb() handles
    ofs,            \* its parsing offset
    was_resp,       \* is_resp before MG_EV_POLL
    delivered,      \* history: requests given to the user's handler
    answers,        \* history: answers by the user's handler to requests that
                    \*  were delivered
    raised          \* history: a handler raised an exception, and whether the user
                    \*  answered after that: "no", "yes", "answered"

httpFlags == <<is_resp, is_draining, closing, detached>>
history == <<delivered, answers, raised>>
input == <<script, arrived>>
httpVars == <<input, recv, send, httpFlags, place, back, event, ofs, was_resp, history>>

Pieces(i) == [k \in 1..Shape[script[i]] |-> <<i, k>>]
Stream == FlattenSeq([i \in 1..Requests |-> Pieces(i)])
HIDDEN == 0     \* a message found in the middle of a request

HttpInit ==
    /\ script \in [1..Requests -> Kinds]
    /\ arrived = 0
    /\ recv = <<>> /\ send = 0
    /\ is_resp = FALSE /\ is_draining = FALSE /\ closing = FALSE
    /\ detached = FALSE
    /\ place = "idle" /\ back = "idle" /\ event = "POLL" /\ ofs = 0 /\ was_resp = FALSE
    /\ delivered = <<>> /\ answers = 0 /\ raised = "no"

-----------------------------------------------------------------------------
Past(n) == SubSeq(recv, n + 1, Len(recv))

\* An event goes to http_cb() first, then to the user's handler.
Raise(e, r) ==
    /\ place' = IF detached THEN "user" ELSE "cb"
    /\ event' = e /\ back' = r /\ ofs' = 0

Proceed(label) == place' = label /\ UNCHANGED <<event, back, ofs>>
Exit == place' = "user" /\ ofs' = 0 /\ UNCHANGED <<event, back>>

\* The ways out of http_cb(): processed input is deleted, the whole input is
\* discarded, or it is left as it is.
Leave == recv' = Past(ofs) /\ Exit
Discard == recv' = <<>> /\ Exit
Return == UNCHANGED recv /\ Exit

-----------------------------------------------------------------------------
(* One turn of the loop of http_cb().                                      *)

\* Mutant: the next request is parsed while an answer is owed.
MoreUnanswered == place = "cb" /\ ofs < Len(recv)

More == place = "cb" /\ ~is_resp /\ ofs < Len(recv)

NextPiece == recv[ofs + 1]
AtHead == NextPiece[2] = 1
Req == NextPiece[1]
Kind == script[Req]
Rest == Len(recv) - ofs
HeadComplete == Rest >= 2 /\ recv[ofs + 2] = <<Req, 2>>

\* Mutant: the length of the head is added twice for a body.
SizeTwice == IF Kind = "post" THEN Shape[Kind] + 2 ELSE Shape[Kind]

Size == Shape[Kind]

Complete == Rest >= Size

Nothing == place = "cb" /\ ~More /\ Leave /\ UNCHANGED <<send, httpFlags, history>>

\* The head is not there yet.
Partial ==
    /\ More /\ AtHead /\ Kind # "garbage" /\ ~HeadComplete
    /\ Leave /\ UNCHANGED <<send, httpFlags, history>>

\* In the middle of a request, after input was discarded, the bytes can be
\* anything: not HTTP, the beginning of something, or a request.
Middle ==
    /\ More /\ ~AtHead
    /\ \/ Leave /\ UNCHANGED <<send, httpFlags, history>>
       \/ /\ is_draining' = TRUE
          /\ Discard
          /\ UNCHANGED <<send, is_resp, closing, detached, history>>
       \/ /\ delivered' = Append(delivered, HIDDEN)
          /\ is_resp' = TRUE
          /\ ofs' = ofs + 1 /\ place' = "msg" /\ UNCHANGED <<event, back, recv>>
          /\ UNCHANGED <<send, is_draining, closing, detached, answers, raised>>

NotHttp ==
    /\ More /\ AtHead /\ Kind = "garbage"
    /\ is_draining' = TRUE
    /\ Discard
    /\ UNCHANGED <<send, is_resp, closing, detached, history>>

Parsed(kinds) == More /\ AtHead /\ HeadComplete /\ Kind \in kinds

\* After MG_EV_HTTP_HDRS the turn goes on, whatever the handler did to is_resp.
Announced(kinds) ==
    place = "parsed" /\ ofs < Len(recv) /\ AtHead /\ HeadComplete /\ Kind \in kinds

TooManyHeaders ==
    /\ Parsed({"toomany"})
    /\ send' = send + 1 /\ is_resp' = FALSE         \* 431
    /\ is_draining' = TRUE
    /\ Discard
    /\ UNCHANGED <<closing, detached, history>>

WellFormed == DOMAIN Shape \ {"toomany", "garbage"}

\* Mutant: http_cb() goes on after a handler raised.
ParsesOn == FALSE

ParsesNoMore == TRUE

\* handle_handler_error(): an exception ends the connection.  Where that is
\* closing already, raising has no effect and is the same as returning.  (Bound:
\* none is raised after the user answered in spite of one.)
Raises ==
    /\ raised # "answered" /\ raised' = "yes"
    /\ ~closing /\ is_resp' = ParsesNoMore /\ is_draining' = TRUE

\* MG_EV_HTTP_HDRS: the user's handler may answer before there is a message, may
\* raise an exception (no 500 then), and may take input away.
HandlerHdrs ==
    /\ Parsed(WellFormed)
    /\ send' = send \/ (send < EarlyAnswers /\ send' = send + 1)
    /\ Raises \/ UNCHANGED <<is_resp, is_draining, raised>>
    /\ \/ detached' = TRUE /\ Discard
       \/ UNCHANGED <<recv, detached>> /\ Proceed("parsed")
    /\ UNCHANGED <<closing, delivered, answers>>

\* error(), and a return that leaves the input as it is.
InvalidEncoding ==
    /\ Announced({"badte"})
    /\ closing' = TRUE
    /\ Return
    /\ UNCHANGED <<send, is_resp, is_draining, detached, history>>

\* 411 for a length that is missing, which ends nothing.
LengthMissing == IF Kind = "response" THEN 1 ELSE 0

\* On MG_EV_CLOSE all that is buffered becomes the body; before, the body of a
\* response has no end.
Oversized ==
    /\ \/ /\ Announced({"get", "close", "post", "big", "response"})
          /\ IF event = "CLOSE"
             THEN \E j \in (ofs + 1)..Len(recv) :
                    script[recv[j][1]] \in {"big", "bigchunk"} /\ recv[j][2] = 3
             ELSE Kind \in {"big", "response"}
       \/ Announced({"bigchunk"}) /\ Complete
    /\ send' = send + LengthMissing + 1 /\ is_resp' = FALSE         \* 413
    /\ raised' = IF raised = "no" THEN "no" ELSE "answered"
    /\ is_draining' = TRUE
    /\ Discard
    /\ UNCHANGED <<closing, detached, delivered, answers>>

InvalidChunk ==
    /\ Announced({"badchunk"}) /\ Complete
    /\ closing' = TRUE
    /\ Leave
    /\ UNCHANGED <<send, is_resp, is_draining, detached, history>>

BodyMissing ==
    /\ \/ Announced({"chunked", "bigchunk", "badchunk"}) /\ ~Complete
       \/ Announced({"post"}) /\ ~Complete /\ event # "CLOSE"
    /\ Leave
    /\ UNCHANGED <<send, httpFlags, history>>

Deliver ==
    /\ \/ Announced({"get", "close", "post"}) /\ (Complete \/ event = "CLOSE")
       \/ Announced({"big"}) /\ event = "CLOSE" /\ Rest = 2   \* the body never came
       \/ Announced({"response"}) /\ event = "CLOSE"
       \/ Announced({"chunked"}) /\ Complete
    /\ delivered' = Append(delivered, Req)
    /\ is_resp' = TRUE
    /\ ofs' = IF event = "CLOSE" /\ Kind # "chunked" THEN Len(recv) ELSE ofs + Size
    /\ place' = "msg" /\ UNCHANGED <<event, back>>
    /\ send' = send + LengthMissing
    /\ UNCHANGED <<recv, is_draining, closing, detached, answers, raised>>

HttpCb ==
    /\ \/ Nothing \/ Partial \/ Middle \/ NotHttp \/ TooManyHeaders \/ HandlerHdrs
       \/ InvalidEncoding \/ Oversized \/ InvalidChunk \/ BodyMissing \/ Deliver
    /\ UNCHANGED <<input, was_resp>>

\* http_reply(), or the last chunk of a chunked answer.
Reply ==
    /\ send' = send + 1 /\ is_resp' = FALSE /\ answers' = answers + 1
    /\ raised' = IF raised = "no" THEN "no" ELSE "answered"

\* MG_EV_HTTP_MSG: the user's handler answers, will do so later, or raises an
\* exception: before it has written anything, which is answered with 500, or
\* after.
HandlerMsg ==
    /\ place = "msg"
    /\ \/ /\ Reply
          /\ LET i == Last(delivered)
             IN  IF i # HIDDEN /\ script[i] = "close"
                 THEN is_draining' = TRUE /\ Leave
                 ELSE UNCHANGED <<is_draining, recv>> /\ Proceed("cb")
       \/ Proceed("cb") /\ UNCHANGED <<send, is_resp, is_draining, answers, raised, recv>>
       \/ Raises /\ send' = send + 1 /\ Proceed("cb") /\ UNCHANGED <<answers, recv>>
    /\ UNCHANGED <<input, closing, detached, was_resp, delivered>>

\* The user's handler after http_cb(), for the same event.
HandlerAfter ==
    /\ place = "user"
    /\ \/ is_resp /\ Reply /\ UNCHANGED is_draining
       \/ Raises /\ UNCHANGED <<send, answers>>
       \/ UNCHANGED <<send, is_resp, is_draining, answers, raised>>
    /\ place' = back /\ back' = "idle" /\ UNCHANGED ofs
    /\ event' = IF event = "CLOSE" THEN event ELSE "POLL"
    /\ UNCHANGED <<input, recv, closing, detached, was_resp, delivered>>

\* The answer comes from outside the visit: a wakeup, a timer.
DeferredReply ==
    /\ place = "idle" /\ is_resp
    /\ Reply
    /\ UNCHANGED <<input, recv, is_draining, closing, detached, place, back, event,
                   ofs, was_resp, delivered>>

-----------------------------------------------------------------------------
(* The visit of mgr_poll().                                                *)

\* Mutant: without the clause for MG_EV_POLL (issue 2796).
PolledNever == FALSE

Polled == ~is_draining /\ recv # <<>>

Poll ==
    /\ place = "idle"
    /\ was_resp' = is_resp
    /\ IF Polled THEN Raise("POLL", "edge")
                 ELSE place' = "user" /\ back' = "edge" /\ UNCHANGED <<event, ofs>>
    /\ UNCHANGED <<input, recv, send, httpFlags, history>>

Edge ==
    /\ place = "edge"
    /\ IF was_resp /\ ~is_resp THEN Raise("READ", "io") ELSE Proceed("io")
    /\ was_resp' = FALSE
    /\ UNCHANGED <<input, recv, send, httpFlags, history>>

Read ==
    /\ place = "io"
    /\ \/ /\ ~closing
          /\ \E n \in (arrived + 1)..Len(Stream) :
                /\ recv' = recv \o SubSeq(Stream, arrived + 1, n)
                /\ arrived' = n
          /\ Raise("READ", "write")
          /\ UNCHANGED closing
       \/ ~closing /\ Proceed("write") /\ closing' \in BOOLEAN /\ UNCHANGED <<recv, arrived>>
       \/ closing /\ Proceed("limits") /\ UNCHANGED <<recv, arrived, closing>>
    /\ UNCHANGED <<script, send, is_resp, is_draining, detached, was_resp, history>>

Write ==
    /\ place = "write"
    /\ send' \in 0..send
    /\ Proceed("limits")
    /\ UNCHANGED <<input, recv, httpFlags, was_resp, history>>

\* The drain, and (nondeterministically) the other limits.
Limits ==
    /\ place = "limits"
    /\ \/ is_draining /\ send = 0 /\ closing' = TRUE
       \/ closing' = TRUE
       \/ ~(is_draining /\ send = 0) /\ UNCHANGED closing
    /\ IF closing' THEN Raise("CLOSE", "gone") ELSE Proceed("idle")
    /\ UNCHANGED <<input, recv, send, is_resp, is_draining, detached, was_resp,
                   history>>

\* start_drain()
StartDrain ==
    /\ place = "idle" /\ ~is_draining /\ is_draining' = TRUE
    /\ UNCHANGED <<input, recv, send, is_resp, closing, detached, place, back, event,
                   ofs, was_resp, history>>

Loop == Poll \/ Edge \/ Read \/ Write \/ Limits \/ HttpCb \/ HandlerMsg \/ HandlerAfter
Gone == place = "gone" /\ UNCHANGED httpVars
HttpNext == Loop \/ DeferredReply \/ StartDrain \/ Gone
HttpSpec == HttpInit /\ [][HttpNext]_httpVars
\* The loop keeps polling, and an answer that is owed is given in the end.
HttpFairSpec == HttpSpec /\ WF_httpVars(Loop) /\ SF_httpVars(DeferredReply)

-----------------------------------------------------------------------------
HttpTypeOK ==
    /\ script \in [1..Requests -> Kinds] /\ arrived \in 0..Len(Stream)
    /\ recv \in Seq(Range(Stream)) /\ send \in Nat /\ answers \in Nat
    /\ {is_resp, is_draining, closing, detached, was_resp} \subseteq BOOLEAN
    /\ ofs \in 0..Len(recv) /\ event \in {"POLL", "READ", "CLOSE"}
    /\ delivered \in Seq(0..Requests) /\ raised \in {"no", "yes", "answered"}

Open == ~is_draining /\ ~closing /\ ~detached
Taken == FlattenSeq([j \in DOMAIN delivered |-> Pieces(delivered[j])])

\* As long as the connection is open, requests are delivered in the order they
\* came, each once and whole, and nothing is lost or read twice in between:
\* what was delivered and what is still to be parsed make up the input.
InputConserved ==
    Open => LET todo == IF place \in {"cb", "parsed", "msg"} THEN Past(ofs) ELSE recv
            IN  Taken \o todo = SubSeq(Stream, 1, arrived)

\* A pipelined request waits until the one before it is answered: is_resp says
\* exactly that the last request delivered has no answer since then (an answer to
\* its headers alone does not count), unless a handler raised an exception.
OneAtATime == raised = "no" => Len(delivered) - answers = IF is_resp THEN 1 ELSE 0

\* "is_resp stops http_cb parsing" (_core.cpp:70-71): once a handler has raised an
\* exception, the connection hands it the headers and the message of no other
\* request, neither of those that came with the failed one nor of those that come
\* while it drains nor of what is left when it closes, until it is answered in spite
\* of that.  The turn in which it raised is finished: a handler that raised at the
\* headers of a request still gets the message of this one.
ErrorIsFinal ==
    [][raised = "yes" => /\ place' # "parsed"
                         /\ delivered' # delivered => place = "parsed"]_httpVars

\* No request that is complete waits for ever behind an answer that came late:
\* although no more input arrives, all of them are delivered, or the connection
\* ends.
Waiting(i) ==
    /\ Open /\ event # "CLOSE" /\ i \notin Range(delivered)
    /\ \A k \in 1..Shape[script[i]] : <<i, k>> \in Range(recv)
NoStall ==
    (\E i \in 1..Requests : Waiting(i)) ~> (\A i \in 1..Requests : ~Waiting(i))

\* The handler "is called for each complete HTTP message" (_core.cpp:743-744):
\* never for the same one again.
DeliveredOnce ==
    \A i \in 1..Requests : Len(SelectSeq(delivered, LAMBDA j : j = i)) <= 1
=============================================================================
