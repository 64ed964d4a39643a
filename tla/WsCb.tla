-------------------------------- MODULE WsCb --------------------------------
(***************************************************************************)
(* The WebSocket protocol handler (ws_cb in ws.cpp) on one connection, of  *)
(* a server after ws_upgrade() or of a client before its handshake is      *)
(* answered.  Frames arrive in pieces; a message is one frame or several   *)
(* fragments with control frames between them.  The handler reassembles a  *)
(* message inside the receive buffer, by cutting the headers out of it.    *)
(*                                                                         *)
(* A frame i is three bytes: <<i, "f">> its first byte, <<i, "h">> the     *)
(* rest of its header, <<i, "d">> its data.  The answer to the handshake   *)
(* is HANDSHAKE.                                                           *)
(***************************************************************************)
EXTENDS Integers, Sequences, FiniteSets, SequencesExt

CONSTANTS
    Frames,         \* how many frames the peer sends (bound)
    Scripts         \* their kinds, one after the other: what it may choose

Frame == [text     |-> [op |-> "text", final |-> TRUE],
          begin    |-> [op |-> "text", final |-> FALSE],
          more     |-> [op |-> "cont", final |-> FALSE],
          last     |-> [op |-> "cont", final |-> TRUE],
          ping     |-> [op |-> "ping", final |-> TRUE],
          pong     |-> [op |-> "pong", final |-> TRUE],
          close    |-> [op |-> "close", final |-> TRUE],
          unmasked |-> [op |-> "text", final |-> TRUE],
          badctl   |-> [op |-> "ping", final |-> FALSE],    \* or over 125 bytes
          unknown  |-> [op |-> "other", final |-> TRUE]]

ASSUME WsAssumption ==
    /\ Frames \in Nat
    /\ Scripts \subseteq [1..Frames -> DOMAIN Frame]

VARIABLES
    script,         \* the kinds of the frames, chosen by the peer
    is_client,
    arrived,        \* number of bytes read from the socket
    recv,           \* the receive buffer
    pfn_data,       \* length of the message under assembly, between reads
    ofs,            \* the same, local to ws_cb()
    is_websocket, is_draining, is_closing,
    pc,
    parsed,         \* history: frames handled
    delivered,      \* history: MG_EV_WS_MSG
    replies         \* history: frames ws_cb() sent, with the frame answered

input == <<script, is_client, arrived>>
flags == <<is_websocket, is_draining, is_closing>>
history == <<parsed, delivered, replies>>
vars == <<input, recv, pfn_data, ofs, flags, pc, history>>

HANDSHAKE == <<0, "f">>
Sent == IF is_client THEN 1 ELSE 0      \* bytes before those of frames
Marks == <<"f", "h", "d">>
Byte(n) == IF n <= 0 THEN HANDSHAKE ELSE <<(n + 2) \div 3, Marks[((n + 2) % 3) + 1]>>
Stream == [n \in 1..(Sent + 3 * Frames) |-> Byte(n - Sent)]

Init ==
    /\ script \in Scripts
    /\ is_client \in BOOLEAN
    /\ arrived = 0
    /\ recv = <<>> /\ pfn_data = 0 /\ ofs = 0
    /\ is_websocket = ~is_client /\ is_draining = FALSE /\ is_closing = FALSE
    /\ pc = "idle"
    /\ parsed = 0 /\ delivered = <<>> /\ replies = <<>>

-----------------------------------------------------------------------------
\* iobuf_del()
Del(s, at, n) == SubSeq(s, 1, at) \o SubSeq(s, at + n + 1, Len(s))

\* Some bytes arrive, and MG_EV_READ is raised.
Read ==
    /\ pc = "idle" /\ ~is_closing
    /\ \E n \in (arrived + 1)..Len(Stream) :
          /\ recv' = recv \o SubSeq(Stream, arrived + 1, n)
          /\ arrived' = n
    /\ pc' = "read"
    /\ UNCHANGED <<script, is_client, pfn_data, ofs, flags, history>>

\* ws_client_handshake(): accepted, refused, or not HTTP.  The loop over the
\* frames goes on in each case.
Handshake ==
    /\ pc = "read"
    /\ ofs' = pfn_data
    /\ pc' = "ws"
    /\ IF is_client /\ ~is_websocket
       THEN \/ is_websocket' = TRUE /\ recv' = Del(recv, 0, 1) /\ UNCHANGED is_closing
            \/ is_closing' = TRUE /\ recv' = Del(recv, 0, 1) /\ UNCHANGED is_websocket
            \/ is_closing' = TRUE /\ UNCHANGED <<recv, is_websocket>>
       ELSE UNCHANGED <<recv, is_websocket, is_closing>>
    /\ UNCHANGED <<input, pfn_data, is_draining, history>>

-----------------------------------------------------------------------------
(* One turn of the loop of ws_cb(): the frame at ofs.                      *)

Rest == SubSeq(recv, ofs + 1, Len(recv))

\* Mutant: a frame is taken only when something follows it.
CompleteAndMore == Len(Rest) > 3

Complete == Len(Rest) >= 3      \* ws_process() > 0

This == Rest[1][1]
F == Frame[script[This]]

Junk == Rest # <<>> /\ Rest[1] = HANDSHAKE
AtFrame == pc = "ws" /\ Complete /\ ~Junk

Done ==
    /\ pc = "ws" /\ ~Complete
    /\ pc' = "idle" /\ ofs' = 0
    /\ UNCHANGED <<input, recv, pfn_data, flags, history>>

\* An answer that is not HTTP is taken for whatever its bytes look like; the
\* connection is closing.
NotFrames ==
    /\ pc = "ws" /\ Complete /\ Junk
    /\ pc' = "idle" /\ ofs' = 0
    /\ is_draining' \in BOOLEAN
    /\ UNCHANGED <<input, recv, pfn_data, is_websocket, is_closing, history>>

Violation == \/ script[This] = "unmasked" /\ ~is_client
             \/ script[This] = "badctl"

\* Mutant: the rejected frame is consumed.
RejectedTaken == Del(recv, ofs, 3)

Rejected == recv

\* ws_close_with_code(): the frame is not consumed.
Reject ==
    /\ AtFrame /\ Violation
    /\ replies' = Append(replies, <<"1002", This>>)
    /\ is_draining' = TRUE
    /\ recv' = Rejected
    /\ pc' = "idle" /\ ofs' = 0
    /\ UNCHANGED <<input, pfn_data, is_websocket, is_closing, parsed, delivered>>

WholeFrame == [flag |-> Rest[1], data |-> <<Rest[3]>>]

\* The events, in the switch over op.
Dispatch ==
    /\ replies' = CASE F.op = "ping" -> Append(replies, <<"PONG", This>>)
                    [] F.op = "close" -> Append(replies, <<"CLOSE", This>>)
                    [] OTHER -> replies
    /\ is_draining' = (is_draining \/ F.op = "close")
    /\ is_closing' = (is_closing \/ F.op = "other")

\* A whole frame is consumed and, if it is one of text, delivered.
Single ==
    /\ AtFrame /\ ~Violation /\ F.final /\ F.op # "cont"
    /\ Dispatch
    /\ delivered' = IF F.op = "text" THEN Append(delivered, WholeFrame) ELSE delivered
    /\ recv' = Del(recv, ofs, 3)
    /\ UNCHANGED <<ofs, pfn_data>>

\* The first fragment leaves its first byte and its data.
Begin ==
    /\ AtFrame /\ ~Violation /\ ~F.final /\ F.op # "cont"
    /\ Dispatch
    /\ recv' = Del(recv, ofs + 1, 1)
    /\ ofs' = ofs + 2 /\ pfn_data' = ofs'
    /\ UNCHANGED delivered

\* A continuation leaves its data; the last one completes the message.
Continue ==
    /\ AtFrame /\ ~Violation /\ ~F.final /\ F.op = "cont"
    /\ Dispatch
    /\ recv' = Del(recv, ofs, 2)
    /\ ofs' = ofs + 1 /\ pfn_data' = ofs'
    /\ UNCHANGED delivered

\* Mutant: the last byte of the message is cut off.
AssembleShort(s, n) == [flag |-> s[1], data |-> SubSeq(s, 2, n - 1)]

Assemble(s, n) == [flag |-> s[1], data |-> SubSeq(s, 2, n)]

End ==
    /\ AtFrame /\ ~Violation /\ F.final /\ F.op = "cont"
    /\ Dispatch
    /\ LET s == Del(recv, ofs, 2)
       IN  /\ delivered' = Append(delivered, Assemble(s, ofs + 1))
           /\ recv' = Del(s, 0, ofs + 1)
           /\ ofs' = 0 /\ pfn_data' = 0

Handle ==
    /\ Single \/ Begin \/ Continue \/ End
    /\ parsed' = parsed + 1
    /\ UNCHANGED <<input, is_websocket, pc>>

\* The end of the visit: what is left to write goes out, and a connection that
\* is closing or has drained ends.
Limits ==
    /\ pc = "idle" /\ (is_closing \/ is_draining)
    /\ pc' = "gone"
    /\ UNCHANGED <<input, recv, pfn_data, ofs, flags, history>>

WsCb == Handshake \/ Done \/ NotFrames \/ Reject \/ Handle
Ended ==
    /\ pc = "gone" \/ (pc = "idle" /\ arrived = Len(Stream))
    /\ UNCHANGED vars
Next == Read \/ WsCb \/ Limits \/ Ended
Spec == Init /\ [][Next]_vars

-----------------------------------------------------------------------------
TypeOK ==
    /\ script \in Scripts /\ arrived \in 0..Len(Stream)
    /\ recv \in Seq(Range(Stream))
    /\ pfn_data \in 0..Len(recv) /\ ofs \in 0..Len(recv)
    /\ {is_client, is_websocket, is_draining, is_closing} \subseteq BOOLEAN
    /\ pc \in {"idle", "read", "ws", "gone"} /\ parsed \in 0..Frames

Fragments == {"begin", "more", "last"}
\* A message is open after frame n if it was begun at j and not ended since.
OpenSince(j, n) ==
    /\ j \in 1..n /\ script[j] = "begin"
    /\ \A k \in (j + 1)..n : script[k] \notin {"begin", "last"}
OpenAfter(n) == \E j \in 1..n : OpenSince(j, n)

\* The first n frames follow the rules: fragments only inside a message and
\* whole messages only outside, nothing after a close, nothing unknown.
Legal(n) ==
    \A i \in 1..n :
        /\ script[i] # "unknown"
        /\ script[i] = "close" => i = n
        /\ script[i] \in {"more", "last"} => OpenAfter(i - 1)
        /\ script[i] \in {"text", "unmasked", "begin"} => ~OpenAfter(i - 1)

\* The data of the fragments of the message begun at j, up to frame n.
Data(j, n) ==
    FlattenSeq([k \in 1..n |-> IF k >= j /\ script[k] \in Fragments
                               THEN <<<<k, "d">>>> ELSE <<>>])

MessageOf(i) ==
    IF script[i] \in {"text", "unmasked"}
    THEN <<[flag |-> <<i, "f">>, data |-> <<<<i, "d">>>>]>>
    ELSE IF script[i] = "last"
    THEN LET j == CHOOSE j \in 1..i : OpenSince(j, i - 1)
         IN  <<[flag |-> <<j, "f">>, data |-> Data(j, i)]>>
    ELSE <<>>

\* A peer that follows the rules has its messages delivered, each once, whole
\* and in the order they were completed, however its frames were cut into reads
\* and whatever control frames came between the fragments.
MessagesWhole ==
    Legal(parsed) => delivered = FlattenSeq([i \in 1..parsed |-> MessageOf(i)])

WasRejected == \E i \in 1..Frames : <<"1002", i>> \in Range(replies)

\* No frame that has arrived waits for another read: when ws_cb() returns, it
\* has handled every complete frame, unless it rejected one.  And the lengths
\* it keeps between reads stay within the buffer they are about.
NothingStuck ==
    /\ TypeOK
    /\ pc = "idle" /\ is_websocket /\ ~WasRejected /\ arrived > 0 =>
           parsed = (arrived - Sent) \div 3

\* "a non-conforming peer never reaches a handler" (ws.cpp:209-210): once a frame
\* was answered with 1002, nothing more is delivered or handled, although the
\* connection reads on while it drains.
RejectionIsFinal == [][WasRejected => UNCHANGED <<delivered, parsed>>]_vars
=============================================================================
