----------------------------- MODULE HttpProofs -----------------------------
(***************************************************************************)
(* Proofs about the HTTP handler: is_resp alone decides whether the next   *)
(* request is parsed, so everything that sets it must keep it true to the  *)
(* answers that are owed, and set after a handler failed.  And about the   *)
(* functions on text that requests are read with.                          *)
(***************************************************************************)
EXTENDS HttpCb, Coding, ListProofs

\* The types of what decides which request is answered.
HttpTyped ==
    /\ delivered \in Seq(Range(delivered)) /\ answers \in Nat
    /\ is_resp \in BOOLEAN /\ raised \in {"no", "yes", "answered"}
    /\ back \in {"idle", "edge", "io", "write", "gone"}

\* A message is with the user's handler, and an exception was not answered,
\* only while is_resp is set; between the headers of a request and its message
\* only an exception sets it.
Held ==
    /\ place = "msg" \/ raised = "yes" => is_resp
    /\ place = "parsed" /\ is_resp => raised = "yes"

\* The inductive invariant.
HttpInv == HttpTyped /\ Held /\ OneAtATime

-----------------------------------------------------------------------------
\* What http_cb() does to an answer that is owed: while one is, nothing; when it
\* delivers a request, that one is owed; otherwise none is, unless the handler
\* raised at the headers.  The turn that began with them is finished.
Kept == UNCHANGED <<is_resp, delivered, raised>> /\ place' # "msg" /\ (place' = "parsed" => ~is_resp)
Refused ==
    /\ is_resp' = FALSE /\ delivered' = delivered /\ place' \notin {"msg", "parsed"}
    /\ \/ ~is_resp /\ raised' = raised
       \/ place = "parsed" /\ raised' = IF raised = "no" THEN "no" ELSE "answered"
Faulted == ~is_resp /\ Raises /\ delivered' = delivered /\ place' # "msg"
Gives(e) ==
    /\ ~is_resp \/ place = "parsed"
    /\ is_resp' = TRUE /\ delivered' = Append(delivered, e) /\ raised' = raised /\ place' = "msg"

LEMMA OneTurn ==
    ASSUME HttpCb
    PROVE  /\ answers' = answers
           /\ Kept \/ Refused \/ Faulted \/ (~is_resp /\ Gives(HIDDEN)) \/ (place = "parsed" /\ Gives(Req))
<1> USE DEF httpFlags, history
<1>1. CASE Nothing \/ Partial \/ BodyMissing
  BY <1>1 DEF Nothing, Partial, BodyMissing, Leave, Exit, Kept
<1>2. CASE Middle
  <2>1. ~is_resp BY <1>2 DEF Middle, More
  <2>2. CASE Leave /\ UNCHANGED <<send, httpFlags, history>> BY <2>2 DEF Leave, Exit, Kept
  <2>3. CASE Discard /\ UNCHANGED <<send, is_resp, closing, detached, history>>
    BY <2>3 DEF Discard, Exit, Kept
  <2>4. CASE /\ delivered' = Append(delivered, HIDDEN) /\ is_resp' = TRUE /\ place' = "msg"
             /\ UNCHANGED <<answers, raised>>
    BY <2>1, <2>4 DEF Gives
  <2> QED BY <1>2, <2>2, <2>3, <2>4 DEF Middle
<1>3. CASE NotHttp \/ InvalidEncoding \/ InvalidChunk
  BY <1>3 DEF NotHttp, InvalidEncoding, InvalidChunk, Leave, Discard, Return, Exit, Kept
<1>4. CASE TooManyHeaders
  BY <1>4 DEF TooManyHeaders, Parsed, More, Discard, Exit, Refused
<1>5. CASE Oversized
  <2>1. place = "parsed" BY <1>5 DEF Oversized, Announced
  <2> QED BY <1>5, <2>1 DEF Oversized, Discard, Exit, Refused
<1>6. CASE HandlerHdrs
  <2>1. ~is_resp /\ UNCHANGED <<delivered, answers>> BY <1>6 DEF HandlerHdrs, Parsed, More
  <2>2. place' \in {"user", "parsed"} BY <1>6 DEF HandlerHdrs, Discard, Exit, Proceed
  <2>3. Raises \/ UNCHANGED <<is_resp, raised>> BY <1>6 DEF HandlerHdrs
  <2> QED BY <2>1, <2>2, <2>3 DEF Kept, Faulted
<1>7. CASE Deliver
  BY <1>7 DEF Deliver, Announced, Gives
<1> QED BY <1>1, <1>2, <1>3, <1>4, <1>5, <1>6, <1>7 DEF HttpCb

\* One request more.
LEMMA OneMoreDelivered ==
    ASSUME NEW s, s \in Seq(Range(s)), NEW e
    PROVE  /\ Append(s, e) \in Seq(Range(Append(s, e)))
           /\ Len(Append(s, e)) = Len(s) + 1
<1> DEFINE T == Range(s) \cup {e}
           t == Append(s, e)
<1>1. s \in Seq(T) /\ e \in T OBVIOUS
<1> HIDE DEF T
<1>2. t \in Seq(T) /\ Len(t) = Len(s) + 1 BY <1>1
<1>3. \A i \in DOMAIN t : t[i] \in Range(t) BY DEF Range
<1> QED BY <1>2, <1>3, SMTT(20)

\* Answers, deliveries and is_resp as every step of the handler changes them.
LEMMA HttpStep ==
    ASSUME HttpInv, HttpNext, ~HttpCb
    PROVE  /\ place' # "parsed"
           /\ \/ UNCHANGED <<is_resp, delivered, answers, raised>> /\ (place' = "msg" => place = "msg")
              \/ is_resp /\ Reply /\ delivered' = delivered /\ place' # "msg"
              \/ Raises /\ UNCHANGED <<delivered, answers>> /\ place' # "msg"
<1> USE DEF httpFlags, history
<1>1. CASE Poll \/ Edge \/ Read \/ Write \/ Limits
  BY <1>1 DEF Poll, Edge, Read, Write, Limits, Raise, Proceed
<1>2. CASE HandlerMsg
  <2>1. is_resp BY <1>2 DEF HandlerMsg, HttpInv, Held
  <2>2. place' \in {"user", "cb"} /\ delivered' = delivered
    BY <1>2 DEF HandlerMsg, Leave, Exit, Proceed
  <2> QED BY <1>2, <2>1, <2>2 DEF HandlerMsg
<1>3. CASE HandlerAfter
  <2>1. delivered' = delivered BY <1>3 DEF HandlerAfter
  <2>2. place' \notin {"msg", "parsed"} BY <1>3 DEF HandlerAfter, HttpInv, HttpTyped
  <2> QED BY <1>3, <2>1, <2>2 DEF HandlerAfter
<1>4. CASE DeferredReply
  BY <1>4 DEF DeferredReply
<1>5. CASE StartDrain \/ Gone
  BY <1>5 DEF StartDrain, Gone, httpVars
<1> QED BY <1>1, <1>2, <1>3, <1>4, <1>5 DEF HttpNext, Loop

\* The invariant is kept.
LEMMA HttpInvNext == HttpInv /\ [HttpNext]_httpVars => HttpInv'
<1> SUFFICES ASSUME HttpInv, [HttpNext]_httpVars PROVE HttpInv' OBVIOUS
<1>0. /\ HttpTyped /\ Held /\ OneAtATime
      /\ Len(delivered) \in Nat /\ answers \in Nat /\ is_resp \in BOOLEAN
  BY DEF HttpInv, HttpTyped
<1>1. back' \in {"idle", "edge", "io", "write", "gone"}
  <2>1. CASE HttpNext
    <3>1. CASE HttpCb
      BY <1>0, <3>1 DEF HttpTyped, HttpCb, Nothing, Partial, Middle, NotHttp, TooManyHeaders,
         HandlerHdrs, InvalidEncoding, Oversized, InvalidChunk, BodyMissing, Deliver, Leave, Discard,
         Return, Exit, Proceed
    <3>2. CASE ~HttpCb
      BY <1>0, <2>1, <3>2 DEF HttpTyped, HttpNext, Loop, Poll, Edge, Read, Write, Limits,
         HandlerMsg, HandlerAfter, DeferredReply, StartDrain, Gone, Raise, Proceed, Leave, Exit,
         httpVars
    <3> QED BY <3>1, <3>2
  <2>2. CASE UNCHANGED httpVars BY <1>0, <2>2 DEF HttpTyped, httpVars
  <2> QED BY <2>1, <2>2
<1>2. CASE /\ UNCHANGED <<is_resp, delivered, answers, raised>>
           /\ place' \in {"msg", "parsed"} => place' = place
  <2>1. HttpTyped' BY <1>0, <1>1, <1>2 DEF HttpTyped
  <2>2. OneAtATime' BY <1>0, <1>2 DEF OneAtATime
  <2>3. Held'
    <3>1. place' = "msg" => place = "msg" BY <1>2
    <3>2. place' = "parsed" => place = "parsed" BY <1>2
    <3>3. is_resp' = is_resp /\ raised' = raised BY <1>2
    <3> QED BY <1>0, <3>1, <3>2, <3>3 DEF Held
  <2> QED BY <2>1, <2>2, <2>3 DEF HttpInv
<1>3. CASE HttpCb
  <2>0. answers' = answers BY <1>3, OneTurn
  <2>1. CASE Kept
    BY <1>0, <1>1, <2>0, <2>1 DEF HttpInv, HttpTyped, Held, OneAtATime, Kept
  <2>2. CASE Refused
    <3>1. is_resp' = FALSE /\ delivered' = delivered /\ place' \notin {"msg", "parsed"}
      BY <2>2 DEF Refused
    <3>2. raised' = "no" => raised = "no" /\ ~is_resp BY <1>0, <2>2 DEF Refused, Held
    <3>3. raised' # "yes" BY <1>0, <2>2 DEF Refused, Held
    <3>4. raised' \in {"no", "yes", "answered"} BY <1>0, <2>2 DEF Refused, HttpTyped
    <3>5. OneAtATime' BY <1>0, <2>0, <3>1, <3>2 DEF OneAtATime
    <3>6. HttpTyped' BY <1>0, <1>1, <2>0, <3>1, <3>4 DEF HttpTyped
    <3> QED BY <3>1, <3>3, <3>5, <3>6 DEF HttpInv, Held
  <2>3. CASE Faulted
    <3>1. delivered' = delivered /\ raised' = "yes" /\ is_resp' = TRUE /\ place' # "msg"
      BY <2>3 DEF Faulted, Raises, ParsesNoMore
    <3> QED BY <1>0, <1>1, <2>0, <3>1 DEF HttpInv, HttpTyped, Held, OneAtATime
  <2>4. ASSUME NEW e, Gives(e) PROVE HttpInv'
    <3>1. /\ is_resp' = TRUE /\ delivered' = Append(delivered, e) /\ raised' = raised
          /\ place' = "msg"
      BY <2>4 DEF Gives
    <3>2. raised = "no" => ~is_resp BY <1>0, <2>4 DEF Gives, Held
    <3>3. delivered' \in Seq(Range(delivered')) /\ Len(delivered') = Len(delivered) + 1
      BY <1>0, <3>1, OneMoreDelivered DEF HttpTyped
    <3>4. OneAtATime' BY <1>0, <2>0, <3>1, <3>2, <3>3 DEF OneAtATime
    <3>5. HttpTyped' BY <1>0, <1>1, <2>0, <3>1, <3>3 DEF HttpTyped
    <3> QED BY <3>1, <3>4, <3>5 DEF HttpInv, Held
  <2> QED BY <1>3, <2>1, <2>2, <2>3, <2>4, OneTurn
<1>4. CASE is_resp /\ Reply /\ delivered' = delivered /\ place' \notin {"msg", "parsed"}
  <2>1. /\ is_resp' = FALSE /\ answers' = answers + 1
        /\ raised' = IF raised = "no" THEN "no" ELSE "answered"
    BY <1>4 DEF Reply
  <2>2. HttpTyped'
    <3>1. delivered' \in Seq(Range(delivered')) BY <1>0, <1>4 DEF HttpTyped
    <3>2. answers' \in Nat BY <1>0, <2>1
    <3>3. is_resp' \in BOOLEAN BY <2>1
    <3>4. raised' \in {"no", "yes", "answered"} BY <2>1
    <3> QED BY <1>1, <3>1, <3>2, <3>3, <3>4 DEF HttpTyped
  <2>3. raised' # "yes" BY <2>1
  <2>4. OneAtATime'
    <3> SUFFICES ASSUME raised' = "no" PROVE Len(delivered') - answers' = 0
      BY <2>1 DEF OneAtATime
    <3>1. raised = "no" BY <2>1
    <3>2. Len(delivered) - answers = 1 BY <1>0, <1>4, <3>1 DEF OneAtATime
    <3>3. Len(delivered') = Len(delivered) BY <1>4
    <3> QED BY <1>0, <2>1, <3>2, <3>3
  <2> QED BY <1>4, <2>2, <2>3, <2>4 DEF HttpInv, Held
<1>5. CASE Raises /\ UNCHANGED <<delivered, answers>> /\ place' \notin {"msg", "parsed"}
  BY <1>0, <1>1, <1>5 DEF HttpInv, HttpTyped, Held, OneAtATime, Raises, ParsesNoMore
<1>6. CASE UNCHANGED httpVars BY <1>2, <1>6 DEF httpVars, httpFlags, history
<1> QED BY <1>2, <1>3, <1>4, <1>5, <1>6, HttpStep

\* The invariant of is_resp holds throughout.
THEOREM HttpInvariant == HttpSpec => []HttpInv
<1>1. HttpInit => HttpInv
  <2> SUFFICES ASSUME HttpInit PROVE HttpInv OBVIOUS
  <2>1. delivered = <<>> /\ Len(<<>>) = 0 /\ <<>> \in Seq(Range(<<>>))
    BY DEF HttpInit, Range
  <2>2. HttpTyped
    <3>1. delivered \in Seq(Range(delivered)) BY <2>1
    <3> QED BY <3>1 DEF HttpInit, HttpTyped
  <2>3. Held BY DEF HttpInit, Held
  <2>4. OneAtATime
    <3>1. Len(delivered) = 0 BY <2>1
    <3> QED BY <3>1 DEF HttpInit, OneAtATime
  <2> QED BY <2>2, <2>3, <2>4 DEF HttpInv
<1> QED BY <1>1, HttpInvNext, PTL DEF HttpSpec

\* A request is handed to the user only when the one before it has its answer,
\* whether that was given at once, later or on closing, in any pipeline.
THEOREM OneRequestAtATime == HttpSpec => []OneAtATime
<1>1. HttpInv => OneAtATime BY DEF HttpInv
<1> QED BY <1>1, HttpInvariant, PTL

\* After a handler has raised an exception, at the headers, at the message or in a
\* later event, it is handed neither the headers nor the message of any other
\* request, neither what is buffered nor what comes while the connection drains or
\* closes; only the turn in which it raised is finished.
THEOREM ErrorsAreFinal == HttpSpec => ErrorIsFinal
<1> DEFINE Final == place' # "parsed" /\ (delivered' # delivered => place = "parsed")
<1>1. HttpInv /\ [HttpNext]_httpVars => [raised = "yes" => Final]_httpVars
  <2> SUFFICES ASSUME HttpInv, HttpNext, raised = "yes" PROVE Final
    OBVIOUS
  <2>1. is_resp BY DEF HttpInv, Held
  <2>2. CASE HttpCb
    BY <2>1, <2>2, OneTurn DEF Kept, Refused, Faulted, Gives
  <2>3. CASE ~HttpCb BY <2>3, HttpStep
  <2> QED BY <2>2, <2>3
<1> QED BY <1>1, HttpInvariant, PTL DEF HttpSpec, ErrorIsFinal

-----------------------------------------------------------------------------
(* The input: requests one after the other.                                *)

Piece == (1..Requests) \X Nat

\* The pieces of the first n requests.
Laid(n) == FlattenSeq([i \in 1..n |-> Pieces(i)])

Scripted == script \in [1..Requests -> Kinds]

\* A request has at most four pieces, numbered from 1.
LEMMA PiecesAre ==
    ASSUME Scripted, NEW i \in 1..Requests
    PROVE  /\ Shape[script[i]] \in 1..4
           /\ Pieces(i) \in Seq(Piece) /\ Len(Pieces(i)) = Shape[script[i]]
           /\ \A k \in 1..Len(Pieces(i)) : Pieces(i)[k] = <<i, k>>
<1>1. script[i] \in DOMAIN Shape BY HttpAssumption DEF Scripted
<1>2. Shape[script[i]] \in 1..4 BY <1>1 DEF Shape
<1> DEFINE n == Shape[script[i]]
           p == [k \in 1..n |-> <<i, k>>]
<1>3. n \in Nat /\ n \in 1..4 BY <1>2
<1> HIDE DEF n
<1>4. \A k \in 1..n : <<i, k>> \in Piece BY <1>3 DEF Piece
<1>5. p \in [1..n -> Piece] BY <1>4
<1>6. p \in Seq(Piece) /\ Len(p) = n BY <1>3, <1>5
<1>7. Pieces(i) = p BY DEF Pieces, n
<1>8. \A k \in 1..n : p[k] = <<i, k>> OBVIOUS
<1> HIDE DEF p
<1> QED BY <1>3, <1>6, <1>7, <1>8 DEF n

\* The requests before the next one, and that one.
LEMMA FrontIs ==
    ASSUME Scripted, NEW n \in 0..Requests
    PROVE  /\ Laid(0) = <<>>
           /\ Laid(n) \in Seq(Piece) /\ Len(Laid(n)) \in Nat
           /\ n < Requests => Laid(n + 1) = Laid(n) \o Pieces(n + 1)
<1>0. Requests \in Nat /\ n \in Nat BY HttpAssumption
<1> DEFINE f == [i \in 1..Requests |-> Pieces(i)]
<1>1. \A i \in 1..Requests : f[i] \in Seq(Piece) BY PiecesAre
<1>2. \A m \in 0..Requests : Laid(m) = FlattenSeq([i \in 1..m |-> f[i]])
  <2> TAKE m \in 0..Requests
  <2>1. [i \in 1..m |-> f[i]] = [i \in 1..m |-> Pieces(i)] BY <1>0
  <2> QED BY <2>1 DEF Laid
<1> HIDE DEF f
<1>3. Laid(0) = <<>>
  <2>1. [i \in 1..0 |-> Pieces(i)] = <<>> OBVIOUS
  <2>2. <<>> \in Seq(Seq(Piece)) /\ <<>> \in Seq(Piece) OBVIOUS
  <2>3. FlattenSeq(<<>>) = <<>> BY <2>2, FlattenAppend
  <2> QED BY <2>1, <2>3 DEF Laid
<1>4. ASSUME NEW m \in 0..(Requests - 1)
      PROVE  Laid(m) \in Seq(Piece) /\ Laid(m + 1) = Laid(m) \o Pieces(m + 1)
  <2>1. m \in Nat /\ m \in 0..Requests /\ m + 1 \in 0..Requests /\ m + 1 \in 1..Requests
        /\ \A i \in 1..(m + 1) : i \in 1..Requests
    BY <1>0
  <2>2. \A i \in 1..(m + 1) : f[i] \in Seq(Piece) BY <1>1, <2>1
  <2>3. /\ FlattenSeq([i \in 1..m |-> f[i]]) \in Seq(Piece)
        /\ FlattenSeq([i \in 1..(m + 1) |-> f[i]])
             = FlattenSeq([i \in 1..m |-> f[i]]) \o f[m + 1]
    BY <2>1, <2>2, FlattenNext
  <2>4. f[m + 1] = Pieces(m + 1) BY <2>1 DEF f
  <2> QED BY <1>2, <2>1, <2>3, <2>4
<1>5. Laid(n) \in Seq(Piece)
  <2>1. CASE n = 0
    <3>1. <<>> \in Seq(Piece) OBVIOUS
    <3> QED BY <1>3, <2>1, <3>1
  <2>2. CASE n # 0
    <3>1. n - 1 \in 0..(Requests - 1) /\ (n - 1) + 1 = n /\ n \in 1..Requests BY <1>0, <2>2
    <3>2. Laid(n - 1) \in Seq(Piece) /\ Laid(n) = Laid(n - 1) \o Pieces(n) BY <1>4, <3>1
    <3> QED BY <3>1, <3>2, PiecesAre
  <2> QED BY <2>1, <2>2
<1>6. n < Requests => n \in 0..(Requests - 1) BY <1>0
<1> QED BY <1>3, <1>4, <1>5, <1>6

\* The first requests are the beginning of the input.
LEMMA FrontOf ==
    ASSUME Scripted, NEW n \in 0..Requests
    PROVE  /\ Stream \in Seq(Piece) /\ Len(Laid(n)) <= Len(Stream)
           /\ Laid(n) = SubSeq(Stream, 1, Len(Laid(n)))
<1> DEFINE K == {m \in n..Requests : \E r \in Seq(Piece) : Laid(m) = Laid(n) \o r}
<1>0. Requests \in Nat /\ n \in Nat /\ Requests \in 0..Requests BY HttpAssumption
<1>1. n \in K
  <2>1. Laid(n) \in Seq(Piece) BY FrontIs
  <2>2. <<>> \in Seq(Piece) /\ Laid(n) = Laid(n) \o <<>> BY <2>1
  <2>3. n \in n..Requests BY <1>0
  <2>4. \E r \in Seq(Piece) : Laid(n) = Laid(n) \o r BY <2>2
  <2> QED BY <2>3, <2>4
<1>2. ASSUME NEW m \in n..(Requests - 1), m \in K PROVE m + 1 \in K
  <2>1. m \in 0..Requests /\ m < Requests /\ m + 1 \in n..Requests /\ m + 1 \in 1..Requests
    BY <1>0
  <2>2. PICK r \in Seq(Piece) : Laid(m) = Laid(n) \o r BY <1>2
  <2>3. Pieces(m + 1) \in Seq(Piece) BY <2>1, PiecesAre
  <2>4. Laid(n) \in Seq(Piece) BY FrontIs
  <2>5. Laid(m + 1) = (Laid(n) \o r) \o Pieces(m + 1) BY <2>1, <2>2, FrontIs
  <2>6. Laid(m + 1) = Laid(n) \o (r \o Pieces(m + 1))
    <3> DEFINE f == Laid(n)
               x == Pieces(m + 1)
    <3> HIDE DEF f, x
    <3>1. f \in Seq(Piece) /\ x \in Seq(Piece) BY <2>3, <2>4 DEF f, x
    <3>2. (f \o r) \o x = f \o (r \o x) BY <3>1, SMTT(20)
    <3> QED BY <2>5, <3>2 DEF f, x
  <2>7. r \o Pieces(m + 1) \in Seq(Piece) BY <2>3
  <2> QED BY <2>1, <2>6, <2>7
<1>3. Requests \in K
  <2>1. Requests \in n..Requests BY <1>0
  <2> HIDE DEF K
  <2>2. \A m \in n..Requests : m \in K BY <1>0, <1>1, <1>2, Induction
  <2> QED BY <2>1, <2>2
<1>4. PICK r \in Seq(Piece) : Laid(Requests) = Laid(n) \o r BY <1>3
<1>5. Laid(n) \in Seq(Piece) /\ Laid(Requests) \in Seq(Piece) BY <1>0, FrontIs
<1>6. Stream = Laid(Requests) BY DEF Stream, Laid
<1> QED BY <1>4, <1>5, <1>6, FrontOfConcat

\* What comes after the requests before the next one begins with that one.
LEMMA NextRequest ==
    ASSUME Scripted, NEW n \in 0..Requests, Len(Laid(n)) < Len(Stream)
    PROVE  /\ n + 1 \in 1..Requests
           /\ Len(Laid(n + 1)) = Len(Laid(n)) + Shape[script[n + 1]]
           /\ Stream[Len(Laid(n)) + 1] = <<n + 1, 1>>
<1>0. Requests \in Nat /\ n \in Nat BY HttpAssumption
<1>1. Stream = Laid(Requests) BY DEF Stream, Laid
<1>2. n # Requests BY <1>1
<1>3. n < Requests /\ n + 1 \in 1..Requests /\ n + 1 \in 0..Requests BY <1>0, <1>2
<1> DEFINE f == Laid(n)
           x == Pieces(n + 1)
           g == Laid(n + 1)
           S == Stream
<1>4. f \in Seq(Piece) /\ g = f \o x BY <1>3, FrontIs
<1>5. x \in Seq(Piece) /\ Len(x) = Shape[script[n + 1]] /\ Len(x) >= 1 /\ x[1] = <<n + 1, 1>>
  BY <1>3, PiecesAre
<1>6. S \in Seq(Piece) /\ Len(g) <= Len(S) /\ g = SubSeq(S, 1, Len(g)) BY <1>3, FrontOf
<1> HIDE DEF f, x, g, S
<1>7. Len(g) = Len(f) + Len(x) /\ g[Len(f) + 1] = x[1]
  <2>1. Len(f) \in Nat /\ Len(x) \in Nat /\ Len(f) + 1 \in 1..(Len(f) + Len(x)) BY <1>4, <1>5
  <2> QED BY <1>4, <1>5, <2>1, ConcatProperties, SMTT(20)
<1>8. g[Len(f) + 1] = S[Len(f) + 1]
  <2>1. Len(f) + 1 \in 1..Len(g) BY <1>4, <1>5, <1>7
  <2> QED BY <1>6, <2>1
<1> QED BY <1>3, <1>5, <1>7, <1>8 DEF f, x, g, S

-----------------------------------------------------------------------------
(* What is buffered is the rest of the input.                              *)

\* The types of the input and of http_cb()'s place in it.
FlowTyped ==
    /\ Scripted /\ arrived \in 0..Len(Stream)
    /\ recv \in Seq(Range(Stream)) /\ ofs \in 0..Len(recv) /\ send \in Nat
    /\ is_draining \in BOOLEAN /\ closing \in BOOLEAN
    /\ detached \in BOOLEAN /\ was_resp \in BOOLEAN
    /\ event \in {"POLL", "READ", "CLOSE"}
    /\ delivered \in Seq(0..Requests)

\* http_cb() parses from the beginning, and MG_EV_CLOSE is the last event.
FlowRules ==
    /\ place \notin {"cb", "parsed", "msg"} => ofs = 0
    /\ event = "CLOSE" => closing

\* While the connection is open, the requests delivered are the first ones, in
\* their order, and the buffer holds what follows the last of them, up to the
\* last piece read.
InOrder ==
    Open => LET n == Len(delivered)
            IN  /\ n \in 0..Requests /\ \A j \in 1..n : delivered[j] = j
                /\ Len(Laid(n)) <= arrived
                /\ Past(ofs) = SubSeq(Stream, Len(Laid(n)) + 1, arrived)

\* The inductive invariant of the flow of input.
FlowInv == FlowTyped /\ FlowRules /\ InOrder

\* What the types say about the buffer.
LEMMA BufferIs ==
    ASSUME FlowTyped
    PROVE  /\ Stream \in Seq(Piece) /\ Len(Stream) \in Nat /\ arrived \in Nat
           /\ recv \in Seq(Piece) /\ Len(recv) \in Nat /\ ofs \in Nat
           /\ \A k \in ofs..Len(recv) :
                /\ SubSeq(recv, k + 1, Len(recv)) \in Seq(Range(Stream))
                /\ Len(SubSeq(recv, k + 1, Len(recv))) = Len(recv) - k
           /\ \A i \in 1..Len(recv) : recv[i] \in Piece
<1>1. Requests \in Nat /\ 0 \in 0..Requests BY HttpAssumption
<1>2. Stream \in Seq(Piece) BY <1>1, FrontOf DEF FlowTyped
<1>3. Len(Stream) \in Nat /\ Range(Stream) \subseteq Piece BY <1>2 DEF Range
<1>4. recv \in Seq(Piece) BY <1>3, SeqMonotonic DEF FlowTyped
<1>5. recv \in Seq(Range(Stream)) /\ ofs \in 0..Len(recv) BY DEF FlowTyped
<1>6. Len(recv) \in Nat BY <1>5
<1>7. ASSUME NEW k \in ofs..Len(recv)
      PROVE  /\ SubSeq(recv, k + 1, Len(recv)) \in Seq(Range(Stream))
             /\ Len(SubSeq(recv, k + 1, Len(recv))) = Len(recv) - k
  <2>1. k \in Nat /\ Len(recv) \in k..Len(recv) /\ 0 \in 0..(Len(recv) - k) BY <1>5, <1>6
  <2> QED BY <1>5, <2>1, RestOfSub
<1> QED BY <1>2, <1>3, <1>4, <1>5, <1>6, <1>7 DEF FlowTyped

Todo == Past(ofs)

\* A step that reads nothing: the input and its layout stay.
LEMMA InputSame ==
    ASSUME UNCHANGED input
    PROVE  /\ Scripted' <=> Scripted
           /\ Stream' = Stream /\ \A n : Laid(n)' = Laid(n)
BY DEF input, Scripted, Stream, Laid, Pieces

\* The ways out of http_cb().
LEMMA OutOf ==
    ASSUME FlowTyped, Leave \/ Discard \/ Return
    PROVE  /\ place' = "user" /\ ofs' = 0 /\ event' = event
           /\ recv' \in Seq(Range(Stream)) /\ Len(recv') \in Nat
           /\ Leave => Todo' = Todo
<1>1. place' = "user" /\ ofs' = 0 /\ event' = event BY DEF Leave, Discard, Return, Exit
<1>2. recv \in Seq(Range(Stream)) /\ ofs \in ofs..Len(recv) /\ Len(recv) \in Nat /\ ofs \in Nat
  BY BufferIs DEF FlowTyped
<1>3. CASE Leave
  <2> DEFINE u == SubSeq(recv, ofs + 1, Len(recv))
  <2>1. recv' = u BY <1>3 DEF Leave, Past
  <2>2. u \in Seq(Range(Stream)) /\ Len(u) \in Nat BY <1>2, BufferIs
  <2>3. Todo' = SubSeq(u, 0 + 1, Len(u)) BY <1>1, <2>1 DEF Todo, Past
  <2> HIDE DEF u
  <2>4. SubSeq(u, 1, Len(u)) = u BY <2>2, SubSeqFull
  <2>5. Todo' = u BY <2>3, <2>4
  <2> QED BY <1>1, <2>1, <2>2, <2>5 DEF Todo, Past, u
<1>4. CASE ~Leave
  <2>1. recv' = <<>> \/ recv' = recv BY <1>4 DEF Discard, Return
  <2>2. <<>> \in Seq(Range(Stream)) /\ Len(<<>>) = 0 OBVIOUS
  <2> QED BY <1>1, <1>2, <1>4, <2>1, <2>2
<1> QED BY <1>3, <1>4

\* http_cb() keeps the types.
LEMMA CbTypes ==
    ASSUME FlowTyped, FlowRules, HttpCb
    PROVE  FlowTyped' /\ FlowRules'
<1> USE DEF httpFlags, history
<1>0. /\ Scripted' /\ Stream' = Stream /\ arrived' = arrived /\ was_resp' = was_resp
  BY InputSame DEF HttpCb, FlowTyped, input
<1>1. CASE Nothing \/ Partial \/ BodyMissing \/ InvalidEncoding \/ InvalidChunk \/ NotHttp
  <2>1. Leave \/ Discard \/ Return
    BY <1>1 DEF Nothing, Partial, BodyMissing, InvalidEncoding, InvalidChunk, NotHttp
  <2>2. /\ send' = send /\ delivered' = delivered
        /\ is_draining' \in BOOLEAN /\ closing' \in BOOLEAN /\ detached' \in BOOLEAN
        /\ closing = TRUE => closing' = TRUE
    BY <1>1 DEF Nothing, Partial, BodyMissing, InvalidEncoding, InvalidChunk, NotHttp, FlowTyped
  <2>3. /\ place' = "user" /\ ofs' = 0 /\ event' = event
        /\ recv' \in Seq(Range(Stream)) /\ Len(recv') \in Nat
    BY <2>1, OutOf
  <2>4. ofs' \in 0..Len(recv') BY <2>3
  <2>5. FlowTyped'
    <3>1. /\ arrived' \in 0..Len(Stream') /\ recv' \in Seq(Range(Stream'))
          /\ send' \in Nat /\ was_resp' \in BOOLEAN /\ delivered' \in Seq(0..Requests)
          /\ event' \in {"POLL", "READ", "CLOSE"}
      BY <1>0, <2>2, <2>3 DEF FlowTyped
    <3> QED BY <1>0, <2>2, <2>4, <3>1 DEF FlowTyped
  <2>6. FlowRules'
    <3>1. event = "CLOSE" => closing = TRUE BY DEF FlowTyped, FlowRules
    <3> QED BY <2>2, <2>3, <3>1 DEF FlowRules
  <2> QED BY <2>5, <2>6
<1>2. CASE TooManyHeaders \/ Oversized
  <2>1. Discard BY <1>2 DEF TooManyHeaders, Oversized
  <2>2. /\ delivered' = delivered /\ is_draining' = TRUE /\ UNCHANGED <<closing, detached>>
    BY <1>2 DEF TooManyHeaders, Oversized
  <2>3. send' \in Nat BY <1>2 DEF TooManyHeaders, Oversized, LengthMissing, FlowTyped
  <2> QED BY <1>0, <2>1, <2>2, <2>3, OutOf DEF FlowTyped, FlowRules
<1>3. ASSUME NEW e \in 0..Requests, delivered' = Append(delivered, e),
             UNCHANGED <<event, recv, is_draining, closing, detached>>,
             place' = "msg", ofs' \in 0..Len(recv), send' \in Nat
      PROVE  FlowTyped' /\ FlowRules'
  <2>1. delivered' \in Seq(0..Requests) BY <1>3 DEF FlowTyped
  <2>2. ofs' \in 0..Len(recv') BY <1>3
  <2>3. recv' \in Seq(Range(Stream')) BY <1>0, <1>3 DEF FlowTyped
  <2> QED BY <1>0, <1>3, <2>1, <2>2, <2>3 DEF FlowTyped, FlowRules
<1>4. CASE Middle
  <2>1. CASE Leave /\ UNCHANGED <<send, httpFlags, history>>
    BY <1>0, <2>1, OutOf DEF FlowTyped, FlowRules
  <2>2. CASE is_draining' = TRUE /\ Discard /\ UNCHANGED <<send, is_resp, closing, detached, history>>
    BY <1>0, <2>2, OutOf DEF FlowTyped, FlowRules
  <2>3. CASE place' = "msg"
    <3>1. /\ delivered' = Append(delivered, HIDDEN) /\ ofs' = ofs + 1 /\ ofs < Len(recv)
          /\ UNCHANGED <<event, recv, is_draining, closing, detached, send>> /\ place' = "msg"
      BY <1>4, <2>3 DEF Middle, More, Leave, Discard, Exit
    <3>2. HIDDEN \in 0..Requests BY HttpAssumption DEF HIDDEN
    <3>3. ofs' \in 0..Len(recv) BY <3>1, BufferIs
    <3> QED BY <1>3, <3>1, <3>2, <3>3 DEF FlowTyped
  <2> QED BY <1>4, <2>1, <2>2, <2>3 DEF Middle
<1>5. CASE Deliver
  <2>1. /\ delivered' = Append(delivered, Req) /\ place' = "msg"
        /\ UNCHANGED <<event, recv, is_draining, closing, detached>>
    BY <1>5 DEF Deliver
  <2>2. send' \in Nat BY <1>5 DEF Deliver, LengthMissing, FlowTyped
  <2>3. ofs + 1 \in 1..Len(recv) /\ ofs \in Nat /\ Len(recv) \in Nat
    BY <1>5, BufferIs DEF Deliver, Announced
  <2>4. recv[ofs + 1] \in Piece BY <2>3, BufferIs
  <2>5. Req \in 1..Requests BY <2>4 DEF Piece, Req, NextPiece
  <2>6. Shape[Kind] \in 1..4 BY <2>5, PiecesAre DEF Kind, FlowTyped
  <2>7. Complete \/ (event = "CLOSE" /\ Kind # "chunked") BY <1>5 DEF Deliver, Announced
  <2>8. ofs' \in 0..Len(recv) BY <1>5, <2>3, <2>6, <2>7 DEF Deliver, Complete, Size, Rest
  <2>9. Req \in 0..Requests BY <2>5, HttpAssumption
  <2> QED BY <1>3, <2>1, <2>2, <2>8, <2>9
<1>6. CASE HandlerHdrs
  <2>1. UNCHANGED <<closing, delivered>> BY <1>6 DEF HandlerHdrs
  <2>2. send' = send \/ send' = send + 1 BY <1>6 DEF HandlerHdrs
  <2>3. is_draining' = is_draining \/ is_draining' = TRUE BY <1>6 DEF HandlerHdrs, Raises
  <2>4. send' \in Nat /\ is_draining' \in BOOLEAN
    <3>1. send' \in Nat BY <2>2 DEF FlowTyped
    <3>2. is_draining' \in BOOLEAN BY <2>3 DEF FlowTyped
    <3> QED BY <3>1, <3>2
  <2>5. CASE detached' = TRUE /\ Discard
    BY <1>0, <2>1, <2>4, <2>5, OutOf DEF FlowTyped, FlowRules
  <2>6. CASE UNCHANGED <<recv, detached>> /\ Proceed("parsed")
    BY <1>0, <2>1, <2>4, <2>6 DEF FlowTyped, FlowRules, Proceed
  <2> QED BY <1>6, <2>5, <2>6 DEF HandlerHdrs
<1> QED BY <1>1, <1>2, <1>4, <1>5, <1>6 DEF HttpCb

\* What a step does to the input that is still to be parsed, while the connection
\* stays open: nothing, more of it is read, or a complete request is taken off.
Reads ==
    /\ \E n \in (arrived + 1)..Len(Stream) :
          recv' = recv \o SubSeq(Stream, arrived + 1, n) /\ arrived' = n
    /\ ofs = 0 /\ ofs' = 0 /\ UNCHANGED <<script, delivered>>
Takes ==
    /\ Rest >= Shape[Kind] /\ ofs < Len(recv)
    /\ delivered' = Append(delivered, Req)
    /\ ofs' = ofs + Shape[Kind] /\ UNCHANGED <<input, recv>>
Leaves == UNCHANGED <<input, delivered>> /\ Todo' = Todo

\* While the connection is open, http_cb() is never in the middle of a request.
LEMMA NotInside ==
    ASSUME FlowTyped, FlowRules, InOrder, Open, ofs < Len(recv)
    PROVE  /\ recv[ofs + 1] = <<Len(delivered) + 1, 1>>
           /\ Len(delivered) + 1 \in 1..Requests
           /\ Len(Laid(Len(delivered) + 1)) = Len(Laid(Len(delivered))) + Shape[script[Len(delivered) + 1]]
<1> DEFINE n == Len(delivered)
           L == Len(Laid(n))
<1>1. /\ n \in 0..Requests /\ L <= arrived
      /\ Past(ofs) = SubSeq(Stream, L + 1, arrived)
  BY DEF InOrder
<1>2. L \in Nat /\ arrived \in Nat /\ arrived <= Len(Stream) /\ Len(Stream) \in Nat
  BY <1>1, FrontIs, BufferIs DEF FlowTyped
<1>3. /\ Len(Past(ofs)) = Len(recv) - ofs /\ Len(recv) \in Nat /\ ofs \in Nat /\ ofs \in ofs..Len(recv)
  BY BufferIs DEF Past, FlowTyped
<1> HIDE DEF n, L
<1>4. Past(ofs)[1] = recv[ofs + 1]
  <2>1. 1 \in 1..(Len(recv) - ofs) /\ Len(recv) \in ofs..Len(recv) /\ 0 \in 0..(Len(recv) - ofs)
    BY <1>3
  <2>2. recv \in Seq(Piece) BY BufferIs
  <2>3. SubSeq(recv, ofs + 1, Len(recv))[1] = recv[ofs + 1] BY <1>3, <2>1, <2>2, RestOfSub
  <2> QED BY <2>3 DEF Past
<1>5. L < arrived /\ Past(ofs)[1] = Stream[L + 1]
  <2>1. arrived \in L..Len(Stream) /\ 0 \in 0..(arrived - L) BY <1>1, <1>2
  <2>2. Stream \in Seq(Piece) BY BufferIs
  <2>3. /\ Len(SubSeq(Stream, L + 1, arrived)) = arrived - L
        /\ \A i \in 1..(arrived - L) : SubSeq(Stream, L + 1, arrived)[i] = Stream[L + i]
    BY <1>2, <2>1, <2>2, RestOfSub
  <2>4. arrived - L = Len(recv) - ofs BY <1>1, <1>3, <2>3
  <2>5. 1 \in 1..(arrived - L) BY <1>2, <1>3, <2>4
  <2> QED BY <1>1, <1>2, <2>3, <2>5
<1>6. /\ n + 1 \in 1..Requests /\ Len(Laid(n + 1)) = L + Shape[script[n + 1]]
      /\ Stream[L + 1] = <<n + 1, 1>>
  <2>1. L < Len(Stream) BY <1>2, <1>5
  <2> QED BY <1>1, <2>1, NextRequest DEF FlowTyped, L
<1> QED BY <1>4, <1>5, <1>6 DEF n, L

\* What one turn of the loop of http_cb() does while the connection is open.
LEMMA CbFlow ==
    ASSUME FlowTyped, FlowRules, InOrder, HttpCb, Open'
    PROVE  Open /\ (Leaves \/ Takes)
<1> USE DEF httpFlags, history
<1>0. UNCHANGED input BY DEF HttpCb
<1>1. CASE Nothing \/ Partial \/ BodyMissing
  <2>1. Leave /\ UNCHANGED <<httpFlags, history>> BY <1>1 DEF Nothing, Partial, BodyMissing
  <2> QED BY <1>0, <2>1, OutOf DEF Open, Leaves
<1>2. CASE Middle
  <2>1. UNCHANGED <<closing, detached>> /\ (is_draining' = is_draining \/ is_draining' = TRUE)
    BY <1>2 DEF Middle
  <2>2. Open BY <2>1 DEF Open
  <2>3. ofs < Len(recv) /\ recv[ofs + 1][2] # 1 BY <1>2 DEF Middle, More, AtHead, NextPiece
  <2> QED BY <2>2, <2>3, NotInside
<1>3. CASE NotHttp \/ TooManyHeaders \/ InvalidEncoding \/ Oversized \/ InvalidChunk
  BY <1>3 DEF NotHttp, TooManyHeaders, InvalidEncoding, Oversized, InvalidChunk, Open
<1>4. CASE Deliver
  <2>1. Open BY <1>4 DEF Deliver, Open
  <2>2. event # "CLOSE" BY <2>1 DEF FlowRules, Open
  <2>3. Complete /\ ofs < Len(recv) BY <1>4, <2>2 DEF Deliver, Announced
  <2> QED BY <1>0, <1>4, <2>1, <2>2, <2>3 DEF Deliver, Complete, Size, Takes
<1>5. CASE HandlerHdrs
  <2>1. ~Raises /\ detached' # TRUE BY DEF Raises, Open
  <2>2. UNCHANGED <<is_draining, closing, delivered, detached, recv, ofs>>
    BY <1>5, <2>1 DEF HandlerHdrs, Proceed
  <2> QED BY <1>0, <2>2 DEF Open, Leaves, Todo, Past
<1> QED BY <1>1, <1>2, <1>3, <1>4, <1>5 DEF HttpCb

\* The visits of the loop and the user's handlers keep the types too.
LEMMA FlowTypes ==
    ASSUME FlowTyped, FlowRules, HttpTyped, HttpNext
    PROVE  FlowTyped' /\ FlowRules'
<1> USE DEF httpFlags, history, input
<1>1. CASE HttpCb BY <1>1, CbTypes
<1>2. CASE Read
  <2>1. /\ script' = script /\ Scripted' /\ Stream' = Stream
        /\ UNCHANGED <<send, is_draining, detached, was_resp, delivered>>
        /\ place = "io" /\ ofs = 0 /\ ofs' = 0
    BY <1>2 DEF Read, Raise, Proceed, Scripted, Stream, Pieces, FlowTyped, FlowRules
  <2>2. closing' \in BOOLEAN /\ (closing = TRUE => closing' = TRUE) BY <1>2 DEF Read, FlowTyped
  <2>3. event' \in {"POLL", "READ", "CLOSE"} /\ (event' = "CLOSE" => event = "CLOSE")
    BY <1>2 DEF Read, Raise, Proceed, FlowTyped
  <2>4. FlowRules' BY <2>1, <2>2, <2>3 DEF FlowRules, FlowTyped
  <2>5. arrived' \in 0..Len(Stream) /\ recv' \in Seq(Range(Stream))
    <3>1. CASE UNCHANGED <<recv, arrived>> BY <3>1 DEF FlowTyped
    <3>2. CASE Reads
      <4>1. PICK n \in (arrived + 1)..Len(Stream) :
              recv' = recv \o SubSeq(Stream, arrived + 1, n) /\ arrived' = n
        BY <3>2 DEF Reads
      <4>2. /\ Stream \in Seq(Range(Stream)) /\ arrived \in Nat /\ Len(Stream) \in Nat
            /\ n \in arrived..Len(Stream) /\ 0 \in 0..(n - arrived)
        <5>1. Stream \in Seq(Range(Stream)) BY BufferIs, SeqOfRange
        <5> QED BY <5>1, BufferIs
      <4>3. SubSeq(Stream, arrived + 1, n) \in Seq(Range(Stream)) BY <4>2, RestOfSub
      <4> QED BY <4>1, <4>2, <4>3 DEF FlowTyped
    <3>3. Reads \/ UNCHANGED <<recv, arrived>> BY <1>2, <2>1 DEF Read, Reads
    <3> QED BY <3>1, <3>2, <3>3
  <2>6. ofs' \in 0..Len(recv')
    <3>1. Len(recv') \in Nat BY <2>5
    <3> QED BY <2>1, <3>1
  <2> QED BY <2>1, <2>2, <2>3, <2>4, <2>5, <2>6 DEF FlowTyped
<1>3. CASE HandlerMsg
  <2>1. /\ UNCHANGED <<input, closing, detached, was_resp, delivered>> /\ event' = event
    BY <1>3 DEF HandlerMsg, Leave, Exit, Proceed
  <2>2. Scripted' /\ Stream' = Stream BY <2>1, InputSame DEF FlowTyped
  <2>3. is_draining' \in BOOLEAN /\ send' \in Nat
    <3>1. is_draining' = is_draining \/ is_draining' = TRUE BY <1>3 DEF HandlerMsg, Raises
    <3>2. send' = send \/ send' = send + 1 BY <1>3 DEF HandlerMsg, Reply
    <3>3. is_draining' \in BOOLEAN BY <3>1 DEF FlowTyped
    <3>4. send' \in Nat BY <3>2 DEF FlowTyped
    <3> QED BY <3>3, <3>4
  <2>4. /\ ofs' \in 0..Len(recv') /\ recv' \in Seq(Range(Stream))
        /\ place' \notin {"cb", "parsed", "msg"} => ofs' = 0
    <3>1. CASE Leave
      <4>1. place' = "user" /\ ofs' = 0 /\ recv' \in Seq(Range(Stream)) /\ Len(recv') \in Nat
        BY <3>1, OutOf
      <4> QED BY <4>1
    <3>2. CASE UNCHANGED recv /\ Proceed("cb") BY <3>2 DEF Proceed, FlowTyped
    <3>3. Leave \/ (UNCHANGED recv /\ Proceed("cb")) BY <1>3 DEF HandlerMsg
    <3> QED BY <3>1, <3>2, <3>3
  <2>5. FlowRules' BY <2>1, <2>4 DEF FlowRules
  <2> QED BY <2>1, <2>2, <2>3, <2>4, <2>5 DEF FlowTyped
<1>4. CASE HandlerAfter \/ DeferredReply \/ StartDrain \/ Gone \/ Poll \/ Edge \/ Write \/ Limits
  <2>1. UNCHANGED <<input, recv, delivered, detached>> /\ (closing = TRUE => closing' = TRUE)
    BY <1>4 DEF HandlerAfter, DeferredReply, StartDrain, Gone, Poll, Edge, Write, Limits, httpVars,
       FlowTyped
  <2>2. Scripted' /\ Stream' = Stream BY <2>1, InputSame DEF FlowTyped
  <2>3. is_draining' \in BOOLEAN /\ closing' \in BOOLEAN /\ was_resp' \in BOOLEAN
    BY <1>4 DEF HandlerAfter, DeferredReply, StartDrain, Gone, Poll, Edge, Write, Limits, httpVars,
       FlowTyped, HttpTyped, Raises
  <2>4. send' \in Nat
    BY <1>4 DEF HandlerAfter, DeferredReply, StartDrain, Gone, Poll, Edge, Write, Limits, httpVars,
       FlowTyped, Reply
  <2>5. /\ event' \in {"POLL", "READ", "CLOSE"}
        /\ event' = "CLOSE" => event = "CLOSE" \/ closing' = TRUE
    BY <1>4 DEF HandlerAfter, DeferredReply, StartDrain, Gone, Poll, Edge, Write, Limits, httpVars,
       FlowTyped, Raise, Proceed
  <2>6. ofs' = ofs \/ ofs' = 0
    BY <1>4 DEF HandlerAfter, DeferredReply, StartDrain, Gone, Poll, Edge, Write, Limits, httpVars,
       Raise, Proceed
  <2>7. place \notin {"cb", "parsed", "msg"} \/ (place' = place /\ ofs' = ofs)
    BY <1>4 DEF HandlerAfter, DeferredReply, StartDrain, Gone, Poll, Edge, Write, Limits, httpVars
  <2>8. ofs' \in 0..Len(recv')
    <3>1. Len(recv) \in Nat BY BufferIs
    <3> QED BY <2>1, <2>6, <3>1 DEF FlowTyped
  <2>9. FlowRules'
    <3>1. event = "CLOSE" => closing = TRUE BY DEF FlowRules, FlowTyped
    <3>2. event' = "CLOSE" => closing' = TRUE BY <2>1, <2>5, <3>1
    <3>3. place' \notin {"cb", "parsed", "msg"} => ofs' = 0 BY <2>6, <2>7 DEF FlowRules
    <3> QED BY <3>2, <3>3 DEF FlowRules
  <2>10. arrived' \in 0..Len(Stream) /\ recv' \in Seq(Range(Stream)) /\ delivered' \in Seq(0..Requests)
         /\ detached' \in BOOLEAN
    BY <2>1 DEF FlowTyped
  <2> QED BY <2>2, <2>3, <2>4, <2>5, <2>8, <2>9, <2>10 DEF FlowTyped
<1> QED BY <1>1, <1>2, <1>3, <1>4 DEF HttpNext, Loop

\* What a step does to the flow while the connection stays open.
LEMMA FlowStep ==
    ASSUME FlowTyped, FlowRules, InOrder, HttpNext, Open'
    PROVE  Open /\ (Leaves \/ Takes \/ Reads)
<1> USE DEF httpFlags, history, input
<1>1. CASE HttpCb BY <1>1, CbFlow
<1>2. CASE Read
  <2>1. ofs = 0 /\ ofs' = 0 BY <1>2 DEF Read, Raise, Proceed, FlowRules
  <2>2. UNCHANGED <<script, delivered, is_draining, detached>> BY <1>2 DEF Read
  <2>3. Open BY <1>2, <2>2 DEF Read, Open
  <2>4. CASE UNCHANGED <<recv, arrived>>
    BY <2>1, <2>2, <2>3, <2>4 DEF Leaves, Todo, Past
  <2>5. Reads \/ UNCHANGED <<recv, arrived>> BY <1>2, <2>1, <2>2 DEF Read, Reads
  <2> QED BY <2>3, <2>4, <2>5
<1>3. CASE HandlerMsg
  <2>1. UNCHANGED <<closing, detached, delivered, script, arrived>> BY <1>3 DEF HandlerMsg
  <2>2. is_draining' = is_draining \/ is_draining' = TRUE BY <1>3 DEF HandlerMsg, Raises
  <2>3. Open BY <2>1, <2>2 DEF Open
  <2>4. CASE Leave BY <2>1, <2>3, <2>4, OutOf DEF Leaves
  <2>5. CASE UNCHANGED recv /\ Proceed("cb") BY <2>1, <2>3, <2>5 DEF Leaves, Todo, Past, Proceed
  <2> QED BY <1>3, <2>4, <2>5 DEF HandlerMsg
<1>4. CASE HandlerAfter \/ DeferredReply \/ StartDrain \/ Gone \/ Poll \/ Edge \/ Write \/ Limits
  <2>1. UNCHANGED <<script, arrived, recv, delivered, detached>>
    BY <1>4 DEF HandlerAfter, DeferredReply, StartDrain, Gone, Poll, Edge, Write, Limits, httpVars
  <2>2. /\ is_draining' = is_draining \/ is_draining' = TRUE
        /\ closing' = closing \/ closing' = TRUE
    BY <1>4 DEF HandlerAfter, DeferredReply, StartDrain, Gone, Poll, Edge, Write, Limits, httpVars,
       Raises
  <2>3. Open BY <2>1, <2>2 DEF Open
  <2>4. ofs' = ofs
    BY <1>4 DEF HandlerAfter, DeferredReply, StartDrain, Gone, Poll, Edge, Write, Limits, httpVars,
       Raise, Proceed, FlowRules
  <2> QED BY <2>1, <2>3, <2>4 DEF Leaves, Todo, Past
<1> QED BY <1>1, <1>2, <1>3, <1>4 DEF HttpNext, Loop

\* The flow is kept: what is read goes behind what is still to be parsed, and a
\* request that is delivered is taken off its front.
LEMMA InOrderKept ==
    ASSUME FlowTyped, FlowRules, InOrder, FlowTyped', HttpNext
    PROVE  InOrder'
<1> SUFFICES ASSUME Open' PROVE InOrder' BY DEF InOrder
<1> DEFINE n == Len(delivered)
           L == Len(Laid(n))
           S == Stream
<1>0. Open /\ (Leaves \/ Takes \/ Reads) BY FlowStep
<1>1. /\ n \in 0..Requests /\ \A j \in 1..n : delivered[j] = j
      /\ L <= arrived /\ Todo = SubSeq(S, L + 1, arrived)
  BY <1>0 DEF InOrder, Todo
<1>2. /\ L \in Nat /\ arrived \in Nat /\ arrived <= Len(S) /\ Len(S) \in Nat /\ S \in Seq(Piece)
      /\ arrived \in L..Len(S) /\ n \in Nat /\ Requests \in Nat
  BY <1>1, FrontIs, BufferIs, HttpAssumption DEF FlowTyped
<1>3. script' = script BY <1>0 DEF Leaves, Takes, Reads, input
<1>4. Stream' = S /\ \A m : Laid(m)' = Laid(m) BY <1>3 DEF Stream, Laid, Pieces
<1>5. CASE Leaves
  <2>1. arrived' = arrived /\ delivered' = delivered /\ Todo' = Todo BY <1>5 DEF Leaves, input
  <2>2. Len(Laid(Len(delivered)))' = L BY <1>4, <2>1
  <2>3. Todo' = SubSeq(Stream', L + 1, arrived') BY <1>1, <1>4, <2>1
  <2> HIDE DEF L, n
  <2>4. Len(delivered') = n BY <2>1 DEF n
  <2> QED BY <1>1, <2>1, <2>2, <2>3, <2>4 DEF InOrder, Todo, n
<1>6. CASE Reads
  <2>1. PICK k \in (arrived + 1)..Len(S) :
          recv' = recv \o SubSeq(S, arrived + 1, k) /\ arrived' = k
    BY <1>6 DEF Reads
  <2>2. delivered' = delivered /\ ofs = 0 /\ ofs' = 0 BY <1>6 DEF Reads
  <2>3. Todo = recv /\ Todo' = recv'
    <3>1. recv \in Seq(Range(Stream)) /\ recv' \in Seq(Range(Stream')) BY DEF FlowTyped
    <3>2. SubSeq(recv, 1, Len(recv)) = recv BY <3>1, SubSeqFull
    <3>3. SubSeq(recv', 1, Len(recv')) = recv' BY <3>1, SubSeqFull
    <3> QED BY <2>2, <3>2, <3>3 DEF Todo, Past
  <2>4. SubSeq(S, L + 1, arrived) \o SubSeq(S, arrived + 1, k) = SubSeq(S, L + 1, k)
    <3>1. L + 1 \in 1..Len(S) + 1 /\ arrived \in (L + 1) - 1..Len(S) /\ k \in arrived..Len(S)
      BY <1>2
    <3> HIDE DEF S, L
    <3> QED BY <1>2, <3>1, ConcatAdjacentSubSeq
  <2>5. Todo' = SubSeq(Stream', L + 1, arrived') BY <1>1, <1>4, <2>1, <2>3, <2>4
  <2>6. Len(Laid(Len(delivered)))' = L BY <1>4, <2>2
  <2>7. L <= arrived' BY <1>2, <2>1
  <2> HIDE DEF L, n
  <2>8. Len(delivered') = n BY <2>2 DEF n
  <2> QED BY <1>1, <2>2, <2>5, <2>6, <2>7, <2>8 DEF InOrder, Todo, n
<1>7. CASE Takes
  <2>1. /\ recv[ofs + 1] = <<n + 1, 1>> /\ n + 1 \in 1..Requests
        /\ Len(Laid(n + 1)) = L + Shape[script[n + 1]]
    BY <1>0, <1>7, NotInside DEF Takes
  <2>2. Req = n + 1 BY <2>1 DEF Req, NextPiece
  <2> DEFINE k == Shape[script[n + 1]]
  <2>3. /\ delivered' = Append(delivered, n + 1) /\ arrived' = arrived /\ recv' = recv
        /\ ofs' = ofs + k /\ Len(recv) - ofs >= k
    BY <1>7, <2>2 DEF Takes, Kind, Rest, input
  <2>4. k \in Nat BY <2>1, PiecesAre, SMTT(20) DEF FlowTyped
  <2>5. recv \in Seq(Piece) /\ Len(recv) \in Nat /\ ofs \in Nat BY BufferIs
  <2> HIDE DEF k
  <2>6. Todo' = SubSeq(recv, ofs + k + 1, Len(recv)) BY <2>3 DEF Todo, Past
  <2>7. /\ Len(Todo) = Len(recv) - ofs
        /\ SubSeq(Todo, k + 1, Len(recv) - ofs) = SubSeq(recv, ofs + k + 1, Len(recv))
    <3>1. Len(recv) \in ofs..Len(recv) /\ k \in 0..(Len(recv) - ofs) BY <2>3, <2>4, <2>5, FlowTyped DEF FlowTyped
    <3> QED BY <2>5, <3>1, RestOfSub DEF Todo, Past
  <2> HIDE DEF L, S
  <2>8. /\ Len(Todo) = arrived - L
        /\ k \in 0..(arrived - L) => SubSeq(Todo, k + 1, arrived - L) = SubSeq(S, L + k + 1, arrived)
    <3>1. 0 \in 0..(arrived - L) BY <1>2
    <3>2. Len(SubSeq(S, L + 1, arrived)) = arrived - L BY <1>2, <3>1, RestOfSub
    <3>3. k \in 0..(arrived - L) =>
             SubSeq(SubSeq(S, L + 1, arrived), k + 1, arrived - L) = SubSeq(S, L + k + 1, arrived)
      BY <1>2, RestOfSub
    <3> QED BY <1>1, <3>2, <3>3
  <2>9. k \in 0..(arrived - L) /\ Len(recv) - ofs = arrived - L
    <3>1. Len(recv) - ofs = arrived - L BY <2>7, <2>8
    <3>2. arrived - L \in Int /\ arrived - L >= k BY <1>2, <2>3, <3>1
    <3> QED BY <2>4, <3>1, <3>2
  <2>10. Todo' = SubSeq(S, L + k + 1, arrived) BY <2>6, <2>7, <2>8, <2>9
  <2>11. /\ Len(delivered') = n + 1
         /\ \A j \in 1..(n + 1) : delivered'[j] = j
    <3>1. delivered \in Seq(0..Requests) BY DEF FlowTyped
    <3>2. n + 1 \in 0..Requests BY <1>2, <2>1
    <3>3. /\ Len(delivered') = n + 1 /\ delivered'[n + 1] = n + 1
          /\ \A j \in 1..n : delivered'[j] = delivered[j]
      BY <2>3, <3>1, <3>2, AppendProperties
    <3>4. \A j \in 1..(n + 1) : j \in 1..n \/ j = n + 1 BY <1>2
    <3> QED BY <1>1, <3>3, <3>4
  <2>12. Len(Laid(Len(delivered)))' = L + k BY <1>4, <2>1, <2>11 DEF k
  <2>13. n + 1 \in 0..Requests /\ L + k <= arrived BY <1>2, <2>1, <2>4, <2>9
  <2> HIDE DEF n
  <2> QED BY <1>4, <2>3, <2>10, <2>11, <2>12, <2>13 DEF InOrder, Todo, S
<1> QED BY <1>0, <1>5, <1>6, <1>7

\* The requests delivered, laid out, are the beginning of the input.
LEMMA TakenIs ==
    ASSUME FlowTyped, InOrder, Open
    PROVE  Taken = Laid(Len(delivered))
<1> DEFINE n == Len(delivered)
           s == [j \in DOMAIN delivered |-> Pieces(delivered[j])]
           t == [j \in 1..n |-> Pieces(j)]
<1>1. n \in 0..Requests /\ \A j \in 1..n : delivered[j] = j BY DEF InOrder
<1>2. DOMAIN delivered = 1..n BY DEF FlowTyped
<1>3. s = t BY <1>1, <1>2
<1> QED BY <1>3 DEF Taken, Laid

\* The invariant of the flow, with that of is_resp, is inductive.
LEMMA FlowInvNext == HttpInv /\ FlowInv /\ [HttpNext]_httpVars => FlowInv'
<1> SUFFICES ASSUME HttpInv, FlowInv, [HttpNext]_httpVars PROVE FlowInv' OBVIOUS
<1>1. HttpTyped /\ FlowTyped /\ FlowRules /\ InOrder BY DEF HttpInv, FlowInv
<1>2. CASE HttpNext
  <2>1. FlowTyped' /\ FlowRules' BY <1>1, <1>2, FlowTypes
  <2> QED BY <1>1, <1>2, <2>1, InOrderKept DEF FlowInv
<1>3. CASE UNCHANGED httpVars
  <2>1. UNCHANGED <<script, arrived, recv, send, is_draining, closing, detached, place, event,
                    ofs, was_resp, delivered>>
    BY <1>3 DEF httpVars, input, httpFlags, history
  <2>2. Stream' = Stream /\ (Scripted' <=> Scripted) /\ \A m : Laid(m)' = Laid(m)
    BY <2>1 DEF Stream, Laid, Pieces, Scripted
  <2>3. FlowTyped' BY <1>1, <2>1, <2>2 DEF FlowTyped
  <2>4. FlowRules' BY <1>1, <2>1 DEF FlowRules
  <2>5. InOrder' BY <1>1, <2>1, <2>2 DEF InOrder, Open, Past
  <2> QED BY <2>3, <2>4, <2>5 DEF FlowInv
<1> QED BY <1>2, <1>3

\* It holds at the beginning.
LEMMA FlowInvInit == HttpInit => FlowInv
<1> SUFFICES ASSUME HttpInit PROVE FlowInv OBVIOUS
<1>1. Scripted /\ Requests \in Nat /\ 0 \in 0..Requests
  BY HttpAssumption DEF HttpInit, Scripted
<1>2. Stream \in Seq(Piece) /\ Len(Stream) \in Nat BY <1>1, FrontOf
<1>3. Laid(0) = <<>> /\ Len(<<>>) = 0 BY <1>1, FrontIs
<1>4. <<>> \in Seq(Range(Stream)) /\ <<>> \in Seq(0..Requests) OBVIOUS
<1>5. FlowTyped
  <2>1. arrived \in 0..Len(Stream) BY <1>2 DEF HttpInit
  <2>2. ofs \in 0..Len(recv) BY <1>3 DEF HttpInit
  <2>3. recv \in Seq(Range(Stream)) /\ delivered \in Seq(0..Requests) BY <1>4 DEF HttpInit
  <2> QED BY <1>1, <2>1, <2>2, <2>3 DEF HttpInit, FlowTyped
<1>6. FlowRules BY DEF HttpInit, FlowRules
<1>7. InOrder
  <2>1. Len(delivered) = 0 /\ arrived = 0 /\ ofs = 0 /\ recv = <<>> BY <1>3 DEF HttpInit
  <2>2. Len(Laid(0)) = 0 BY <1>3
  <2>3. Past(ofs) = <<>>
    <3>1. 0 < 0 + 1 /\ 0 \in Int /\ 0 + 1 \in Int OBVIOUS
    <3>2. SubSeq(<<>>, 0 + 1, 0) = <<>> BY <3>1, SubSeqEmpty
    <3> QED BY <1>3, <2>1, <3>2 DEF Past
  <2>4. SubSeq(Stream, 0 + 1, 0) = <<>> BY SubSeqEmpty, 0 < 0 + 1, 0 \in Int, 0 + 1 \in Int
  <2>5. 0 \in 0..Requests /\ \A j \in 1..0 : delivered[j] = j BY <1>1
  <2>6. Past(ofs) = SubSeq(Stream, Len(Laid(0)) + 1, arrived) BY <2>1, <2>2, <2>3, <2>4
  <2>7. Len(Laid(0)) <= arrived BY <2>1, <2>2
  <2> QED BY <2>1, <2>5, <2>6, <2>7 DEF InOrder
<1> QED BY <1>5, <1>6, <1>7 DEF FlowInv

\* The invariant of the flow holds throughout.
THEOREM FlowInvariant == HttpSpec => []FlowInv
<1> QED BY FlowInvInit, FlowInvNext, HttpInvariant, PTL DEF HttpSpec

\* Every variable of the handler keeps its type, in every run.
THEOREM HttpTypes == HttpSpec => []HttpTypeOK
<1>1. HttpInv /\ FlowInv => HttpTypeOK
  BY DEF HttpInv, HttpTyped, FlowInv, FlowTyped, Scripted, HttpTypeOK
<1> QED BY <1>1, HttpInvariant, FlowInvariant, PTL

\* For any number of requests of any kinds, however they are cut into reads: as
\* long as the connection is open, what was delivered and what is still to be
\* parsed are the input read so far, so no request is lost, torn or read twice.
THEOREM InputIsConserved == HttpSpec => []InputConserved
<1>1. FlowInv => InputConserved
  <2> SUFFICES ASSUME FlowInv, Open
               PROVE  Taken \o (IF place \in {"cb", "parsed", "msg"} THEN Past(ofs) ELSE recv)
                        = SubSeq(Stream, 1, arrived)
    BY DEF InputConserved
  <2> DEFINE n == Len(delivered)
             L == Len(Laid(n))
             S == Stream
  <2>1. FlowTyped /\ FlowRules /\ InOrder BY DEF FlowInv
  <2>2. n \in 0..Requests /\ L <= arrived /\ Past(ofs) = SubSeq(S, L + 1, arrived)
    BY <2>1 DEF InOrder
  <2>3. /\ L \in Nat /\ arrived \in Nat /\ arrived <= Len(S) /\ Len(S) \in Nat /\ S \in Seq(Piece)
    BY <2>1, <2>2, FrontIs, BufferIs DEF FlowTyped
  <2>4. Taken = SubSeq(S, 1, L) BY <2>1, <2>2, TakenIs, FrontOf DEF FlowTyped
  <2>5. place \notin {"cb", "parsed", "msg"} => Past(ofs) = recv
    <3> SUFFICES ASSUME ofs = 0 PROVE Past(ofs) = recv BY <2>1 DEF FlowRules
    <3>1. recv \in Seq(Piece) BY <2>1, BufferIs
    <3>2. SubSeq(recv, 1, Len(recv)) = recv BY <3>1, SubSeqFull
    <3> QED BY <3>2 DEF Past
  <2> HIDE DEF L, S
  <2>6. SubSeq(S, 1, L) \o SubSeq(S, L + 1, arrived) = SubSeq(S, 1, arrived)
    <3>1. 1 \in 1..Len(S) + 1 /\ L \in 1 - 1..Len(S) /\ arrived \in L..Len(S) BY <2>2, <2>3
    <3> QED BY <2>3, <3>1, ConcatAdjacentSubSeq
  <2> QED BY <2>2, <2>4, <2>5, <2>6 DEF S
<1> QED BY <1>1, FlowInvariant, PTL

-----------------------------------------------------------------------------
(* The functions on text by which requests are read. *)

\* The texts, made a character at a time.
TextSpec == TextInit /\ [][TextNext]_textVars

TextTyped == text \in Seq(Alphabet(function)) /\ operand \in Seq(OperandAlphabet(function))

\* Texts are made of the characters of their alphabets.
THEOREM TextTypes == TextSpec => []TextTyped
<1>1. TextInit => TextTyped BY DEF TextInit, TextTyped
<1>2. TextTyped /\ [TextNext]_textVars => TextTyped'
  <2> SUFFICES ASSUME TextTyped, [TextNext]_textVars PROVE TextTyped' OBVIOUS
  <2> USE DEF TextTyped
  <2>1. ASSUME NEW ch \in OperandAlphabet(function), ExtendOperand(ch) PROVE TextTyped'
    BY <2>1 DEF ExtendOperand
  <2>2. ASSUME NEW ch \in Alphabet(function), ExtendText(ch) PROVE TextTyped'
    BY <2>2 DEF ExtendText
  <2>3. CASE UNCHANGED textVars BY <2>3 DEF textVars
  <2> QED BY <2>1, <2>2, <2>3 DEF TextNext
<1> QED BY <1>1, <1>2, PTL DEF TextSpec

-----------------------------------------------------------------------------
(* Numbers.  A text of digits stands for what its first digits stand for,  *)
(* times the base, plus the last one; to read it is exact because at each  *)
(* digit the sum is tested before it is made.                              *)

\* Every character has a value as a digit; if it is none, one that no base has.
LEMMA DigitValues ==
    ASSUME NEW c
    PROVE  /\ DigitValue(c) \in Nat
           /\ DigitValue(48) = 0
           /\ DigitValue(Space) = 99 /\ DigitValue(Tab) = 99 /\ DigitValue(Minus) = 99
BY DEF DigitValue, Digit, Space, Tab, Minus

\* The function by which NumberOf() is defined.
Valued(s, base, g) ==
    g = [k \in 0..Len(s) |-> IF k = 0 THEN 0 ELSE g[k - 1] * base + DigitValue(s[k])]

\* It exists, and its values are numbers.
LEMMA ValuedExists ==
    ASSUME NEW T, NEW s \in Seq(T), NEW base \in Nat
    PROVE  \E g \in [0..Len(s) -> Nat] : Valued(s, base, g)
<1> DEFINE n == Len(s)
           F == [p \in ((0 + 1)..n) \X Nat |-> p[2] * base + DigitValue(s[p[1]])]
<1>1. n \in Nat /\ 0 \in Nat /\ 0 <= n OBVIOUS
<1>2. F \in [((0 + 1)..n) \X Nat -> Nat]
  <2> SUFFICES ASSUME NEW p \in ((0 + 1)..n) \X Nat PROVE p[2] * base + DigitValue(s[p[1]]) \in Nat
    OBVIOUS
  <2>1. DigitValue(s[p[1]]) \in Nat BY DigitValues
  <2>2. p[2] * base \in Nat OBVIOUS
  <2> QED BY <2>1, <2>2
<1>3. \A k \in (0 + 1)..n, v \in Nat : F[<<k, v>>] = v * base + DigitValue(s[k]) OBVIOUS
<1> HIDE DEF F, n
<1>4. PICK g \in [0..n -> Nat] :
          g[0] = 0 /\ \A k \in (0 + 1)..n : g[k] = F[<<k, g[k - 1]>>]
  <2>1. Recursive(0, n, Nat, 0, F) BY <1>1, <1>2, Recursion
  <2> QED BY <2>1 DEF Recursive
<1>5. ASSUME NEW k \in 0..n, k # 0 PROVE g[k] = g[k - 1] * base + DigitValue(s[k])
  <2>1. k \in (0 + 1)..n /\ k - 1 \in 0..n BY <1>1, <1>5
  <2> QED BY <1>3, <1>4, <2>1
<1>6. g = [k \in 0..n |-> IF k = 0 THEN 0 ELSE g[k - 1] * base + DigitValue(s[k])]
  BY <1>4, <1>5
<1> QED BY <1>6 DEF Valued, n

\* NumberOf() is the last value of such a function, and no other has another value
\* anywhere.
LEMMA NumberAtEnd ==
    ASSUME NEW T, NEW s \in Seq(T), NEW base \in Nat
    PROVE  \E g \in [0..Len(s) -> Nat] : Valued(s, base, g) /\ NumberOf(s, base) = g[Len(s)]
<1> DEFINE G == CHOOSE g : Valued(s, base, g)
<1>1. NumberOf(s, base) = G[Len(s)] BY DEF NumberOf, Valued
<1>2. PICK h \in [0..Len(s) -> Nat] : Valued(s, base, h) BY ValuedExists
<1>3. Valued(s, base, G) BY <1>2
<1> HIDE DEF G
<1>4. ASSUME NEW k \in 0..Len(s) PROVE G[k] = h[k]
  <2> DEFINE K == {i \in 0..Len(s) : G[i] = h[i]}
  <2>1. 0 \in K BY <1>2, <1>3 DEF Valued
  <2>2. ASSUME NEW i \in 0..(Len(s) - 1), i \in K PROVE i + 1 \in K
    <3>1. i + 1 \in 0..Len(s) /\ i + 1 # 0 /\ (i + 1) - 1 = i /\ G[i] = h[i] BY <2>2
    <3>2. G[i + 1] = G[i] * base + DigitValue(s[i + 1]) BY <1>3, <3>1 DEF Valued
    <3>3. h[i + 1] = h[i] * base + DigitValue(s[i + 1]) BY <1>2, <3>1 DEF Valued
    <3> QED BY <3>1, <3>2, <3>3
  <2> HIDE DEF K
  <2>3. Len(s) \in Nat OBVIOUS
  <2>4. \A i \in 0..Len(s) : i \in K BY <2>1, <2>2, <2>3, Induction
  <2> QED BY <2>4 DEF K
<1>5. G[Len(s)] = h[Len(s)] BY <1>4
<1> QED BY <1>1, <1>2, <1>5

\* The number of a text with one more digit.
LEMMA NumberNext ==
    ASSUME NEW T, NEW s \in Seq(T), NEW c \in T, NEW base \in Nat
    PROVE  /\ NumberOf(s, base) \in Nat
           /\ NumberOf(Append(s, c), base) = NumberOf(s, base) * base + DigitValue(c)
<1> DEFINE n == Len(s)
           t == Append(s, c)
<1>1. n \in Nat /\ t \in Seq(T) /\ Len(t) = n + 1 /\ t[n + 1] = c
      /\ \A i \in 1..n : t[i] = s[i]
  OBVIOUS
<1> HIDE DEF t
<1>2. PICK g \in [0..Len(s) -> Nat] : Valued(s, base, g) /\ NumberOf(s, base) = g[Len(s)]
  BY NumberAtEnd
<1>3. PICK h \in [0..Len(t) -> Nat] : Valued(t, base, h) /\ NumberOf(t, base) = h[Len(t)]
  BY <1>1, NumberAtEnd
<1> DEFINE K == {i \in 0..n : g[i] = h[i]}
<1>4. 0 \in K BY <1>1, <1>2, <1>3 DEF Valued
<1>5. ASSUME NEW i \in 0..(n - 1), i \in K PROVE i + 1 \in K
  <2>1. i + 1 \in 1..n /\ i + 1 \in 0..(n + 1) /\ i + 1 # 0 /\ (i + 1) - 1 = i /\ g[i] = h[i]
    BY <1>1, <1>5
  <2>2. g[i + 1] = g[i] * base + DigitValue(s[i + 1]) BY <1>2, <2>1 DEF Valued
  <2>3. h[i + 1] = h[i] * base + DigitValue(t[i + 1]) BY <1>1, <1>3, <2>1 DEF Valued
  <2> QED BY <1>1, <2>1, <2>2, <2>3
<1> HIDE DEF K
<1>6. \A i \in 0..n : i \in K BY <1>1, <1>4, <1>5, Induction
<1>7. n \in 0..n /\ g[n] = h[n] BY <1>1, <1>6 DEF K
<1>8. h[n + 1] = h[n] * base + DigitValue(c)
  <2>1. n + 1 \in 0..Len(t) /\ n + 1 # 0 /\ (n + 1) - 1 = n BY <1>1
  <2> QED BY <1>1, <1>3, <2>1 DEF Valued
<1> QED BY <1>1, <1>2, <1>3, <1>7, <1>8 DEF t, n

\* A text stands for a number, whatever it is.
LEMMA NumberIsNat ==
    ASSUME NEW T, NEW s \in Seq(T), NEW base \in Nat
    PROVE  NumberOf(s, base) \in Nat
<1>1. PICK g \in [0..Len(s) -> Nat] : NumberOf(s, base) = g[Len(s)] BY NumberAtEnd
<1> QED BY <1>1

\* No digits stand for 0.
LEMMA NumberOfNone ==
    ASSUME NEW base \in Nat
    PROVE  NumberOf(<<>>, base) = 0
<1>1. <<>> \in Seq(Nat) /\ Len(<<>>) = 0 OBVIOUS
<1>2. PICK g \in [0..Len(<<>>) -> Nat] : Valued(<<>>, base, g) /\ NumberOf(<<>>, base) = g[Len(<<>>)]
  BY <1>1, NumberAtEnd
<1> QED BY <1>1, <1>2 DEF Valued

\* The number of the characters from a to b, and how it grows with b.
Part(s, a, b, base) == NumberOf(SubSeq(s, a, b), base)

\* How the number of a part grows with each character.
LEMMA PartGrows ==
    ASSUME NEW T, NEW s \in Seq(T), NEW base \in Nat, NEW a \in 1..(Len(s) + 1),
           NEW b \in (a - 1)..Len(s)
    PROVE  /\ Part(s, a, a - 1, base) = 0
           /\ Part(s, a, b, base) \in Nat
           /\ b < Len(s) => Part(s, a, b + 1, base) = Part(s, a, b, base) * base + DigitValue(s[b + 1])
<1>0. Len(s) \in Nat /\ a \in Nat /\ b \in Int OBVIOUS
<1>1. SubSeq(s, a, a - 1) = <<>> BY <1>0
<1>2. SubSeq(s, a, b) \in Seq(T) BY <1>0
<1>3. ASSUME b < Len(s)
      PROVE  s[b + 1] \in T /\ SubSeq(s, a, b + 1) = Append(SubSeq(s, a, b), s[b + 1])
  BY <1>0, <1>3
<1>4. Part(s, a, b, base) \in Nat BY <1>2, NumberIsNat DEF Part
<1>5. Part(s, a, a - 1, base) = 0 BY <1>1, NumberOfNone DEF Part
<1>6. ASSUME b < Len(s)
      PROVE  Part(s, a, b + 1, base) = Part(s, a, b, base) * base + DigitValue(s[b + 1])
  BY <1>2, <1>3, <1>6, NumberNext DEF Part
<1> QED BY <1>4, <1>5, <1>6

\* More digits, no smaller number.
LEMMA PartMonotonic ==
    ASSUME NEW T, NEW s \in Seq(T), NEW base \in Nat, base >= 1, NEW a \in 1..(Len(s) + 1),
           NEW b \in (a - 1)..Len(s), NEW c \in b..Len(s)
    PROVE  Part(s, a, b, base) <= Part(s, a, c, base)
<1>0. Len(s) \in Nat /\ a \in Nat /\ b \in Nat /\ c \in Nat OBVIOUS
<1> DEFINE P(i) == Part(s, a, i, base)
           K == {i \in b..c : P(b) <= P(i)}
<1>1. \A i \in (a - 1)..Len(s) : P(i) \in Nat BY PartGrows
<1>2. b \in K BY <1>0, <1>1
<1>3. ASSUME NEW i \in b..(c - 1), i \in K PROVE i + 1 \in K
  <2>1. i \in (a - 1)..Len(s) /\ i < Len(s) /\ i + 1 \in b..c /\ i + 1 \in (a - 1)..Len(s) BY <1>0
  <2>2. P(i + 1) = P(i) * base + DigitValue(s[i + 1]) BY <2>1, PartGrows
  <2>3. P(b) <= P(i) /\ P(b) \in Nat /\ P(i) \in Nat /\ P(i + 1) \in Nat BY <1>0, <1>1, <1>3, <2>1
  <2>4. DigitValue(s[i + 1]) \in Nat BY DigitValues
  <2> HIDE DEF P
  <2>5. P(i) <= P(i) * base BY <2>3
  <2>6. P(b) <= P(i + 1) BY <2>2, <2>3, <2>4, <2>5
  <2> QED BY <2>1, <2>6
<1> HIDE DEF K
<1>4. \A i \in b..c : i \in K BY <1>0, <1>2, <1>3, Induction
<1> QED BY <1>0, <1>4 DEF K

\* A digit is taken exactly if the number with it fits.
LEMMA FitsExactly ==
    ASSUME NEW v \in Nat, NEW digit \in Nat, NEW base \in {2, 10, 16}, NEW max \in Nat
    PROVE  Fits(v, digit, base, max) <=> v * base + digit <= max
<1>1. CASE base = 2
  <2>1. v * 2 + digit <= max => v <= max \div 2 /\ v * 2 <= max - digit OBVIOUS
  <2>2. v * 2 <= max - digit => v * 2 + digit <= max OBVIOUS
  <2> QED BY <1>1, <2>1, <2>2 DEF Fits
<1>2. CASE base = 10
  <2>1. v * 10 + digit <= max => v <= max \div 10 /\ v * 10 <= max - digit OBVIOUS
  <2>2. v * 10 <= max - digit => v * 10 + digit <= max OBVIOUS
  <2> QED BY <1>2, <2>1, <2>2 DEF Fits
<1>3. CASE base = 16
  <2>1. v * 16 + digit <= max => v <= max \div 16 /\ v * 16 <= max - digit OBVIOUS
  <2>2. v * 16 <= max - digit => v * 16 + digit <= max OBVIOUS
  <2> QED BY <1>3, <2>1, <2>2 DEF Fits
<1> QED BY <1>1, <1>2, <1>3

\* The characters from a to b are digits.
AllDigits(s, a, b, base) == \A i \in a..b : DigitValue(s[i]) < base

\* The number from start on that has been read.
Sums(max) == [ok : {TRUE}, v : 0..max, end : Nat]

\* What the loop knows after k characters: if it failed, the number of some of the
\* first digits does not fit; otherwise it holds the number of all of them.
Overflow(s, start, k, base, max) ==
    \E e \in start..k : AllDigits(s, start + 1, e, base) /\ Part(s, start + 1, e, base) > max

Known(r, s, start, k, base, max) ==
    /\ r \in Sums(max) /\ r.end \in start..k
    /\ AllDigits(s, start + 1, r.end, base)
    /\ r.v = Part(s, start + 1, r.end, base)
    /\ r.end < k => ~(DigitValue(s[r.end + 1]) < base)

\* What has been read is no failure.
LEMMA ReadIsNoFailure ==
    ASSUME NEW max, NEW r \in Sums(max)
    PROVE  r # Failed /\ r.ok = TRUE /\ Failed.ok = FALSE
<1>1. r.ok = TRUE BY DEF Sums
<1>2. Failed.ok = FALSE BY DEF Failed
<1> QED BY <1>1, <1>2

\* One character more.
LEMMA NextDigitKnows ==
    ASSUME NEW T, NEW s \in Seq(T), NEW base \in {2, 10, 16}, NEW max \in 0..Wide,
           NEW start \in 0..Len(s), NEW k \in (start + 1)..Len(s), NEW r,
           \/ r = Failed /\ Overflow(s, start, k - 1, base, max)
           \/ Known(r, s, start, k - 1, base, max)
    PROVE  LET q == NextDigit(r, s, k, base, max)
           IN  \/ q = Failed /\ Overflow(s, start, k, base, max)
               \/ Known(q, s, start, k, base, max)
<1> DEFINE digit == DigitValue(s[k])
           q == NextDigit(r, s, k, base, max)
           P(b) == Part(s, start + 1, b, base)
<1>0. /\ Wide \in Nat \ {0} /\ max \in Nat /\ max <= Wide /\ base \in Nat
      /\ start \in Nat /\ k \in Nat /\ Len(s) \in Nat /\ digit \in Nat
      /\ start + 1 \in 1..(Len(s) + 1) /\ k - 1 \in Nat
  BY TextAssumption, DigitValues
<1> SUFFICES \/ q = Failed /\ Overflow(s, start, k, base, max)
             \/ Known(q, s, start, k, base, max)
  OBVIOUS
<1>1. CASE r = Failed /\ Overflow(s, start, k - 1, base, max)
  <2>1. q = Failed BY <1>1 DEF NextDigit
  <2>2. PICK e \in start..(k - 1) : AllDigits(s, start + 1, e, base) /\ P(e) > max
    BY <1>1 DEF Overflow
  <2>3. e \in start..k BY <1>0
  <2>4. Overflow(s, start, k, base, max) BY <2>2, <2>3 DEF Overflow
  <2> QED BY <2>1, <2>4
<1>2. CASE Known(r, s, start, k - 1, base, max)
  <2>1. /\ r # Failed /\ r.end \in start..(k - 1) /\ r.end \in Nat /\ r.v \in 0..max /\ r.v \in Nat
        /\ AllDigits(s, start + 1, r.end, base) /\ r.v = P(r.end)
        /\ r.end < k - 1 => ~(DigitValue(s[r.end + 1]) < base)
    <3>1. r \in Sums(max) BY <1>2 DEF Known
    <3>2. r # Failed BY <3>1, ReadIsNoFailure
    <3>3. r.v \in 0..max /\ r.end \in Nat BY <3>1 DEF Sums
    <3> QED BY <1>0, <1>2, <3>2, <3>3 DEF Known
  <2>2. CASE r.end < k - 1 \/ digit >= base
    <3>1. q = r BY <2>2 DEF NextDigit
    <3>2. ~(DigitValue(s[r.end + 1]) < base)
      <4>1. CASE r.end < k - 1 BY <2>1, <4>1
      <4>2. CASE ~(r.end < k - 1)
        <5>1. r.end + 1 = k BY <1>0, <2>1, <4>2
        <5>2. digit >= base BY <2>2, <4>2
        <5> HIDE DEF digit
        <5>3. ~(digit < base) BY <1>0, <5>2
        <5> QED BY <5>1, <5>3 DEF digit
      <4> QED BY <4>1, <4>2
    <3>3. r.end \in start..k BY <1>0, <2>1
    <3> QED BY <1>2, <3>1, <3>2, <3>3 DEF Known
  <2>3. CASE ~(r.end < k - 1) /\ ~(digit >= base)
    <3>1. r.end = k - 1 /\ r.end < Len(s) /\ r.end \in ((start + 1) - 1)..Len(s) BY <1>0, <2>1, <2>3
    <3>2. P(k) = r.v * base + digit
      <4>1. P(r.end + 1) = P(r.end) * base + DigitValue(s[r.end + 1]) BY <1>0, <3>1, PartGrows
      <4>2. r.end + 1 = k BY <1>0, <3>1
      <4> QED BY <2>1, <4>1, <4>2
    <3>3. digit < base
      <4> HIDE DEF digit
      <4> QED BY <1>0, <2>3
    <3>4. AllDigits(s, start + 1, k, base)
      <4>1. ASSUME NEW i \in (start + 1)..k PROVE DigitValue(s[i]) < base
        <5>1. i \in (start + 1)..r.end \/ i = k BY <1>0, <3>1
        <5> QED BY <2>1, <3>3, <5>1 DEF AllDigits
      <4> QED BY <4>1 DEF AllDigits
    <3>5. CASE Fits(r.v, digit, base, max)
      <4>1. r.v * base + digit <= max
        <5>1. r.v \in Nat /\ digit \in Nat /\ base \in {2, 10, 16} /\ max \in Nat BY <1>0, <2>1
        <5> HIDE DEF digit
        <5> QED BY <3>5, <5>1, FitsExactly
      <4>2. r.v * base + digit \in Nat
        <5> HIDE DEF digit
        <5> QED BY <1>0, <2>1
      <4>3. (r.v * base + digit) % (Wide + 1) = r.v * base + digit
        <5> DEFINE v == r.v * base + digit
        <5>1. v \in Nat /\ v < Wide + 1 /\ Wide + 1 \in Nat /\ Wide + 1 > 0 BY <1>0, <4>1, <4>2
        <5> HIDE DEF v
        <5>2. v % (Wide + 1) = v BY <5>1
        <5> QED BY <5>2 DEF v
      <4>4. q = [ok |-> TRUE, v |-> r.v * base + digit, end |-> k]
        BY <2>1, <2>3, <3>5, <4>3 DEF NextDigit
      <4>5. /\ q.ok = TRUE /\ q.v = P(k) /\ q.end = k
            /\ q \in Sums(max)
        <5> DEFINE v == r.v * base + digit
        <5>1. v \in 0..max /\ q = [ok |-> TRUE, v |-> v, end |-> k] BY <1>0, <4>1, <4>2, <4>4
        <5>2. v = P(k) BY <3>2
        <5> HIDE DEF v, q, P
        <5> QED BY <1>0, <5>1, <5>2 DEF Sums
      <4> HIDE DEF q, P
      <4>6. q.end \in start..k /\ ~(q.end < k) BY <1>0, <4>5
      <4>7. q.v = Part(s, start + 1, q.end, base) BY <4>5 DEF P
      <4> QED BY <3>4, <4>5, <4>6, <4>7 DEF Known
    <3>6. CASE ~Fits(r.v, digit, base, max)
      <4>1. ~(r.v * base + digit <= max)
        <5>1. r.v \in Nat /\ digit \in Nat /\ base \in {2, 10, 16} /\ max \in Nat BY <1>0, <2>1
        <5> HIDE DEF digit
        <5> QED BY <3>6, <5>1, FitsExactly
      <4>2. q = Failed BY <2>1, <2>3, <3>6 DEF NextDigit
      <4>3. P(k) > max
        <5>1. P(k) \in Nat
          <6>1. k \in ((start + 1) - 1)..Len(s) BY <1>0
          <6> QED BY <1>0, <6>1, PartGrows
        <5>2. ~(P(k) <= max) BY <3>2, <4>1
        <5> HIDE DEF P
        <5> QED BY <1>0, <5>1, <5>2
      <4>4. k \in start..k BY <1>0
      <4>5. Overflow(s, start, k, base, max) BY <3>4, <4>3, <4>4 DEF Overflow
      <4> QED BY <4>2, <4>5
    <3> QED BY <3>5, <3>6
  <2> QED BY <2>2, <2>3
<1> QED BY <1>1, <1>2

\* The function by which Digits() is defined.
Reading(s, start, base, max, g) ==
    g = [k \in start..Len(s) |-> IF k = start THEN [ok |-> TRUE, v |-> 0, end |-> start]
                                 ELSE NextDigit(g[k - 1], s, k, base, max)]

\* It exists.
LEMMA ReadingExists ==
    ASSUME NEW T, NEW s \in Seq(T), NEW base \in {2, 10, 16}, NEW max \in 0..Wide,
           NEW start \in 0..Len(s)
    PROVE  \E g : Reading(s, start, base, max, g)
<1> DEFINE n == Len(s)
           first == [ok |-> TRUE, v |-> 0, end |-> start]
           S == {Failed} \cup [ok : {TRUE}, v : Nat, end : Nat]
           F == [p \in ((start + 1)..n) \X S |-> NextDigit(p[2], s, p[1], base, max)]
<1>1. start \in Nat /\ n \in Nat /\ start <= n /\ Wide \in Nat /\ Wide + 1 > 0 /\ base \in Nat
  BY TextAssumption
<1>2. first \in S BY <1>1
<1>3. ASSUME NEW k \in (start + 1)..n, NEW r \in S PROVE NextDigit(r, s, k, base, max) \in S
  <2> DEFINE digit == DigitValue(s[k])
             q == NextDigit(r, s, k, base, max)
  <2>1. digit \in Nat /\ k \in Nat BY <1>1, DigitValues
  <2>2. CASE r = Failed
    <3>1. q = Failed BY <2>2 DEF NextDigit
    <3> QED BY <3>1
  <2>3. CASE r # Failed
    <3>1. r.v \in Nat BY <2>3
    <3>2. (r.v * base + digit) % (Wide + 1) \in Nat
      <4>1. r.v * base + digit \in Nat
        <5> HIDE DEF digit
        <5> QED BY <1>1, <2>1, <3>1
      <4> QED BY <1>1, <4>1
    <3>3. \/ q = r \/ q = Failed
          \/ q = [ok |-> TRUE, v |-> (r.v * base + digit) % (Wide + 1), end |-> k]
      BY <2>3 DEF NextDigit
    <3>4. Failed \in S /\ \A x \in Nat : [ok |-> TRUE, v |-> x, end |-> k] \in S BY <2>1
    <3> HIDE DEF q, digit, S
    <3>5. q \in S BY <3>2, <3>3, <3>4
    <3> QED BY <3>5 DEF q
  <2> QED BY <2>2, <2>3
<1>4. F \in [((start + 1)..n) \X S -> S] /\ \A k \in (start + 1)..n, r \in S : F[<<k, r>>] = NextDigit(r, s, k, base, max)
  <2> HIDE DEF S
  <2>1. ASSUME NEW p \in ((start + 1)..n) \X S PROVE NextDigit(p[2], s, p[1], base, max) \in S
    BY <1>3
  <2> QED BY <2>1
<1> HIDE DEF F, S, first, n
<1>5. Recursive(start, n, S, first, F) BY <1>1, <1>2, <1>4, Recursion
<1>6. PICK g \in [start..n -> S] :
          g[start] = first /\ \A k \in (start + 1)..n : g[k] = F[<<k, g[k - 1]>>]
  BY <1>5 DEF Recursive
<1>7. ASSUME NEW k \in start..n, k # start PROVE g[k] = NextDigit(g[k - 1], s, k, base, max)
  <2>1. k \in (start + 1)..n /\ k - 1 \in start..n BY <1>1, <1>7
  <2> QED BY <1>4, <1>6, <2>1
<1>8. g = [k \in start..n |-> IF k = start THEN first ELSE NextDigit(g[k - 1], s, k, base, max)]
  BY <1>6, <1>7
<1> QED BY <1>8 DEF Reading, first, n

\* What the loop returns.
LEMMA DigitsKnown ==
    ASSUME NEW T, NEW s \in Seq(T), NEW base \in {2, 10, 16}, NEW max \in 0..Wide,
           NEW start \in 0..Len(s)
    PROVE  \/ /\ Digits(s, start, base, max) = Failed
              /\ Overflow(s, start, Len(s), base, max)
           \/ Known(Digits(s, start, base, max), s, start, Len(s), base, max)
<1> DEFINE g == CHOOSE g : Reading(s, start, base, max, g)
           n == Len(s)
           Good(k) == \/ g[k] = Failed /\ Overflow(s, start, k, base, max)
                      \/ Known(g[k], s, start, k, base, max)
           K == {k \in start..n : Good(k)}
<1>1. Digits(s, start, base, max) = g[n] BY DEF Digits, Reading
<1>2. Reading(s, start, base, max, g) BY ReadingExists
<1>3. start \in Nat /\ n \in Nat /\ start <= n /\ max \in Nat /\ base \in Nat
      /\ start + 1 \in 1..(Len(s) + 1) /\ start \in ((start + 1) - 1)..Len(s)
  BY TextAssumption
<1> HIDE DEF g
<1>4. start \in K
  <2> DEFINE r == g[start]
  <2>1. r = [ok |-> TRUE, v |-> 0, end |-> start] BY <1>2, <1>3 DEF Reading
  <2>2. r \in Sums(max) /\ r.end = start /\ r.v = 0 BY <1>3, <2>1 DEF Sums
  <2>3. Part(s, start + 1, start, base) = 0
    <3>1. Part(s, start + 1, (start + 1) - 1, base) = 0 BY <1>3, PartGrows
    <3>2. (start + 1) - 1 = start BY <1>3
    <3> QED BY <3>1, <3>2
  <2>4. AllDigits(s, start + 1, start, base) BY <1>3 DEF AllDigits
  <2> HIDE DEF r
  <2>5. Known(r, s, start, start, base, max) BY <1>3, <2>2, <2>3, <2>4 DEF Known
  <2> QED BY <1>3, <2>5 DEF r
<1>5. ASSUME NEW k \in start..(n - 1), k \in K PROVE k + 1 \in K
  <2>1. k + 1 \in (start + 1)..Len(s) /\ (k + 1) - 1 = k /\ k + 1 \in start..n /\ k + 1 # start
    BY <1>3
  <2>2. g[k + 1] = NextDigit(g[k], s, k + 1, base, max) BY <1>2, <2>1 DEF Reading
  <2>3. \/ g[k] = Failed /\ Overflow(s, start, (k + 1) - 1, base, max)
        \/ Known(g[k], s, start, (k + 1) - 1, base, max)
    BY <1>5, <2>1
  <2>4. Good(k + 1) BY <2>1, <2>2, <2>3, NextDigitKnows
  <2> QED BY <2>1, <2>4
<1>6. Good(n)
  <2> HIDE DEF K
  <2>1. \A k \in start..n : k \in K BY <1>3, <1>4, <1>5, Induction
  <2>2. n \in K BY <1>3, <2>1
  <2> QED BY <2>2 DEF K
<1> QED BY <1>1, <1>6

\* A text's places from start on, as a text.
LEMMA DropPlaces ==
    ASSUME NEW T, NEW s \in Seq(T), NEW start \in 0..Len(s)
    PROVE  /\ Drop(s, start) \in Seq(T) /\ Len(Drop(s, start)) = Len(s) - start
           /\ \A i \in 1..(Len(s) - start) : Drop(s, start)[i] = s[start + i]
           /\ Drop(s, start) = SubSeq(s, start + 1, Len(s))
<1>1. Len(s) \in Nat /\ start \in Nat OBVIOUS
<1> QED BY <1>1 DEF Drop

\* It is a numeral if all of its characters are digits and there are some.
LEMMA SubNumeral ==
    ASSUME NEW T, NEW s \in Seq(T), NEW base, NEW a \in 1..(Len(s) + 1), NEW b \in (a - 1)..Len(s)
    PROVE  Numeral(SubSeq(s, a, b), base) <=> a <= b /\ AllDigits(s, a, b, base)
<1> DEFINE u == SubSeq(s, a, b)
<1>1. /\ u \in Seq(T) /\ a \in Nat /\ b \in Nat /\ Len(u) = b - (a - 1) /\ DOMAIN u = 1..Len(u)
      /\ \A i \in 1..Len(u) : u[i] = s[i + (a - 1)]
  OBVIOUS
<1>2. u # <<>> <=> a <= b BY <1>1
<1> HIDE DEF u
<1>3. ASSUME AllDigits(s, a, b, base), NEW i \in DOMAIN u PROVE DigitValue(u[i]) < base
  <2>1. i \in 1..Len(u) /\ u[i] = s[i + (a - 1)] BY <1>1
  <2>2. i + (a - 1) \in a..b BY <1>1, <2>1
  <2> QED BY <1>3, <2>1, <2>2 DEF AllDigits
<1>4. ASSUME \A i \in DOMAIN u : DigitValue(u[i]) < base, NEW i \in a..b
      PROVE  DigitValue(s[i]) < base
  <2>1. i - (a - 1) \in DOMAIN u /\ (i - (a - 1)) + (a - 1) = i BY <1>1
  <2>2. u[i - (a - 1)] = s[i] BY <1>1, <2>1
  <2> QED BY <1>4, <2>1, <2>2
<1> QED BY <1>2, <1>3, <1>4 DEF Numeral, AllDigits, u

\* The loop over the digits from start on, and the number that ends at the place b,
\* where the digits end: the loop finds that it fits exactly if it does.
LEMMA DigitsAreNumber ==
    ASSUME NEW T, NEW s \in Seq(T), NEW base \in {2, 10, 16}, NEW max \in 0..Wide,
           NEW start \in 0..Len(s), NEW b \in start..Len(s),
           b < Len(s) => ~(DigitValue(s[b + 1]) < base)
    PROVE  LET d == Digits(s, start, base, max)
               number == Number(SubSeq(s, start + 1, b), base, max)
           IN  /\ d.ok /\ d.end > start /\ d.end = b => number = [ok |-> TRUE, v |-> d.v]
               /\ ~(d.ok /\ d.end > start /\ d.end = b) => number = Failed
<1> DEFINE d == Digits(s, start, base, max)
           u == SubSeq(s, start + 1, b)
           number == Number(u, base, max)
           P(i) == Part(s, start + 1, i, base)
<1>1. /\ start \in Nat /\ b \in Nat /\ Len(s) \in Nat /\ max \in Nat /\ base \in Nat /\ base >= 1
      /\ start + 1 \in 1..(Len(s) + 1) /\ b \in ((start + 1) - 1)..Len(s)
  BY TextAssumption
<1>2. Numeral(u, base) <=> start < b /\ AllDigits(s, start + 1, b, base)
  <2>1. start + 1 <= b <=> start < b BY <1>1
  <2> QED BY <1>1, <2>1, SubNumeral
<1>3. NumberOf(u, base) = P(b) BY DEF Part
<1>4. P(b) \in Nat BY <1>1, PartGrows
<1> SUFFICES /\ d.ok /\ d.end > start /\ d.end = b => number = [ok |-> TRUE, v |-> d.v]
             /\ ~(d.ok /\ d.end > start /\ d.end = b) => number = Failed
  OBVIOUS
<1>5. CASE d = Failed /\ Overflow(s, start, Len(s), base, max)
  <2>1. ~d.ok BY <1>5 DEF Failed
  <2>2. PICK e \in start..Len(s) : AllDigits(s, start + 1, e, base) /\ P(e) > max
    BY <1>5 DEF Overflow
  <2>3. ~(Numeral(u, base) /\ P(b) <= max)
    <3> SUFFICES ASSUME AllDigits(s, start + 1, b, base), P(b) <= max PROVE FALSE BY <1>2
    <3>1. e <= b
      <4> SUFFICES ASSUME e > b PROVE FALSE BY <1>1, <2>2
      <4>1. b + 1 \in (start + 1)..e /\ b < Len(s) BY <1>1, <2>2
      <4> QED BY <2>2, <4>1 DEF AllDigits
    <3>2. e \in ((start + 1) - 1)..Len(s) /\ b \in e..Len(s) BY <1>1, <2>2, <3>1
    <3>3. P(e) <= P(b) BY <1>1, <3>2, PartMonotonic
    <3>4. P(e) \in Nat BY <1>1, <3>2, PartGrows
    <3> HIDE DEF P
    <3> QED BY <1>1, <1>4, <2>2, <3>3, <3>4
  <2>4. number = Failed BY <1>3, <2>3 DEF Number
  <2> QED BY <2>1, <2>4
<1>6. CASE Known(d, s, start, Len(s), base, max)
  <2>1. d \in Sums(max) /\ d.end \in start..Len(s) BY <1>6 DEF Known
  <2>2. d.ok = TRUE /\ d.v \in 0..max BY <2>1 DEF Sums
  <2> HIDE DEF d
  <2>3. CASE d.end > start /\ d.end = b
    <3>1. Numeral(u, base) BY <1>1, <1>2, <1>6, <2>3 DEF Known
    <3>2. d.v = P(b) BY <1>6, <2>3 DEF Known
    <3>3. NumberOf(u, base) <= max /\ NumberOf(u, base) = d.v BY <1>1, <1>3, <2>2, <3>2
    <3>4. number = [ok |-> TRUE, v |-> d.v] BY <3>1, <3>3 DEF Number
    <3> QED BY <2>2, <2>3, <3>4
  <2>4. CASE ~(d.end > start /\ d.end = b)
    <3>1. ~Numeral(u, base)
      <4> SUFFICES ASSUME start < b, AllDigits(s, start + 1, b, base) PROVE FALSE BY <1>2
      <4>1. CASE d.end < b
        <5>1. d.end + 1 \in (start + 1)..b /\ d.end < Len(s) BY <1>1, <2>1, <4>1
        <5> QED BY <1>6, <5>1 DEF Known, AllDigits
      <4>2. CASE d.end > b
        <5>1. b + 1 \in (start + 1)..d.end /\ b < Len(s) BY <1>1, <2>1, <4>2
        <5> QED BY <1>6, <5>1 DEF Known, AllDigits
      <4>3. CASE d.end = b BY <1>1, <2>4, <4>3
      <4> QED BY <1>1, <2>1, <4>1, <4>2, <4>3
    <3>2. number = Failed BY <3>1 DEF Number
    <3> QED BY <2>4, <3>2
  <2> QED BY <2>3, <2>4
<1> QED BY <1>5, <1>6, DigitsKnown

\* str_to_num() with a base given.
LEMMA BaseGiven ==
    ASSUME NEW T, NEW s \in Seq(T), NEW base \in {2, 10, 16}, NEW max \in 0..Wide
    PROVE  StrToNum(s, base, max) = Number(s, base, max)
<1> DEFINE d == Digits(s, 0, base, max)
<1>1. base # 0 /\ Len(s) \in Nat /\ 0 \in 0..Len(s) /\ Len(s) \in 0..Len(s) OBVIOUS
<1>2. SubSeq(s, 0 + 1, Len(s)) = s OBVIOUS
<1>3. StrToNum(s, base, max) =
          IF d.ok /\ d.end > 0 /\ d.end = Len(s) THEN [ok |-> TRUE, v |-> d.v] ELSE Failed
  BY <1>1 DEF StrToNum
<1>4. ~(Len(s) < Len(s)) BY <1>1
<1>5. /\ d.ok /\ d.end > 0 /\ d.end = Len(s)
             => Number(SubSeq(s, 0 + 1, Len(s)), base, max) = [ok |-> TRUE, v |-> d.v]
      /\ ~(d.ok /\ d.end > 0 /\ d.end = Len(s))
             => Number(SubSeq(s, 0 + 1, Len(s)), base, max) = Failed
  BY <1>1, <1>4, DigitsAreNumber
<1> HIDE DEF d
<1> QED BY <1>2, <1>3, <1>5

\* A 0 in front changes no number.
LEMMA LeadingZero ==
    ASSUME NEW T, NEW s \in Seq(T), Len(s) >= 2, s[1] = 48, NEW max \in Nat
    PROVE  Number(SubSeq(s, 2, Len(s)), 10, max) = Number(s, 10, max)
<1> DEFINE n == Len(s)
           K == {b \in 1..n : Part(s, 2, b, 10) = Part(s, 1, b, 10)}
<1>1. n \in Nat /\ n >= 2 /\ 1 \in 1..(n + 1) /\ 2 \in 1..(n + 1) OBVIOUS
<1>2. 1 \in K
  <2>1. Part(s, 2, 2 - 1, 10) = 0 BY <1>1, PartGrows
  <2>2. Part(s, 1, 1 - 1, 10) = 0 BY <1>1, PartGrows
  <2>3. Part(s, 1, 0 + 1, 10) = Part(s, 1, 0, 10) * 10 + DigitValue(s[0 + 1])
    <3>1. 0 \in (1 - 1)..n /\ 0 < n BY <1>1
    <3> QED BY <1>1, <3>1, PartGrows
  <2>4. DigitValue(s[1]) = 0 BY DigitValues
  <2> QED BY <1>1, <2>1, <2>2, <2>3, <2>4
<1>3. ASSUME NEW b \in 1..(n - 1), b \in K PROVE b + 1 \in K
  <2>1. b \in (2 - 1)..n /\ b \in (1 - 1)..n /\ b < n /\ b + 1 \in 1..n BY <1>1
  <2>2. Part(s, 2, b + 1, 10) = Part(s, 2, b, 10) * 10 + DigitValue(s[b + 1]) BY <1>1, <2>1, PartGrows
  <2>3. Part(s, 1, b + 1, 10) = Part(s, 1, b, 10) * 10 + DigitValue(s[b + 1]) BY <1>1, <2>1, PartGrows
  <2> QED BY <1>3, <2>1, <2>2, <2>3
<1> HIDE DEF K
<1>4. \A b \in 1..n : b \in K BY <1>1, <1>2, <1>3, Induction
<1>5. Part(s, 2, n, 10) = Part(s, 1, n, 10) BY <1>1, <1>4 DEF K
<1>6. SubSeq(s, 1, n) = s OBVIOUS
<1>7. Numeral(SubSeq(s, 2, n), 10) <=> AllDigits(s, 2, n, 10)
  <2>1. n \in (2 - 1)..n /\ 2 <= n BY <1>1
  <2>2. Numeral(SubSeq(s, 2, n), 10) <=> 2 <= n /\ AllDigits(s, 2, n, 10)
    BY <1>1, <2>1, SubNumeral
  <2> QED BY <2>1, <2>2
<1>8. Numeral(s, 10) <=> AllDigits(s, 1, n, 10)
  <2>1. n \in (1 - 1)..n /\ 1 <= n BY <1>1
  <2>2. Numeral(SubSeq(s, 1, n), 10) <=> 1 <= n /\ AllDigits(s, 1, n, 10)
    BY <1>1, <2>1, SubNumeral
  <2> QED BY <1>6, <2>1, <2>2
<1>9. AllDigits(s, 1, n, 10) <=> AllDigits(s, 2, n, 10)
  <2>1. DigitValue(s[1]) < 10 BY DigitValues
  <2>2. \A i \in 1..n : i = 1 \/ i \in 2..n BY <1>1
  <2>3. \A i \in 2..n : i \in 1..n BY <1>1
  <2> QED BY <2>1, <2>2, <2>3 DEF AllDigits
<1> QED BY <1>5, <1>6, <1>7, <1>8, <1>9 DEF Number, Part, n

\* str_to_num() that finds the base in the text.
LEMMA BaseFound ==
    ASSUME NEW T, NEW s \in Seq(T), NEW max \in 0..Wide
    PROVE  StrToNum(s, 0, max) = PrefixedNumber(s, max)
<1>1. Len(s) \in Nat /\ max \in Nat BY TextAssumption
<1>2. CASE Len(s) < 2
  <2>1. ~(Len(s) >= 2) BY <1>1, <1>2
  <2>2. Failed.ok = FALSE BY DEF Failed
  <2>3. StrToNum(s, 0, max) = Failed BY <2>1, <2>2 DEF StrToNum
  <2> QED BY <1>2, <2>3 DEF PrefixedNumber
<1>3. CASE Len(s) >= 2
  <2>0. ~(Len(s) < 2) BY <1>1, <1>3
  <2> DEFINE d(start, base) == Digits(s, start, base, max)
             Result(start, base) ==
                 IF d(start, base).ok /\ d(start, base).end > start /\ d(start, base).end = Len(s)
                 THEN [ok |-> TRUE, v |-> d(start, base).v] ELSE Failed
  <2>1. ASSUME NEW start \in 0..2, NEW base \in {2, 10, 16}
        PROVE  Result(start, base) = Number(Drop(s, start), base, max)
    <3>1. start \in 0..Len(s) /\ Len(s) \in start..Len(s) /\ ~(Len(s) < Len(s)) BY <1>1, <1>3
    <3> DEFINE D == d(start, base)
               N == Number(SubSeq(s, start + 1, Len(s)), base, max)
    <3>2. /\ D.ok /\ D.end > start /\ D.end = Len(s) => N = [ok |-> TRUE, v |-> D.v]
          /\ ~(D.ok /\ D.end > start /\ D.end = Len(s)) => N = Failed
      BY <3>1, DigitsAreNumber
    <3>3. Result(start, base) = N
      <4>1. Result(start, base) =
                IF D.ok /\ D.end > start /\ D.end = Len(s) THEN [ok |-> TRUE, v |-> D.v] ELSE Failed
        OBVIOUS
      <4> HIDE DEF D, N, Result
      <4> QED BY <3>2, <4>1
    <3> QED BY <3>3 DEF Drop
  <2>2. s[1] = At(s, 0) /\ s[2] = At(s, 1) BY DEF At
  <2>3. Take(s, 2) = <<s[1], s[2]>>
    <3> DEFINE u == Take(s, 2)
               w == <<s[1], s[2]>>
    <3>1. /\ u \in Seq(T) /\ Len(u) = 2 /\ u[1] = s[1] /\ u[2] = s[2]
          /\ s[1] \in T /\ s[2] \in T
      BY <1>1, <1>3 DEF Take
    <3>2. w \in Seq(T) /\ Len(w) = 2 /\ w[1] = s[1] /\ w[2] = s[2] BY <3>1
    <3> HIDE DEF u, w
    <3>3. \A i \in 1..Len(u) : u[i] = w[i] BY <3>1, <3>2
    <3>4. u = w BY <3>1, <3>2, <3>3, SeqEqual
    <3> QED BY <3>4 DEF u, w
  <2>4. CASE s[1] = 48 /\ s[2] = 98
    <3>0. At(s, 0) = 48 /\ At(s, 1) = 98 /\ At(s, 1) # 120 /\ 2 # 10 /\ 2 # 0 BY <2>2, <2>4
    <3>1. StrToNum(s, 0, max) = Result(2, 2) BY <1>3, <3>0, SMTT(30) DEF StrToNum
    <3>2. Take(s, 2) = <<48, 98>> BY <2>3, <2>4
    <3>3. PrefixedNumber(s, max) = Number(Drop(s, 2), 2, max) BY <2>0, <3>2 DEF PrefixedNumber
    <3> HIDE DEF Result
    <3> QED BY <2>1, <3>1, <3>3
  <2>5. CASE s[1] = 48 /\ s[2] = 120
    <3>0. At(s, 0) = 48 /\ At(s, 1) = 120 BY <2>2, <2>5
    <3>1. StrToNum(s, 0, max) = Result(2, 16) BY <1>3, <3>0 DEF StrToNum
    <3>2. Take(s, 2) = <<48, 120>> BY <2>3, <2>5
    <3>3. Take(s, 2) # <<48, 98>> BY <3>2
    <3>4. PrefixedNumber(s, max) = Number(Drop(s, 2), 16, max)
      BY <2>0, <3>2, <3>3 DEF PrefixedNumber
    <3> HIDE DEF Result
    <3> QED BY <2>1, <3>1, <3>4
  <2>6. CASE ~(s[1] = 48 /\ s[2] = 98) /\ ~(s[1] = 48 /\ s[2] = 120)
    <3>1. Take(s, 2) # <<48, 98>> /\ Take(s, 2) # <<48, 120>> BY <2>3, <2>6
    <3>2. PrefixedNumber(s, max) = Number(s, 10, max) BY <2>0, <3>1 DEF PrefixedNumber
    <3>3. CASE s[1] = 48
      <4>1. At(s, 1) # 98 /\ At(s, 1) # 120 /\ At(s, 0) = 48 BY <2>2, <2>6, <3>3
      <4>2. StrToNum(s, 0, max) = Result(1, 10) BY <1>3, <4>1 DEF StrToNum
      <4>3. Result(1, 10) = Number(Drop(s, 1), 10, max) BY <2>1
      <4>4. Drop(s, 1) = SubSeq(s, 2, Len(s)) BY DEF Drop
      <4> HIDE DEF Result
      <4> QED BY <1>1, <1>3, <3>2, <3>3, <4>2, <4>3, <4>4, LeadingZero
    <3>4. CASE s[1] # 48
      <4>1. At(s, 0) # 48 BY <2>2, <3>4
      <4>2. StrToNum(s, 0, max) = Result(0, 10) BY <1>3, <4>1 DEF StrToNum
      <4>3. Result(0, 10) = Number(Drop(s, 0), 10, max) BY <2>1
      <4>4. Drop(s, 0) = s BY DEF Drop
      <4> HIDE DEF Result
      <4> QED BY <3>2, <4>2, <4>3, <4>4
    <3> QED BY <3>3, <3>4
  <2> QED BY <2>4, <2>5, <2>6
<1> QED BY <1>1, <1>2, <1>3

\* A blank, of those that Blanks() passes.
BlankAt(s, k) == s[k] \in {Space, Tab}

\* Before that place there are blanks, at it there is none.
LEMMA BlanksEnd ==
    ASSUME NEW T, NEW s \in Seq(T), NEW i \in 0..Len(s)
    PROVE  /\ Blanks(s, i) \in i..Len(s)
           /\ \A k \in (i + 1)..Blanks(s, i) : BlankAt(s, k)
           /\ Blanks(s, i) < Len(s) => ~BlankAt(s, Blanks(s, i) + 1)
<1> DEFINE K == {k \in i..Len(s) : k = Len(s) \/ At(s, k) \notin {Space, Tab}}
           b == Blanks(s, i)
<1>1. i \in Nat /\ Len(s) \in Nat OBVIOUS
<1>2. K \subseteq Nat /\ Len(s) \in K BY <1>1
<1>3. b = Min(K) BY DEF Blanks
<1>4. \A k \in i..Len(s) : k \in K <=> k = Len(s) \/ ~BlankAt(s, k + 1) BY DEF BlankAt, At
<1>5. K \subseteq i..Len(s) OBVIOUS
<1> HIDE DEF K, b
<1>6. b \in K /\ \A m \in K : b <= m
  <2>1. K # {} BY <1>2
  <2> QED BY <1>2, <1>3, <2>1, MinIsLeast
<1>7. b \in i..Len(s) /\ b \in Nat BY <1>1, <1>5, <1>6
<1>8. ASSUME NEW k \in (i + 1)..b PROVE BlankAt(s, k)
  <2>1. k - 1 \in i..Len(s) /\ k - 1 < b /\ k - 1 # Len(s) /\ (k - 1) + 1 = k BY <1>1, <1>7
  <2>2. k - 1 \notin K BY <1>6, <1>7, <2>1
  <2> QED BY <1>4, <2>1, <2>2
<1>9. b < Len(s) => ~BlankAt(s, b + 1) BY <1>1, <1>4, <1>6, <1>7
<1> QED BY <1>7, <1>8, <1>9 DEF b

\* A blank is no digit.
LEMMA BlankIsNoDigit ==
    ASSUME NEW s, NEW k, BlankAt(s, k)
    PROVE  ~(DigitValue(s[k]) < 10)
BY DigitValues DEF BlankAt

\* to_size_t().
LEMMA SizeExact ==
    ASSUME NEW T, NEW s \in Seq(T)
    PROVE  to_size_t(s) = Number(Trimmed(s), 10, Wide)
<1> DEFINE n == Len(s)
           i == Blanks(s, 0)
           d == Digits(s, i, 10, Wide)
           black == {k \in DOMAIN s : s[k] \notin {Space, Tab}}
           Accepts == (i < n => At(s, i) # Minus) /\ d.ok /\ d.end > i /\ Blanks(s, d.end) = n
<1>1. n \in Nat /\ 0 \in 0..n /\ DOMAIN s = 1..n /\ Wide \in Nat /\ Wide \in 0..Wide
  BY TextAssumption
<1>2. /\ i \in 0..n /\ i \in Nat
      /\ \A k \in 1..i : BlankAt(s, k)
      /\ i < n => ~BlankAt(s, i + 1)
  <2>1. i \in 0..n /\ (\A k \in (0 + 1)..i : BlankAt(s, k)) /\ (i < n => ~BlankAt(s, i + 1))
    BY <1>1, BlanksEnd
  <2> QED BY <1>1, <2>1
<1>3. to_size_t(s) = IF Accepts THEN [ok |-> TRUE, v |-> d.v] ELSE Failed BY DEF to_size_t
<1>4. \/ d = Failed
      \/ Known(d, s, i, n, 10, Wide)
  BY <1>1, <1>2, DigitsKnown
<1>5. \A k \in 1..n : k \in black <=> ~BlankAt(s, k) BY <1>1 DEF BlankAt
<1>6. black \subseteq 1..n BY <1>1
<1>7. black = {} => Trimmed(s) = <<>> BY DEF Trimmed
<1>8. black # {} => Trimmed(s) = SubSeq(s, Min(black), Max(black)) BY DEF Trimmed
<1> HIDE DEF black, d, i
<1>9. d.ok => d.end \in i..n /\ AllDigits(s, i + 1, d.end, 10)
  <2>1. CASE d = Failed
    <3>1. ~d.ok BY <2>1 DEF Failed
    <3> QED BY <3>1
  <2>2. CASE Known(d, s, i, n, 10, Wide) BY <2>2 DEF Known
  <2> QED BY <1>4, <2>1, <2>2
<1>10. CASE i = n
  <2>1. black = {} BY <1>2, <1>5, <1>6, <1>10
  <2>2. Trimmed(s) = <<>> BY <1>7, <2>1
  <2>3. Number(Trimmed(s), 10, Wide) = Failed BY <2>2 DEF Number, Numeral
  <2>4. ~(d.ok /\ d.end > i) BY <1>1, <1>2, <1>9, <1>10
  <2>5. ~Accepts BY <2>4
  <2> QED BY <1>3, <2>3, <2>5
<1>11. CASE i # n
  <2> DEFINE m == Max(black)
             N == Number(SubSeq(s, i + 1, m), 10, Wide)
  <2>1. i < n /\ i + 1 \in 1..n /\ i + 1 \in black
    <3> HIDE DEF n
    <3>1. i < n /\ i + 1 \in 1..n BY <1>1, <1>2, <1>11
    <3>2. ~BlankAt(s, i + 1) BY <1>2, <3>1
    <3> QED BY <1>5, <3>1, <3>2
  <2>2. black # {} /\ black \subseteq Nat /\ black \subseteq 0..n BY <1>1, <1>6, <2>1
  <2>3. Min(black) = i + 1
    <3>1. Min(black) \in black /\ \A k \in black : Min(black) <= k BY <2>2, MinIsLeast
    <3>2. \A k \in black : k \in Nat /\ ~(k \in 1..i) BY <1>1, <1>2, <1>5, <1>6
    <3>3. Min(black) <= i + 1 BY <2>1, <3>1
    <3>4. Min(black) \in Nat /\ ~(Min(black) \in 1..i) BY <3>1, <3>2
    <3>5. Min(black) \in 1..n BY <1>6, <3>1
    <3>6. Min(black) >= 1 BY <1>1, <3>5
    <3> QED BY <1>2, <3>3, <3>4, <3>6
  <2>4. m \in black /\ \A k \in black : m >= k BY <1>1, <2>2, MaxIsGreatest
  <2> HIDE DEF m
  <2>5. m \in (i + 1)..n /\ m \in i..n /\ m \in Nat BY <1>1, <1>2, <1>6, <2>1, <2>4
  <2>6. \A k \in (m + 1)..n : BlankAt(s, k)
    <3> SUFFICES ASSUME NEW k \in (m + 1)..n PROVE BlankAt(s, k) OBVIOUS
    <3>1. k \in 1..n /\ ~(m >= k) BY <1>1, <2>5
    <3> QED BY <1>5, <2>4, <3>1
  <2>7. Trimmed(s) = SubSeq(s, i + 1, m) BY <1>8, <2>2, <2>3 DEF m
  <2>8. m < n => ~(DigitValue(s[m + 1]) < 10)
    <3>1. m < n => m + 1 \in (m + 1)..n BY <1>1, <2>5
    <3> QED BY <2>6, <3>1, BlankIsNoDigit
  <2>9. /\ d.ok /\ d.end > i /\ d.end = m => N = [ok |-> TRUE, v |-> d.v]
        /\ ~(d.ok /\ d.end > i /\ d.end = m) => N = Failed
    BY <1>1, <1>2, <2>5, <2>8, DigitsAreNumber DEF d
  <2>10. ASSUME d.ok, d.end > i, d.end = m PROVE Accepts
    <3>1. DigitValue(s[i + 1]) < 10
      <4>1. i + 1 \in (i + 1)..m BY <1>2, <2>5
      <4> QED BY <1>9, <2>10, <4>1 DEF AllDigits
    <3>2. At(s, i) # Minus BY <3>1, DigitValues DEF At
    <3>3. Blanks(s, m) = n
      <4> DEFINE b == Blanks(s, m)
      <4>1. b \in m..n /\ (b < n => ~BlankAt(s, b + 1)) BY <1>1, <2>5, BlanksEnd
      <4> HIDE DEF b
      <4>2. b < n => b + 1 \in (m + 1)..n BY <1>1, <2>5, <4>1
      <4>3. ~(b < n) BY <2>6, <4>1, <4>2
      <4>4. b = n
        <5>1. b \in m..n /\ m \in Nat /\ n \in Nat BY <1>1, <2>5, <4>1
        <5> HIDE DEF n
        <5> QED BY <4>3, <5>1
      <4> QED BY <4>4 DEF b
    <3> QED BY <2>10, <3>2, <3>3
  <2>11. ASSUME d.ok, d.end > i, Blanks(s, d.end) = n PROVE d.end = m
    <3>1. d.end \in i..n /\ d.end \in 0..n /\ d.end \in Nat BY <1>1, <1>2, <1>9, <2>11
    <3>2. \A k \in (d.end + 1)..n : BlankAt(s, k) BY <2>11, <3>1, BlanksEnd
    <3>3. ~(d.end < m)
      <4> SUFFICES ASSUME d.end < m PROVE FALSE OBVIOUS
      <4>1. m \in (d.end + 1)..n /\ m \in 1..n BY <1>6, <2>4, <2>5, <3>1
      <4> QED BY <1>5, <2>4, <3>2, <4>1
    <3>4. d.end <= m
      <4>1. d.end \in (i + 1)..d.end /\ d.end \in 1..n BY <1>1, <1>2, <2>11, <3>1
      <4>2. DigitValue(s[d.end]) < 10 BY <1>9, <2>11, <4>1 DEF AllDigits
      <4>3. ~BlankAt(s, d.end) BY <4>2, BlankIsNoDigit
      <4>4. d.end \in black BY <1>5, <4>1, <4>3
      <4> QED BY <2>4, <2>5, <3>1, <4>4
    <3> QED BY <2>5, <3>1, <3>3, <3>4
  <2>12. Accepts <=> d.ok /\ d.end > i /\ d.end = m BY <2>10, <2>11
  <2> HIDE DEF Accepts, N
  <2>13. to_size_t(s) = N BY <1>3, <2>9, <2>12
  <2> QED BY <2>7, <2>13 DEF N
<1> QED BY <1>10, <1>11

\* str_to_num() and to_size_t() are exact for texts of any length and any largest
\* number: what they return is what the digits stand for, and they fail where it
\* does not fit, though the sum they make is that of a machine word.
THEOREM NumbersAreExact == TextSpec => []NumbersExact
<1>1. TextTyped => NumbersExact
  <2> SUFFICES ASSUME TextTyped PROVE NumbersExact OBVIOUS
  <2> DEFINE T == Alphabet(function)
  <2>1. text \in Seq(T) BY DEF TextTyped
  <2>2. Wide \in 0..Wide /\ Wide \div 256 \in 0..Wide BY TextAssumption
  <2> HIDE DEF T
  <2>3. \A base \in {2, 10, 16}, max \in {Wide, Wide \div 256} :
            StrToNum(text, base, max) = Number(text, base, max)
    BY <2>1, <2>2, BaseGiven
  <2>4. StrToNum(text, 0, Wide) = PrefixedNumber(text, Wide) BY <2>1, <2>2, BaseFound
  <2>5. to_size_t(text) = Number(Trimmed(text), 10, Wide) BY <2>1, SizeExact
  <2> QED BY <2>3, <2>4, <2>5 DEF NumbersExact
<1> QED BY <1>1, TextTypes, PTL

-----------------------------------------------------------------------------
(* Variables.  Where an entry ends the next one begins, so the loop comes  *)
(* to the variables of the text in their order.                            *)

\* A part of a part.
LEMMA SubOfSub ==
    ASSUME NEW T, NEW s \in Seq(T), NEW a \in 0..Len(s), NEW b \in a..Len(s),
           NEW c \in Nat, NEW d \in 0..(b - a)
    PROVE  SubSeq(SubSeq(s, a + 1, b), c + 1, d) = SubSeq(s, a + c + 1, a + d)
<1> DEFINE u == SubSeq(s, a + 1, b)
           l == SubSeq(u, c + 1, d)
           r == SubSeq(s, a + c + 1, a + d)
<1>1. /\ u \in Seq(T) /\ Len(u) = b - a /\ a \in Nat /\ b \in Nat /\ d \in Nat /\ Len(s) \in Nat
      /\ \A i \in 1..(b - a) : u[i] = s[a + i]
  OBVIOUS
<1> HIDE DEF u
<1>2. /\ l \in Seq(T) /\ Len(l) = IF c + 1 <= d THEN d - c ELSE 0
      /\ c + 1 <= d => \A i \in 1..(d - c) : l[i] = u[c + i]
  <2>1. c + 1 <= d => d - (c + 1) + 1 = d - c BY <1>1
  <2>2. \A i \in 1..(d - c) : i + (c + 1) - 1 = c + i BY <1>1
  <2>3. /\ l \in Seq(T) /\ Len(l) = IF c + 1 <= d THEN d - (c + 1) + 1 ELSE 0
        /\ c + 1 <= d => \A i \in 1..(d - (c + 1) + 1) : l[i] = u[i + (c + 1) - 1]
    BY <1>1
  <2> HIDE DEF l
  <2> QED BY <2>1, <2>2, <2>3
<1>3. /\ r \in Seq(T) /\ Len(r) = IF c + 1 <= d THEN d - c ELSE 0
      /\ c + 1 <= d => \A i \in 1..(d - c) : r[i] = s[(a + c) + i]
  <2> DEFINE f == a + c + 1
             t == a + d
  <2>1. f \in Nat /\ t \in Nat /\ f >= 1 /\ t <= Len(s) /\ (f <= t <=> c + 1 <= d) BY <1>1
  <2>2. f <= t => t - f + 1 = d - c BY <1>1
  <2>3. \A i \in 1..(d - c) : i + f - 1 = (a + c) + i BY <1>1
  <2> HIDE DEF f, t
  <2>4. /\ SubSeq(s, f, t) \in Seq(T)
        /\ Len(SubSeq(s, f, t)) = IF f <= t THEN t - f + 1 ELSE 0
    BY <1>1, <2>1
  <2>5. ASSUME f <= t, NEW i \in 1..(t - f + 1) PROVE SubSeq(s, f, t)[i] = s[i + f - 1]
    BY <1>1, <2>1, <2>5
  <2>6. r = SubSeq(s, f, t) BY DEF f, t
  <2> HIDE DEF r
  <2> QED BY <2>1, <2>2, <2>3, <2>4, <2>5, <2>6
<1> HIDE DEF l, r
<1>4. ASSUME NEW i \in 1..Len(l) PROVE l[i] = r[i]
  <2>0. c + 1 <= d /\ i \in 1..(d - c)
    <3>1. i >= 1 /\ i <= Len(l) BY <1>2
    <3> QED BY <1>1, <1>2, <3>1
  <2>1. c + i \in 1..(b - a) /\ a + (c + i) = (a + c) + i BY <1>1, <2>0
  <2> QED BY <1>1, <1>2, <1>3, <2>0, <2>1
<1>5. l = r BY <1>2, <1>3, <1>4, SeqEqual
<1> QED BY <1>5 DEF l, r, u

\* What span() cuts a text into.
LEMMA SpanParts ==
    ASSUME NEW T, NEW s \in Seq(T), s # <<>>, NEW sep
    PROVE  \E n \in 0..Len(s) :
              /\ Span(s, sep) = [ok |-> TRUE, a |-> SubSeq(s, 1, n), b |-> SubSeq(s, n + 2, Len(s))]
              /\ \A i \in 1..n : s[i] # sep
              /\ n < Len(s) => s[n + 1] = sep
<1> DEFINE K == {k \in 0..Len(s) : k = Len(s) \/ At(s, k) = sep}
           n == Min(K)
<1>1. Len(s) \in Nat OBVIOUS
<1>2. K \subseteq Nat /\ Len(s) \in K BY <1>1
<1>3. \A k \in 0..Len(s) : k \in K <=> k = Len(s) \/ s[k + 1] = sep BY DEF At
<1>4. K \subseteq 0..Len(s) OBVIOUS
<1>5. Span(s, sep) = [ok |-> TRUE, a |-> SubSeq(s, 1, n), b |-> SubSeq(s, (n + 1) + 1, Len(s))]
  BY DEF Span, Take, Drop
<1> HIDE DEF K, n
<1>6. n \in K /\ \A k \in K : n <= k
  <2>1. K # {} BY <1>2
  <2> QED BY <1>2, <2>1, MinIsLeast DEF n
<1>7. n \in 0..Len(s) /\ n \in Nat BY <1>2, <1>4, <1>6
<1>8. ASSUME NEW i \in 1..n PROVE s[i] # sep
  <2>1. i - 1 \in 0..Len(s) /\ i - 1 < n /\ i - 1 # Len(s) /\ (i - 1) + 1 = i BY <1>1, <1>7
  <2>2. i - 1 \notin K BY <1>6, <1>7, <2>1
  <2> QED BY <1>3, <2>1, <2>2
<1>9. n < Len(s) => s[n + 1] = sep BY <1>1, <1>3, <1>6, <1>7
<1>10. (n + 1) + 1 = n + 2 BY <1>7
<1> QED BY <1>5, <1>7, <1>8, <1>9, <1>10

\* The entry that begins after place k and ends at e, which & separates from the
\* rest, and its name and value.
EntryAt(s, k, e) ==
    /\ e \in k..Len(s)
    /\ \A i \in (k + 1)..e : s[i] # Amp
    /\ e < Len(s) => s[e + 1] = Amp
    /\ Span(Drop(s, k), Amp) =
           [ok |-> TRUE, a |-> SubSeq(s, k + 1, e), b |-> SubSeq(s, e + 2, Len(s))]

\* Where text is left, an entry begins.
LEMMA EntryExists ==
    ASSUME NEW T, NEW s \in Seq(T), NEW k \in 0..(Len(s) - 1)
    PROVE  \E e \in Nat : EntryAt(s, k, e)
<1> DEFINE u == Drop(s, k)
           l == Len(s)
<1>1. l \in Nat /\ k \in 0..l /\ k \in Nat /\ k < l OBVIOUS
<1>2. /\ u \in Seq(T) /\ Len(u) = l - k /\ u # <<>> /\ u = SubSeq(s, k + 1, l)
      /\ \A i \in 1..(l - k) : u[i] = s[k + i]
  <2>1. u \in Seq(T) /\ Len(u) = l - k /\ u = SubSeq(s, k + 1, l)
        /\ \A i \in 1..(l - k) : u[i] = s[k + i]
    BY <1>1, DropPlaces
  <2> HIDE DEF u, l
  <2>2. Len(u) # 0 BY <1>1, <2>1
  <2>3. u # <<>> BY <2>1, <2>2
  <2> QED BY <2>1, <2>3
<1> HIDE DEF u
<1>3. PICK n \in 0..Len(u) :
          /\ Span(u, Amp) = [ok |-> TRUE, a |-> SubSeq(u, 1, n), b |-> SubSeq(u, n + 2, Len(u))]
          /\ \A i \in 1..n : u[i] # Amp
          /\ n < Len(u) => u[n + 1] = Amp
  <2>1. u \in Seq(T) /\ u # <<>> BY <1>2
  <2> QED BY <2>1, SpanParts
<1>4. n \in Nat /\ n \in 0..(l - k) /\ k + n \in k..l /\ k + n \in Nat BY <1>1, <1>2, <1>3
<1>5. SubSeq(u, 1, n) = SubSeq(s, k + 1, k + n)
  <2>1. SubSeq(SubSeq(s, k + 1, l), 0 + 1, n) = SubSeq(s, k + 0 + 1, k + n)
    BY <1>1, <1>4, SubOfSub
  <2>2. k + 0 + 1 = k + 1 /\ 0 + 1 = 1 BY <1>1
  <2> QED BY <1>2, <2>1, <2>2
<1>6. SubSeq(u, n + 2, Len(u)) = SubSeq(s, k + n + 2, l)
  <2>1. n + 1 \in Nat /\ l - k \in 0..(l - k) /\ l \in k..l BY <1>1, <1>4
  <2>2. SubSeq(SubSeq(s, k + 1, l), (n + 1) + 1, l - k) = SubSeq(s, k + (n + 1) + 1, k + (l - k))
    BY <1>1, <2>1, SubOfSub
  <2>3. (n + 1) + 1 = n + 2 /\ k + (n + 1) + 1 = k + n + 2 /\ k + (l - k) = l BY <1>1, <1>4
  <2> QED BY <1>2, <2>2, <2>3
<1>7. ASSUME NEW i \in (k + 1)..(k + n) PROVE s[i] # Amp
  <2>1. i - k \in 1..n /\ i - k \in 1..(l - k) /\ k + (i - k) = i BY <1>1, <1>4
  <2> QED BY <1>2, <1>3, <2>1
<1>8. k + n < l => s[k + n + 1] = Amp
  <2> SUFFICES ASSUME k + n < l PROVE s[k + n + 1] = Amp OBVIOUS
  <2>1. n < Len(u) /\ n + 1 \in 1..(l - k) /\ k + (n + 1) = k + n + 1 BY <1>1, <1>2, <1>4
  <2> QED BY <1>2, <1>3, <2>1
<1>9. EntryAt(s, k, k + n) BY <1>3, <1>4, <1>5, <1>6, <1>7, <1>8 DEF EntryAt, u
<1> QED BY <1>4, <1>9

\* Where variables begin and end.
Ends(s) == {0, Len(s) + 1} \cup {i \in DOMAIN s : s[i] = Amp}
EndAfter(s, i) == Min({j \in Ends(s) : j > i}) - 1

\* The variables of a text, by where they begin.
LEMMA VariablesAre ==
    ASSUME NEW s
    PROVE  Variables(s) = {<<i + 1, EndAfter(s, i)>> : i \in Ends(s) \ {Len(s) + 1}}
BY DEF Variables, Ends, EndAfter

\* Those places are numbers within the text or next to it.
LEMMA EndsRange ==
    ASSUME NEW T, NEW s \in Seq(T)
    PROVE  /\ Ends(s) \subseteq 0..(Len(s) + 1) /\ Ends(s) \subseteq Nat
           /\ 0 \in Ends(s) /\ Len(s) + 1 \in Ends(s)
           /\ \A i \in 1..Len(s) : i \in Ends(s) <=> s[i] = Amp
<1>1. DOMAIN s = 1..Len(s) /\ Len(s) \in Nat OBVIOUS
<1> QED BY <1>1 DEF Ends

\* The variable that an entry is.
LEMMA EntryIsVariable ==
    ASSUME NEW T, NEW s \in Seq(T), NEW k \in 0..Len(s), NEW e \in k..Len(s),
           \A i \in (k + 1)..e : s[i] # Amp,
           e < Len(s) => s[e + 1] = Amp
    PROVE  /\ EndAfter(s, k) = e
           /\ \A i \in Ends(s) : i > k => i >= e + 1
<1> DEFINE J == {j \in Ends(s) : j > k}
<1>1. k \in Nat /\ e \in Nat /\ Len(s) \in Nat OBVIOUS
<1>2. ASSUME NEW i \in Ends(s), i > k PROVE i >= e + 1
  <2>1. i \in Nat /\ i \in 0..(Len(s) + 1) BY EndsRange
  <2> SUFFICES ASSUME i <= e PROVE FALSE BY <1>1, <2>1
  <2>2. i \in (k + 1)..e /\ i \in 1..Len(s) BY <1>1, <1>2, <2>1
  <2>3. s[i] = Amp BY <2>2, EndsRange
  <2> QED BY <2>2, <2>3
<1>3. e + 1 \in Ends(s)
  <2>1. CASE e < Len(s)
    <3>1. e + 1 \in 1..Len(s) BY <1>1, <2>1
    <3> QED BY <2>1, <3>1, EndsRange
  <2>2. CASE ~(e < Len(s))
    <3>1. e = Len(s) BY <1>1, <2>2
    <3> QED BY <3>1, EndsRange
  <2> QED BY <2>1, <2>2
<1>4. e + 1 \in J /\ J \subseteq Nat
  <2>1. e + 1 > k BY <1>1
  <2>2. Ends(s) \subseteq Nat BY EndsRange
  <2> QED BY <1>3, <2>1, <2>2
<1>5. \A j \in J : j >= e + 1 BY <1>2
<1> HIDE DEF J
<1>6. Min(J) \in J /\ \A j \in J : Min(J) <= j
  <2>1. J # {} BY <1>4
  <2> QED BY <1>4, <2>1, MinIsLeast
<1>7. Min(J) = e + 1
  <2>1. Min(J) \in Nat /\ Min(J) <= e + 1 /\ Min(J) >= e + 1 BY <1>4, <1>5, <1>6
  <2> QED BY <1>1, <2>1
<1>8. EndAfter(s, k) = e BY <1>1, <1>7 DEF EndAfter, J
<1> QED BY <1>2, <1>8

\* Where the name of a variable ends, the variables of a name, and the value of the
\* first of them.
KeyEnd(s, v) == Min({k \in v[1]..(v[2] + 1) : k = v[2] + 1 \/ s[k] = Equals})
Hits(s, name) ==
    {v \in Variables(s) : v[2] >= v[1] /\ SameLetters(SubSeq(s, v[1], KeyEnd(s, v) - 1), name)}
FirstOf(H) == CHOOSE v \in H : \A w \in H : v[1] <= w[1]
ValueIn(s, H) ==
    IF H = {} THEN Failed
    ELSE [ok |-> TRUE, v |-> SubSeq(s, KeyEnd(s, FirstOf(H)) + 1, FirstOf(H)[2])]
HitsFrom(s, name, k) == {v \in Hits(s, name) : v[1] > k}

\* What ValueOf() is, in these terms.
LEMMA ValueIsFirst ==
    ASSUME NEW s, NEW name
    PROVE  ValueOf(s, name) = ValueIn(s, Hits(s, name))
BY DEF ValueOf, ValueIn, Hits, KeyEnd, FirstOf

\* An entry that begins after place k and ends at e is taken for its name exactly if
\* it is a variable of the name, and then its value is the variable's.
TakenRightly(s, name, k, e) ==
    LET kv == Span(SubSeq(s, k + 1, e), Equals)
        v == <<k + 1, e>>
    IN  /\ kv.ok /\ Named(kv, name) <=> v \in Hits(s, name)
        /\ v \in Hits(s, name) => kv.b = SubSeq(s, KeyEnd(s, v) + 1, e)

\* It is.
LEMMA EntryHit ==
    ASSUME NEW T, NEW s \in Seq(T), NEW name, NEW k \in 0..(Len(s) - 1), k \in Ends(s),
           NEW e, EntryAt(s, k, e)
    PROVE  TakenRightly(s, name, k, e)
<1> DEFINE u == SubSeq(s, k + 1, e)
           kv == Span(u, Equals)
           v == <<k + 1, e>>
<1>1. /\ k \in Nat /\ Len(s) \in Nat /\ e \in k..Len(s) /\ e \in Nat /\ k \in 0..Len(s)
      /\ k # Len(s) + 1
  BY DEF EntryAt
<1>2. v \in Variables(s)
  <2>1. EndAfter(s, k) = e BY <1>1, EntryIsVariable DEF EntryAt
  <2> QED BY <1>1, <2>1, VariablesAre
<1>3. v[1] = k + 1 /\ v[2] = e OBVIOUS
<1>4. /\ u \in Seq(T) /\ Len(u) = e - k
      /\ \A i \in 1..(e - k) : u[i] = s[k + i]
  BY <1>1
<1> SUFFICES /\ kv.ok /\ Named(kv, name) <=> v \in Hits(s, name)
             /\ v \in Hits(s, name) => kv.b = SubSeq(s, KeyEnd(s, v) + 1, e)
  BY DEF TakenRightly
<1> HIDE DEF u
<1>5. CASE e = k
  <2>1. u = <<>> BY <1>1, <1>4, <1>5
  <2>2. ~kv.ok BY <2>1 DEF Span, Failed
  <2>3. ~(v[2] >= v[1]) BY <1>1, <1>3, <1>5
  <2>4. v \notin Hits(s, name)
    <3> HIDE DEF v
    <3> QED BY <2>3 DEF Hits
  <2> QED BY <2>2, <2>4
<1>6. CASE e # k
  <2>0. e > k /\ u # <<>>
    <3>1. e > k /\ Len(u) > 0 BY <1>1, <1>4, <1>6
    <3> QED BY <3>1
  <2>1. PICK n \in 0..Len(u) :
            /\ kv = [ok |-> TRUE, a |-> SubSeq(u, 1, n), b |-> SubSeq(u, n + 2, Len(u))]
            /\ \A i \in 1..n : u[i] # Equals
            /\ n < Len(u) => u[n + 1] = Equals
    BY <1>4, <2>0, SpanParts
  <2>2. n \in Nat /\ n \in 0..(e - k) BY <1>1, <1>4, <2>1
  <2>3. kv.ok = TRUE /\ kv.a = SubSeq(u, 1, n) /\ kv.b = SubSeq(u, n + 2, Len(u)) BY <2>1
  <2> HIDE DEF kv
  <2>4. kv.a = SubSeq(s, k + 1, k + n)
    <3>1. k \in 0..Len(s) /\ e \in k..Len(s) /\ 0 \in Nat BY <1>1
    <3>2. SubSeq(SubSeq(s, k + 1, e), 0 + 1, n) = SubSeq(s, k + 0 + 1, k + n)
      BY <2>2, <3>1, SubOfSub
    <3>3. k + 0 + 1 = k + 1 /\ 0 + 1 = 1 BY <1>1
    <3> QED BY <2>3, <3>2, <3>3 DEF u
  <2>5. kv.b = SubSeq(s, k + n + 2, e)
    <3>1. k \in 0..Len(s) /\ e \in k..Len(s) /\ n + 1 \in Nat /\ e - k \in 0..(e - k) BY <1>1, <2>2
    <3>2. SubSeq(SubSeq(s, k + 1, e), (n + 1) + 1, e - k) = SubSeq(s, k + (n + 1) + 1, k + (e - k))
      BY <3>1, SubOfSub
    <3>3. (n + 1) + 1 = n + 2 /\ k + (n + 1) + 1 = k + n + 2 /\ k + (e - k) = e BY <1>1, <2>2
    <3> QED BY <1>4, <2>3, <3>2, <3>3 DEF u
  <2>6. KeyEnd(s, v) = k + n + 1
    <3> DEFINE J == {j \in (k + 1)..(e + 1) : j = e + 1 \/ s[j] = Equals}
               m == k + n + 1
    <3>1. KeyEnd(s, v) = Min(J) BY <1>3 DEF KeyEnd
    <3>2. m \in Nat /\ m \in (k + 1)..(e + 1) BY <1>1, <2>2
    <3>3. m \in J
      <4>1. CASE n < Len(u)
        <5>1. n + 1 \in 1..(e - k) /\ k + (n + 1) = m BY <1>1, <1>4, <2>2, <4>1
        <5>2. s[m] = Equals BY <1>4, <2>1, <4>1, <5>1
        <5> QED BY <3>2, <5>2
      <4>2. CASE ~(n < Len(u))
        <5>1. m = e + 1 BY <1>1, <1>4, <2>2, <4>2
        <5> QED BY <3>2, <5>1
      <4> QED BY <4>1, <4>2
    <3>4. ASSUME NEW j \in J PROVE j >= m
      <4> SUFFICES ASSUME j < m PROVE FALSE BY <1>1, <3>2
      <4>1. j \in (k + 1)..(e + 1) /\ j < m BY <3>4
      <4>2. j - k \in 1..n /\ j - k \in 1..(e - k) /\ k + (j - k) = j /\ j # e + 1
        BY <1>1, <2>2, <4>1
      <4>3. s[j] # Equals BY <1>4, <2>1, <4>2
      <4> QED BY <4>2, <4>3
    <3>5. J \subseteq Nat BY <1>1
    <3> HIDE DEF J, m
    <3>6. Min(J) \in J /\ \A j \in J : Min(J) <= j
      <4>1. J # {} BY <3>3
      <4> QED BY <3>5, <4>1, MinIsLeast
    <3>7. Min(J) \in Nat /\ Min(J) <= m /\ Min(J) >= m BY <3>3, <3>4, <3>5, <3>6
    <3>8. Min(J) = m BY <3>2, <3>7
    <3> QED BY <3>1, <3>8 DEF m
  <2>7. v \in Hits(s, name) <=> SameLetters(SubSeq(s, k + 1, k + n), name)
    <3>1. v[2] >= v[1] BY <1>1, <1>3, <2>0
    <3>2. KeyEnd(s, v) - 1 = k + n BY <1>1, <2>2, <2>6
    <3> HIDE DEF v
    <3>3. v \in Hits(s, name) <=> SameLetters(SubSeq(s, v[1], KeyEnd(s, v) - 1), name)
      BY <1>2, <3>1 DEF Hits
    <3> QED BY <1>3, <3>2, <3>3
  <2>8. kv.ok /\ Named(kv, name) <=> v \in Hits(s, name)
    <3>1. Named(kv, name) <=> SameLetters(kv.a, name) BY DEF Named
    <3> HIDE DEF v
    <3> QED BY <2>3, <2>4, <2>7, <3>1
  <2>9. kv.b = SubSeq(s, KeyEnd(s, v) + 1, e)
    <3>1. KeyEnd(s, v) + 1 = k + n + 2 BY <1>1, <2>2, <2>6
    <3> HIDE DEF v
    <3> QED BY <2>5, <3>1
  <2> QED BY <2>8, <2>9
<1> QED BY <1>5, <1>6

\* An entry that is a hit is the first one from where it begins; one that is none
\* leaves those from where the rest begins.
LEMMA EntryDecides ==
    ASSUME NEW T, NEW s \in Seq(T), NEW name, NEW k \in 0..(Len(s) - 1), k \in Ends(s),
           NEW e, EntryAt(s, k, e)
    PROVE  LET v == <<k + 1, e>>
               rest == IF e < Len(s) THEN e + 1 ELSE Len(s)
           IN  /\ v \in Hits(s, name) =>
                      ValueIn(s, HitsFrom(s, name, k)) =
                          [ok |-> TRUE, v |-> SubSeq(s, KeyEnd(s, v) + 1, e)]
               /\ v \notin Hits(s, name) => HitsFrom(s, name, k) = HitsFrom(s, name, rest)
<1> DEFINE v == <<k + 1, e>>
           n == Len(s)
           rest == IF e < Len(s) THEN e + 1 ELSE Len(s)
           H == HitsFrom(s, name, k)
<1>1. k \in Nat /\ n \in Nat /\ e \in k..n /\ e \in Nat /\ k \in 0..n BY DEF EntryAt
<1>2. EndAfter(s, k) = e /\ \A i \in Ends(s) : i > k => i >= e + 1
  BY <1>1, EntryIsVariable DEF EntryAt
<1>3. ASSUME NEW w \in Hits(s, name)
      PROVE  \E i \in Ends(s) : i \in 0..n /\ w = <<i + 1, EndAfter(s, i)>> /\ w[1] = i + 1 /\ w[2] = EndAfter(s, i)
  <2>1. w \in Variables(s) BY DEF Hits
  <2>2. PICK i \in Ends(s) \ {n + 1} : w = <<i + 1, EndAfter(s, i)>> BY <2>1, VariablesAre
  <2>3. i \in 0..n
    <3>1. i \in 0..(n + 1) BY EndsRange
    <3> QED BY <1>1, <2>2, <3>1
  <2> QED BY <2>2, <2>3
<1>4. \A w \in H : w = v \/ w[1] > e + 1
  <2> SUFFICES ASSUME NEW w \in H PROVE w = v \/ w[1] > e + 1 OBVIOUS
  <2>1. w \in Hits(s, name) /\ w[1] > k BY DEF HitsFrom
  <2>2. PICK i \in Ends(s) : i \in 0..n /\ w = <<i + 1, EndAfter(s, i)>> /\ w[1] = i + 1
    BY <1>3, <2>1
  <2>3. CASE i = k BY <1>2, <2>2, <2>3
  <2>4. CASE i # k
    <3>1. i > k BY <1>1, <2>1, <2>2, <2>4
    <3>2. i >= e + 1 BY <1>2, <3>1
    <3> QED BY <1>1, <2>2, <3>2
  <2> QED BY <2>3, <2>4
<1>5. v[1] = k + 1 /\ v[2] = e OBVIOUS
<1> HIDE DEF v
<1>6. ASSUME v \in Hits(s, name)
      PROVE  ValueIn(s, H) = [ok |-> TRUE, v |-> SubSeq(s, KeyEnd(s, v) + 1, e)]
  <2>1. v \in H BY <1>1, <1>5, <1>6 DEF HitsFrom
  <2>2. \A w \in H : v[1] <= w[1] /\ (w # v => ~(w[1] <= v[1]))
    <3> SUFFICES ASSUME NEW w \in H PROVE v[1] <= w[1] /\ (w # v => ~(w[1] <= v[1])) OBVIOUS
    <3>1. w \in Hits(s, name) BY DEF HitsFrom
    <3>2. PICK i \in Ends(s) : i \in 0..n /\ w[1] = i + 1 BY <1>3, <3>1
    <3>3. w[1] \in Nat BY <1>1, <3>2
    <3> QED BY <1>1, <1>4, <1>5, <3>3
  <2> HIDE DEF H
  <2>3. FirstOf(H) = v BY <2>1, <2>2 DEF FirstOf
  <2> QED BY <1>5, <2>1, <2>3 DEF ValueIn
<1>7. ASSUME v \notin Hits(s, name) PROVE H = HitsFrom(s, name, rest)
  <2>1. ASSUME NEW w \in H PROVE w[1] > rest
    <3>1. w \in Hits(s, name) BY DEF HitsFrom
    <3>2. w # v BY <1>7, <3>1
    <3>3. w[1] > e + 1 BY <1>4, <3>2
    <3>4. PICK i \in Ends(s) : i \in 0..n /\ w[1] = i + 1 BY <1>3, <3>1
    <3>5. w[1] \in Nat /\ w[1] <= n + 1 BY <1>1, <3>4
    <3>6. e < n BY <1>1, <3>3, <3>5
    <3> QED BY <3>3, <3>6
  <2>2. ASSUME NEW w \in Hits(s, name), w[1] > rest PROVE w[1] > k
    <3>1. PICK i \in Ends(s) : i \in 0..n /\ w[1] = i + 1 BY <1>3
    <3>2. rest \in Nat /\ rest >= k BY <1>1
    <3>3. w[1] \in Nat BY <1>1, <3>1
    <3> HIDE DEF rest
    <3> QED BY <1>1, <2>2, <3>2, <3>3
  <2> QED BY <2>1, <2>2 DEF HitsFrom
<1> QED BY <1>6, <1>7 DEF v

\* No variable begins after the text.
LEMMA NoneAtEnd ==
    ASSUME NEW T, NEW s \in Seq(T), NEW name
    PROVE  HitsFrom(s, name, Len(s)) = {}
<1> DEFINE n == Len(s)
<1>1. n \in Nat OBVIOUS
<1> SUFFICES ASSUME NEW w \in HitsFrom(s, name, n) PROVE FALSE OBVIOUS
<1>2. w \in Variables(s) /\ w[2] >= w[1] /\ w[1] > n BY DEF HitsFrom, Hits
<1>3. PICK i \in Ends(s) \ {n + 1} : w = <<i + 1, EndAfter(s, i)>> BY <1>2, VariablesAre
<1>4. i \in 0..(n + 1) /\ w[1] = i + 1 /\ w[2] = EndAfter(s, i)
  <2>1. i \in 0..(n + 1) BY EndsRange
  <2> QED BY <1>3, <2>1
<1>5. i = n BY <1>1, <1>2, <1>3, <1>4
<1>6. EndAfter(s, n) = n
  <2>1. n \in 0..n /\ n \in n..n /\ ~(n < n) /\ \A j \in (n + 1)..n : s[j] # Amp BY <1>1
  <2> QED BY <2>1, EntryIsVariable
<1> QED BY <1>1, <1>2, <1>4, <1>5, <1>6

\* The loop's entry from place k on, its name and value, and whether they end it.
EntryOf(s, k) == Span(Drop(s, k), Amp)
PairOf(s, k) == Span(EntryOf(s, k).a, Equals)
TakenAt(s, name, k) == PairOf(s, k).ok /\ Named(PairOf(s, k), name)

\* The function by which http_var() is defined.
Looking(s, name, g) ==
    g = [k \in 0..Len(s) |->
            IF ~EntryOf(s, k).ok THEN Failed
            ELSE IF TakenAt(s, name, k) THEN [ok |-> TRUE, v |-> PairOf(s, k).b]
            ELSE g[Len(s) - Len(EntryOf(s, k).b)]]

\* Where the loop goes from an entry.
LEMMA NextEntry ==
    ASSUME NEW T, NEW s \in Seq(T), NEW k \in 0..Len(s)
    PROVE  /\ k = Len(s) => ~EntryOf(s, k).ok
           /\ k # Len(s) =>
                 /\ EntryOf(s, k).ok
                 /\ \E e \in Nat :
                       /\ EntryAt(s, k, e)
                       /\ EntryOf(s, k).a = SubSeq(s, k + 1, e)
                       /\ Len(s) - Len(EntryOf(s, k).b) = IF e < Len(s) THEN e + 1 ELSE Len(s)
<1>1. Len(s) \in Nat /\ k \in Nat OBVIOUS
<1>2. CASE k = Len(s)
  <2>1. Drop(s, k) = <<>> BY <1>1, <1>2 DEF Drop
  <2>2. EntryOf(s, k) = Failed BY <2>1 DEF EntryOf, Span
  <2> QED BY <1>2, <2>2 DEF Failed
<1>3. CASE k # Len(s)
  <2>1. k \in 0..(Len(s) - 1) BY <1>1, <1>3
  <2>2. PICK e \in Nat : EntryAt(s, k, e) BY <2>1, EntryExists
  <2>3. /\ EntryOf(s, k) = [ok |-> TRUE, a |-> SubSeq(s, k + 1, e), b |-> SubSeq(s, e + 2, Len(s))]
        /\ e \in k..Len(s)
    BY <2>2 DEF EntryAt, EntryOf
  <2>4. Len(SubSeq(s, e + 2, Len(s))) = IF e < Len(s) THEN Len(s) - (e + 1) ELSE 0
    BY <1>1, <2>3
  <2>5. EntryOf(s, k).ok = TRUE /\ EntryOf(s, k).a = SubSeq(s, k + 1, e)
        /\ Len(EntryOf(s, k).b) = IF e < Len(s) THEN Len(s) - (e + 1) ELSE 0
    BY <2>3, <2>4
  <2>6. Len(s) - Len(EntryOf(s, k).b) = IF e < Len(s) THEN e + 1 ELSE Len(s)
    <3> DEFINE l == Len(EntryOf(s, k).b)
               n == Len(s)
    <3>1. l = IF e < n THEN n - (e + 1) ELSE 0 BY <2>5
    <3>2. n \in Nat /\ e \in Nat BY <1>1
    <3> HIDE DEF l, n
    <3>3. n - l = IF e < n THEN e + 1 ELSE n BY <3>1, <3>2
    <3> QED BY <3>3 DEF l, n
  <2> QED BY <1>3, <2>2, <2>5, <2>6
<1> QED BY <1>2, <1>3

\* That function exists.
LEMMA LookingExists ==
    ASSUME NEW T, NEW s \in Seq(T), NEW name
    PROVE  \E g : Looking(s, name, g)
<1> DEFINE n == Len(s)
           stop == {k \in 0..n : ~EntryOf(s, k).ok \/ TakenAt(s, name, k)}
           value == [k \in 0..n |-> IF ~EntryOf(s, k).ok THEN Failed
                                    ELSE [ok |-> TRUE, v |-> PairOf(s, k).b]]
           next == [k \in 0..n |-> n - Len(EntryOf(s, k).b)]
           S == {value[k] : k \in 0..n}
<1>1. n \in Nat /\ n \in 0..n OBVIOUS
<1>2. value \in [0..n -> S] OBVIOUS
<1>3. n \in stop BY <1>1, NextEntry
<1>4. ASSUME NEW k \in 0..n, k \notin stop PROVE next[k] \in (k + 1)..n
  <2>1. k # n BY <1>3, <1>4
  <2>2. PICK e \in Nat :
            EntryAt(s, k, e) /\ n - Len(EntryOf(s, k).b) = IF e < n THEN e + 1 ELSE n
    BY <2>1, NextEntry
  <2>3. e \in k..n BY <2>2 DEF EntryAt
  <2>4. next[k] = IF e < n THEN e + 1 ELSE n BY <2>2
  <2> HIDE DEF next, n
  <2> QED BY <1>1, <2>1, <2>3, <2>4
<1>5. \A k \in 0..n : /\ k \in stop <=> ~EntryOf(s, k).ok \/ TakenAt(s, name, k)
                      /\ value[k] = IF ~EntryOf(s, k).ok THEN Failed
                                    ELSE [ok |-> TRUE, v |-> PairOf(s, k).b]
                      /\ next[k] = n - Len(EntryOf(s, k).b)
  OBVIOUS
<1> HIDE DEF stop, value, next, S, n
<1>6. Jumping(n, S, stop, value, next) BY <1>1, <1>2, <1>3, <1>4, Jumps
<1>7. PICK g \in [0..n -> S] :
          \A k \in 0..n : g[k] = IF k \in stop THEN value[k] ELSE g[next[k]]
  BY <1>6 DEF Jumping
<1>8. ASSUME NEW k \in 0..n
      PROVE  g[k] = IF ~EntryOf(s, k).ok THEN Failed
                    ELSE IF TakenAt(s, name, k) THEN [ok |-> TRUE, v |-> PairOf(s, k).b]
                    ELSE g[n - Len(EntryOf(s, k).b)]
  BY <1>5, <1>7
<1>9. g = [k \in 0..n |->
              IF ~EntryOf(s, k).ok THEN Failed
              ELSE IF TakenAt(s, name, k) THEN [ok |-> TRUE, v |-> PairOf(s, k).b]
              ELSE g[n - Len(EntryOf(s, k).b)]]
  BY <1>8
<1> QED BY <1>9 DEF Looking, n

\* http_var().
LEMMA VariableFound ==
    ASSUME NEW T, NEW s \in Seq(T), NEW name
    PROVE  http_var(s, name) = ValueOf(s, name)
<1> DEFINE g == CHOOSE g : Looking(s, name, g)
           n == Len(s)
           Right(k) == k \in Ends(s) \/ k = n => g[k] = ValueIn(s, HitsFrom(s, name, k))
           K == {i \in 0..n : \A k \in (n - i)..n : Right(k)}
<1>1. http_var(s, name) = g[0] BY DEF http_var, Looking, EntryOf, PairOf, TakenAt
<1>2. Looking(s, name, g) BY LookingExists
<1>3. n \in Nat /\ n \in 0..n OBVIOUS
<1> HIDE DEF g
<1>4. \A k \in 0..n :
          g[k] = IF ~EntryOf(s, k).ok THEN Failed
                 ELSE IF TakenAt(s, name, k) THEN [ok |-> TRUE, v |-> PairOf(s, k).b]
                 ELSE g[n - Len(EntryOf(s, k).b)]
  BY <1>2 DEF Looking
<1>5. Right(n)
  <2>1. g[n] = Failed BY <1>3, <1>4, NextEntry
  <2>2. ValueIn(s, HitsFrom(s, name, n)) = Failed BY NoneAtEnd DEF ValueIn
  <2> QED BY <2>1, <2>2
<1>6. 0 \in K
  <2>1. \A k \in (n - 0)..n : k = n BY <1>3
  <2> QED BY <1>3, <1>5, <2>1
<1>7. ASSUME NEW i \in 0..(n - 1), i \in K PROVE i + 1 \in K
  <2> DEFINE m == n - (i + 1)
  <2>1. m \in 0..(n - 1) /\ m \in 0..n /\ m # n /\ m \in Nat /\ n - i = m + 1 /\ i + 1 \in 0..n
    BY <1>3
  <2>2. \A k \in (m + 1)..n : Right(k) BY <1>7, <2>1
  <2> HIDE DEF m
  <2>3. ASSUME m \in Ends(s) PROVE g[m] = ValueIn(s, HitsFrom(s, name, m))
    <3>1. EntryOf(s, m).ok BY <2>1, NextEntry
    <3>2. PICK e \in Nat :
              /\ EntryAt(s, m, e)
              /\ EntryOf(s, m).a = SubSeq(s, m + 1, e)
              /\ n - Len(EntryOf(s, m).b) = IF e < n THEN e + 1 ELSE n
      BY <2>1, NextEntry
    <3> DEFINE v == <<m + 1, e>>
               kv == Span(SubSeq(s, m + 1, e), Equals)
               rest == IF e < n THEN e + 1 ELSE n
    <3>3. PairOf(s, m) = kv BY <3>2 DEF PairOf
    <3>4. /\ kv.ok /\ Named(kv, name) <=> v \in Hits(s, name)
          /\ v \in Hits(s, name) => kv.b = SubSeq(s, KeyEnd(s, v) + 1, e)
      <4>1. TakenRightly(s, name, m, e) BY <2>1, <2>3, <3>2, EntryHit
      <4> QED BY <4>1 DEF TakenRightly
    <3>5. /\ v \in Hits(s, name) =>
                 ValueIn(s, HitsFrom(s, name, m)) =
                     [ok |-> TRUE, v |-> SubSeq(s, KeyEnd(s, v) + 1, e)]
          /\ v \notin Hits(s, name) => HitsFrom(s, name, m) = HitsFrom(s, name, rest)
      BY <2>1, <2>3, <3>2, EntryDecides
    <3>6. Right(rest) /\ (rest \in Ends(s) \/ rest = n)
      <4>1. e \in m..n /\ (e < n => s[e + 1] = Amp) BY <3>2 DEF EntryAt
      <4>2. rest \in (m + 1)..n BY <1>3, <2>1, <4>1
      <4>3. rest \in Ends(s) \/ rest = n
        <5>1. CASE e < n
          <6>1. e + 1 \in 1..n BY <1>3, <2>1, <4>1, <5>1
          <6> QED BY <4>1, <5>1, <6>1, EndsRange
        <5>2. CASE ~(e < n) BY <5>2
        <5> QED BY <5>1, <5>2
      <4> HIDE DEF rest
      <4> QED BY <2>2, <4>2, <4>3
    <3>7. g[rest] = ValueIn(s, HitsFrom(s, name, rest)) BY <3>6
    <3>8. TakenAt(s, name, m) <=> v \in Hits(s, name) BY <3>3, <3>4 DEF TakenAt
    <3>9. n - Len(EntryOf(s, m).b) = rest BY <3>2
    <3> HIDE DEF v, kv, rest
    <3>10. CASE v \in Hits(s, name)
      <4>1. g[m] = [ok |-> TRUE, v |-> kv.b] BY <1>4, <2>1, <3>1, <3>3, <3>8, <3>10
      <4> QED BY <3>4, <3>5, <3>10, <4>1
    <3>11. CASE v \notin Hits(s, name)
      <4>1. g[m] = g[rest] BY <1>4, <2>1, <3>1, <3>8, <3>9, <3>11
      <4> QED BY <3>5, <3>7, <3>11, <4>1
    <3> QED BY <3>10, <3>11
  <2>4. \A k \in m..n : k = m \/ k \in (m + 1)..n BY <1>3, <2>1
  <2>5. \A k \in m..n : Right(k)
    <3>1. Right(m) BY <2>1, <2>3
    <3> HIDE DEF Right
    <3> QED BY <2>2, <2>4, <3>1
  <2> QED BY <2>1, <2>5 DEF m
<1>8. Right(0)
  <2> HIDE DEF K
  <2>1. \A i \in 0..n : i \in K BY <1>3, <1>6, <1>7, Induction
  <2>2. n \in K BY <1>3, <2>1
  <2>3. \A k \in (n - n)..n : Right(k) BY <2>2 DEF K
  <2>4. 0 \in (n - n)..n BY <1>3
  <2> QED BY <2>3, <2>4
<1>9. g[0] = ValueIn(s, HitsFrom(s, name, 0)) BY <1>8, EndsRange
<1>10. HitsFrom(s, name, 0) = Hits(s, name)
  <2> SUFFICES ASSUME NEW w \in Hits(s, name) PROVE w[1] > 0 BY DEF HitsFrom
  <2>1. w \in Variables(s) BY DEF Hits
  <2>2. PICK i \in Ends(s) \ {n + 1} : w = <<i + 1, EndAfter(s, i)>> BY <2>1, VariablesAre
  <2>3. i \in Nat /\ w[1] = i + 1
    <3>1. i \in Nat BY EndsRange
    <3> QED BY <2>2, <3>1
  <2> QED BY <2>3
<1> QED BY <1>1, <1>9, <1>10, ValueIsFirst

\* http_var() finds the first variable of the name, in texts of any length.
THEOREM VariablesAreExact == TextSpec => []VariablesExact
<1>1. TextTyped => VariablesExact BY VariableFound DEF TextTyped, VariablesExact
<1> QED BY <1>1, TextTypes, PTL
-----------------------------------------------------------------------------
(* Patterns.  The loop keeps one place to try again, at the last wildcard: *)
(* an earlier one need not be tried again, because what the last one can   *)
(* begin with later it can begin with now.                                 *)

\* A wildcard of the pattern.
WildAt(p, i) == At(p, i) \in {Star, Hash}

\* M says from where in the text the rest of the pattern matches, at each place of it.
MeantAt(s, p, M) ==
    /\ M \in [0..Len(p) -> SUBSET (0..Len(s))]
    /\ M[Len(p)] = {Len(s)}
    /\ \A i \in 0..(Len(p) - 1), j \in 0..Len(s) :
          /\ WildAt(p, i) => (j \in M[i] <=> \E n \in j..Len(s) : n \in M[i + 1])
          /\ ~WildAt(p, i) => (j \in M[i] <=> /\ j < Len(s) /\ At(p, i) \in {Query, At(s, j)}
                                              /\ j + 1 \in M[i + 1])

\* Texts and patterns for which the code's * is not known to go too far.
Unmixed(s, p) == Star \notin Range(p) \/ Slash \notin Range(s)

\* What a wildcard and another character of the pattern add.
LEMMA PrefixedIs ==
    ASSUME NEW T, NEW s \in Seq(T), NEW U, NEW p \in Seq(U), Unmixed(s, p),
           NEW i \in 0..(Len(p) - 1), NEW ends \in SUBSET (0..Len(s)), NEW j \in 0..Len(s)
    PROVE  /\ WildAt(p, i) => (j \in Prefixed(s, At(p, i), ends) <=> \E n \in j..Len(s) : n \in ends)
           /\ ~WildAt(p, i) => (j \in Prefixed(s, At(p, i), ends) <=>
                                   /\ j < Len(s) /\ At(p, i) \in {Query, At(s, j)}
                                   /\ j + 1 \in ends)
<1> DEFINE c == At(p, i)
<1>1. Star # Hash BY DEF Star, Hash
<1>2. CASE c = Hash
  <2>1. WildAt(p, i) BY <1>2 DEF WildAt
  <2>2. j \in Prefixed(s, c, ends) <=> \E n \in j..Len(s) : n \in ends
    BY <1>1, <1>2 DEF Prefixed
  <2> QED BY <2>1, <2>2
<1>3. CASE c = Star
  <2>1. WildAt(p, i) BY <1>3 DEF WildAt
  <2>2. Star \in Range(p)
    <3>1. i + 1 \in DOMAIN p /\ p[i + 1] = Star BY <1>3 DEF At
    <3> QED BY <3>1 DEF Range
  <2>3. ASSUME NEW n \in j..Len(s) PROVE Slash \notin Range(SubSeq(s, j + 1, n))
    <3>1. \A k \in DOMAIN SubSeq(s, j + 1, n) :
              j + k \in DOMAIN s /\ SubSeq(s, j + 1, n)[k] = s[j + k]
      OBVIOUS
    <3>2. \A k \in DOMAIN s : s[k] # Slash BY <2>2 DEF Unmixed, Range
    <3> QED BY <3>1, <3>2 DEF Range
  <2>4. j \in Prefixed(s, c, ends) <=>
            \E n \in j..Len(s) : n \in ends /\ Slash \notin Range(SubSeq(s, j + 1, n))
    BY <1>1, <1>3 DEF Prefixed
  <2> QED BY <2>1, <2>3, <2>4
<1>4. CASE c # Hash /\ c # Star
  <2>1. ~WildAt(p, i) BY <1>4 DEF WildAt
  <2>2. j \in Prefixed(s, c, ends) <=> j < Len(s) /\ c \in {Query, At(s, j)} /\ j + 1 \in ends
    BY <1>4 DEF Prefixed
  <2> QED BY <2>1, <2>2
<1> QED BY <1>2, <1>3, <1>4

\* The function by which Means() is defined.
Meaning(s, p, g) ==
    g = [k \in 0..Len(p) |->
            IF k = 0 THEN {Len(s)} ELSE Prefixed(s, At(p, Len(p) - k), g[k - 1])]

\* It exists.
LEMMA MeaningExists ==
    ASSUME NEW T, NEW s \in Seq(T), NEW U, NEW p \in Seq(U)
    PROVE  \E g : Meaning(s, p, g)
<1> DEFINE n == Len(p)
           S == SUBSET (0..Len(s))
           F == [q \in ((0 + 1)..n) \X S |-> Prefixed(s, At(p, n - q[1]), q[2])]
           x == {Len(s)}
<1>1. n \in Nat /\ 0 \in Nat /\ 0 <= n /\ Len(s) \in Nat OBVIOUS
<1>2. F \in [((0 + 1)..n) \X S -> S] /\ x \in S
  <2>1. \A c, ends : Prefixed(s, c, ends) \in S BY DEF Prefixed
  <2>2. x \in S BY <1>1
  <2> HIDE DEF S
  <2> QED BY <2>1, <2>2
<1>3. \A k \in (0 + 1)..n, e \in S : F[<<k, e>>] = Prefixed(s, At(p, n - k), e) OBVIOUS
<1> HIDE DEF F, S, n, x
<1>4. Recursive(0, n, S, x, F) BY <1>1, <1>2, Recursion
<1>5. PICK g \in [0..n -> S] :
          g[0] = x /\ \A k \in (0 + 1)..n : g[k] = F[<<k, g[k - 1]>>]
  BY <1>4 DEF Recursive
<1>6. ASSUME NEW k \in 0..n, k # 0 PROVE g[k] = Prefixed(s, At(p, n - k), g[k - 1])
  <2>1. k \in (0 + 1)..n /\ k - 1 \in 0..n BY <1>1, <1>6
  <2> QED BY <1>3, <1>5, <2>1
<1>7. g = [k \in 0..n |-> IF k = 0 THEN x ELSE Prefixed(s, At(p, n - k), g[k - 1])]
  BY <1>5, <1>6
<1> QED BY <1>7 DEF Meaning, n, x

\* Means(), by places of the pattern.
LEMMA MeansMeant ==
    ASSUME NEW T, NEW s \in Seq(T), NEW U, NEW p \in Seq(U), Unmixed(s, p)
    PROVE  \E M : MeantAt(s, p, M) /\ (Means(s, p) <=> 0 \in M[0])
<1> DEFINE g == CHOOSE g : Meaning(s, p, g)
           n == Len(p)
           M == [i \in 0..n |-> g[n - i]]
<1>1. Means(s, p) <=> 0 \in g[n] BY DEF Means, Meaning
<1>2. Meaning(s, p, g) BY MeaningExists
<1>3. n \in Nat /\ Len(s) \in Nat OBVIOUS
<1> HIDE DEF g
<1>4. g[0] = {Len(s)} /\ \A k \in 1..n : g[k] = Prefixed(s, At(p, n - k), g[k - 1])
  <2>1. 0 \in 0..Len(p) /\ \A k \in 1..n : k \in 0..Len(p) /\ k # 0 BY <1>3
  <2>2. ASSUME NEW k \in 0..Len(p)
        PROVE  g[k] = IF k = 0 THEN {Len(s)} ELSE Prefixed(s, At(p, Len(p) - k), g[k - 1])
    BY <1>2 DEF Meaning
  <2> QED BY <2>1, <2>2
<1>5. \A k \in 0..n : g[k] \in SUBSET (0..Len(s))
  <2> SUFFICES ASSUME NEW k \in 0..n PROVE g[k] \in SUBSET (0..Len(s)) OBVIOUS
  <2>1. CASE k = 0 BY <1>3, <1>4, <2>1
  <2>2. CASE k # 0
    <3>1. k \in 1..n BY <1>3, <2>2
    <3>2. g[k] = Prefixed(s, At(p, n - k), g[k - 1]) BY <1>4, <3>1
    <3> QED BY <3>2 DEF Prefixed
  <2> QED BY <2>1, <2>2
<1>6. M \in [0..n -> SUBSET (0..Len(s))]
  <2>1. \A i \in 0..n : n - i \in 0..n BY <1>3
  <2> QED BY <1>5, <2>1
<1>7. \A i \in 0..n : M[i] = g[n - i] OBVIOUS
<1>8. M[n] = {Len(s)} /\ M[0] = g[n]
  <2>1. n \in 0..n /\ 0 \in 0..n /\ n - n = 0 /\ n - 0 = n BY <1>3
  <2> QED BY <1>4, <1>7, <2>1
<1>9. ASSUME NEW i \in 0..(n - 1) PROVE M[i] = Prefixed(s, At(p, i), M[i + 1]) /\ M[i + 1] \in SUBSET (0..Len(s))
  <2>1. n - i \in 1..n /\ n - (n - i) = i /\ (n - i) - 1 = n - (i + 1) /\ i \in 0..n /\ i + 1 \in 0..n
    BY <1>3
  <2>2. M[i] = g[n - i] /\ M[i + 1] = g[n - (i + 1)] BY <1>7, <2>1
  <2>3. g[n - i] = Prefixed(s, At(p, n - (n - i)), g[(n - i) - 1]) BY <1>4, <2>1
  <2> QED BY <1>6, <2>1, <2>2, <2>3
<1> HIDE DEF M
<1>10. MeantAt(s, p, M)
  <2> SUFFICES ASSUME NEW i \in 0..(Len(p) - 1), NEW j \in 0..Len(s)
               PROVE  /\ WildAt(p, i) => (j \in M[i] <=> \E k \in j..Len(s) : k \in M[i + 1])
                      /\ ~WildAt(p, i) => (j \in M[i] <=> /\ j < Len(s) /\ At(p, i) \in {Query, At(s, j)}
                                                          /\ j + 1 \in M[i + 1])
    BY <1>6, <1>8 DEF MeantAt
  <2>1. M[i] = Prefixed(s, At(p, i), M[i + 1]) /\ M[i + 1] \in SUBSET (0..Len(s)) BY <1>9
  <2> QED BY <2>1, PrefixedIs
<1> QED BY <1>1, <1>8, <1>10

\* Characters that are no wildcards match as many of the text.
LEMMA SkipLiterals ==
    ASSUME NEW T, NEW s \in Seq(T), NEW U, NEW p \in Seq(U), NEW M, MeantAt(s, p, M),
           NEW a \in 0..Len(p), NEW b \in a..Len(p), \A i \in a..(b - 1) : ~WildAt(p, i),
           NEW n \in M[a]
    PROVE  n + (b - a) \in M[b] /\ n \in 0..Len(s)
<1>1. a \in Nat /\ b \in Nat /\ Len(p) \in Nat /\ Len(s) \in Nat OBVIOUS
<1>2. \A i \in 0..Len(p) : M[i] \subseteq 0..Len(s) BY DEF MeantAt
<1>3. n \in 0..Len(s) /\ n \in Nat BY <1>2
<1> DEFINE K == {i \in a..b : n + (i - a) \in M[i]}
<1>4. a \in K
  <2>1. n + (a - a) = n /\ a \in a..b BY <1>1, <1>3
  <2> QED BY <2>1
<1>5. ASSUME NEW i \in a..(b - 1), i \in K PROVE i + 1 \in K
  <2>1. i \in 0..(Len(p) - 1) /\ i \in 0..Len(p) /\ i + 1 \in a..b /\ n + (i - a) \in M[i]
    BY <1>1, <1>5
  <2>2. n + (i - a) \in 0..Len(s) BY <1>2, <2>1
  <2>3. (n + (i - a)) + 1 \in M[i + 1] BY <2>1, <2>2 DEF MeantAt
  <2>4. (n + (i - a)) + 1 = n + ((i + 1) - a) BY <1>1, <1>3, <2>1
  <2> QED BY <2>1, <2>3, <2>4
<1> HIDE DEF K
<1>6. \A i \in a..b : i \in K BY <1>1, <1>4, <1>5, Induction
<1>7. b \in K BY <1>1, <1>6
<1> QED BY <1>3, <1>7 DEF K

\* The function by which Match() is defined.
Globbing(s, p, g) ==
    g = [x \in Places(s, p) |->
            \/ x.i = Len(p) /\ x.j = Len(s)
            \/ /\ Literal(s, p, x) \/ Wildcard(p, x) \/ Retry(s, p, x)
               /\ g[NextPlace(s, p, x)]]

\* Where the loop goes on, it stays in the pattern and in the text.
LEMMA NextPlaceIs ==
    ASSUME NEW T, NEW s \in Seq(T), NEW U, NEW p \in Seq(U), NEW x \in Places(s, p),
           Literal(s, p, x) \/ Wildcard(p, x) \/ Retry(s, p, x)
    PROVE  /\ NextPlace(s, p, x) \in Places(s, p)
           /\ Literal(s, p, x) => NextPlace(s, p, x) = [i |-> x.i + 1, j |-> x.j + 1, ni |-> x.ni, nj |-> x.nj]
           /\ ~Literal(s, p, x) /\ Wildcard(p, x) =>
                  NextPlace(s, p, x) = [i |-> x.i + 1, j |-> x.j, ni |-> x.i, nj |-> x.j + 1]
           /\ ~Literal(s, p, x) /\ ~Wildcard(p, x) =>
                  NextPlace(s, p, x) = [i |-> x.ni, j |-> x.nj, ni |-> x.ni, nj |-> x.nj]
<1> DEFINE y == NextPlace(s, p, x)
<1>1. /\ Len(p) \in Nat /\ Len(s) \in Nat
      /\ x.i \in 0..Len(p) /\ x.j \in 0..Len(s) /\ x.ni \in 0..Len(p) /\ x.nj \in 0..(Len(s) + 1)
      /\ x = [i |-> x.i, j |-> x.j, ni |-> x.ni, nj |-> x.nj]
  BY DEF Places
<1>2. CASE Literal(s, p, x)
  <2>1. y = [i |-> x.i + 1, j |-> x.j + 1, ni |-> x.ni, nj |-> x.nj] BY <1>1, <1>2 DEF NextPlace
  <2>2. x.i + 1 \in 0..Len(p) /\ x.j + 1 \in 0..Len(s) BY <1>1, <1>2 DEF Literal
  <2>3. y \in Places(s, p) BY <1>1, <2>1, <2>2 DEF Places
  <2> QED BY <1>2, <2>1, <2>3
<1>3. CASE ~Literal(s, p, x) /\ Wildcard(p, x)
  <2>1. y = [i |-> x.i + 1, j |-> x.j, ni |-> x.i, nj |-> x.j + 1] BY <1>1, <1>3 DEF NextPlace
  <2>2. x.i + 1 \in 0..Len(p) /\ x.j + 1 \in 0..(Len(s) + 1) BY <1>1, <1>3 DEF Wildcard
  <2>3. y \in Places(s, p) BY <1>1, <2>1, <2>2 DEF Places
  <2> QED BY <1>3, <2>1, <2>3
<1>4. CASE ~Literal(s, p, x) /\ ~Wildcard(p, x)
  <2>1. y = [i |-> x.ni, j |-> x.nj, ni |-> x.ni, nj |-> x.nj] BY <1>1, <1>4 DEF NextPlace
  <2>2. x.nj \in 0..Len(s) BY <1>1, <1>4 DEF Retry
  <2>3. y \in Places(s, p) BY <1>1, <2>1, <2>2 DEF Places
  <2> QED BY <1>4, <2>1, <2>3
<1> QED BY <1>2, <1>3, <1>4

\* That function exists: the places from which the loop comes to the end of both are
\* the least set that has those ends and what leads to them.
LEMMA GlobbingExists ==
    ASSUME NEW T, NEW s \in Seq(T), NEW U, NEW p \in Seq(U)
    PROVE  \E g : Globbing(s, p, g)
<1> DEFINE D == Places(s, p)
           End(x) == x.i = Len(p) /\ x.j = Len(s)
           Goes(x) == Literal(s, p, x) \/ Wildcard(p, x) \/ Retry(s, p, x)
           To(x) == NextPlace(s, p, x)
           Closed(C) == \A x \in D : End(x) \/ (Goes(x) /\ To(x) \in C) => x \in C
           G == {x \in D : \A C \in SUBSET D : Closed(C) => x \in C}
           g == [x \in D |-> x \in G]
<1>1. \A x \in D : Goes(x) => To(x) \in D BY NextPlaceIs
<1> HIDE DEF End, Goes, To, D
<1>2. Closed(G)
  <2> SUFFICES ASSUME NEW x \in D, End(x) \/ (Goes(x) /\ To(x) \in G), NEW C \in SUBSET D, Closed(C)
               PROVE  x \in C
    OBVIOUS
  <2> QED OBVIOUS
<1>3. ASSUME NEW x \in G PROVE End(x) \/ (Goes(x) /\ To(x) \in G)
  <2> DEFINE C == {y \in D : End(y) \/ (Goes(y) /\ To(y) \in G)}
  <2>1. C \subseteq G
    <3> HIDE DEF G
    <3> QED BY <1>2
  <2>2. Closed(C)
    <3> SUFFICES ASSUME NEW y \in D, End(y) \/ (Goes(y) /\ To(y) \in C) PROVE y \in C OBVIOUS
    <3> HIDE DEF G
    <3> QED BY <2>1
  <2>3. C \in SUBSET D OBVIOUS
  <2> HIDE DEF C
  <2>4. x \in C BY <2>2, <2>3
  <2> QED BY <2>4 DEF C
<1>4. G \subseteq D OBVIOUS
<1>5. ASSUME NEW x \in D PROVE x \in G <=> End(x) \/ (Goes(x) /\ g[To(x)])
  <2>1. CASE Goes(x)
    <3>1. g[To(x)] <=> To(x) \in G
      <4> HIDE DEF G
      <4> QED BY <1>1, <2>1
    <3> HIDE DEF G, g
    <3> QED BY <1>2, <1>3, <2>1, <3>1
  <2>2. CASE ~Goes(x)
    <3> HIDE DEF G, g
    <3> QED BY <1>2, <1>3, <2>2
  <2> QED BY <2>1, <2>2
<1>6. g = [x \in D |-> End(x) \/ (Goes(x) /\ g[To(x)])]
  <2> HIDE DEF G
  <2> DEFINE h == g
  <2>1. \A x \in D : (x \in G) = (End(x) \/ (Goes(x) /\ h[To(x)])) BY <1>5
  <2> HIDE DEF h
  <2>2. [x \in D |-> x \in G] = [x \in D |-> End(x) \/ (Goes(x) /\ h[To(x)])] BY <2>1
  <2> QED BY <2>2 DEF h
<1> HIDE DEF g
<1>7. Globbing(s, p, g) BY <1>6 DEF Globbing, End, Goes, To, D
<1> QED BY <1>7

\* One turn of that loop.
LEMMA GlobbingIs ==
    ASSUME NEW T, NEW s \in Seq(T), NEW U, NEW p \in Seq(U), NEW g, Globbing(s, p, g),
           NEW x \in Places(s, p)
    PROVE  g[x] <=> \/ x.i = Len(p) /\ x.j = Len(s)
                    \/ /\ Literal(s, p, x) \/ Wildcard(p, x) \/ Retry(s, p, x)
                       /\ g[NextPlace(s, p, x)]
BY DEF Globbing

\* Where the loop tries again it has a wildcard; since then it has matched as many
\* characters of the pattern as of the text.
TriedAt(p, i, j, ni, nj) ==
    /\ ni < i /\ WildAt(p, ni)
    /\ \A k \in (ni + 1)..(i - 1) : ~WildAt(p, k)
    /\ j = nj - 1 + (i - ni - 1)

Tried(p, x) == x.nj > 0 => TriedAt(p, x.i, x.j, x.ni, x.nj)

\* Where the loop is after a wildcard.
LEMMA TriedNow ==
    ASSUME NEW p, NEW i \in Nat, NEW j \in Nat, WildAt(p, i)
    PROVE  TriedAt(p, i + 1, j, i, j + 1)
<1>1. i < i + 1 /\ j = (j + 1) - 1 + ((i + 1) - i - 1) OBVIOUS
<1>2. \A k \in (i + 1)..((i + 1) - 1) : FALSE OBVIOUS
<1>3. \A k \in (i + 1)..((i + 1) - 1) : ~WildAt(p, k) BY <1>2
<1> QED BY <1>1, <1>3 DEF TriedAt

\* Where it is after another character.
LEMMA TriedStill ==
    ASSUME NEW p, NEW i \in Nat, NEW j \in Nat, NEW ni \in Nat, NEW nj \in Nat,
           TriedAt(p, i, j, ni, nj), ~WildAt(p, i)
    PROVE  TriedAt(p, i + 1, j + 1, ni, nj)
<1>1. ni < i /\ WildAt(p, ni) /\ j = nj - 1 + (i - ni - 1) BY DEF TriedAt
<1>2. \A k \in (ni + 1)..(i - 1) : ~WildAt(p, k) BY DEF TriedAt
<1>3. \A k \in (ni + 1)..((i + 1) - 1) : k \in (ni + 1)..(i - 1) \/ k = i OBVIOUS
<1>4. \A k \in (ni + 1)..((i + 1) - 1) : ~WildAt(p, k) BY <1>2, <1>3
<1>5. ni < i + 1 /\ j + 1 = nj - 1 + ((i + 1) - ni - 1) BY <1>1
<1> QED BY <1>1, <1>4, <1>5 DEF TriedAt

\* The rest of the text matches the rest of the pattern, from where the loop is or
\* from where it can try again.
Hopes(s, M, x) ==
    \/ x.j \in M[x.i]
    \/ x.nj > 0 /\ \E n \in x.nj..Len(s) : n \in M[x.ni + 1]

\* Places at which the loop has got further than at x.
Beyond(s, p, x) == {y \in Places(s, p) : y.nj > x.nj \/ (y.nj >= x.nj /\ y.i > x.i)}

\* What could match from where the loop tries again matches from the place it has
\* come to, or further on.
LEMMA HopesMoveOn ==
    ASSUME NEW T, NEW s \in Seq(T), NEW U, NEW p \in Seq(U), NEW M, MeantAt(s, p, M),
           NEW x \in Places(s, p), Tried(p, x), x.nj > 0,
           NEW n \in x.nj..Len(s), n \in M[x.ni + 1]
    PROVE  \E m \in (x.j + 1)..Len(s) : m \in M[x.i]
<1>1. /\ Len(p) \in Nat /\ Len(s) \in Nat
      /\ x.i \in 0..Len(p) /\ x.j \in 0..Len(s) /\ x.ni \in 0..Len(p) /\ x.nj \in 0..(Len(s) + 1)
  BY DEF Places
<1> DEFINE a == x.ni + 1
           b == x.i
<1>2. /\ x.ni < x.i /\ \A k \in (x.ni + 1)..(x.i - 1) : ~WildAt(p, k)
      /\ x.j = x.nj - 1 + (x.i - x.ni - 1)
  <2>1. TriedAt(p, x.i, x.j, x.ni, x.nj) BY DEF Tried
  <2> QED BY <2>1, Zenon DEF TriedAt
<1>3. a \in 0..Len(p) /\ b \in a..Len(p)
  <2>3. x.ni < x.i BY <1>2
  <2>1. x.ni + 1 \in 0..x.i /\ x.i \in (x.ni + 1)..Len(p) BY <1>1, <2>3
  <2>2. x.ni + 1 \in 0..Len(p) BY <1>1, <2>1
  <2> QED BY <2>1, <2>2
<1>4. n \in M[a] /\ \A i \in a..(b - 1) : ~WildAt(p, i) BY <1>2
<1> HIDE DEF a, b
<1>5. n + (b - a) \in M[b] BY <1>3, <1>4, SkipLiterals
<1>6. M[b] \in SUBSET (0..Len(s)) BY <1>1 DEF MeantAt, b
<1>7. n + (b - a) \in (x.j + 1)..Len(s)
  <2>1. n + (b - a) \in 0..Len(s) BY <1>5, <1>6
  <2>2. n \in Nat /\ x.nj <= n /\ x.j = x.nj - 1 + (x.i - x.ni - 1) BY <1>1, <1>2
  <2>3. n + (x.i - (x.ni + 1)) >= x.j + 1
    <3> DEFINE i == x.i
               j == x.j
               ni == x.ni
               nj == x.nj
    <3>1. /\ i \in Nat /\ j \in Nat /\ ni \in Nat /\ nj \in Nat /\ nj <= n
          /\ j = nj - 1 + (i - ni - 1)
      BY <1>1, <2>2
    <3> HIDE DEF i, j, ni, nj
    <3>2. n + (i - (ni + 1)) >= j + 1 BY <2>2, <3>1
    <3> QED BY <3>2 DEF i, j, ni, nj
  <2>4. n + (b - a) >= x.j + 1 BY <2>3 DEF a, b
  <2> QED BY <1>1, <2>1, <2>4
<1> QED BY <1>5, <1>7 DEF b

\* The loop goes on as the rest of the text and of the pattern say, if it does so from
\* every place further on.
LEMMA MatchTurn ==
    ASSUME NEW T, NEW s \in Seq(T), NEW U, NEW p \in Seq(U), Unmixed(s, p),
           NEW M, MeantAt(s, p, M), NEW g, Globbing(s, p, g),
           NEW x \in Places(s, p), Tried(p, x),
           \A y \in Beyond(s, p, x) : Tried(p, y) => (g[y] <=> Hopes(s, M, y))
    PROVE  g[x] <=> Hopes(s, M, x)
<1>1. /\ Len(p) \in Nat /\ Len(s) \in Nat
      /\ x.i \in 0..Len(p) /\ x.j \in 0..Len(s) /\ x.ni \in 0..Len(p) /\ x.nj \in 0..(Len(s) + 1)
      /\ x = [i |-> x.i, j |-> x.j, ni |-> x.ni, nj |-> x.nj]
  BY DEF Places
<1>2. Star # Hash /\ Query \notin {Star, Hash} BY DEF Star, Hash, Query
<1>3. \A i \in 0..(Len(p) - 1), j \in 0..Len(s) :
          /\ WildAt(p, i) => (j \in M[i] <=> \E n \in j..Len(s) : n \in M[i + 1])
          /\ ~WildAt(p, i) => (j \in M[i] <=> /\ j < Len(s) /\ At(p, i) \in {Query, At(s, j)}
                                              /\ j + 1 \in M[i + 1])
  BY DEF MeantAt
<1>4. CASE x.i = Len(p) /\ x.j = Len(s)
  <2>1. x.j \in M[x.i] BY <1>4 DEF MeantAt
  <2>2. g[x] BY <1>4, GlobbingIs
  <2> QED BY <2>1, <2>2 DEF Hopes
<1>5. CASE Literal(s, p, x)
  <2> DEFINE y == [i |-> x.i + 1, j |-> x.j + 1, ni |-> x.ni, nj |-> x.nj]
  <2>1. x.i < Len(p) /\ x.j < Len(s) /\ ~WildAt(p, x.i) /\ At(p, x.i) \in {Query, At(s, x.j)}
    BY <1>2, <1>5 DEF Literal, WildAt
  <2>2. NextPlace(s, p, x) = y /\ y \in Places(s, p) BY <1>5, NextPlaceIs
  <2>3. y \in Beyond(s, p, x) BY <1>1, <2>2 DEF Beyond
  <2>4. Tried(p, y)
    <3>1. ASSUME x.nj > 0
          PROVE  TriedAt(p, x.i + 1, x.j + 1, x.ni, x.nj)
      <4>1. TriedAt(p, x.i, x.j, x.ni, x.nj) BY <3>1 DEF Tried
      <4> QED BY <1>1, <2>1, <4>1, TriedStill
    <3>2. y.i = x.i + 1 /\ y.j = x.j + 1 /\ y.ni = x.ni /\ y.nj = x.nj OBVIOUS
    <3> HIDE DEF y
    <3> QED BY <3>1, <3>2 DEF Tried
  <2>5. x.i \in 0..(Len(p) - 1) BY <1>1, <2>1
  <2>6. x.j \in M[x.i] <=> x.j + 1 \in M[x.i + 1] BY <1>1, <1>3, <2>1, <2>5
  <2>7. Hopes(s, M, y) <=> Hopes(s, M, x) BY <2>6 DEF Hopes
  <2>8. g[x] <=> g[NextPlace(s, p, x)]
    <3>1. ~(x.i = Len(p) /\ x.j = Len(s)) BY <1>1, <2>1
    <3> QED BY <1>5, <3>1, GlobbingIs
  <2> HIDE DEF y
  <2> QED BY <2>2, <2>3, <2>4, <2>7, <2>8
<1>6. CASE ~Literal(s, p, x) /\ Wildcard(p, x)
  <2> DEFINE y == [i |-> x.i + 1, j |-> x.j, ni |-> x.i, nj |-> x.j + 1]
  <2>1. x.i < Len(p) /\ WildAt(p, x.i) BY <1>6 DEF Wildcard, WildAt
  <2>2. NextPlace(s, p, x) = y /\ y \in Places(s, p) BY <1>6, NextPlaceIs
  <2>3. x.nj <= x.j + 1 BY <1>1 DEF Tried, TriedAt
  <2>4. y \in Beyond(s, p, x) BY <1>1, <2>2, <2>3 DEF Beyond
  <2>5. Tried(p, y)
    <3>2. TriedAt(p, x.i + 1, x.j, x.i, x.j + 1) BY <1>1, <2>1, TriedNow
    <3>3. y.i = x.i + 1 /\ y.j = x.j /\ y.ni = x.i /\ y.nj = x.j + 1 OBVIOUS
    <3> HIDE DEF y
    <3> QED BY <3>2, <3>3 DEF Tried
  <2>6. x.i \in 0..(Len(p) - 1) BY <1>1, <2>1
  <2>7. x.j \in M[x.i] <=> \E n \in x.j..Len(s) : n \in M[x.i + 1] BY <1>1, <1>3, <2>1, <2>6
  <2>8. Hopes(s, M, y) <=> x.j \in M[x.i]
    <3>1. Hopes(s, M, y) <=> x.j \in M[x.i + 1] \/ \E n \in (x.j + 1)..Len(s) : n \in M[x.i + 1]
      <4>1. x.j + 1 > 0 BY <1>1
      <4> QED BY <4>1 DEF Hopes
    <3>2. \A n : n \in x.j..Len(s) <=> n = x.j \/ n \in (x.j + 1)..Len(s) BY <1>1
    <3> HIDE DEF y
    <3> QED BY <2>7, <3>1, <3>2
  <2>9. Hopes(s, M, x) <=> x.j \in M[x.i]
    <3> SUFFICES ASSUME x.nj > 0, NEW n \in x.nj..Len(s), n \in M[x.ni + 1]
                 PROVE  x.j \in M[x.i]
      BY DEF Hopes
    <3>1. PICK m \in (x.j + 1)..Len(s) : m \in M[x.i] BY HopesMoveOn
    <3>2. m \in 0..Len(s) BY <1>1
    <3>3. PICK l \in m..Len(s) : l \in M[x.i + 1] BY <1>3, <2>1, <2>6, <3>1, <3>2
    <3>4. l \in x.j..Len(s) BY <1>1, <3>2
    <3> QED BY <2>7, <3>3, <3>4
  <2>10. g[x] <=> g[NextPlace(s, p, x)]
    <3>1. ~(x.i = Len(p) /\ x.j = Len(s)) BY <1>1, <2>1
    <3> QED BY <1>6, <3>1, GlobbingIs
  <2> HIDE DEF y
  <2> QED BY <2>2, <2>4, <2>5, <2>8, <2>9, <2>10
<1>7. CASE ~(x.i = Len(p) /\ x.j = Len(s)) /\ ~Literal(s, p, x) /\ ~Wildcard(p, x)
  <2>1. x.j \notin M[x.i]
    <3>1. CASE x.i = Len(p)
      <4>1. M[x.i] = {Len(s)} BY <3>1 DEF MeantAt
      <4> QED BY <1>7, <3>1, <4>1
    <3>2. CASE x.i # Len(p)
      <4>1. x.i < Len(p) /\ x.i \in 0..(Len(p) - 1) BY <1>1, <3>2
      <4>2. ~WildAt(p, x.i) BY <1>7, <4>1 DEF Wildcard, WildAt
      <4>3. ~(x.j < Len(s) /\ At(p, x.i) \in {Query, At(s, x.j)})
        BY <1>7, <4>1, <4>2 DEF Literal, WildAt
      <4> QED BY <1>1, <1>3, <4>1, <4>2, <4>3
    <3> QED BY <3>1, <3>2
  <2>2. Hopes(s, M, x) <=> x.nj > 0 /\ \E n \in x.nj..Len(s) : n \in M[x.ni + 1]
    BY <2>1 DEF Hopes
  <2>3. CASE Retry(s, p, x)
    <3> DEFINE z == [i |-> x.ni, j |-> x.nj, ni |-> x.ni, nj |-> x.nj]
               y == [i |-> x.ni + 1, j |-> x.nj, ni |-> x.ni, nj |-> x.nj + 1]
    <3>1. x.nj > 0 /\ x.nj <= Len(s) BY <2>3 DEF Retry
    <3>2. x.ni < Len(p) /\ WildAt(p, x.ni) BY <1>1, <3>1 DEF Tried, TriedAt
    <3>3. NextPlace(s, p, x) = z /\ z \in Places(s, p) BY <1>7, <2>3, NextPlaceIs
    <3>4. g[x] <=> g[z] BY <1>7, <2>3, <3>3, GlobbingIs
    <3>5. ~Literal(s, p, z) /\ Wildcard(p, z)
      BY <1>2, <3>2 DEF Literal, Wildcard, WildAt
    <3>6. NextPlace(s, p, z) = y /\ y \in Places(s, p)
      <4>1. z.i = x.ni /\ z.j = x.nj OBVIOUS
      <4> HIDE DEF z
      <4>2. NextPlace(s, p, z) = [i |-> z.i + 1, j |-> z.j, ni |-> z.i, nj |-> z.j + 1]
            /\ NextPlace(s, p, z) \in Places(s, p)
        BY <3>3, <3>5, NextPlaceIs
      <4> QED BY <4>1, <4>2
    <3>7. g[z] <=> g[y]
      <4>1. ~(z.i = Len(p) /\ z.j = Len(s)) BY <1>1, <3>2
      <4> HIDE DEF z, y
      <4> QED BY <3>3, <3>5, <3>6, <4>1, GlobbingIs
    <3>8. y \in Beyond(s, p, x) BY <1>1, <3>6 DEF Beyond
    <3>9. Tried(p, y)
      <4>2. TriedAt(p, x.ni + 1, x.nj, x.ni, x.nj + 1) BY <1>1, <3>2, TriedNow
      <4>3. y.i = x.ni + 1 /\ y.j = x.nj /\ y.ni = x.ni /\ y.nj = x.nj + 1 OBVIOUS
      <4> HIDE DEF z, y
      <4> QED BY <4>2, <4>3 DEF Tried
    <3>10. Hopes(s, M, y) <=> \E n \in x.nj..Len(s) : n \in M[x.ni + 1]
      <4>1. Hopes(s, M, y) <=> x.nj \in M[x.ni + 1] \/ \E n \in (x.nj + 1)..Len(s) : n \in M[x.ni + 1]
        <5>1. x.nj + 1 > 0 BY <1>1
        <5> QED BY <5>1 DEF Hopes
      <4>2. \A n : n \in x.nj..Len(s) <=> n = x.nj \/ n \in (x.nj + 1)..Len(s) BY <1>1, <3>1
      <4> HIDE DEF y
      <4> QED BY <4>1, <4>2
    <3> HIDE DEF z, y
    <3> QED BY <2>2, <3>1, <3>4, <3>7, <3>8, <3>9, <3>10
  <2>4. CASE ~Retry(s, p, x)
    <3>1. ~g[x] BY <1>7, <2>4, GlobbingIs
    <3>2. ASSUME x.nj > 0, NEW n \in x.nj..Len(s), n \in M[x.ni + 1] PROVE FALSE
      <4>1. PICK m \in (x.j + 1)..Len(s) : m \in M[x.i] BY <3>2, HopesMoveOn
      <4>2. x.j < Len(s) /\ x.nj <= Len(s) BY <1>1, <3>2, <4>1
      <4>3. x.ni < Len(p) /\ WildAt(p, x.ni) BY <1>1, <3>2 DEF Tried, TriedAt
      <4>4. At(p, x.ni) # Hash /\ At(s, x.j) = Slash BY <2>4, <3>2, <4>2, <4>3 DEF Retry
      <4>5. At(p, x.ni) = Star BY <4>3, <4>4 DEF WildAt
      <4>6. x.ni + 1 \in DOMAIN p /\ x.j + 1 \in DOMAIN s BY <1>1, <4>2, <4>3
      <4>7. Star \in Range(p) /\ Slash \in Range(s) BY <4>4, <4>5, <4>6 DEF At, Range
      <4> QED BY <4>7 DEF Unmixed
    <3> QED BY <2>2, <3>1, <3>2
  <2> QED BY <2>3, <2>4
<1> QED BY <1>4, <1>5, <1>6, <1>7

\* From everywhere the loop goes on as the rest of the text and of the pattern say.
LEMMA GlobbingHopes ==
    ASSUME NEW T, NEW s \in Seq(T), NEW U, NEW p \in Seq(U), Unmixed(s, p),
           NEW M, MeantAt(s, p, M), NEW g, Globbing(s, p, g)
    PROVE  \A x \in Places(s, p) : Tried(p, x) => (g[x] <=> Hopes(s, M, x))
<1> DEFINE Good(x) == Tried(p, x) => (g[x] <=> Hopes(s, M, x))
           P == Places(s, p)
           N == Len(p) + 1
           L == Len(s) + 2
           A == {a \in 0..L : \A x \in P : x.nj + a >= L => Good(x)}
<1>1. N \in Nat /\ L \in Nat /\ \A x \in P : x.i \in 0..(N - 1) /\ x.nj \in 0..(L - 1)
  BY DEF Places
<1>2. ASSUME NEW x \in P, \A y \in Beyond(s, p, x) : Good(y) PROVE Good(x)
  <2> SUFFICES ASSUME Tried(p, x) PROVE g[x] <=> Hopes(s, M, x) OBVIOUS
  <2> QED BY <1>2, MatchTurn
<1> HIDE DEF Good, P, N, L
<1>3. 0 \in A BY <1>1
<1>4. ASSUME NEW a \in 0..(L - 1), a \in A PROVE a + 1 \in A
  <2> DEFINE B == {b \in 0..N :
                      \A x \in P :
                          x.nj + a + 1 >= L /\ x.i + b >= N => Good(x)}
  <2>1. 0 \in B BY <1>1
  <2>2. ASSUME NEW b \in 0..(N - 1), b \in B PROVE b + 1 \in B
    <3>1. ASSUME NEW x \in P, x.nj + a + 1 >= L, x.i + (b + 1) >= N
          PROVE  Good(x)
      <4>1. ASSUME NEW y \in Beyond(s, p, x) PROVE Good(y)
        <5>1. y \in P /\ (y.nj > x.nj \/ (y.nj >= x.nj /\ y.i > x.i)) BY DEF Beyond, P
        <5>2. CASE y.nj > x.nj
          <6>1. y.nj + a >= L BY <1>1, <3>1, <5>1, <5>2
          <6> QED BY <1>4, <5>1, <6>1
        <5>3. CASE y.nj >= x.nj /\ y.i > x.i
          <6>1. y.i \in Nat /\ x.i \in Nat /\ y.nj \in Nat /\ x.nj \in Nat BY <1>1, <5>1
          <6>2. y.nj + a + 1 >= L
            <7>1. \A m, n \in Nat : n >= m /\ m + a + 1 >= L => n + a + 1 >= L BY <1>1
            <7> QED BY <3>1, <5>3, <6>1, <7>1
          <6>3. y.i + b >= N
            <7>1. \A m, n \in Nat : n > m /\ m + (b + 1) >= N => n + b >= N BY <1>1
            <7> QED BY <3>1, <5>3, <6>1, <7>1
          <6> QED BY <2>2, <5>1, <6>2, <6>3
        <5> QED BY <5>1, <5>2, <5>3
      <4> QED BY <1>2, <4>1
    <3>2. b + 1 \in 0..N BY <1>1
    <3> QED BY <3>1, <3>2
  <2> HIDE DEF B
  <2>3. \A b \in 0..N : b \in B
    <3>1. 0 \in Nat /\ N \in Nat BY <1>1
    <3> QED BY <2>1, <2>2, <3>1, Induction
  <2>4. ASSUME NEW x \in P, x.nj + (a + 1) >= L PROVE Good(x)
    <3>1. N \in B BY <1>1, <2>3
    <3>2. x.nj \in Nat /\ x.i \in Nat BY <1>1
    <3>3. x.nj + a + 1 >= L BY <1>1, <2>4, <3>2
    <3>4. x.i + N >= N BY <1>1, <3>2
    <3> QED BY <3>1, <3>3, <3>4 DEF B
  <2>5. a + 1 \in 0..L BY <1>1
  <2> QED BY <2>4, <2>5
<1> HIDE DEF A
<1>5. \A a \in 0..L : a \in A
  <2>1. 0 \in Nat /\ L \in Nat BY <1>1
  <2> QED BY <1>3, <1>4, <2>1, Induction
<1>6. ASSUME NEW x \in P PROVE Good(x)
  <2>1. L \in A /\ x.nj + L >= L BY <1>1, <1>5
  <2> QED BY <2>1 DEF A
<1> QED BY <1>6 DEF Good, P

\* match() matches what the pattern means.
LEMMA MatchMeans ==
    ASSUME NEW T, NEW s \in Seq(T), NEW U, NEW p \in Seq(U), Unmixed(s, p)
    PROVE  Match(s, p) = Means(s, p)
<1> DEFINE g == CHOOSE g : Globbing(s, p, g)
           x == [i |-> 0, j |-> 0, ni |-> 0, nj |-> 0]
<1>1. Match(s, p) = g[x] BY DEF Match, Globbing
<1>2. Globbing(s, p, g) BY GlobbingExists
<1>3. PICK M : MeantAt(s, p, M) /\ (Means(s, p) <=> 0 \in M[0]) BY MeansMeant
<1> HIDE DEF g
<1>4. x \in Places(s, p) BY DEF Places
<1>5. Tried(p, x) BY DEF Tried, TriedAt
<1>6. g[x] <=> Hopes(s, M, x)
  <2> HIDE DEF x
  <2> QED BY <1>2, <1>3, <1>4, <1>5, GlobbingHopes
<1>7. Hopes(s, M, x) <=> 0 \in M[0] BY DEF Hopes
<1>8. g[x] \in BOOLEAN
  <2> HIDE DEF x
  <2> QED BY <1>2, <1>4 DEF Globbing
<1>9. Means(s, p) \in BOOLEAN BY DEF Means
<1> HIDE DEF x
<1> QED BY <1>1, <1>3, <1>6, <1>7, <1>8, <1>9

\* What match() accepts is what the pattern means, except for patterns with a * and
\* texts of several segments.
THEOREM PatternsAreExact == TextSpec => []MatchExact
<1>1. TextTyped => MatchExact
  <2> SUFFICES ASSUME TextTyped, ~(Star \in Range(operand) /\ Slash \in Range(text))
               PROVE  Match(text, operand) = Means(text, operand)
    BY DEF MatchExact
  <2>1. text \in Seq(Alphabet(function)) /\ operand \in Seq(OperandAlphabet(function))
    BY DEF TextTyped
  <2>2. Unmixed(text, operand) BY DEF Unmixed
  <2> QED BY <2>1, <2>2, MatchMeans
<1> QED BY <1>1, TextTypes, PTL

-----------------------------------------------------------------------------
(* The coding of URLs.  What is encoded is the characters' codes end to    *)
(* end; what is decoded stops at a %, or does not, by what a text means.   *)

Bytes == 0..255

\* The code of a character: itself, or % and the two digits of its value.
LEMMA EncodedIs ==
    ASSUME NEW c \in Bytes
    PROVE  /\ Encoded(c) \in Seq(Bytes)
           /\ \/ is_url_safe(c) /\ Encoded(c) = <<c>> /\ c # Percent
              \/ \E a, b \in Bytes :
                    /\ Encoded(c) = <<Percent, a, b>> /\ isx(a) /\ isx(b)
                    /\ is_url_safe(a) /\ is_url_safe(b)
                    /\ 16 * DigitValue(a) + DigitValue(b) = c
<1>1. CASE is_url_safe(c)
  <2>1. Encoded(c) = <<c>> BY <1>1 DEF Encoded
  <2>2. c # Percent
    <3> SUFFICES ASSUME c = Percent PROVE FALSE OBVIOUS
    <3>1. Lower(c) = 37 BY DEF Lower, Percent
    <3> QED BY <1>1, <3>1 DEF is_url_safe, Percent, Digit, Dot, Minus
  <2> QED BY <1>1, <2>1, <2>2
<1>2. CASE ~is_url_safe(c)
  <2> DEFINE H(d) == IF d < 10 THEN d + 48 ELSE d + 87
             a == H(c \div 16)
             b == H(c % 16)
  <2>1. c \in Nat /\ c \div 16 \in 0..15 /\ c % 16 \in 0..15 /\ 16 * (c \div 16) + (c % 16) = c
    BY DEF Bytes
  <2>2. ASSUME NEW d \in 0..15
        PROVE  H(d) \in Bytes /\ DigitValue(H(d)) = d /\ is_url_safe(H(d)) /\ isx(H(d))
    <3>1. CASE d < 10
      <4>1. H(d) = d + 48 /\ d + 48 \in 48..57 BY <3>1
      <4>2. Digit(H(d)) BY <4>1 DEF Digit
      <4>3. DigitValue(H(d)) = d BY <4>1, <4>2 DEF DigitValue
      <4> HIDE DEF H
      <4> QED BY <4>1, <4>2, <4>3 DEF is_url_safe, isx, Bytes
    <3>2. CASE ~(d < 10)
      <4>1. H(d) = d + 87 /\ d + 87 \in 97..102 BY <3>2
      <4> DEFINE h == H(d)
      <4>2. h \in 97..102 /\ h - 87 = d BY <4>1
      <4> HIDE DEF h, H
      <4>3. ~Digit(h) /\ h \notin 65..70 /\ Lower(h) \in 97..122 BY <4>2 DEF Digit, Lower
      <4>4. DigitValue(h) = d BY <4>2, <4>3 DEF DigitValue
      <4>5. d < 16 OBVIOUS
      <4>6. isx(h) BY <4>4, <4>5 DEF isx
      <4>7. is_url_safe(h) BY <4>3 DEF is_url_safe
      <4> QED BY <4>2, <4>4, <4>6, <4>7 DEF h, Bytes
    <3> QED BY <3>1, <3>2
  <2>3. Encoded(c) = <<Percent, a, b>> BY <1>2 DEF Encoded, HexOf
  <2> HIDE DEF H
  <2>4. a \in Bytes /\ b \in Bytes /\ isx(a) /\ isx(b) /\ is_url_safe(a) /\ is_url_safe(b)
        /\ DigitValue(a) = c \div 16 /\ DigitValue(b) = c % 16
    BY <2>1, <2>2
  <2>5. 16 * DigitValue(a) + DigitValue(b) = c BY <2>1, <2>4
  <2> HIDE DEF a, b
  <2>6. <<Percent, a, b>> \in Seq(Bytes) BY <2>4 DEF Percent, Bytes
  <2> QED BY <2>3, <2>4, <2>5, <2>6
<1> QED BY <1>1, <1>2

\* What the first k characters are encoded as.
Written(s, k) == FlattenSeq([i \in 1..k |-> Encoded(s[i])])

\* Of no characters nothing is written.
LEMMA NothingWritten ==
    ASSUME NEW s
    PROVE  Written(s, 0) = <<>>
<1>1. [i \in 1..0 |-> Encoded(s[i])] = <<>> OBVIOUS
<1>2. <<>> \in Seq(Seq(Bytes)) /\ <<>> \in Seq(Bytes) OBVIOUS
<1>3. FlattenSeq(<<>>) = <<>> BY <1>2, FlattenAppend
<1> QED BY <1>1, <1>3 DEF Written

\* What is written grows by the code of one character.
LEMMA WrittenGrows ==
    ASSUME NEW s \in Seq(Bytes), NEW k \in 0..(Len(s) - 1)
    PROVE  /\ Written(s, k) \in Seq(Bytes) /\ Written(s, k + 1) \in Seq(Bytes)
           /\ Written(s, k + 1) = Written(s, k) \o Encoded(s[k + 1])
<1> DEFINE f == [i \in 1..Len(s) |-> Encoded(s[i])]
<1>1. \A j \in 0..Len(s) : Written(s, j) = FlattenSeq([i \in 1..j |-> f[i]])
  <2> TAKE j \in 0..Len(s)
  <2>1. [i \in 1..j |-> Encoded(s[i])] = [i \in 1..j |-> f[i]] OBVIOUS
  <2> QED BY <2>1 DEF Written
<1>2. \A i \in 1..Len(s) : f[i] = Encoded(s[i]) /\ f[i] \in Seq(Bytes)
  <2> TAKE i \in 1..Len(s)
  <2>1. s[i] \in Bytes OBVIOUS
  <2> QED BY <2>1, EncodedIs
<1> HIDE DEF f
<1>3. /\ k \in Nat /\ k \in 0..Len(s) /\ k + 1 \in 0..Len(s) /\ k + 1 \in 1..Len(s)
      /\ \A i \in 1..(k + 1) : i \in 1..Len(s)
  OBVIOUS
<1>4. \A i \in 1..(k + 1) : f[i] \in Seq(Bytes) BY <1>2, <1>3
<1>5. /\ FlattenSeq([i \in 1..k |-> f[i]]) \in Seq(Bytes)
      /\ FlattenSeq([i \in 1..(k + 1) |-> f[i]]) = FlattenSeq([i \in 1..k |-> f[i]]) \o f[k + 1]
  BY <1>3, <1>4, FlattenNext
<1>6. Written(s, k) \in Seq(Bytes) /\ Written(s, k + 1) = Written(s, k) \o Encoded(s[k + 1])
  BY <1>1, <1>2, <1>3, <1>5
<1>7. Written(s, k) \o Encoded(s[k + 1]) \in Seq(Bytes)
  <2>1. Encoded(s[k + 1]) \in Seq(Bytes) BY <1>2, <1>3
  <2> QED BY <1>6, <2>1, ConcatProperties
<1> QED BY <1>6, <1>7

\* One of the first k characters is safe.
SafeIn(s, k) == \E i \in 1..k : is_url_safe(s[i])

\* It is at most three times as long as the text, and two shorter if one is safe.
LEMMA WrittenLength ==
    ASSUME NEW s \in Seq(Bytes), NEW k \in 0..Len(s)
    PROVE  /\ Written(s, k) \in Seq(Bytes) /\ Len(Written(s, k)) <= 3 * k
           /\ SafeIn(s, k) => Len(Written(s, k)) + 2 <= 3 * k
<1> DEFINE Good(j) == /\ Written(s, j) \in Seq(Bytes) /\ Len(Written(s, j)) <= 3 * j
                      /\ SafeIn(s, j) => Len(Written(s, j)) + 2 <= 3 * j
           K == {j \in 0..Len(s) : Good(j)}
<1>1. 0 \in K
  <2>1. Written(s, 0) = <<>> BY NothingWritten
  <2>2. Len(<<>>) = 0 /\ <<>> \in Seq(Bytes) OBVIOUS
  <2>3. ~SafeIn(s, 0) BY DEF SafeIn
  <2>4. 0 <= 3 * 0 /\ 0 \in 0..Len(s) OBVIOUS
  <2>5. Good(0) BY <2>1, <2>2, <2>3, <2>4
  <2> HIDE DEF Good
  <2> QED BY <2>4, <2>5
<1>2. ASSUME NEW j \in 0..(Len(s) - 1), j \in K PROVE j + 1 \in K
  <2>1. /\ j \in Nat /\ j + 1 \in 1..Len(s) /\ j + 1 \in 0..Len(s) /\ s[j + 1] \in Bytes
    OBVIOUS
  <2> DEFINE e == Encoded(s[j + 1])
             w == Written(s, j)
  <2>2. /\ w \in Seq(Bytes) /\ Written(s, j + 1) \in Seq(Bytes)
        /\ Written(s, j + 1) = w \o e
    BY WrittenGrows
  <2>3. e \in Seq(Bytes) /\ Len(e) \in {1, 3} /\ (is_url_safe(s[j + 1]) => Len(e) = 1)
    <3>1. e \in Seq(Bytes) BY <2>1, EncodedIs
    <3>2. is_url_safe(s[j + 1]) => e = <<s[j + 1]>> BY DEF Encoded
    <3>3. e = <<s[j + 1]>> \/ \E a, b \in Bytes : e = <<Percent, a, b>> BY <2>1, EncodedIs
    <3> HIDE DEF e
    <3> QED BY <3>1, <3>2, <3>3
  <2>4. Good(j) BY <1>2
  <2>5. SafeIn(s, j + 1) => SafeIn(s, j) \/ is_url_safe(s[j + 1])
    <3>1. \A i \in 1..(j + 1) : i \in 1..j \/ i = j + 1 BY <2>1
    <3> QED BY <3>1 DEF SafeIn
  <2> HIDE DEF e, w
  <2>6. Len(Written(s, j + 1)) = Len(w) + Len(e) /\ Len(w) \in Nat BY <2>2, <2>3, ConcatProperties
  <2>7. /\ Len(w) <= 3 * j
        /\ SafeIn(s, j) => Len(w) + 2 <= 3 * j
    BY <2>4 DEF w
  <2>a. \A a, m \in Nat, b \in {1, 3} :
            /\ a <= 3 * m => a + b <= 3 * (m + 1)
            /\ a + 2 <= 3 * m => (a + b) + 2 <= 3 * (m + 1)
    OBVIOUS
  <2>8. Len(Written(s, j + 1)) <= 3 * (j + 1) BY <2>1, <2>3, <2>6, <2>7, <2>a
  <2>9. ASSUME SafeIn(s, j + 1) PROVE Len(Written(s, j + 1)) + 2 <= 3 * (j + 1)
    <3>1. CASE SafeIn(s, j)
      <4>1. Len(w) + 2 <= 3 * j BY <2>7, <3>1
      <4> QED BY <2>1, <2>3, <2>6, <2>a, <4>1
    <3>2. CASE is_url_safe(s[j + 1])
      <4>1. Len(e) = 1 BY <2>3, <3>2
      <4> QED BY <2>1, <2>6, <2>7, <4>1
    <3> QED BY <2>5, <2>9, <3>1, <3>2
  <2> QED BY <2>1, <2>2, <2>8, <2>9
<1>3. k \in K
  <2> HIDE DEF K
  <2>1. Len(s) \in Nat /\ 0 \in Nat OBVIOUS
  <2>2. \A j \in 0..Len(s) : j \in K BY <1>1, <1>2, <2>1, Induction
  <2> QED BY <2>2
<1> QED BY <1>3

\* The function by which url_encode() is defined.
Encoding(s, len, g) ==
    g = [k \in 0..Len(s) |-> IF k = 0 THEN Yes(<<>>) ELSE NextEncoded(g[k - 1], s[k], len)]

\* What has been written is no failure.
LEMMA YesIs ==
    ASSUME NEW v
    PROVE  Yes(v).ok = TRUE /\ Yes(v).v = v /\ Yes(v) # Failed /\ Failed.ok = FALSE
<1>1. Yes(v).ok = TRUE /\ Yes(v).v = v BY DEF Yes
<1>2. Failed.ok = FALSE BY DEF Failed
<1> QED BY <1>1, <1>2

\* It exists.
LEMMA EncodingExists ==
    ASSUME NEW s \in Seq(Bytes), NEW len
    PROVE  \E g : Encoding(s, len, g)
<1> DEFINE n == Len(s)
           first == Yes(<<>>)
           S == {Failed} \cup {Yes(v) : v \in Seq(Bytes)}
           F == [p \in ((0 + 1)..n) \X S |-> NextEncoded(p[2], s[p[1]], len)]
<1>1. n \in Nat /\ 0 \in Nat /\ 0 <= n OBVIOUS
<1>2. first \in S
  <2>1. <<>> \in Seq(Bytes) OBVIOUS
  <2> QED BY <2>1
<1>3. ASSUME NEW k \in (0 + 1)..n, NEW r \in S PROVE NextEncoded(r, s[k], len) \in S
  <2>1. s[k] \in Bytes OBVIOUS
  <2>2. Encoded(s[k]) \in Seq(Bytes) BY <2>1, EncodedIs
  <2>3. CASE r = Failed
    <3>1. NextEncoded(r, s[k], len) = Failed BY <2>3 DEF NextEncoded, Failed
    <3> QED BY <3>1
  <2>4. CASE r # Failed
    <3>1. PICK v \in Seq(Bytes) : r = Yes(v) BY <2>4
    <3>2. r.v = v BY <3>1, YesIs
    <3>3. v \o Encoded(s[k]) \in Seq(Bytes) BY <2>2, ConcatProperties
    <3>4. NextEncoded(r, s[k], len) \in {Failed, Yes(v \o Encoded(s[k]))} BY <3>2 DEF NextEncoded
    <3> QED BY <3>3, <3>4
  <2> QED BY <2>3, <2>4
<1>4. /\ F \in [((0 + 1)..n) \X S -> S]
      /\ \A k \in (0 + 1)..n, r \in S : F[<<k, r>>] = NextEncoded(r, s[k], len)
  <2> HIDE DEF S
  <2>1. ASSUME NEW p \in ((0 + 1)..n) \X S PROVE NextEncoded(p[2], s[p[1]], len) \in S
    BY <1>3
  <2> QED BY <2>1
<1> HIDE DEF F, S, first, n
<1>5. Recursive(0, n, S, first, F) BY <1>1, <1>2, <1>4, Recursion
<1>6. PICK g \in [0..n -> S] :
          g[0] = first /\ \A k \in (0 + 1)..n : g[k] = F[<<k, g[k - 1]>>]
  BY <1>5 DEF Recursive
<1>7. ASSUME NEW k \in 0..n, k # 0 PROVE g[k] = NextEncoded(g[k - 1], s[k], len)
  <2>1. k \in (0 + 1)..n /\ k - 1 \in 0..n BY <1>1, <1>7
  <2> QED BY <1>4, <1>6, <2>1
<1>8. g = [k \in 0..n |-> IF k = 0 THEN first ELSE NextEncoded(g[k - 1], s[k], len)]
  BY <1>6, <1>7
<1> QED BY <1>8 DEF Encoding, first, n

\* There is room for the first k characters if before each of them there is.
Room(s, len, k) == \A j \in 1..k : ~(Len(Written(s, j - 1)) + 4 >= len)

\* What url_encode() returns.
LEMMA EncodeIs ==
    ASSUME NEW s \in Seq(Bytes), NEW len \in Nat
    PROVE  url_encode(s, len) =
               IF Room(s, len, Len(s)) THEN Yes(Written(s, Len(s))) ELSE Failed
<1> DEFINE n == Len(s)
           g == CHOOSE g : Encoding(s, len, g)
           Good(k) == g[k] = IF Room(s, len, k) THEN Yes(Written(s, k)) ELSE Failed
           K == {k \in 0..n : Good(k)}
<1>1. url_encode(s, len) = g[n] BY DEF url_encode, Encoding
<1>2. Encoding(s, len, g) BY EncodingExists
<1>3. n \in Nat /\ 0 \in Nat OBVIOUS
<1> HIDE DEF g
<1>4. 0 \in K
  <2>1. g[0] = Yes(<<>>) BY <1>2, <1>3 DEF Encoding
  <2>2. Written(s, 0) = <<>> BY NothingWritten
  <2>3. Room(s, len, 0) BY DEF Room
  <2> QED BY <1>3, <2>1, <2>2, <2>3
<1>5. ASSUME NEW k \in 0..(n - 1), k \in K PROVE k + 1 \in K
  <2>1. /\ k \in Nat /\ k + 1 \in 0..n /\ k + 1 # 0 /\ (k + 1) - 1 = k /\ k \in 0..(Len(s) - 1)
        /\ k + 1 \in 1..(k + 1) /\ \A j \in 1..(k + 1) : j \in 1..k \/ j = k + 1
    OBVIOUS
  <2>2. g[k + 1] = NextEncoded(g[k], s[k + 1], len) BY <1>2, <2>1 DEF Encoding
  <2>3. Written(s, k + 1) = Written(s, k) \o Encoded(s[k + 1]) BY <2>1, WrittenGrows
  <2>4. Room(s, len, k + 1) <=> Room(s, len, k) /\ ~(Len(Written(s, k)) + 4 >= len)
    <3>1. \A j \in 1..k : j \in 1..(k + 1) BY <2>1
    <3> QED BY <2>1, <3>1 DEF Room
  <2>5. Good(k) BY <1>5
  <2> HIDE DEF n
  <2>6. CASE Room(s, len, k)
    <3>1. g[k] = Yes(Written(s, k)) BY <2>5, <2>6
    <3>2. g[k].ok = TRUE /\ g[k].v = Written(s, k) BY <3>1, YesIs
    <3>3. g[k + 1] = IF Len(Written(s, k)) + 4 >= len THEN Failed
                     ELSE Yes(Written(s, k) \o Encoded(s[k + 1]))
      BY <2>2, <3>2 DEF NextEncoded
    <3>4. Good(k + 1) BY <2>3, <2>4, <2>6, <3>3
    <3> QED BY <2>1, <3>4
  <2>7. CASE ~Room(s, len, k)
    <3>1. g[k] = Failed BY <2>5, <2>7
    <3>2. g[k + 1] = Failed BY <2>2, <3>1 DEF NextEncoded, Failed
    <3> QED BY <2>1, <2>4, <2>7, <3>2
  <2> QED BY <2>6, <2>7
<1>6. n \in K
  <2> HIDE DEF K
  <2>1. \A k \in 0..n : k \in K BY <1>3, <1>4, <1>5, Induction
  <2>2. n \in 0..n BY <1>3
  <2> QED BY <2>1, <2>2
<1> QED BY <1>1, <1>6

\* In a buffer two bytes longer than three times the text there is room; in one that is
\* one byte longer there is if a character before the last is safe.
LEMMA RoomEnough ==
    ASSUME NEW s \in Seq(Bytes)
    PROVE  /\ Room(s, 3 * Len(s) + 2, Len(s))
           /\ SafeIn(s, Len(s) - 1) => Room(s, 3 * Len(s) + 1, Len(s))
<1>0. Len(s) \in Nat OBVIOUS
<1>1. ASSUME NEW j \in 1..Len(s)
      PROVE  /\ j - 1 \in 0..Len(s) /\ Len(Written(s, j - 1)) \in Nat
             /\ Len(Written(s, j - 1)) <= 3 * (j - 1)
             /\ SafeIn(s, j - 1) => Len(Written(s, j - 1)) + 2 <= 3 * (j - 1)
  <2>1. j - 1 \in 0..Len(s) BY <1>0
  <2>2. Written(s, j - 1) \in Seq(Bytes) BY <2>1, WrittenLength
  <2> QED BY <2>1, <2>2, WrittenLength
<1>2. Room(s, 3 * Len(s) + 2, Len(s))
  <2> SUFFICES ASSUME NEW j \in 1..Len(s)
               PROVE  ~(Len(Written(s, j - 1)) + 4 >= 3 * Len(s) + 2)
    BY DEF Room
  <2> QED BY <1>0, <1>1
<1>3. ASSUME SafeIn(s, Len(s) - 1) PROVE Room(s, 3 * Len(s) + 1, Len(s))
  <2> SUFFICES ASSUME NEW j \in 1..Len(s)
               PROVE  ~(Len(Written(s, j - 1)) + 4 >= 3 * Len(s) + 1)
    BY DEF Room
  <2>1. CASE j = Len(s) BY <1>0, <1>1, <1>3, <2>1
  <2>2. CASE j # Len(s)
    <3>1. j <= Len(s) - 1 /\ j \in Nat BY <1>0, <2>2
    <3> QED BY <1>0, <1>1, <3>1
  <2> QED BY <2>1, <2>2
<1> QED BY <1>2, <1>3

-----------------------------------------------------------------------------
\* What the first k characters stand for.
Stands(s, form, k) == FlattenSeq([i \in 1..k |-> UnitAt(s, i, form)])

\* A unit stands for one character, what follows a % in it for none.
LEMMA UnitLength ==
    ASSUME NEW s \in Seq(Bytes), NEW form \in BOOLEAN, NEW i \in 1..Len(s)
    PROVE  /\ UnitAt(s, i, form) \in Seq(Nat)
           /\ i \in Units(s) => Len(UnitAt(s, i, form)) = 1
           /\ i \notin Units(s) => UnitAt(s, i, form) = <<>>
<1>1. CASE i \notin Units(s)
  <2>1. UnitAt(s, i, form) = <<>> BY <1>1 DEF UnitAt
  <2>2. <<>> \in Seq(Nat) OBVIOUS
  <2> QED BY <1>1, <2>1, <2>2
<1>2. CASE i \in Units(s) /\ s[i] = Percent
  <2> DEFINE v == 16 * DigitValue(s[i + 1]) + DigitValue(s[i + 2])
  <2>1. DigitValue(s[i + 1]) \in Nat /\ DigitValue(s[i + 2]) \in Nat BY DigitValues
  <2>2. v \in Nat BY <2>1
  <2>3. UnitAt(s, i, form) = <<v>> BY <1>2 DEF UnitAt
  <2> HIDE DEF v
  <2>4. <<v>> \in Seq(Nat) /\ Len(<<v>>) = 1 BY <2>2
  <2> QED BY <1>2, <2>3, <2>4
<1>3. CASE i \in Units(s) /\ s[i] # Percent
  <2> DEFINE v == IF form /\ s[i] = Plus THEN Space ELSE s[i]
  <2>0. \A b \in Bytes : b \in Nat BY DEF Bytes
  <2>1. s[i] \in Nat BY <2>0
  <2>2. v \in Nat BY <2>1 DEF Space
  <2>3. UnitAt(s, i, form) = <<v>> BY <1>3 DEF UnitAt
  <2> HIDE DEF v
  <2>4. <<v>> \in Seq(Nat) /\ Len(<<v>>) = 1 BY <2>2
  <2> QED BY <1>3, <2>3, <2>4
<1> QED BY <1>1, <1>2, <1>3

\* No characters stand for nothing.
LEMMA NothingMeant ==
    ASSUME NEW s, NEW form
    PROVE  Stands(s, form, 0) = <<>>
<1>1. [i \in 1..0 |-> UnitAt(s, i, form)] = <<>> OBVIOUS
<1>2. <<>> \in Seq(Seq(Nat)) /\ <<>> \in Seq(Nat) OBVIOUS
<1>3. FlattenSeq(<<>>) = <<>> BY <1>2, FlattenAppend
<1> QED BY <1>1, <1>3 DEF Stands

\* One character more adds what is coded at it.
LEMMA MeaningGrows ==
    ASSUME NEW s \in Seq(Bytes), NEW form \in BOOLEAN, NEW k \in 0..(Len(s) - 1)
    PROVE  /\ Stands(s, form, k) \in Seq(Nat) /\ Stands(s, form, k + 1) \in Seq(Nat)
           /\ Stands(s, form, k + 1) = Stands(s, form, k) \o UnitAt(s, k + 1, form)
<1> DEFINE f == [i \in 1..Len(s) |-> UnitAt(s, i, form)]
<1>1. \A j \in 0..Len(s) : Stands(s, form, j) = FlattenSeq([i \in 1..j |-> f[i]])
  <2> TAKE j \in 0..Len(s)
  <2>1. [i \in 1..j |-> UnitAt(s, i, form)] = [i \in 1..j |-> f[i]] OBVIOUS
  <2> QED BY <2>1 DEF Stands
<1>2. \A i \in 1..Len(s) : f[i] = UnitAt(s, i, form) /\ f[i] \in Seq(Nat) BY UnitLength
<1> HIDE DEF f
<1>3. /\ k \in Nat /\ k \in 0..Len(s) /\ k + 1 \in 0..Len(s) /\ k + 1 \in 1..Len(s)
      /\ \A i \in 1..(k + 1) : i \in 1..Len(s)
  OBVIOUS
<1>4. \A i \in 1..(k + 1) : f[i] \in Seq(Nat) BY <1>2, <1>3
<1>5. /\ FlattenSeq([i \in 1..k |-> f[i]]) \in Seq(Nat)
      /\ FlattenSeq([i \in 1..(k + 1) |-> f[i]]) = FlattenSeq([i \in 1..k |-> f[i]]) \o f[k + 1]
  BY <1>3, <1>4, FlattenNext
<1>6. /\ Stands(s, form, k) \in Seq(Nat)
      /\ Stands(s, form, k + 1) = Stands(s, form, k) \o UnitAt(s, k + 1, form)
  BY <1>1, <1>2, <1>3, <1>5
<1>7. UnitAt(s, k + 1, form) \in Seq(Nat) BY <1>3, UnitLength
<1>8. Stands(s, form, k) \o UnitAt(s, k + 1, form) \in Seq(Nat)
  BY <1>6, <1>7, ConcatProperties
<1> QED BY <1>6, <1>8

\* The meaning of more is no shorter.
LEMMA MeaningLength ==
    ASSUME NEW s \in Seq(Bytes), NEW form \in BOOLEAN, NEW k \in 0..Len(s), NEW m \in k..Len(s)
    PROVE  /\ Stands(s, form, m) \in Seq(Nat)
           /\ Len(Stands(s, form, k)) <= Len(Stands(s, form, m))
<1> DEFINE P(j) == Stands(s, form, j)
           K == {j \in k..Len(s) : P(j) \in Seq(Nat) /\ Len(P(k)) <= Len(P(j))}
<1>0. k \in Nat /\ Len(s) \in Nat OBVIOUS
<1>1. P(k) \in Seq(Nat)
  <2>1. CASE k = 0
    <3>1. P(k) = <<>> /\ <<>> \in Seq(Nat) BY <2>1, NothingMeant
    <3> QED BY <3>1
  <2>2. CASE k # 0
    <3>1. k - 1 \in 0..(Len(s) - 1) /\ (k - 1) + 1 = k BY <1>0, <2>2
    <3>2. Stands(s, form, (k - 1) + 1) \in Seq(Nat) BY <3>1, MeaningGrows
    <3> QED BY <3>1, <3>2
  <2> QED BY <2>1, <2>2
<1>2. k \in K
  <2> HIDE DEF P
  <2>1. Len(P(k)) <= Len(P(k)) /\ k \in k..Len(s) BY <1>0, <1>1
  <2> QED BY <1>1, <2>1
<1>3. ASSUME NEW j \in k..(Len(s) - 1), j \in K PROVE j + 1 \in K
  <2>1. j \in 0..(Len(s) - 1) /\ j + 1 \in k..Len(s) /\ j + 1 \in 1..Len(s) BY <1>0
  <2>2. P(j) \in Seq(Nat) /\ P(j + 1) \in Seq(Nat) /\ P(j + 1) = P(j) \o UnitAt(s, j + 1, form)
    BY <2>1, MeaningGrows
  <2>3. UnitAt(s, j + 1, form) \in Seq(Nat) BY <2>1, UnitLength
  <2> HIDE DEF P
  <2>4. Len(P(j + 1)) = Len(P(j)) + Len(UnitAt(s, j + 1, form)) BY <2>2, <2>3, ConcatProperties
  <2>5. Len(UnitAt(s, j + 1, form)) \in Nat /\ Len(P(j)) \in Nat /\ Len(P(k)) \in Nat
    BY <1>1, <2>2, <2>3
  <2>6. Len(P(k)) <= Len(P(j)) BY <1>3
  <2>7. Len(P(k)) <= Len(P(j + 1)) BY <2>4, <2>5, <2>6
  <2> QED BY <2>1, <2>2, <2>7
<1>4. m \in K
  <2> HIDE DEF K
  <2>1. \A j \in k..Len(s) : j \in K BY <1>0, <1>2, <1>3, Induction
  <2> QED BY <2>1
<1> QED BY <1>4

\* A % with two hexadecimal digits after it.
DigitsFollow(s, i) == i + 2 <= Len(s) /\ isx(s[i + 1]) /\ isx(s[i + 2])

\* Decoding stops at a unit that does not fit or is not well formed.
StopsAt(s, len, form, i) ==
    /\ i \in Units(s)
    /\ \/ Len(Stands(s, form, i - 1)) + 1 >= len
       \/ s[i] = Percent /\ ~DigitsFollow(s, i)

Stops(s, len, form, k) == \E i \in 1..k : StopsAt(s, len, form, i)

\* What url_decode() knows after k characters, if it has not stopped.
Decoded(s, form, k, v, next) ==
    /\ v = Stands(s, form, k) /\ next \in (k + 1)..(k + 3)
    /\ \A j \in (k + 1)..(next - 1) : j \notin Units(s)
    /\ \A j \in {next - 1, next - 2} \cap DOMAIN s : s[j] # Percent

Going(v, next) == [ok |-> TRUE, v |-> v, next |-> next]

Decodes(s, len, form, k, r) ==
    \/ Stops(s, len, form, k) /\ r = Failed
    \/ /\ ~Stops(s, len, form, k)
       /\ \E v \in Seq(Nat), next \in Nat : r = Going(v, next) /\ Decoded(s, form, k, v, next)

\* To have gone on is no failure.
IsGoing(r, v, next) == r.ok = TRUE /\ r.v = v /\ r.next = next /\ r # Failed

LEMMA GoingIs ==
    ASSUME NEW v, NEW next
    PROVE  IsGoing(Going(v, next), v, next)
<1>1. /\ Going(v, next).ok = TRUE /\ Going(v, next).v = v /\ Going(v, next).next = next
  BY DEF Going
<1>2. Failed.ok = FALSE BY DEF Failed
<1> QED BY <1>1, <1>2 DEF IsGoing

\* One more character, when none has stopped it before.
LEMMA NextDecodes ==
    ASSUME NEW s \in Seq(Bytes), NEW len \in Nat, NEW form \in BOOLEAN, NEW k \in 0..(Len(s) - 1),
           NEW r, Decodes(s, len, form, k, r)
    PROVE  Decodes(s, len, form, k + 1, NextDecoded(r, s, k + 1, len, form))
<1> DEFINE i == k + 1
           q == NextDecoded(r, s, i, len, form)
<1>0. /\ k \in Nat /\ Len(s) \in Nat /\ i \in 1..Len(s) /\ i - 1 = k /\ DOMAIN s = 1..Len(s)
      /\ i \in 1..i
      /\ \A j \in 1..k : j \in 1..i
      /\ \A j \in 1..i : j \in 1..k \/ j = i
  OBVIOUS
<1>1. Stops(s, len, form, i) <=> Stops(s, len, form, k) \/ StopsAt(s, len, form, i)
  BY <1>0 DEF Stops
<1>2. CASE Stops(s, len, form, k)
  <2>1. r = Failed BY <1>2 DEF Decodes
  <2>2. q = Failed BY <2>1 DEF NextDecoded
  <2> QED BY <1>1, <1>2, <2>2 DEF Decodes
<1>3. CASE ~Stops(s, len, form, k)
  <2>1. PICK v \in Seq(Nat), next \in Nat : r = Going(v, next) /\ Decoded(s, form, k, v, next)
    BY <1>3 DEF Decodes
  <2>2. r # Failed /\ r.v = v /\ r.next = next
    <3>1. IsGoing(r, v, next) BY <2>1, GoingIs
    <3> QED BY <3>1 DEF IsGoing
  <2>3. v = Stands(s, form, k) /\ next \in (k + 1)..(k + 3)
        /\ (\A j \in (k + 1)..(next - 1) : j \notin Units(s))
        /\ \A j \in {next - 1, next - 2} \cap DOMAIN s : s[j] # Percent
    BY <2>1 DEF Decoded
  <2>4. /\ Stands(s, form, i) = v \o UnitAt(s, i, form) /\ Stands(s, form, i) \in Seq(Nat)
        /\ UnitAt(s, i, form) \in Seq(Nat)
    BY <1>0, <2>3, MeaningGrows, UnitLength
  <2>5. CASE next > i
    <3>1. q = r BY <2>2, <2>5 DEF NextDecoded
    <3>2. i \in (k + 1)..(next - 1) BY <1>0, <2>3, <2>5
    <3>3. i \notin Units(s) BY <2>3, <3>2
    <3>4. ~StopsAt(s, len, form, i) BY <3>3 DEF StopsAt
    <3>5. UnitAt(s, i, form) = <<>> BY <1>0, <3>3, UnitLength
    <3>6. v = Stands(s, form, i) BY <2>4, <3>5, ConcatEmptySeq
    <3>7. next \in (i + 1)..(i + 3) BY <1>0, <2>3, <2>5
    <3>8. \A j \in (i + 1)..(next - 1) : j \in (k + 1)..(next - 1) BY <1>0
    <3>9. Decoded(s, form, i, v, next) BY <2>3, <3>6, <3>7, <3>8 DEF Decoded
    <3> HIDE DEF i, q
    <3>10. Decodes(s, len, form, i, q) BY <1>1, <1>3, <2>1, <3>1, <3>4, <3>9 DEF Decodes
    <3> QED BY <3>10 DEF i, q
  <2>6. CASE ~(next > i)
    <3>1. next = i BY <1>0, <2>3, <2>6
    <3>2. i \in Units(s)
      <4>1. {i - 1, i - 2} = {next - 1, next - 2} BY <3>1
      <4>2. \A j \in {i - 1, i - 2} \cap DOMAIN s : s[j] # Percent BY <2>3, <4>1
      <4>3. i \in DOMAIN s BY <1>0
      <4> HIDE DEF i
      <4> QED BY <4>2, <4>3 DEF Units
    <3>3. Pair(s, i - 1) <=> DigitsFollow(s, i)
      <4>1. /\ (i - 1) + 2 < Len(s) <=> i + 2 <= Len(s)
            /\ (i - 1) + 1 = i /\ i + 1 = ((i - 1) + 1) + 1 /\ i + 2 = ((i - 1) + 2) + 1
        BY <1>0
      <4> HIDE DEF i
      <4> QED BY <4>1 DEF Pair, DigitsFollow, At
    <3>4. CASE StopsAt(s, len, form, i)
      <4>1. Len(v) + 1 >= len \/ (s[i] = Percent /\ ~Pair(s, i - 1))
        BY <1>0, <2>3, <3>3, <3>4 DEF StopsAt
      <4> HIDE DEF i
      <4>2. q = Failed BY <2>2, <2>6, <4>1 DEF NextDecoded
      <4>3. Decodes(s, len, form, i, q) BY <1>1, <3>4, <4>2 DEF Decodes
      <4> QED BY <4>3 DEF i
    <3>5. CASE ~StopsAt(s, len, form, i)
      <4>1. ~(Len(v) + 1 >= len) /\ (s[i] = Percent => Pair(s, i - 1) /\ DigitsFollow(s, i))
        BY <1>0, <2>3, <3>2, <3>3, <3>5 DEF StopsAt
      <4>2. CASE s[i] = Percent
        <5> DEFINE c == 16 * DigitValue(s[i + 1]) + DigitValue(s[i + 2])
        <5>1. q = Going(Append(v, c), i + 3)
          <6> HIDE DEF i
          <6> QED BY <2>2, <2>6, <4>1, <4>2 DEF NextDecoded, Going
        <5>2. UnitAt(s, i, form) = <<c>>
          <6> HIDE DEF i
          <6> QED BY <3>2, <4>2 DEF UnitAt
        <5> HIDE DEF c
        <5>a. c \in Nat
          <6> DEFINE u == UnitAt(s, i, form)
          <6>1. u \in Seq(Nat) /\ u = <<c>> BY <2>4, <5>2
          <6> HIDE DEF u, i
          <6>2. u[1] = c /\ u[1] \in Nat BY <6>1
          <6> QED BY <6>2
        <5>3. Append(v, c) = Stands(s, form, i) BY <2>4, <5>2, <5>a, AppendIsConcat
        <5>4. i + 2 <= Len(s) /\ isx(s[i + 1]) /\ isx(s[i + 2]) BY <4>1, <4>2 DEF DigitsFollow
        <5>5. ~isx(Percent) BY DEF isx, Percent, DigitValue, Digit
        <5>6. /\ \A j \in (i + 1)..((i + 3) - 1) : j = i + 1 \/ j = i + 2
              /\ i + 1 \in 1..Len(s) /\ i + 2 \in 1..Len(s)
              /\ i \in {(i + 1) - 1, (i + 1) - 2} /\ i \in {(i + 2) - 1, (i + 2) - 2}
          BY <1>0, <5>4
        <5>7. i + 1 \notin Units(s) /\ i + 2 \notin Units(s)
          <6>1. i \in DOMAIN s BY <1>0
          <6> HIDE DEF i
          <6> QED BY <4>2, <5>6, <6>1 DEF Units
        <5>8. \A j \in {(i + 3) - 1, (i + 3) - 2} : s[j] # Percent
          <6>1. (i + 3) - 1 = i + 2 /\ (i + 3) - 2 = i + 1 BY <1>0
          <6> HIDE DEF i
          <6> QED BY <5>4, <5>5, <6>1
        <5>9. i + 3 \in (i + 1)..(i + 3) /\ i + 3 \in Nat BY <1>0
        <5> HIDE DEF i, q
        <5>10. Decoded(s, form, i, Append(v, c), i + 3)
          BY <5>3, <5>6, <5>7, <5>8, <5>9 DEF Decoded
        <5>11. Append(v, c) \in Seq(Nat) BY <2>4, <5>3
        <5>12. Decodes(s, len, form, i, q) BY <1>1, <1>3, <3>5, <5>1, <5>9, <5>10, <5>11 DEF Decodes
        <5> QED BY <5>12 DEF i, q
      <4>3. CASE s[i] # Percent
        <5> DEFINE c == IF form /\ s[i] = Plus THEN Space ELSE s[i]
        <5>1. q = Going(Append(v, c), i + 1)
          <6> HIDE DEF i
          <6> QED BY <2>2, <2>6, <4>1, <4>3 DEF NextDecoded, Going
        <5>2. UnitAt(s, i, form) = <<c>>
          <6> HIDE DEF i
          <6> QED BY <3>2, <4>3 DEF UnitAt
        <5> HIDE DEF c
        <5>a. c \in Nat
          <6> DEFINE u == UnitAt(s, i, form)
          <6>1. u \in Seq(Nat) /\ u = <<c>> BY <2>4, <5>2
          <6> HIDE DEF u, i
          <6>2. u[1] = c /\ u[1] \in Nat BY <6>1
          <6> QED BY <6>2
        <5>3. Append(v, c) = Stands(s, form, i) BY <2>4, <5>2, <5>a, AppendIsConcat
        <5>4. \A j \in {(i + 1) - 1, (i + 1) - 2} \cap DOMAIN s : s[j] # Percent
          <6>1. (i + 1) - 1 = i /\ (i + 1) - 2 = next - 1 BY <1>0, <3>1
          <6> HIDE DEF i
          <6> QED BY <2>3, <4>3, <6>1
        <5>5. i + 1 \in (i + 1)..(i + 3) /\ i + 1 \in Nat /\ \A j \in (i + 1)..((i + 1) - 1) : FALSE
          BY <1>0
        <5> HIDE DEF i, q
        <5>6. Decoded(s, form, i, Append(v, c), i + 1) BY <5>3, <5>4, <5>5 DEF Decoded
        <5>7. Append(v, c) \in Seq(Nat) BY <2>4, <5>3
        <5>8. Decodes(s, len, form, i, q) BY <1>1, <1>3, <3>5, <5>1, <5>5, <5>6, <5>7 DEF Decodes
        <5> QED BY <5>8 DEF i, q
      <4> QED BY <4>2, <4>3
    <3> QED BY <3>4, <3>5
  <2> QED BY <2>5, <2>6
<1> QED BY <1>2, <1>3

-----------------------------------------------------------------------------
\* The function by which url_decode() is defined.
Decoding(s, len, form, g) ==
    g = [k \in 0..Len(s) |-> IF k = 0 THEN [ok |-> TRUE, v |-> <<>>, next |-> 1]
                             ELSE NextDecoded(g[k - 1], s, k, len, form)]

\* It exists.
LEMMA DecodingExists ==
    ASSUME NEW s \in Seq(Bytes), NEW len \in Nat, NEW form \in BOOLEAN
    PROVE  \E g : Decoding(s, len, form, g)
<1> DEFINE n == Len(s)
           first == Going(<<>>, 1)
           S == {Failed} \cup {Going(p[1], p[2]) : p \in Seq(Nat) \X Nat}
           F == [p \in ((0 + 1)..n) \X S |-> NextDecoded(p[2], s, p[1], len, form)]
<1>1. n \in Nat /\ 0 \in Nat /\ 0 <= n OBVIOUS
<1>a. \A v \in Seq(Nat), m \in Nat : Going(v, m) \in S
  <2> TAKE v \in Seq(Nat), m \in Nat
  <2>1. <<v, m>> \in Seq(Nat) \X Nat /\ Going(v, m) = Going(<<v, m>>[1], <<v, m>>[2]) OBVIOUS
  <2> QED BY <2>1
<1>b. \A r \in S : r = Failed \/ \E v \in Seq(Nat), m \in Nat : r = Going(v, m)
  OBVIOUS
<1>c. Failed \in S OBVIOUS
<1> HIDE DEF S
<1>2. first \in S
  <2>1. <<>> \in Seq(Nat) /\ 1 \in Nat OBVIOUS
  <2> QED BY <1>a, <2>1
<1>3. ASSUME NEW k \in (0 + 1)..n, NEW r \in S PROVE NextDecoded(r, s, k, len, form) \in S
  <2> DEFINE c == 16 * DigitValue(s[k + 1]) + DigitValue(s[k + 2])
             d == IF form /\ s[k] = Plus THEN Space ELSE s[k]
             q == NextDecoded(r, s, k, len, form)
  <2>1. c \in Nat
    <3>1. DigitValue(s[k + 1]) \in Nat /\ DigitValue(s[k + 2]) \in Nat BY DigitValues
    <3> QED BY <3>1
  <2>2. d \in Nat
    <3>1. \A b \in Bytes : b \in Nat BY DEF Bytes
    <3>2. s[k] \in Bytes OBVIOUS
    <3> QED BY <3>1, <3>2 DEF Space
  <2>3. CASE r = Failed
    <3>1. q = Failed BY <2>3 DEF NextDecoded
    <3> QED BY <1>c, <3>1
  <2>4. CASE r # Failed
    <3>1. PICK v \in Seq(Nat), m \in Nat : r = Going(v, m) BY <1>b, <2>4
    <3>2. r.v = v BY <3>1, GoingIs DEF IsGoing
    <3>3. \/ q = r \/ q = Failed \/ q = Going(Append(v, c), k + 3)
          \/ q = Going(Append(v, d), k + 1)
      BY <3>2 DEF NextDecoded, Going
    <3> HIDE DEF c, d, q
    <3>4. Append(v, c) \in Seq(Nat) /\ Append(v, d) \in Seq(Nat) /\ k + 3 \in Nat /\ k + 1 \in Nat
      BY <1>1, <2>1, <2>2
    <3>5. q \in S BY <1>a, <1>c, <3>3, <3>4
    <3> QED BY <3>5 DEF q
  <2> QED BY <2>3, <2>4
<1>4. /\ F \in [((0 + 1)..n) \X S -> S]
      /\ \A k \in (0 + 1)..n, r \in S : F[<<k, r>>] = NextDecoded(r, s, k, len, form)
  <2>1. ASSUME NEW p \in ((0 + 1)..n) \X S PROVE NextDecoded(p[2], s, p[1], len, form) \in S
    BY <1>3
  <2> QED BY <2>1
<1> HIDE DEF F, first, n
<1>5. Recursive(0, n, S, first, F) BY <1>1, <1>2, <1>4, Recursion
<1>6. PICK g \in [0..n -> S] :
          g[0] = first /\ \A k \in (0 + 1)..n : g[k] = F[<<k, g[k - 1]>>]
  BY <1>5 DEF Recursive
<1>7. ASSUME NEW k \in 0..n, k # 0 PROVE g[k] = NextDecoded(g[k - 1], s, k, len, form)
  <2>1. k \in (0 + 1)..n /\ k - 1 \in 0..n BY <1>1, <1>7
  <2> QED BY <1>4, <1>6, <2>1
<1>8. g = [k \in 0..n |-> IF k = 0 THEN first ELSE NextDecoded(g[k - 1], s, k, len, form)]
  BY <1>6, <1>7
<1> QED BY <1>8 DEF Decoding, first, n, Going

\* Every % of a text is well formed if every one that begins a unit is: the first that
\* is not begins one, for it is not a digit after another.
LEMMA CodedByUnits ==
    ASSUME NEW s \in Seq(Bytes),
           \A i \in Units(s) : s[i] = Percent => DigitsFollow(s, i)
    PROVE  Coded(s)
<1> DEFINE Bad == {i \in 1..Len(s) : s[i] = Percent /\ ~DigitsFollow(s, i)}
<1>0. Len(s) \in Nat /\ DOMAIN s = 1..Len(s) OBVIOUS
<1>1. ASSUME Bad # {} PROVE FALSE
  <2>1. Bad \subseteq Nat OBVIOUS
  <2>2. PICK i \in Bad : \A m \in Bad : i <= m BY <1>1, <2>1, LeastNumber
  <2>3. i \in 1..Len(s) /\ s[i] = Percent /\ ~DigitsFollow(s, i) OBVIOUS
  <2>4. ASSUME NEW j \in {i - 1, i - 2} \cap DOMAIN s, s[j] = Percent PROVE FALSE
    <3>1. j \in 1..Len(s) /\ j < i BY <1>0, <2>3
    <3>2. j \notin Bad BY <1>0, <2>2, <2>3, <3>1
    <3>3. isx(s[j + 1]) /\ isx(s[j + 2]) BY <2>4, <3>1, <3>2 DEF DigitsFollow
    <3>4. i = j + 1 \/ i = j + 2 BY <1>0, <2>3, <3>1
    <3>5. isx(s[i]) BY <3>3, <3>4
    <3> QED BY <2>3, <3>5 DEF isx, Percent, DigitValue, Digit
  <2> HIDE DEF Bad
  <2>5. i \in Units(s) BY <1>0, <2>3, <2>4 DEF Units
  <2> QED BY <2>3, <2>5
<1>2. \A i \in 1..Len(s) : s[i] = Percent => DigitsFollow(s, i) BY <1>1
<1> QED BY <1>0, <1>2 DEF Coded, DigitsFollow

\* What url_decode() returns.
LEMMA DecodeIs ==
    ASSUME NEW s \in Seq(Bytes), NEW len \in Nat, NEW form \in BOOLEAN
    PROVE  url_decode(s, len, form) =
               IF Coded(s) /\ Len(Plain(s, form)) < len THEN Yes(Plain(s, form)) ELSE Failed
<1> DEFINE n == Len(s)
           g == CHOOSE g : Decoding(s, len, form, g)
           K == {k \in 0..n : Decodes(s, len, form, k, g[k])}
<1>1. url_decode(s, len, form) =
          IF g[n].ok /\ Len(g[n].v) < len THEN Yes(g[n].v) ELSE Failed
  BY DEF url_decode, Decoding
<1>2. Decoding(s, len, form, g) BY DecodingExists
<1>3. n \in Nat /\ 0 \in Nat /\ n \in 0..n OBVIOUS
<1>4. DOMAIN s = 1..n OBVIOUS
<1> HIDE DEF g
<1>5. 0 \in K
  <2>1. g[0] = Going(<<>>, 1) BY <1>2, <1>3 DEF Decoding, Going
  <2>2. <<>> \in Seq(Nat) /\ 1 \in Nat /\ 1 \in (0 + 1)..(0 + 3) /\ <<>> = Stands(s, form, 0)
    BY NothingMeant
  <2>3. \A j \in {1 - 1, 1 - 2} \cap DOMAIN s : s[j] # Percent BY <1>4
  <2>4. \A j \in (0 + 1)..(1 - 1) : j \notin Units(s) OBVIOUS
  <2>5. Decoded(s, form, 0, <<>>, 1) BY <2>2, <2>3, <2>4 DEF Decoded
  <2>6. ~Stops(s, len, form, 0) BY DEF Stops
  <2>7. Decodes(s, len, form, 0, Going(<<>>, 1)) BY <2>2, <2>5, <2>6 DEF Decodes
  <2>8. 0 \in 0..n BY <1>3
  <2> QED BY <2>1, <2>7, <2>8
<1>6. ASSUME NEW k \in 0..(n - 1), k \in K PROVE k + 1 \in K
  <2>1. k + 1 \in 0..n /\ k + 1 # 0 /\ (k + 1) - 1 = k BY <1>3
  <2>2. g[k + 1] = NextDecoded(g[k], s, k + 1, len, form) BY <1>2, <2>1 DEF Decoding
  <2>3. Decodes(s, len, form, k, g[k]) BY <1>6
  <2>4. Decodes(s, len, form, k + 1, NextDecoded(g[k], s, k + 1, len, form))
    BY <2>3, NextDecodes
  <2> QED BY <2>1, <2>2, <2>4
<1>7. Decodes(s, len, form, n, g[n])
  <2> HIDE DEF K
  <2>1. \A k \in 0..n : k \in K BY <1>3, <1>5, <1>6, Induction
  <2>2. n \in K BY <1>3, <2>1
  <2> QED BY <2>2 DEF K
<1>8. Plain(s, form) = Stands(s, form, n) BY DEF Plain, Stands
<1>9. CASE Stops(s, len, form, n)
  <2>1. g[n] = Failed BY <1>7, <1>9 DEF Decodes
  <2>2. url_decode(s, len, form) = Failed BY <1>1, <2>1 DEF Failed
  <2>3. PICK i \in 1..n : StopsAt(s, len, form, i) BY <1>9 DEF Stops
  <2>4. ASSUME s[i] = Percent, ~DigitsFollow(s, i) PROVE ~Coded(s)
    BY <1>4, <2>4 DEF Coded, DigitsFollow
  <2>5. ASSUME Len(Stands(s, form, i - 1)) + 1 >= len PROVE ~(Len(Stands(s, form, n)) < len)
    <3>1. /\ i - 1 \in 0..(Len(s) - 1) /\ (i - 1) + 1 = i /\ i \in 0..Len(s) /\ n \in i..Len(s)
      BY <1>3
    <3>2. /\ Stands(s, form, i - 1) \in Seq(Nat)
          /\ Stands(s, form, (i - 1) + 1) \in Seq(Nat)
          /\ Stands(s, form, (i - 1) + 1) = Stands(s, form, i - 1) \o UnitAt(s, (i - 1) + 1, form)
      BY <3>1, MeaningGrows
    <3>3. i \in Units(s) BY <2>3 DEF StopsAt
    <3>4. UnitAt(s, i, form) \in Seq(Nat) /\ Len(UnitAt(s, i, form)) = 1 BY <3>3, UnitLength
    <3>5. Len(Stands(s, form, i)) = Len(Stands(s, form, i - 1)) + 1
      <4>1. Stands(s, form, i) = Stands(s, form, i - 1) \o UnitAt(s, i, form) BY <3>1, <3>2
      <4>2. Len(Stands(s, form, i - 1) \o UnitAt(s, i, form))
                = Len(Stands(s, form, i - 1)) + Len(UnitAt(s, i, form))
        BY <3>2, <3>4, ConcatProperties
      <4> QED BY <3>4, <4>1, <4>2
    <3>6. /\ Stands(s, form, n) \in Seq(Nat)
          /\ Len(Stands(s, form, i)) <= Len(Stands(s, form, n))
      BY <3>1, MeaningLength
    <3>7. /\ Len(Stands(s, form, i)) \in Nat /\ Len(Stands(s, form, n)) \in Nat
      BY <3>1, <3>2, <3>6
    <3> HIDE DEF n
    <3> QED BY <2>5, <3>5, <3>6, <3>7
  <2>6. ~(Coded(s) /\ Len(Plain(s, form)) < len) BY <1>8, <2>3, <2>4, <2>5 DEF StopsAt
  <2> QED BY <2>2, <2>6
<1>10. CASE ~Stops(s, len, form, n)
  <2>1. PICK v \in Seq(Nat), next \in Nat : g[n] = Going(v, next) /\ Decoded(s, form, n, v, next)
    BY <1>7, <1>10 DEF Decodes
  <2> HIDE DEF n
  <2>2. g[n].ok = TRUE /\ g[n].v = v
    <3>1. IsGoing(g[n], v, next) BY <2>1, GoingIs
    <3> QED BY <3>1 DEF IsGoing
  <2>3. v = Plain(s, form) BY <1>8, <2>1 DEF Decoded
  <2>4. \A i \in Units(s) : s[i] = Percent => DigitsFollow(s, i)
    BY <1>4, <1>10 DEF Stops, StopsAt, Units
  <2>5. Coded(s) BY <2>4, CodedByUnits
  <2> QED BY <1>1, <2>2, <2>3, <2>5
<1> QED BY <1>9, <1>10

-----------------------------------------------------------------------------
\* What a coded text means, and what it means with the code of one character more.
LEMMA CodedGrows ==
    ASSUME NEW u \in Seq(Bytes), Coded(u), NEW c \in Bytes
    PROVE  LET w == u \o Encoded(c)
           IN  /\ w \in Seq(Bytes) /\ Coded(w)
               /\ Plain(w, FALSE) = Plain(u, FALSE) \o <<c>>
<1> DEFINE e == Encoded(c)
           w == u \o e
           m == Len(u)
<1> SUFFICES w \in Seq(Bytes) /\ Coded(w) /\ Plain(w, FALSE) = Plain(u, FALSE) \o <<c>>
  OBVIOUS
<1>1. e \in Seq(Bytes) BY EncodedIs
<1>2. /\ \/ e = <<c>> /\ c # Percent
         \/ \E a, b \in Bytes : e = <<Percent, a, b>> /\ isx(a) /\ isx(b)
                                /\ 16 * DigitValue(a) + DigitValue(b) = c
  BY EncodedIs
<1> HIDE DEF e
<1>3. /\ w \in Seq(Bytes) /\ Len(w) = m + Len(e) /\ m \in Nat /\ Len(e) \in Nat
      /\ \A i \in 1..m : w[i] = u[i]
      /\ \A i \in 1..Len(e) : w[m + i] = e[i]
  <2>1. w \in Seq(Bytes) /\ Len(w) = m + Len(e) /\ m \in Nat /\ Len(e) \in Nat
    BY <1>1, ConcatProperties
  <2>2. \A i \in 1..m : w[i] = u[i] BY <1>1, ConcatProperties
  <2>3. \A i \in 1..Len(e) : w[m + i] = e[i] BY <1>1, ConcatProperties
  <2> QED BY <2>1, <2>2, <2>3
<1>4. \A i \in 1..m : u[i] = Percent => i + 2 <= m /\ isx(u[i + 1]) /\ isx(u[i + 2])
  BY DEF Coded
<1> HIDE DEF w
<1>5. DOMAIN w = 1..Len(w) /\ DOMAIN u = 1..m BY <1>3
<1> HIDE DEF m
\* The units before are the same, ...
<1>6. ASSUME NEW i \in 1..m
      PROVE  i \in Units(w) <=> i \in Units(u)
  <2>1. \A j \in {i - 1, i - 2} :
            (j \in DOMAIN w <=> j \in DOMAIN u) /\ (j \in DOMAIN u => w[j] = u[j])
    BY <1>3, <1>5
  <2>2. i \in DOMAIN w /\ i \in DOMAIN u BY <1>3, <1>5
  <2> QED BY <2>1, <2>2 DEF Units
<1>7. ASSUME NEW i \in 1..m
      PROVE  UnitAt(w, i, FALSE) = UnitAt(u, i, FALSE)
  <2>1. w[i] = u[i] BY <1>3
  <2>2. CASE u[i] = Percent
    <3>1. i + 1 \in 1..m /\ i + 2 \in 1..m BY <1>3, <1>4, <2>2
    <3>2. w[i + 1] = u[i + 1] /\ w[i + 2] = u[i + 2] BY <1>3, <3>1
    <3> QED BY <1>6, <2>1, <2>2, <3>2 DEF UnitAt
  <2>3. CASE u[i] # Percent BY <1>6, <2>1, <2>3 DEF UnitAt
  <2> QED BY <2>2, <2>3
<1>8. Stands(w, FALSE, m) = Plain(u, FALSE)
  <2>1. [i \in 1..m |-> UnitAt(w, i, FALSE)] = [i \in 1..m |-> UnitAt(u, i, FALSE)] BY <1>7
  <2> QED BY <2>1 DEF Stands, Plain, m
\* ... and the next character begins one.
<1>9. ASSUME Len(e) > 0 PROVE m + 1 \in Units(w)
  <2>1. m + 1 \in DOMAIN w BY <1>3, <1>5, <1>9
  <2>2. ASSUME NEW j \in {(m + 1) - 1, (m + 1) - 2} \cap DOMAIN w PROVE w[j] # Percent
    <3>1. j \in 1..m /\ ~(j + 2 <= m) BY <1>3, <1>5
    <3> QED BY <1>3, <1>4, <3>1
  <2> QED BY <2>1, <2>2 DEF Units
<1>10. CASE e = <<c>> /\ c # Percent
  <2>1. Len(e) = 1 /\ e[1] = c BY <1>10
  <2>2. Len(w) = m + 1 /\ w[m + 1] = c /\ m \in 0..(Len(w) - 1) BY <1>3, <2>1
  <2>3. UnitAt(w, m + 1, FALSE) = <<c>> BY <1>9, <1>10, <2>1, <2>2 DEF UnitAt
  <2>4. Stands(w, FALSE, m + 1) = Stands(w, FALSE, m) \o <<c>>
    BY <1>3, <2>2, <2>3, MeaningGrows
  <2>5. Plain(w, FALSE) = Stands(w, FALSE, m + 1) BY <2>2 DEF Plain, Stands
  <2>6. ASSUME NEW i \in DOMAIN w, w[i] = Percent
        PROVE  i + 2 <= Len(w) /\ isx(w[i + 1]) /\ isx(w[i + 2])
    <3>1. i \in 1..m BY <1>3, <1>5, <1>10, <2>2, <2>6
    <3>2. i + 2 <= m /\ isx(u[i + 1]) /\ isx(u[i + 2]) BY <1>3, <1>4, <2>6, <3>1
    <3>3. i + 1 \in 1..m /\ i + 2 \in 1..m /\ i + 2 <= Len(w) BY <1>3, <2>2, <3>1, <3>2
    <3> QED BY <1>3, <3>2, <3>3
  <2>7. Coded(w) BY <2>6 DEF Coded
  <2> QED BY <1>3, <1>8, <2>4, <2>5, <2>7
<1>11. ASSUME NEW a \in Bytes, NEW b \in Bytes, e = <<Percent, a, b>>, isx(a), isx(b),
              16 * DigitValue(a) + DigitValue(b) = c
       PROVE  Coded(w) /\ Plain(w, FALSE) = Plain(u, FALSE) \o <<c>>
  <2>1. Len(e) = 3 /\ e[1] = Percent /\ e[2] = a /\ e[3] = b BY <1>11
  <2>2. /\ Len(w) = m + 3 /\ w[m + 1] = Percent /\ w[m + 2] = a /\ w[m + 3] = b
        /\ m \in 0..(Len(w) - 1) /\ m + 1 \in 0..(Len(w) - 1) /\ m + 2 \in 0..(Len(w) - 1)
        /\ m + 1 \in DOMAIN w /\ m + 2 \in DOMAIN w /\ m + 3 \in DOMAIN w
    <3>1. 1 \in 1..Len(e) /\ 2 \in 1..Len(e) /\ 3 \in 1..Len(e) BY <2>1
    <3>2. w[m + 1] = Percent /\ w[m + 2] = a /\ w[m + 3] = b BY <1>3, <2>1, <3>1
    <3> QED BY <1>3, <1>5, <2>1, <3>2
  <2>3. m + 1 \in Units(w) /\ m + 2 \notin Units(w) /\ m + 3 \notin Units(w)
    <3>1. m + 1 \in Units(w) BY <1>9, <2>1
    <3>2. m + 1 \in {(m + 2) - 1, (m + 2) - 2} /\ m + 1 \in {(m + 3) - 1, (m + 3) - 2} BY <1>3
    <3> QED BY <2>2, <3>1, <3>2 DEF Units
  <2>4. UnitAt(w, m + 1, FALSE) = <<c>>
    <3>1. (m + 1) + 1 = m + 2 /\ (m + 1) + 2 = m + 3 BY <1>3
    <3>2. UnitAt(w, m + 1, FALSE) = <<16 * DigitValue(w[(m + 1) + 1]) + DigitValue(w[(m + 1) + 2])>>
      BY <2>2, <2>3 DEF UnitAt
    <3> QED BY <1>11, <2>2, <3>1, <3>2
  <2>5. UnitAt(w, m + 2, FALSE) = <<>> /\ UnitAt(w, m + 3, FALSE) = <<>> BY <2>3 DEF UnitAt
  <2>6. /\ Stands(w, FALSE, m + 1) = Stands(w, FALSE, m) \o <<c>>
        /\ Stands(w, FALSE, m + 1) \in Seq(Nat)
    BY <1>3, <2>2, <2>4, MeaningGrows
  <2>7. /\ Stands(w, FALSE, m + 2) = Stands(w, FALSE, m + 1)
        /\ Stands(w, FALSE, m + 2) \in Seq(Nat)
    <3>1. (m + 1) + 1 = m + 2 BY <1>3
    <3>2. Stands(w, FALSE, (m + 1) + 1) = Stands(w, FALSE, m + 1) \o UnitAt(w, (m + 1) + 1, FALSE)
      BY <1>3, <2>2, MeaningGrows
    <3>3. Stands(w, FALSE, m + 2) = Stands(w, FALSE, m + 1) \o <<>> BY <2>5, <3>1, <3>2
    <3> QED BY <2>6, <3>3, ConcatEmptySeq
  <2>8. Stands(w, FALSE, m + 3) = Stands(w, FALSE, m + 2)
    <3>1. (m + 2) + 1 = m + 3 BY <1>3
    <3>2. Stands(w, FALSE, (m + 2) + 1) = Stands(w, FALSE, m + 2) \o UnitAt(w, (m + 2) + 1, FALSE)
      BY <1>3, <2>2, MeaningGrows
    <3>3. Stands(w, FALSE, m + 3) = Stands(w, FALSE, m + 2) \o <<>> BY <2>5, <3>1, <3>2
    <3> QED BY <2>7, <3>3, ConcatEmptySeq
  <2>9. Plain(w, FALSE) = Stands(w, FALSE, m + 3) BY <2>2 DEF Plain, Stands
  <2>10. ASSUME NEW i \in DOMAIN w, w[i] = Percent
         PROVE  i + 2 <= Len(w) /\ isx(w[i + 1]) /\ isx(w[i + 2])
    <3>0. ~isx(Percent) BY DEF isx, Percent, DigitValue, Digit
    <3>1. i \in 1..m \/ i = m + 1 \/ i = m + 2 \/ i = m + 3 BY <1>3, <1>5, <2>2
    <3>2. CASE i \in 1..m
      <4>1. i + 2 <= m /\ isx(u[i + 1]) /\ isx(u[i + 2]) BY <1>3, <1>4, <2>10, <3>2
      <4>2. i + 1 \in 1..m /\ i + 2 \in 1..m /\ i + 2 <= Len(w) BY <1>3, <2>2, <3>2, <4>1
      <4> QED BY <1>3, <4>1, <4>2
    <3>3. CASE i = m + 1
      <4>1. i + 1 = m + 2 /\ i + 2 = m + 3 /\ i + 2 <= Len(w) BY <1>3, <2>2, <3>3
      <4> QED BY <1>11, <2>2, <4>1
    <3>4. i # m + 2 /\ i # m + 3 BY <1>11, <2>2, <2>10, <3>0
    <3> QED BY <3>1, <3>2, <3>3, <3>4
  <2>11. Coded(w) BY <2>10 DEF Coded
  <2> QED BY <1>8, <2>6, <2>7, <2>8, <2>9, <2>11
<1> QED BY <1>2, <1>3, <1>10, <1>11

\* A text of safe characters and %.
SafeOnly(u) == \A i \in 1..Len(u) : u[i] = Percent \/ is_url_safe(u[i])

\* What is encoded is a coded text of safe characters and means what was encoded.
LEMMA WrittenMeans ==
    ASSUME NEW s \in Seq(Bytes)
    PROVE  LET u == Written(s, Len(s))
           IN  u \in Seq(Bytes) /\ Coded(u) /\ Plain(u, FALSE) = s /\ SafeOnly(u)
<1> DEFINE n == Len(s)
           Good(k) == /\ Written(s, k) \in Seq(Bytes) /\ Coded(Written(s, k))
                      /\ Plain(Written(s, k), FALSE) = SubSeq(s, 1, k)
                      /\ SafeOnly(Written(s, k))
           K == {k \in 0..n : Good(k)}
<1>0. n \in Nat /\ 0 \in Nat /\ n \in 0..n /\ 0 \in 0..n OBVIOUS
<1>1. Good(0)
  <2>1. Written(s, 0) = <<>> BY NothingWritten
  <2>2. <<>> \in Seq(Bytes) /\ Coded(<<>>) /\ SafeOnly(<<>>)
    <3>1. <<>> \in Seq(Bytes) /\ Len(<<>>) = 0 /\ DOMAIN <<>> = {} OBVIOUS
    <3> QED BY <3>1 DEF Coded, SafeOnly
  <2>3. Plain(<<>>, FALSE) = Stands(<<>>, FALSE, 0)
    <3>1. Len(<<>>) = 0 OBVIOUS
    <3> QED BY <3>1 DEF Plain, Stands
  <2>4. Plain(<<>>, FALSE) = <<>> BY <2>3, NothingMeant
  <2>5. SubSeq(s, 1, 0) = <<>> OBVIOUS
  <2> QED BY <2>1, <2>2, <2>4, <2>5
<1>2. ASSUME NEW k \in 0..(n - 1), k \in K PROVE k + 1 \in K
  <2> DEFINE u == Written(s, k)
             c == s[k + 1]
             w == Written(s, k + 1)
  <2>1. k \in Nat /\ k + 1 \in 0..n /\ k + 1 \in 1..n /\ k \in 0..(Len(s) - 1) OBVIOUS
  <2>2. c \in Bytes BY <2>1
  <2>3. w = u \o Encoded(c) BY <2>1, WrittenGrows
  <2>4. u \in Seq(Bytes) /\ Coded(u) /\ Plain(u, FALSE) = SubSeq(s, 1, k) /\ SafeOnly(u) BY <1>2
  <2>5. Encoded(c) \in Seq(Bytes) /\ SafeOnly(Encoded(c))
    <3>1. Encoded(c) \in Seq(Bytes) BY <2>2, EncodedIs
    <3>2. CASE is_url_safe(c) /\ Encoded(c) = <<c>>
      <4>1. Len(<<c>>) = 1 /\ <<c>>[1] = c /\ \A i \in 1..1 : i = 1 OBVIOUS
      <4> HIDE DEF c
      <4> QED BY <3>1, <3>2, <4>1 DEF SafeOnly
    <3>3. ASSUME NEW a \in Bytes, NEW b \in Bytes, Encoded(c) = <<Percent, a, b>>,
                 is_url_safe(a), is_url_safe(b)
          PROVE  SafeOnly(Encoded(c))
      <4> DEFINE t == <<Percent, a, b>>
      <4>1. Len(t) = 3 /\ t[1] = Percent /\ t[2] = a /\ t[3] = b
            /\ \A i \in 1..3 : i = 1 \/ i = 2 \/ i = 3
        OBVIOUS
      <4> HIDE DEF t, c
      <4>2. SafeOnly(t) BY <3>3, <4>1 DEF SafeOnly
      <4> QED BY <3>3, <4>2 DEF t
    <3>4. \/ is_url_safe(c) /\ Encoded(c) = <<c>>
          \/ \E a, b \in Bytes : Encoded(c) = <<Percent, a, b>> /\ is_url_safe(a) /\ is_url_safe(b)
      BY <2>2, EncodedIs
    <3> HIDE DEF c
    <3> QED BY <3>1, <3>2, <3>3, <3>4
  <2>6. /\ w \in Seq(Bytes) /\ Coded(w) /\ Plain(w, FALSE) = Plain(u, FALSE) \o <<c>>
    <3> HIDE DEF c, u, w
    <3> QED BY <2>2, <2>3, <2>4, CodedGrows
  <2>7. SubSeq(s, 1, k) \o <<c>> = SubSeq(s, 1, k + 1)
    <3> DEFINE l == SubSeq(s, 1, k)
               r == SubSeq(s, 1, k + 1)
    <3>1. l \in Seq(Bytes) /\ Len(l) = k /\ \A i \in 1..k : l[i] = s[i]
      <4>1. \A i \in 1..k : s[i] \in Bytes BY <2>1
      <4> QED BY <2>1, <4>1, SubSeqProperties
    <3>2. r \in Seq(Bytes) /\ Len(r) = k + 1 /\ \A i \in 1..(k + 1) : r[i] = s[i]
      <4>1. \A i \in 1..(k + 1) : s[i] \in Bytes BY <2>1
      <4> QED BY <2>1, <4>1, SubSeqProperties
    <3> HIDE DEF l, r, c
    <3>3. Append(l, c) = l \o <<c>> BY <2>2, <3>1, AppendIsConcat
    <3>4. /\ Append(l, c) \in Seq(Bytes) /\ Len(Append(l, c)) = k + 1
          /\ Append(l, c)[k + 1] = c /\ \A i \in 1..k : Append(l, c)[i] = l[i]
      BY <2>2, <3>1, AppendProperties
    <3>5. \A i \in 1..(k + 1) : Append(l, c)[i] = r[i]
      <4> TAKE i \in 1..(k + 1)
      <4>1. i \in 1..k \/ i = k + 1 BY <2>1
      <4> QED BY <3>1, <3>2, <3>4, <4>1 DEF c
    <3>6. Append(l, c) = r BY <3>2, <3>4, <3>5, SeqEqual
    <3> QED BY <3>3, <3>6 DEF l, r
  <2>8. SafeOnly(w)
    <3> DEFINE e == Encoded(c)
    <3>1. /\ Len(w) = Len(u) + Len(e) /\ Len(u) \in Nat /\ Len(e) \in Nat
          /\ \A i \in 1..Len(w) : w[i] = IF i <= Len(u) THEN u[i] ELSE e[i - Len(u)]
      <4> HIDE DEF c, u, w
      <4> QED BY <2>3, <2>4, <2>5, ConcatProperties
    <3>2. SafeOnly(u) /\ SafeOnly(e) BY <2>4, <2>5
    <3> HIDE DEF e, u, w
    <3> SUFFICES ASSUME NEW i \in 1..Len(w) PROVE w[i] = Percent \/ is_url_safe(w[i])
      BY DEF SafeOnly
    <3>3. CASE i <= Len(u)
      <4>1. i \in 1..Len(u) BY <3>1, <3>3
      <4> QED BY <3>1, <3>2, <3>3, <4>1 DEF SafeOnly
    <3>4. CASE ~(i <= Len(u))
      <4>1. i - Len(u) \in 1..Len(e) BY <3>1, <3>4
      <4> QED BY <3>1, <3>2, <3>4, <4>1 DEF SafeOnly
    <3> QED BY <3>3, <3>4
  <2>9. Good(k + 1) BY <2>4, <2>6, <2>7, <2>8
  <2> HIDE DEF Good
  <2> QED BY <2>1, <2>9
<1>3. Good(n)
  <2> HIDE DEF Good
  <2>1. 0 \in K BY <1>0, <1>1
  <2> HIDE DEF K
  <2>2. \A k \in 0..n : k \in K BY <1>0, <1>2, <2>1, Induction
  <2>3. n \in K BY <1>0, <2>2
  <2> QED BY <2>3 DEF K
<1>4. SubSeq(s, 1, Len(s)) = s BY SubSeqFull
<1> QED BY <1>3, <1>4

\* What is encoded decodes to the same bytes, and what a coded text means is decoded.
LEMMA UrlRoundTrip ==
    ASSUME NEW s \in Seq(Bytes)
    PROVE  LET e == url_encode(s, 3 * Len(s) + 2)
           IN  /\ e.ok /\ url_decode(e.v, Len(s) + 1, FALSE) = Yes(s)
               /\ \A c \in Range(e.v) : c = Percent \/ is_url_safe(c)
               /\ UrlEncode(s) \in {e.v, <<>>}
               /\ (\E i \in 1..(Len(s) - 1) : is_url_safe(s[i])) => UrlEncode(s) = e.v
<1> DEFINE u == Written(s, Len(s))
           e == url_encode(s, 3 * Len(s) + 2)
           f == url_encode(s, 3 * Len(s) + 1)
<1>0. /\ Len(s) \in Nat /\ 3 * Len(s) + 2 \in Nat /\ 3 * Len(s) + 1 \in Nat
      /\ Len(s) + 1 \in Nat /\ Len(s) < Len(s) + 1
  OBVIOUS
<1>1. u \in Seq(Bytes) /\ Coded(u) /\ Plain(u, FALSE) = s /\ SafeOnly(u) BY WrittenMeans
<1>2. e = Yes(u) BY <1>0, EncodeIs, RoomEnough
<1>3. f = IF Room(s, 3 * Len(s) + 1, Len(s)) THEN Yes(u) ELSE Failed BY <1>0, EncodeIs
<1>4. UrlEncode(s) = IF f.ok THEN f.v ELSE <<>> BY DEF UrlEncode
<1> HIDE DEF u, e, f
<1>5. e.ok = TRUE /\ e.v = u BY <1>2, YesIs
<1>6. url_decode(u, Len(s) + 1, FALSE) = Yes(s)
  <2>1. Len(s) + 1 \in Nat /\ FALSE \in BOOLEAN BY <1>0
  <2>2. url_decode(u, Len(s) + 1, FALSE) =
            IF Coded(u) /\ Len(Plain(u, FALSE)) < Len(s) + 1 THEN Yes(Plain(u, FALSE)) ELSE Failed
    BY <1>1, <2>1, DecodeIs
  <2> QED BY <1>0, <1>1, <2>2
<1>7. \A c \in Range(u) : c = Percent \/ is_url_safe(c)
  <2>1. DOMAIN u = 1..Len(u) BY <1>1
  <2> QED BY <1>1, <2>1 DEF Range, SafeOnly
<1>8. CASE Room(s, 3 * Len(s) + 1, Len(s))
  <2>1. f.ok = TRUE /\ f.v = u BY <1>3, <1>8, YesIs
  <2>2. UrlEncode(s) = u BY <1>4, <2>1
  <2> QED BY <1>5, <1>6, <1>7, <2>2 DEF e
<1>9. CASE ~Room(s, 3 * Len(s) + 1, Len(s))
  <2>1. f.ok = FALSE BY <1>3, <1>9 DEF Failed
  <2>2. UrlEncode(s) = <<>> BY <1>4, <2>1
  <2>3. ~SafeIn(s, Len(s) - 1) BY <1>9, RoomEnough
  <2> QED BY <1>5, <1>6, <1>7, <2>2, <2>3 DEF e, SafeIn
<1> QED BY <1>8, <1>9

\* What is encoded for a URL decodes to the same bytes, and what is decoded is what the
\* text means, or nothing if it is not well formed or does not fit.
THEOREM UrlIsExact == TextSpec => []UrlExact
<1>1. TextTyped => UrlExact
  <2> SUFFICES ASSUME TextTyped, function = "url"
               PROVE  /\ LET e == url_encode(text, 3 * Len(text) + 2)
                         IN  /\ e.ok /\ url_decode(e.v, Len(text) + 1, FALSE) = Yes(text)
                             /\ \A c \in Range(e.v) : c = Percent \/ is_url_safe(c)
                             /\ UrlEncode(text) \in {e.v, <<>>}
                             /\ (\E i \in 1..(Len(text) - 1) : is_url_safe(text[i]))
                                    => UrlEncode(text) = e.v
                      /\ \A form \in BOOLEAN, len \in {1, Len(text), Len(text) + 1} \ {0} :
                             url_decode(text, len, form) =
                                 IF Coded(text) /\ Len(Plain(text, form)) < len
                                 THEN Yes(Plain(text, form)) ELSE Failed
    BY DEF UrlExact
  <2>1. text \in Seq(Bytes)
    <3>1. text \in Seq(Alphabet("url")) /\ Alphabet("url") \subseteq Bytes
      BY CodingAssumption DEF TextTyped, Bytes
    <3> QED BY <3>1, SeqMonotonic
  <2>2. Len(text) \in Nat BY <2>1
  <2>3. \A len \in {1, Len(text), Len(text) + 1} \ {0} : len \in Nat BY <2>2
  <2> QED BY <2>1, <2>3, UrlRoundTrip, DecodeIs
<1> QED BY <1>1, TextTypes, PTL

\* The functions that requests are read with are exact.
THEOREM TextIsExact == TextSpec => []TextExact
<1>1. MatchExact /\ NumbersExact /\ VariablesExact /\ UrlExact => TextExact BY DEF TextExact
<1> QED BY <1>1, PatternsAreExact, NumbersAreExact, VariablesAreExact, UrlIsExact, PTL

-----------------------------------------------------------------------------
(* SHA-1.  What sha1_init(), sha1_update() and sha1_final() keep of a      *)
(* message is its whole blocks, what is over, and the count of its bits,   *)
(* which wraps; the count tells the place in the block, because a block    *)
(* divides what it wraps at.                                               *)

\* Division with remainder, by a number that is not 0.
LEMMA Division ==
    ASSUME NEW d \in Nat \ {0}, NEW n \in Nat
    PROVE  n \div d \in Nat /\ n % d \in 0..(d - 1) /\ n = d * (n \div d) + (n % d)
OBVIOUS

\* There is one quotient and one remainder.
LEMMA OneQuotient ==
    ASSUME NEW d \in Nat \ {0}, NEW q \in Nat, NEW r \in 0..(d - 1), NEW n \in Nat, n = d * q + r
    PROVE  n \div d = q /\ n % d = r
<1>1. n \div d \in Nat /\ n % d \in 0..(d - 1) /\ n = d * (n \div d) + (n % d) BY Division
<1> DEFINE p == n \div d
           s == n % d
<1> HIDE DEF p, s
<1>2. p \in Nat /\ s \in 0..(d - 1) /\ n = d * p + s BY <1>1 DEF p, s
<1>3. d * (p - q) = r - s BY <1>2
<1>4. p - q = 0
  <2>1. CASE p - q >= 1
    <3>1. d * (p - q) >= d BY <1>2, <2>1
    <3> QED BY <1>2, <1>3, <3>1
  <2>2. CASE p - q <= -1
    <3>1. d * (p - q) <= -d BY <1>2, <2>2
    <3> QED BY <1>2, <1>3, <3>1
  <2>3. p - q \in Int BY <1>2
  <2> QED BY <2>1, <2>2, <2>3, <1>2
<1>5. p = q BY <1>2, <1>4
<1>6. r = s BY <1>2, <1>5
<1> QED BY <1>5, <1>6 DEF p, s

\* The same, of a number that is said to have them.
HasQuotient(d, n, q, r) ==
    d \in Nat \ {0} /\ n \in Nat /\ q \in Nat /\ r \in 0..(d - 1) /\ n = d * q + r

LEMMA QuotientIs ==
    ASSUME NEW d, NEW n, NEW q, NEW r, HasQuotient(d, n, q, r)
    PROVE  n \div d = q /\ n % d = r
BY OneQuotient DEF HasQuotient

\* Adding whole multiples changes the quotient only.
LEMMA MoreBlocks ==
    ASSUME NEW d \in Nat \ {0}, NEW q \in Nat, NEW m \in Nat
    PROVE  (d * q + m) % d = m % d /\ (d * q + m) \div d = q + (m \div d)
<1> DEFINE p == m \div d
           r == m % d
<1>1. p \in Nat /\ r \in 0..(d - 1) /\ m = d * p + r BY Division
<1> HIDE DEF p, r
<1>2. /\ d * q \in Nat /\ d * q + m \in Nat /\ q + p \in Nat
      /\ d * (q + p) = d * q + d * p
  BY <1>1
<1>3. d * q + m = d * (q + p) + r BY <1>1, <1>2
<1>4. (d * q + m) \div d = q + p /\ (d * q + m) % d = r BY <1>1, <1>2, <1>3, OneQuotient
<1> QED BY <1>4 DEF p, r

\* The numbers of a block and of a half.
LEMMA HalfIsBlocks ==
    /\ Block \in Nat \ {0} /\ Block > 2 /\ Half \in Nat \ {0} /\ Half \div (8 * Block) \in Nat
    /\ Half = 8 * (Block * (Half \div (8 * Block)))
<1>1. Block \in Nat \ {0} /\ Block > 2 /\ Half \in Nat \ {0} /\ Half % (8 * Block) = 0
  BY CodingAssumption
<1> DEFINE d == 8 * Block
           h == Half \div d
<1>2. d \in Nat \ {0} BY <1>1
<1>3. h \in Nat /\ Half = d * h + (Half % d) BY <1>1, <1>2, Division
<1>4. Half = d * h BY <1>1, <1>2, <1>3
<1> HIDE DEF h
<1>5. (8 * Block) * h = 8 * (Block * h) BY <1>1, <1>3
<1> QED BY <1>1, <1>3, <1>4, <1>5 DEF h

\* The count of bits, although it wraps, tells the place in the block.
LEMMA CountInBlock ==
    ASSUME NEW n \in Nat
    PROVE  (((8 * n) % Half) \div 8) % Block = n % Block
<1> DEFINE h == Half \div (8 * Block)
           q == (8 * n) \div Half
           r == (8 * n) % Half
           t == r \div 8
<1>1. /\ Block \in Nat \ {0} /\ Half \in Nat \ {0} /\ h \in Nat /\ Half = 8 * (Block * h)
  BY HalfIsBlocks
<1>2. q \in Nat /\ r \in 0..(Half - 1) /\ 8 * n = Half * q + r
  <2> DEFINE a == 8 * n
  <2>1. a \in Nat OBVIOUS
  <2> HIDE DEF a
  <2>2. a \div Half \in Nat /\ a % Half \in 0..(Half - 1) /\ a = Half * (a \div Half) + (a % Half)
    BY <1>1, <2>1, Division
  <2> QED BY <2>2 DEF a
<1> HIDE DEF h, q, r
<1>3. t \in Nat /\ r % 8 \in 0..7 /\ r = 8 * t + (r % 8)
  <2>1. r \in Nat BY <1>1, <1>2
  <2> QED BY <2>1, Division
<1> DEFINE b == (Block * h) * q
<1> HIDE DEF t
<1>4. b \in Nat /\ Half * q = 8 * b BY <1>1, <1>2
<1>5. r % 8 = 0 /\ n = b + t
  <2> HIDE DEF b
  <2>1. 8 * n = 8 * b + 8 * t + (r % 8) BY <1>2, <1>3, <1>4
  <2> DEFINE u == r % 8
  <2>2. u \in 0..7 /\ 8 * n = 8 * b + 8 * t + u BY <1>3, <2>1
  <2> HIDE DEF u
  <2>3. u = 0 /\ n = b + t BY <1>3, <1>4, <2>2
  <2> QED BY <2>3 DEF u
<1>6. b = Block * (h * q) /\ h * q \in Nat BY <1>1, <1>2
<1>7. n % Block = t % Block
  <2>1. n = Block * (h * q) + t BY <1>5, <1>6
  <2> QED BY <1>1, <1>3, <1>6, <2>1, MoreBlocks
<1> QED BY <1>7 DEF t, r

\* The two halves of the count, after more bits.
LEMMA CountAdds ==
    ASSUME NEW n \in Nat, NEW l \in Nat
    PROVE  /\ (((8 * n) % Half) + ((8 * l) % Half)) % Half = (8 * (n + l)) % Half
           /\ ((((8 * n) \div Half) % Half) + Carry((8 * n) % Half, (8 * l) % Half)
                  + ((8 * l) \div Half)) % Half = ((8 * (n + l)) \div Half) % Half
<1> DEFINE a == 8 * n
           b == 8 * l
           p == a \div Half
           q == b \div Half
           x == a % Half
           y == b % Half
           c == Carry(x, y)
           s == (x + y) % Half
           H == Half
<1>1. H \in Nat \ {0} BY HalfIsBlocks
<1>2. a \in Nat /\ b \in Nat /\ 8 * (n + l) = a + b OBVIOUS
<1>3. /\ p \in Nat /\ x \in 0..(H - 1) /\ a = H * p + x
      /\ q \in Nat /\ y \in 0..(H - 1) /\ b = H * q + y
  <2> HIDE DEF a, b
  <2> QED BY <1>1, <1>2, Division
<1> DEFINE z == x + y
<1>0. c = IF s < x THEN 1 ELSE 0 BY DEF Carry
<1>9. s = z % H OBVIOUS
<1> HIDE DEF a, b, p, q, x, y, c, s, H
<1>4. c \in {0, 1} /\ s \in 0..(H - 1) /\ z = H * c + s
  <2>0. z \in Nat /\ z = x + y BY <1>1, <1>3
  <2> HIDE DEF z
  <2>1. CASE z < H
    <3>1. z = H * 0 + z /\ z \in 0..(H - 1) BY <1>1, <2>0, <2>1
    <3>2. s = z BY <1>1, <1>9, <2>0, <3>1, OneQuotient
    <3>3. ~(s < x) BY <1>3, <2>0, <3>2
    <3> QED BY <1>0, <1>1, <2>0, <2>1, <3>2, <3>3
  <2>2. CASE ~(z < H)
    <3>1. z = H * 1 + (z - H) /\ z - H \in 0..(H - 1) BY <1>1, <1>3, <2>0, <2>2
    <3>2. s = z - H
      <4> DEFINE r == z - H
      <4>1. r \in 0..(H - 1) /\ z = H * 1 + r /\ 1 \in Nat BY <3>1
      <4> HIDE DEF r
      <4>3. HasQuotient(H, z, 1, r) BY <1>1, <2>0, <4>1 DEF HasQuotient
      <4>2. z % H = r BY <4>3, QuotientIs
      <4> QED BY <1>9, <4>2 DEF r
    <3>3. s < x BY <1>1, <1>3, <2>0, <3>2
    <3> QED BY <1>0, <1>1, <2>0, <3>1, <3>2, <3>3
  <2> QED BY <2>1, <2>2
<1>5. a + b = H * (p + q + c) + s /\ p + q + c \in Nat /\ a + b \in Nat
  <2>1. H * (p + q + c) = H * p + H * q + H * c BY <1>1, <1>3, <1>4
  <2> QED BY <1>1, <1>3, <1>4, <2>1 DEF z
<1>6. (a + b) \div H = p + q + c /\ (a + b) % H = s BY <1>1, <1>4, <1>5, OneQuotient
<1>7. ((p % H) + c + q) % H = (p + q + c) % H
  <2> DEFINE u == p \div H
             v == p % H
  <2>1. u \in Nat /\ v \in 0..(H - 1) /\ p = H * u + v BY <1>1, <1>3, Division
  <2> HIDE DEF u, v
  <2> DEFINE w == v + c + q
  <2>2. w \in Nat /\ p + q + c = H * u + w
    <3>1. v \in Nat /\ c \in Nat /\ H * u \in Nat BY <1>1, <1>4, <2>1
    <3> DEFINE k == H * u
    <3>2. k \in Nat /\ p = k + v BY <2>1, <3>1
    <3> HIDE DEF k
    <3>3. w \in Nat /\ p + q + c = k + w BY <1>3, <3>1, <3>2
    <3> QED BY <3>3 DEF k
  <2> HIDE DEF w
  <2>4. (H * u + w) % H = w % H BY <1>1, <2>1, <2>2, MoreBlocks
  <2>3. (p + q + c) % H = w % H BY <2>2, <2>4
  <2> QED BY <2>3 DEF v, w
<1>8. (8 * (n + l)) % H = s /\ ((8 * (n + l)) \div H) % H = ((p % H) + c + q) % H
  BY <1>2, <1>6, <1>7
<1> QED BY <1>8 DEF s, p, q, c, x, y, a, b, H

\* The places of a part of a text.
LEMMA PartPlaces ==
    ASSUME NEW T, NEW s \in Seq(T), NEW a \in Nat, NEW b \in Nat, a <= b, b <= Len(s)
    PROVE  /\ SubSeq(s, a + 1, b) \in Seq(T) /\ Len(SubSeq(s, a + 1, b)) = b - a
           /\ \A i \in 1..(b - a) : SubSeq(s, a + 1, b)[i] = s[a + i]
<1>1. b \in a..Len(s) /\ 0 \in 0..(b - a) OBVIOUS
<1> QED BY <1>1, RestOfSub

\* Block k of a message, and all of its whole blocks.
BlockOf(s, k) == SubSeq(s, (k - 1) * Block + 1, k * Block)
Blocks(s) == [k \in 1..(Len(s) \div Block) |-> BlockOf(s, k)]

\* How a message is cut: into whole blocks and what is over.
LEMMA MessageParts ==
    ASSUME NEW T, NEW s \in Seq(T)
    PROVE  /\ Len(s) \in Nat /\ Block \in Nat \ {0}
           /\ Len(s) \div Block \in Nat /\ Len(s) % Block \in 0..(Block - 1)
           /\ Block * (Len(s) \div Block) \in Nat
           /\ Len(s) = Block * (Len(s) \div Block) + (Len(s) % Block)
<1>1. Len(s) \in Nat OBVIOUS
<1>2. Block \in Nat \ {0} BY HalfIsBlocks
<1> DEFINE q == Len(s) \div Block
<1>3. /\ q \in Nat /\ Len(s) % Block \in 0..(Block - 1) /\ Len(s) = Block * q + (Len(s) % Block)
  BY <1>1, <1>2, Division
<1> HIDE DEF q
<1>4. Block * q \in Nat BY <1>2, <1>3
<1> QED BY <1>1, <1>2, <1>3, <1>4 DEF q

\* Where a block lies.
LEMMA BlockPlaces ==
    ASSUME NEW k \in Nat \ {0}, NEW q \in Nat, k <= q
    PROVE  /\ (k - 1) * Block \in Nat /\ k * Block \in Nat
           /\ k * Block = (k - 1) * Block + Block /\ k * Block <= Block * q
<1>1. Block \in Nat \ {0} BY HalfIsBlocks
<1> DEFINE d == q - k
<1>2. d \in Nat /\ q = k + d OBVIOUS
<1> HIDE DEF d
<1>3. Block * q = k * Block + Block * d /\ Block * d \in Nat BY <1>1, <1>2
<1>4. (k - 1) * Block \in Nat /\ k * Block \in Nat /\ k * Block = (k - 1) * Block + Block
  BY <1>1
<1> QED BY <1>3, <1>4

\* A block of a message.
LEMMA BlockIs ==
    ASSUME NEW T, NEW s \in Seq(T), NEW k \in Nat \ {0}, NEW q \in Nat, k <= q,
           Block * q <= Len(s)
    PROVE  /\ BlockOf(s, k) \in Seq(T) /\ Len(BlockOf(s, k)) = Block
           /\ \A i \in 1..Block : BlockOf(s, k)[i] = s[(k - 1) * Block + i]
<1> DEFINE a == (k - 1) * Block
           b == k * Block
<1>1. a \in Nat /\ b \in Nat /\ b = a + Block /\ b <= Block * q BY BlockPlaces
<1>2. Block \in Nat \ {0} /\ Len(s) \in Nat BY HalfIsBlocks
<1>6. Block * q \in Nat BY <1>2
<1>3. BlockOf(s, k) = SubSeq(s, a + 1, b) BY DEF BlockOf
<1> HIDE DEF a, b
<1>4. a <= b /\ b <= Len(s) /\ b - a = Block BY <1>1, <1>2, <1>6
<1>5. SubSeq(s, a + 1, b) \in Seq(T) /\ Len(SubSeq(s, a + 1, b)) = b - a
      /\ \A i \in 1..(b - a) : SubSeq(s, a + 1, b)[i] = s[a + i]
  <2>1. a \in Nat /\ b \in Nat /\ a <= b /\ b <= Len(s) BY <1>1, <1>4
  <2> QED BY <2>1, PartPlaces
<1> QED BY <1>3, <1>4, <1>5 DEF a

\* The blocks of a message are sequences.
LEMMA BlocksAre ==
    ASSUME NEW T, NEW s \in Seq(T)
    PROVE  /\ Blocks(s) \in Seq(Seq(T)) /\ Len(Blocks(s)) = Len(s) \div Block
           /\ \A k \in 1..(Len(s) \div Block) : Blocks(s)[k] = BlockOf(s, k)
<1> DEFINE q == Len(s) \div Block
<1>1. q \in Nat /\ Len(s) \in Nat /\ Block * q <= Len(s)
  <2>1. /\ q \in Nat /\ Len(s) \in Nat /\ Len(s) % Block \in Nat /\ Block * q \in Nat
        /\ Len(s) = Block * q + (Len(s) % Block)
    BY MessageParts
  <2> HIDE DEF q
  <2> QED BY <2>1
<1>2. Blocks(s) = [k \in 1..q |-> BlockOf(s, k)] BY DEF Blocks
<1> HIDE DEF q
<1>3. \A k \in 1..q : BlockOf(s, k) \in Seq(T)
  <2>1. \A k \in 1..q : k \in Nat \ {0} /\ k <= q BY <1>1
  <2> QED BY <1>1, <2>1, BlockIs
<1>4. Blocks(s) \in Seq(Seq(T)) /\ Len(Blocks(s)) = q
      /\ \A k \in 1..q : Blocks(s)[k] = BlockOf(s, k)
  BY <1>1, <1>2, <1>3
<1> QED BY <1>4 DEF q

\* A block that a message has is a block of any longer message.
LEMMA BlockKept ==
    ASSUME NEW T, NEW m \in Seq(T), NEW d \in Seq(T), NEW k \in 1..(Len(m) \div Block)
    PROVE  BlockOf(m \o d, k) = BlockOf(m, k)
<1> DEFINE q == Len(m) \div Block
           u == m \o d
           a == (k - 1) * Block
           v == BlockOf(u, k)
           w == BlockOf(m, k)
<1>1. /\ q \in Nat /\ k \in Nat \ {0} /\ k <= q /\ Block \in Nat \ {0} /\ Len(m) \in Nat
      /\ Block * q \in Nat /\ Block * q <= Len(m)
  <2>1. /\ q \in Nat /\ Len(m) \in Nat /\ Len(m) % Block \in Nat /\ Block * q \in Nat
        /\ Len(m) = Block * q + (Len(m) % Block) /\ Block \in Nat \ {0}
    BY MessageParts
  <2> HIDE DEF q
  <2> QED BY <2>1 DEF q
<1>2. /\ u \in Seq(T) /\ Len(u) = Len(m) + Len(d) /\ Len(d) \in Nat
      /\ \A i \in 1..Len(m) : u[i] = m[i]
  OBVIOUS
<1> HIDE DEF q, u
<1>3. Block * q <= Len(u)
  <2> DEFINE b == Block * q
  <2>1. b \in Nat /\ b <= Len(m) /\ Len(m) \in Nat BY <1>1
  <2> HIDE DEF b
  <2>2. b <= Len(u) BY <1>2, <2>1
  <2> QED BY <2>2 DEF b
<1>4. v \in Seq(T) /\ Len(v) = Block /\ \A i \in 1..Block : v[i] = u[a + i]
  <2>1. u \in Seq(T) /\ q \in Nat /\ k \in Nat \ {0} /\ k <= q BY <1>1, <1>2
  <2> QED BY <1>3, <2>1, BlockIs
<1>5. w \in Seq(T) /\ Len(w) = Block /\ \A i \in 1..Block : w[i] = m[a + i]
  BY <1>1, BlockIs
<1>6. a \in Nat /\ a + Block <= Block * q BY <1>1, BlockPlaces
<1> HIDE DEF v, w, a
<1>7. ASSUME NEW i \in 1..Len(v) PROVE v[i] = w[i]
  <2>2. i \in 1..Block /\ Block \in Nat BY <1>1, <1>4
  <2> DEFINE b == Block * q
  <2>3. a \in Nat /\ b \in Nat /\ a + Block <= b /\ b <= Len(m) /\ Len(m) \in Nat BY <1>1, <1>6
  <2> HIDE DEF b
  <2>1. i \in 1..Block /\ a + i \in 1..Len(m) BY <2>2, <2>3
  <2> QED BY <1>2, <1>4, <1>5, <2>1
<1>8. v = w BY <1>4, <1>5, <1>7, SeqEqual
<1> QED BY <1>8 DEF v, w, u

\* What a message m of which block k has begun, after a bytes, needs of a text d.
Completes(T, m, d, f, k, a, j) ==
    /\ m \in Seq(T) /\ d \in Seq(T) /\ f \in Seq(T)
    /\ k \in Nat \ {0} /\ a \in Nat /\ (k - 1) * Block = a
    /\ j \in 0..(Block - 1) /\ Len(m) = a + j
    /\ j + Len(d) >= Block /\ Len(f) = j /\ \A n \in 1..j : f[n] = m[a + n]

\* A block begun with f, and completed with i bytes of d.
Filled(f, d, i) == f \o SubSeq(d, 1, i)

\* The block that is completed: what was over, and the first of what is added.
LEMMA BlockCompleted ==
    ASSUME NEW T, NEW m, NEW d, NEW f, NEW k, NEW a, NEW j, Completes(T, m, d, f, k, a, j)
    PROVE  BlockOf(m \o d, k) = Filled(f, d, Block - j)
<1> DEFINE u == m \o d
           v == BlockOf(u, k)
           e == SubSeq(d, 1, Block - j)
           w == f \o e
<1>0. /\ m \in Seq(T) /\ d \in Seq(T) /\ f \in Seq(T)
      /\ k \in Nat \ {0} /\ a \in Nat /\ (k - 1) * Block = a
      /\ j \in 0..(Block - 1) /\ Len(m) = a + j
      /\ j + Len(d) >= Block /\ Len(f) = j /\ \A n \in 1..j : f[n] = m[a + n]
  BY DEF Completes
<1>1. /\ Block \in Nat \ {0} /\ Len(m) \in Nat /\ Len(d) \in Nat /\ j \in Nat
      /\ Block - j \in Nat /\ Block - j <= Len(d)
      /\ k \in Nat \ {0} /\ a \in Nat /\ (k - 1) * Block = a
      /\ j \in 0..(Block - 1) /\ Len(m) = a + j
      /\ Len(f) = j /\ \A n \in 1..j : f[n] = m[a + n]
      /\ m \in Seq(T) /\ d \in Seq(T) /\ f \in Seq(T)
  BY <1>0, HalfIsBlocks
<1>2. u \in Seq(T) /\ Len(u) = Len(m) + Len(d)
      /\ \A i \in 1..Len(m) + Len(d) : u[i] = IF i <= Len(m) THEN m[i] ELSE d[i - Len(m)]
  <2>1. m \in Seq(T) /\ d \in Seq(T) BY <1>1
  <2> QED BY <2>1, ConcatProperties
<1>3. e \in Seq(T) /\ Len(e) = Block - j /\ \A i \in 1..(Block - j) : e[i] = d[i]
  <2> DEFINE b == Block - j
  <2> HIDE DEF b
  <2>1. b \in Nat /\ b <= Len(d) /\ 0 <= b BY <1>1 DEF b
  <2>2. SubSeq(d, 0 + 1, b) \in Seq(T) /\ Len(SubSeq(d, 0 + 1, b)) = b - 0
        /\ \A i \in 1..(b - 0) : SubSeq(d, 0 + 1, b)[i] = d[0 + i]
    BY <1>0, <2>1, PartPlaces
  <2>3. 0 + 1 = 1 /\ b - 0 = b /\ \A i \in 1..b : 0 + i = i BY <2>1
  <2>4. SubSeq(d, 1, b) \in Seq(T) /\ Len(SubSeq(d, 1, b)) = b
        /\ \A i \in 1..b : SubSeq(d, 1, b)[i] = d[i]
    BY <2>2, <2>3
  <2> QED BY <2>4 DEF b
<1> HIDE DEF u, e
<1>4. w \in Seq(T) /\ Len(w) = Block
      /\ \A i \in 1..Block : w[i] = IF i <= j THEN f[i] ELSE e[i - j]
  <2>0. e \in Seq(T) /\ f \in Seq(T) /\ Len(f) + Len(e) = Block BY <1>1, <1>3
  <2> HIDE DEF w
  <2>w. w = f \o e BY DEF w
  <2>1. w \in Seq(T) BY <2>0, <2>w, ConcatProperties
  <2>2. Len(w) = Block BY <2>0, <2>w, ConcatProperties
  <2>3. ASSUME NEW i \in 1..Block PROVE w[i] = IF i <= j THEN f[i] ELSE e[i - j]
    <3>1. i \in 1..Len(f) + Len(e) BY <2>0
    <3>2. (f \o e)[i] = IF i <= Len(f) THEN f[i] ELSE e[i - Len(f)]
      BY <2>0, <3>1, ConcatProperties
    <3> QED BY <1>1, <2>w, <3>2
  <2> QED BY <2>1, <2>2, <2>3
<1>6. v \in Seq(T) /\ Len(v) = Block /\ \A i \in 1..Block : v[i] = u[a + i]
  <2>1. Block * k = a + Block /\ k \in Nat /\ k <= k BY <1>1
  <2>3. Block * k <= Len(u) BY <1>1, <1>2, <2>1
  <2>4. v \in Seq(T) /\ Len(v) = Block /\ \A i \in 1..Block : v[i] = u[(k - 1) * Block + i]
    BY <1>1, <1>2, <2>1, <2>3, BlockIs
  <2> HIDE DEF v
  <2> QED BY <1>1, <2>4
<1> HIDE DEF v, w
<1>8. ASSUME NEW i \in 1..Len(v) PROVE v[i] = w[i]
  <2>4. i \in 1..Block /\ Block \in Nat BY <1>1, <1>6
  <2>5. a \in Nat /\ j \in Nat /\ Len(d) \in Nat /\ Len(m) = a + j /\ j + Len(d) >= Block
    BY <1>0, <1>1
  <2>1. i \in 1..Block /\ a + i \in 1..Len(m) + Len(d) BY <2>4, <2>5
  <2>2. CASE i <= j
    <3>1. i \in 1..j /\ a + i <= Len(m) BY <1>1, <2>1, <2>2
    <3>2. u[a + i] = m[a + i] BY <1>2, <2>1, <3>1
    <3> QED BY <1>1, <1>4, <1>6, <2>1, <2>2, <3>1, <3>2
  <2>3. CASE ~(i <= j)
    <3>1. ~(a + i <= Len(m)) /\ (a + i) - Len(m) = i - j /\ i - j \in 1..(Block - j)
      BY <1>1, <2>1, <2>3
    <3>2. u[a + i] = d[i - j] BY <1>2, <2>1, <3>1
    <3>3. w[i] = d[i - j] BY <1>3, <1>4, <2>1, <2>3, <3>1
    <3> QED BY <1>6, <2>1, <3>2, <3>3
  <2> QED BY <2>2, <2>3
<1>9. v = w BY <1>4, <1>6, <1>8, SeqEqual
<1> QED BY <1>9 DEF v, w, u, e, Filled

\* A block of what is added after it, from place x on.
LEMMA BlockAdded ==
    ASSUME NEW T, NEW m \in Seq(T), NEW d \in Seq(T), NEW k \in Nat \ {0}, NEW x \in Nat,
           (k - 1) * Block = Len(m) + x, x + Block <= Len(d)
    PROVE  /\ BlockOf(m \o d, k) = SubSeq(d, x + 1, x + Block)
           /\ SubSeq(d, x + 1, x + Block) \in Seq(T)
<1> DEFINE u == m \o d
           v == BlockOf(u, k)
           y == x + Block
           w == SubSeq(d, x + 1, y)
<1>1. /\ Block \in Nat \ {0} /\ Len(m) \in Nat /\ Len(d) \in Nat /\ k \in Nat /\ k <= k
      /\ y \in Nat /\ x <= y /\ y <= Len(d) /\ y - x = Block
  BY HalfIsBlocks
<1>2. u \in Seq(T) /\ Len(u) = Len(m) + Len(d)
      /\ \A n \in 1..Len(m) + Len(d) : u[n] = IF n <= Len(m) THEN m[n] ELSE d[n - Len(m)]
  BY ConcatProperties
<1> HIDE DEF u, y
<1>5. w \in Seq(T) /\ Len(w) = y - x /\ \A n \in 1..(y - x) : w[n] = d[x + n]
  BY <1>1, PartPlaces
<1>6. v \in Seq(T) /\ Len(v) = Block /\ \A n \in 1..Block : v[n] = u[Len(m) + x + n]
  <2>1. Block * k = Len(m) + x + Block BY <1>1
  <2>2. Block * k <= Len(u) BY <1>1, <1>2, <2>1 DEF y
  <2>4. u \in Seq(T) /\ k \in Nat /\ k <= k BY <1>1, <1>2
  <2>3. v \in Seq(T) /\ Len(v) = Block /\ \A n \in 1..Block : v[n] = u[(k - 1) * Block + n]
    BY <2>2, <2>4, BlockIs
  <2> HIDE DEF v
  <2> QED BY <2>3
<1> HIDE DEF v, w
<1>7. ASSUME NEW n \in 1..Len(v) PROVE v[n] = w[n]
  <2>1. n \in 1..Block /\ Len(m) + x + n \in 1..Len(m) + Len(d) /\ ~(Len(m) + x + n <= Len(m))
        /\ (Len(m) + x + n) - Len(m) = x + n
    BY <1>1, <1>6
  <2>2. u[Len(m) + x + n] = d[x + n] BY <1>2, <2>1
  <2> QED BY <1>1, <1>5, <1>6, <2>1, <2>2
<1>8. v = w BY <1>1, <1>5, <1>6, <1>7, SeqEqual
<1> QED BY <1>5, <1>8 DEF v, w, u, y

\* The numbers of a message of n bytes, in blocks of b, to which l are added: there are
\* q blocks and j bytes over; i bytes complete a block, and h whole blocks follow.
Splits(b, n, l, q, j, i, h) ==
    /\ b \in Nat \ {0} /\ n \in Nat /\ l \in Nat /\ q \in Nat /\ j \in 0..(b - 1)
    /\ i \in 1..b /\ h \in Nat /\ i = b - j /\ i <= l
    /\ n = b * q + j /\ h = (l - i) \div b

\* After a block is completed there are that one and the whole ones more.
LEMMA CutCounts ==
    ASSUME NEW b, NEW n, NEW l, NEW q, NEW j, NEW i, NEW h, Splits(b, n, l, q, j, i, h)
    PROVE  /\ (n + l) \div b = q + 1 + h /\ (n + l) % b = (l - i) % b
           /\ b * (q + 1 + h) = n + i + h * b /\ i + h * b <= l
<1> DEFINE r == (l - i) % b
           x == l - i
           N == q + 1 + h
           a == b * q
           c == b * h
<1>1. /\ b \in Nat \ {0} /\ n \in Nat /\ l \in Nat /\ q \in Nat /\ j \in 0..(b - 1)
      /\ i \in 1..b /\ h \in Nat /\ i = b - j /\ i <= l /\ n = a + j /\ x \in Nat /\ x = l - i
      /\ r = x % b /\ h = x \div b
  BY DEF Splits
<1>2. x = b * (x \div b) + (x % b) /\ x % b \in 0..(b - 1)
  <2> HIDE DEF x
  <2> QED BY <1>1, Division
<1>3. x = c + r /\ r \in 0..(b - 1) BY <1>1, <1>2
<1>4. a \in Nat /\ c \in Nat /\ h * b = c /\ b * N = a + b + c /\ N \in Nat
  <2>1. b \in Nat /\ q \in Nat /\ h \in Nat BY <1>1
  <2> QED BY <2>1
<1> HIDE DEF x, r, a, c, N
<1>5. n + l = b * N + r /\ n + l \in Nat BY <1>1, <1>3, <1>4
<1>6. (n + l) \div b = N /\ (n + l) % b = r
  <2> DEFINE m == n + l
  <2>1. m = b * N + r /\ m \in Nat BY <1>5
  <2> HIDE DEF m
  <2>2. b \in Nat \ {0} /\ N \in Nat /\ r \in 0..(b - 1) BY <1>1, <1>3, <1>4
  <2>4. HasQuotient(b, m, N, r) BY <2>1, <2>2 DEF HasQuotient
  <2>3. m \div b = N /\ m % b = r BY <2>4, QuotientIs
  <2> QED BY <2>3 DEF m
<1>7. b * N = n + i + h * b /\ i + h * b <= l BY <1>1, <1>3, <1>4
<1> QED BY <1>6, <1>7 DEF N, r

\* Where the k-th whole one is.
LEMMA CutPlaces ==
    ASSUME NEW b, NEW n, NEW l, NEW q, NEW j, NEW i, NEW h, Splits(b, n, l, q, j, i, h),
           NEW k \in 1..h, NEW x, x = i + (k - 1) * b
    PROVE  /\ x \in Nat /\ (q + 1 + k - 1) * b = n + x /\ x + b <= l /\ i + k * b = x + b
           /\ q + 1 + k \in Nat \ {0}
<1> DEFINE a == b * q
           c == (k - 1) * b
           e == (h - k) * b
<1>1. /\ b \in Nat \ {0} /\ n \in Nat /\ l \in Nat /\ q \in Nat /\ j \in 0..(b - 1)
      /\ i \in 1..b /\ h \in Nat /\ i = b - j /\ n = a + j /\ x = i + c
  BY DEF Splits
<1>2. i + h * b <= l BY CutCounts
<1>3. k \in Nat \ {0} /\ k - 1 \in Nat /\ h - k \in Nat BY <1>1
<1>4. /\ a \in Nat /\ c \in Nat /\ e \in Nat /\ k * b = c + b /\ h * b = c + b + e
      /\ (q + 1 + k - 1) * b = a + b + c
  BY <1>1, <1>3
<1> HIDE DEF a, c, e
<1>5. x \in Nat /\ a + b + c = n + x BY <1>1, <1>4
<1>6. x + b <= l /\ i + k * b = x + b BY <1>1, <1>2, <1>4
<1> QED BY <1>1, <1>3, <1>4, <1>5, <1>6

\* What is added may fit the last block without completing it.
LEMMA BlocksSame ==
    ASSUME NEW T, NEW m \in Seq(T), NEW d \in Seq(T), (Len(m) % Block) + Len(d) < Block
    PROVE  /\ Blocks(m \o d) = Blocks(m)
           /\ (Len(m) + Len(d)) \div Block = Len(m) \div Block
           /\ (Len(m) + Len(d)) % Block = (Len(m) % Block) + Len(d)
<1> DEFINE q == Len(m) \div Block
           j == Len(m) % Block
           u == m \o d
           n == Len(m) + Len(d)
           r == j + Len(d)
<1>1. /\ q \in Nat /\ j \in 0..(Block - 1) /\ Block \in Nat \ {0} /\ Len(m) = Block * q + j
      /\ Len(d) \in Nat /\ Len(m) \in Nat /\ j + Len(d) < Block
  BY MessageParts
<1>2. u \in Seq(T) /\ Len(u) = n BY ConcatProperties
<1> HIDE DEF q, j
<1>3. r \in 0..(Block - 1) /\ n = Block * q + r /\ n \in Nat
  <2> DEFINE b == Block * q
  <2>1. b \in Nat /\ Len(m) = b + j BY <1>1
  <2> HIDE DEF b
  <2>2. Block \in Nat /\ j \in Nat /\ Len(d) \in Nat /\ j + Len(d) < Block BY <1>1
  <2>3. r \in 0..(Block - 1) BY <2>2
  <2>4. n = b + r /\ n \in Nat BY <2>1, <2>2
  <2> QED BY <2>3, <2>4 DEF b
<1> HIDE DEF n, r
<1>4. n \div Block = q /\ n % Block = r
  <2>1. Block \in Nat \ {0} /\ q \in Nat BY <1>1
  <2>2. HasQuotient(Block, n, q, r) BY <1>3, <2>1 DEF HasQuotient
  <2> QED BY <2>2, QuotientIs
<1>5. \A k \in 1..q : BlockOf(u, k) = BlockOf(m, k) BY BlockKept DEF q
<1>6. Blocks(u) = [k \in 1..q |-> BlockOf(u, k)] BY <1>2, <1>4 DEF Blocks
<1>7. Blocks(m) = [k \in 1..q |-> BlockOf(m, k)] BY DEF Blocks, q
<1>8. Blocks(u) = Blocks(m) BY <1>5, <1>6, <1>7
<1> QED BY <1>4, <1>8 DEF q, j, n, r

\* What is over of a message.
IsOver(f, m) ==
    /\ Len(f) = Len(m) % Block
    /\ \A n \in 1..(Len(m) % Block) : f[n] = m[Block * (Len(m) \div Block) + n]

\* The parts of a text d, of a block each, from place i on.
Wholes(d, i, h) == [k \in 1..h |-> SubSeq(d, i + (k - 1) * Block + 1, i + k * Block)]

\* The blocks b, then one more and the blocks w.
Extended(b, first, w) == Append(b, first) \o w

\* Or it completes a block, and has whole blocks after it.
LEMMA BlocksMore ==
    ASSUME NEW T, NEW m \in Seq(T), NEW d \in Seq(T), NEW f \in Seq(T), IsOver(f, m),
           NEW i, NEW h,
           Splits(Block, Len(m), Len(d), Len(m) \div Block, Len(m) % Block, i, h)
    PROVE  Blocks(m \o d) = Extended(Blocks(m), Filled(f, d, i), Wholes(d, i, h))
<1> DEFINE q == Len(m) \div Block
           j == Len(m) % Block
           u == m \o d
           first == f \o SubSeq(d, 1, i)
           part(k) == SubSeq(d, i + (k - 1) * Block + 1, i + k * Block)
           a == Block * q
           N == q + 1 + h
           rest == Wholes(d, i, h)
           l == Append(Blocks(m), first)
           all == l \o rest
<1>0. Splits(Block, Len(m), Len(d), q, j, i, h) OBVIOUS
<1>1. /\ q \in Nat /\ j \in 0..(Block - 1) /\ Block \in Nat \ {0} /\ Len(m) = a + j
      /\ Len(d) \in Nat /\ Len(m) \in Nat /\ a \in Nat
  BY MessageParts
<1>2. u \in Seq(T) /\ Len(u) = Len(m) + Len(d) BY ConcatProperties
<1>6. Len(f) = j /\ \A n \in 1..j : f[n] = m[a + n] BY DEF IsOver
<1>5. a = Block * q OBVIOUS
<1>7. rest = [k \in 1..h |-> part(k)] BY DEF Wholes
<1> HIDE DEF q, j, u, a, rest
<1>3. i \in 1..Block /\ i = Block - j /\ i <= Len(d) /\ h \in Nat BY <1>0 DEF Splits
<1>9. (Len(m) + Len(d)) \div Block = N BY <1>0, CutCounts
<1>10. N \in Nat /\ q + 1 \in Nat \ {0} /\ q + 1 <= N /\ N = q + 1 + h BY <1>1, <1>3
<1> HIDE DEF N
<1>11. Blocks(u) \in Seq(Seq(T)) /\ Len(Blocks(u)) = N
       /\ \A k \in 1..N : Blocks(u)[k] = BlockOf(u, k)
  BY <1>2, <1>9, BlocksAre
<1>12. Blocks(m) \in Seq(Seq(T)) /\ Len(Blocks(m)) = q
       /\ \A k \in 1..q : Blocks(m)[k] = BlockOf(m, k)
  BY BlocksAre DEF q
<1>13. BlockOf(u, q + 1) = first
  <2>1. ((q + 1) - 1) * Block = a BY <1>1, <1>5
  <2>3. j + Len(d) >= Block /\ Block - j = i BY <1>1, <1>3
  <2> DEFINE K == q + 1
  <2>4. K \in Nat \ {0} /\ (K - 1) * Block = a BY <1>10, <2>1
  <2> HIDE DEF K
  <2>6. Completes(T, m, d, f, K, a, j) BY <1>1, <1>6, <2>3, <2>4 DEF Completes
  <2> HIDE DEF first, l, all, part
  <2>5. BlockOf(m \o d, K) = Filled(f, d, Block - j) BY <2>6, BlockCompleted
  <2>2. BlockOf(u, q + 1) = Filled(f, d, i) BY <2>3, <2>5 DEF K, u
  <2> QED BY <2>2 DEF first, Filled
<1>14. ASSUME NEW k \in 1..h PROVE BlockOf(u, q + 1 + k) = part(k) /\ part(k) \in Seq(T)
  <2> DEFINE x == i + (k - 1) * Block
  <2>1. x = i + (k - 1) * Block OBVIOUS
  <2>5. part(k) = SubSeq(d, x + 1, i + k * Block) OBVIOUS
  <2> HIDE DEF x, part
  <2>2. /\ x \in Nat /\ (q + 1 + k - 1) * Block = Len(m) + x /\ x + Block <= Len(d)
        /\ i + k * Block = x + Block /\ q + 1 + k \in Nat \ {0}
    BY <1>0, <2>1, CutPlaces
  <2> DEFINE K == q + 1 + k
  <2>7. K - 1 = q + 1 + k - 1 /\ K \in Nat \ {0}
    <3>1. k \in Nat BY <1>3
    <3> QED BY <1>1, <2>2, <3>1
  <2>8. (K - 1) * Block = (q + 1 + k - 1) * Block BY <2>7
  <2> HIDE DEF K
  <2>3. K \in Nat \ {0} /\ (K - 1) * Block = Len(m) + x BY <2>2, <2>7, <2>8, Zenon
  <2>6. BlockOf(m \o d, K) = SubSeq(d, x + 1, x + Block)
        /\ SubSeq(d, x + 1, x + Block) \in Seq(T)
    BY <2>2, <2>3, BlockAdded
  <2> QED BY <2>2, <2>5, <2>6 DEF u, K
<1> HIDE DEF first, part
<1>15. first \in Seq(T)
  <2>1. N \in Nat /\ Block * N <= Len(u)
    <3>1. /\ Block * (q + 1 + h) = Len(m) + i + h * Block /\ i + h * Block <= Len(d)
      BY <1>0, CutCounts
    <3>2. h * Block \in Nat /\ i \in Nat BY <1>1, <1>3
    <3> DEFINE x == Block * (q + 1 + h)
               y == h * Block
    <3>3. x = Len(m) + i + y /\ i + y <= Len(d) /\ y \in Nat BY <3>1, <3>2
    <3> HIDE DEF x, y
    <3>4. x <= Len(u) BY <1>1, <1>2, <3>2, <3>3
    <3> QED BY <1>10, <3>4 DEF x
  <2>3. BlockOf(u, q + 1) \in Seq(T) BY <1>2, <1>10, <2>1, BlockIs
  <2> QED BY <1>13, <2>3
<1>16. /\ l \in Seq(Seq(T)) /\ Len(l) = q + 1
       /\ \A k \in 1..q : l[k] = BlockOf(m, k)
       /\ l[q + 1] = first
  <2>3. q + 1 = Len(Blocks(m)) + 1 BY <1>12
  <2>1. /\ Append(Blocks(m), first) \in Seq(Seq(T)) /\ Len(Append(Blocks(m), first)) = q + 1
        /\ \A k \in 1..q : Append(Blocks(m), first)[k] = Blocks(m)[k]
        /\ Append(Blocks(m), first)[q + 1] = first
    BY <1>12, <1>15, <2>3, AppendProperties
  <2> HIDE DEF l
  <2>2. l = Append(Blocks(m), first) BY DEF l
  <2> QED BY <1>12, <2>1, <2>2
<1>17. rest \in Seq(Seq(T)) /\ Len(rest) = h /\ \A k \in 1..h : rest[k] = part(k)
  BY <1>3, <1>7, <1>14
<1> HIDE DEF l
<1>18. all \in Seq(Seq(T)) /\ Len(all) = N
       /\ \A k \in 1..N : all[k] = IF k <= q + 1 THEN l[k] ELSE rest[k - (q + 1)]
  <2>w. all = l \o rest OBVIOUS
  <2> HIDE DEF all
  <2>0. l \in Seq(Seq(T)) /\ rest \in Seq(Seq(T)) /\ Len(l) + Len(rest) = N
    BY <1>10, <1>16, <1>17
  <2>1. all \in Seq(Seq(T)) BY <2>0, <2>w, ConcatProperties
  <2>2. Len(all) = N BY <2>0, <2>w, ConcatProperties
  <2>3. ASSUME NEW k \in 1..N PROVE all[k] = IF k <= q + 1 THEN l[k] ELSE rest[k - (q + 1)]
    <3>1. k \in 1..Len(l) + Len(rest) BY <2>0
    <3>2. (l \o rest)[k] = IF k <= Len(l) THEN l[k] ELSE rest[k - Len(l)]
      BY <2>0, <3>1, ConcatProperties
    <3> QED BY <1>16, <2>w, <3>2
  <2> QED BY <2>1, <2>2, <2>3
<1> HIDE DEF all
<1>19. ASSUME NEW k \in 1..Len(Blocks(u)) PROVE Blocks(u)[k] = all[k]
  <2>1. k \in 1..N BY <1>11
  <2>2. CASE k <= q
    <3>1. k \in 1..q /\ k <= q + 1 BY <1>1, <2>1, <2>2
    <3>2. BlockOf(u, k) = BlockOf(m, k) BY <3>1, BlockKept DEF q, u
    <3> QED BY <1>11, <1>16, <1>18, <2>1, <3>1, <3>2
  <2>3. CASE k = q + 1
    <3>1. k <= q + 1 BY <1>1, <2>3
    <3>2. all[k] = l[k] BY <1>18, <2>1, <3>1
    <3>6. l[q + 1] = first BY <1>16
    <3>3. all[k] = first BY <2>3, <3>2, <3>6
    <3>4. Blocks(u)[k] = BlockOf(u, k) BY <1>11, <2>1
    <3>5. BlockOf(u, k) = first BY <1>13, <2>3
    <3> QED BY <3>3, <3>4, <3>5
  <2>4. CASE ~(k <= q) /\ k # q + 1
    <3>1. ~(k <= q + 1) /\ k - (q + 1) \in 1..h /\ q + 1 + (k - (q + 1)) = k
      BY <1>1, <1>3, <1>10, <2>1, <2>4
    <3>2. all[k] = part(k - (q + 1)) BY <1>17, <1>18, <2>1, <3>1
    <3>3. BlockOf(u, k) = part(k - (q + 1)) BY <1>14, <3>1
    <3> QED BY <1>11, <2>1, <3>2, <3>3
  <2> QED BY <2>2, <2>3, <2>4
<1>20. Blocks(u) = all BY <1>11, <1>18, <1>19, SeqEqual
<1> QED BY <1>20 DEF u, all, l, rest, first, Extended, Filled

\* What the state of the hash says of the message m so far.
Hashes(T, x, m) ==
    /\ m \in Seq(T) /\ x.buffer \in Seq(T) /\ Len(x.buffer) = Block
    /\ x.lo = (8 * Len(m)) % Half /\ x.hi = ((8 * Len(m)) \div Half) % Half
    /\ x.blocks = Blocks(m)
    /\ \A n \in 1..(Len(m) % Block) : x.buffer[n] = m[Block * (Len(m) \div Block) + n]

\* What of a text d follows the blocks it completes, when x had j bytes over.
RestOf(d, j) ==
    LET i == Block - j IN Drop(d, i + ((Len(d) - i) \div Block) * Block)

\* The buffer after an update.
Buffer(b, first, start, rest, full) ==
    [k \in 1..Block |-> CASE k - start \in DOMAIN rest -> rest[k - start]
                          [] OTHER -> IF full THEN first[k] ELSE b[k]]

\* An update that completes no block.
LEMMA UpdateShort ==
    ASSUME NEW x, NEW d, NEW j, j = (x.lo \div 8) % Block, ~(j + Len(d) >= Block)
    PROVE  sha1_update(x, d) =
               [hi |-> (x.hi + Carry(x.lo, (8 * Len(d)) % Half) + (8 * Len(d)) \div Half) % Half,
                lo |-> (x.lo + ((8 * Len(d)) % Half)) % Half,
                buffer |-> Buffer(x.buffer, Take(x.buffer, j) \o Take(d, 0), j,
                                  Drop(d, 0 + 0 * Block), FALSE),
                blocks |-> x.blocks]
BY DEF sha1_update, Buffer

\* An update that completes one.
LEMMA UpdateLong ==
    ASSUME NEW x, NEW d, NEW j, j = (x.lo \div 8) % Block, j + Len(d) >= Block,
           NEW i, i = Block - j
    PROVE  sha1_update(x, d) =
               [hi |-> (x.hi + Carry(x.lo, (8 * Len(d)) % Half) + (8 * Len(d)) \div Half) % Half,
                lo |-> (x.lo + ((8 * Len(d)) % Half)) % Half,
                buffer |-> Buffer(x.buffer, Take(x.buffer, j) \o Take(d, i), 0,
                                  RestOf(d, j), TRUE),
                blocks |-> Append(x.blocks, Take(x.buffer, j) \o Take(d, i))
                               \o Wholes(d, i, (Len(d) - i) \div Block)]
BY DEF sha1_update, Buffer, RestOf, Wholes

\* A function on the first numbers is a sequence.
LEMMA FunctionIsSeq ==
    ASSUME NEW T, NEW n \in Nat, NEW s \in [1..n -> T]
    PROVE  s \in Seq(T) /\ Len(s) = n
<1>1. s = [i \in 1..n |-> s[i]] OBVIOUS
<1>2. [i \in 1..n |-> s[i]] \in Seq(T) /\ Len([i \in 1..n |-> s[i]]) = n OBVIOUS
<1> QED BY <1>1, <1>2

\* Without its first 0 bytes a text is the same.
LEMMA NothingDropped ==
    ASSUME NEW T, NEW d \in Seq(T)
    PROVE  Drop(d, 0 + 0 * Block) = d
<1>1. 0 + 0 * Block + 1 = 1 BY HalfIsBlocks
<1>2. SubSeq(d, 1, Len(d)) = d OBVIOUS
<1> QED BY <1>1, <1>2 DEF Drop

\* A buffer that has the first j bytes of another, and d after them.
Continues(T, B, b, j, d) ==
    /\ B \in Seq(T) /\ Len(B) = Block
    /\ \A n \in 1..j : B[n] = b[n]
    /\ \A n \in 1..Len(d) : B[j + n] = d[n]

\* The buffer after an update that completes no block.
LEMMA BufferShort ==
    ASSUME NEW T, NEW b \in Seq(T), Len(b) = Block, NEW d \in Seq(T), NEW first,
           NEW j \in Nat, j + Len(d) < Block,
           NEW B, B = Buffer(b, first, j, d, FALSE)
    PROVE  Continues(T, B, b, j, d)
<1>1. Block \in Nat \ {0} /\ Len(d) \in Nat BY HalfIsBlocks
<1>3. B = [k \in 1..Block |-> IF k - j \in DOMAIN d THEN d[k - j] ELSE b[k]]
  BY DEF Buffer
<1>4. DOMAIN d = 1..Len(d) /\ DOMAIN b = 1..Block
      /\ (\A n \in 1..Len(d) : d[n] \in T) /\ (\A n \in 1..Block : b[n] \in T)
  OBVIOUS
<1>5. ASSUME NEW k \in 1..Block
      PROVE  (IF k - j \in DOMAIN d THEN d[k - j] ELSE b[k]) \in T
  BY <1>4
<1>6. B \in Seq(T) /\ Len(B) = Block
  <2>1. B \in [1..Block -> T] BY <1>3, <1>5
  <2> QED BY <1>1, <2>1, FunctionIsSeq
<1>7. ASSUME NEW n \in 1..j PROVE B[n] = b[n]
  <2>1. n \in 1..Block /\ n - j \notin 1..Len(d) BY <1>1
  <2> QED BY <1>3, <1>4, <2>1
<1>8. ASSUME NEW n \in 1..Len(d) PROVE B[j + n] = d[n]
  <2>1. j + n \in 1..Block /\ (j + n) - j = n BY <1>1
  <2> QED BY <1>3, <1>4, <2>1
<1> QED BY <1>6, <1>7, <1>8 DEF Continues

\* The buffer after an update that completes one.
LEMMA BufferLong ==
    ASSUME NEW T, NEW b \in Seq(T), Len(b) = Block, NEW first \in Seq(T), Len(first) = Block,
           NEW r \in Seq(T), Len(r) < Block, NEW B, B = Buffer(b, first, 0, r, TRUE)
    PROVE  Continues(T, B, first, 0, r)
<1>1. Block \in Nat \ {0} /\ Len(r) \in Nat BY HalfIsBlocks
<1>4. DOMAIN r = 1..Len(r)
      /\ (\A n \in 1..Len(r) : r[n] \in T) /\ (\A n \in 1..Block : first[n] \in T)
  OBVIOUS
<1>3. B = [k \in 1..Block |-> IF k - 0 \in DOMAIN r THEN r[k - 0] ELSE first[k]]
  BY DEF Buffer
<1>5. ASSUME NEW k \in 1..Block
      PROVE  (IF k - 0 \in DOMAIN r THEN r[k - 0] ELSE first[k]) \in T
  BY <1>4
<1>6. B \in Seq(T) /\ Len(B) = Block
  <2>1. B \in [1..Block -> T] BY <1>3, <1>5
  <2> QED BY <1>1, <2>1, FunctionIsSeq
<1>8. ASSUME NEW n \in 1..Len(r) PROVE B[n] = r[n]
  <2>1. n \in 1..Block /\ n - 0 = n BY <1>1
  <2> QED BY <1>3, <1>4, <2>1
<1>9. ASSUME NEW n \in 1..Len(r) PROVE B[0 + n] = r[n]
  <2>1. 0 + n = n BY <1>1
  <2> QED BY <1>8, <2>1
<1>10. \A n \in 1..0 : B[n] = first[n] OBVIOUS
<1> QED BY <1>6, <1>9, <1>10 DEF Continues

\* What is left over, j bytes of a message and l more not filling a block: the bytes of
\* the message and those added are where the count says.
LEMMA HashesShort ==
    ASSUME NEW T, NEW x, NEW m, Hashes(T, x, m), NEW d \in Seq(T),
           NEW j, j = Len(m) % Block, ~(j + Len(d) >= Block)
    PROVE  Hashes(T, sha1_update(x, d), m \o d)
<1> DEFINE u == m \o d
           q == Len(m) \div Block
           a == Block * q
           y == sha1_update(x, d)
<1>1. /\ m \in Seq(T) /\ x.buffer \in Seq(T) /\ Len(x.buffer) = Block
      /\ x.lo = (8 * Len(m)) % Half /\ x.hi = ((8 * Len(m)) \div Half) % Half
      /\ x.blocks = Blocks(m)
      /\ \A n \in 1..j : x.buffer[n] = m[a + n]
  BY DEF Hashes
<1>2. /\ Len(m) \in Nat /\ Len(d) \in Nat /\ Block \in Nat \ {0} /\ q \in Nat /\ a \in Nat
      /\ j \in 0..(Block - 1) /\ Len(m) = a + j
  BY <1>1, MessageParts
<1>3. j = (x.lo \div 8) % Block BY <1>1, <1>2, CountInBlock
<1>4. y = [hi |-> (x.hi + Carry(x.lo, (8 * Len(d)) % Half) + (8 * Len(d)) \div Half) % Half,
           lo |-> (x.lo + ((8 * Len(d)) % Half)) % Half,
           buffer |-> Buffer(x.buffer, Take(x.buffer, j) \o Take(d, 0), j,
                             Drop(d, 0 + 0 * Block), FALSE),
           blocks |-> x.blocks]
  BY <1>3, UpdateShort
<1>5. u \in Seq(T) /\ Len(u) = Len(m) + Len(d)
      /\ \A n \in 1..Len(m) + Len(d) : u[n] = IF n <= Len(m) THEN m[n] ELSE d[n - Len(m)]
  BY <1>1, ConcatProperties
<1> HIDE DEF y, u, q
<1>6. y.lo = (8 * Len(u)) % Half /\ y.hi = ((8 * Len(u)) \div Half) % Half
  <2>4. y.lo = (((8 * Len(m)) % Half) + ((8 * Len(d)) % Half)) % Half BY <1>1, <1>4
  <2>1. y.lo = (8 * (Len(m) + Len(d))) % Half BY <1>2, <2>4, CountAdds
  <2>2. y.hi = ((((8 * Len(m)) \div Half) % Half)
                  + Carry((8 * Len(m)) % Half, (8 * Len(d)) % Half)
                  + ((8 * Len(d)) \div Half)) % Half
    BY <1>1, <1>4
  <2>3. y.hi = ((8 * (Len(m) + Len(d))) \div Half) % Half BY <1>2, <2>2, CountAdds
  <2> QED BY <1>5, <2>1, <2>3
<1>7. (Len(m) % Block) + Len(d) < Block BY <1>2
<1>8. /\ Blocks(m \o d) = Blocks(m)
      /\ (Len(m) + Len(d)) \div Block = Len(m) \div Block
      /\ (Len(m) + Len(d)) % Block = (Len(m) % Block) + Len(d)
  BY <1>1, <1>7, BlocksSame
<1>9. y.blocks = Blocks(u) /\ Len(u) \div Block = q /\ Len(u) % Block = j + Len(d)
  BY <1>1, <1>4, <1>5, <1>8 DEF u, q
<1> DEFINE B == y.buffer
<1>11. B = Buffer(x.buffer, Take(x.buffer, j) \o Take(d, 0), j, d, FALSE)
  BY <1>4, NothingDropped
<1> HIDE DEF a, B
<1>12. /\ B \in Seq(T) /\ Len(B) = Block
       /\ \A n \in 1..j : B[n] = x.buffer[n]
       /\ \A n \in 1..Len(d) : B[j + n] = d[n]
  <2>1. j \in Nat /\ j + Len(d) < Block BY <1>2
  <2> DEFINE b == x.buffer
             first == Take(x.buffer, j) \o Take(d, 0)
  <2>2. b \in Seq(T) /\ Len(b) = Block BY <1>1
  <2>3. B = Buffer(b, first, j, d, FALSE) BY <1>11
  <2> HIDE DEF b, first
  <2>4. Continues(T, B, b, j, d) BY <2>1, <2>2, <2>3, BufferShort
  <2> QED BY <2>4 DEF b, Continues
<1>13. ASSUME NEW n \in 1..(j + Len(d)) PROVE B[n] = u[a + n]
  <2>1. CASE n <= j
    <3>1. n \in 1..j /\ a + n \in 1..Len(m) + Len(d) /\ a + n <= Len(m) BY <1>2, <2>1
    <3> QED BY <1>1, <1>5, <1>12, <3>1
  <2>2. CASE ~(n <= j)
    <3>1. /\ n - j \in 1..Len(d) /\ j + (n - j) = n /\ a + n \in 1..Len(m) + Len(d)
          /\ ~(a + n <= Len(m)) /\ (a + n) - Len(m) = n - j
      BY <1>2, <2>2
    <3>2. B[n] = d[n - j] BY <1>12, <3>1
    <3>3. u[a + n] = d[n - j] BY <1>5, <3>1
    <3> QED BY <3>2, <3>3
  <2> QED BY <2>1, <2>2
<1> QED BY <1>5, <1>6, <1>9, <1>12, <1>13 DEF Hashes, a, B, y, u

\* The same when a block is completed.
LEMMA HashesLong ==
    ASSUME NEW T, NEW x, NEW m, Hashes(T, x, m), NEW d \in Seq(T),
           NEW j, j = Len(m) % Block, j + Len(d) >= Block
    PROVE  Hashes(T, sha1_update(x, d), m \o d)
<1> DEFINE u == m \o d
           q == Len(m) \div Block
           a == Block * q
           y == sha1_update(x, d)
           i == Block - j
           h == (Len(d) - i) \div Block
           f == Take(x.buffer, j)
           first == f \o Take(d, i)
           r == RestOf(d, j)
           c == i + h * Block
           b == x.buffer
           N == q + 1 + h
<1>1. /\ m \in Seq(T) /\ b \in Seq(T) /\ Len(b) = Block
      /\ x.lo = (8 * Len(m)) % Half /\ x.hi = ((8 * Len(m)) \div Half) % Half
      /\ x.blocks = Blocks(m)
      /\ \A n \in 1..j : b[n] = m[a + n]
  BY DEF Hashes
<1>2. /\ Len(m) \in Nat /\ Len(d) \in Nat /\ Block \in Nat \ {0} /\ q \in Nat /\ a \in Nat
      /\ j \in 0..(Block - 1) /\ Len(m) = a + j
  BY <1>1, MessageParts
<1>3. j = (x.lo \div 8) % Block BY <1>1, <1>2, CountInBlock
<1>4. y = [hi |-> (x.hi + Carry(x.lo, (8 * Len(d)) % Half) + (8 * Len(d)) \div Half) % Half,
           lo |-> (x.lo + ((8 * Len(d)) % Half)) % Half,
           buffer |-> Buffer(b, first, 0, r, TRUE),
           blocks |-> Append(x.blocks, first) \o Wholes(d, i, h)]
  BY <1>3, UpdateLong
<1>5. u \in Seq(T) /\ Len(u) = Len(m) + Len(d)
      /\ \A n \in 1..Len(m) + Len(d) : u[n] = IF n <= Len(m) THEN m[n] ELSE d[n - Len(m)]
  BY <1>1, ConcatProperties
<1>6. y.lo = (8 * Len(u)) % Half /\ y.hi = ((8 * Len(u)) \div Half) % Half
  <2> HIDE DEF y, u, first, r, h
  <2>4. y.lo = (((8 * Len(m)) % Half) + ((8 * Len(d)) % Half)) % Half BY <1>1, <1>4
  <2>1. y.lo = (8 * (Len(m) + Len(d))) % Half BY <1>2, <2>4, CountAdds
  <2>2. y.hi = ((((8 * Len(m)) \div Half) % Half)
                  + Carry((8 * Len(m)) % Half, (8 * Len(d)) % Half)
                  + ((8 * Len(d)) \div Half)) % Half
    BY <1>1, <1>4
  <2>3. y.hi = ((8 * (Len(m) + Len(d))) \div Half) % Half BY <1>2, <2>2, CountAdds
  <2> QED BY <1>5, <2>1, <2>3
<1>7. Splits(Block, Len(m), Len(d), q, j, i, h)
  <2> HIDE DEF q
  <2>1. i \in 1..Block /\ i <= Len(d) /\ Len(d) - i \in Nat BY <1>2
  <2>2. h \in Nat BY <1>2, <2>1, Division
  <2> QED BY <1>2, <2>1, <2>2 DEF Splits
<1>8. /\ (Len(m) + Len(d)) \div Block = N
      /\ (Len(m) + Len(d)) % Block = (Len(d) - i) % Block
      /\ Block * N = Len(m) + i + h * Block /\ c <= Len(d)
  BY <1>7, CutCounts
<1>9. i \in 1..Block /\ h \in Nat /\ i <= Len(d) BY <1>7 DEF Splits
<1>10. c \in Nat
  <2>1. Block \in Nat /\ h \in Nat /\ i \in Nat BY <1>2, <1>9
  <2> HIDE DEF h, i
  <2> QED BY <2>1
<1>11. f \in Seq(T) /\ Len(f) = j /\ \A n \in 1..j : f[n] = b[n]
  <2> HIDE DEF b
  <2>1. 0 <= j /\ j <= Len(b) /\ j \in Nat /\ 0 + 1 = 1 /\ j - 0 = j BY <1>1, <1>2
  <2>5. b \in Seq(T) BY <1>1
  <2>2. SubSeq(b, 0 + 1, j) \in Seq(T) /\ Len(SubSeq(b, 0 + 1, j)) = j - 0
        /\ \A n \in 1..(j - 0) : SubSeq(b, 0 + 1, j)[n] = b[0 + n]
    BY <2>1, <2>5, PartPlaces
  <2>3. \A n \in 1..j : 0 + n = n BY <2>1
  <2>4. f = SubSeq(b, 1, j) BY DEF Take, b
  <2> HIDE DEF f
  <2> QED BY <2>1, <2>2, <2>3, <2>4
<1>12. Take(d, i) \in Seq(T) /\ Len(Take(d, i)) = i
  <2> HIDE DEF i
  <2>1. 0 <= i /\ i <= Len(d) /\ i \in Nat /\ 0 + 1 = 1 /\ i - 0 = i BY <1>2, <1>9
  <2>2. SubSeq(d, 0 + 1, i) \in Seq(T) /\ Len(SubSeq(d, 0 + 1, i)) = i - 0
    BY <2>1, PartPlaces
  <2> QED BY <2>1, <2>2 DEF Take
<1>13. first \in Seq(T) /\ Len(first) = Block
  <2> HIDE DEF f, i
  <2>1. first \in Seq(T) /\ Len(first) = Len(f) + Len(Take(d, i)) BY <1>11, <1>12, ConcatProperties
  <2>2. j + i = Block BY <1>2 DEF i
  <2> QED BY <1>11, <1>12, <2>1, <2>2
<1>14. r \in Seq(T) /\ Len(r) = Len(d) - c /\ \A n \in 1..(Len(d) - c) : r[n] = d[c + n]
  <2>1. r = SubSeq(d, c + 1, Len(d)) BY DEF RestOf, Drop
  <2> HIDE DEF c, r
  <2>2. c \in Nat /\ c <= Len(d) /\ Len(d) \in Nat /\ Len(d) <= Len(d) BY <1>2, <1>8, <1>10
  <2>3. /\ SubSeq(d, c + 1, Len(d)) \in Seq(T) /\ Len(SubSeq(d, c + 1, Len(d))) = Len(d) - c
        /\ \A n \in 1..(Len(d) - c) : SubSeq(d, c + 1, Len(d))[n] = d[c + n]
    BY <2>2, PartPlaces
  <2> QED BY <2>1, <2>3
<1>15. Len(d) - c = (Len(m) + Len(d)) % Block
  <2> DEFINE l == Len(d) - i
             p == l % Block
  <2>1. l \in Nat BY <1>2, <1>9
  <2> HIDE DEF l
  <2>11. Block \in Nat \ {0} BY <1>2
  <2>12. /\ l \div Block \in Nat /\ l % Block \in 0..(Block - 1)
         /\ l = Block * (l \div Block) + (l % Block)
    BY <2>1, <2>11, Division
  <2>2. l = Block * (l \div Block) + (l % Block) /\ l % Block \in Nat BY <2>11, <2>12
  <2>3. h = l \div Block BY DEF l
  <2> HIDE DEF h, i
  <2>4. l = Block * h + p BY <2>2, <2>3
  <2>5. l = h * Block + p /\ h * Block \in Nat BY <1>2, <1>9, <2>4
  <2>6. p = (Len(m) + Len(d)) % Block BY <1>8 DEF l
  <2>7. p \in Nat BY <2>2
  <2> HIDE DEF p
  <2>8. Len(d) - i = h * Block + p BY <2>5 DEF l
  <2> DEFINE k == h * Block
  <2>9. k \in Nat /\ Len(d) - i = k + p BY <2>5, <2>8
  <2> HIDE DEF k
  <2>10. Len(d) - (i + k) = p BY <1>2, <1>9, <2>7, <2>9
  <2> QED BY <2>6, <2>10 DEF k
<1>16. Len(d) - c \in 0..(Block - 1)
  <2> DEFINE n == Len(m) + Len(d)
  <2>1. n \in Nat BY <1>2
  <2> HIDE DEF n
  <2>2. n % Block \in 0..(Block - 1) BY <1>2, <2>1, Division
  <2> QED BY <1>15, <2>2 DEF n
<1> DEFINE B == y.buffer
<1>17. B = Buffer(b, first, 0, r, TRUE) BY <1>4
<1>18. y.blocks = Append(Blocks(m), first) \o Wholes(d, i, h)
  <2> HIDE DEF y, first, h, i, r
  <2>1. y.blocks = Append(x.blocks, first) \o Wholes(d, i, h) BY <1>4
  <2>2. x.blocks = Blocks(m) BY <1>1
  <2> QED BY <2>1, <2>2
<1>19. first = f \o SubSeq(d, 1, i) BY DEF Take
<1>20. IsOver(f, m) BY <1>1, <1>11 DEF IsOver
<1> HIDE DEF y, u, f, first, r, c, b, B, N
<1>21. Continues(T, B, first, 0, r)
  <2>1. Len(r) < Block BY <1>2, <1>14, <1>16
  <2> QED BY <1>1, <1>13, <1>14, <1>17, <2>1, BufferLong
<1>22. y.blocks = Blocks(u)
  <2> HIDE DEF i, h
  <2>1. Splits(Block, Len(m), Len(d), Len(m) \div Block, Len(m) % Block, i, h) BY <1>7
  <2>2. Blocks(m \o d) = Extended(Blocks(m), Filled(f, d, i), Wholes(d, i, h))
    BY <1>1, <1>11, <1>20, <2>1, BlocksMore
  <2> QED BY <1>18, <1>19, <2>2 DEF u, Extended, Filled
<1>23. Len(u) \div Block = N /\ Len(u) % Block = Len(d) - c BY <1>5, <1>8, <1>15
<1>24. ASSUME NEW n \in 1..(Len(d) - c) PROVE B[n] = u[Block * N + n]
  <2>1. Block * N = Len(m) + c
    <3> DEFINE k == h * Block
    <3>3. k \in Nat BY <1>2, <1>9
    <3>4. Block * N = Len(m) + i + k BY <1>8
    <3>1. Block * N = Len(m) + i + k /\ k \in Nat BY <3>3, <3>4
    <3>2. c = i + k BY DEF c
    <3> HIDE DEF k
    <3> QED BY <1>2, <1>9, <3>1, <3>2
  <2> DEFINE k == Block * N
  <2>6. k = Len(m) + c /\ Len(m) \in Nat /\ Len(d) \in Nat BY <1>2, <2>1
  <2> HIDE DEF k
  <2>7. k + n \in 1..Len(m) + Len(d) /\ ~(k + n <= Len(m)) /\ (k + n) - Len(m) = c + n
    BY <1>10, <2>6
  <2>2. /\ Block * N + n \in 1..Len(m) + Len(d) /\ ~(Block * N + n <= Len(m))
        /\ (Block * N + n) - Len(m) = c + n
    BY <2>7 DEF k
  <2>3. u[Block * N + n] = d[c + n] BY <1>5, <2>2
  <2>4. n \in 1..Len(r) /\ 0 + n = n BY <1>14
  <2>5. B[0 + n] = r[n] BY <1>21, <2>4 DEF Continues
  <2> QED BY <1>14, <2>3, <2>4, <2>5
<1>25. B \in Seq(T) /\ Len(B) = Block BY <1>21 DEF Continues
<1> QED BY <1>5, <1>6, <1>22, <1>23, <1>24, <1>25 DEF Hashes, B, y, u

\* An update adds to the message, however the message is cut.
LEMMA HashesMore ==
    ASSUME NEW T, NEW x, NEW m, Hashes(T, x, m), NEW d, d \in Seq(T)
    PROVE  Hashes(T, sha1_update(x, d), m \o d)
<1> DEFINE j == Len(m) % Block
<1>1. CASE j + Len(d) >= Block BY <1>1, HashesLong
<1>2. CASE ~(j + Len(d) >= Block) BY <1>2, HashesShort
<1> QED BY <1>1, <1>2

\* The hash begins with no message.
LEMMA HashesInit ==
    ASSUME NEW T, 0 \in T
    PROVE  Hashes(T, Sha1Init, <<>>)
<1> DEFINE b == [i \in 1..Block |-> 0]
           e == <<>>
<1>1. Block \in Nat \ {0} /\ Half \in Nat \ {0} BY HalfIsBlocks
<1>2. e \in Seq(T) /\ Len(e) = 0 OBVIOUS
<1>3. b \in Seq(T) /\ Len(b) = Block
  <2>1. b \in [1..Block -> T] OBVIOUS
  <2> HIDE DEF b
  <2> QED BY <1>1, <2>1, FunctionIsSeq
<1>4. 0 \div Half = 0 /\ 0 % Half = 0 /\ 0 \div Block = 0 /\ 0 % Block = 0
  <2>1. \A n \in Nat \ {0} : 0 = n * 0 + 0 /\ 0 \in 0..(n - 1) /\ 0 \in Nat OBVIOUS
  <2>2. \A n \in Nat \ {0} : 0 \div n = 0 /\ 0 % n = 0 BY <2>1, OneQuotient
  <2> QED BY <1>1, <2>2
<1>5. Blocks(e) = <<>>
  <2>1. Blocks(e) = [k \in 1..0 |-> BlockOf(e, k)] BY <1>2, <1>4 DEF Blocks
  <2> QED BY <2>1
<1>6. Sha1Init = [hi |-> 0, lo |-> 0, buffer |-> b, blocks |-> <<>>] BY DEF Sha1Init
<1>7. 8 * Len(e) = 0 BY <1>2
<1> HIDE DEF b, e
<1>8. Hashes(T, Sha1Init, e) BY <1>2, <1>3, <1>4, <1>5, <1>6, <1>7 DEF Hashes
<1> QED BY <1>8 DEF e

\* The place in the block, k bytes on.
LEMMA PlaceAfter ==
    ASSUME NEW n \in Nat, NEW k \in 0..(Block - 1)
    PROVE  /\ n % Block \in 0..(Block - 1)
           /\ (n + k) % Block = IF (n % Block) + k < Block THEN (n % Block) + k
                                ELSE (n % Block) + k - Block
<1> DEFINE q == n \div Block
           r == n % Block
           a == Block * q
           m == n + k
           p == r + k
<1>1. /\ Block \in Nat \ {0} /\ q \in Nat /\ r \in 0..(Block - 1) /\ n = a + r /\ a \in Nat
  BY HalfIsBlocks, Division
<1> HIDE DEF q, r
<1>2. Block * (q + 1) = a + Block /\ q + 1 \in Nat BY <1>1
<1>3. a = Block * q OBVIOUS
<1> HIDE DEF a
<1>4. m \in Nat /\ m = a + p /\ k \in Nat BY <1>1
<1> HIDE DEF m
<1>5. CASE p < Block
  <2>1. p \in 0..(Block - 1) /\ m = Block * q + p BY <1>1, <1>3, <1>4, <1>5
  <2> HIDE DEF p
  <2>3. Block \in Nat \ {0} /\ q \in Nat /\ m \in Nat BY <1>1, <1>4
  <2>2. m \div Block = q /\ m % Block = p BY <2>1, <2>3, OneQuotient
  <2> QED BY <1>1, <1>5, <2>2 DEF m, p, r
<1>6. CASE ~(p < Block)
  <2> DEFINE t == p - Block
  <2>1. t \in 0..(Block - 1) /\ m = a + Block + t BY <1>1, <1>4, <1>6
  <2>2. m = Block * (q + 1) + t BY <1>2, <2>1
  <2> HIDE DEF t
  <2>4. Block \in Nat \ {0} /\ q + 1 \in Nat /\ m \in Nat /\ t \in 0..(Block - 1)
    BY <1>1, <1>2, <1>4, <2>1
  <2>3. m \div Block = q + 1 /\ m % Block = t BY <2>2, <2>4, OneQuotient
  <2> QED BY <1>1, <1>6, <2>3 DEF m, p, r, t
<1> QED BY <1>5, <1>6

\* The zeros that the padding needs after n bytes: z, and no other number.
Needed(n, z) ==
    /\ z \in 0..(Block - 1)
    /\ \A k \in 0..(Block - 1) : (n + k) % Block = Block - 2 <=> k = z
    /\ \A k \in 0..(Block - 1) : (n + k + 2) % Block = 0 <=> k = z

\* There is such a number.
LEMMA ZerosNeeded ==
    ASSUME NEW n \in Nat
    PROVE  \E z : Needed(n, z)
<1> DEFINE r == n % Block
           z == IF r <= Block - 2 THEN Block - 2 - r ELSE Block - 1
<1>1. Block \in Nat \ {0} /\ Block > 2 BY HalfIsBlocks
<1>2. \A k \in 0..(Block - 1) :
          (n + k) % Block = IF r + k < Block THEN r + k ELSE r + k - Block
  BY PlaceAfter
<1>3. r \in 0..(Block - 1)
  <2>1. 0 \in 0..(Block - 1) BY <1>1
  <2> QED BY <2>1, PlaceAfter
<1> HIDE DEF r
<1>4. z \in 0..(Block - 1) BY <1>1, <1>3
<1>5. ASSUME NEW k \in 0..(Block - 1) PROVE (n + k) % Block = Block - 2 <=> k = z
  <2> DEFINE y == (n + k) % Block
  <2>1. y = IF r + k < Block THEN r + k ELSE r + k - Block BY <1>2
  <2>2. k \in Nat /\ k < Block BY <1>1
  <2> HIDE DEF y
  <2>3. ASSUME r <= Block - 2 PROVE y = Block - 2 <=> k = z BY <1>1, <1>3, <2>1, <2>2, <2>3
  <2>4. ASSUME ~(r <= Block - 2) PROVE y = Block - 2 <=> k = z
    <3>1. r = Block - 1 BY <1>1, <1>3, <2>4
    <3> QED BY <1>1, <2>1, <2>2, <2>4, <3>1
  <2>5. y = Block - 2 <=> k = z BY <2>3, <2>4
  <2> QED BY <2>5 DEF y
<1>6. ASSUME NEW k \in 0..(Block - 1)
      PROVE  (n + k + 2) % Block = 0 <=> (n + k) % Block = Block - 2
  <2> DEFINE p == n + k
             t == p % Block
             u == (p + 2) % Block
  <2>1. p \in Nat /\ 2 \in 0..(Block - 1) BY <1>1
  <2> HIDE DEF p
  <2>2. t \in 0..(Block - 1) /\ u = IF t + 2 < Block THEN t + 2 ELSE t + 2 - Block
    BY <2>1, PlaceAfter
  <2> HIDE DEF t, u
  <2>3. u = 0 <=> t = Block - 2 BY <1>1, <2>2
  <2> QED BY <2>3 DEF u, t, p
<1> HIDE DEF z
<1>7. Needed(n, z) BY <1>4, <1>5, <1>6 DEF Needed
<1> QED BY <1>7

\* Zeros, and one more.
Zeros(n) == [k \in 1..n |-> 0]

LEMMA ZerosAre ==
    ASSUME NEW T, 0 \in T, NEW n \in Nat
    PROVE  Zeros(n) \in Seq(T) /\ Len(Zeros(n)) = n
<1>1. Zeros(n) \in [1..n -> T] BY DEF Zeros
<1> QED BY <1>1, FunctionIsSeq

LEMMA OneZeroMore ==
    ASSUME NEW T, 0 \in T, NEW m \in Seq(T), NEW n \in Nat
    PROVE  (m \o Zeros(n)) \o <<0>> = m \o Zeros(n + 1)
<1> DEFINE u == m \o Zeros(n)
           v == u \o <<0>>
           w == m \o Zeros(n + 1)
           z == Zeros(n)
           y == Zeros(n + 1)
<1>1. z \in Seq(T) /\ Len(z) = n /\ y \in Seq(T) /\ Len(y) = n + 1 /\ <<0>> \in Seq(T)
      /\ Len(<<0>>) = 1 /\ <<0>>[1] = 0
  BY ZerosAre
<1>2. (\A i \in 1..n : z[i] = 0) /\ (\A i \in 1..(n + 1) : y[i] = 0) BY DEF Zeros
<1> HIDE DEF z, y
<1>3. u \in Seq(T) /\ Len(u) = Len(m) + n /\ Len(m) \in Nat
      /\ \A i \in 1..Len(m) + n : u[i] = IF i <= Len(m) THEN m[i] ELSE z[i - Len(m)]
  <2>1. u \in Seq(T) /\ Len(u) = Len(m) + Len(z)
        /\ \A i \in 1..Len(m) + Len(z) : u[i] = IF i <= Len(m) THEN m[i] ELSE z[i - Len(m)]
    BY <1>1, ConcatProperties DEF z
  <2> HIDE DEF u
  <2> QED BY <1>1, <2>1
<1>4. w \in Seq(T) /\ Len(w) = Len(m) + n + 1
      /\ \A i \in 1..Len(m) + n + 1 : w[i] = IF i <= Len(m) THEN m[i] ELSE y[i - Len(m)]
  <2>1. w \in Seq(T) /\ Len(w) = Len(m) + Len(y)
        /\ \A i \in 1..Len(m) + Len(y) : w[i] = IF i <= Len(m) THEN m[i] ELSE y[i - Len(m)]
    BY <1>1, ConcatProperties DEF y
  <2> HIDE DEF w
  <2>2. Len(m) + Len(y) = Len(m) + n + 1 BY <1>1, <1>3
  <2> QED BY <2>1, <2>2
<1> HIDE DEF u, w
<1>5. v \in Seq(T) /\ Len(v) = Len(u) + 1
      /\ (\A i \in 1..Len(u) : v[i] = u[i]) /\ v[Len(u) + 1] = 0
  BY <1>1, <1>3
<1> HIDE DEF v
<1>6. ASSUME NEW i \in 1..Len(v) PROVE v[i] = w[i]
  <2>1. i \in 1..Len(m) + n + 1 BY <1>3, <1>5
  <2>2. CASE i <= Len(m)
    <3>1. i \in 1..Len(u) /\ i \in 1..Len(m) + n BY <1>3, <2>1, <2>2
    <3> QED BY <1>3, <1>4, <1>5, <2>1, <2>2, <3>1
  <2>3. CASE ~(i <= Len(m)) /\ i <= Len(u)
    <3>1. i \in 1..Len(u) /\ i \in 1..Len(m) + n /\ i - Len(m) \in 1..n
          /\ i - Len(m) \in 1..(n + 1)
      BY <1>3, <2>1, <2>3
    <3> QED BY <1>2, <1>3, <1>4, <1>5, <2>1, <2>3, <3>1
  <2>4. CASE ~(i <= Len(m)) /\ ~(i <= Len(u))
    <3>1. i = Len(u) + 1 /\ i - Len(m) \in 1..(n + 1) BY <1>3, <2>1, <2>4
    <3> QED BY <1>2, <1>4, <1>5, <2>1, <2>4, <3>1
  <2> QED BY <2>2, <2>3, <2>4
<1>7. v = w
  <2>1. Len(v) = Len(w) BY <1>3, <1>4, <1>5
  <2> QED BY <1>4, <1>5, <1>6, <2>1, SeqEqual
<1> QED BY <1>7 DEF v, w, u

\* The states of the hash.
Hashing(T) ==
    {y \in [hi : Nat, lo : Nat, buffer : Seq(T), blocks : Seq(Seq(T))] :
        \E m \in Seq(T) : Hashes(T, y, m)}

\* What an update leaves is one of them.
LEMMA HashingKept ==
    ASSUME NEW T, NEW x, NEW m, Hashes(T, x, m), NEW d, d \in Seq(T)
    PROVE  sha1_update(x, d) \in Hashing(T)
<1> DEFINE y == sha1_update(x, d)
           u == m \o d
<1>1. Hashes(T, y, u) BY HashesMore
<1>2. y = [hi |-> y.hi, lo |-> y.lo, buffer |-> y.buffer, blocks |-> y.blocks]
  BY DEF sha1_update
<1>3. m \in Seq(T) BY DEF Hashes
<1>4. u \in Seq(T) BY <1>3
<1> HIDE DEF y, u
<1>5. y.buffer \in Seq(T) /\ y.blocks = Blocks(u) /\ y.lo = (8 * Len(u)) % Half
      /\ y.hi = ((8 * Len(u)) \div Half) % Half
  BY <1>1 DEF Hashes
<1>6. y.blocks \in Seq(Seq(T)) BY <1>4, <1>5, BlocksAre
<1>7. y.lo \in Nat /\ y.hi \in Nat
  <2> DEFINE n == 8 * Len(u)
             p == n \div Half
  <2>1. n \in Nat /\ Half \in Nat \ {0} BY <1>4, HalfIsBlocks
  <2> HIDE DEF n
  <2>2. p \in Nat /\ n % Half \in 0..(Half - 1) BY <2>1, Division
  <2> HIDE DEF p
  <2>3. p % Half \in 0..(Half - 1) BY <2>1, <2>2, Division
  <2> QED BY <1>5, <2>1, <2>2, <2>3 DEF n, p
<1>8. y \in [hi : Nat, lo : Nat, buffer : Seq(T), blocks : Seq(Seq(T))]
  BY <1>2, <1>5, <1>6, <1>7
<1>9. y \in Hashing(T) BY <1>1, <1>4, <1>8 DEF Hashing
<1> QED BY <1>9 DEF y

\* The function by which Padded() is defined.
PaddingBy(x, g) == g = [k \in 0..Block |-> IF k = 0 THEN x ELSE Pad(g[k - 1])]

\* It exists.
LEMMA PaddingExists ==
    ASSUME NEW T, 0 \in T, NEW x \in Hashing(T)
    PROVE  \E g : PaddingBy(x, g)
<1> DEFINE S == Hashing(T)
           F == [p \in ((0 + 1)..Block) \X S |-> Pad(p[2])]
<1>1. Block \in Nat /\ 0 \in Nat /\ 0 <= Block BY HalfIsBlocks
<1>2. ASSUME NEW y \in S PROVE Pad(y) \in S
  <2>1. PICK m \in Seq(T) : Hashes(T, y, m) BY DEF Hashing
  <2>2. <<0>> \in Seq(T) OBVIOUS
  <2>3. sha1_update(y, <<0>>) \in S BY <2>1, <2>2, HashingKept
  <2> HIDE DEF S
  <2> QED BY <2>3 DEF Pad
<1> HIDE DEF S
<1>3. x \in S BY DEF S
<1>4. /\ F \in [((0 + 1)..Block) \X S -> S]
      /\ \A k \in (0 + 1)..Block, y \in S : F[<<k, y>>] = Pad(y)
  <2>1. ASSUME NEW p \in ((0 + 1)..Block) \X S PROVE Pad(p[2]) \in S
    BY <1>2
  <2> QED BY <2>1
<1> HIDE DEF F
<1>5. Recursive(0, Block, S, x, F) BY <1>1, <1>3, <1>4, Recursion
<1>6. PICK g \in [0..Block -> S] :
          g[0] = x /\ \A k \in (0 + 1)..Block : g[k] = F[<<k, g[k - 1]>>]
  BY <1>5 DEF Recursive
<1>7. ASSUME NEW k \in 0..Block, k # 0 PROVE g[k] = Pad(g[k - 1])
  <2>1. k \in (0 + 1)..Block /\ k - 1 \in 0..Block BY <1>1, <1>7
  <2> QED BY <1>4, <1>6, <2>1
<1>8. g = [k \in 0..Block |-> IF k = 0 THEN x ELSE Pad(g[k - 1])] BY <1>6, <1>7
<1> QED BY <1>8 DEF PaddingBy

\* The padding adds the zeros that are needed.
LEMMA PaddedIs ==
    ASSUME NEW T, 0 \in T, NEW x \in Hashing(T), NEW m, Hashes(T, x, m),
           NEW z, Needed(Len(m), z)
    PROVE  Hashes(T, Padded(x), m \o Zeros(z))
<1> DEFINE g == CHOOSE g : PaddingBy(x, g)
           Upto(k) == IF k <= z THEN k ELSE z
           K == {k \in 0..Block : Hashes(T, g[k], m \o Zeros(Upto(k)))}
<1>1. Padded(x) = g[Block] BY DEF Padded, PaddingBy
<1>2. PaddingBy(x, g) BY PaddingExists
<1> HIDE DEF g
<1>3. /\ Block \in Nat \ {0} /\ z \in Nat /\ z < Block /\ m \in Seq(T) /\ Len(m) \in Nat
      /\ <<0>> \in Seq(T)
  BY HalfIsBlocks DEF Needed, Hashes
<1>4. 0 \in K
  <2>1. g[0] = x BY <1>2, <1>3 DEF PaddingBy
  <2>2. Zeros(0) = <<>> BY DEF Zeros
  <2>3. m \o Zeros(0) = m BY <1>3, <2>2
  <2>4. Upto(0) = 0 BY <1>3
  <2> HIDE DEF Upto
  <2>5. m \o Zeros(Upto(0)) = m BY <2>3, <2>4
  <2>6. Hashes(T, g[0], m \o Zeros(Upto(0))) BY <2>1, <2>5
  <2>7. 0 \in 0..Block BY <1>3
  <2> QED BY <2>6, <2>7
<1>5. ASSUME NEW k \in 0..(Block - 1), k \in K PROVE k + 1 \in K
  <2> DEFINE y == g[k]
             u == Zeros(Upto(k))
             c == (Len(m) + Upto(k)) % Block
  <2>1. k \in Nat /\ k + 1 \in 0..Block /\ Upto(k) \in 0..(Block - 1) /\ Upto(k) \in Nat
    BY <1>3
  <2>2. g[k + 1] = Pad(y)
    <3>1. k + 1 # 0 /\ (k + 1) - 1 = k BY <2>1
    <3> QED BY <1>2, <2>1, <3>1 DEF PaddingBy
  <2>3. Hashes(T, y, m \o u) BY <1>5
  <2>4. u \in Seq(T) /\ Len(u) = Upto(k) BY <2>1, ZerosAre
  <2>5. (y.lo \div 8) % Block = c
    <3>1. y.lo = (8 * Len(m \o u)) % Half BY <2>3 DEF Hashes
    <3>2. Len(m \o u) = Len(m) + Len(u) BY <1>3, <2>4, ConcatProperties
    <3>3. Len(m \o u) = Len(m) + Upto(k) BY <2>4, <3>2
    <3>4. Len(m) + Upto(k) \in Nat BY <1>3, <2>1
    <3> DEFINE n == Len(m) + Upto(k)
    <3>5. y.lo = (8 * n) % Half /\ n \in Nat BY <3>1, <3>3, <3>4
    <3>6. c = n % Block OBVIOUS
    <3> HIDE DEF n, c, y
    <3> QED BY <3>5, <3>6, CountInBlock
  <2>6. c = Block - 2 <=> Upto(k) = z BY <2>1 DEF Needed
  <2> HIDE DEF y, u, c, K
  <2>7. CASE k < z
    <3>1. Upto(k) = k /\ k # z /\ Upto(k + 1) = k + 1 BY <1>3, <2>1, <2>7
    <3>2. g[k + 1] = sha1_update(y, <<0>>) BY <2>2, <2>5, <2>6, <3>1 DEF Pad
    <3>3. Hashes(T, g[k + 1], (m \o u) \o <<0>>) BY <1>3, <2>3, <3>2, HashesMore
    <3>4. (m \o Zeros(k)) \o <<0>> = m \o Zeros(k + 1) BY <1>3, <2>1, OneZeroMore
    <3>5. (m \o u) \o <<0>> = m \o Zeros(Upto(k + 1)) BY <3>1, <3>4 DEF u
    <3> QED BY <2>1, <3>3, <3>5 DEF K
  <2>8. CASE ~(k < z)
    <3>1. Upto(k) = z /\ Upto(k + 1) = z BY <1>3, <2>1, <2>8
    <3>2. g[k + 1] = y BY <2>2, <2>5, <2>6, <3>1 DEF Pad
    <3>3. u = Zeros(Upto(k + 1)) BY <3>1 DEF u
    <3> QED BY <2>1, <2>3, <3>2, <3>3 DEF K
  <2> QED BY <2>7, <2>8
<1>6. Block \in K
  <2> HIDE DEF K
  <2>1. 0 \in Nat /\ Block \in Nat /\ Block \in 0..Block BY <1>3
  <2>2. \A n \in 0..Block : n \in K BY <1>4, <1>5, <2>1, Induction
  <2> QED BY <2>1, <2>2
<1>7. Upto(Block) = z BY <1>3
<1> QED BY <1>1, <1>6, <1>7

\* What is hashed, after s and the 1 bit, with z zeros.
Hashed(s, z) ==
    s \o <<128>> \o [k \in 1..z |-> 0] \o <<(8 * Len(s)) \div Half, (8 * Len(s)) % Half>>

\* The message of the standard has the zeros that are needed.
LEMMA MessageIs ==
    ASSUME NEW T, NEW s \in Seq(T), NEW z, Needed(Len(s) + 1, z)
    PROVE  Message(s) = Blocks(Hashed(s, z))
<1> DEFINE zeros == CHOOSE n \in 0..(Block - 1) : (Len(s) + 3 + n) % Block = 0
<1>1. Block \in Nat \ {0} /\ Len(s) \in Nat BY HalfIsBlocks
<1>2. ASSUME NEW n \in 0..(Block - 1) PROVE (Len(s) + 3 + n) % Block = 0 <=> n = z
  <2>1. (Len(s) + 1 + n + 2) % Block = 0 <=> n = z BY DEF Needed
  <2>2. Len(s) + 1 + n + 2 = Len(s) + 3 + n BY <1>1
  <2> QED BY <2>1, <2>2
<1>3. z \in 0..(Block - 1) BY DEF Needed
<1>4. zeros = z BY <1>2, <1>3
<1>5. Message(s) = Blocks(Hashed(s, zeros)) BY DEF Message, Blocks, BlockOf, Hashed
<1> HIDE DEF zeros
<1> QED BY <1>4, <1>5

\* The hash of a text whose count of bits fits is of the blocks of the standard.
LEMMA FinalIs ==
    ASSUME NEW T, Nat \subseteq T, NEW x, NEW s, Hashes(T, x, s),
           8 * Len(s) < Half * Half
    PROVE  sha1_final(x) = Message(s)
<1> DEFINE n == 8 * Len(s)
           count == <<x.hi, x.lo>>
           y == sha1_update(x, <<128>>)
           m == s \o <<128>>
<1>1. s \in Seq(T) /\ Len(s) \in Nat /\ n \in Nat /\ Half \in Nat \ {0}
  <2>1. s \in Seq(T) BY DEF Hashes
  <2>2. Half \in Nat \ {0} BY HalfIsBlocks
  <2> QED BY <2>1, <2>2
<1>2. 0 \in T /\ 128 \in T /\ <<128>> \in Seq(T) OBVIOUS
<1>3. m \in Seq(T) /\ Len(m) = Len(s) + 1 /\ Len(m) \in Nat BY <1>1, <1>2
<1>4. Hashes(T, y, m) BY <1>2, HashesMore
<1>5. y \in Hashing(T) BY <1>2, HashingKept
<1>6. PICK z : Needed(Len(m), z) BY <1>3, ZerosNeeded
<1> HIDE DEF y, m
<1> DEFINE p == Padded(y)
           u == m \o Zeros(z)
<1>7. Hashes(T, p, u) BY <1>2, <1>4, <1>5, <1>6, PaddedIs
<1> HIDE DEF p
<1>8. x.hi = n \div Half /\ x.lo = n % Half /\ x.hi \in Nat /\ x.lo \in Nat
  <2> DEFINE q == n \div Half
             r == n % Half
  <2>1. x.hi = q % Half /\ x.lo = r BY DEF Hashes
  <2>2. n < Half * Half OBVIOUS
  <2> HIDE DEF n
  <2>3. q \in Nat /\ r \in 0..(Half - 1) /\ n = Half * q + r BY <1>1, Division
  <2> HIDE DEF q, r
  <2>4. q < Half
    <3> SUFFICES ASSUME q >= Half PROVE FALSE BY <1>1, <2>3
    <3>1. Half * q >= Half * Half BY <1>1, <2>3
    <3> DEFINE a == Half * q
               b == Half * Half
    <3>2. a \in Nat /\ b \in Nat /\ a >= b /\ n = a + r /\ n < b BY <1>1, <2>2, <2>3, <3>1
    <3> HIDE DEF a, b
    <3> QED BY <1>1, <2>3, <3>2
  <2>5. q \in 0..(Half - 1) /\ q = Half * 0 + q /\ 0 \in Nat BY <1>1, <2>3, <2>4
  <2>6. q % Half = q BY <1>1, <2>3, <2>5, OneQuotient
  <2> QED BY <1>1, <2>1, <2>3, <2>6 DEF q, r
<1>9. count \in Seq(T)
  <2>1. x.hi \in T /\ x.lo \in T BY <1>8
  <2> QED BY <2>1
<1>10. sha1_final(x) = sha1_update(p, count).blocks BY DEF sha1_final, p, y
<1> HIDE DEF count
<1>11. Hashes(T, sha1_update(p, count), u \o count) BY <1>7, <1>9, HashesMore
<1>12. sha1_final(x) = Blocks(u \o count) BY <1>10, <1>11 DEF Hashes
<1>13. u \o count = Hashed(s, z) BY <1>8 DEF u, m, Zeros, count, Hashed
<1>14. Needed(Len(s) + 1, z) BY <1>3, <1>6
<1>15. Message(s) = Blocks(Hashed(s, z)) BY <1>1, <1>14, MessageIs
<1> QED BY <1>12, <1>13, <1>15

\* Whatever the text and however it was cut in two updates, the blocks transformed are
\* those of the standard, for every message whose bits can be counted.
THEOREM Sha1IsExact == TextSpec => []Sha1Exact
<1>1. TextTyped => Sha1Exact
  <2> SUFFICES ASSUME TextTyped, function = "sha1", 8 * Len(operand \o text) < Half * Half
               PROVE  sha1_final(sha1_update(sha1_update(Sha1Init, operand), text))
                          = Message(operand \o text)
    BY DEF Sha1Exact
  <2> DEFINE A == Alphabet(function)
             O == OperandAlphabet(function)
             T == A \cup O \cup Nat
             e == <<>>
             x == sha1_update(Sha1Init, operand)
             y == sha1_update(x, text)
             s == operand \o text
  <2>1. text \in Seq(A) /\ operand \in Seq(O) BY DEF TextTyped
  <2> HIDE DEF A, O
  <2>2. A \subseteq T /\ O \subseteq T /\ Nat \subseteq T /\ 0 \in T OBVIOUS
  <2> HIDE DEF T
  <2>3. text \in Seq(T) /\ operand \in Seq(T) BY <2>1, <2>2, SeqMonotonic
  <2>4. Hashes(T, Sha1Init, e) BY <2>2, HashesInit
  <2>5. e \o operand = operand BY <2>3
  <2> HIDE DEF e
  <2>6. Hashes(T, x, operand)
    <3>1. Hashes(T, x, e \o operand) BY <2>3, <2>4, HashesMore
    <3> QED BY <2>5, <3>1
  <2> HIDE DEF x
  <2>7. Hashes(T, y, s) BY <2>3, <2>6, HashesMore
  <2>8. 8 * Len(s) < Half * Half OBVIOUS
  <2> HIDE DEF y, s
  <2>9. sha1_final(y) = Message(s) BY <2>2, <2>7, <2>8, FinalIs
  <2> QED BY <2>9 DEF y, x, s
<1> QED BY <1>1, TextTypes, PTL
=============================================================================
