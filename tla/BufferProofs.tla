---------------------------- MODULE BufferProofs -----------------------------
(***************************************************************************)
(* Proofs about what is done inside the buffers of a connection: the       *)
(* WebSocket handler takes frames out of the receive buffer while it       *)
(* assembles a message in front of them; a frame is found in the bytes     *)
(* that its header and its mask were put on.                               *)
(***************************************************************************)
EXTENDS WsCb, IOBuf, WsFrame, ListProofs

\* The types; ofs is pfn_data while ws_cb() runs.
WsTyped ==
    /\ script \in [1..Frames -> DOMAIN Frame] /\ arrived \in 0..Len(Stream)
    /\ recv \in Seq(Range(Stream)) /\ pfn_data \in 0..Len(recv)
    /\ ofs = IF pc = "ws" THEN pfn_data ELSE 0
    /\ is_client \in BOOLEAN /\ is_websocket \in BOOLEAN
    /\ is_draining \in BOOLEAN /\ is_closing \in BOOLEAN
    /\ pc \in {"idle", "read", "ws", "gone"} /\ parsed \in Nat
    /\ replies \in Seq({"1002", "PONG", "CLOSE"} \X Int)

\* The answer to a client's handshake has not come, or was not HTTP.
Unanswered ==
    /\ is_client /\ ~is_websocket
    /\ pfn_data = 0 /\ parsed = 0 /\ replies = <<>>
    /\ Len(recv) = arrived /\ \A j \in 1..arrived : recv[j] = Stream[j]
    /\ arrived > 0 => IF pc = "read" THEN ~is_closing ELSE is_closing
    /\ pc \in {"read", "ws"} => arrived > 0

\* Behind the message under assembly lies exactly what arrived and was not parsed.
Behind ==
    /\ Len(recv) - pfn_data = arrived - Sent - 3 * parsed
    /\ \A j \in 1..(Len(recv) - pfn_data) : recv[pfn_data + j] = Byte(3 * parsed + j)
    /\ ~is_websocket => is_client /\ is_closing /\ pc # "read"

\* A frame that the side we are must reject.
Bad(i) == (script[i] = "unmasked" /\ ~is_client) \/ script[i] = "badctl"

\* A frame that was rejected is the next one for ever.
Blocked ==
    WasRejected => Behind /\ Bad(parsed + 1) /\ 3 * parsed + 3 <= arrived - Sent

\* Between reads less than a frame is left, but for one that was rejected.
Consumed ==
    pc = "idle" /\ is_websocket /\ ~WasRejected => Len(recv) - pfn_data < 3

\* The inductive invariant.
WsInv == WsTyped /\ (Unanswered \/ Behind) /\ Blocked /\ Consumed

-----------------------------------------------------------------------------
\* What is where after n elements have been cut out of a sequence.
LEMMA DelPoints ==
    ASSUME NEW S, NEW s \in Seq(S), NEW at \in Nat, NEW n \in Nat, at + n <= Len(s)
    PROVE  /\ Del(s, at, n) \in Seq(S)
           /\ Len(Del(s, at, n)) = Len(s) - n
           /\ \A j \in 1..(Len(s) - n) : Del(s, at, n)[j] = IF j <= at THEN s[j] ELSE s[j + n]
<1> DEFINE m == Len(s)
           a == SubSeq(s, 1, at)
           b == SubSeq(s, at + n + 1, m)
<1>1. m \in Nat /\ \A i \in 1..m : s[i] \in S OBVIOUS
<1>2. a \in Seq(S) /\ Len(a) = at /\ \A j \in 1..at : a[j] = s[j]
  BY <1>1, SubSeqProperties
<1>3. /\ b \in Seq(S) /\ Len(b) = m - at - n
      /\ \A j \in 1..(m - at - n) : b[j] = s[j + at + n]
  BY <1>1, SubSeqProperties
<1> HIDE DEF a, b, m
<1>4. a \o b \in Seq(S) /\ Len(a \o b) = m - n
  <2>1. at + (m - at - n) = m - n BY <1>1
  <2>2. a \in Seq(S) /\ b \in Seq(S) BY <1>2, <1>3
  <2>3. a \o b \in Seq(S) /\ Len(a \o b) = Len(a) + Len(b) BY <2>2, ConcatProperties
  <2> QED BY <1>2, <1>3, <2>1, <2>3
<1>5. ASSUME NEW j \in 1..(m - n) PROVE (a \o b)[j] = IF j <= at THEN s[j] ELSE s[j + n]
  <2>1. (a \o b)[j] = IF j <= at THEN a[j] ELSE b[j - at]
    <3>1. j \in 1..(Len(a) + Len(b)) BY <1>1, <1>2, <1>3
    <3> QED BY <1>1, <1>2, <1>3, <3>1, ConcatProperties
  <2>2. CASE j <= at BY <1>2, <2>1, <2>2
  <2>3. CASE ~(j <= at)
    <3>1. j - at \in 1..(m - at - n) BY <1>1, <2>3
    <3>2. b[j - at] = s[(j - at) + at + n] BY <3>1, <1>3
    <3>3. (j - at) + at + n = j + n BY <1>1
    <3> QED BY <2>1, <2>3, <3>2, <3>3
  <2> QED BY <2>2, <2>3
<1> QED BY <1>4, <1>5 DEF Del, a, b, m

\* The same for elements at the front.
LEMMA DelFront ==
    ASSUME NEW S, NEW s \in Seq(S), NEW n \in Nat, n <= Len(s)
    PROVE  /\ Del(s, 0, n) \in Seq(S)
           /\ Len(Del(s, 0, n)) = Len(s) - n
           /\ \A j \in 1..(Len(s) - n) : Del(s, 0, n)[j] = s[j + n]
<1> DEFINE z == 0
<1>1. z \in Nat /\ z + n <= Len(s) OBVIOUS
<1> HIDE DEF z
<1>2. /\ Del(s, z, n) \in Seq(S)
      /\ Len(Del(s, z, n)) = Len(s) - n
      /\ \A j \in 1..(Len(s) - n) : Del(s, z, n)[j] = IF j <= z THEN s[j] ELSE s[j + n]
  BY <1>1, DelPoints
<1>3. \A j \in 1..(Len(s) - n) : ~(j <= z) BY DEF z
<1> QED BY <1>2, <1>3 DEF z

\* The bytes of the stream.
LEMMA StreamIs ==
    /\ Sent \in {0, 1} /\ (is_client => Sent = 1) /\ (~is_client => Sent = 0)
    /\ Len(Stream) = Sent + 3 * Frames /\ Len(Stream) \in Nat
    /\ Stream \in Seq(Range(Stream))
    /\ \A n \in 1..(Sent + 3 * Frames) : Stream[n] = Byte(n - Sent)
<1>1. Frames \in Nat BY WsAssumption
<1>2. Sent \in {0, 1} /\ (is_client => Sent = 1) /\ (~is_client => Sent = 0) BY DEF Sent
<1>3. Sent + 3 * Frames \in Nat BY <1>1, <1>2
<1> DEFINE n == Sent + 3 * Frames
<1>4. Stream = [i \in 1..n |-> Byte(i - Sent)] BY DEF Stream
<1>5. \A i \in 1..n : Stream[i] \in Range(Stream) BY <1>4 DEF Range
<1> HIDE DEF n
<1>6. n \in Nat BY <1>3 DEF n
<1>7. Stream \in Seq(Range(Stream)) /\ Len(Stream) = n BY <1>4, <1>5, <1>6
<1> QED BY <1>2, <1>4, <1>6, <1>7 DEF n

\* The first byte of a frame names it, and none is the handshake's.
LEMMA ByteIs ==
    /\ \A k \in Nat : Byte(3 * k + 1)[1] = k + 1
    /\ \A n \in Nat \ {0} : Byte(n) # HANDSHAKE
    /\ Byte(0) = HANDSHAKE
<1>1. ASSUME NEW n \in Nat \ {0} PROVE Byte(n) = <<(n + 2) \div 3, Marks[((n + 2) % 3) + 1]>>
  BY DEF Byte
<1>2. ASSUME NEW k \in Nat PROVE Byte(3 * k + 1)[1] = k + 1
  <2>1. 3 * k + 1 \in Nat \ {0} /\ ((3 * k + 1) + 2) \div 3 = k + 1 OBVIOUS
  <2> QED BY <1>1, <2>1
<1>3. ASSUME NEW n \in Nat \ {0} PROVE Byte(n) # HANDSHAKE
  <2>1. (n + 2) \div 3 # 0 OBVIOUS
  <2> QED BY <1>1, <2>1 DEF HANDSHAKE
<1> QED BY <1>2, <1>3 DEF Byte

\* What is left of the buffer.
LEMMA RestIs ==
    ASSUME WsInv, pc = "ws"
    PROVE  /\ ofs = pfn_data /\ Len(recv) \in Nat /\ Len(Rest) = Len(recv) - pfn_data
           /\ Complete <=> Len(recv) - pfn_data >= 3
           /\ \A j \in 1..(Len(recv) - pfn_data) : Rest[j] = recv[pfn_data + j]
<1>1. /\ recv \in Seq(Range(Stream)) /\ pfn_data \in 0..Len(recv) /\ ofs = pfn_data
  BY DEF WsInv, WsTyped
<1>2. Len(recv) \in Nat BY <1>1
<1>3. \A i \in 1..Len(recv) : recv[i] \in Range(Stream) BY <1>1
<1> DEFINE r == SubSeq(recv, pfn_data + 1, Len(recv))
<1>4. /\ Len(r) = Len(recv) - pfn_data
      /\ \A j \in 1..(Len(recv) - pfn_data) : r[j] = recv[j + pfn_data]
  BY <1>1, <1>2, <1>3, SubSeqProperties
<1>5. Rest = r BY <1>1 DEF Rest
<1> HIDE DEF r
<1> QED BY <1>1, <1>2, <1>4, <1>5 DEF Complete

\* The frame at hand is the next one, and it was not rejected if it is handled.
LEMMA AtFrameIs ==
    ASSUME WsInv, AtFrame
    PROVE  /\ Behind /\ Len(recv) - pfn_data >= 3 /\ This = parsed + 1
           /\ Violation <=> Bad(parsed + 1)
           /\ ~Violation => ~WasRejected
<1>0. /\ pc = "ws" /\ parsed \in Nat /\ pfn_data \in 0..Len(recv) /\ Len(recv) \in Nat
      /\ arrived \in Nat
  BY StreamIs DEF AtFrame, WsInv, WsTyped
<1>1. Len(recv) - pfn_data >= 3 BY <1>0, RestIs DEF AtFrame
<1>2. 1 \in 1..(Len(recv) - pfn_data) BY <1>0, <1>1
<1>3. Rest[1] = recv[pfn_data + 1] /\ Rest # <<>>
  <2>1. Len(Rest) = Len(recv) - pfn_data /\ Rest[1] = recv[pfn_data + 1]
    BY <1>0, <1>2, RestIs
  <2>2. Len(<<>>) = 0 OBVIOUS
  <2> QED BY <1>0, <1>1, <2>1, <2>2
<1>4. Behind
  <2> SUFFICES ASSUME Unanswered PROVE FALSE BY DEF WsInv
  <2>1. pfn_data = 0 /\ arrived \in 1..Len(Stream) /\ recv[1] = Stream[1] /\ Sent = 1
    BY <1>0, <1>1, StreamIs DEF Unanswered, WsInv, WsTyped
  <2>2. 1 \in 1..(Sent + 3 * Frames) BY <2>1, WsAssumption
  <2>3. Stream[1] = Byte(0) BY <2>1, <2>2, StreamIs
  <2> QED BY <1>3, <2>1, <2>3, ByteIs DEF AtFrame, Junk
<1>5. This = parsed + 1
  <2>1. recv[pfn_data + 1] = Byte(3 * parsed + 1) BY <1>2, <1>4 DEF Behind
  <2> QED BY <1>0, <1>3, <2>1, ByteIs DEF This
<1>6. Violation <=> Bad(parsed + 1) BY <1>5 DEF Violation, Bad
<1>7. ~Violation => ~WasRejected BY <1>6 DEF WsInv, Blocked
<1> QED BY <1>1, <1>4, <1>5, <1>6, <1>7

\* Handling a frame cuts it out, whatever it leaves to the message under
\* assembly: what was behind it is then behind what is left.
LEMMA HandleCuts ==
    ASSUME WsInv, Single \/ Begin \/ Continue \/ End
    PROVE  /\ recv' \in Seq(Range(Stream)) /\ pfn_data' \in 0..Len(recv') /\ ofs' = pfn_data'
           /\ Len(recv') - pfn_data' = Len(recv) - pfn_data - 3
           /\ \A j \in 1..(Len(recv) - pfn_data - 3) :
                 recv'[pfn_data' + j] = recv[pfn_data + j + 3]
<1> DEFINE R == Range(Stream)
           n == Len(recv)
           p == pfn_data
<1>1. AtFrame BY DEF Single, Begin, Continue, End
<1>2. /\ recv \in Seq(R) /\ p \in 0..n /\ n \in Nat /\ ofs = p /\ n - p >= 3
  BY <1>1, AtFrameIs, RestIs DEF WsInv, WsTyped, AtFrame
<1> DEFINE Goal == /\ recv' \in Seq(R) /\ pfn_data' \in 0..Len(recv') /\ ofs' = pfn_data'
                   /\ Len(recv') - pfn_data' = n - p - 3
                   /\ \A j \in 1..(n - p - 3) : recv'[pfn_data' + j] = recv[p + j + 3]
<1>3. CASE Single
  <2>1. recv' = Del(recv, p, 3) /\ pfn_data' = p /\ ofs' = p BY <1>2, <1>3 DEF Single
  <2>2. /\ recv' \in Seq(R) /\ Len(recv') = n - 3
        /\ \A j \in 1..(n - 3) : recv'[j] = IF j <= p THEN recv[j] ELSE recv[j + 3]
    <3>1. p \in Nat /\ 3 \in Nat /\ p + 3 <= Len(recv) BY <1>2
    <3> HIDE DEF R, n, p
    <3>2. recv \in Seq(R) BY <1>2
    <3>3. /\ Del(recv, p, 3) \in Seq(R) /\ Len(Del(recv, p, 3)) = Len(recv) - 3
          /\ \A j \in 1..(Len(recv) - 3) :
                Del(recv, p, 3)[j] = IF j <= p THEN recv[j] ELSE recv[j + 3]
      BY <3>1, <3>2, DelPoints
    <3>4. Len(recv) = n BY DEF n
    <3> QED BY <2>1, <3>3, <3>4
  <2> HIDE DEF R, n, p
  <2>3. ASSUME NEW j \in 1..(n - p - 3) PROVE recv'[p + j] = recv[p + j + 3]
    <3>1. p + j \in 1..(n - 3) /\ ~(p + j <= p) /\ (p + j) + 3 = p + j + 3 BY <1>2
    <3> QED BY <2>2, <3>1
  <2> QED BY <1>2, <2>1, <2>2, <2>3, SMTT(20) DEF R, n, p
<1>4. CASE Begin
  <2>1. recv' = Del(recv, p + 1, 1) /\ pfn_data' = p + 2 /\ ofs' = p + 2
    BY <1>2, <1>4 DEF Begin
  <2>2. /\ recv' \in Seq(R) /\ Len(recv') = n - 1
        /\ \A j \in 1..(n - 1) : recv'[j] = IF j <= p + 1 THEN recv[j] ELSE recv[j + 1]
    <3>1. p + 1 \in Nat /\ 1 \in Nat /\ p + 1 + 1 <= Len(recv) BY <1>2
    <3> HIDE DEF R, n, p
    <3>2. recv \in Seq(R) BY <1>2
    <3> DEFINE q == p + 1
    <3>5. q \in Nat /\ 1 \in Nat /\ q + 1 <= Len(recv) BY <3>1
    <3> HIDE DEF q
    <3>6. /\ Del(recv, q, 1) \in Seq(R) /\ Len(Del(recv, q, 1)) = Len(recv) - 1
          /\ \A j \in 1..(Len(recv) - 1) :
                Del(recv, q, 1)[j] = IF j <= q THEN recv[j] ELSE recv[j + 1]
      BY <3>2, <3>5, DelPoints
    <3>3. /\ Del(recv, p + 1, 1) \in Seq(R) /\ Len(Del(recv, p + 1, 1)) = Len(recv) - 1
          /\ \A j \in 1..(Len(recv) - 1) :
                Del(recv, p + 1, 1)[j] = IF j <= p + 1 THEN recv[j] ELSE recv[j + 1]
      BY <3>6 DEF q
    <3>4. Len(recv) = n BY DEF n
    <3> QED BY <2>1, <3>3, <3>4
  <2> HIDE DEF R, n, p
  <2>3. ASSUME NEW j \in 1..(n - p - 3) PROVE recv'[p + 2 + j] = recv[p + j + 3]
    <3>1. p + 2 + j \in 1..(n - 1) /\ ~(p + 2 + j <= p + 1) /\ (p + 2 + j) + 1 = p + j + 3
      BY <1>2
    <3> QED BY <2>2, <3>1
  <2> QED BY <1>2, <2>1, <2>2, <2>3 DEF R, n, p
<1>5. CASE Continue
  <2>1. recv' = Del(recv, p, 2) /\ pfn_data' = p + 1 /\ ofs' = p + 1
    BY <1>2, <1>5 DEF Continue
  <2>2. /\ recv' \in Seq(R) /\ Len(recv') = n - 2
        /\ \A j \in 1..(n - 2) : recv'[j] = IF j <= p THEN recv[j] ELSE recv[j + 2]
    <3>1. p \in Nat /\ 2 \in Nat /\ p + 2 <= Len(recv) BY <1>2
    <3> HIDE DEF R, n, p
    <3>2. recv \in Seq(R) BY <1>2
    <3>3. /\ Del(recv, p, 2) \in Seq(R) /\ Len(Del(recv, p, 2)) = Len(recv) - 2
          /\ \A j \in 1..(Len(recv) - 2) :
                Del(recv, p, 2)[j] = IF j <= p THEN recv[j] ELSE recv[j + 2]
      BY <3>1, <3>2, DelPoints
    <3>4. Len(recv) = n BY DEF n
    <3> QED BY <2>1, <3>3, <3>4
  <2> HIDE DEF R, n, p
  <2>3. ASSUME NEW j \in 1..(n - p - 3) PROVE recv'[p + 1 + j] = recv[p + j + 3]
    <3>1. p + 1 + j \in 1..(n - 2) /\ ~(p + 1 + j <= p) /\ (p + 1 + j) + 2 = p + j + 3
      BY <1>2
    <3> QED BY <2>2, <3>1
  <2> QED BY <1>2, <2>1, <2>2, <2>3 DEF R, n, p
<1>6. CASE End
  <2> DEFINE s == Del(recv, p, 2)
  <2>1. recv' = Del(s, 0, p + 1) /\ pfn_data' = 0 /\ ofs' = 0
    BY <1>2, <1>6 DEF End
  <2>2. /\ s \in Seq(R) /\ Len(s) = n - 2
        /\ \A j \in 1..(n - 2) : s[j] = IF j <= p THEN recv[j] ELSE recv[j + 2]
    <3>1. p \in Nat /\ 2 \in Nat /\ p + 2 <= Len(recv) BY <1>2
    <3> HIDE DEF R, n, p
    <3>2. recv \in Seq(R) BY <1>2
    <3>3. /\ Del(recv, p, 2) \in Seq(R) /\ Len(Del(recv, p, 2)) = Len(recv) - 2
          /\ \A j \in 1..(Len(recv) - 2) :
                Del(recv, p, 2)[j] = IF j <= p THEN recv[j] ELSE recv[j + 2]
      BY <3>1, <3>2, DelPoints
    <3>4. Len(recv) = n BY DEF n
    <3> QED BY <3>3, <3>4 DEF s
  <2> HIDE DEF s
  <2>3. p + 1 \in Nat /\ 0 + (p + 1) <= Len(s) /\ (n - 2) - (p + 1) = n - p - 3 BY <1>2, <2>2
  <2>4. /\ recv' \in Seq(R) /\ Len(recv') = n - p - 3
        /\ \A j \in 1..(n - p - 3) : recv'[j] = s[j + (p + 1)]
    <3>1. 0 \in Nat /\ Len(s) - (p + 1) = n - p - 3 BY <2>2, <2>3
    <3> HIDE DEF R, p, n
    <3>2. s \in Seq(R) BY <2>2
    <3>3. p + 1 \in Nat /\ 0 + (p + 1) <= Len(s) BY <2>3
    <3> DEFINE q == p + 1
    <3>4. q \in Nat /\ q <= Len(s) BY <2>2, <3>3
    <3> HIDE DEF q
    <3>5. /\ Del(s, 0, q) \in Seq(R) /\ Len(Del(s, 0, q)) = Len(s) - q
          /\ \A j \in 1..(Len(s) - q) : Del(s, 0, q)[j] = s[j + q]
      BY <3>2, <3>4, DelFront
    <3> QED BY <2>1, <3>1, <3>5 DEF q
  <2> HIDE DEF R, n, p
  <2>5. ASSUME NEW j \in 1..(n - p - 3) PROVE recv'[0 + j] = recv[p + j + 3]
    <3>1. /\ j + (p + 1) \in 1..(n - 2) /\ ~(j + (p + 1) <= p) /\ 0 + j = j
          /\ (j + (p + 1)) + 2 = p + j + 3
      BY <1>2
    <3> QED BY <2>2, <2>4, <3>1
  <2> QED BY <1>2, <2>1, <2>4, <2>5 DEF R, n, p
<1> QED BY <1>3, <1>4, <1>5, <1>6

\* One answer more.
LEMMA AppendRange ==
    ASSUME NEW S, NEW s \in Seq(S), NEW e \in S
    PROVE  Append(s, e) \in Seq(S) /\ Range(Append(s, e)) = Range(s) \cup {e}
<1> DEFINE t == Append(s, e)
           n == Len(s)
<1>1. /\ t \in Seq(S) /\ DOMAIN t = 1..(n + 1) /\ n \in Nat /\ DOMAIN s = 1..n
      /\ t[n + 1] = e /\ \A i \in 1..n : t[i] = s[i]
  OBVIOUS
<1> HIDE DEF t, n
<1>2. \A i \in 1..(n + 1) : i \in 1..n \/ i = n + 1 BY <1>1
<1>3. \A i \in 1..n : i \in 1..(n + 1) BY <1>1
<1>4. n + 1 \in 1..(n + 1) BY <1>1
<1>5. \A x \in Range(t) : x \in Range(s) \cup {e} BY <1>1, <1>2 DEF Range
<1>6. \A x \in Range(s) : x \in Range(t) BY <1>1, <1>3 DEF Range
<1>7. e \in Range(t) BY <1>1, <1>4 DEF Range
<1> QED BY <1>1, <1>5, <1>6, <1>7 DEF t

\* The stream and what depends on the peer's choices stay what they are.
LEMMA PeerSame ==
    ASSUME WsInv, [Next]_vars
    PROVE  /\ script' = script /\ is_client' = is_client
           /\ Sent' = Sent /\ Stream' = Stream /\ \A i : Bad(i)' <=> Bad(i)
<1>1. script' = script /\ is_client' = is_client
  BY DEF Next, WsCb, Read, Handshake, Done, NotFrames, Reject, Handle, Limits, Ended,
         input, vars
<1> QED BY <1>1 DEF Sent, Stream, Bad

\* What arrives goes behind what is there.
LEMMA ReadKeeps ==
    ASSUME WsInv, Read
    PROVE  WsInv'
<1> DEFINE R == Range(Stream)
           m == Len(recv)
<1>1. /\ recv \in Seq(R) /\ pfn_data \in 0..m /\ m \in Nat /\ arrived \in 0..Len(Stream)
      /\ pc = "idle" /\ ~is_closing /\ parsed \in Nat /\ ofs = 0
  BY DEF WsInv, WsTyped, Read
<1>2. PICK n \in (arrived + 1)..Len(Stream) :
          recv' = recv \o SubSeq(Stream, arrived + 1, n) /\ arrived' = n
  BY DEF Read
<1>3. /\ pc' = "read" /\ UNCHANGED <<script, is_client, pfn_data, ofs, flags, history>>
  BY DEF Read
<1>4. /\ Sent' = Sent /\ Stream' = Stream /\ \A i : Bad(i)' <=> Bad(i)
  BY PeerSame DEF Next
<1>5. /\ Len(Stream) \in Nat /\ Stream \in Seq(R) /\ Len(Stream) = Sent + 3 * Frames
      /\ \A i \in 1..Len(Stream) : Stream[i] = Byte(i - Sent)
      /\ Sent \in {0, 1}
  BY StreamIs
<1> DEFINE b == SubSeq(Stream, arrived + 1, n)
           k == n - arrived
<1>6. b \in Seq(R) /\ Len(b) = k /\ \A j \in 1..k : b[j] = Stream[arrived + j]
  <2>1. /\ arrived + 1 \in 1..Len(Stream) /\ n \in (arrived + 1)..Len(Stream)
        /\ \A i \in 1..Len(Stream) : Stream[i] \in R
    BY <1>1, <1>2, <1>5
  <2>2. k \in Nat /\ n - (arrived + 1) + 1 = k BY <1>1, <1>2, <1>5
  <2> HIDE DEF R, k
  <2> QED BY <1>1, <1>5, <2>1, <2>2, SubSeqProperties
<1>7. k \in Nat \ {0} /\ arrived' = arrived + k /\ arrived' \in 0..Len(Stream)
  BY <1>1, <1>2, <1>5
<1> HIDE DEF R, m, b, k
<1>8. /\ recv' \in Seq(R) /\ Len(recv') = m + k
      /\ \A j \in 1..(m + k) : recv'[j] = IF j <= m THEN recv[j] ELSE Stream[arrived + (j - m)]
  <2>1. recv' = recv \o b BY <1>2 DEF b
  <2>2. /\ recv' \in Seq(R) /\ Len(recv') = m + k
        /\ \A j \in 1..(m + k) : recv'[j] = IF j <= m THEN recv[j] ELSE b[j - m]
    BY <1>1, <1>6, <2>1, ConcatProperties DEF m
  <2>3. ASSUME NEW j \in 1..(m + k), ~(j <= m) PROVE b[j - m] = Stream[arrived + (j - m)]
    <3>1. j - m \in 1..k BY <1>1, <1>7, <2>3
    <3> QED BY <1>6, <3>1
  <2> QED BY <2>2, <2>3
<1>9. WsTyped'
  <2>1. recv' \in Seq(Range(Stream')) /\ pfn_data' \in 0..Len(recv')
    BY <1>1, <1>3, <1>4, <1>7, <1>8 DEF R
  <2>2. ofs' = 0 BY <1>1, <1>3
  <2> QED BY <1>3, <1>4, <1>7, <2>1, <2>2 DEF WsInv, WsTyped, flags, history
<1>10. CASE Unanswered
  <2>1. /\ is_client /\ ~is_websocket /\ pfn_data = 0 /\ parsed = 0 /\ replies = <<>>
        /\ m = arrived /\ \A j \in 1..arrived : recv[j] = Stream[j]
    BY <1>10 DEF Unanswered, m
  <2>2. ASSUME NEW j \in 1..arrived' PROVE recv'[j] = Stream[j]
    <3>1. j \in 1..(m + k) BY <1>7, <2>1
    <3>2. ~(j <= m) => arrived + (j - m) = j BY <1>1, <2>1
    <3>3. j <= m => j \in 1..arrived BY <1>1, <2>1
    <3> QED BY <1>8, <2>1, <3>1, <3>2, <3>3
  <2>3. Unanswered'
    BY <1>1, <1>3, <1>4, <1>7, <1>8, <2>1, <2>2 DEF Unanswered, flags, history
  <2>4. ~WasRejected'
    <3>1. replies' = <<>> BY <1>3, <2>1 DEF history
    <3> QED BY <3>1 DEF WasRejected, Range
  <2> QED BY <1>3, <1>9, <2>3, <2>4 DEF WsInv, Blocked, Consumed
<1>11. CASE Behind
  <2> DEFINE U == arrived - Sent - 3 * parsed
  <2>1. m - pfn_data = U /\ \A j \in 1..(m - pfn_data) : recv[pfn_data + j] = Byte(3 * parsed + j)
    BY <1>11 DEF Behind, m
  <2>2. (m + k) - pfn_data = arrived' - Sent - 3 * parsed BY <1>1, <1>5, <1>7, <2>1
  <2>3. ASSUME NEW j \in 1..((m + k) - pfn_data)
        PROVE  recv'[pfn_data + j] = Byte(3 * parsed + j)
    <3>1. pfn_data + j \in 1..(m + k) BY <1>1, <1>7
    <3>2. CASE pfn_data + j <= m
      <4>1. j \in 1..(m - pfn_data) BY <1>1, <3>2
      <4> QED BY <1>8, <2>1, <3>1, <3>2, <4>1
    <3>3. CASE ~(pfn_data + j <= m)
      <4>1. arrived + ((pfn_data + j) - m) = Sent + 3 * parsed + j
        BY <1>1, <1>5, <2>1
      <4>2. Sent + 3 * parsed + j \in 1..Len(Stream)
        <5>1. Sent + 3 * parsed + j <= arrived' BY <1>1, <1>5, <1>7, <2>2
        <5> QED BY <1>1, <1>5, <1>7, <5>1
      <4>3. (Sent + 3 * parsed + j) - Sent = 3 * parsed + j BY <1>1, <1>5
      <4>4. Stream[Sent + 3 * parsed + j] = Byte(3 * parsed + j) BY <1>5, <4>2, <4>3
      <4> QED BY <1>8, <3>1, <3>3, <4>1, <4>4
    <3> QED BY <3>2, <3>3
  <2>4. is_websocket
    BY <1>1, <1>11 DEF Behind
  <2>5. Behind'
    <3>1. pfn_data' = pfn_data /\ parsed' = parsed /\ is_websocket' = is_websocket
      BY <1>3 DEF flags, history
    <3> QED BY <1>4, <1>8, <2>2, <2>3, <2>4, <3>1 DEF Behind
  <2>6. Blocked'
    <3>1. WasRejected' <=> WasRejected BY <1>3 DEF WasRejected, history
    <3>2. parsed' = parsed BY <1>3 DEF history
    <3>3. WasRejected => 3 * parsed + 3 <= arrived' - Sent
      BY <1>1, <1>5, <1>7 DEF WsInv, Blocked
    <3> QED BY <1>4, <2>5, <3>1, <3>2, <3>3 DEF WsInv, Blocked
  <2> QED BY <1>3, <1>9, <2>5, <2>6 DEF WsInv, Consumed
<1> QED BY <1>10, <1>11 DEF WsInv

\* The answer to the handshake is taken off the front, or ends everything.
LEMMA HandshakeKeeps ==
    ASSUME WsInv, Handshake
    PROVE  WsInv'
<1>1. /\ WsTyped /\ pc = "read" /\ pc' = "ws" /\ ofs' = pfn_data
      /\ UNCHANGED <<input, pfn_data, is_draining, history>>
      /\ recv \in Seq(Range(Stream)) /\ Len(recv) \in Nat /\ arrived \in Nat
  BY StreamIs DEF WsInv, WsTyped, Handshake
<1>2. /\ Sent' = Sent /\ Stream' = Stream /\ \A i : Bad(i)' <=> Bad(i)
  BY PeerSame DEF Next, WsCb
<1>3. WasRejected' <=> WasRejected BY <1>1 DEF WasRejected, history
<1>4. CASE is_client /\ ~is_websocket
  <2>1. Unanswered BY <1>1, <1>4 DEF WsInv, Behind
  <2>2. /\ pfn_data = 0 /\ parsed = 0 /\ replies = <<>> /\ Len(recv) = arrived /\ arrived > 0
        /\ Sent = 1 /\ Len(Stream) = Sent + 3 * Frames /\ arrived <= Len(Stream)
        /\ \A j \in 1..arrived : recv[j] = Stream[j]
    BY <1>1, <1>4, <2>1, StreamIs DEF Unanswered, WsTyped
  <2>3. ~WasRejected' BY <1>3, <2>2 DEF WasRejected, Range
  <2>4. CASE recv' = Del(recv, 0, 1) /\ (is_websocket' \/ is_closing')
             /\ is_websocket' \in BOOLEAN /\ is_closing' \in BOOLEAN
    <3>1. /\ recv' \in Seq(Range(Stream)) /\ Len(recv') = arrived - 1
          /\ \A j \in 1..(arrived - 1) : recv'[j] = recv[j + 1]
      <4>1. 1 \in Nat /\ 1 <= Len(recv) BY <1>1, <2>2
      <4>2. /\ Del(recv, 0, 1) \in Seq(Range(Stream)) /\ Len(Del(recv, 0, 1)) = Len(recv) - 1
            /\ \A j \in 1..(Len(recv) - 1) : Del(recv, 0, 1)[j] = recv[j + 1]
        BY <1>1, <4>1, DelFront
      <4> QED BY <2>2, <2>4, <4>2
    <3>2. ASSUME NEW j \in 1..(arrived - 1) PROVE recv'[j] = Byte(j)
      <4>1. j + 1 \in 1..arrived /\ j + 1 \in 1..(Sent + 3 * Frames) /\ (j + 1) - Sent = j
        BY <1>1, <2>2
      <4>2. recv'[j] = Stream[j + 1] BY <2>2, <3>1, <4>1
      <4> QED BY <4>1, <4>2, StreamIs
    <3>3. Behind'
      <4>1. pfn_data' = 0 /\ parsed' = 0 /\ arrived' = arrived /\ is_client'
        BY <1>1, <1>4, <2>2 DEF input, history
      <4>2. Len(recv') - 0 = arrived - Sent - 3 * 0 BY <1>1, <2>2, <3>1
      <4>3. \A j \in 1..(Len(recv') - 0) : recv'[0 + j] = Byte(3 * 0 + j)
        BY <1>1, <3>1, <3>2
      <4> QED BY <1>1, <1>2, <2>4, <4>1, <4>2, <4>3 DEF Behind
    <3>4. WsTyped'
      BY <1>1, <1>2, <2>2, <2>4, <3>1 DEF WsTyped, input, history
    <3> QED BY <1>1, <2>3, <3>3, <3>4 DEF WsInv, Blocked, Consumed
  <2>5. CASE is_closing' = TRUE /\ UNCHANGED <<recv, is_websocket>>
    <3>1. Unanswered' BY <1>1, <1>2, <1>4, <2>1, <2>2, <2>5 DEF Unanswered, input, history
    <3>2. WsTyped' BY <1>1, <1>2, <2>5 DEF WsTyped, input, history
    <3> QED BY <1>1, <2>3, <3>1, <3>2 DEF WsInv, Blocked, Consumed
  <2>6. is_closing \in BOOLEAN /\ is_websocket \in BOOLEAN BY <1>1 DEF WsTyped
  <2> QED BY <1>4, <2>4, <2>5, <2>6 DEF Handshake
<1>5. CASE ~(is_client /\ ~is_websocket)
  <2>1. UNCHANGED <<recv, is_websocket, is_closing>> BY <1>5 DEF Handshake
  <2>2. Behind BY <1>5 DEF WsInv, Unanswered
  <2>3. Behind'
    BY <1>1, <1>2, <1>5, <2>1, <2>2 DEF Behind, input, history
  <2>4. WsTyped' BY <1>1, <1>2, <2>1 DEF WsTyped, input, history
  <2>5. Blocked' BY <1>1, <1>2, <1>3, <2>3 DEF WsInv, Blocked, input, history
  <2> QED BY <1>1, <2>3, <2>4, <2>5 DEF WsInv, Consumed
<1> QED BY <1>4, <1>5

\* ws_cb() ends when no frame is complete, or on what is not a frame.
LEMMA DoneKeeps ==
    ASSUME WsInv, Done \/ NotFrames
    PROVE  WsInv'
<1>1. /\ WsTyped /\ pc = "ws" /\ pc' = "idle" /\ ofs' = 0
      /\ UNCHANGED <<input, recv, pfn_data, is_websocket, is_closing, history>>
      /\ is_draining' \in BOOLEAN
      /\ Len(recv) \in Nat /\ parsed \in Nat /\ pfn_data \in 0..Len(recv)
  BY StreamIs DEF WsInv, WsTyped, Done, NotFrames, flags
<1>2. /\ Sent' = Sent /\ Stream' = Stream /\ \A i : Bad(i)' <=> Bad(i)
  BY PeerSame DEF Next, WsCb
<1>3. WasRejected' <=> WasRejected BY <1>1 DEF WasRejected, history
<1>4. WsTyped' BY <1>1, <1>2 DEF WsTyped, input, history
<1>5. Unanswered => Unanswered' BY <1>1, <1>2 DEF Unanswered, input, history
<1>6. Behind => Behind' BY <1>1, <1>2 DEF Behind, input, history
<1>7. Blocked' BY <1>1, <1>2, <1>3, <1>6 DEF WsInv, Blocked, input, history
<1>8. Consumed'
  <2>1. CASE Done
    <3>1. ~(Len(recv) - pfn_data >= 3) BY <1>1, <2>1, RestIs DEF Done
    <3>2. Len(recv) - pfn_data < 3 BY <1>1, <3>1
    <3> QED BY <1>1, <3>2 DEF Consumed
  <2>2. CASE NotFrames
    <3>1. ~is_websocket
      <4> SUFFICES ASSUME Behind PROVE FALSE BY DEF WsInv, Unanswered
      <4>1. Len(recv) - pfn_data >= 3 BY <1>1, <2>2, RestIs DEF NotFrames
      <4>2. 1 \in 1..(Len(recv) - pfn_data) BY <1>1, <4>1
      <4>3. Rest[1] = Byte(3 * parsed + 1) BY <1>1, <4>2, RestIs DEF Behind
      <4>4. 3 * parsed + 1 \in Nat \ {0} BY <1>1
      <4> QED BY <2>2, <4>3, <4>4, ByteIs DEF NotFrames, Junk
    <3> QED BY <1>1, <3>1 DEF Consumed
  <2> QED BY <2>1, <2>2
<1> QED BY <1>4, <1>5, <1>6, <1>7, <1>8 DEF WsInv

\* A frame that is rejected stays where it is, and is the next one again.
LEMMA RejectKeeps ==
    ASSUME WsInv, Reject
    PROVE  WsInv'
<1>1. /\ WsTyped /\ pc = "ws" /\ pc' = "idle" /\ ofs' = 0 /\ recv' = recv
      /\ replies' = Append(replies, <<"1002", This>>) /\ is_draining' = TRUE
      /\ UNCHANGED <<input, pfn_data, is_websocket, is_closing, parsed, delivered>>
      /\ Len(recv) \in Nat /\ parsed \in Nat /\ pfn_data \in 0..Len(recv)
      /\ arrived \in 0..Len(Stream) /\ replies \in Seq({"1002", "PONG", "CLOSE"} \X Int)
  BY StreamIs DEF WsInv, WsTyped, Reject, Rejected, AtFrame
<1>2. /\ Sent' = Sent /\ Stream' = Stream /\ \A i : Bad(i)' <=> Bad(i)
  BY PeerSame DEF Next, WsCb
<1>3. /\ Behind /\ Len(recv) - pfn_data >= 3 /\ This = parsed + 1 /\ Bad(parsed + 1)
  BY AtFrameIs DEF Reject
<1>4. 3 * parsed + 3 <= arrived - Sent
  <2>1. Sent \in {0, 1} BY StreamIs
  <2>2. Len(recv) - pfn_data = arrived - Sent - 3 * parsed BY <1>3 DEF Behind
  <2>3. arrived \in Int BY <1>1, StreamIs
  <2> QED BY <1>1, <1>3, <2>1, <2>2, <2>3
<1>5. parsed + 1 \in 1..Frames
  BY <1>1, <1>4, StreamIs, WsAssumption
<1>6. replies' \in Seq({"1002", "PONG", "CLOSE"} \X Int) /\ <<"1002", parsed + 1>> \in Range(replies')
  <2> DEFINE W == {"1002", "PONG", "CLOSE"} \X Int
             e == <<"1002", parsed + 1>>
  <2>1. e \in W BY <1>5
  <2>2. replies \in Seq(W) BY <1>1
  <2>3. replies' = Append(replies, e) BY <1>1, <1>3
  <2> HIDE DEF W, e
  <2>4. Append(replies, e) \in Seq(W) /\ Range(Append(replies, e)) = Range(replies) \cup {e}
    BY <2>1, <2>2, AppendRange
  <2>5. replies' \in Seq(W) /\ e \in Range(replies') BY <2>3, <2>4
  <2> QED BY <2>5 DEF W, e
<1>7. WasRejected' BY <1>5, <1>6 DEF WasRejected
<1>8. WsTyped' BY <1>1, <1>2, <1>6 DEF WsTyped, input
<1>9. Behind' BY <1>1, <1>2, <1>3 DEF Behind, input
<1>10. Blocked' BY <1>1, <1>2, <1>3, <1>4, <1>9 DEF Blocked, input
<1>11. Consumed' BY <1>7 DEF Consumed
<1> QED BY <1>8, <1>9, <1>10, <1>11 DEF WsInv

\* A frame that is handled is the one after those that were.
LEMMA HandleKeeps ==
    ASSUME WsInv, Handle
    PROVE  WsInv'
<1>0. AtFrame /\ ~Violation /\ Dispatch
  BY DEF Handle, Single, Begin, Continue, End
<1>1. /\ WsTyped /\ pc = "ws" /\ pc' = "ws" /\ parsed' = parsed + 1
      /\ UNCHANGED <<input, is_websocket>>
      /\ Len(recv) \in Nat /\ parsed \in Nat /\ pfn_data \in 0..Len(recv) /\ arrived \in Int
      /\ replies \in Seq({"1002", "PONG", "CLOSE"} \X Int)
      /\ is_closing \in BOOLEAN /\ is_draining \in BOOLEAN
  BY <1>0, StreamIs DEF WsInv, WsTyped, Handle, AtFrame
<1>2. /\ Sent' = Sent /\ Stream' = Stream /\ Sent \in {0, 1}
  BY PeerSame, StreamIs DEF Next, WsCb
<1>3. /\ Behind /\ Len(recv) - pfn_data >= 3 /\ This = parsed + 1 /\ ~WasRejected
  BY <1>0, AtFrameIs
<1>4. /\ recv' \in Seq(Range(Stream)) /\ pfn_data' \in 0..Len(recv') /\ ofs' = pfn_data'
      /\ Len(recv') - pfn_data' = Len(recv) - pfn_data - 3
      /\ \A j \in 1..(Len(recv) - pfn_data - 3) : recv'[pfn_data' + j] = recv[pfn_data + j + 3]
  BY HandleCuts DEF Handle
<1>5. replies' \in Seq({"1002", "PONG", "CLOSE"} \X Int) /\ ~WasRejected'
  <2>1. \/ replies' = replies
        \/ replies' = Append(replies, <<"PONG", This>>)
        \/ replies' = Append(replies, <<"CLOSE", This>>)
    BY <1>0 DEF Dispatch
  <2>2. This \in Int BY <1>1, <1>3
  <2>3. ASSUME NEW w \in {"PONG", "CLOSE"}, replies' = Append(replies, <<w, This>>)
        PROVE  replies' \in Seq({"1002", "PONG", "CLOSE"} \X Int) /\ ~WasRejected'
    <3> DEFINE W == {"1002", "PONG", "CLOSE"} \X Int
               e == <<w, This>>
    <3>1. e \in W /\ replies \in Seq(W) /\ replies' = Append(replies, e) BY <1>1, <2>2, <2>3
    <3>2. /\ replies' \in Seq({"1002", "PONG", "CLOSE"} \X Int)
          /\ Range(replies') = Range(replies) \cup {<<w, This>>}
      <4> HIDE DEF W, e
      <4>1. /\ Append(replies, e) \in Seq(W)
            /\ Range(Append(replies, e)) = Range(replies) \cup {e}
        BY <3>1, AppendRange
      <4>2. replies' \in Seq(W) /\ Range(replies') = Range(replies) \cup {e} BY <3>1, <4>1
      <4> QED BY <4>2 DEF W, e
    <3>3. \A i : <<"1002", i>> # <<w, This>> OBVIOUS
    <3> QED BY <1>3, <3>2, <3>3 DEF WasRejected
  <2>4. replies' = replies => ~WasRejected' BY <1>3 DEF WasRejected
  <2> QED BY <1>1, <2>1, <2>3, <2>4
<1>6. is_closing' \in BOOLEAN /\ is_draining' \in BOOLEAN /\ (is_closing => is_closing')
  BY <1>0, <1>1 DEF Dispatch
<1>7. WsTyped' BY <1>1, <1>2, <1>4, <1>5, <1>6 DEF WsTyped, input
<1>8. Behind'
  <2>1. /\ Len(recv) - pfn_data = arrived - Sent - 3 * parsed
        /\ \A j \in 1..(Len(recv) - pfn_data) : recv[pfn_data + j] = Byte(3 * parsed + j)
        /\ ~is_websocket => is_client /\ is_closing
    BY <1>3 DEF Behind
  <2>2. Len(recv') - pfn_data' = arrived - Sent - 3 * (parsed + 1)
    BY <1>1, <1>2, <1>4, <2>1
  <2>3. ASSUME NEW j \in 1..(Len(recv) - pfn_data - 3)
        PROVE  recv'[pfn_data' + j] = Byte(3 * (parsed + 1) + j)
    <3>1. /\ j + 3 \in 1..(Len(recv) - pfn_data) /\ pfn_data + j + 3 = pfn_data + (j + 3)
          /\ 3 * parsed + (j + 3) = 3 * (parsed + 1) + j
      BY <1>1
    <3>2. recv[pfn_data + (j + 3)] = Byte(3 * parsed + (j + 3)) BY <2>1, <3>1
    <3> QED BY <1>4, <3>1, <3>2
  <2> QED BY <1>1, <1>2, <1>4, <1>6, <2>1, <2>2, <2>3 DEF Behind, input
<1> QED BY <1>1, <1>5, <1>7, <1>8 DEF WsInv, Blocked, Consumed

\* The end of the visit.
LEMMA LimitsKeeps ==
    ASSUME WsInv, Limits \/ Ended \/ UNCHANGED vars
    PROVE  WsInv'
<1>1. /\ UNCHANGED <<input, recv, pfn_data, ofs, flags, history>>
      /\ pc' = pc \/ (pc = "idle" /\ pc' = "gone")
  BY DEF Limits, Ended, vars
<1>2. /\ Sent' = Sent /\ Stream' = Stream /\ \A i : Bad(i)' <=> Bad(i)
  BY PeerSame DEF Next
<1>3. WasRejected' <=> WasRejected BY <1>1 DEF WasRejected, history
<1>4. WsTyped' BY <1>1, <1>2 DEF WsInv, WsTyped, input, flags, history
<1>5. Unanswered => Unanswered' BY <1>1, <1>2 DEF Unanswered, input, flags, history
<1>6. Behind => Behind' BY <1>1, <1>2 DEF Behind, input, flags, history
<1>7. Blocked' BY <1>1, <1>2, <1>3, <1>6 DEF WsInv, Blocked, input, history
<1>8. Consumed' BY <1>1, <1>3 DEF WsInv, Consumed, flags
<1> QED BY <1>4, <1>5, <1>6, <1>7, <1>8 DEF WsInv

-----------------------------------------------------------------------------
\* A connection starts with nothing received.
LEMMA WsInit == Init => WsInv
<1> SUFFICES ASSUME Init PROVE WsInv OBVIOUS
<1>1. /\ script \in [1..Frames -> DOMAIN Frame] /\ is_client \in BOOLEAN
      /\ arrived = 0 /\ recv = <<>> /\ pfn_data = 0 /\ ofs = 0 /\ parsed = 0
      /\ is_websocket = ~is_client /\ is_draining = FALSE /\ is_closing = FALSE
      /\ pc = "idle" /\ replies = <<>>
  BY WsAssumption DEF Init
<1>2. /\ 0 \in 0..Len(Stream) /\ <<>> \in Seq(Range(Stream)) /\ Len(<<>>) = 0
      /\ <<>> \in Seq({"1002", "PONG", "CLOSE"} \X Int)
  BY StreamIs
<1>3. WsTyped
  <2>1. is_websocket \in BOOLEAN /\ is_draining \in BOOLEAN /\ is_closing \in BOOLEAN
    BY <1>1, Zenon
  <2>2. /\ arrived \in 0..Len(Stream) /\ recv \in Seq(Range(Stream))
        /\ replies \in Seq({"1002", "PONG", "CLOSE"} \X Int)
    BY <1>1, <1>2, Zenon
  <2>3. /\ pfn_data \in 0..Len(recv) /\ parsed \in Nat
        /\ pc \in {"idle", "read", "ws", "gone"}
    BY <1>1, <1>2
  <2>4. ofs = IF pc = "ws" THEN pfn_data ELSE 0 BY <1>1
  <2> QED BY <1>1, <2>1, <2>2, <2>3, <2>4, Zenon DEF WsTyped
<1>4. ASSUME is_client PROVE Unanswered
  <2>1. ~is_websocket BY <1>1, <1>4, Zenon
  <2>2. Len(recv) = arrived /\ \A j \in 1..arrived : recv[j] = Stream[j] BY <1>1, <1>2
  <2>3. ~(arrived > 0) /\ pc \notin {"read", "ws"} BY <1>1
  <2> QED BY <1>1, <1>4, <2>1, <2>2, <2>3, Zenon DEF Unanswered
<1>5. ASSUME ~is_client PROVE Behind
  <2>1. is_websocket BY <1>1, <1>5, Zenon
  <2>2. Sent = 0 BY <1>5 DEF Sent
  <2>3. /\ Len(recv) - pfn_data = arrived - Sent - 3 * parsed
        /\ Len(recv) - pfn_data = 0
    BY <1>1, <1>2, <2>2
  <2>4. \A j \in 1..(Len(recv) - pfn_data) : FALSE BY <2>3
  <2> QED BY <2>1, <2>3, <2>4, Zenon DEF Behind
<1>6. ~WasRejected BY <1>1 DEF WasRejected, Range
<1>7. Consumed BY <1>1, <1>2 DEF Consumed
<1> QED BY <1>1, <1>3, <1>4, <1>5, <1>6, <1>7 DEF WsInv, Blocked

\* The invariant is kept by whatever ws_cb() and its connection do.
THEOREM WsInvariant == Spec => []WsInv
<1>1. Init => WsInv BY WsInit
<1>2. WsInv /\ [Next]_vars => WsInv'
  <2> SUFFICES ASSUME WsInv, [Next]_vars PROVE WsInv' OBVIOUS
  <2>1. CASE Read BY <2>1, ReadKeeps
  <2>2. CASE Handshake BY <2>2, HandshakeKeeps
  <2>3. CASE Done \/ NotFrames BY <2>3, DoneKeeps
  <2>4. CASE Reject BY <2>4, RejectKeeps
  <2>5. CASE Handle BY <2>5, HandleKeeps
  <2>6. CASE Limits \/ Ended \/ UNCHANGED vars BY <2>6, LimitsKeeps
  <2> QED BY <2>1, <2>2, <2>3, <2>4, <2>5, <2>6 DEF Next, WsCb
<1> QED BY <1>1, <1>2, PTL DEF Spec

\* What the invariant says at the end of ws_cb().
LEMMA WsInvSays ==
    ASSUME WsInv, script \in Scripts
    PROVE  NothingStuck
<1>1. /\ arrived \in 0..Len(Stream) /\ recv \in Seq(Range(Stream))
      /\ pfn_data \in 0..Len(recv) /\ ofs \in {0, pfn_data} /\ parsed \in Nat
      /\ {is_client, is_websocket, is_draining, is_closing} \subseteq BOOLEAN
      /\ pc \in {"idle", "read", "ws", "gone"} /\ Len(recv) \in Nat
  BY DEF WsInv, WsTyped
<1>2. Sent \in {0, 1} /\ Len(Stream) = Sent + 3 * Frames /\ Frames \in Nat
  BY StreamIs, WsAssumption
<1>3. Behind => Len(recv) - pfn_data = arrived - Sent - 3 * parsed BY DEF Behind
<1>4. parsed \in 0..Frames
  <2>1. CASE Unanswered BY <1>2, <2>1 DEF Unanswered
  <2>2. CASE Behind
    <3>1. Len(recv) - pfn_data = arrived - Sent - 3 * parsed BY <1>3, <2>2
    <3>2. 3 * parsed <= 3 * Frames BY <1>1, <1>2, <3>1
    <3> QED BY <1>1, <1>2, <3>2
  <2> QED BY <2>1, <2>2 DEF WsInv
<1>5. ofs \in 0..Len(recv) BY <1>1
<1>6. TypeOK BY <1>1, <1>4, <1>5 DEF TypeOK
<1>7. ASSUME pc = "idle", is_websocket, ~WasRejected PROVE parsed = (arrived - Sent) \div 3
  <2>1. Behind BY <1>7 DEF WsInv, Unanswered
  <2>2. Len(recv) - pfn_data \in 0..2 BY <1>1, <1>7 DEF WsInv, Consumed
  <2>3. arrived - Sent - 3 * parsed \in 0..2 /\ arrived - Sent \in Int
    BY <1>1, <1>2, <1>3, <2>1, <2>2
  <2> QED BY <1>1, <2>3
<1> QED BY <1>6, <1>7 DEF NothingStuck

\* Whenever ws_cb() has returned it has handled every complete frame, unless it
\* rejected one, and its lengths lie within the buffer (NothingStuck): what is
\* behind the message under assembly is what arrived and was not parsed, and it
\* is less than a frame.
THEOREM FramesAreNotStuck == Spec => []NothingStuck
<1>1. Init => script \in Scripts BY DEF Init
<1>2. script \in Scripts /\ [Next]_vars => (script \in Scripts)'
  BY DEF Next, WsCb, Read, Handshake, Done, NotFrames, Reject, Handle, Limits, Ended, vars, input
<1>3. WsInv /\ script \in Scripts => NothingStuck BY WsInvSays
<1> QED BY <1>1, <1>2, <1>3, WsInvariant, PTL DEF Spec

\* Once a frame was answered with 1002 nothing more is delivered or handled
\* (RejectionIsFinal): that frame stays in front, so that whatever follows it,
\* and however often the connection is read while it drains, it is met first.
THEOREM RejectionsAreFinal == Spec => RejectionIsFinal
<1>1. WsInv /\ [Next]_vars => [WasRejected => UNCHANGED <<delivered, parsed>>]_vars
  <2> SUFFICES ASSUME WsInv, [Next]_vars, WasRejected
               PROVE  UNCHANGED <<delivered, parsed>>
    OBVIOUS
  <2>1. ~Handle BY AtFrameIs DEF Handle, Single, Begin, Continue, End
  <2> QED BY <2>1 DEF Next, WsCb, Read, Handshake, Done, NotFrames, Reject, Limits, Ended,
                      vars, history
<1> QED BY <1>1, WsInvariant, PTL DEF Spec, RejectionIsFinal

-----------------------------------------------------------------------------
(* The message under assembly, in front of what was not parsed.            *)

Bytes == Int \X {"f", "h", "d"}
Message == [flag : Bytes, data : Seq(Bytes)]

\* What the first n frames complete.
Messages(n) == FlattenSeq([i \in 1..n |-> MessageOf(i)])

\* The first p elements of s are a message begun at j, up to frame n: the first
\* byte of the frame that began it, then the data of its fragments.
AtFront(j, n, s, p) ==
    LET d == Data(j, n)
    IN  p = Len(d) + 1 /\ s[1] = <<j, "f">> /\ \A k \in 1..Len(d) : s[k + 1] = d[k]

\* While the peer has followed the rules, what was delivered is what it completed,
\* and the front of the buffer, up to pfn_data, is what it began.
Assembling ==
    Legal(parsed) =>
        /\ delivered = Messages(parsed)
        /\ ~OpenAfter(parsed) => pfn_data = 0
        /\ \A j \in 1..parsed : OpenSince(j, parsed) => AtFront(j, parsed, recv, pfn_data)

\* Which bytes of the stream are those of a frame.
LEMMA FrameBytes ==
    ASSUME NEW k \in Nat
    PROVE  Byte(3 * k + 1) = <<k + 1, "f">> /\ Byte(3 * k + 3) = <<k + 1, "d">>
<1>1. ASSUME NEW n \in Nat \ {0} PROVE Byte(n) = <<(n + 2) \div 3, Marks[((n + 2) % 3) + 1]>>
  BY DEF Byte
<1>2. /\ 3 * k + 1 \in Nat \ {0} /\ ((3 * k + 1) + 2) \div 3 = k + 1
      /\ (((3 * k + 1) + 2) % 3) + 1 = 1
  OBVIOUS
<1>3. /\ 3 * k + 3 \in Nat \ {0} /\ ((3 * k + 3) + 2) \div 3 = k + 1
      /\ (((3 * k + 3) + 2) % 3) + 1 = 3
  OBVIOUS
<1>4. Marks[1] = "f" /\ Marks[3] = "d" BY DEF Marks
<1> QED BY <1>1, <1>2, <1>3, <1>4

\* What the kinds of frames are to ws_cb().
LEMMA KindIs ==
    ASSUME NEW k \in DOMAIN Frame
    PROVE  /\ Frame[k].op = "cont" <=> k \in {"more", "last"}
           /\ Frame[k].final <=> k \notin {"begin", "more", "badctl"}
           /\ Frame[k].op = "text" <=> k \in {"text", "begin", "unmasked"}
           /\ Frame[k].op \in {"text", "cont", "ping", "pong", "close", "other"}
           /\ Frame[k].op = "other" <=> k = "unknown"
BY DEF Frame

\* A message that is open was begun by one frame.
LEMMA OneOpen ==
    ASSUME NEW n \in Nat, NEW i, NEW j, OpenSince(i, n), OpenSince(j, n)
    PROVE  i = j
<1>1. i \in 1..n /\ j \in 1..n /\ script[i] = "begin" /\ script[j] = "begin" BY DEF OpenSince
<1>2. ~(i < j)
  <2> SUFFICES ASSUME i < j PROVE FALSE OBVIOUS
  <2>1. j \in (i + 1)..n BY <1>1
  <2> QED BY <1>1, <2>1 DEF OpenSince
<1>3. ~(j < i)
  <2> SUFFICES ASSUME j < i PROVE FALSE OBVIOUS
  <2>1. i \in (j + 1)..n BY <1>1
  <2> QED BY <1>1, <2>1 DEF OpenSince
<1> QED BY <1>1, <1>2, <1>3

\* What one frame more does to the message that is open.
LEMMA OpenNext ==
    ASSUME NEW n \in Nat, NEW j
    PROVE  OpenSince(j, n + 1) <=>
              \/ j = n + 1 /\ script[n + 1] = "begin"
              \/ OpenSince(j, n) /\ script[n + 1] \notin {"begin", "last"}
<1>1. ASSUME OpenSince(j, n + 1), j # n + 1
      PROVE  OpenSince(j, n) /\ script[n + 1] \notin {"begin", "last"}
  <2>1. j \in 1..(n + 1) /\ script[j] = "begin" BY <1>1 DEF OpenSince
  <2>2. j \in 1..n /\ n + 1 \in (j + 1)..(n + 1) /\ \A k \in (j + 1)..n : k \in (j + 1)..(n + 1)
    BY <1>1, <2>1
  <2> QED BY <1>1, <2>1, <2>2 DEF OpenSince
<1>2. ASSUME OpenSince(j, n), script[n + 1] \notin {"begin", "last"} PROVE OpenSince(j, n + 1)
  <2>1. j \in 1..n /\ script[j] = "begin" BY <1>2 DEF OpenSince
  <2>2. /\ j \in 1..(n + 1) /\ \A k \in (j + 1)..(n + 1) : k \in (j + 1)..n \/ k = n + 1
    BY <2>1
  <2> QED BY <1>2, <2>1, <2>2 DEF OpenSince
<1>3. script[n + 1] = "begin" => OpenSince(n + 1, n + 1) BY DEF OpenSince
<1>4. OpenSince(n + 1, n + 1) => script[n + 1] = "begin" BY DEF OpenSince
<1> QED BY <1>1, <1>2, <1>3, <1>4

\* And to the data of its fragments: nothing came before it was begun.
LEMMA DataNext ==
    ASSUME NEW j \in Int, NEW n \in Nat
    PROVE  /\ Data(j, n) \in Seq(Bytes) /\ Data(j, 0) = <<>>
           /\ Data(j, n + 1) = IF n + 1 >= j /\ script[n + 1] \in Fragments
                               THEN Append(Data(j, n), <<n + 1, "d">>) ELSE Data(j, n)
<1> DEFINE f == [k \in 1..(n + 1) |-> IF k >= j /\ script[k] \in Fragments
                                      THEN <<<<k, "d">>>> ELSE <<>>]
           Q == FlattenSeq([k \in 1..n |-> f[k]])
<1>1. \A k \in 1..(n + 1) : f[k] \in Seq(Bytes)
  <2> TAKE k \in 1..(n + 1)
  <2>1. <<k, "d">> \in Bytes BY DEF Bytes
  <2>2. <<>> \in Seq(Bytes) /\ <<<<k, "d">>>> \in Seq(Bytes) BY <2>1
  <2> QED BY <2>2
<1>2. Data(j, n) = Q
  <2>1. [k \in 1..n |-> f[k]] = [k \in 1..n |-> IF k >= j /\ script[k] \in Fragments
                                               THEN <<<<k, "d">>>> ELSE <<>>]
    OBVIOUS
  <2> QED BY <2>1 DEF Data
<1>3. Data(j, n + 1) = FlattenSeq([k \in 1..(n + 1) |-> f[k]])
  <2>1. [k \in 1..(n + 1) |-> f[k]] = f OBVIOUS
  <2> QED BY <2>1 DEF Data
<1>4. f[n + 1] = IF n + 1 >= j /\ script[n + 1] \in Fragments THEN <<<<n + 1, "d">>>> ELSE <<>>
  BY n + 1 \in 1..(n + 1)
<1> HIDE DEF f, Q
<1>5. Q \in Seq(Bytes) /\ FlattenSeq([k \in 1..(n + 1) |-> f[k]]) = Q \o f[n + 1]
  BY <1>1, FlattenNext DEF Q
<1>6. Data(j, 0) = <<>>
  <2>1. Data(j, 0) = FlattenSeq(<<>>)
    <3>1. [k \in 1..0 |-> IF k >= j /\ script[k] \in Fragments THEN <<<<k, "d">>>> ELSE <<>>] = <<>>
      OBVIOUS
    <3> QED BY <3>1 DEF Data
  <2>2. <<>> \in Seq(Seq(Bytes)) /\ <<>> \in Seq(Bytes) OBVIOUS
  <2> QED BY <2>1, <2>2, FlattenAppend
<1>7. <<n + 1, "d">> \in Bytes BY DEF Bytes
<1>8. Q \o <<>> = Q /\ Q \o <<<<n + 1, "d">>>> = Append(Q, <<n + 1, "d">>)
  BY <1>5, <1>7, ConcatEmptySeq, AppendIsConcat
<1> QED BY <1>2, <1>3, <1>4, <1>5, <1>6, <1>8

\* Before a message is begun it has no data.
LEMMA NoDataBefore ==
    ASSUME NEW n \in Nat
    PROVE  Data(n + 1, n) = <<>>
<1> DEFINE K == {m \in 0..n : Data(n + 1, m) = <<>>}
<1>1. n + 1 \in Int /\ 0 \in Nat /\ 0 \in 0..n OBVIOUS
<1>2. 0 \in K BY <1>1, DataNext
<1>3. ASSUME NEW m \in 0..(n - 1), m \in K PROVE m + 1 \in K
  <2>1. m \in Nat /\ ~(m + 1 >= n + 1) /\ m + 1 \in 0..n OBVIOUS
  <2> QED BY <1>1, <1>3, <2>1, DataNext
<1> HIDE DEF K
<1>4. \A m \in 0..n : m \in K BY <1>1, <1>2, <1>3, Induction
<1>5. n \in K BY <1>4
<1> QED BY <1>5 DEF K

\* What a peer that followed the rules sent so far followed them all along.
LEMMA LegalBefore ==
    ASSUME NEW n \in Nat, Legal(n + 1)
    PROVE  /\ Legal(n)
           /\ script[n + 1] # "unknown"
           /\ script[n + 1] \in {"more", "last"} => OpenAfter(n)
           /\ script[n + 1] \in {"text", "unmasked", "begin"} => ~OpenAfter(n)
<1>1. n + 1 \in 1..(n + 1) /\ (n + 1) - 1 = n /\ \A i \in 1..n : i \in 1..(n + 1) /\ i # n + 1
  OBVIOUS
<1>2. Legal(n) BY <1>1 DEF Legal
<1> QED BY <1>1, <1>2 DEF Legal

\* The messages a frame completes.
LEMMA MessageIs ==
    ASSUME NEW n \in Nat, Legal(n + 1)
    PROVE  /\ MessageOf(n + 1) \in Seq(Message)
           /\ script[n + 1] \in {"text", "unmasked"} =>
                 MessageOf(n + 1) = <<[flag |-> <<n + 1, "f">>, data |-> <<<<n + 1, "d">>>>]>>
           /\ script[n + 1] = "last" => \E j \in 1..n :
                 /\ OpenSince(j, n)
                 /\ MessageOf(n + 1) = <<[flag |-> <<j, "f">>, data |-> Data(j, n + 1)]>>
           /\ script[n + 1] \notin {"text", "unmasked", "last"} => MessageOf(n + 1) = <<>>
<1>0. (n + 1) - 1 = n OBVIOUS
<1>1. CASE script[n + 1] \in {"text", "unmasked"}
  <2> DEFINE m == [flag |-> <<n + 1, "f">>, data |-> <<<<n + 1, "d">>>>]
  <2>1. MessageOf(n + 1) = <<m>> BY <1>1 DEF MessageOf
  <2>2. <<n + 1, "f">> \in Bytes /\ <<n + 1, "d">> \in Bytes BY DEF Bytes
  <2>3. m \in Message BY <2>2 DEF Message
  <2> HIDE DEF m
  <2>4. <<m>> \in Seq(Message) BY <2>3
  <2> QED BY <1>1, <2>1, <2>4 DEF m
<1>2. CASE script[n + 1] = "last"
  <2>1. PICK j \in 1..n : OpenSince(j, n) BY <1>2, LegalBefore DEF OpenAfter
  <2> DEFINE J == CHOOSE i \in 1..(n + 1) : OpenSince(i, n)
  <2>2. \E i \in 1..(n + 1) : OpenSince(i, n)
    <3>1. j \in 1..(n + 1) OBVIOUS
    <3> QED BY <2>1, <3>1
  <2>3. OpenSince(J, n) BY <2>2
  <2>4. J = j BY <2>1, <2>3, OneOpen
  <2> DEFINE m == [flag |-> <<j, "f">>, data |-> Data(j, n + 1)]
  <2>5. MessageOf(n + 1) = <<m>> BY <1>0, <1>2, <2>4 DEF MessageOf
  <2>6. m \in Message
    <3>1. j \in Int /\ n + 1 \in Nat OBVIOUS
    <3>2. Data(j, n + 1) \in Seq(Bytes) BY <3>1, DataNext
    <3>3. <<j, "f">> \in Bytes BY <3>1 DEF Bytes
    <3> QED BY <3>2, <3>3 DEF Message
  <2>7. MessageOf(n + 1) \in Seq(Message)
    <3> HIDE DEF m
    <3>1. <<m>> \in Seq(Message) BY <2>6
    <3> QED BY <2>5, <3>1
  <2> QED BY <1>2, <2>1, <2>5, <2>7
<1>3. CASE script[n + 1] \notin {"text", "unmasked", "last"}
  <2>1. MessageOf(n + 1) = <<>> /\ <<>> \in Seq(Message) BY <1>3 DEF MessageOf
  <2> QED BY <1>3, <2>1
<1> QED BY <1>1, <1>2, <1>3

\* All of them, and those of one frame more.
LEMMA MessagesNext ==
    ASSUME NEW n \in Nat, Legal(n + 1)
    PROVE  /\ FlattenSeq([i \in 1..n |-> MessageOf(i)]) \in Seq(Message)
           /\ FlattenSeq([i \in 1..(n + 1) |-> MessageOf(i)])
                = FlattenSeq([i \in 1..n |-> MessageOf(i)]) \o MessageOf(n + 1)
<1> DEFINE f == [i \in 1..(n + 1) |-> MessageOf(i)]
           K == {m \in 0..(n + 1) : Legal((n + 1) - m)}
<1>1. \A m \in 0..(n + 1) : m \in K
  <2>1. 0 \in K
    <3>1. 0 \in 0..(n + 1) /\ (n + 1) - 0 = n + 1 OBVIOUS
    <3> QED BY <3>1
  <2>2. ASSUME NEW m \in 0..((n + 1) - 1), m \in K PROVE m + 1 \in K
    <3> DEFINE k == (n + 1) - (m + 1)
    <3>1. k \in Nat /\ (n + 1) - m = k + 1 /\ m + 1 \in 0..(n + 1) OBVIOUS
    <3>2. Legal(k + 1) BY <2>2, <3>1
    <3> HIDE DEF k
    <3>3. Legal(k) BY <3>1, <3>2, LegalBefore
    <3> QED BY <3>1, <3>3 DEF k
  <2>3. 0 \in Nat /\ n + 1 \in Nat OBVIOUS
  <2> HIDE DEF K
  <2> QED BY <2>1, <2>2, <2>3, Induction
<1>2. ASSUME NEW i \in 1..(n + 1) PROVE f[i] \in Seq(Message)
  <2>0. /\ (n + 1) - i \in 0..(n + 1) /\ (n + 1) - ((n + 1) - i) = i
        /\ i - 1 \in Nat /\ (i - 1) + 1 = i
    OBVIOUS
  <2>1. (n + 1) - i \in K BY <1>1, <2>0
  <2>2. Legal((i - 1) + 1) BY <2>0, <2>1
  <2>3. MessageOf((i - 1) + 1) \in Seq(Message) BY <2>0, <2>2, MessageIs
  <2> QED BY <2>0, <2>3
<1>3. [i \in 1..n |-> f[i]] = [i \in 1..n |-> MessageOf(i)] OBVIOUS
<1>4. [i \in 1..(n + 1) |-> f[i]] = [i \in 1..(n + 1) |-> MessageOf(i)] OBVIOUS
<1>5. f[n + 1] = MessageOf(n + 1) BY n + 1 \in 1..(n + 1)
<1> HIDE DEF f
<1>6. /\ FlattenSeq([i \in 1..n |-> f[i]]) \in Seq(Message)
      /\ FlattenSeq([i \in 1..(n + 1) |-> f[i]])
           = FlattenSeq([i \in 1..n |-> f[i]]) \o f[n + 1]
  BY <1>2, FlattenNext
<1> QED BY <1>3, <1>4, <1>5, <1>6

\* The bytes of the frame at hand, and what cutting out its header leaves.
LEMMA FrameAt ==
    ASSUME WsInv, AtFrame
    PROVE  /\ Rest[1] = <<parsed + 1, "f">> /\ Rest[3] = <<parsed + 1, "d">>
           /\ recv[pfn_data + 1] = Rest[1] /\ recv[pfn_data + 3] = Rest[3]
           /\ parsed + 1 \in 1..Frames /\ F = Frame[script[parsed + 1]]
           /\ script[parsed + 1] \in DOMAIN Frame
<1>1. /\ Behind /\ Len(recv) - pfn_data >= 3 /\ This = parsed + 1 BY AtFrameIs
<1>2. /\ pc = "ws" /\ parsed \in Nat /\ pfn_data \in 0..Len(recv) /\ Len(recv) \in Nat
      /\ arrived \in 0..Len(Stream) /\ script \in [1..Frames -> DOMAIN Frame]
  BY DEF AtFrame, WsInv, WsTyped
<1>3. 1 \in 1..(Len(recv) - pfn_data) /\ 3 \in 1..(Len(recv) - pfn_data) BY <1>1, <1>2
<1>4. /\ Rest[1] = recv[pfn_data + 1] /\ Rest[3] = recv[pfn_data + 3] BY <1>2, <1>3, RestIs
<1>5. /\ recv[pfn_data + 1] = Byte(3 * parsed + 1) /\ recv[pfn_data + 3] = Byte(3 * parsed + 3)
  BY <1>1, <1>3 DEF Behind
<1>6. parsed + 1 \in 1..Frames
  <2>1. Len(recv) - pfn_data = arrived - Sent - 3 * parsed BY <1>1 DEF Behind
  <2>2. Sent \in {0, 1} /\ Len(Stream) = Sent + 3 * Frames /\ Frames \in Nat
    BY StreamIs, WsAssumption
  <2> QED BY <1>1, <1>2, <2>1, <2>2
<1>7. F = Frame[script[parsed + 1]] BY <1>1 DEF F
<1> QED BY <1>2, <1>4, <1>5, <1>6, <1>7, FrameBytes

\* What cutting bytes out of the frame at hand leaves of what is in front of it,
\* and, when that is its header, of its data.
LEMMA CutAt ==
    ASSUME WsInv, AtFrame, NEW n \in {2, 3}
    PROVE  LET s == Del(recv, pfn_data, n)
           IN  /\ s \in Seq(Range(Stream)) /\ Len(s) = Len(recv) - n
               /\ \A i \in 1..pfn_data : s[i] = recv[i]
               /\ n = 2 => s[pfn_data + 1] = <<parsed + 1, "d">>
<1> DEFINE s == Del(recv, pfn_data, n)
           R == Range(Stream)
<1>1. /\ recv \in Seq(R) /\ pfn_data \in Nat /\ n \in Nat /\ Len(recv) \in Nat
      /\ Len(recv) - pfn_data >= 3
  BY AtFrameIs DEF WsInv, WsTyped
<1>2. pfn_data + n <= Len(recv) BY <1>1
<1>3. /\ s \in Seq(R) /\ Len(s) = Len(recv) - n
      /\ \A i \in 1..(Len(recv) - n) : s[i] = IF i <= pfn_data THEN recv[i] ELSE recv[i + n]
  <2> HIDE DEF R
  <2>1. recv \in Seq(R) BY <1>1
  <2> DEFINE at == pfn_data
             Points(m) ==
                 /\ Del(recv, at, m) \in Seq(R) /\ Len(Del(recv, at, m)) = Len(recv) - m
                 /\ \A j \in 1..(Len(recv) - m) :
                       Del(recv, at, m)[j] = IF j <= at THEN recv[j] ELSE recv[j + m]
  <2>2. at \in Nat BY <1>1
  <2>3. Points(2)
    <3>1. 2 \in Nat /\ at + 2 <= Len(recv) BY <1>1, <1>2
    <3> HIDE DEF at
    <3> QED BY <2>1, <2>2, <3>1, DelPoints
  <2>4. Points(3)
    <3>1. 3 \in Nat /\ at + 3 <= Len(recv) BY <1>1, <1>2
    <3> HIDE DEF at
    <3> QED BY <2>1, <2>2, <3>1, DelPoints
  <2> HIDE DEF Points
  <2>5. Points(n) BY <2>3, <2>4
  <2> QED BY <2>5 DEF Points
<1> HIDE DEF s
<1>4. \A i \in 1..pfn_data : s[i] = recv[i]
  <2> TAKE i \in 1..pfn_data
  <2>1. i \in 1..(Len(recv) - n) /\ i <= pfn_data BY <1>1, <1>2
  <2> QED BY <1>3, <2>1
<1>5. n = 2 => s[pfn_data + 1] = <<parsed + 1, "d">>
  <2> SUFFICES ASSUME n = 2 PROVE s[pfn_data + 1] = <<parsed + 1, "d">> OBVIOUS
  <2>1. /\ pfn_data + 1 \in 1..(Len(recv) - n) /\ ~(pfn_data + 1 <= pfn_data)
        /\ (pfn_data + 1) + n = pfn_data + 3
    BY <1>1, <1>2
  <2>2. s[pfn_data + 1] = recv[pfn_data + 3] BY <1>3, <2>1
  <2> QED BY <2>2, FrameAt
<1> QED BY <1>3, <1>4, <1>5 DEF s, R

\* The next frame of a peer that follows the rules, and what is in front of it.
LEMMA NextFrame ==
    ASSUME WsInv, Assembling, AtFrame, ~Violation, Legal(parsed + 1)
    PROVE  /\ parsed \in Nat /\ pfn_data \in Nat /\ ofs = pfn_data
           /\ delivered = Messages(parsed) /\ delivered \in Seq(Message)
           /\ ~OpenAfter(parsed) => pfn_data = 0
           /\ \A j \in 1..parsed : OpenSince(j, parsed) => AtFront(j, parsed, recv, pfn_data)
           /\ F = Frame[script[parsed + 1]]
           /\ script[parsed + 1] \in DOMAIN Frame \ {"unknown", "badctl"}
           /\ script[parsed + 1] \in {"more", "last"} => OpenAfter(parsed)
           /\ script[parsed + 1] \in {"text", "unmasked", "begin"} => ~OpenAfter(parsed)
<1>1. pc = "ws" /\ parsed \in Nat /\ pfn_data \in Nat /\ This = parsed + 1
  BY AtFrameIs DEF AtFrame, WsInv, WsTyped
<1>2. Legal(parsed) /\ script[parsed + 1] # "unknown" BY <1>1, LegalBefore
<1>3. script[parsed + 1] # "badctl" BY <1>1 DEF Violation
<1>4. delivered = Messages(parsed) BY <1>2 DEF Assembling
<1>5. Messages(parsed) \in Seq(Message) BY <1>1, MessagesNext DEF Messages
<1> QED BY <1>1, <1>2, <1>3, <1>4, <1>5, RestIs, FrameAt, LegalBefore DEF Assembling

\* What handling a frame does, said of the frames up to it.
Grown ==
    LET n == parsed + 1
    IN  /\ delivered' = delivered \o MessageOf(n)
        /\ ~OpenAfter(n) => pfn_data' = 0
        /\ \A j \in 1..n : OpenSince(j, n) => AtFront(j, n, recv', pfn_data')

\* A whole frame: what is in front of it stays, and a text is delivered.
LEMMA SingleGrows ==
    ASSUME WsInv, Assembling, Single, Legal(parsed + 1)
    PROVE  Grown
<1> DEFINE n == parsed
           k == script[n + 1]
           p == pfn_data
<1>0. AtFrame /\ ~Violation BY DEF Single
<1>1. n \in Nat /\ p \in Nat /\ ofs = p /\ F = Frame[k] /\ delivered \in Seq(Message)
  BY <1>0, NextFrame
<1>2. /\ recv' = Del(recv, p, 3) /\ pfn_data' = p
      /\ delivered' = IF F.op = "text" THEN Append(delivered, WholeFrame) ELSE delivered
      /\ F.final /\ F.op # "cont"
  BY <1>1 DEF Single
<1>3. k \in DOMAIN Frame /\ k \notin {"begin", "more", "last", "unknown", "badctl"}
  <2>1. k \in DOMAIN Frame /\ k \notin {"unknown", "badctl"} BY <1>0, NextFrame
  <2> QED BY <1>1, <1>2, <2>1, KindIs
<1>4. delivered' = delivered \o MessageOf(n + 1)
  <2>1. CASE k \in {"text", "unmasked"}
    <3>1. F.op = "text" BY <1>1, <1>3, <2>1, KindIs
    <3>2. MessageOf(n + 1) = <<WholeFrame>>
      BY <1>0, <1>1, <2>1, MessageIs, FrameAt DEF WholeFrame
    <3>3. WholeFrame \in Message
      <4>1. MessageOf(n + 1) \in Seq(Message) BY <1>1, MessageIs
      <4>2. MessageOf(n + 1)[1] = WholeFrame /\ 1 \in 1..Len(MessageOf(n + 1)) BY <3>2
      <4> QED BY <4>1, <4>2, ElementOfSeq
    <3>4. Append(delivered, WholeFrame) = delivered \o <<WholeFrame>>
      BY <1>1, <3>3, AppendIsConcat
    <3> QED BY <1>2, <3>1, <3>2, <3>4
  <2>2. CASE k \notin {"text", "unmasked"}
    <3>1. F.op # "text" BY <1>1, <1>3, <2>2, KindIs
    <3>2. MessageOf(n + 1) = <<>> BY <1>1, <1>3, <2>2, MessageIs
    <3>3. delivered \o <<>> = delivered BY <1>1, ConcatEmptySeq
    <3> QED BY <1>2, <3>1, <3>2, <3>3
  <2> QED BY <2>1, <2>2
<1>5. \A j : OpenSince(j, n + 1) <=> OpenSince(j, n) BY <1>1, <1>3, OpenNext
<1>6. ~OpenAfter(n + 1) => pfn_data' = 0
  <2>1. OpenAfter(n) => OpenAfter(n + 1)
    <3> SUFFICES ASSUME NEW j \in 1..n, OpenSince(j, n) PROVE OpenAfter(n + 1) BY DEF OpenAfter
    <3>1. j \in 1..(n + 1) BY <1>1
    <3> QED BY <1>5, <3>1 DEF OpenAfter
  <2>2. ~OpenAfter(n) => p = 0 BY <1>0, NextFrame
  <2> HIDE DEF p
  <2> QED BY <1>2, <2>1, <2>2, Zenon
<1>7. ASSUME NEW j \in 1..(n + 1), OpenSince(j, n + 1) PROVE AtFront(j, n + 1, recv', pfn_data')
  <2>1. OpenSince(j, n) /\ j \in 1..n /\ j \in Int BY <1>5, <1>7 DEF OpenSince
  <2>2. AtFront(j, n, recv, p) BY <1>0, <2>1, NextFrame
  <2>3. Data(j, n + 1) = Data(j, n) BY <1>1, <1>3, <2>1, DataNext DEF Fragments
  <2>4. Data(j, n) \in Seq(Bytes) BY <1>1, <2>1, DataNext
  <2> DEFINE d == Data(j, n)
  <2>5. /\ p = Len(d) + 1 /\ recv[1] = <<j, "f">> /\ \A i \in 1..Len(d) : recv[i + 1] = d[i]
        /\ Len(d) \in Nat
    BY <2>2, <2>4 DEF AtFront
  <2> HIDE DEF d
  <2>6. \A i \in 1..p : recv'[i] = recv[i] BY <1>0, <1>2, CutAt
  <2>7. 1 \in 1..p /\ \A i \in 1..Len(d) : i + 1 \in 1..p BY <2>5
  <2>8. pfn_data' = Len(d) + 1 /\ recv'[1] = <<j, "f">> /\ \A i \in 1..Len(d) : recv'[i + 1] = d[i]
    BY <1>2, <2>5, <2>6, <2>7
  <2> QED BY <2>3, <2>8 DEF d, AtFront
<1> QED BY <1>4, <1>6, <1>7 DEF Grown

\* A first fragment: a message is open, of which there is one fragment.
LEMMA BeginGrows ==
    ASSUME WsInv, Assembling, Begin, Legal(parsed + 1)
    PROVE  Grown
<1> DEFINE n == parsed
           k == script[n + 1]
<1>0. AtFrame /\ ~Violation BY DEF Begin
<1>1. n \in Nat /\ F = Frame[k] /\ delivered \in Seq(Message) /\ ofs = pfn_data
  BY <1>0, NextFrame
<1>2. k = "begin"
  <2>1. k \in DOMAIN Frame /\ k \notin {"unknown", "badctl"} BY <1>0, NextFrame
  <2>2. ~F.final /\ F.op # "cont" BY DEF Begin
  <2> QED BY <1>1, <2>1, <2>2, KindIs
<1>3. ~OpenAfter(n) /\ pfn_data = 0 BY <1>0, <1>2, NextFrame
<1>4. recv' = Del(recv, 1, 1) /\ pfn_data' = 2 /\ delivered' = delivered
  BY <1>1, <1>3 DEF Begin
<1>5. delivered' = delivered \o MessageOf(n + 1)
  <2>1. MessageOf(n + 1) = <<>> BY <1>1, <1>2, MessageIs
  <2>2. delivered \o <<>> = delivered BY <1>1, ConcatEmptySeq
  <2> QED BY <1>4, <2>1, <2>2
<1>6. \A j \in 1..(n + 1) : OpenSince(j, n + 1) <=> j = n + 1
  <2>1. \A j : ~OpenSince(j, n) BY <1>3 DEF OpenAfter, OpenSince
  <2> QED BY <1>1, <1>2, <2>1, OpenNext
<1>7. OpenAfter(n + 1)
  <2>1. n + 1 \in 1..(n + 1) BY <1>1
  <2> QED BY <1>6, <2>1 DEF OpenAfter
<1>8. recv'[1] = <<n + 1, "f">> /\ recv'[2] = <<n + 1, "d">>
  <2> DEFINE R == Range(Stream)
             one == 1
  <2>1. recv \in Seq(R) /\ Len(recv) \in Nat /\ Len(recv) >= 3
    BY <1>0, <1>3, AtFrameIs DEF WsInv, WsTyped
  <2>2. one \in Nat /\ one + one <= Len(recv) BY <2>1
  <2> HIDE DEF R, one
  <2>3. \A i \in 1..(Len(recv) - one) :
           Del(recv, one, one)[i] = IF i <= one THEN recv[i] ELSE recv[i + one]
    BY <2>1, <2>2, DelPoints
  <2>4. 1 \in 1..(Len(recv) - one) /\ 2 \in 1..(Len(recv) - one)
        /\ 1 <= one /\ ~(2 <= one) /\ 2 + one = 3
    BY <2>1 DEF one
  <2>5. recv'[1] = recv[1] /\ recv'[2] = recv[3] BY <1>4, <2>3, <2>4 DEF one
  <2>6. recv[0 + 1] = <<n + 1, "f">> /\ recv[0 + 3] = <<n + 1, "d">> BY <1>0, <1>3, FrameAt
  <2> QED BY <2>5, <2>6
<1>9. Data(n + 1, n + 1) = <<<<n + 1, "d">>>>
  <2>1. n + 1 \in Int /\ n + 1 >= n + 1 BY <1>1
  <2>2. Data(n + 1, n + 1) = Append(Data(n + 1, n), <<n + 1, "d">>)
    BY <1>1, <1>2, <2>1, DataNext DEF Fragments
  <2>3. Data(n + 1, n) = <<>> BY <1>1, NoDataBefore
  <2>4. \A e : Append(<<>>, e) = <<e>> OBVIOUS
  <2> QED BY <2>2, <2>3, <2>4
<1>10. AtFront(n + 1, n + 1, recv', pfn_data')
  <2> DEFINE d == <<<<n + 1, "d">>>>
  <2>1. Len(d) = 1 /\ d[1] = <<n + 1, "d">> OBVIOUS
  <2> HIDE DEF d
  <2>2. pfn_data' = Len(d) + 1 BY <1>4, <2>1
  <2>3. \A i \in 1..Len(d) : recv'[i + 1] = d[i]
    <3>1. \A i \in 1..1 : i = 1 /\ i + 1 = 2 OBVIOUS
    <3> QED BY <1>8, <2>1, <3>1
  <2> QED BY <1>8, <1>9, <2>2, <2>3 DEF AtFront, d
<1> QED BY <1>5, <1>6, <1>7, <1>10 DEF Grown

\* A fragment with more to come: its data goes behind the others'.
LEMMA ContinueGrows ==
    ASSUME WsInv, Assembling, Continue, Legal(parsed + 1)
    PROVE  Grown
<1> DEFINE n == parsed
           k == script[n + 1]
           p == pfn_data
           two == 2
<1>0. AtFrame /\ ~Violation BY DEF Continue
<1>1. n \in Nat /\ p \in Nat /\ F = Frame[k] /\ delivered \in Seq(Message) /\ ofs = p
  BY <1>0, NextFrame
<1>2. k = "more"
  <2>1. k \in DOMAIN Frame /\ k \notin {"unknown", "badctl"} BY <1>0, NextFrame
  <2>2. ~F.final /\ F.op = "cont" BY DEF Continue
  <2> QED BY <1>1, <2>1, <2>2, KindIs
<1>3. recv' = Del(recv, p, 2) /\ pfn_data' = p + 1 /\ delivered' = delivered
  BY <1>1 DEF Continue
<1>4. delivered' = delivered \o MessageOf(n + 1)
  <2>1. MessageOf(n + 1) = <<>> BY <1>1, <1>2, MessageIs
  <2>2. delivered \o <<>> = delivered BY <1>1, ConcatEmptySeq
  <2> QED BY <1>3, <2>1, <2>2
<1>5. \A j : OpenSince(j, n + 1) <=> OpenSince(j, n) BY <1>1, <1>2, OpenNext
<1>6. OpenAfter(n + 1)
  <2>1. PICK j \in 1..n : OpenSince(j, n) BY <1>0, <1>2, NextFrame DEF OpenAfter
  <2>2. j \in 1..(n + 1) BY <1>1
  <2> QED BY <1>5, <2>1, <2>2 DEF OpenAfter
<1>7. (\A i \in 1..p : recv'[i] = recv[i]) /\ recv'[p + 1] = <<n + 1, "d">>
  BY <1>0, <1>3, CutAt
<1>8. ASSUME NEW j \in 1..(n + 1), OpenSince(j, n + 1) PROVE AtFront(j, n + 1, recv', pfn_data')
  <2>1. OpenSince(j, n) /\ j \in 1..n /\ j \in Int BY <1>5, <1>8 DEF OpenSince
  <2>2. AtFront(j, n, recv, p) BY <1>0, <2>1, NextFrame
  <2> DEFINE d == Data(j, n)
             e == <<n + 1, "d">>
  <2>3. Data(j, n + 1) = Append(d, e)
    <3>1. n + 1 >= j BY <1>1, <2>1
    <3> QED BY <1>1, <1>2, <2>1, <3>1, DataNext DEF Fragments
  <2>4. d \in Seq(Bytes) /\ e \in Bytes
    <3>1. d \in Seq(Bytes) BY <1>1, <2>1, DataNext
    <3>2. e \in Bytes BY <1>1 DEF Bytes
    <3> QED BY <3>1, <3>2
  <2>5. p = Len(d) + 1 /\ recv[1] = <<j, "f">> /\ \A i \in 1..Len(d) : recv[i + 1] = d[i]
    BY <2>2 DEF AtFront
  <2> HIDE DEF d, e
  <2>6. /\ Len(d) \in Nat /\ Len(Append(d, e)) = Len(d) + 1
        /\ \A i \in 1..Len(d) : Append(d, e)[i] = d[i]
        /\ Append(d, e)[Len(d) + 1] = e
    BY <2>4, AppendProperties
  <2>7. 1 \in 1..p /\ \A i \in 1..Len(d) : i + 1 \in 1..p BY <2>5, <2>6
  <2>8. recv'[1] = <<j, "f">> BY <1>7, <2>5, <2>7
  <2>9. ASSUME NEW i \in 1..(Len(d) + 1) PROVE recv'[i + 1] = Append(d, e)[i]
    <3>1. CASE i \in 1..Len(d)
      <4>1. recv'[i + 1] = recv[i + 1] BY <1>7, <2>7, <3>1
      <4> QED BY <2>5, <2>6, <3>1, <4>1
    <3>2. CASE i = Len(d) + 1
      <4>1. recv'[p + 1] = e BY <1>7 DEF e
      <4> QED BY <2>5, <2>6, <3>2, <4>1
    <3> QED BY <2>6, <3>1, <3>2
  <2>10. pfn_data' = (Len(d) + 1) + 1 BY <1>3, <2>5
  <2> DEFINE a == Append(d, e)
  <2>11. Len(a) = Len(d) + 1 BY <2>6
  <2>12. \A i \in 1..Len(a) : recv'[i + 1] = a[i] BY <2>9, <2>11
  <2> HIDE DEF a
  <2> QED BY <2>3, <2>8, <2>10, <2>11, <2>12 DEF AtFront, a
<1> QED BY <1>4, <1>6, <1>8 DEF Grown

\* The last fragment: what is in front is the message, and is delivered.
LEMMA EndGrows ==
    ASSUME WsInv, Assembling, End, Legal(parsed + 1)
    PROVE  Grown
<1> DEFINE n == parsed
           k == script[n + 1]
           p == pfn_data
           s == Del(recv, p, 2)
           e == <<n + 1, "d">>
<1>0. AtFrame /\ ~Violation BY DEF End
<1>1. n \in Nat /\ p \in Nat /\ F = Frame[k] /\ delivered \in Seq(Message) /\ ofs = p
  BY <1>0, NextFrame
<1>2. k = "last"
  <2>1. k \in DOMAIN Frame /\ k \notin {"unknown", "badctl"} BY <1>0, NextFrame
  <2>2. F.final /\ F.op = "cont" BY DEF End
  <2> QED BY <1>1, <2>1, <2>2, KindIs
<1>3. delivered' = Append(delivered, Assemble(s, p + 1)) /\ pfn_data' = 0
  BY <1>1 DEF End
<1>4. PICK j \in 1..n :
         /\ OpenSince(j, n)
         /\ MessageOf(n + 1) = <<[flag |-> <<j, "f">>, data |-> Data(j, n + 1)]>>
  BY <1>1, <1>2, MessageIs
<1> DEFINE d == Data(j, n)
           a == Append(d, e)
<1>5. d \in Seq(Bytes) /\ e \in Bytes /\ Data(j, n + 1) = a
  <2>1. j \in Int /\ n + 1 >= j BY <1>1
  <2>2. d \in Seq(Bytes) BY <1>1, <2>1, DataNext
  <2>3. e \in Bytes BY <1>1 DEF Bytes
  <2>4. Data(j, n + 1) = a BY <1>1, <1>2, <2>1, DataNext DEF Fragments
  <2> QED BY <2>2, <2>3, <2>4
<1>6. p = Len(d) + 1 /\ recv[1] = <<j, "f">> /\ \A i \in 1..Len(d) : recv[i + 1] = d[i]
  <2>1. AtFront(j, n, recv, p) BY <1>0, <1>4, NextFrame
  <2> QED BY <2>1 DEF AtFront
<1>7. /\ s \in Seq(Range(Stream)) /\ Len(s) = Len(recv) - 2
      /\ (\A i \in 1..p : s[i] = recv[i]) /\ s[p + 1] = e
  BY <1>0, CutAt
<1>8. Len(recv) \in Nat /\ Len(recv) - p >= 3 BY <1>0, AtFrameIs, RestIs DEF AtFrame
<1> HIDE DEF d, e, s
<1>9. /\ Len(d) \in Nat /\ a \in Seq(Bytes) /\ Len(a) = Len(d) + 1
      /\ \A i \in 1..Len(d) : a[i] = d[i]
      /\ a[Len(d) + 1] = e
  BY <1>5, AppendProperties
<1> HIDE DEF a
<1>10. SubSeq(s, 2, p + 1) = a
  <2> DEFINE b == SubSeq(s, 2, p + 1)
             R == Range(Stream)
  <2>1. 2 \in Int /\ p + 1 \in Int /\ p + 1 <= Len(s) BY <1>1, <1>7, <1>8
  <2>2. \A i \in 2..(p + 1) : s[i] \in R BY <1>7, <2>1
  <2>3. /\ b \in Seq(R) /\ Len(b) = p /\ \A i \in 1..p : b[i] = s[i + 1]
    <3> DEFINE lo == 2
    <3>1. lo \in Int /\ p + 1 \in Int /\ \A i \in lo..(p + 1) : s[i] \in R BY <2>1, <2>2
    <3>2. lo <= p + 1 + 1 /\ (p + 1) - lo + 1 = p /\ \A i \in Int : i + lo - 1 = i + 1
      BY <1>1
    <3> HIDE DEF lo, R
    <3> DEFINE hi == p + 1
    <3>3. lo \in Int /\ hi \in Int /\ (\A i \in lo..hi : s[i] \in R) /\ hi - lo + 1 = p /\ lo <= hi + 1
      BY <3>1, <3>2
    <3> HIDE DEF hi
    <3>4. /\ SubSeq(s, lo, hi) \in Seq(R)
          /\ Len(SubSeq(s, lo, hi)) = IF lo <= hi THEN hi - lo + 1 ELSE 0
          /\ \A i \in 1..(hi - lo + 1) : SubSeq(s, lo, hi)[i] = s[lo + i - 1]
      BY <3>3, SubSeqProperties
    <3>5. IF lo <= hi THEN hi - lo + 1 = p ELSE 0 = p BY <3>3, <1>1
    <3>6. \A i \in 1..p : lo + i - 1 = i + 1 BY DEF lo
    <3> QED BY <3>3, <3>4, <3>5, <3>6 DEF lo, hi
  <2>4. ASSUME NEW i \in 1..p PROVE b[i] = a[i]
    <3>1. CASE i \in 1..Len(d)
      <4>1. i + 1 \in 1..p BY <1>6, <1>9, <3>1
      <4> QED BY <1>6, <1>7, <1>9, <2>3, <3>1, <4>1
    <3>2. CASE i = p BY <1>6, <1>7, <1>9, <2>3, <3>2
    <3> QED BY <1>1, <1>6, <1>9, <3>1, <3>2
  <2> HIDE DEF b
  <2>5. b = a
    <3> DEFINE T == R \cup Bytes
    <3>1. b \in Seq(T) BY <2>3
    <3>2. a \in Seq(T) BY <1>9
    <3> HIDE DEF T
    <3> QED BY <1>6, <1>9, <2>3, <2>4, <3>1, <3>2, SeqEqual
  <2> QED BY <2>5 DEF b
<1>11. s[1] = <<j, "f">>
  <2>1. 1 \in 1..p BY <1>6, <1>9
  <2> QED BY <1>6, <1>7, <2>1
<1>12. delivered' = delivered \o MessageOf(n + 1)
  <2> DEFINE m == [flag |-> <<j, "f">>, data |-> a]
  <2>1. Assemble(s, p + 1) = m BY <1>10, <1>11 DEF Assemble
  <2>2. MessageOf(n + 1) = <<m>> BY <1>4, <1>5
  <2>3. m \in Message
    <3>1. <<j, "f">> \in Bytes BY DEF Bytes
    <3> QED BY <1>9, <3>1 DEF Message
  <2> HIDE DEF m
  <2>4. Append(delivered, m) = delivered \o <<m>> BY <1>1, <2>3, AppendIsConcat
  <2> QED BY <1>3, <2>1, <2>2, <2>4
<1>13. \A i : ~OpenSince(i, n + 1) BY <1>1, <1>2, OpenNext
<1> QED BY <1>3, <1>12, <1>13 DEF Grown

\* What is said of the frames handled, once the next state is known.
LEMMA PeersSame ==
    ASSUME script' = script, NEW n, parsed' = n
    PROVE  /\ Legal(parsed)' <=> Legal(n)
           /\ OpenAfter(parsed)' <=> OpenAfter(n)
           /\ \A j : OpenSince(j, parsed)' <=> OpenSince(j, n)
           /\ Messages(parsed)' = Messages(n)
           /\ \A j : AtFront(j, parsed, recv, pfn_data)' <=> AtFront(j, n, recv', pfn_data')
<1>1. \A j : OpenSince(j, parsed)' <=> OpenSince(j, n) BY DEF OpenSince
<1>2. OpenAfter(parsed)' <=> OpenAfter(n) BY DEF OpenAfter, OpenSince
<1>3. Legal(parsed)' <=> Legal(n) BY DEF Legal, OpenAfter, OpenSince
<1>4. \A j : Data(j, parsed)' = Data(j, n) BY DEF Data
<1>5. ASSUME NEW i PROVE MessageOf(i)' = MessageOf(i) BY DEF MessageOf, OpenSince, Data
<1>6. Messages(parsed)' = Messages(n) BY <1>5 DEF Messages
<1>7. \A j : AtFront(j, parsed, recv, pfn_data)' <=> AtFront(j, n, recv', pfn_data')
  BY <1>4 DEF AtFront
<1> QED BY <1>1, <1>2, <1>3, <1>6, <1>7

\* Handling a frame keeps up with the peer.
LEMMA HandleAssembles ==
    ASSUME WsInv, Assembling, Handle
    PROVE  Assembling'
<1> DEFINE n == parsed + 1
<1>1. parsed \in Nat /\ parsed' = n /\ script' = script BY DEF Handle, WsInv, WsTyped, input
<1> HIDE DEF n
<1>2. SUFFICES ASSUME Legal(n) PROVE Assembling' BY <1>1, PeersSame DEF Assembling
<1>3. AtFrame /\ ~Violation BY DEF Handle, Single, Begin, Continue, End
<1>4. Legal(parsed + 1) BY <1>2 DEF n
<1>5. Grown BY <1>4, SingleGrows, BeginGrows, ContinueGrows, EndGrows DEF Handle
<1>6. delivered' = Messages(n)
  <2>1. delivered' = delivered \o MessageOf(n) BY <1>5 DEF Grown, n
  <2>2. delivered = Messages(parsed) BY <1>3, <1>4, NextFrame
  <2>3. Messages(n) = Messages(parsed) \o MessageOf(n) BY <1>1, <1>4, MessagesNext DEF Messages, n
  <2> QED BY <2>1, <2>2, <2>3
<1>7. /\ ~OpenAfter(n) => pfn_data' = 0
      /\ \A j \in 1..n : OpenSince(j, n) => AtFront(j, n, recv', pfn_data')
  BY <1>5 DEF Grown, n
<1> QED BY <1>1, <1>6, <1>7, PeersSame DEF Assembling

\* A step that handles no frame leaves the message as it is.
LEMMA FrontKept ==
    ASSUME WsInv, Assembling, script' = script, parsed' = parsed, delivered' = delivered,
           pfn_data' = pfn_data, \A i \in 1..pfn_data : recv'[i] = recv[i]
    PROVE  Assembling'
<1> DEFINE n == parsed
<1>1. n \in Nat /\ parsed' = n BY DEF WsInv, WsTyped
<1>2. ASSUME NEW j \in 1..n, OpenSince(j, n), AtFront(j, n, recv, pfn_data)
      PROVE  AtFront(j, n, recv', pfn_data')
  <2> DEFINE d == Data(j, n)
  <2>1. d \in Seq(Bytes)
    <3>1. j \in Int OBVIOUS
    <3> QED BY <1>1, <3>1, DataNext
  <2>2. pfn_data = Len(d) + 1 /\ recv[1] = <<j, "f">> /\ \A k \in 1..Len(d) : recv[k + 1] = d[k]
    BY <1>2 DEF AtFront
  <2> HIDE DEF d
  <2>3. 1 \in 1..pfn_data /\ \A k \in 1..Len(d) : k + 1 \in 1..pfn_data BY <2>1, <2>2
  <2>4. recv'[1] = <<j, "f">> /\ \A k \in 1..Len(d) : recv'[k + 1] = d[k] BY <2>2, <2>3
  <2> QED BY <2>2, <2>4 DEF AtFront, d
<1> HIDE DEF n
<1>3. /\ Legal(parsed)' <=> Legal(n)
      /\ OpenAfter(parsed)' <=> OpenAfter(n)
      /\ \A j : OpenSince(j, parsed)' <=> OpenSince(j, n)
      /\ Messages(parsed)' = Messages(n)
      /\ \A j : AtFront(j, parsed, recv, pfn_data)' <=> AtFront(j, n, recv', pfn_data')
  BY <1>1, PeersSame
<1>4. SUFFICES ASSUME Legal(n) PROVE Assembling' BY <1>3 DEF Assembling
<1>5. /\ delivered = Messages(n) /\ ~OpenAfter(n) => pfn_data = 0
      /\ \A j \in 1..n : OpenSince(j, n) => AtFront(j, n, recv, pfn_data)
  BY <1>4 DEF Assembling, n
<1>6. \A j \in 1..n : OpenSince(j, n) => AtFront(j, n, recv', pfn_data') BY <1>2, <1>5
<1>7. delivered' = Messages(n) /\ ~OpenAfter(n) => pfn_data' = 0 BY <1>5
<1> QED BY <1>1, <1>3, <1>6, <1>7 DEF Assembling

\* Every step keeps up with the peer.
LEMMA AssemblingNext ==
    ASSUME WsInv, Assembling, [Next]_vars
    PROVE  Assembling'
<1>1. CASE Handle BY <1>1, HandleAssembles
<1>2. CASE Read
  <2>1. /\ script' = script /\ parsed' = parsed /\ delivered' = delivered
        /\ pfn_data' = pfn_data
    BY <1>2 DEF Read, history
  <2>2. PICK m \in (arrived + 1)..Len(Stream) : recv' = recv \o SubSeq(Stream, arrived + 1, m)
    BY <1>2 DEF Read
  <2> DEFINE R == Range(Stream)
             more == SubSeq(Stream, arrived + 1, m)
  <2>3. arrived \in Nat /\ recv \in Seq(R) /\ pfn_data \in 0..Len(recv)
    BY StreamIs DEF WsInv, WsTyped
  <2>4. more \in Seq(R)
    <3>1. Stream \in Seq(R) /\ Len(Stream) \in Nat BY StreamIs
    <3> HIDE DEF R
    <3>2. \A i \in (arrived + 1)..m : Stream[i] \in R BY <2>3, <3>1
    <3>3. arrived + 1 \in Int /\ m \in Int BY <2>3, <3>1
    <3> QED BY <3>2, <3>3, SubSeqProperties
  <2> HIDE DEF R, more
  <2>5. \A i \in 1..pfn_data : recv'[i] = recv[i]
    <3> TAKE i \in 1..pfn_data
    <3>1. Len(recv) \in Nat /\ Len(more) \in Nat BY <2>3, <2>4
    <3>2. i \in 1..Len(recv) + Len(more) /\ i <= Len(recv) BY <2>3, <3>1
    <3>3. (recv \o more)[i] = recv[i] BY <2>3, <2>4, <3>2, ConcatProperties
    <3> QED BY <2>2, <3>3 DEF more
  <2> QED BY <2>1, <2>5, FrontKept
<1>3. CASE Handshake
  <2>1. /\ script' = script /\ parsed' = parsed /\ delivered' = delivered
        /\ pfn_data' = pfn_data /\ pc = "read"
    BY <1>3 DEF Handshake, history, input
  <2>2. CASE is_client /\ ~is_websocket
    <3>1. pfn_data = 0 BY <2>1, <2>2 DEF WsInv, Unanswered, Behind
    <3>2. \A i \in 1..pfn_data : recv'[i] = recv[i] BY <3>1
    <3> QED BY <2>1, <3>2, FrontKept
  <2>3. CASE ~(is_client /\ ~is_websocket)
    <3>1. recv' = recv BY <1>3, <2>3 DEF Handshake
    <3> QED BY <2>1, <3>1, FrontKept
  <2> QED BY <2>2, <2>3
<1>4. CASE Done \/ NotFrames \/ Reject \/ Limits \/ Ended \/ UNCHANGED vars
  <2>1. /\ script' = script /\ parsed' = parsed /\ delivered' = delivered
        /\ pfn_data' = pfn_data /\ recv' = recv
    BY <1>4 DEF Done, NotFrames, Reject, Rejected, Limits, Ended, vars, history, input
  <2> QED BY <2>1, FrontKept
<1> QED BY <1>1, <1>2, <1>3, <1>4 DEF Next, WsCb

\* It holds before anything was sent.
LEMMA AssemblingInit ==
    ASSUME Init
    PROVE  Assembling
<1>1. parsed = 0 /\ delivered = <<>> /\ pfn_data = 0 BY DEF Init
<1>2. Messages(0) = <<>>
  <2>1. Messages(0) = FlattenSeq(<<>>)
    <3>1. [i \in 1..0 |-> MessageOf(i)] = <<>> OBVIOUS
    <3> QED BY <3>1 DEF Messages
  <2>2. <<>> \in Seq(Seq(Message)) /\ <<>> \in Seq(Message) OBVIOUS
  <2> QED BY <2>1, <2>2, FlattenAppend
<1>3. \A j : ~(j \in 1..0) OBVIOUS
<1> QED BY <1>1, <1>2, <1>3 DEF Assembling

\* The invariant about the message under assembly holds of every behaviour.
THEOREM AssemblyInvariant == Spec => []Assembling
<1>1. Init => Assembling BY AssemblingInit
<1>2. WsInv /\ Assembling /\ [Next]_vars => Assembling' BY AssemblingNext
<1> QED BY <1>1, <1>2, WsInvariant, PTL DEF Spec

\* A peer that follows the rules has each of its messages delivered, whole and
\* once: what ws_cb() leaves in front of the buffer is always the message so far.
THEOREM MessagesAreWhole == Spec => []MessagesWhole
<1>1. Assembling => MessagesWhole BY DEF Assembling, Messages, MessagesWhole
<1> QED BY <1>1, AssemblyInvariant, PTL

-----------------------------------------------------------------------------
(* The buffers: memory of which the first len cells hold the contents.     *)

\* One buffer, and whatever is called on it.
IOBufSpec == IOBufInit /\ [][IOBufNext]_bufVars

\* What a cell of memory can hold.
Cell == Chars \cup Range(Header) \cup {0}
\* What is in use of a buffer.
Holding(b) == SubSeq(b.buf, 1, b.len)

\* A buffer's length lies in its memory, which comes in whole units.
Buffer(b) ==
    /\ b \in [buf : Seq(Cell), len : Nat]
    /\ b.len <= Len(b.buf) /\ Len(b.buf) % align = 0

\* The inductive invariant.
BufInv ==
    /\ Buffer(io) /\ said \in Seq(Cell) /\ cut \in BOOLEAN
    /\ ~cut => Holding(io) = said

\* A multiple of a number has no remainder.
LEMMA MultipleMod == ASSUME NEW a \in Nat \ {0}, NEW k \in Nat PROVE (k * a) % a = 0
<1> DEFINE x == k * a
           q == x \div a
           r == x % a
<1>1. x \in Nat /\ q \in Int /\ r \in 0..(a - 1) /\ x = a * q + r OBVIOUS
<1>2. r = a * (k - q) BY <1>1
<1>3. k - q \in Int BY <1>1
<1> HIDE DEF x, q, r
<1>4. CASE k - q >= 1
  <2>1. a * (k - q) >= a BY <1>3, <1>4
  <2> QED BY <1>1, <1>2, <2>1
<1>5. CASE k - q <= -1
  <2>1. a * (k - q) <= -a BY <1>3, <1>5
  <2> QED BY <1>1, <1>2, <2>1
<1>6. CASE k - q = 0 BY <1>2, <1>6 DEF r, x
<1> QED BY <1>3, <1>4, <1>5, <1>6

\* roundup() gives whole units, and as many as are asked for.
LEMMA RoundupIs ==
    ASSUME NEW n \in Nat
    PROVE  roundup(n) \in Nat /\ n <= roundup(n) /\ roundup(n) % align = 0
<1>1. align \in Nat \ {0} BY IOBufAssumption
<1> DEFINE x == n + align - 1
           q == x \div align
<1>2. x \in Nat BY <1>1
<1> HIDE DEF x
<1>3. q \in Nat /\ x % align \in 0..(align - 1) /\ x = align * q + (x % align) BY <1>1, <1>2
<1>4. roundup(n) = q * align BY DEF roundup, x
<1> HIDE DEF q
<1>5. q * align \in Nat /\ (q * align) % align = 0 BY <1>1, <1>3, MultipleMod
<1>6. q * align = x - (x % align) BY <1>1, <1>2, <1>3
<1>7. n <= q * align BY <1>1, <1>3, <1>5, <1>6 DEF x
<1> QED BY <1>4, <1>5, <1>7

\* Sequences that agree on a range have the same there.
LEMMA SameSub ==
    ASSUME NEW S, NEW s \in Seq(S), NEW t \in Seq(S), NEW a \in Nat \ {0}, NEW b \in Nat,
           b <= Len(s), b <= Len(t), \A i \in a..b : s[i] = t[i]
    PROVE  /\ SubSeq(s, a, b) = SubSeq(t, a, b) /\ SubSeq(s, a, b) \in Seq(S)
           /\ Len(SubSeq(s, a, b)) = IF a <= b THEN b - a + 1 ELSE 0
<1>1. Len(s) \in Nat /\ Len(t) \in Nat BY LenProperties
<1>2. \A i \in a..b : s[i] \in S /\ t[i] \in S
  <2> SUFFICES ASSUME NEW i \in a..b PROVE s[i] \in S /\ t[i] \in S OBVIOUS
  <2>1. i \in 1..Len(s) /\ i \in 1..Len(t) BY <1>1
  <2> QED BY <2>1, ElementOfSeq
<1>3. /\ SubSeq(s, a, b) \in Seq(S)
      /\ Len(SubSeq(s, a, b)) = IF a <= b THEN b - a + 1 ELSE 0
      /\ \A i \in 1..(b - a + 1) : SubSeq(s, a, b)[i] = s[a + i - 1]
  BY <1>2, SubSeqProperties
<1>4. /\ SubSeq(t, a, b) \in Seq(S)
      /\ Len(SubSeq(t, a, b)) = IF a <= b THEN b - a + 1 ELSE 0
      /\ \A i \in 1..(b - a + 1) : SubSeq(t, a, b)[i] = t[a + i - 1]
  BY <1>2, SubSeqProperties
<1> DEFINE u == SubSeq(s, a, b)
           v == SubSeq(t, a, b)
<1>5. ASSUME NEW i \in 1..Len(u) PROVE u[i] = v[i]
  <2>1. i \in 1..(b - a + 1) /\ a + i - 1 \in a..b BY <1>3
  <2> QED BY <1>3, <1>4, <2>1
<1>6. Len(u) = Len(v) /\ u \in Seq(S) /\ v \in Seq(S) BY <1>3, <1>4
<1> HIDE DEF u, v
<1>7. u = v BY <1>5, <1>6, SeqEqual
<1> QED BY <1>3, <1>7 DEF u, v

\* What is in front of a concatenation.
LEMMA FrontIs ==
    ASSUME NEW S, NEW f \in Seq(S), NEW t \in Seq(S)
    PROVE  /\ f \o t \in Seq(S) /\ Len(f \o t) = Len(f) + Len(t)
           /\ SubSeq(f \o t, 1, Len(f)) = f /\ Len(f) \in Nat /\ Len(t) \in Nat
<1>1. Len(f) \in Nat /\ Len(t) \in Nat BY LenProperties
<1>2. /\ f \o t \in Seq(S) /\ Len(f \o t) = Len(f) + Len(t)
      /\ \A i \in 1..Len(f) + Len(t) : (f \o t)[i] = IF i <= Len(f) THEN f[i] ELSE t[i - Len(f)]
  BY ConcatProperties
<1> DEFINE u == f \o t
           n == Len(f)
<1>3. \A i \in 1..n : u[i] = f[i] BY <1>1, <1>2
<1>4. u \in Seq(S) /\ n \in Nat /\ n <= Len(u) /\ n <= Len(f) BY <1>1, <1>2
<1> HIDE DEF u
<1>5. SubSeq(u, 1, n) = SubSeq(f, 1, n) BY <1>3, <1>4, SameSub
<1>6. SubSeq(f, 1, Len(f)) = f BY SubSeqFull
<1> QED BY <1>1, <1>2, <1>5, <1>6 DEF u

\* A part of the contents is that part of the memory.
LEMMA PartOfFront ==
    ASSUME NEW S, NEW s \in Seq(S), NEW n \in Nat, n <= Len(s),
           NEW a \in Nat \ {0}, NEW b \in Nat, b <= n
    PROVE  SubSeq(SubSeq(s, 1, n), a, b) = SubSeq(s, a, b)
<1>1. \A i \in 1..n : s[i] \in S
  <2>1. Len(s) \in Nat BY LenProperties
  <2> QED BY <2>1, ElementOfSeq
<1>2. /\ SubSeq(s, 1, n) \in Seq(S) /\ Len(SubSeq(s, 1, n)) = n
      /\ \A i \in 1..n : SubSeq(s, 1, n)[i] = s[i]
  BY <1>1, SubSeqProperties
<1> DEFINE t == SubSeq(s, 1, n)
<1>3. b <= Len(t) /\ b <= Len(s) /\ \A i \in a..b : t[i] = s[i]
  <2>1. \A i \in a..b : i \in 1..n OBVIOUS
  <2>2. Len(s) \in Nat BY LenProperties
  <2> QED BY <1>2, <2>1, <2>2
<1>4. t \in Seq(S) BY <1>2
<1> HIDE DEF t
<1>5. SubSeq(t, a, b) = SubSeq(s, a, b) BY <1>3, <1>4, SameSub
<1> QED BY <1>5 DEF t

\* The smaller and the larger of two.
LEMMA MinMaxIs ==
    ASSUME NEW a \in Int, NEW b \in Int
    PROVE  /\ Min({a, b}) = IF a <= b THEN a ELSE b
           /\ Max({a, b}) = IF a >= b THEN a ELSE b
<1>1. CASE a <= b
  <2>1. \A x \in {a, b} : (\A y \in {a, b} : x <= y) <=> x = a BY <1>1
  <2>2. \A x \in {a, b} : (\A y \in {a, b} : x >= y) <=> x = b BY <1>1
  <2> QED BY <1>1, <2>1, <2>2 DEF Min, Max
<1>2. CASE ~(a <= b)
  <2>1. \A x \in {a, b} : (\A y \in {a, b} : x <= y) <=> x = b BY <1>2
  <2>2. \A x \in {a, b} : (\A y \in {a, b} : x >= y) <=> x = a BY <1>2
  <2> QED BY <1>2, <2>1, <2>2 DEF Min, Max
<1> QED BY <1>1, <1>2

\* Zeroed memory is memory, as much as was asked for.
LEMMA ZerosAre == ASSUME NEW n \in Nat PROVE Zeros(n) \in Seq(Cell) /\ Len(Zeros(n)) = n
BY DEF Zeros, Cell

\* What is in use, and where it is.
LEMMA HoldingIs ==
    ASSUME NEW b, Buffer(b)
    PROVE  /\ Holding(b) \in Seq(Cell) /\ Len(Holding(b)) = b.len
           /\ \A i \in 1..b.len : Holding(b)[i] = b.buf[i]
           /\ b.buf \in Seq(Cell) /\ b.len \in Nat /\ Len(b.buf) \in Nat /\ b.len <= Len(b.buf)
<1> DEFINE s == b.buf
           n == b.len
<1>1. s \in Seq(Cell) /\ n \in Nat /\ n <= Len(s) BY DEF Buffer
<1>2. Len(s) \in Nat BY <1>1, LenProperties
<1>3. \A i \in 1..n : s[i] \in Cell BY <1>1, <1>2, ElementOfSeq
<1> HIDE DEF s, n
<1>4. /\ SubSeq(s, 1, n) \in Seq(Cell) /\ Len(SubSeq(s, 1, n)) = n
      /\ \A i \in 1..n : SubSeq(s, 1, n)[i] = s[i]
  BY <1>1, <1>3, SubSeqProperties
<1> QED BY <1>1, <1>2, <1>4 DEF s, n, Holding

\* A buffer whose memory begins with f and is as long as another's.
LEMMA MadeOf ==
    ASSUME NEW f \in Seq(Cell), NEW t \in Seq(Cell), (Len(f) + Len(t)) % align = 0
    PROVE  /\ Buffer([buf |-> f \o t, len |-> Len(f)])
           /\ Holding([buf |-> f \o t, len |-> Len(f)]) = f
           /\ Len(f \o t) = Len(f) + Len(t)
<1>1. /\ f \o t \in Seq(Cell) /\ Len(f \o t) = Len(f) + Len(t)
      /\ SubSeq(f \o t, 1, Len(f)) = f /\ Len(f) \in Nat /\ Len(t) \in Nat
  BY FrontIs
<1> DEFINE u == f \o t
           n == Len(f)
<1>2. u \in Seq(Cell) /\ n \in Nat /\ n <= Len(u) /\ Len(u) % align = 0 /\ SubSeq(u, 1, n) = f
  BY <1>1
<1> HIDE DEF u, n
<1>3. Buffer([buf |-> u, len |-> n]) BY <1>2 DEF Buffer
<1>4. Holding([buf |-> u, len |-> n]) = f BY <1>2 DEF Holding
<1> QED BY <1>1, <1>3, <1>4 DEF u, n

\* iobuf_resize() to no less than is in use keeps what is in use, and either
\* there is the memory asked for or nothing happened.
LEMMA ResizedIs ==
    ASSUME NEW b, Buffer(b), NEW n \in Nat, b.len <= n, NEW ok \in BOOLEAN
    PROVE  /\ Buffer(Resized(b, n, ok)) /\ Resized(b, n, ok).len = b.len
           /\ Holding(Resized(b, n, ok)) = Holding(b)
<1> DEFINE size == roundup(n)
           kept == Min({size, b.len})
<1>1. /\ b.buf \in Seq(Cell) /\ b.len \in Nat /\ Len(b.buf) \in Nat /\ b.len <= Len(b.buf)
      /\ Holding(b) \in Seq(Cell) /\ Len(Holding(b)) = b.len
  BY HoldingIs
<1>2. size \in Nat /\ n <= size /\ size % align = 0 BY RoundupIs
<1>3. kept = b.len /\ b.len <= size
  <2>1. b.len <= size BY <1>1, <1>2
  <2> HIDE DEF size
  <2> QED BY <1>1, <1>2, <2>1, MinMaxIs
<1>4. CASE size = 0
  <2>1. Resized(b, n, ok) = [buf |-> <<>>, len |-> 0] BY <1>4 DEF Resized
  <2>2. b.len = 0 BY <1>1, <1>3, <1>4
  <2>3. Buffer([buf |-> <<>>, len |-> 0])
    <3>1. <<>> \in Seq(Cell) /\ Len(<<>>) = 0 BY EmptySeq
    <3> QED BY <3>1, <1>2, <1>4 DEF Buffer
  <2>4. Holding([buf |-> <<>>, len |-> 0]) = <<>> /\ Holding(b) = <<>>
    BY <2>2, SubSeqEmpty DEF Holding
  <2> QED BY <2>1, <2>2, <2>3, <2>4
<1>5. CASE size # 0 /\ (size = Len(b.buf) \/ ~ok)
  <2>1. Resized(b, n, ok) = b BY <1>5 DEF Resized
  <2> QED BY <2>1
<1>6. CASE size # 0 /\ ~(size = Len(b.buf) \/ ~ok)
  <2> DEFINE f == Holding(b)
             z == Zeros(size - b.len)
  <2>1. Resized(b, n, ok) = [buf |-> f \o z, len |-> b.len]
    BY <1>3, <1>6 DEF Resized, Holding
  <2>2. z \in Seq(Cell) /\ Len(z) = size - b.len BY <1>1, <1>2, <1>3, ZerosAre
  <2>3. f \in Seq(Cell) /\ Len(f) = b.len /\ (Len(f) + Len(z)) % align = 0
    BY <1>1, <1>2, <2>2
  <2> HIDE DEF f, z
  <2>4. Buffer([buf |-> f \o z, len |-> b.len]) /\ Holding([buf |-> f \o z, len |-> b.len]) = f
    BY <2>2, <2>3, MadeOf
  <2> QED BY <2>1, <2>4 DEF f
<1> QED BY <1>4, <1>5, <1>6

\* iobuf_add() adds everything at its place or nothing at all.
LEMMA AddedIs ==
    ASSUME NEW b, Buffer(b), NEW off \in 0..b.len, NEW data \in Seq(Cell), NEW ok \in BOOLEAN
    PROVE  /\ Buffer(Added(b, off, data, ok))
           /\ AddedLen(b, Len(data), ok) \in {0, Len(data)}
           /\ Added(b, off, data, ok).len = b.len + AddedLen(b, Len(data), ok)
           /\ AddedLen(b, Len(data), ok) = 0 => Holding(Added(b, off, data, ok)) = Holding(b)
           /\ AddedLen(b, Len(data), ok) = Len(data) =>
                 Holding(Added(b, off, data, ok)) = SubSeq(Holding(b), 1, off) \o data
                                                    \o SubSeq(Holding(b), off + 1, b.len)
<1> DEFINE k == Len(data)
           r == Resized(b, b.len + k, ok)
           n == AddedLen(b, k, ok)
           H == Holding(b)
           front == SubSeq(H, 1, off)
           back == SubSeq(H, off + 1, b.len)
           new == SubSeq(data, 1, n)
           tail == SubSeq(r.buf, b.len + n + 1, Len(r.buf))
<1>1. /\ H \in Seq(Cell) /\ Len(H) = b.len /\ b.len \in Nat /\ off \in Nat /\ off <= b.len
  BY HoldingIs
<1>2. k \in Nat BY LenProperties
<1>3. Buffer(r) /\ r.len = b.len /\ Holding(r) = H BY <1>1, <1>2, ResizedIs
<1>4. r.buf \in Seq(Cell) /\ Len(r.buf) \in Nat /\ b.len <= Len(r.buf) /\ Len(r.buf) % align = 0
  BY <1>3, HoldingIs DEF Buffer
<1>5. n \in {0, k} /\ b.len + n <= Len(r.buf)
  <2>1. b.len + k <= roundup(b.len + k)
    <3> DEFINE m == b.len + k
    <3>1. m \in Nat BY <1>1, <1>2
    <3> HIDE DEF m
    <3>2. m <= roundup(m) BY <3>1, RoundupIs
    <3> QED BY <3>2 DEF m
  <2>2. n = IF roundup(b.len + k) = Len(r.buf) THEN k ELSE 0 BY DEF AddedLen
  <2> HIDE DEF n, r
  <2> QED BY <1>1, <1>2, <1>4, <2>1, <2>2
<1>6. SubSeq(r.buf, 1, off) = front /\ SubSeq(r.buf, off + 1, b.len) = back
  <2>1. H = SubSeq(r.buf, 1, b.len) BY <1>3 DEF Holding
  <2> DEFINE s == r.buf
             m == b.len
  <2>2. s \in Seq(Cell) /\ m \in Nat /\ m <= Len(s) /\ off + 1 \in Nat \ {0} BY <1>1, <1>4
  <2> HIDE DEF s, m, H, r
  <2>3. SubSeq(SubSeq(s, 1, m), 1, off) = SubSeq(s, 1, off) BY <1>1, <2>2, PartOfFront DEF m
  <2>4. SubSeq(SubSeq(s, 1, m), off + 1, m) = SubSeq(s, off + 1, m) BY <2>2, PartOfFront
  <2> QED BY <2>1, <2>3, <2>4 DEF s, m
<1>7. Added(b, off, data, ok) = [buf |-> ((front \o new) \o back) \o tail, len |-> b.len + n]
  BY <1>3, <1>6 DEF Added
<1>8. /\ front \in Seq(Cell) /\ Len(front) = off
      /\ back \in Seq(Cell) /\ Len(back) = b.len - off
  <2> DEFINE m == b.len
  <2>1. m \in Nat /\ off + 1 \in Nat \ {0} /\ m <= Len(H) /\ off <= Len(H) BY <1>1
  <2> HIDE DEF H, m
  <2>2. front \in Seq(Cell) /\ Len(front) = IF 1 <= off THEN off - 1 + 1 ELSE 0
    BY <1>1, <2>1, SameSub
  <2>3. /\ SubSeq(H, off + 1, m) \in Seq(Cell)
        /\ Len(SubSeq(H, off + 1, m)) = IF off + 1 <= m THEN m - (off + 1) + 1 ELSE 0
    BY <1>1, <2>1, SameSub
  <2>4. off <= m BY <1>1 DEF m
  <2> QED BY <1>1, <2>1, <2>2, <2>3, <2>4 DEF m
<1>9. new \in Seq(Cell) /\ Len(new) = n /\ (n = 0 => new = <<>>) /\ (n = k => new = data)
  <2> HIDE DEF n
  <2>1. n = 0 => new = <<>> BY SubSeqEmpty
  <2>2. n = k => new = data BY SubSeqFull
  <2>3. <<>> \in Seq(Cell) /\ Len(<<>>) = 0 BY EmptySeq
  <2> QED BY <1>5, <2>1, <2>2, <2>3
<1>10. tail \in Seq(Cell) /\ Len(tail) = Len(r.buf) - (b.len + n)
  <2> DEFINE s == r.buf
             m == b.len + n
  <2>1. s \in Seq(Cell) /\ Len(s) \in Nat /\ m \in Nat /\ m <= Len(s) /\ m + 1 \in Nat \ {0}
    <3> HIDE DEF r, n
    <3> QED BY <1>1, <1>2, <1>4, <1>5
  <2> HIDE DEF s, m
  <2>2. /\ SubSeq(s, m + 1, Len(s)) \in Seq(Cell)
        /\ Len(SubSeq(s, m + 1, Len(s))) = IF m + 1 <= Len(s) THEN Len(s) - (m + 1) + 1 ELSE 0
    BY <2>1, SameSub
  <2>3. SubSeq(s, m + 1, Len(s)) \in Seq(Cell) /\ Len(SubSeq(s, m + 1, Len(s))) = Len(s) - m
    BY <2>1, <2>2
  <2> QED BY <2>3 DEF s, m
<1> HIDE DEF front, back, new, tail, r, n, H
<1> DEFINE f == (front \o new) \o back
<1>11. f \in Seq(Cell) /\ Len(f) = b.len + n
  <2>1. front \o new \in Seq(Cell) /\ Len(front \o new) = off + n
    BY <1>8, <1>9, ConcatProperties
  <2> DEFINE g == front \o new
  <2>2. g \in Seq(Cell) /\ Len(g) = off + n BY <2>1
  <2> HIDE DEF g
  <2>3. g \o back \in Seq(Cell) /\ Len(g \o back) = Len(g) + Len(back)
    BY <1>8, <2>2, ConcatProperties
  <2>4. f \in Seq(Cell) /\ Len(f) = (off + n) + (b.len - off) BY <1>8, <2>2, <2>3 DEF g
  <2> QED BY <1>1, <1>2, <1>5, <2>4
<1>12. (Len(f) + Len(tail)) % align = 0
  <2>1. Len(f) + Len(tail) = Len(r.buf)
    <3> HIDE DEF f
    <3> QED BY <1>1, <1>2, <1>4, <1>5, <1>10, <1>11
  <2> QED BY <1>4, <2>1
<1>13. n = 0 => f = H
  <2> SUFFICES ASSUME n = 0 PROVE f = H OBVIOUS
  <2>1. f = front \o back BY <1>8, <1>9, ConcatEmptySeq
  <2> DEFINE m == b.len
  <2>2. 1 \in 1..Len(H) + 1 /\ off \in 1-1..Len(H) /\ m \in off..Len(H) /\ m = Len(H) BY <1>1
  <2> HIDE DEF m
  <2>3. SubSeq(H, 1, off) \o SubSeq(H, off + 1, m) = SubSeq(H, 1, m)
    BY <1>1, <2>2, ConcatAdjacentSubSeq
  <2> QED BY <1>1, <2>1, <2>2, <2>3, SubSeqFull DEF m, front, back
<1>14. /\ Buffer([buf |-> f \o tail, len |-> b.len + n])
       /\ Holding([buf |-> f \o tail, len |-> b.len + n]) = f
  <2> HIDE DEF f
  <2> QED BY <1>10, <1>11, <1>12, MadeOf
<1>15. n = k => f = (front \o data) \o back BY <1>9
<1> DEFINE A == Added(b, off, data, ok)
<1>16. Buffer(A) /\ Holding(A) = f /\ A.len = b.len + n
  <2>1. A = [buf |-> f \o tail, len |-> b.len + n] BY <1>7
  <2> HIDE DEF A, f
  <2> QED BY <1>14, <2>1
<1> HIDE DEF A, f
<1>17. /\ Buffer(A) /\ n \in {0, k} /\ A.len = b.len + n
       /\ (n = 0 => Holding(A) = H)
       /\ (n = k => Holding(A) = (front \o data) \o back)
  BY <1>5, <1>13, <1>15, <1>16
<1> QED BY <1>17 DEF A, n, H, front, back

-----------------------------------------------------------------------------
\* What is given to the calls.
LEMMA DataIs ==
    /\ Chars \subseteq Cell /\ 0 \in Cell /\ Header \in Seq(Cell)
    /\ \A data \in SeqOf(Chars, 2) : data \in Seq(Cell)
<1>1. Chars \subseteq Cell /\ 0 \in Cell /\ Range(Header) \subseteq Cell BY DEF Cell
<1>2. Header \in Seq(Cell) BY <1>1, IOBufAssumption, SeqMonotonic
<1>3. ASSUME NEW data \in SeqOf(Chars, 2) PROVE data \in Seq(Cell)
  <2>1. PICK m \in 0..2 : data \in [1..m -> Chars] BY DEF SeqOf
  <2>2. data \in [1..m -> Cell] /\ m \in Nat BY <1>1, <2>1
  <2> QED BY <2>2
<1> QED BY <1>1, <1>2, <1>3

\* The invariant after a step, from what the step did.
LEMMA BufKept ==
    ASSUME Buffer(io'), cut' \in BOOLEAN,
           \/ cut' /\ said' = <<>>
           \/ Holding(io') = said'
           \/ cut' /\ said' = said /\ said \in Seq(Cell)
    PROVE  BufInv'
<1>1. Holding(io') \in Seq(Cell) BY HoldingIs
<1>2. <<>> \in Seq(Cell) BY EmptySeq
<1>3. Holding(io)' = Holding(io') /\ (Buffer(io)' <=> Buffer(io')) BY DEF Holding, Buffer
<1> QED BY <1>1, <1>2, <1>3 DEF BufInv

\* iobuf_add(), at the end or anywhere.
LEMMA AddKeeps ==
    ASSUME BufInv, NEW off \in 0..io.len, NEW data \in Seq(Cell), NEW ok \in BOOLEAN,
           AddData(off, data, ok)
    PROVE  BufInv'
<1> DEFINE n == AddedLen(io, Len(data), ok)
           A == Added(io, off, data, ok)
           H == Holding(io)
           f == SubSeq(H, 1, off) \o data \o SubSeq(H, off + 1, io.len)
<1>1. Buffer(io) /\ cut \in BOOLEAN /\ (~cut => H = said) BY DEF BufInv
<1>2. /\ Buffer(A) /\ n \in {0, Len(data)} /\ (n = 0 => Holding(A) = H)
      /\ (n = Len(data) => Holding(A) = f)
  BY <1>1, AddedIs
<1>3. /\ io' = A /\ cut' = cut
      /\ said' = IF cut THEN <<>> ELSE IF n = 0 THEN said
                 ELSE SubSeq(said, 1, off) \o data \o SubSeq(said, off + 1, Len(said))
  BY DEF AddData, Says
<1>4. Len(H) = io.len BY <1>1, HoldingIs
<1>5. ~cut => said' = IF n = 0 THEN H ELSE f BY <1>1, <1>3, <1>4
<1> HIDE DEF n, A, H, f
<1>6. ~cut => Holding(A) = said' BY <1>2, <1>5
<1>7. /\ Buffer(io') /\ cut' \in BOOLEAN
      /\ (cut' /\ said' = <<>>) \/ Holding(io') = said'
  <2>1. Buffer(io') BY <1>2, <1>3
  <2>2. Holding(io') = Holding(A) BY <1>3
  <2> QED BY <1>1, <1>3, <1>6, <2>1, <2>2
<1> QED BY <1>7, BufKept

\* Deleting inside the contents.
LEMMA DelKeeps ==
    ASSUME BufInv, NEW off \in 0..io.len, NEW n \in 1..(io.len - off), DelData(off, n)
    PROVE  BufInv'
<1> DEFINE H == Holding(io)
           s == io.buf
           m == io.len
           front == SubSeq(H, 1, off)
           back == SubSeq(H, off + n + 1, m)
           z == Zeros(n)
           tail == SubSeq(s, m + 1, Len(s))
<1>1. Buffer(io) /\ cut \in BOOLEAN /\ (~cut => H = said) BY DEF BufInv
<1>2. /\ H \in Seq(Cell) /\ Len(H) = m /\ m \in Nat
      /\ s \in Seq(Cell) /\ Len(s) \in Nat /\ m <= Len(s) /\ Len(s) % align = 0
  BY <1>1, HoldingIs DEF Buffer
<1>3. off \in Nat /\ n \in Nat \ {0} /\ off + n <= m /\ H = SubSeq(s, 1, m)
  BY <1>2 DEF Holding
<1>4. Min({off, io.len}) = off
  <2>1. io.len \in Int /\ off \in Int /\ off <= io.len BY <1>2, <1>3
  <2> QED BY <2>1, MinMaxIs
<1>5. /\ io' = [buf |-> SubSeq(s, 1, off) \o SubSeq(s, off + n + 1, m) \o z \o tail,
                len |-> m - n]
      /\ cut' = cut
      /\ said' = IF cut THEN <<>>
                 ELSE SubSeq(said, 1, off) \o SubSeq(said, off + n + 1, Len(said))
  <2>1. ~(off + n > io.len) BY <1>2, <1>3
  <2>2. io' = Deleted(io, off, n) /\ cut' = cut BY DEF DelData
  <2>3. Deleted(io, off, n) = [buf |-> SubSeq(s, 1, off) \o SubSeq(s, off + n + 1, m) \o z \o tail,
                               len |-> m - n]
    BY <1>4, <2>1 DEF Deleted
  <2> QED BY <2>2, <2>3 DEF DelData, Says
<1> HIDE DEF H, s, m
<1>6. SubSeq(s, 1, off) = front /\ SubSeq(s, off + n + 1, m) = back
  <2>1. SubSeq(SubSeq(s, 1, m), 1, off) = SubSeq(s, 1, off)
    <3>1. off <= m BY <1>2, <1>3
    <3> QED BY <1>2, <1>3, <3>1, PartOfFront
  <2> DEFINE a == off + n + 1
  <2>2. a \in Nat \ {0} BY <1>3
  <2> HIDE DEF a
  <2>3. SubSeq(SubSeq(s, 1, m), a, m) = SubSeq(s, a, m)
    <3>1. m <= m BY <1>2
    <3> QED BY <1>2, <2>2, <3>1, PartOfFront
  <2> QED BY <1>3, <2>1, <2>3 DEF a
<1>7. /\ front \in Seq(Cell) /\ Len(front) = off
      /\ back \in Seq(Cell) /\ Len(back) = m - (off + n)
  <2> DEFINE a == off + n + 1
  <2>1. a \in Nat \ {0} /\ off <= Len(H) /\ m <= Len(H) /\ 1 \in Nat \ {0} BY <1>2, <1>3
  <2> HIDE DEF a
  <2>2. front \in Seq(Cell) /\ Len(front) = IF 1 <= off THEN off - 1 + 1 ELSE 0
    BY <1>2, <1>3, <2>1, SameSub
  <2>3. SubSeq(H, a, m) \in Seq(Cell) /\ Len(SubSeq(H, a, m)) = IF a <= m THEN m - a + 1 ELSE 0
    BY <1>2, <2>1, SameSub
  <2>4. (IF a <= m THEN m - a + 1 ELSE 0) = m - (off + n) BY <1>2, <1>3 DEF a
  <2>5. (IF 1 <= off THEN off - 1 + 1 ELSE 0) = off BY <1>3
  <2> QED BY <2>2, <2>3, <2>4, <2>5 DEF a
<1>8. z \in Seq(Cell) /\ Len(z) = n BY <1>3, ZerosAre
<1>9. tail \in Seq(Cell) /\ Len(tail) = Len(s) - m
  <2> DEFINE a == m + 1
             e == Len(s)
  <2>1. a \in Nat \ {0} /\ e \in Nat /\ e <= Len(s) BY <1>2
  <2> HIDE DEF a, e
  <2>2. SubSeq(s, a, e) \in Seq(Cell) /\ Len(SubSeq(s, a, e)) = IF a <= e THEN e - a + 1 ELSE 0
    BY <1>2, <2>1, SameSub
  <2>3. (IF a <= e THEN e - a + 1 ELSE 0) = Len(s) - m BY <1>2 DEF a, e
  <2> QED BY <2>2, <2>3 DEF a, e
<1> HIDE DEF front, back, z, tail
<1> DEFINE f == front \o back
           t == z \o tail
<1>10. f \in Seq(Cell) /\ Len(f) = m - n
  <2>1. f \in Seq(Cell) /\ Len(f) = Len(front) + Len(back) BY <1>7, ConcatProperties
  <2> HIDE DEF f
  <2> QED BY <1>2, <1>3, <1>7, <2>1
<1>11. t \in Seq(Cell) /\ Len(t) = n + (Len(s) - m)
  <2>1. t \in Seq(Cell) /\ Len(t) = Len(z) + Len(tail) BY <1>8, <1>9, ConcatProperties
  <2> HIDE DEF t
  <2> QED BY <1>8, <1>9, <2>1
<1>12. (f \o z) \o tail = f \o t
  <2>1. f \in Seq(Cell) /\ z \in Seq(Cell) /\ tail \in Seq(Cell) BY <1>8, <1>9, <1>10
  <2> HIDE DEF f
  <2>2. (f \o z) \o tail = f \o (z \o tail) BY <2>1
  <2> QED BY <2>2 DEF t
<1>13. io' = [buf |-> f \o t, len |-> m - n] BY <1>5, <1>6, <1>12
<1>14. ~cut => said' = f BY <1>1, <1>2, <1>5 DEF front, back
<1> HIDE DEF f, t
<1>15. (Len(f) + Len(t)) % align = 0
  <2>1. Len(f) + Len(t) = Len(s) BY <1>2, <1>3, <1>10, <1>11
  <2> QED BY <1>2, <2>1
<1>16. Buffer(io') /\ Holding(io') = f
  <2>1. /\ Buffer([buf |-> f \o t, len |-> Len(f)])
        /\ Holding([buf |-> f \o t, len |-> Len(f)]) = f
    BY <1>10, <1>11, <1>15, MadeOf
  <2> QED BY <1>10, <1>13, <2>1
<1> QED BY <1>1, <1>5, <1>14, <1>16, BufKept

\* printf() into a buffer.
LEMMA PutKeeps ==
    ASSUME BufInv, NEW ch \in Chars, NEW ok \in BOOLEAN, PutChar(ch, ok)
    PROVE  BufInv'
<1> DEFINE H == Holding(io)
           m == io.len
           grow == Len(io.buf) + Len(io.buf) \div 2
           b == IF Want(io) > Len(io.buf) THEN Resized(io, Max({Want(io), grow}), ok) ELSE io
<1>1. Buffer(io) /\ cut \in BOOLEAN /\ (~cut => H = said) BY DEF BufInv
<1>2. H \in Seq(Cell) /\ Len(H) = m /\ m \in Nat /\ Len(io.buf) \in Nat
  BY <1>1, HoldingIs
<1>3. Buffer(b) /\ b.len = m /\ Holding(b) = H
  <2> DEFINE want == Want(io)
             k == Max({want, grow})
  <2>1. want \in Nat /\ m <= want /\ grow \in Nat
    <3>1. \A x \in Nat : x + x \div 2 \in Nat OBVIOUS
    <3>2. grow \in Nat BY <1>2, <3>1
    <3>3. want = m + 2 BY DEF Want
    <3> HIDE DEF grow, m, want
    <3> QED BY <1>2, <3>2, <3>3
  <2> HIDE DEF want, grow
  <2>2. k \in Nat /\ io.len <= k
    <3>1. k = IF want >= grow THEN want ELSE grow BY <2>1, MinMaxIs
    <3> HIDE DEF k
    <3> QED BY <1>2, <2>1, <3>1
  <2> HIDE DEF k
  <2> DEFINE r == Resized(io, k, ok)
  <2>3. Buffer(r) /\ r.len = m /\ Holding(r) = H BY <1>1, <2>2, ResizedIs
  <2>4. b = IF want > Len(io.buf) THEN r ELSE io BY DEF k, want
  <2> HIDE DEF r, b, H
  <2> QED BY <1>1, <2>3, <2>4 DEF H
<1>4. /\ b.buf \in Seq(Cell) /\ Len(b.buf) \in Nat /\ m <= Len(b.buf)
      /\ Len(b.buf) % align = 0 /\ \A i \in 1..m : H[i] = b.buf[i]
  <2> HIDE DEF b
  <2> QED BY <1>3, HoldingIs DEF Buffer
<1>5. /\ CASE b.len + 2 <= Len(b.buf) ->
                  /\ io' = [buf |-> [b.buf EXCEPT ![b.len + 1] = ch, ![b.len + 2] = 0],
                            len |-> b.len + 1]
                  /\ cut' = cut
           [] b.len + 1 = Len(b.buf) ->
                  /\ io' = [buf |-> [b.buf EXCEPT ![b.len + 1] = 0], len |-> b.len + 1]
                  /\ cut' = TRUE
           [] OTHER -> io' = b /\ cut' = TRUE
      /\ said' = IF cut' THEN <<>> ELSE Append(said, ch)
  BY DEF PutChar, Says
<1> HIDE DEF b, H, m
<1> DEFINE s == b.buf
           e == Len(s)
<1>6. CASE m + 2 <= e
  <2> DEFINE u == [s EXCEPT ![m + 1] = ch, ![m + 2] = 0]
             p == [s EXCEPT ![m + 1] = ch]
             h == Append(H, ch)
  <2>0. ~(m + 1 = e) BY <1>2, <1>4, <1>6
  <2>1. io' = [buf |-> u, len |-> m + 1] /\ cut' = cut BY <1>3, <1>5, <1>6, <2>0
  <2>2. s \in Seq(Cell) /\ m + 1 \in 1..Len(s) /\ m + 2 \in 1..Len(s) /\ ch \in Cell /\ 0 \in Cell
    BY <1>2, <1>4, <1>6, DataIs
  <2> HIDE DEF s
  <2>3. /\ p \in Seq(Cell) /\ Len(p) = Len(s)
        /\ \A j \in 1..Len(s) : p[j] = IF j = m + 1 THEN ch ELSE s[j]
    BY <2>2, ExceptSeq
  <2> HIDE DEF p
  <2> DEFINE v == [p EXCEPT ![m + 2] = 0]
  <2>4. /\ v \in Seq(Cell) /\ Len(v) = Len(p)
        /\ \A j \in 1..Len(p) : v[j] = IF j = m + 2 THEN 0 ELSE p[j]
    BY <2>2, <2>3, ExceptSeq
  <2>5. u = v BY DEF p
  <2>6. /\ h \in Seq(Cell) /\ Len(h) = m + 1
        /\ \A i \in 1..m + 1 : h[i] = IF i = m + 1 THEN ch ELSE H[i]
    BY <1>2, <2>2, AppendProperties
  <2> HIDE DEF u, v, h
  <2>7. u \in Seq(Cell) /\ Len(u) = e /\ \A i \in 1..(m + 1) : u[i] = h[i]
    <3>1. u \in Seq(Cell) /\ Len(u) = e BY <2>3, <2>4, <2>5
    <3>2. ASSUME NEW i \in 1..(m + 1) PROVE u[i] = h[i]
      <4>1. i \in 1..Len(s) /\ i # m + 2 /\ (i # m + 1 => i \in 1..m) BY <1>2, <2>2
      <4>2. u[i] = IF i = m + 1 THEN ch ELSE s[i] BY <2>3, <2>4, <2>5, <4>1
      <4> QED BY <1>4, <2>6, <4>1, <4>2 DEF s
    <3> QED BY <3>1, <3>2
  <2>8. SubSeq(u, 1, m + 1) = h
    <3> DEFINE n == m + 1
    <3>1. n \in Nat /\ 1 \in Nat \ {0} /\ n <= Len(u) /\ n <= Len(h) /\ n = Len(h)
      BY <1>2, <1>6, <2>6, <2>7
    <3>2. \A i \in 1..n : u[i] = h[i] BY <2>7
    <3> HIDE DEF n
    <3>3. SubSeq(u, 1, n) = SubSeq(h, 1, n) BY <2>6, <2>7, <3>1, <3>2, SameSub
    <3> QED BY <2>6, <3>1, <3>3, SubSeqFull DEF n
  <2>9. Buffer(io') /\ Holding(io') = h
    <3>1. io'.buf = u /\ io'.len = m + 1 BY <2>1
    <3>2. m + 1 \in Nat /\ m + 1 <= Len(u) BY <1>2, <1>6, <2>7
    <3>3. Len(u) % align = 0 BY <1>4, <2>7 DEF s
    <3>4. [buf |-> u, len |-> m + 1] \in [buf : Seq(Cell), len : Nat] BY <2>7, <3>2
    <3> QED BY <2>1, <2>8, <3>1, <3>2, <3>3, <3>4 DEF Buffer, Holding
  <2>10. ~cut => said' = h BY <1>1, <1>5, <2>1 DEF h
  <2>11. cut => said' = <<>> BY <1>5, <2>1
  <2> QED BY <1>1, <2>1, <2>9, <2>10, <2>11, BufKept
<1>7. CASE m + 1 = e
  <2> DEFINE u == [s EXCEPT ![m + 1] = 0]
  <2>1. ~(m + 2 <= e) BY <1>2, <1>7
  <2>2. io' = [buf |-> u, len |-> m + 1] /\ cut' = TRUE /\ said' = <<>>
    BY <1>3, <1>5, <1>7, <2>1
  <2>3. s \in Seq(Cell) /\ m + 1 \in 1..Len(s) /\ 0 \in Cell BY <1>2, <1>4, <1>7, DataIs
  <2>4. Len(s) % align = 0 BY <1>4
  <2> HIDE DEF s
  <2>5. u \in Seq(Cell) /\ Len(u) = Len(s) BY <2>3, ExceptSeq
  <2> HIDE DEF u
  <2>6. [buf |-> u, len |-> m + 1] \in [buf : Seq(Cell), len : Nat] /\ m + 1 <= Len(u)
    BY <1>2, <2>3, <2>5
  <2>7. Buffer(io') BY <2>2, <2>4, <2>5, <2>6 DEF Buffer
  <2> QED BY <2>2, <2>7, BufKept
<1>8. CASE ~(m + 2 <= e) /\ m + 1 # e
  <2>1. io' = b /\ cut' = TRUE /\ said' = <<>> BY <1>3, <1>5, <1>8
  <2>2. Buffer(io') BY <1>3, <2>1
  <2> QED BY <2>1, <2>2, BufKept
<1> QED BY <1>6, <1>7, <1>8

\* ws_wrap().
LEMMA WrapKeeps ==
    ASSUME BufInv, NEW n \in Nat, NEW ok \in BOOLEAN, Wrap(n, ok)
    PROVE  BufInv'
<1> DEFINE H == Holding(io)
           m == io.len
           b == Added(io, io.len, Header, ok)
           k == AddedLen(io, Len(Header), ok)
           start == m - n
           s == b.buf
           front == SubSeq(H, 1, start)
           back == SubSeq(H, start + 1, m)
           tail == SubSeq(s, b.len + 1, Len(s))
<1>1. Buffer(io) /\ cut \in BOOLEAN /\ (~cut => H = said) BY DEF BufInv
<1>2. H \in Seq(Cell) /\ Len(H) = m /\ m \in Nat BY <1>1, HoldingIs
<1>3. n <= m /\ start \in Nat /\ start <= m
  <2>1. n <= m BY DEF Wrap
  <2> HIDE DEF m
  <2> QED BY <1>2, <2>1
<1>4. Header \in Seq(Cell) /\ Len(Header) \in Nat BY DataIs, LenProperties
<1>5. /\ Buffer(b) /\ k \in {0, Len(Header)} /\ b.len = m + k
      /\ (k = Len(Header) => Holding(b) = SubSeq(H, 1, m) \o Header \o SubSeq(H, m + 1, m))
  <2>1. io.len \in 0..io.len BY <1>2
  <2> QED BY <1>1, <1>4, <2>1, AddedIs
<1>6. /\ Holding(b) \in Seq(Cell) /\ Len(Holding(b)) = b.len /\ b.len \in Nat
      /\ s \in Seq(Cell) /\ Len(s) \in Nat /\ b.len <= Len(s) /\ Len(s) % align = 0
      /\ \A i \in 1..b.len : Holding(b)[i] = s[i]
  <2> HIDE DEF b
  <2> QED BY <1>5, HoldingIs DEF Buffer
<1>7. /\ IF b.len > io.len
         THEN /\ io' = [b EXCEPT !.buf = SubSeq(s, 1, start) \o Header
                            \o SubSeq(s, start + 1, m) \o tail]
              /\ cut' = cut
         ELSE io' = b /\ cut' = TRUE
      /\ said' = IF cut' THEN <<>>
                 ELSE SubSeq(said, 1, Len(said) - n) \o Header
                      \o SubSeq(said, Len(said) - n + 1, Len(said))
  BY DEF Wrap, Says
<1>8. CASE ~(b.len > io.len)
  <2>1. io' = b /\ cut' = TRUE /\ said' = <<>> BY <1>7, <1>8
  <2>2. Buffer(io') BY <1>5, <2>1
  <2> QED BY <2>1, <2>2, BufKept
<1>9. CASE b.len > io.len
  <2>1. k = Len(Header) /\ b.len = m + Len(Header)
    <3> HIDE DEF b, k
    <3> QED BY <1>2, <1>4, <1>5, <1>9
  <2>2. \A i \in 1..m : s[i] = H[i]
    <3> DEFINE g == H \o Header
    <3>1. SubSeq(H, 1, m) = H /\ SubSeq(H, m + 1, m) = <<>>
      <4>1. m + 1 \in Int /\ m < m + 1 BY <1>2
      <4> HIDE DEF H, m
      <4>2. SubSeq(H, m + 1, m) = <<>> BY <1>2, <4>1, SubSeqEmpty
      <4>3. SubSeq(H, 1, Len(H)) = H BY <1>2, SubSeqFull
      <4> QED BY <1>2, <4>2, <4>3
    <3> HIDE DEF H, m, b, s
    <3>2. /\ g \in Seq(Cell)
          /\ \A i \in 1..Len(H) + Len(Header) : g[i] = IF i <= Len(H) THEN H[i] ELSE Header[i - Len(H)]
      BY <1>2, <1>4, ConcatProperties
    <3>3. Holding(b) = g \o <<>> BY <1>5, <2>1, <3>1
    <3>4. Holding(b) = g
      <4> HIDE DEF g
      <4> QED BY <3>2, <3>3, ConcatEmptySeq
    <3>5. ASSUME NEW i \in 1..m PROVE s[i] = H[i]
      <4>1. i \in 1..Len(H) + Len(Header) /\ i <= Len(H) /\ i \in 1..b.len
        BY <1>2, <1>4, <2>1
      <4> QED BY <1>6, <3>2, <3>4, <4>1
    <3> QED BY <3>5
  <2>3. /\ SubSeq(s, 1, start) = front /\ front \in Seq(Cell) /\ Len(front) = start
        /\ SubSeq(s, start + 1, m) = back /\ back \in Seq(Cell) /\ Len(back) = n
    <3> DEFINE a == start + 1
    <3>1. /\ a \in Nat \ {0} /\ 1 \in Nat \ {0} /\ start <= Len(s) /\ start <= Len(H)
          /\ m <= Len(s) /\ m <= Len(H)
      BY <1>2, <1>3, <1>4, <1>6, <2>1
    <3>2. \A i \in 1..start : s[i] = H[i] BY <1>2, <1>3, <2>2
    <3>3. \A i \in a..m : s[i] = H[i] BY <1>2, <1>3, <2>2
    <3>4. m - a + 1 = n /\ (a <= m <=> n > 0) BY <1>2, <1>3
    <3> HIDE DEF a, start, m, H, s
    <3>5. /\ SubSeq(s, 1, start) = SubSeq(H, 1, start) /\ SubSeq(s, 1, start) \in Seq(Cell)
          /\ Len(SubSeq(s, 1, start)) = IF 1 <= start THEN start - 1 + 1 ELSE 0
      <4>1. s \in Seq(Cell) /\ H \in Seq(Cell) /\ start \in Nat BY <1>2, <1>3, <1>6
      <4> QED BY <3>1, <3>2, <4>1, SameSub
    <3>6. /\ SubSeq(s, a, m) = SubSeq(H, a, m) /\ SubSeq(s, a, m) \in Seq(Cell)
          /\ Len(SubSeq(s, a, m)) = IF a <= m THEN m - a + 1 ELSE 0
      BY <1>2, <1>6, <3>1, <3>3, SameSub
    <3>7. Len(SubSeq(s, 1, start)) = start BY <1>3, <3>5
    <3>8. Len(SubSeq(s, a, m)) = n BY <3>4, <3>6
    <3> QED BY <3>5, <3>6, <3>7, <3>8 DEF a
  <2>4. tail \in Seq(Cell) /\ Len(tail) = Len(s) - b.len
    <3> DEFINE a == b.len + 1
               e == Len(s)
    <3>1. a \in Nat \ {0} /\ e \in Nat /\ e <= Len(s) BY <1>6
    <3> HIDE DEF a, e, s
    <3>2. SubSeq(s, a, e) \in Seq(Cell) /\ Len(SubSeq(s, a, e)) = IF a <= e THEN e - a + 1 ELSE 0
      BY <1>6, <3>1, SameSub
    <3>3. (IF a <= e THEN e - a + 1 ELSE 0) = Len(s) - b.len BY <1>6 DEF a, e
    <3> QED BY <3>2, <3>3 DEF a, e
  <2>5. /\ io' = [b EXCEPT !.buf = ((front \o Header) \o back) \o tail] /\ cut' = cut
        /\ ~cut => said' = (front \o Header) \o back
    BY <1>1, <1>2, <1>7, <1>9, <2>3
  <2>6. cut => said' = <<>> BY <1>7, <2>5
  <2>7. b \in [buf : Seq(Cell), len : Nat] BY <1>5 DEF Buffer
  <2> HIDE DEF front, back, tail, H, m, b, start, s, k
  <2> DEFINE g == front \o Header
             f == g \o back
  <2>8. g \in Seq(Cell) /\ Len(g) = start + Len(Header) BY <1>4, <2>3, ConcatProperties
  <2> HIDE DEF g
  <2>9. f \in Seq(Cell) /\ Len(f) = Len(g) + Len(back) BY <2>3, <2>8, ConcatProperties
  <2> HIDE DEF f
  <2>10. Len(f) = b.len BY <1>2, <1>3, <1>4, <2>1, <2>3, <2>8, <2>9 DEF start
  <2>11. (Len(f) + Len(tail)) % align = 0
    <3>1. Len(f) + Len(tail) = Len(s) BY <1>6, <2>4, <2>10
    <3> QED BY <1>6, <3>1
  <2>12. io' = [buf |-> f \o tail, len |-> Len(f)] BY <2>5, <2>7, <2>10 DEF f, g
  <2>13. /\ Buffer([buf |-> f \o tail, len |-> Len(f)])
         /\ Holding([buf |-> f \o tail, len |-> Len(f)]) = f
    BY <2>4, <2>9, <2>11, MadeOf
  <2>14. Buffer(io') /\ Holding(io') = f BY <2>12, <2>13
  <2>15. ~cut => said' = f BY <2>5 DEF f, g
  <2> QED BY <1>1, <2>5, <2>6, <2>14, <2>15, BufKept
<1> QED BY <1>8, <1>9

\* ioalloc() and what is received into the space it made.
LEMMA FillKeeps ==
    ASSUME BufInv, NEW data \in Seq(Cell), NEW ok \in BOOLEAN, Fill(data, ok)
    PROVE  BufInv'
<1> DEFINE H == Holding(io)
           m == io.len
           L == Len(io.buf)
           b == IF L <= m THEN Resized(io, L + align, ok) ELSE io
           s == b.buf
           d == Len(data)
           tail == SubSeq(s, b.len + d + 1, Len(s))
<1>1. Buffer(io) /\ cut \in BOOLEAN /\ said \in Seq(Cell) /\ (~cut => H = said) BY DEF BufInv
<1>2. H \in Seq(Cell) /\ Len(H) = m /\ m \in Nat /\ L \in Nat /\ m <= L BY <1>1, HoldingIs
<1>3. d \in Nat BY LenProperties
<1>4. Buffer(b) /\ b.len = m /\ Holding(b) = H
  <2> DEFINE k == L + align
             r == Resized(io, k, ok)
  <2>1. k \in Nat /\ io.len <= k BY <1>2, IOBufAssumption
  <2> HIDE DEF k
  <2>2. Buffer(r) /\ r.len = m /\ Holding(r) = H BY <1>1, <2>1, ResizedIs
  <2>3. b = IF L <= m THEN r ELSE io BY DEF k
  <2> HIDE DEF r, b, H, m
  <2> QED BY <1>1, <2>2, <2>3 DEF H, m
<1>5. /\ s \in Seq(Cell) /\ Len(s) \in Nat /\ m <= Len(s) /\ Len(s) % align = 0
  <2> HIDE DEF b
  <2> QED BY <1>4, HoldingIs DEF Buffer
<1>6. /\ cut' = cut
      /\ IF d <= Len(s) - b.len
         THEN /\ io' = [buf |-> SubSeq(s, 1, b.len) \o data \o tail, len |-> b.len + d]
              /\ said' = IF cut' THEN <<>> ELSE said \o data
         ELSE io' = b /\ said' = said
  BY DEF Fill, Says
<1> HIDE DEF b
<1>7. CASE ~(d <= Len(s) - b.len)
  <2>1. io' = b /\ cut' = cut /\ said' = said BY <1>6, <1>7
  <2>2. Buffer(io') /\ Holding(io') = H BY <1>4, <2>1
  <2>3. cut \/ Holding(io') = said' BY <1>1, <2>1, <2>2
  <2> HIDE DEF H
  <2> QED BY <1>1, <2>1, <2>2, <2>3, BufKept
<1>8. CASE d <= Len(s) - b.len
  <2>1. /\ io' = [buf |-> (H \o data) \o tail, len |-> m + d] /\ cut' = cut
        /\ said' = IF cut THEN <<>> ELSE said \o data
    BY <1>4, <1>6, <1>8 DEF Holding
  <2>2. tail \in Seq(Cell) /\ Len(tail) = Len(s) - (m + d)
    <3> DEFINE a == b.len + d + 1
               e == Len(s)
    <3>1. a \in Nat \ {0} /\ e \in Nat /\ e <= Len(s) BY <1>2, <1>3, <1>4, <1>5
    <3>2. (IF a <= e THEN e - a + 1 ELSE 0) = Len(s) - (m + d)
      <4> HIDE DEF s, m, d
      <4> QED BY <1>2, <1>3, <1>4, <1>5, <1>8
    <3> HIDE DEF a, e, s
    <3>3. SubSeq(s, a, e) \in Seq(Cell) /\ Len(SubSeq(s, a, e)) = IF a <= e THEN e - a + 1 ELSE 0
      BY <1>5, <3>1, SameSub
    <3> QED BY <3>2, <3>3 DEF a, e
  <2>3. m + d <= Len(s)
    <3> HIDE DEF s, m, d
    <3> QED BY <1>2, <1>3, <1>4, <1>5, <1>8
  <2> HIDE DEF tail, H, m, s
  <2> DEFINE f == H \o data
  <2>4. f \in Seq(Cell) /\ Len(f) = m + d BY <1>2, ConcatProperties
  <2> HIDE DEF f
  <2>5. (Len(f) + Len(tail)) % align = 0
    <3>1. Len(f) + Len(tail) = Len(s) BY <1>2, <1>3, <1>5, <2>2, <2>3, <2>4
    <3> QED BY <1>5, <3>1
  <2>6. io' = [buf |-> f \o tail, len |-> Len(f)] BY <2>1, <2>4 DEF f
  <2>7. /\ Buffer([buf |-> f \o tail, len |-> Len(f)])
        /\ Holding([buf |-> f \o tail, len |-> Len(f)]) = f
    BY <2>2, <2>4, <2>5, MadeOf
  <2>8. Buffer(io') /\ Holding(io') = f BY <2>6, <2>7
  <2>9. ~cut => said' = f BY <1>1, <2>1 DEF f
  <2>10. cut => said' = <<>> BY <2>1
  <2> QED BY <1>1, <2>1, <2>8, <2>9, <2>10, BufKept
<1> QED BY <1>7, <1>8

\* The invariant is kept by every operation on a buffer, whichever allocations
\* fail.
THEOREM BufInvariant == IOBufSpec => []BufInv
<1>1. IOBufInit => BufInv
  <2> SUFFICES ASSUME IOBufInit PROVE BufInv OBVIOUS
  <2>1. io = [buf |-> <<>>, len |-> 0] /\ said = <<>> /\ cut = FALSE BY DEF IOBufInit
  <2>2. <<>> \in Seq(Cell) /\ Len(<<>>) = 0 BY EmptySeq
  <2>3. 0 % align = 0 BY IOBufAssumption
  <2>4. Holding(io) = <<>> BY <2>1, SubSeqEmpty DEF Holding
  <2>5. [buf |-> <<>>, len |-> 0] \in [buf : Seq(Cell), len : Nat] BY <2>2
  <2>6. Buffer(io) BY <2>1, <2>2, <2>3, <2>5 DEF Buffer
  <2>7. cut \in BOOLEAN /\ said \in Seq(Cell) BY <2>1, <2>2, Zenon
  <2> QED BY <2>1, <2>4, <2>6, <2>7 DEF BufInv
<1>2. BufInv /\ [IOBufNext]_bufVars => BufInv'
  <2> SUFFICES ASSUME BufInv, [IOBufNext]_bufVars PROVE BufInv' OBVIOUS
  <2>1. CASE UNCHANGED bufVars
    BY <2>1 DEF bufVars, BufInv, Buffer, Holding
  <2>2. CASE FreeBuf
    <3>1. roundup(0) = 0
      <4>1. align \in Nat \ {0} BY IOBufAssumption
      <4>2. (0 + align - 1) \div align = 0 BY <4>1
      <4> QED BY <4>1, <4>2 DEF roundup
    <3>2. io' = [buf |-> <<>>, len |-> 0] /\ said' = <<>> /\ cut' = FALSE
      BY <2>2, <3>1 DEF FreeBuf, Resized
    <3>3. <<>> \in Seq(Cell) /\ Len(<<>>) = 0 /\ 0 % align = 0 BY EmptySeq, IOBufAssumption
    <3>4. Buffer(io') BY <3>2, <3>3 DEF Buffer
    <3>5. Holding(io') = <<>> BY <3>2, SubSeqEmpty DEF Holding
    <3> QED BY <3>2, <3>4, <3>5, BufKept
  <2>3. ASSUME NEW ok \in BOOLEAN, NEW data \in SeqOf(Chars, 2), NEW off \in 0..io.len,
               AddData(off, data, ok)
        PROVE  BufInv'
    BY <2>3, AddKeeps, DataIs
  <2>4. ASSUME NEW ok \in BOOLEAN, NEW data \in SeqOf(Chars, 2), Fill(data, ok)
        PROVE  BufInv'
    BY <2>4, FillKeeps, DataIs
  <2>5. ASSUME NEW ok \in BOOLEAN, NEW ch \in Chars, PutChar(ch, ok)
        PROVE  BufInv'
    BY <2>5, PutKeeps
  <2>6. ASSUME NEW ok \in BOOLEAN, NEW n \in 0..2, Wrap(n, ok)
        PROVE  BufInv'
    BY <2>6, WrapKeeps
  <2>7. ASSUME NEW off \in 0..io.len, NEW n \in 1..(io.len - off), DelData(off, n)
        PROVE  BufInv'
    BY <2>7, DelKeeps
  <2> QED BY <2>1, <2>2, <2>3, <2>4, <2>5, <2>6, <2>7 DEF IOBufNext
<1> QED BY <1>1, <1>2, PTL DEF IOBufSpec

\* A buffer holds what the calls on it said they did, in order, whichever
\* allocations failed, unless a printf() or ws_wrap() was cut short (BufferSound):
\* each call moves what is in use, and touches the memory behind it only.
THEOREM BuffersAreSound == IOBufSpec => []BufferSound
<1>1. BufInv => BufferSound BY DEF BufInv, Buffer, BufferSound, Contents, Holding
<1> QED BY <1>1, BufInvariant, PTL

-----------------------------------------------------------------------------
(* The frames of ws.cpp: their headers, byte by byte, and the masks. *)

\* The bytes of a header before its mask.
Wide(n) == IF n < 126 THEN 2 ELSE IF n < TwoBytes THEN 4 ELSE 10

\* What mkhdr() writes for data of length n.
HeaderOf(h, n, op, mask) ==
    /\ h \in Seq(Int) /\ Len(h) = Wide(n) + Len(mask)
    /\ h[1] = op + 128
    /\ h[2] = (IF n < 126 THEN n ELSE IF n < TwoBytes THEN 126 ELSE 127)
              + (IF mask = <<>> THEN 0 ELSE 128)
    /\ n >= 126 /\ n < TwoBytes => h[3] = n \div 256 /\ h[4] = n % 256
    /\ n >= TwoBytes => /\ h[3] = 0 /\ h[4] = 0 /\ h[5] = 0 /\ h[6] = 0
                    /\ h[7] = n \div (256 * TwoBytes) /\ h[8] = (n \div TwoBytes) % 256
                    /\ h[9] = (n \div 256) % 256 /\ h[10] = n % 256
    /\ \A j \in 1..Len(mask) : h[Wide(n) + j] = mask[j]

\* A mask is four bits or none.
LEMMA MaskLength ==
    ASSUME NEW mask \in Masks
    PROVE  /\ mask \in Seq({0, 1}) /\ Len(mask) \in {0, 4}
           /\ mask = <<>> <=> Len(mask) = 0
           /\ \A j \in 1..Len(mask) : mask[j] \in {0, 1}
<1>1. CASE mask = <<>>
  BY <1>1
<1>2. CASE mask \in [1..4 -> {0, 1}]
  <2>1. mask \in Seq({0, 1})
    BY <1>2, SeqDef
  <2>2. Len(mask) = 4 /\ \A j \in 1..4 : mask[j] \in {0, 1}
    <3>1. DOMAIN mask = 1..4 /\ DOMAIN mask = 1..Len(mask) /\ Len(mask) \in Nat
      BY <1>2, <2>1, LenProperties
    <3> QED
      BY <1>2, <3>1
  <2> QED
    BY <2>1, <2>2
<1> QED
  BY <1>1, <1>2 DEF Masks

\* Where three sequences that were joined lie.
LEMMA JoinedPoints ==
    ASSUME NEW a \in Seq(Int), NEW b \in Seq(Int), NEW c \in Seq(Int)
    PROVE  /\ (a \o b) \o c \in Seq(Int)
           /\ Len((a \o b) \o c) = Len(a) + Len(b) + Len(c)
           /\ \A j \in 1..Len(a) : ((a \o b) \o c)[j] = a[j]
           /\ \A j \in 1..Len(b) : ((a \o b) \o c)[Len(a) + j] = b[j]
           /\ \A j \in 1..Len(c) : ((a \o b) \o c)[Len(a) + Len(b) + j] = c[j]
<1> DEFINE ab == a \o b
<1>1. /\ ab \in Seq(Int) /\ Len(ab) = Len(a) + Len(b)
      /\ \A j \in 1..Len(a) : ab[j] = a[j]
      /\ \A j \in 1..Len(b) : ab[Len(a) + j] = b[j]
  BY ConcatProperties
<1>2. /\ ab \o c \in Seq(Int) /\ Len(ab \o c) = Len(ab) + Len(c)
      /\ \A j \in 1..Len(ab) : (ab \o c)[j] = ab[j]
      /\ \A j \in 1..Len(c) : (ab \o c)[Len(ab) + j] = c[j]
  BY <1>1, ConcatProperties
<1>3. Len(a) \in Nat /\ Len(b) \in Nat
  OBVIOUS
<1> QED
  BY <1>1, <1>2, <1>3

LEMMA TwoBytesIs ==
    TwoBytes \in Nat /\ 126 < TwoBytes
  BY SMT DEF TwoBytes

\* What the bytes of a length are.
LEMMA LengthBytes ==
    ASSUME NEW n \in Nat
    PROVE  /\ TwoBytes \in Nat /\ 126 < TwoBytes
           /\ n \div 256 \in Int /\ n % 256 \in Int /\ (n \div 256) % 256 \in Int
           /\ n \div (256 * TwoBytes) \in Int /\ (n \div TwoBytes) % 256 \in Int
  BY SMT DEF TwoBytes

LEMMA HeaderWritten ==
    ASSUME NEW n \in Nat, NEW op \in 0..15, NEW mask \in Masks
    PROVE  HeaderOf(mkhdr(n, op, mask), n, op, mask)
<1> DEFINE flag == IF mask = <<>> THEN 0 ELSE 128
           a == <<op + 128>>
           size == IF n < 126 THEN <<n + flag>>
                   ELSE IF n < TwoBytes THEN <<126 + flag, n \div 256, n % 256>>
                   ELSE <<127 + flag, 0, 0, 0, 0, n \div (256 * TwoBytes),
                          (n \div TwoBytes) % 256, (n \div 256) % 256, n % 256>>
           h(b) == (a \o b) \o mask
<1>1. /\ mask \in Seq(Int) /\ flag \in Int /\ a \in Seq(Int) /\ Len(a) = 1 /\ a[1] = op + 128
      /\ Len(mask) \in Nat
  BY MaskLength, SMT
<1>0. /\ TwoBytes \in Int /\ 126 < TwoBytes
      /\ n \div 256 \in Int /\ n % 256 \in Int /\ (n \div 256) % 256 \in Int
      /\ n \div (256 * TwoBytes) \in Int /\ (n \div TwoBytes) % 256 \in Int
  BY LengthBytes, SMT
<1>6. mkhdr(n, op, mask) = h(size)
  BY DEF mkhdr
<1>2. ASSUME NEW b \in Seq(Int)
      PROVE  /\ h(b) \in Seq(Int) /\ Len(h(b)) = 1 + Len(b) + Len(mask)
             /\ h(b)[1] = op + 128
             /\ \A j \in 1..Len(b) : h(b)[1 + j] = b[j]
             /\ \A j \in 1..Len(mask) : h(b)[1 + Len(b) + j] = mask[j]
  BY <1>1, JoinedPoints, SMT
<1>3. CASE n < 126
  <2> DEFINE b == <<n + flag>>
  <2>1. b \in Seq(Int) /\ Len(b) = 1 /\ b[1] = n + flag
    BY <1>0, <1>1, SMT
  <2>2. mkhdr(n, op, mask) = h(b)
    <3>1. size = b
      BY <1>3
    <3> HIDE DEF size, b, h
    <3> QED
      BY <1>6, <3>1
  <2>3. h(b)[2] = n + flag
    <3>1. \A j \in 1..1 : h(b)[1 + j] = b[j]
      BY <1>2, <2>1, SMT
    <3> HIDE DEF h, b, flag
    <3> QED
      BY <3>1, <2>1, SMT
  <2>4. /\ h(b) \in Seq(Int) /\ Len(h(b)) = 2 + Len(mask) /\ h(b)[1] = op + 128
        /\ \A j \in 1..Len(mask) : h(b)[2 + j] = mask[j]
    <3>1. 1 + Len(b) = 2
      BY <2>1, SMT
    <3>2. b \in Seq(Int)
      BY <2>1
    <3> HIDE DEF h, b, flag
    <3>3. /\ h(b) \in Seq(Int) /\ Len(h(b)) = 1 + Len(b) + Len(mask) /\ h(b)[1] = op + 128
          /\ \A j \in 1..Len(mask) : h(b)[1 + Len(b) + j] = mask[j]
      BY <1>2, <3>2
    <3> QED
      BY <3>1, <3>3
  <2>5. Wide(n) = 2 /\ ~(n >= 126 /\ n < TwoBytes) /\ ~(n >= TwoBytes)
    BY <1>3, <1>0, SMT DEF Wide
  <2> HIDE DEF h, b
  <2> QED
    BY <1>3, <2>2, <2>3, <2>4, <2>5, <1>0, SMT DEF HeaderOf
<1>4. CASE n >= 126 /\ n < TwoBytes
  <2> DEFINE b == <<126 + flag, n \div 256, n % 256>>
  <2>1. b \in Seq(Int) /\ Len(b) = 3 /\ b[1] = 126 + flag /\ b[2] = n \div 256 /\ b[3] = n % 256
    BY <1>0, <1>1, SMT
  <2>2. mkhdr(n, op, mask) = h(b)
    <3>1. size = b
      BY <1>4, <1>0, SMT
    <3> HIDE DEF size, b, h
    <3> QED
      BY <1>6, <3>1
  <2>3. h(b)[2] = 126 + flag /\ h(b)[3] = n \div 256 /\ h(b)[4] = n % 256
    <3>1. \A j \in 1..3 : h(b)[1 + j] = b[j]
      BY <1>2, <2>1, SMT
    <3> HIDE DEF h, b, flag
    <3>2. h(b)[1 + 1] = b[1] /\ h(b)[1 + 2] = b[2] /\ h(b)[1 + 3] = b[3]
      BY <3>1, SMT
    <3> QED
      BY <3>2, <2>1, SMT
  <2>4. /\ h(b) \in Seq(Int) /\ Len(h(b)) = 4 + Len(mask) /\ h(b)[1] = op + 128
        /\ \A j \in 1..Len(mask) : h(b)[4 + j] = mask[j]
    <3>1. 1 + Len(b) = 4
      BY <2>1, SMT
    <3>2. b \in Seq(Int)
      BY <2>1
    <3> HIDE DEF h, b, flag
    <3>3. /\ h(b) \in Seq(Int) /\ Len(h(b)) = 1 + Len(b) + Len(mask) /\ h(b)[1] = op + 128
          /\ \A j \in 1..Len(mask) : h(b)[1 + Len(b) + j] = mask[j]
      BY <1>2, <3>2
    <3> QED
      BY <3>1, <3>3
  <2>5. Wide(n) = 4 /\ ~(n < 126) /\ n < TwoBytes /\ ~(n >= TwoBytes)
    BY <1>4, <1>0, SMT DEF Wide
  <2> HIDE DEF h, b
  <2> QED
    BY <1>4, <2>2, <2>3, <2>4, <2>5, <1>0, SMT DEF HeaderOf
<1>5. CASE n >= TwoBytes
  <2> DEFINE b == <<127 + flag, 0, 0, 0, 0, n \div (256 * TwoBytes), (n \div TwoBytes) % 256,
                    (n \div 256) % 256, n % 256>>
  <2>1. /\ b \in Seq(Int) /\ Len(b) = 9 /\ b[1] = 127 + flag
        /\ b[2] = 0 /\ b[3] = 0 /\ b[4] = 0 /\ b[5] = 0
        /\ b[6] = n \div (256 * TwoBytes) /\ b[7] = (n \div TwoBytes) % 256
        /\ b[8] = (n \div 256) % 256 /\ b[9] = n % 256
    BY <1>0, <1>1, SMT
  <2>2. mkhdr(n, op, mask) = h(b)
    <3>1. size = b
      <4>1. ~(n < 126) /\ ~(n < TwoBytes)
        BY <1>5, <1>0, SMT
      <4> QED
        BY <4>1
    <3> HIDE DEF size, b, h
    <3> QED
      BY <1>6, <3>1
  <2>3. /\ h(b)[2] = 127 + flag /\ h(b)[3] = 0 /\ h(b)[4] = 0 /\ h(b)[5] = 0 /\ h(b)[6] = 0
        /\ h(b)[7] = n \div (256 * TwoBytes) /\ h(b)[8] = (n \div TwoBytes) % 256
        /\ h(b)[9] = (n \div 256) % 256 /\ h(b)[10] = n % 256
    <3>1. \A j \in 1..9 : h(b)[1 + j] = b[j]
      BY <1>2, <2>1, SMT
    <3> HIDE DEF h, b, flag
    <3>2. /\ h(b)[1 + 1] = b[1] /\ h(b)[1 + 2] = b[2] /\ h(b)[1 + 3] = b[3]
          /\ h(b)[1 + 4] = b[4] /\ h(b)[1 + 5] = b[5] /\ h(b)[1 + 6] = b[6]
          /\ h(b)[1 + 7] = b[7] /\ h(b)[1 + 8] = b[8] /\ h(b)[1 + 9] = b[9]
      BY <3>1, SMT
    <3> QED
      BY <3>2, <2>1, SMT
  <2>4. /\ h(b) \in Seq(Int) /\ Len(h(b)) = 10 + Len(mask) /\ h(b)[1] = op + 128
        /\ \A j \in 1..Len(mask) : h(b)[10 + j] = mask[j]
    <3>1. 1 + Len(b) = 10
      BY <2>1, SMT
    <3>2. b \in Seq(Int)
      BY <2>1
    <3> HIDE DEF h, b, flag
    <3>3. /\ h(b) \in Seq(Int) /\ Len(h(b)) = 1 + Len(b) + Len(mask) /\ h(b)[1] = op + 128
          /\ \A j \in 1..Len(mask) : h(b)[1 + Len(b) + j] = mask[j]
      BY <1>2, <3>2
    <3> QED
      BY <3>1, <3>3
  <2>5. Wide(n) = 10 /\ ~(n < 126) /\ ~(n < TwoBytes) /\ ~(n >= 126 /\ n < TwoBytes)
    BY <1>5, <1>0, SMT DEF Wide
  <2> HIDE DEF h, b
  <2> QED
    BY <1>5, <2>2, <2>3, <2>4, <2>5, <1>0, SMT DEF HeaderOf
<1> QED
  BY <1>0, <1>3, <1>4, <1>5, SMT

\* A length is the number that its bytes make.
LEMMA TwoRead ==
    ASSUME NEW n \in Nat
    PROVE  (n \div 256) * 256 + (n % 256) = n
  BY SMT

LEMMA FourRead ==
    ASSUME NEW n \in Nat
    PROVE  ((n \div (256 * TwoBytes)) * 256 + ((n \div TwoBytes) % 256)) * TwoBytes
               + (((n \div 256) % 256) * 256 + (n % 256)) = n
<1> DEFINE q == n \div 256
           r == q \div 256
<1>1. q \in Nat /\ r \in Nat /\ n = q * 256 + (n % 256) /\ q = r * 256 + (q % 256) /\ n % 256 \in Nat
  BY SMT
<1>2. n \div TwoBytes = r
  BY SMT DEF TwoBytes
<1>3. n \div (256 * TwoBytes) = r \div 256
  BY SMT DEF TwoBytes
<1>4. (r \div 256) * 256 + (r % 256) = r
  BY <1>1, SMT
<1>5. q % 256 \in Nat
  BY <1>1, SMT
<1> HIDE DEF q, r
<1>6. r * TwoBytes + ((q % 256) * 256 + (n % 256)) = n
  BY <1>1, <1>5, SMT DEF TwoBytes
<1> QED
  BY <1>2, <1>3, <1>4, <1>6 DEF q

LEMMA LengthRead ==
    ASSUME NEW n \in Nat, NEW h, NEW op, NEW mask, HeaderOf(h, n, op, mask)
    PROVE  /\ n >= 126 /\ n < TwoBytes => be16(h, 3) = n
           /\ n >= TwoBytes => be32(h, 3) = 0 /\ be32(h, 7) = n
<1>1. ASSUME n >= 126, n < TwoBytes
      PROVE  be16(h, 3) = n
  <2>1. h[3] = n \div 256 /\ h[4] = n % 256
    BY <1>1, SMT DEF HeaderOf
  <2>2. be16(h, 3) = h[3] * 256 + h[4]
    BY SMT DEF be16
  <2> QED
    BY <2>1, <2>2, TwoRead
<1>2. ASSUME n >= TwoBytes
      PROVE  be32(h, 3) = 0 /\ be32(h, 7) = n
  <2>1. /\ h[3] = 0 /\ h[4] = 0 /\ h[5] = 0 /\ h[6] = 0
        /\ h[7] = n \div (256 * TwoBytes) /\ h[8] = (n \div TwoBytes) % 256
        /\ h[9] = (n \div 256) % 256 /\ h[10] = n % 256
    BY <1>2, SMT DEF HeaderOf
  <2>2. /\ be32(h, 3) = (h[3] * 256 + h[4]) * TwoBytes + (h[5] * 256 + h[6])
        /\ be32(h, 7) = (h[7] * 256 + h[8]) * TwoBytes + (h[9] * 256 + h[10])
    BY SMT DEF be16, be32
  <2>3. be32(h, 3) = 0
    BY <2>1, <2>2, LengthBytes, SMT
  <2>4. be32(h, 7) = n
    BY <2>1, <2>2, FourRead
  <2> QED
    BY <2>3, <2>4
<1> QED
  BY <1>1, <1>2

\* The number in the second byte of a header.
Lead(n) == IF n < 126 THEN n ELSE IF n < TwoBytes THEN 126 ELSE 127

\* What lies in s of a header h: as much of it as there is.
Begins(s, h) == \A i \in 1..Len(s) : i <= Len(h) => s[i] = h[i]

\* The mask bit and the seven bits before it.
LEMMA SevenBits ==
    \A x \in 0..127 : /\ x + 0 = x /\ x % 128 = x /\ ~(x >= 128)
                      /\ (x + 128) % 128 = x /\ x + 128 >= 128
  BY SMT

\* The length of the mask, according to the second byte.
MaskLen(s) == IF s[2] >= 128 THEN 4 ELSE 0

\* The first two bytes of a header.
Leading(s, n, op, mask) ==
    /\ s[1] % 16 = op /\ s[2] % 128 = Lead(n)
    /\ s[2] >= 128 <=> mask # <<>>
    /\ MaskLen(s) = Len(mask)
    /\ Lead(n) \in 0..127 /\ Wide(n) \in {2, 4, 10} /\ Len(mask) \in {0, 4}

\* What the first two bytes say.
LEMMA FirstBytes ==
    ASSUME NEW n \in Nat, NEW op \in 0..15, NEW mask \in Masks, NEW h, HeaderOf(h, n, op, mask),
           NEW s \in Seq(Int), Begins(s, h), Len(s) >= 2
    PROVE  Leading(s, n, op, mask)
<1>1. /\ Len(mask) \in {0, 4} /\ (mask = <<>> <=> Len(mask) = 0)
  BY MaskLength
<1>2. Lead(n) \in 0..127 /\ Wide(n) \in {2, 4, 10}
  BY TwoBytesIs, SMT DEF Lead, Wide
<1>3. /\ h[1] = op + 128 /\ h[2] = Lead(n) + (IF mask = <<>> THEN 0 ELSE 128)
      /\ Len(h) = Wide(n) + Len(mask)
  BY SMT DEF HeaderOf, Lead
<1>4. s[1] = h[1] /\ s[2] = h[2]
  <2>1. 1 \in 1..Len(s) /\ 2 \in 1..Len(s)
    BY SMT
  <2>2. 1 <= Len(h) /\ 2 <= Len(h)
    <3>1. \A w \in {2, 4, 10}, k \in {0, 4} : 1 <= w + k /\ 2 <= w + k
      BY SMT
    <3> QED
      BY <1>1, <1>2, <1>3, <3>1
  <2>3. \A i \in 1..Len(s) : i <= Len(h) => s[i] = h[i]
    BY DEF Begins
  <2>4. s[1] = h[1]
    BY <2>1, <2>2, <2>3
  <2>5. s[2] = h[2]
    BY <2>1, <2>2, <2>3
  <2> QED
    BY <2>4, <2>5
<1>5. s[1] % 16 = op
  BY <1>3, <1>4, SMT
<1>6. CASE mask = <<>>
  <2>1. s[2] = Lead(n)
    <3>1. s[2] = Lead(n) + 0
      BY <1>3, <1>4, <1>6
    <3> QED
      BY <1>2, <3>1, SevenBits
  <2>2. s[2] % 128 = Lead(n) /\ ~(s[2] >= 128)
    <3>1. Lead(n) % 128 = Lead(n) /\ ~(Lead(n) >= 128)
      BY <1>2, SevenBits
    <3> QED
      BY <2>1, <3>1
  <2> QED
    BY <1>1, <1>2, <1>5, <1>6, <2>2, SMT DEF MaskLen, Leading
<1>7. CASE mask # <<>>
  <2>1. s[2] = Lead(n) + 128
    BY <1>2, <1>3, <1>4, <1>7, SMT
  <2>2. s[2] % 128 = Lead(n) /\ s[2] >= 128
    <3>1. (Lead(n) + 128) % 128 = Lead(n) /\ Lead(n) + 128 >= 128
      BY <1>2, SevenBits
    <3> QED
      BY <2>1, <3>1
  <2> QED
    BY <1>1, <1>2, <1>5, <1>7, <2>2, SMT DEF MaskLen, Leading
<1> QED
  BY <1>6, <1>7

\* How much of a header is there, and how much is not.
LEMMA HeaderMeasured ==
    ASSUME NEW n \in Nat, NEW op \in 0..15, NEW mask \in Masks, NEW h, HeaderOf(h, n, op, mask),
           NEW s \in Seq(Int), Begins(s, h)
    PROVE  \/ Measured(s, Len(s)) = [header |-> Wide(n) + Len(mask), len |-> n]
           \/ /\ Measured(s, Len(s)) = [header |-> 0, len |-> 0]
              /\ Len(s) < Wide(n) + Len(mask)
<1> DEFINE len == Len(s)
           k == Len(mask)
           There == [header |-> Wide(n) + k, len |-> n]
           None == [header |-> 0, len |-> 0]
           first == s[2] % 128
           m == IF s[2] >= 128 THEN 4 ELSE 0
<1>0. len \in Nat
  OBVIOUS
<1>1. CASE len < 2
  <2>1. Wide(n) \in {2, 4, 10} /\ Len(mask) \in {0, 4}
    BY MaskLength, SMT DEF Wide
  <2>2. Measured(s, len) = None
    BY <1>1, SMT DEF Measured
  <2> QED
    BY <1>0, <1>1, <2>1, <2>2, SMT
<1>2. CASE len >= 2
  <2>1. /\ first = Lead(n) /\ m = k
        /\ Lead(n) \in 0..127 /\ Wide(n) \in {2, 4, 10} /\ k \in {0, 4}
    <3>1. /\ s[2] % 128 = Lead(n) /\ MaskLen(s) = Len(mask)
          /\ Lead(n) \in 0..127 /\ Wide(n) \in {2, 4, 10} /\ Len(mask) \in {0, 4}
      <4>1. Len(s) >= 2
        BY <1>2
      <4>2. Leading(s, n, op, mask)
        BY <4>1, FirstBytes
      <4> QED
        BY <4>2 DEF Leading
    <3> QED
      BY <3>1 DEF MaskLen
  <2>2. Len(h) = Wide(n) + k
    BY DEF HeaderOf
  <2>3. Measured(s, len) =
            CASE len < 2 -> None
              [] len >= 2 /\ first < 126 /\ len >= m -> [header |-> 2 + m, len |-> first]
              [] len >= 4 + m /\ first = 126 -> [header |-> 4 + m, len |-> be16(s, 3)]
              [] len >= 10 + m /\ first = 127 ->
                     [header |-> 10 + m,
                      len |-> IF be32(s, 3) = 0 THEN be32(s, 7) ELSE MG_WS_MAX_DATA_LEN + 1]
              [] OTHER -> None
    BY DEF Measured
  <2> HIDE DEF len, k, first, m, There, None
  <2>4. CASE n < 126
    <3>1. Lead(n) = n /\ Wide(n) = 2
      BY <2>4, SMT DEF Lead, Wide
    <3>2. CASE len >= k
      <4>1. Measured(s, len) = [header |-> 2 + m, len |-> first]
        BY <1>0, <1>2, <2>1, <2>3, <2>4, <3>1, <3>2, SMT
      <4> QED
        BY <2>1, <3>1, <4>1 DEF There, len, k
    <3>3. CASE len < k
      <4>1. Measured(s, len) = None
        BY <1>0, <1>2, <2>1, <2>3, <2>4, <3>1, <3>3, SMT
      <4>2. len < Wide(n) + k
        BY <1>0, <2>1, <3>1, <3>3, SMT
      <4> QED
        BY <4>1, <4>2 DEF None, len, k
    <3> QED
      BY <1>0, <2>1, <3>2, <3>3, SMT
  <2>5. CASE n >= 126 /\ n < TwoBytes
    <3>1. Lead(n) = 126 /\ Wide(n) = 4
      BY <2>5, SMT DEF Lead, Wide
    <3>2. CASE len >= 4 + k
      <4>1. Measured(s, len) = [header |-> 4 + m, len |-> be16(s, 3)]
        BY <1>0, <1>2, <2>1, <2>3, <3>1, <3>2, SMT
      <4>2. s[3] = h[3] /\ s[4] = h[4]
        BY <1>0, <2>1, <2>2, <3>1, <3>2, SMT DEF Begins, len
      <4>3. be16(s, 3) = n
        <5>1. be16(h, 3) = n
          BY <2>5, LengthRead
        <5>2. be16(s, 3) = s[3] * 256 + s[4] /\ be16(h, 3) = h[3] * 256 + h[4]
          BY SMT DEF be16
        <5> QED
          BY <4>2, <5>1, <5>2
      <4> QED
        BY <2>1, <3>1, <4>1, <4>3 DEF There, len, k
    <3>3. CASE len < 4 + k
      <4>1. Measured(s, len) = None
        BY <1>0, <1>2, <2>1, <2>3, <3>1, <3>3, SMT
      <4>2. len < Wide(n) + k
        BY <3>1, <3>3
      <4> QED
        BY <4>1, <4>2 DEF None, len, k
    <3> QED
      BY <1>0, <2>1, <3>2, <3>3, SMT
  <2>6. CASE n >= TwoBytes
    <3>1. Lead(n) = 127 /\ Wide(n) = 10
      <4>1. ~(n < 126) /\ ~(n < TwoBytes)
        BY <2>6, TwoBytesIs, SMT
      <4> QED
        BY <4>1 DEF Lead, Wide
    <3>2. CASE len >= 10 + k
      <4>1. /\ s[3] = h[3] /\ s[4] = h[4] /\ s[5] = h[5] /\ s[6] = h[6]
            /\ s[7] = h[7] /\ s[8] = h[8] /\ s[9] = h[9] /\ s[10] = h[10]
        <5>1. \A i \in 1..10 : s[i] = h[i]
          BY <1>0, <2>1, <2>2, <3>1, <3>2, SMT DEF Begins, len
        <5> QED
          BY <5>1, SMT
      <4>2. be32(s, 3) = 0 /\ be32(s, 7) = n
        <5>1. be32(h, 3) = 0 /\ be32(h, 7) = n
          BY <2>6, LengthRead
        <5>2. /\ be32(s, 3) = (s[3] * 256 + s[4]) * TwoBytes + (s[5] * 256 + s[6])
              /\ be32(s, 7) = (s[7] * 256 + s[8]) * TwoBytes + (s[9] * 256 + s[10])
              /\ be32(h, 3) = (h[3] * 256 + h[4]) * TwoBytes + (h[5] * 256 + h[6])
              /\ be32(h, 7) = (h[7] * 256 + h[8]) * TwoBytes + (h[9] * 256 + h[10])
          BY SMT DEF be16, be32
        <5> QED
          BY <4>1, <5>1, <5>2
      <4>3. Measured(s, len) = [header |-> 10 + m, len |-> n]
        BY <1>0, <1>2, <2>1, <2>3, <3>1, <3>2, <4>2, SMT
      <4> QED
        BY <2>1, <3>1, <4>3 DEF There, len, k
    <3>3. CASE len < 10 + k
      <4>1. Measured(s, len) = None
        BY <1>0, <1>2, <2>1, <2>3, <3>1, <3>3, SMT
      <4>2. len < Wide(n) + k
        BY <3>1, <3>3
      <4> QED
        BY <4>1, <4>2 DEF None, len, k
    <3> QED
      BY <1>0, <2>1, <3>2, <3>3, SMT
  <2> QED
    BY <2>4, <2>5, <2>6, TwoBytesIs, SMT
<1> QED
  BY <1>0, <1>1, <1>2, SMT

\* What lies in s of a frame, and what ws_process() finds there.
LEMMA FrameFound ==
    ASSUME NEW n \in Nat, n <= MG_WS_MAX_DATA_LEN, NEW op \in 0..15, NEW mask \in Masks,
           NEW h, HeaderOf(h, n, op, mask), NEW s \in Seq(Int), Begins(s, h)
    PROVE  /\ Len(s) < Len(h) + n => ws_process(s, Len(s)) = [n |-> 0]
           /\ Len(s) >= Len(h) + n =>
                  ws_process(s, Len(s)) = [n |-> Len(h) + n, op |-> op, header |-> Len(h),
                                           len |-> n, masked |-> (mask # <<>>)]
<1> DEFINE len == Len(s)
           m == Measured(s, len)
           short == m.len > MG_WS_MAX_DATA_LEN \/ m.header + m.len > len \/ m.header = 0
           found == [n |-> m.header + m.len, op |-> s[1] % 16, header |-> m.header,
                     len |-> m.len, masked |-> s[2] >= 128]
<1>1. ws_process(s, len) = IF short THEN [n |-> 0] ELSE found
  BY DEF ws_process
<1>2. Len(h) = Wide(n) + Len(mask) /\ Len(h) \in Nat /\ Len(h) >= 2 /\ len \in Nat
  <2>1. Len(h) = Wide(n) + Len(mask)
    BY DEF HeaderOf
  <2>2. Wide(n) \in {2, 4, 10} /\ Len(mask) \in {0, 4}
    BY MaskLength, SMT DEF Wide
  <2> QED
    BY <2>1, <2>2, SMT
<1>3. \/ m = [header |-> Len(h), len |-> n]
      \/ m = [header |-> 0, len |-> 0] /\ len < Len(h)
  BY <1>2, HeaderMeasured
<1>4. CASE m = [header |-> Len(h), len |-> n]
  <2>1. m.header = Len(h) /\ m.len = n
    BY <1>4
  <2> HIDE DEF len, m
  <2>2. ~(n > MG_WS_MAX_DATA_LEN)
    <3>1. MG_WS_MAX_DATA_LEN \in Nat
      BY SMT DEF MG_WS_MAX_DATA_LEN
    <3> QED
      BY <3>1, SMT
  <2>3. ASSUME len < Len(h) + n
        PROVE  ws_process(s, len) = [n |-> 0]
    <3>1. short
      BY <1>2, <2>1, <2>3, SMT
    <3> QED
      BY <1>1, <3>1
  <2>4. ASSUME len >= Len(h) + n
        PROVE  ws_process(s, len) = [n |-> Len(h) + n, op |-> op, header |-> Len(h),
                                     len |-> n, masked |-> (mask # <<>>)]
    <3>1. ~short
      BY <1>2, <2>1, <2>2, <2>4, SMT
    <3>2. Leading(s, n, op, mask)
      <4>1. Len(s) >= 2
        BY <1>2, <2>4, SMT DEF len
      <4> QED
        BY <4>1, FirstBytes
    <3>3. s[1] % 16 = op /\ ((s[2] >= 128) <=> (mask # <<>>))
      BY <3>2 DEF Leading
    <3>4. (s[2] >= 128) = (mask # <<>>)
      BY <3>3
    <3> QED
      BY <1>1, <2>1, <3>1, <3>3, <3>4
  <2> QED
    BY <2>3, <2>4 DEF len
<1>5. CASE m = [header |-> 0, len |-> 0] /\ len < Len(h)
  <2>1. m.header = 0
    BY <1>5
  <2>2. short
    BY <2>1
  <2>3. ws_process(s, len) = [n |-> 0]
    BY <1>1, <2>2
  <2>4. ~(len >= Len(h) + n)
    BY <1>2, <1>5, SMT
  <2> QED
    BY <2>3, <2>4
<1> QED
  BY <1>3, <1>4, <1>5

\* What a mask does twice it does not do.
LEMMA XorTwice ==
    \A a, b \in {0, 1} : Xor(a, b) \in {0, 1} /\ Xor(Xor(a, b), b) = a
  BY SMT DEF Xor

\* The bit of a mask that an element of the data is under.
LEMMA MaskIndex ==
    \A i \in Nat \ {0} : (i - 1) % 4 \in 0..3
  BY SMT

\* A frame of a message that is not too long, sent with any mask or none: before
\* all of it has arrived ws_process() finds no frame; then, whatever follows, it
\* finds this one, with its length and its op, and unmasks its data.
THEOREM FramesAreExact ==
    ASSUME NEW data \in Seq({0, 1}), Len(data) <= MG_WS_MAX_DATA_LEN,
           NEW op \in 0..15, NEW mask \in Masks, NEW follow \in Seq(0..255),
           NEW got \in 0..(Len(ws_send(data, op, mask)) + Len(follow))
    PROVE  LET frame == ws_send(data, op, mask)
               s == SubSeq(frame \o follow, 1, got)
           IN  /\ FrameRead(s, got, Len(frame), op, Len(data))
               /\ got >= Len(frame) => Unmasked(s, ws_process(s, got)) = data
<1> DEFINE n == Len(data)
           h == mkhdr(n, op, mask)
           body == IF mask = <<>> THEN data ELSE ws_mask(data, mask)
           frame == ws_send(data, op, mask)
           all == (h \o body) \o follow
           s == SubSeq(all, 1, got)
           whole == Len(frame)
           m == ws_process(s, got)
           MaskAt(i) == ((i - 1) % 4) + 1
<1>1. /\ n \in Nat /\ DOMAIN data = 1..n /\ \A i \in 1..n : data[i] \in {0, 1}
  OBVIOUS
<1>2. HeaderOf(h, n, op, mask)
  BY <1>1, HeaderWritten
<1>3. h \in Seq(Int) /\ Len(h) = Wide(n) + Len(mask) /\ Len(h) \in Nat
  BY <1>2 DEF HeaderOf
<1>4. mask # <<>> => /\ Len(mask) = 4
                     /\ \A i \in 1..n : MaskAt(i) \in 1..4 /\ mask[MaskAt(i)] \in {0, 1}
  <2>1. SUFFICES ASSUME mask # <<>>
                 PROVE  /\ Len(mask) = 4
                        /\ \A i \in 1..n : MaskAt(i) \in 1..4 /\ mask[MaskAt(i)] \in {0, 1}
    OBVIOUS
  <2>2. Len(mask) = 4 /\ \A j \in 1..4 : mask[j] \in {0, 1}
    BY <2>1, MaskLength
  <2>3. ASSUME NEW i \in 1..n
        PROVE  MaskAt(i) \in 1..4
    <3>1. i \in Nat \ {0}
      BY <1>1, SMT
    <3>2. (i - 1) % 4 \in 0..3
      BY <3>1, MaskIndex
    <3> HIDE DEF n
    <3> QED
      BY <3>2, SMT
  <2> QED
    BY <2>2, <2>3
<1>5. /\ body \in Seq({0, 1}) /\ Len(body) = n
      /\ \A i \in 1..n : body[i] = IF mask = <<>> THEN data[i] ELSE Xor(data[i], mask[MaskAt(i)])
  <2>1. CASE mask = <<>>
    BY <1>1, <2>1
  <2>2. CASE mask # <<>>
    <3>1. body = [i \in 1..n |-> Xor(data[i], mask[MaskAt(i)])]
      BY <1>1, <2>2 DEF ws_mask
    <3>2. \A i \in 1..n : Xor(data[i], mask[MaskAt(i)]) \in {0, 1}
      BY <1>1, <1>4, <2>2, XorTwice
    <3> HIDE DEF n, body, MaskAt
    <3>3. body \in [1..n -> {0, 1}]
      BY <3>1, <3>2
    <3>4. body \in Seq({0, 1})
      BY <1>1, <3>3, SeqDef
    <3>5. Len(body) = n
      BY <1>1, <3>3, <3>4, LenProperties
    <3> QED
      BY <2>2, <3>1, <3>4, <3>5
  <2> QED
    BY <2>1, <2>2
<1>6. frame = h \o body
  BY DEF ws_send
<1>7. body \in Seq(Int) /\ follow \in Seq(Int) /\ Len(follow) \in Nat
  <2>1. {0, 1} \subseteq Int /\ 0..255 \subseteq Int
    BY SMT
  <2> HIDE DEF body
  <2>2. body \in Seq(Int)
    BY <1>5, <2>1, SeqMonotonic
  <2>3. follow \in Seq(Int)
    BY <2>1, SeqMonotonic
  <2> QED
    BY <2>2, <2>3, LenProperties
<1> HIDE DEF n, h, body, frame, MaskAt
<1>8. /\ all \in Seq(Int) /\ Len(all) = Len(h) + n + Len(follow)
      /\ \A j \in 1..Len(h) : all[j] = h[j]
      /\ \A j \in 1..n : all[Len(h) + j] = body[j]
  <2>1. /\ all \in Seq(Int) /\ Len(all) = Len(h) + Len(body) + Len(follow)
        /\ \A j \in 1..Len(h) : all[j] = h[j]
        /\ \A j \in 1..Len(body) : all[Len(h) + j] = body[j]
    BY <1>3, <1>7, JoinedPoints
  <2> HIDE DEF all
  <2> QED
    BY <1>5, <2>1
<1>9. whole = Len(h) + n
  <2>1. Len(h \o body) = Len(h) + Len(body)
    BY <1>3, <1>7, ConcatProperties
  <2> QED
    BY <1>5, <1>6, <2>1
<1> HIDE DEF all
<1>10. got \in 0..Len(all)
  <2>1. got \in 0..(whole + Len(follow))
    BY DEF frame, n
  <2> HIDE DEF whole
  <2> QED
    BY <1>8, <1>9, <2>1
<1>11. s \in Seq(Int) /\ Len(s) = got /\ \A j \in 1..got : s[j] = all[j]
  BY <1>8, <1>10, SubSeqProperties
<1> HIDE DEF s, whole
<1>12. Begins(s, h)
  BY <1>1, <1>3, <1>8, <1>10, <1>11, SMT DEF Begins
<1>13. /\ got < whole => m = [n |-> 0]
       /\ got >= whole => m = [n |-> whole, op |-> op, header |-> Len(h), len |-> n,
                               masked |-> (mask # <<>>)]
  <2>1. n <= MG_WS_MAX_DATA_LEN
    BY DEF n
  <2> QED
    BY <1>1, <1>2, <1>9, <1>11, <1>12, <2>1, FrameFound
<1>14. FrameRead(s, got, whole, op, n)
  <2>1. CASE got < whole
    BY <1>13, <2>1 DEF FrameRead
  <2>2. CASE ~(got < whole)
    <3>1. got >= whole
      BY <1>1, <1>3, <1>9, <1>10, <2>2, SMT
    <3>2. m.n = whole /\ m.op = op /\ m.len = n
      BY <1>13, <3>1
    <3> QED
      BY <2>2, <3>2 DEF FrameRead
  <2> QED
    BY <2>1, <2>2
<1>15. ASSUME got >= whole
       PROVE  Unmasked(s, m) = data
  <2>1. m.header = Len(h) /\ m.len = n /\ m.masked = (mask # <<>>)
    BY <1>13, <1>15
  <2> HIDE DEF m
  <2>2. ASSUME NEW i \in 1..n
        PROVE  (IF m.masked THEN Xor(s[m.header + i], s[m.header - 3 + ((i - 1) % 4)])
                ELSE s[m.header + i]) = data[i]
    <3>1. s[Len(h) + i] = body[i]
      <4>1. Len(h) + i \in 1..got
        BY <1>1, <1>3, <1>9, <1>10, <1>15, SMT
      <4> QED
        BY <1>8, <1>11, <4>1
    <3>2. CASE mask = <<>>
      BY <1>5, <2>1, <3>1, <3>2
    <3>3. CASE mask # <<>>
      <4>1. MaskAt(i) \in 1..4 /\ mask[MaskAt(i)] \in {0, 1} /\ Len(mask) = 4
        BY <1>4, <3>3
      <4>2. Len(h) - 3 + ((i - 1) % 4) = Wide(n) + MaskAt(i)
        <5>1. i \in Nat \ {0} /\ Wide(n) \in Nat
          BY <1>1, SMT DEF Wide
        <5>2. (i - 1) % 4 \in 0..3 /\ MaskAt(i) = ((i - 1) % 4) + 1
          BY <5>1, MaskIndex DEF MaskAt
        <5>3. Len(h) = Wide(n) + 4
          BY <1>3, <4>1
        <5> DEFINE r == (i - 1) % 4
        <5>4. r \in Int /\ MaskAt(i) = r + 1 /\ Wide(n) \in Int
          BY <5>1, <5>2, SMT
        <5> HIDE DEF r
        <5>5. Len(h) - 3 + r = Wide(n) + MaskAt(i)
          BY <5>3, <5>4, SMT
        <5> QED
          BY <5>5 DEF r
      <4>3. Wide(n) + MaskAt(i) \in 1..Len(h) /\ Wide(n) + MaskAt(i) \in 1..got
        <5>1. Wide(n) \in Nat
          BY SMT DEF Wide
        <5>2. Len(h) = Wide(n) + 4
          BY <1>3, <4>1
        <5>3. got \in Nat /\ got >= Len(h)
          BY <1>1, <1>3, <1>9, <1>10, <1>15, SMT
        <5> QED
          BY <4>1, <5>1, <5>2, <5>3, SMT
      <4>4. s[Wide(n) + MaskAt(i)] = h[Wide(n) + MaskAt(i)]
        BY <1>8, <1>11, <4>3
      <4>5. h[Wide(n) + MaskAt(i)] = mask[MaskAt(i)]
        BY <1>2, <4>1 DEF HeaderOf
      <4>6. body[i] = Xor(data[i], mask[MaskAt(i)])
        BY <1>5, <3>3
      <4>7. Xor(body[i], mask[MaskAt(i)]) = data[i]
        BY <1>1, <4>1, <4>6, XorTwice
      <4> QED
        BY <2>1, <3>1, <3>3, <4>2, <4>4, <4>5, <4>7
    <3> QED
      BY <3>2, <3>3
  <2>3. Unmasked(s, m) = [i \in 1..n |-> data[i]]
    BY <2>1, <2>2 DEF Unmasked
  <2>4. data = [i \in 1..n |-> data[i]]
    BY <1>1
  <2> QED
    BY <2>3, <2>4
<1> QED
  BY <1>6, <1>14, <1>15 DEF s, all, n, frame, whole
=============================================================================
