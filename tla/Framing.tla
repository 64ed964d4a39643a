------------------------------- MODULE Framing -------------------------------
(***************************************************************************)
(* What finds messages in a stream of bytes: the head of an HTTP message   *)
(* and its fields, chunks, the parts of a form (http.cpp), the frames of a *)
(* WebSocket (ws.cpp).  A stream is what a peer that keeps to its protocol *)
(* sends, composed below from what it means, and arrives in reads that may *)
(* end anywhere.                                                           *)
(*                                                                         *)
(* Characters are their codes, as in module Text; the version of HTTP and  *)
(* the name Content-Length are one character each.  An int has IntDigits   *)
(* digits.                                                                 *)
(***************************************************************************)
EXTENDS Packet, WsFrame

CONSTANTS
    Heads,          \* heads, as [method, uri, query, headers]
    MaxHeaders,     \* HttpMessage::headers
    Bodies,         \* chunked bodies, as sequences of chunks
    IntDigits,      \* hexadecimal digits of an int
    Payloads,       \* frames, as [op, len, masked]
    Forms,          \* forms, as sequences of parts
    Lookups,        \* names asked for and their answers, as in module Packet
    Follow          \* what follows a message

CR == 13
LF == 10
Version == 300
ContentLength == 301
CRLF == <<CR, LF>>

VARIABLES
    wire,           \* [kind: what it is, of: what it means, bytes, more: how many
                    \*  come after these and are not looked at, zeros: before sizes]
    got             \* how much of it has arrived
frameVars == <<wire, got>>

-----------------------------------------------------------------------------
(* What a peer sends. *)

Smaller(a, b) == IF a < b THEN a ELSE b

Head_(h) ==
    h.method \o <<Space>> \o h.uri \o (IF h.query = <<>> THEN <<>> ELSE <<Query>> \o h.query)
    \o <<Space, Version>> \o CRLF
    \o Concat([i \in DOMAIN h.headers |->
                  <<h.headers[i].name, Colon, Space>> \o h.headers[i].value \o CRLF])
    \o CRLF

RECURSIVE Hex(_)
Hex(n) == LET d == IF n % 16 < 10 THEN 48 + (n % 16) ELSE 87 + (n % 16)
          IN  IF n < 16 THEN <<d>> ELSE Append(Hex(n \div 16), d)

Chunk(zeros, data) == zeros \o Hex(Len(data)) \o CRLF \o data \o CRLF
Chunks(zeros, body) == Concat([i \in DOMAIN body |-> Chunk(zeros, body[i])]) \o Chunk(zeros, <<>>)

Boundary == <<Minus, Minus, 120>>
Form(f) == Concat([i \in DOMAIN f |-> Boundary \o CRLF \o f[i].header \o CRLF \o f[i].body \o CRLF])
           \o Boundary \o <<Minus, Minus>> \o CRLF

Bit(k, seed) == ((k * seed) \div 3 + seed) % 2
MaskOf(p) == IF p.masked THEN <<1, 0, 0, 1>> ELSE <<>>
Payload(p) == [i \in 1..p.len |-> Bit(i, p.op)]

\* Of a long frame the header is enough.
Frame_(p) ==
    IF p.len > 8 THEN mkhdr(p.len, p.op, MaskOf(p)) ELSE ws_send(Payload(p), p.op, MaskOf(p))

Wire(kind, of, bytes, more, zeros) ==
    [kind |-> kind, of |-> of, bytes |-> bytes, more |-> more, zeros |-> zeros]

FramingInit ==
    /\ \/ \E h \in Heads : wire = Wire("head", h, Head_(h), 0, <<>>)
       \/ \E b \in Bodies, z \in {<<>>, <<48>>} : wire = Wire("chunked", b, Chunks(z, b), 0, z)
       \/ \E f \in Forms : wire = Wire("form", f, Form(f), 0, <<>>)
       \/ \E p \in Payloads :
             wire = Wire("frame", p, Frame_(p), IF p.len > 8 THEN p.len ELSE 0, <<>>)
       \/ \E q \in Lookups : wire = Wire("packet", q, Response(q).bytes, 0, <<>>)
       \/ \E q \in {q \in Lookups : q.answers = <<>>} :
             wire = Wire("query", q, Asked(q), 0, <<>>)
    /\ got = 0

Whole == Len(wire.bytes) + wire.more

\* What has arrived when a function is called, in however many reads: it ends
\* after any of these: near the start, near the end, past it.
Receive(n) == got = 0 /\ n > 0 /\ got' = n /\ UNCHANGED wire

FramingNext ==
    \E n \in {n \in 0..(Len(wire.bytes) + 2) \cup (Whole - 2)..(Whole + Len(Follow)) :
                 n <= Whole + Len(Follow)} : Receive(n)

\* The buffer: what arrived of the stream and of what follows it.
Received ==
    LET all == wire.bytes \o (IF wire.more = 0 THEN Follow ELSE <<>>)
    IN  Take(all, Smaller(got, Len(all)))

-----------------------------------------------------------------------------
(* http_get_request_len() *)

isok(c) == c >= Space \/ c \in {LF, CR, Tab}

RequestLen(s) ==
    LET bad == {i \in DOMAIN s : ~isok(s[i])}
        ends == {i \in 2..Len(s) : s[i] = LF /\ (s[i - 1] = LF \/
                    (i > 4 /\ s[i - 1] = CR /\ s[i - 2] = LF))}
    IN  CASE ends = {} /\ bad = {} -> 0
          [] ends # {} /\ \A i \in bad : i > Min(ends) -> Min(ends)
          [] OTHER -> -1

-----------------------------------------------------------------------------
(* http_parse(): the request line, then the headers.  -1: malformed, -2: more *)
(* headers than there is place for. *)

Printed(s, i, stop) ==
    Min({k \in i..Len(s) : k = Len(s) \/ At(s, k) <= Space \/ At(s, k) = stop})
Blank(s, i) == Min({k \in i..Len(s) : k = Len(s) \/ At(s, k) \notin {Space, Tab}})

\* Mutant: the same header may come again.
RepeatedNever(headers, name) == FALSE

Repeated(headers, name) == name = ContentLength /\ \E h \in Range(headers) : h.name = name

AtEnd(s, i) == At(s, i) = LF \/ (At(s, i) = CR /\ i + 1 < Len(s) /\ At(s, i + 1) = LF)
LineEnd(s, i) == Min({k \in i..Len(s) : k = Len(s) \/ At(s, k) \in {CR, LF}})
StrayCR(s, i) == At(s, i) = CR /\ At(s, i + 1) # LF

RECURSIVE Headers(_, _, _)
Headers(s, i, headers) ==
    LET k == Printed(s, i, Colon)
        v == Blank(s, k + 1)
        e == LineEnd(s, v)
        next == e + (IF At(s, e) = CR THEN 2 ELSE 1)
        value == Trimmed(SubSeq(s, v + 1, e))
    IN  IF i >= Len(s) THEN Failed
        ELSE IF AtEnd(s, i) THEN Yes(headers)
        ELSE IF Len(headers) = MaxHeaders THEN [ok |-> FALSE, many |-> TRUE]
        ELSE IF k = i \/ At(s, k) # Colon \/ e >= Len(s) \/ StrayCR(s, e) THEN Failed
        ELSE IF Repeated(headers, At(s, i)) THEN Failed
        ELSE Headers(s, next, Append(headers, [name |-> At(s, i), value |-> value]))

http_parse(buf) ==
    LET n == RequestLen(buf)
        s == Take(buf, n)
        m == Printed(s, 0, 0)
        u == Blank(s, m)
        ue == Printed(s, u, 0)
        p == Blank(s, ue)
        q == Printed(s, u, Query)
        h == Headers(s, p + 3, <<>>)
        lens == {i \in DOMAIN h.v : h.v[i].name = ContentLength}
        cl == to_size_t(h.v[Min(lens)].value)
    IN  IF n <= 0 THEN [n |-> n]
        ELSE IF At(s, p) # Version \/ m = 0 \/ q = u THEN [n |-> -1]
        ELSE IF ~h.ok THEN [n |-> IF "many" \in DOMAIN h THEN -2 ELSE -1]
        ELSE IF lens # {} /\ ~cl.ok THEN [n |-> -1]
        ELSE [n |-> n, method |-> Take(s, m), uri |-> SubSeq(s, u + 1, Min({q, ue})),
              query |-> IF q < ue THEN SubSeq(s, q + 2, ue) ELSE <<>>, headers |-> h.v,
              body |-> IF lens = {} THEN 0 ELSE cl.v]

-----------------------------------------------------------------------------
(* skip_chunk(), with what lies in memory past the data, and the two passes *)
(* over the chunks in http_cb(). *)

Largest == 16^IntDigits \div 2 - 1

skip_chunk(s, past) ==
    LET i == Min({k \in 0..Len(s) : k = Len(s) \/ DigitValue(At(s, k)) > 15})
        Byte(k) == IF k < Len(s) THEN At(s, k) ELSE past
        n == StrToNum(Take(s, i), 16, 2 * Largest + 1)
        Of(cl) == [cl |-> cl, pl |-> 0, dl |-> 0]
    IN  IF Len(s) < 3 THEN Of(0)
        ELSE IF i = 0 \/ i > IntDigits \/ i = Len(s) THEN Of(-1)
        ELSE IF Byte(i) # CR \/ Byte(i + 1) # LF THEN Of(-1)
        ELSE IF ~n.ok \/ n.v > Largest THEN Of(-1)
        ELSE IF n.v > Len(s) - i - 4 THEN Of(0)
        ELSE IF Byte(i + n.v + 2) # CR \/ Byte(i + n.v + 3) # LF THEN Of(-1)
        ELSE [cl |-> i + n.v + 4, pl |-> i + 2, dl |-> n.v]

RECURSIVE LastChunk(_, _, _)
LastChunk(s, o, past) ==
    LET c == skip_chunk(Drop(s, o), past)
    IN  IF c.cl > 0 /\ c.dl # 0 THEN LastChunk(s, o + c.cl, past) ELSE c.cl

ReadOn(o, c) == o + c.cl

RECURSIVE Strip(_, _, _, _)
Strip(s, o, body, past) ==
    LET c == skip_chunk(Drop(s, o), past)
        b == body \o SubSeq(s, o + c.pl + 1, o + c.pl + c.dl)
    IN  IF c.cl <= 0 THEN [n |-> o, body |-> body]
        ELSE IF c.dl = 0 THEN [n |-> ReadOn(o, c), body |-> body]
        ELSE Strip(s, ReadOn(o, c), b, past)

Dechunk(s, past) ==
    LET cl == LastChunk(s, 0, past)
    IN  IF cl <= 0 THEN [n |-> cl] ELSE Strip(s, 0, <<>>, past)

-----------------------------------------------------------------------------
(* http_next_multipart(): a part and where the next one starts; 0: no more. *)

http_next_multipart(s, ofs) ==
    LET max == Len(s)
        Line(b) == Min({k \in b..max : k + 2 >= max \/ At(s, k) = CR \/ At(s, k + 1) = LF})
        b == Line(ofs)
        boundary == Take(s, b - ofs)
        Heads_[h \in 0..max] == IF h + 2 >= max THEN -1
                               ELSE IF Line(h) = h THEN h
                               ELSE IF Line(h) + 2 >= max THEN -1 ELSE Heads_[Line(h) + 2]
        h2 == Heads_[b + 2]
        b1 == h2 + 2
        b2 == Min({k \in b1..max : \/ k + 4 + Len(boundary) >= max
                                   \/ SubSeq(s, k + 1, k + 2 + Len(boundary)) = CRLF \o boundary})
    IN  IF b <= ofs \/ b + 2 >= max \/ h2 = -1 THEN [n |-> 0]
        ELSE IF b1 >= max \/ b2 + 2 >= max THEN [n |-> 0]
        ELSE [n |-> b2 + 2, body |-> SubSeq(s, b1 + 1, b2)]

RECURSIVE Parts(_, _)
Parts(s, ofs) == LET p == http_next_multipart(s, ofs)
                 IN  IF p.n = 0 THEN <<>> ELSE <<p.body>> \o Parts(s, p.n)

-----------------------------------------------------------------------------
(* What the framers have to find. *)

HeadFramed(h, m) ==
    LET kept == Take(h.headers, Smaller(MaxHeaders, Len(h.headers)))
        lens == {i \in DOMAIN kept : kept[i].name = ContentLength}
        cl == to_size_t(kept[Min(lens)].value)
    IN  IF got < Whole THEN m = [n |-> 0]
        ELSE IF Cardinality(lens) > 1 \/ \E h_ \in Range(kept) : CR \in Range(h_.value)
             THEN m = [n |-> -1]
        ELSE IF kept # h.headers THEN m = [n |-> -2]
        ELSE IF lens # {} /\ ~cl.ok THEN m = [n |-> -1]
        ELSE m = [n |-> Whole, method |-> h.method, uri |-> h.uri,
                  query |-> h.query, headers |-> h.headers,
                  body |-> IF lens = {} THEN 0 ELSE cl.v]

\* Where the size line of a chunk starts and the bytes of it before its end.
SizeLines(body) ==
    LET Before_(i) == Len(Concat([k \in 1..i |-> Chunk(wire.zeros, body[k])]))
        Size(i) == Len(wire.zeros) + Len(Hex(IF i = Len(body) THEN 0 ELSE Len(body[i + 1])))
    IN  {<<Before_(i), Size(i)>> : i \in 0..Len(body)}

\* A read ends three bytes or more into the size line of a chunk.
InSizeLine(body) ==
    \E line \in SizeLines(body) : got - line[1] \in 3..(line[2] + 1)

-----------------------------------------------------------------------------
\* However the reads end, whatever follows the message and whatever lies in
\* memory past it: no message is found before all of it is there; then the one
\* that was sent is, with its length, its parts and what it carries.  (A read
\* that ends in the size line of a chunk is refused; nothing is misread.)  A
\* form cut short gives the parts before the cut whole.  A DNS packet gives the
\* address that the server meant, or nothing; a question asks for its name.
Framed ==
    CASE wire.kind = "head" -> HeadFramed(wire.of, http_parse(Received))
      [] wire.kind = "chunked" ->
             \A past \in {0, LF, CR, 48} : \A m \in {Dechunk(Received, past)} :
                 IF got >= Whole THEN m = [n |-> Whole, body |-> Concat(wire.of)]
                 ELSE IF InSizeLine(wire.of) THEN m.n \in {0, -1}
                 ELSE m = [n |-> 0]
      [] wire.kind = "form" ->
             LET parts == Parts(Received, 0)
                 bodies == [i \in DOMAIN wire.of |-> wire.of[i].body]
             IN  IF got >= Whole THEN parts = bodies
                 ELSE parts = <<>> \/ IsPrefix(Front(parts), bodies)
      [] wire.kind = "frame" ->
             /\ FrameRead(Received, got, Whole, wire.of.op, wire.of.len)
             /\ got >= Whole /\ wire.more = 0 =>
                    Unmasked(Received, ws_process(Received, got)) = Payload(wire.of)
      [] wire.kind = "packet" -> PacketRead(wire.of, Received)
      [] wire.kind = "query" ->
             dns_parse(Received) = IF got < Whole THEN Failed
                                   ELSE Yes([name |-> wire.of.name, addr |-> <<>>])
      [] OTHER -> TRUE
=============================================================================
