-------------------------------- MODULE Packet --------------------------------
(***************************************************************************)
(* The packets of dns.cpp: the question of dns_send(), and what dns_parse()*)
(* reads from an answer.  A server composes the answer below: it echoes    *)
(* the question, in capitals if it likes, and shortens names by pointing   *)
(* at those before.  The bytes of a packet are those of the wire.          *)
(*                                                                         *)
(* A name is read into a buffer of NameSize characters, a function from    *)
(* 0..(NameSize - 1); the buffer of size 0 is for a name that is skipped.  *)
(***************************************************************************)
EXTENDS Address

CONSTANTS
    NameSize,       \* DnsMessage::name, and the question of dns_send(): 256
    PacketMax,      \* MG_DNS_PACKET_MAX_SIZE: 512
    MaxAnswers,     \* MG_DNS_MAX_ANSWERS: 10
    MaxPointers     \* MG_DNS_MAX_RECURSION_DEPTH: 5

Concat(ss) == FoldLeft(LAMBDA s, t : s \o t, <<>>, ss)
Bytes2(n) == <<n \div 256, n % 256>>
Word2(s, i) == At(s, i) * 256 + At(s, i + 1)

-----------------------------------------------------------------------------
(* dns_send(): the labels up to each dot and the end, if they are in reach. *)

RTypeA == 1
RTypeAAAA == 28
ClassIn == 1
HeaderSize == 12

Question(name, type) ==
    LET ends == {i \in 0..Len(name) : i < NameSize - 5 /\ (i = Len(name) \/ At(name, i) = Dot)}
        end == SetToSortSeq(ends, <)
        Start(k) == IF k = 1 THEN 0 ELSE end[k - 1] + 1
    IN  Concat([k \in DOMAIN end |->
                   <<(end[k] - Start(k)) % 256>> \o SubSeq(name, Start(k) + 1, end[k])])
        \o <<0, 0, type, 0, ClassIn>>

Header_(txnid, flags, answers) ==
    Bytes2(txnid) \o Bytes2(flags) \o Bytes2(1) \o Bytes2(answers) \o <<0, 0, 0, 0>>

dns_send(name, txnid, ipv6) ==
    Header_(txnid, 256, 0) \o Question(name, IF ipv6 THEN RTypeAAAA ELSE RTypeA)

-----------------------------------------------------------------------------
(* dns_parse_name_depth() *)

NoText == [k \in {} |-> 0]
Put(to, j, ch) == IF j \in DOMAIN to THEN [to EXCEPT ![j] = ch] ELSE to

\* A label that does not fit is left out.
PutLabel(to, j, label) ==
    IF j + Len(label) \in DOMAIN to
    THEN [k \in DOMAIN to |-> IF k - j \in 0..(Len(label) - 1) THEN At(label, k - j) ELSE to[k]]
    ELSE to

PutText(to, j, label) ==
    LET start == IF j > 0 THEN j + 1 ELSE j
        dotted == IF j > 0 THEN Put(to, j, Dot) ELSE to
    IN  Put(PutLabel(dotted, start, label), start + Len(label), 0)

IsPointer(n) == n >= 64
Follows(depth) == depth <= MaxPointers

RECURSIVE NameDepth(_, _, _, _, _, _)
NameDepth(s, ofs, i, to, j, depth) ==
    LET n == At(s, ofs + i)
        ptr == (n % 64) * 256 + At(s, ofs + i + 1)
        there == NameDepth(s, ptr, 0, to, j, depth + 1)
        follow == ptr + 1 < Len(s) /\ ~IsPointer(At(s, ptr))
        Ends(k, t) == [n |-> k, to |-> Put(t, NameSize - 1, 0)]
    IN  IF ~Follows(depth) THEN [n |-> 0, to |-> to]
        ELSE IF ofs + i + 1 >= Len(s) THEN Ends(i, to)
        ELSE IF n = 0 THEN Ends(i + 1, to)
        ELSE IF IsPointer(n) /\ follow THEN (IF there.n = 0 THEN there ELSE Ends(i + 2, there.to))
        ELSE IF IsPointer(n) THEN Ends(i + 2, to)
        ELSE IF ofs + i + n + 1 >= Len(s) THEN [n |-> 0, to |-> to]
        ELSE NameDepth(s, ofs, i + n + 1,
                       PutText(to, j, SubSeq(s, ofs + i + 2, ofs + i + n + 1)),
                       (IF j > 0 THEN j + 1 ELSE j) + n, depth)

dns_parse_name(s, ofs, to) == NameDepth(s, ofs, 0, Put(to, 0, 0), 0, 0)

\* The text in a buffer, up to its first zero.
TextIn(to) ==
    LET end == Min({k \in DOMAIN to : to[k] = 0})
    IN  [k \in 1..end |-> to[k - 1]]

Cleared == [k \in 0..(NameSize - 1) |-> 0]
Uninitialized == [k \in 0..(NameSize - 1) |-> 999]

-----------------------------------------------------------------------------
(* dns_parse_rr() and dns_parse() *)

dns_parse_rr(s, ofs, is_question) ==
    LET nlen == dns_parse_name(s, ofs, NoText).n
        p == ofs + nlen + 4
        alen == Word2(s, p + 4)
    IN  IF Len(s) < HeaderSize \/ Len(s) > PacketMax \/ ofs >= Len(s) THEN [n |-> 0]
        ELSE IF nlen = 0 \/ p > Len(s) THEN [n |-> 0]
        ELSE IF is_question THEN [n |-> nlen + 4]
        ELSE IF p + 6 > Len(s) \/ p + 6 + alen > Len(s) THEN [n |-> 0]
        ELSE [n |-> nlen + alen + 10, atype |-> Word2(s, p - 4),
              aclass |-> Word2(s, p - 2), alen |-> alen]

AddressIn(rr) ==
    /\ rr.aclass = ClassIn
    /\ <<rr.atype, rr.alen>> \in {<<RTypeA, 4>>, <<RTypeAAAA, 16>>}

RECURSIVE ParseAnswers(_, _, _, _)
ParseAnswers(s, i, ofs, name) ==
    LET rr == dns_parse_rr(s, ofs, FALSE)
        owner == dns_parse_name(s, ofs, name).to
        next == ofs + rr.n
    IN  IF i = 0 THEN Yes([name |-> TextIn(name), addr |-> <<>>])
        ELSE IF rr.n = 0 THEN Failed
        ELSE IF AddressIn(rr) THEN Yes([name |-> TextIn(owner),
                                        addr |-> SubSeq(s, next - rr.alen + 1, next)])
        ELSE ParseAnswers(s, i - 1, next, owner)

dns_parse(s) ==
    LET questions == Word2(s, 4)
        rr == IF questions = 0 THEN [n |-> 0] ELSE dns_parse_rr(s, HeaderSize, TRUE)
        name == IF questions = 0 THEN Cleared ELSE dns_parse_name(s, HeaderSize, Cleared).to
        is_response == At(s, 2) >= 128
    IN  IF Len(s) < HeaderSize \/ questions > 1 THEN Failed
        ELSE IF questions = 1 /\ rr.n = 0 THEN Failed
        ELSE IF ~is_response THEN Yes([name |-> TextIn(name), addr |-> <<>>])
        ELSE ParseAnswers(s, Min({Word2(s, 6), MaxAnswers}), HeaderSize + rr.n, name)

dns_question_is(s, name) ==
    /\ Word2(s, 4) = 1
    /\ SameLetters(TextIn(dns_parse_name(s, HeaderSize, Uninitialized).to), name)

-----------------------------------------------------------------------------
(* What a server sends.  An answer is [owner, kind]; `text', `at' and       *)
(* `depth' are the name that a CNAME gave last, where it is and the         *)
(* pointers it takes to read it.                                            *)

Pointer(at) == <<192 + at \div 256, at % 256>>
LabelZ == <<1, 122>>
Capital(c) == IF c \in 97..122 THEN c - 32 ELSE c
Under(name) == <<122, Dot>> \o name

RData(kind, at) ==
    CASE kind = "CNAME" -> LabelZ \o Pointer(at)
      [] kind = "AAAA"  -> [k \in 1..16 |-> 200 + k]
      [] OTHER          -> <<10, 0, 192, 1>>
Type(kind) == CASE kind = "CNAME" -> 5 [] kind = "AAAA" -> RTypeAAAA [] OTHER -> RTypeA
Class(kind) == IF kind = "chaos" THEN 3 ELSE ClassIn

\* The packet with an answer more, and the answers so far as they are meant.
Answered(p, a) ==
    LET owner == CASE a.owner = "alias" -> Pointer(p.at)
                   [] a.owner = "own"   -> LabelZ \o <<0>>
                   [] OTHER             -> Pointer(HeaderSize)
        data == RData(a.kind, p.at)
        start == Len(p.bytes) + Len(owner) + 10
        cname == a.kind = "CNAME"
        means == [text  |-> CASE a.owner = "alias" -> p.text [] a.owner = "own" -> <<122>>
                              [] OTHER -> p.question,
                  depth |-> CASE a.owner = "alias" -> p.depth + 1 [] a.owner = "own" -> 0
                              [] OTHER -> 1,
                  addr  |-> IF a.kind \in {"A", "AAAA"} THEN data ELSE <<>>,
                  end   |-> start + Len(data)]
    IN  [p EXCEPT !.bytes = @ \o owner \o Bytes2(Type(a.kind)) \o Bytes2(Class(a.kind))
                              \o <<0, 0, 0, 60>> \o Bytes2(Len(data)) \o data,
                  !.means = Append(@, means),
                  !.at = IF cname THEN start ELSE @,
                  !.text = IF cname THEN Under(@) ELSE @,
                  !.depth = IF cname THEN @ + 1 ELSE @]

Asked(q) == dns_send(q.name, 300, FALSE)
Echo(q) == IF q.capital THEN [k \in DOMAIN q.name |-> Capital(q.name[k])] ELSE q.name

Response(q) ==
    LET asked == [bytes |-> Header_(300, 33152, Len(q.answers)) \o Question(Echo(q), RTypeA),
                  means |-> <<>>, at |-> HeaderSize, question |-> Echo(q), text |-> Echo(q),
                  depth |-> 0]
        Upto[k \in 0..Len(q.answers)] == IF k = 0 THEN asked ELSE Answered(Upto[k - 1], q.answers[k])
    IN  Upto[Len(q.answers)]

-----------------------------------------------------------------------------
\* What dns_parse() has to read from the first n bytes of the answer to q:
\* the first address among the answers it looks at, whole, or else the name
\* of the last one; nothing from a packet that is cut before that, is too
\* large, or shortens a name too often.
PacketRead(q, s) ==
    \A means \in {Response(q).means}, m \in {dns_parse(s)} :
        LET looked == 1..Min({Len(means), MaxAnswers})
            found == {k \in looked : means[k].addr # <<>>}
            last == IF found = {} THEN Max({0} \cup looked) ELSE Min(found)
            enough == IF last = 0 THEN Len(Header_(0, 0, 0) \o Question(q.name, RTypeA))
                      ELSE means[last].end
            fits == Len(s) >= enough /\ Len(s) <= PacketMax
                    /\ \A k \in 1..last : means[k].depth <= MaxPointers
            name == IF last = 0 THEN Echo(q) ELSE means[last].text
        IN  /\ m.ok = fits
            /\ fits => /\ m.v.name = name
                       /\ m.v.addr = IF found = {} THEN <<>> ELSE means[last].addr
                       /\ dns_question_is(s, q.name)
                       /\ \A other \in {<<97>>, <<98, Dot, 97>>} :
                              SameLetters(other, q.name) \/ ~dns_question_is(s, other)
=============================================================================
