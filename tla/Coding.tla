-------------------------------- MODULE Coding --------------------------------
(***************************************************************************)
(* Codings: percent-encoding and base64, the padding of SHA-1, the parts   *)
(* of a URL; on the texts of module Text.                                  *)
(***************************************************************************)
EXTENDS Text

CONSTANTS
    Block,          \* bytes of a SHA-1 block, of which the count takes two
    Half            \* the 2^32 that the halves of its count of bits wrap at

ASSUME CodingAssumption ==
    /\ Block \in Nat /\ Block > 2 /\ Half \in Nat \ {0} /\ Half % (8 * Block) = 0
    /\ Alphabet("url") \subseteq 0..255

Percent == 37
Plus == 43
Dot == 46
Colon == 58
AtSign == 64
Bracket == 91
EndBracket == 93
Padding == 61
Yes(v) == [ok |-> TRUE, v |-> v]

-----------------------------------------------------------------------------
(* url_encode() and url_decode(), with the sizes of their buffers. *)

is_url_safe(c) == Digit(c) \/ Lower(c) \in 97..122 \/ c \in {Dot, 95, Minus, 126}
isx(c) == DigitValue(c) < 16
HexOf(c) == LET H(d) == IF d < 10 THEN d + 48 ELSE d + 87
            IN  <<Percent, H(c \div 16), H(c % 16)>>

Encoded(c) == IF is_url_safe(c) THEN <<c>> ELSE HexOf(c)

\* What is coded after a character c, from what was coded before.
NextEncoded(e, c, len) ==
    IF ~e.ok \/ Len(e.v) + 4 >= len THEN Failed ELSE Yes(e.v \o Encoded(c))

url_encode(s, len) ==
    LET coded[k \in 0..Len(s)] ==
            IF k = 0 THEN Yes(<<>>) ELSE NextEncoded(coded[k - 1], s[k], len)
    IN  coded[Len(s)]

\* url_encode(std::string_view), whose buffer is a byte short.
UrlEncode(s) ==
    LET coded == url_encode(s, 3 * Len(s) + 1)
    IN  IF coded.ok THEN coded.v ELSE <<>>

Pair(s, i) == i + 2 < Len(s) /\ isx(At(s, i + 1)) /\ isx(At(s, i + 2))

\* What is decoded after character k, and which one is next.
NextDecoded(r, s, k, len, form) ==
    LET Go(n, c) == [ok |-> TRUE, v |-> Append(r.v, c), next |-> k + n]
    IN  IF r = Failed \/ r.next > k THEN r
        ELSE IF Len(r.v) + 1 >= len \/ (s[k] = Percent /\ ~Pair(s, k - 1)) THEN Failed
        ELSE IF s[k] = Percent THEN Go(3, 16 * DigitValue(s[k + 1]) + DigitValue(s[k + 2]))
        ELSE Go(1, IF form /\ s[k] = Plus THEN Space ELSE s[k])

url_decode(s, len, form) ==
    LET decoded[k \in 0..Len(s)] ==
            IF k = 0 THEN [ok |-> TRUE, v |-> <<>>, next |-> 1]
            ELSE NextDecoded(decoded[k - 1], s, k, len, form)
        r == decoded[Len(s)]
    IN  IF r.ok /\ Len(r.v) < len THEN Yes(r.v) ELSE Failed

\* What a coded text means: three characters from each %, one for any other.
Units(s) == {i \in DOMAIN s : Percent \notin {s[k] : k \in {i - 1, i - 2} \cap DOMAIN s}}

UnitAt(s, i, form) ==
    CASE i \notin Units(s) -> <<>>
      [] i \in Units(s) /\ s[i] = Percent -> <<16 * DigitValue(s[i + 1]) + DigitValue(s[i + 2])>>
      [] OTHER -> <<IF form /\ s[i] = Plus THEN Space ELSE s[i]>>

Plain(s, form) == FlattenSeq([i \in 1..Len(s) |-> UnitAt(s, i, form)])

Coded(s) == \A i \in DOMAIN s : s[i] = Percent =>
                i + 2 <= Len(s) /\ isx(s[i + 1]) /\ isx(s[i + 2])

-----------------------------------------------------------------------------
(* base64: `to' holds what is finished, `part' the bits over. *)

base64_encode_single(c) ==
    CASE c < 26 -> c + 65 [] c \in 26..51 -> c + 71 [] c \in 52..61 -> c - 4
      [] c = 62 -> Plus [] OTHER -> Slash

base64_decode_single(c) ==
    CASE c \in 65..90 -> c - 65 [] c \in 97..122 -> c - 71 [] Digit(c) -> c + 4
      [] c = Plus -> 62 [] c = Slash -> 63 [] c = Padding -> 64 [] OTHER -> -1

base64_update(b, ch) ==
    LET Put(n) == Append(b.to, base64_encode_single(b.part + n))
    IN  CASE Len(b.to) % 4 = 0 -> [to |-> Put(ch \div 4), part |-> (ch % 4) * 16]
          [] Len(b.to) % 4 = 1 -> [to |-> Put(ch \div 16), part |-> (ch % 16) * 4]
          [] OTHER -> [to |-> Append(Put(ch \div 64), base64_encode_single(ch % 64)), part |-> 0]

Cut(to, saved) == IF saved % 4 = 2 THEN Front(to) ELSE to

base64_final(b) ==
    LET to == Cut(IF Len(b.to) % 4 # 0 THEN base64_update(b, 0).to ELSE b.to, Len(b.to))
    IN  to \o [i \in 1..((4 - (Len(to) % 4)) % 4) |-> Padding]

base64_encode(s) == base64_final(FoldLeft(base64_update, [to |-> <<>>, part |-> 0], s))

\* What is decoded after four characters more.
NextFour(b, four) ==
    LET d == [i \in 1..4 |-> base64_decode_single(four[i])]
        three == <<(d[1] * 4 + d[2] \div 16) % 256, (d[2] * 16 + d[3] \div 4) % 256,
                   (d[3] * 64 + d[4]) % 256>>
        n == IF four[3] = Padding THEN 1 ELSE IF four[4] = Padding THEN 2 ELSE 3
    IN  IF ~b.ok \/ {d[1], d[2]} \cap {64, -1} # {} \/ -1 \in {d[3], d[4]} THEN Failed
        ELSE Yes(b.v \o Take(three, n))

base64_decode(s) ==
    IF Len(s) % 4 # 0 THEN Failed
    ELSE FoldLeft(NextFour, Yes(<<>>),
                  [k \in 1..(Len(s) \div 4) |-> SubSeq(s, 4 * k - 3, 4 * k)])

\* What base64 is: six bits at a time, from the first bit of the first byte.
BitOf(s, k) == IF k \div 8 >= Len(s) THEN 0 ELSE (At(s, k \div 8) \div 2^(7 - (k % 8))) % 2

Sixes(s) ==
    [i \in 1..((8 * Len(s) + 5) \div 6) |-> base64_encode_single(
        FoldLeft(LAMBDA v, k : 2 * v + BitOf(s, 6 * (i - 1) + k), 0, <<0, 1, 2, 3, 4, 5>>))]

-----------------------------------------------------------------------------
(* SHA-1: which blocks are transformed, and with what count of bits. *)

Sha1Init == [hi |-> 0, lo |-> 0, buffer |-> [i \in 1..Block |-> 0], blocks |-> <<>>]

Carry(lo, added) == IF (lo + added) % Half < lo THEN 1 ELSE 0

sha1_update(x, data) ==
    LET bits == (8 * Len(data)) % Half
        j == (x.lo \div 8) % Block
        full == j + Len(data) >= Block
        i == IF full THEN Block - j ELSE 0
        first == Take(x.buffer, j) \o Take(data, i)
        whole == IF full THEN (Len(data) - i) \div Block ELSE 0
        rest == Drop(data, i + whole * Block)
        start == IF full THEN 0 ELSE j
    IN  [hi |-> (x.hi + Carry(x.lo, bits) + (8 * Len(data)) \div Half) % Half,
         lo |-> (x.lo + bits) % Half,
         buffer |-> [k \in 1..Block |->
             CASE k - start \in DOMAIN rest -> rest[k - start]
               [] OTHER -> IF full THEN first[k] ELSE x.buffer[k]],
         blocks |-> IF ~full THEN x.blocks ELSE Append(x.blocks, first) \o
             [k \in 1..whole |-> SubSeq(data, i + (k - 1) * Block + 1, i + k * Block)]]

Pad(x) == IF (x.lo \div 8) % Block = Block - 2 THEN x ELSE sha1_update(x, <<0>>)

Padded(x) ==
    LET padded[k \in 0..Block] == IF k = 0 THEN x ELSE Pad(padded[k - 1])
    IN  padded[Block]

sha1_final(x) == sha1_update(Padded(sha1_update(x, <<128>>)), <<x.hi, x.lo>>).blocks

\* What SHA-1 hashes: the text, a 1 bit, zeros, the count of bits, in blocks.
Message(s) ==
    LET zeros == CHOOSE n \in 0..(Block - 1) : (Len(s) + 3 + n) % Block = 0
        m == s \o <<128>> \o [k \in 1..zeros |-> 0]
               \o <<(8 * Len(s)) \div Half, (8 * Len(s)) % Half>>
    IN  [k \in 1..(Len(m) \div Block) |-> SubSeq(m, (k - 1) * Block + 1, k * Block)]

-----------------------------------------------------------------------------
(* urlparse(): where the parts of a URL are, counted from 0; 0 if nowhere. *)

PortHere(u) == u.port = 0 /\ u.uri = 0

urlparse(url) ==
    LET Step(u, i) ==
            LET c == At(url, i)
            IN  IF c = Slash /\ i > 0 /\ u.host = 0 /\ At(url, i - 1) = Slash THEN
                         [u EXCEPT !.host = i + 1, !.port = 0]
                ELSE IF c = EndBracket THEN [u EXCEPT !.port = 0]
                ELSE IF c = Colon /\ PortHere(u) THEN [u EXCEPT !.port = i + 1]
                ELSE IF c = AtSign /\ u.user = 0 /\ u.pass = 0 /\ u.uri = 0 THEN
                         [u EXCEPT !.user = u.host, !.pass = u.port, !.host = i + 1, !.port = 0]
                ELSE IF c = Slash /\ u.host # 0 /\ u.uri = 0 THEN [u EXCEPT !.uri = i]
                ELSE u
    IN  FoldLeft(Step, [host |-> 0, port |-> 0, user |-> 0, pass |-> 0, uri |-> 0],
                 [i \in DOMAIN url |-> i - 1])

\* url_host(), url_user(), url_pass(), the text url_port() reads, url_uri().
UrlParts(url) ==
    LET u == urlparse(url)
        Part(from, to) == SubSeq(url, from + 1, to)
        hostEnd == IF u.port # 0 THEN u.port - 1 ELSE IF u.uri # 0 THEN u.uri ELSE Len(url)
    IN  [host |-> Part(u.host, hostEnd),
         user |-> IF u.user # 0 THEN Part(u.user, (IF u.pass # 0 THEN u.pass ELSE u.host) - 1)
                  ELSE <<>>,
         pass |-> IF u.pass # 0 THEN Part(u.pass, u.host - 1) ELSE <<>>,
         port |-> IF u.port # 0 THEN Part(u.port, IF u.uri # 0 THEN u.uri ELSE Len(url)) ELSE <<>>,
         uri |-> IF u.uri # 0 THEN Drop(url, u.uri) ELSE <<Slash>>]

\* What a URL means: after the scheme, [user[:pass]@]host[:port][/uri], with
\* the address of a host in brackets if it has colons.
Before(s, chars) == Take(s, Min({k \in 0..Len(s) : k = Len(s) \/ At(s, k) \in chars}))
After(s, chars) == Drop(s, Len(Before(s, chars)) + 1)

Meant(rest) ==
    LET authority == Before(rest, {Slash})
        login == IF AtSign \in Range(authority) THEN Before(authority, {AtSign}) ELSE <<>>
        place == IF AtSign \in Range(authority) THEN After(authority, {AtSign}) ELSE authority
        host == IF place # <<>> /\ Head(place) = Bracket
                THEN Before(place, {EndBracket}) \o <<EndBracket>> ELSE Before(place, {Colon})
    IN  [host |-> host, user |-> Before(login, {Colon}), pass |-> After(login, {Colon}),
         port |-> Drop(place, Len(host) + 1),
         uri |-> IF Slash \in Range(rest) THEN Drop(rest, Len(authority)) ELSE <<Slash>>]

\* Brackets are there around the host only.
Bracketed(rest) ==
    LET brackets == {i \in DOMAIN rest : rest[i] \in {Bracket, EndBracket}}
        m == Meant(rest)
        inside == SubSeq(m.host, 2, Len(m.host) - 1)
    IN  \/ brackets = {}
        \/ /\ Cardinality(brackets) = 2 /\ IsPrefix(<<Bracket>>, m.host)
           /\ {Bracket, EndBracket} \cap Range(inside \o m.user \o m.pass \o m.port \o m.uri) = {}
           /\ \E i \in DOMAIN rest :
                 rest[i] = EndBracket /\ (i = Len(rest) \/ rest[i + 1] \in {Colon, Slash})

-----------------------------------------------------------------------------
\* What is encoded, in a buffer with room for it, decodes to the same bytes, and is
\* made of safe characters; in the buffer of the overload for strings all of it is, or
\* nothing, and all if a character before the last is safe.  A coded text is decoded
\* if it is well formed and fits, and to what it means, whether or not it is a form.
UrlExact ==
    function = "url" =>
        /\ LET e == url_encode(text, 3 * Len(text) + 2)
           IN  /\ e.ok /\ url_decode(e.v, Len(text) + 1, FALSE) = Yes(text)
               /\ \A c \in Range(e.v) : c = Percent \/ is_url_safe(c)
               /\ UrlEncode(text) \in {e.v, <<>>}
               /\ (\E i \in 1..(Len(text) - 1) : is_url_safe(text[i])) => UrlEncode(text) = e.v
        /\ \A form \in BOOLEAN, len \in {1, Len(text), Len(text) + 1} \ {0} :
               url_decode(text, len, form) =
                   IF Coded(text) /\ Len(Plain(text, form)) < len
                   THEN Yes(Plain(text, form)) ELSE Failed

\* The functions that requests are read with are exact: patterns, numbers, variables
\* and the coding of URLs mean what their texts say, whatever those are.
TextExact == MatchExact /\ NumbersExact /\ VariablesExact /\ UrlExact

\* base64 is that of its standard, and decodes to the same bytes.
Base64Exact ==
    function = "base64" =>
        LET e == base64_encode(text)
        IN  /\ Take(e, Len(Sixes(text))) = Sixes(text)
            /\ Range(Drop(e, Len(Sixes(text)))) \subseteq {Padding} /\ Len(e) % 4 = 0
            /\ base64_decode(e) = Yes(text)

\* The blocks SHA-1 transforms are those of its standard, which is for messages whose
\* bits can be counted, however the message was cut into updates.
Sha1Exact ==
    function = "sha1" /\ 8 * Len(operand \o text) < Half * Half =>
        sha1_final(sha1_update(sha1_update(Sha1Init, operand), text)) = Message(operand \o text)

\* The parts of a URL are found.
PartsExact ==
    function = "parts" =>
        (Bracketed(text) => UrlParts(<<97, Colon, Slash, Slash>> \o text) = Meant(text))

\* The codings are those of their standards, and the parts of a URL are found.
CodingExact == Base64Exact /\ Sha1Exact /\ PartsExact
=============================================================================
