------------------------------- MODULE Address -------------------------------
(***************************************************************************)
(* Addresses: their text (net.cpp) and the access lists that are made of   *)
(* them (util.cpp); on the texts of module Text.  In the text of an IPv6   *)
(* address a group of hexadecimal digits is one character, its number; an  *)
(* access list is a text whose characters are its entries, taken apart.    *)
(***************************************************************************)
EXTENDS Coding

CONSTANTS
    Groups,         \* in an IPv6 address: 8
    ByteBits,       \* in a byte of an address in an access list: 8
    Peers           \* the addresses asked about

ASSUME AddressAssumption == Groups \in Nat /\ Groups > 2 /\ ByteBits \in Nat \ {0}

-----------------------------------------------------------------------------
(* aton4() *)

Octet(c, d) == d * 10 + c - 48

RECURSIVE aton4(_, _, _)
aton4(s, i, data) ==
    LET c == At(s, i)
        n == Len(data)
    IN  CASE i >= Len(s) -> IF n = 4 /\ s[i] # Dot THEN Yes(data) ELSE Failed
          [] Digit(c) -> IF Octet(c, data[n]) > 255 THEN Failed
                         ELSE aton4(s, i + 1, [data EXCEPT ![n] = Octet(c, @)])
          [] c = Dot -> IF n > 3 \/ i = 0 \/ s[i] = Dot THEN Failed
                        ELSE aton4(s, i + 1, Append(data, 0))
          [] OTHER -> Failed

\* Four numbers up to 255, with dots between them.
Dotted(s) ==
    LET ends == {0, Len(s) + 1} \cup {i \in DOMAIN s : s[i] = Dot}
        field == SetToSortSeq(ends, <)
        Field(n) == SubSeq(s, field[n] + 1, field[n + 1] - 1)
    IN  IF Cardinality(ends) = 5 /\ \A n \in 1..4 : Number(Field(n), 10, 255).ok
        THEN Yes([n \in 1..4 |-> NumberOf(Field(n), 10)]) ELSE Failed

-----------------------------------------------------------------------------
(* aton6(): the groups so far, which one is next, where :: was (-1: nowhere) *)


Widen(ip, n, dc) ==
    LET moved == Groups - 1 - n
    IN  [g \in 0..(Groups - 1) |->
            CASE g < dc -> ip[g] [] g < dc + moved -> 0 [] OTHER -> ip[g - moved]]

RECURSIVE Colons(_, _, _, _, _)
Colons(s, i, ip, n, dc) ==
    LET double == i > 0 /\ s[i] = Colon
        next == IF i > 0 /\ ~double THEN n + 1 ELSE n
        Put(g, v) == [ip EXCEPT ![g] = v]
    IN  CASE i >= Len(s) ->
                 IF n >= Groups - 1 THEN Yes(ip)
                 ELSE IF dc = -1 THEN Failed
                 ELSE Yes(Widen(ip, n, dc))
          [] At(s, i) = Colon ->
                 IF (double /\ i > 1 /\ s[i - 1] = Colon) \/ next > Groups - 1 THEN Failed
                 ELSE Colons(s, i + 1, Put(next, 0), next, IF double THEN n ELSE dc)
          [] At(s, i) = Percent -> IF Len(s) = i + 2 /\ At(s, i + 1) # Colon THEN Yes(ip) ELSE Failed
          [] OTHER -> Colons(s, i + 1, Put(n, At(s, i)), n, dc)

aton6(s) == Colons(s, 0, [g \in 0..(Groups - 1) |-> 0], 0, -1)

\* The groups of an address in order, or those before and after a ::, which
\* stands for the missing ones.
Spread(gs) == [i \in 1..(2 * Len(gs) - 1) |-> IF i % 2 = 1 THEN gs[(i + 1) \div 2] ELSE Colon]
GroupsIn(part) == SelectSeq(part, LAMBDA c : c # Colon)
IsList(part) ==
    part = <<>> \/ (Percent \notin Range(part) /\ part = Spread(GroupsIn(part)))

Written(s) ==
    LET Two(i) == i < Len(s) /\ s[i] = Colon /\ s[i + 1] = Colon
        Split(i) == [l |-> Take(s, i - 1), r |-> Drop(s, i + 1)]
        Fill(l, r) == l \o [k \in 1..(Groups - Len(l) - Len(r)) |-> 0] \o r
    IN  IF s # <<>> /\ IsList(s) /\ Len(GroupsIn(s)) = Groups THEN {GroupsIn(s)}
        ELSE {Fill(GroupsIn(Split(i).l), GroupsIn(Split(i).r)) :
                 i \in {i \in DOMAIN s : /\ Two(i) /\ IsList(Split(i).l) /\ IsList(Split(i).r)
                                         /\ Len(GroupsIn(s)) < Groups}}

-----------------------------------------------------------------------------
(* check_ip_acl() *)

ip_prefix_eq(a, b, bits) ==
    LET whole == bits \div ByteBits
        over == 2^(ByteBits - (bits % ByteBits))
    IN  /\ \A i \in 1..whole : a[i] = b[i]
        /\ bits % ByteBits # 0 => a[whole + 1] \div over = b[whole + 1] \div over

MaxBits(net) == Len(net) * ByteBits

\* static_cast<long> of an unsigned long: the numbers of the upper half turn
\* negative.
AsLong(p) == IF p > Wide \div 2 THEN p - (Wide + 1) ELSE p

\* The prefix of an entry is as written, -1 if there is none.  The families of
\* the addresses differ in their lengths.
RECURSIVE Allowed(_, _, _)
Allowed(acl, peer, allowed) ==
    LET e == Head(acl)
        prefix == IF AsLong(e.prefix) < 0 THEN MaxBits(e.net) ELSE AsLong(e.prefix)
    IN  IF acl = <<>> THEN (IF allowed = "+" THEN 1 ELSE 0)
        ELSE IF e.flag \notin {"+", "-"} THEN -1
        ELSE IF e.prefix > Wide \/ e.net = <<>> \/ prefix > MaxBits(e.net) THEN -2
        ELSE Allowed(Tail(acl), peer,
                     IF Len(e.net) = Len(peer) /\ ip_prefix_eq(peer, e.net, prefix)
                     THEN e.flag ELSE allowed)

check_ip_acl(acl, peer) == Allowed(acl, peer, IF acl = <<>> THEN "+" ELSE "-")

\* What a list means: the last entry that covers the peer decides.  An entry
\* without a prefix is about one host, and so is one whose prefix fits an
\* unsigned long and no long.
OneHost(e) == e.prefix = -1 \/ e.prefix \in (Wide \div 2 + 1)..Wide

Covers(e, peer) ==
    /\ Len(e.net) = Len(peer)
    /\ \A k \in 0..((IF OneHost(e) THEN MaxBits(peer) ELSE e.prefix) - 1) :
          LET Bit(a) == (a[k \div ByteBits + 1] \div 2^(ByteBits - 1 - (k % ByteBits))) % 2
          IN  Bit(e.net) = Bit(peer)

Malformed(e) ==
    \/ e.flag \notin {"+", "-"}
    \/ e.net = <<>>
    \/ e.prefix > MaxBits(e.net) /\ ~OneHost(e)

Decided(acl, peer) ==
    LET covering == {i \in DOMAIN acl : Covers(acl[i], peer)}
    IN  IF covering = {} THEN acl = <<>> ELSE acl[Max(covering)].flag = "+"

-----------------------------------------------------------------------------
\* Addresses are read and compared exactly: the text of an IPv4 address is
\* taken if and only if it is one, that of an IPv6 address in any of its forms
\* gives the groups it stands for, and an access list that is well formed
\* decides by its last entry that covers the peer, to the bit, and otherwise
\* reports an error and never allows.  (One kind of prefix that is too long is
\* not reported, whatever util.cpp:145 says: from 2^63 to 2^64 - 1 it is read as
\* no prefix, util.cpp:167 and 179, so the entry is about its host alone.)
AddressExact ==
    CASE function = "aton4" ->
             (IF text = <<>> THEN Failed ELSE aton4(text, 0, <<0>>)) = Dotted(text)
      [] function = "aton6" ->
             \A groups \in Written(text) :
                 aton6(text) = Yes([g \in 0..(Groups - 1) |-> groups[g + 1]])
      [] function = "acl" ->
             \A peer \in Peers :
                 IF \E i \in DOMAIN text : Malformed(text[i]) THEN check_ip_acl(text, peer) < 0
                 ELSE check_ip_acl(text, peer) = IF Decided(text, peer) THEN 1 ELSE 0
      [] OTHER -> TRUE

=============================================================================
