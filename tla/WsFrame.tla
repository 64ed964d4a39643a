------------------------------- MODULE WsFrame -------------------------------
(***************************************************************************)
(* The frames of ws.cpp: the header and mask that ws_send() puts on the    *)
(* data of a message, and what ws_process() reads from the bytes that have *)
(* arrived.                                                                *)
(*                                                                         *)
(* The bytes of a header are those of the wire.  A mask and the data under *)
(* it are bits: exclusive or does to each bit of a byte the same, whatever *)
(* its neighbours are.                                                     *)
(***************************************************************************)
EXTENDS Integers, Sequences

MG_WS_MAX_DATA_LEN == 1073741824
TwoBytes == 65536

\* The masks there are; a server has none.
Masks == {<<>>} \cup [1..4 -> {0, 1}]

\* Of a length of more than four bytes the first four are not modelled as sent.
mkhdr(len, op, mask) ==
    LET flag == IF mask = <<>> THEN 0 ELSE 128
        size == IF len < 126 THEN <<len + flag>>
                ELSE IF len < TwoBytes THEN <<126 + flag, len \div 256, len % 256>>
                ELSE <<127 + flag, 0, 0, 0, 0, len \div (256 * TwoBytes),
                       (len \div TwoBytes) % 256, (len \div 256) % 256, len % 256>>
    IN  <<op + 128>> \o size \o mask

Xor(a, b) == (a + b) % 2

\* ws_mask(): a client masks what it sends.
ws_mask(data, mask) == [i \in DOMAIN data |-> Xor(data[i], mask[((i - 1) % 4) + 1])]

ws_send(data, op, mask) ==
    mkhdr(Len(data), op, mask) \o IF mask = <<>> THEN data ELSE ws_mask(data, mask)

be16(s, i) == s[i] * 256 + s[i + 1]
be32(s, i) == be16(s, i) * TwoBytes + be16(s, i + 2)

\* How long the header and the data are; a header of 0: not there yet.  A length
\* of more than four bytes is one that is too long.
Measured(s, len) ==
    LET n == s[2] % 128
        mask == IF s[2] >= 128 THEN 4 ELSE 0
        Of(header, size) == [header |-> header + mask, len |-> size]
    IN  CASE len < 2 -> [header |-> 0, len |-> 0]
          [] len >= 2 /\ n < 126 /\ len >= mask -> Of(2, n)
          [] len >= 4 + mask /\ n = 126 -> Of(4, be16(s, 3))
          [] len >= 10 + mask /\ n = 127 ->
                 Of(10, IF be32(s, 3) = 0 THEN be32(s, 7) ELSE MG_WS_MAX_DATA_LEN + 1)
          [] OTHER -> [header |-> 0, len |-> 0]

ws_process(s, len) ==
    LET m == Measured(s, len)
    IN  IF m.len > MG_WS_MAX_DATA_LEN \/ m.header + m.len > len \/ m.header = 0 THEN [n |-> 0]
        ELSE [n |-> m.header + m.len, op |-> s[1] % 16, header |-> m.header, len |-> m.len,
              masked |-> s[2] >= 128]

\* The data of a frame that is there, unmasked where it lies.
Unmasked(s, m) ==
    [i \in 1..m.len |-> IF m.masked THEN Xor(s[m.header + i], s[m.header - 3 + ((i - 1) % 4)])
                        ELSE s[m.header + i]]

\* What is read of a frame once got bytes of it and of what follows are there.
FrameRead(s, got, whole, op, len) ==
    LET m == ws_process(s, got)
    IN  IF got < whole THEN m = [n |-> 0]
        ELSE <<m.n, m.op, m.len>> = <<whole, op, len>>
==============================================================================
