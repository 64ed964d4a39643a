-------------------------------- MODULE IOBuf --------------------------------
(***************************************************************************)
(* The buffers of a connection (iobuf.cpp) and the code that fills them    *)
(* behind their back: sockets read straight into the free space, printf()  *)
(* appends a character at a time, ws_wrap() puts a header in front of what *)
(* was printed.  Any allocation may fail.                                  *)
(*                                                                         *)
(* A buffer is its memory, zeroed when allocated, and the length in use.   *)
(* Callers insert at an offset within the length, as all the code does.    *)
(***************************************************************************)
EXTENDS Integers, Sequences, SequencesExt, FiniteSetsExt

CONSTANTS
    align,          \* IOBuffer::align
    Chars,          \* what is written: not 0, which is free space here
    Header,         \* what ws_wrap() adds
    MaxBuf          \* no more is added to a buffer of this length (bound)

ASSUME IOBufAssumption ==
    /\ align \in Nat \ {0} /\ Header \in Seq(Range(Header)) /\ MaxBuf \in Nat
    /\ 0 \notin Chars \cup Range(Header)

VARIABLES
    io,             \* [buf: the memory, len: the length in use]
    said,           \* history: the contents according to what calls returned
    cut             \* history: an allocation failed where no caller is told

bufVars == <<io, said, cut>>
IOBufInit == io = [buf |-> <<>>, len |-> 0] /\ said = <<>> /\ cut = FALSE

-----------------------------------------------------------------------------
Zeros(n) == [i \in 1..n |-> 0]
Contents == SubSeq(io.buf, 1, io.len)

roundup(n) == ((n + align - 1) \div align) * align

\* iobuf_resize(), given that the allocation succeeds or not.
Resized(b, n, ok) ==
    LET size == roundup(n)
        kept == Min({size, b.len})
    IN  IF size = 0 THEN [buf |-> <<>>, len |-> 0]
        ELSE IF size = Len(b.buf) \/ ~ok THEN b
        ELSE [buf |-> SubSeq(b.buf, 1, kept) \o Zeros(size - kept), len |-> kept]

\* Mutant: it is not noticed that the buffer could not be resized.
AddedLenBlind(b, n, ok) == n

\* iobuf_add(): how much it adds, ...
AddedLen(b, n, ok) ==
    IF roundup(b.len + n) = Len(Resized(b, b.len + n, ok).buf) THEN n ELSE 0

\* ... and the buffer with it.
Added(b, ofs, data, ok) ==
    LET r == Resized(b, b.len + Len(data), ok)
        n == AddedLen(b, Len(data), ok)
        moved == SubSeq(r.buf, 1, ofs) \o SubSeq(data, 1, n) \o SubSeq(r.buf, ofs + 1, r.len)
    IN  [buf |-> moved \o SubSeq(r.buf, r.len + n + 1, Len(r.buf)), len |-> r.len + n]

\* iobuf_del()
Deleted(b, ofs, n) ==
    LET o == Min({ofs, b.len})
        m == IF o + n > b.len THEN b.len - o ELSE n
    IN  [buf |-> SubSeq(b.buf, 1, o) \o SubSeq(b.buf, o + m + 1, b.len) \o Zeros(m)
                 \o SubSeq(b.buf, b.len + 1, Len(b.buf)),
         len |-> b.len - m]

-----------------------------------------------------------------------------
Room == io.len < MaxBuf
Says(contents) == said' = IF cut' THEN <<>> ELSE contents

\* send_data() at the end; the same anywhere.
AddData(ofs, data, ok) ==
    /\ Room
    /\ io' = Added(io, ofs, data, ok)
    /\ UNCHANGED cut
    /\ Says(IF AddedLen(io, Len(data), ok) = 0 THEN said
            ELSE SubSeq(said, 1, ofs) \o data \o SubSeq(said, ofs + 1, Len(said)))

\* Written output, parsed input: from the start, or from the middle (ws_cb()).
DelData(ofs, n) ==
    /\ io' = Deleted(io, ofs, n)
    /\ UNCHANGED cut
    /\ Says(SubSeq(said, 1, ofs) \o SubSeq(said, ofs + n + 1, Len(said)))

Want(b) == b.len + 2

\* pfn_iobuf(): a character, after growing by half; when there is no space for
\* it and the end of the string, the end of the string alone.
PutChar(ch, ok) ==
    /\ Room
    /\ LET grow == Len(io.buf) + Len(io.buf) \div 2
           b == IF Want(io) > Len(io.buf) THEN Resized(io, Max({Want(io), grow}), ok) ELSE io
       IN  CASE b.len + 2 <= Len(b.buf) ->
                    /\ io' = [buf |-> [b.buf EXCEPT ![b.len + 1] = ch, ![b.len + 2] = 0],
                              len |-> b.len + 1]
                    /\ UNCHANGED cut
             [] b.len + 1 = Len(b.buf) ->
                    /\ io' = [buf |-> [b.buf EXCEPT ![b.len + 1] = 0], len |-> b.len + 1]
                    /\ cut' = TRUE
             [] OTHER -> io' = b /\ cut' = TRUE
    /\ Says(Append(said, ch))

\* ws_wrap(): the last n bytes move to the end of a longer buffer.
Wrap(n, ok) ==
    /\ Room /\ n <= io.len
    /\ LET b == Added(io, io.len, Header, ok)
           start == io.len - n
       IN  IF b.len > io.len
           THEN /\ io' = [b EXCEPT !.buf = SubSeq(b.buf, 1, start) \o Header
                              \o SubSeq(b.buf, start + 1, io.len)
                              \o SubSeq(b.buf, b.len + 1, Len(b.buf))]
                /\ UNCHANGED cut
           ELSE io' = b /\ cut' = TRUE
    /\ Says(SubSeq(said, 1, Len(said) - n) \o Header
            \o SubSeq(said, Len(said) - n + 1, Len(said)))

\* ioalloc() and recv(): the free space is filled, all of it or a part.
Fill(data, ok) ==
    /\ Room /\ UNCHANGED cut
    /\ LET b == IF Len(io.buf) <= io.len THEN Resized(io, Len(io.buf) + align, ok) ELSE io
       IN  IF Len(data) <= Len(b.buf) - b.len
           THEN /\ io' = [buf |-> SubSeq(b.buf, 1, b.len) \o data
                              \o SubSeq(b.buf, b.len + Len(data) + 1, Len(b.buf)),
                          len |-> b.len + Len(data)]
                /\ Says(said \o data)
           ELSE io' = b /\ UNCHANGED said

FreeBuf == io' = Resized(io, 0, TRUE) /\ said' = <<>> /\ cut' = FALSE

IOBufNext ==
    \/ \E ok \in BOOLEAN, data \in SeqOf(Chars, 2) :
          \/ \E ofs \in 0..io.len : data # <<>> /\ AddData(ofs, data, ok)
          \/ Fill(data, ok)
    \/ \E ok \in BOOLEAN, ch \in Chars : PutChar(ch, ok)
    \/ \E ok \in BOOLEAN, n \in 0..2 : Wrap(n, ok)
    \/ \E ofs \in 0..io.len : \E n \in 1..(io.len - ofs) : DelData(ofs, n)
    \/ FreeBuf

-----------------------------------------------------------------------------
\* A buffer holds what the calls on it said they did, in order, whichever
\* allocations failed, as long as no printf() or ws_wrap(), which have no way
\* to say so, was cut short; and what is in use fits the memory.
BufferSound ==
    /\ io.len <= Len(io.buf) /\ Len(io.buf) % align = 0
    /\ ~cut => Contents = said
=============================================================================
