--------------------------------- MODULE Text ---------------------------------
(***************************************************************************)
(* The functions on text that the servers built on nanosrv parse requests  *)
(* with: patterns, numbers, variables, the coding of URLs and base64, the  *)
(* parts of a URL.  Each is written as its loop goes and compared with     *)
(* what the text means, on every text over a small alphabet.               *)
(*                                                                         *)
(* A character is its code.  The model starts with an empty text and adds  *)
(* a character at a time, first to the operand (the pattern, the name),    *)
(* then to the text.                                                       *)
(***************************************************************************)
EXTENDS Integers, Sequences, SequencesExt, FiniteSetsExt

CONSTANTS
    Functions_,         \* the functions looked at
    Alphabet(_),        \* the characters of their texts, ...
    OperandAlphabet(_), \* ... and of their operands
    MaxText(_), MaxOperand(_),  \* and their longest (bounds)
    Wide                \* UINT64_MAX and SIZE_MAX

ASSUME TextAssumption ==
    /\ Wide \in Nat \ {0}
    /\ \A f \in Functions_ : MaxText(f) \in Nat /\ MaxOperand(f) \in Nat

VARIABLES function, text, operand
textVars == <<function, text, operand>>

TextInit == function \in Functions_ /\ text = <<>> /\ operand = <<>>

ExtendOperand(ch) ==
    /\ text = <<>> /\ Len(operand) < MaxOperand(function)
    /\ operand' = Append(operand, ch) /\ UNCHANGED <<function, text>>

ExtendText(ch) ==
    /\ Len(text) < MaxText(function)
    /\ text' = Append(text, ch) /\ UNCHANGED <<function, operand>>

TextNext ==
    \/ \E ch \in OperandAlphabet(function) : ExtendOperand(ch)
    \/ \E ch \in Alphabet(function) : ExtendText(ch)

-----------------------------------------------------------------------------
Slash == 47
Star == 42
Hash == 35
Query == 63
Minus == 45
Space == 32
Tab == 9
Amp == 38
Equals == 61
Digit(c) == c \in 48..57

\* The character at an index counted from 0.
At(s, i) == s[i + 1]
Drop(s, n) == SubSeq(s, n + 1, Len(s))
Take(s, n) == SubSeq(s, 1, n)
Failed == [ok |-> FALSE]

-----------------------------------------------------------------------------
(* match(): a glob, without its captures.  The loop is at place i of the    *)
(* pattern and j of the text, and tries again from ni and nj.               *)

Literal(s, p, x) ==
    /\ x.i < Len(p) /\ x.j < Len(s)
    /\ At(p, x.i) = Query \/ (At(p, x.i) \notin {Star, Hash} /\ At(s, x.j) = At(p, x.i))

Wildcard(p, x) == x.i < Len(p) /\ At(p, x.i) \in {Star, Hash}

Retry(s, p, x) ==
    /\ x.nj > 0 /\ x.nj <= Len(s)
    /\ \/ x.ni < Len(p) /\ At(p, x.ni) = Hash
       \/ x.j < Len(s) /\ At(s, x.j) # Slash

Places(s, p) == [i : 0..Len(p), j : 0..Len(s), ni : 0..Len(p), nj : 0..(Len(s) + 1)]

NextPlace(s, p, x) ==
    IF Literal(s, p, x) THEN [x EXCEPT !.i = @ + 1, !.j = @ + 1]
    ELSE IF Wildcard(p, x) THEN [x EXCEPT !.i = @ + 1, !.ni = x.i, !.nj = x.j + 1]
    ELSE [x EXCEPT !.i = x.ni, !.j = x.nj]

Match(s, p) ==
    LET glob[x \in Places(s, p)] ==
            \/ x.i = Len(p) /\ x.j = Len(s)
            \/ /\ Literal(s, p, x) \/ Wildcard(p, x) \/ Retry(s, p, x)
               /\ glob[NextPlace(s, p, x)]
    IN  glob[[i |-> 0, j |-> 0, ni |-> 0, nj |-> 0]]

\* What a pattern means: ? any character, # any text, * any within a segment.  The
\* rest of the text that the rest of the pattern after a character c means begins at
\* one of `ends'; with c it begins at one of these.
Prefixed(s, c, ends) ==
    {j \in 0..Len(s) :
        CASE c = Hash -> \E n \in j..Len(s) : n \in ends
          [] c = Star -> \E n \in j..Len(s) : n \in ends /\ Slash \notin Range(SubSeq(s, j + 1, n))
          [] OTHER -> j < Len(s) /\ c \in {Query, At(s, j)} /\ j + 1 \in ends}

Means(s, p) ==
    LET begins[k \in 0..Len(p)] ==
            IF k = 0 THEN {Len(s)} ELSE Prefixed(s, At(p, Len(p) - k), begins[k - 1])
    IN  0 \in begins[Len(p)]

-----------------------------------------------------------------------------
(* str_to_num() and to_size_t(): numbers that fit. *)

DigitValue(c) ==
    CASE Digit(c) -> c - 48 [] c \in 65..70 -> c - 55 [] c \in 97..102 -> c - 87
      [] OTHER -> 99

\* Mutant: the sum is not compared with the largest number.
FitsTimes(v, digit, base, max) == v <= max \div base

Fits(v, digit, base, max) == v <= max \div base /\ v * base <= max - digit

\* What is known of the digits after character k, from what was known before: their
\* value, as a uint64_t holds it, and where they end, unless they do not fit.
NextDigit(r, s, k, base, max) ==
    LET digit == DigitValue(s[k])
    IN  IF r = Failed \/ r.end < k - 1 \/ digit >= base THEN r
        ELSE IF ~Fits(r.v, digit, base, max) THEN Failed
        ELSE [ok |-> TRUE, v |-> (r.v * base + digit) % (Wide + 1), end |-> k]

Digits(s, start, base, max) ==
    LET read[k \in start..Len(s)] ==
            IF k = start THEN [ok |-> TRUE, v |-> 0, end |-> start]
            ELSE NextDigit(read[k - 1], s, k, base, max)
    IN  read[Len(s)]

StrToNum(s, base, max) ==
    LET prefix == base = 0 /\ Len(s) >= 2 /\ At(s, 0) = 48
        b == CASE base = 0 /\ Len(s) >= 2 ->
                  IF prefix THEN CASE At(s, 1) = 98 -> 2 [] At(s, 1) = 120 -> 16 [] OTHER -> 10
                  ELSE 10
               [] OTHER -> base
        start == IF prefix THEN (IF b = 10 THEN 1 ELSE 2) ELSE 0
        d == IF b = 0 THEN Failed ELSE Digits(s, start, b, max)
    IN  IF d.ok /\ d.end > start /\ d.end = Len(s) THEN [ok |-> TRUE, v |-> d.v] ELSE Failed

Blanks(s, i) == Min({k \in i..Len(s) : k = Len(s) \/ At(s, k) \notin {Space, Tab}})

to_size_t(s) ==
    LET i == Blanks(s, 0)
        d == Digits(s, i, 10, Wide)
    IN  IF (i < Len(s) => At(s, i) # Minus) /\ d.ok /\ d.end > i /\ Blanks(s, d.end) = Len(s)
        THEN [ok |-> TRUE, v |-> d.v] ELSE Failed

\* What a text of digits means.
NumberOf(s, base) ==
    LET value[k \in 0..Len(s)] == IF k = 0 THEN 0 ELSE value[k - 1] * base + DigitValue(s[k])
    IN  value[Len(s)]

Numeral(s, base) == s # <<>> /\ \A i \in DOMAIN s : DigitValue(s[i]) < base

Number(s, base, max) ==
    IF Numeral(s, base) /\ NumberOf(s, base) <= max
    THEN [ok |-> TRUE, v |-> NumberOf(s, base)] ELSE Failed

PrefixedNumber(s, max) ==
    IF Len(s) < 2 THEN Failed
    ELSE CASE Take(s, 2) = <<48, 98>>  -> Number(Drop(s, 2), 2, max)
           [] Take(s, 2) = <<48, 120>> -> Number(Drop(s, 2), 16, max)
           [] OTHER -> Number(s, 10, max)

Trimmed(s) ==
    LET black == {i \in DOMAIN s : s[i] \notin {Space, Tab}}
    IN  IF black = {} THEN <<>> ELSE SubSeq(s, Min(black), Max(black))

-----------------------------------------------------------------------------
(* span() and http_var(): variables of a query or a form. *)

Span(s, sep) ==
    IF s = <<>> THEN Failed
    ELSE LET n == Min({k \in 0..Len(s) : k = Len(s) \/ At(s, k) = sep})
         IN  [ok |-> TRUE, a |-> Take(s, n), b |-> Drop(s, n + 1)]

Lower(c) == IF c \in 65..90 THEN c + 32 ELSE c
SameLetters(s, t) == Len(s) = Len(t) /\ \A i \in DOMAIN s : Lower(s[i]) = Lower(t[i])

Named(entry, name) == SameLetters(entry.a, name)

\* The loop over the entries, from where the rest of the text begins.
http_var(buf, name) ==
    LET var[k \in 0..Len(buf)] ==
            LET entry == Span(Drop(buf, k), Amp)
                kv == Span(entry.a, Equals)
            IN  IF ~entry.ok THEN Failed
                ELSE IF kv.ok /\ Named(kv, name) THEN [ok |-> TRUE, v |-> kv.b]
                ELSE var[Len(buf) - Len(entry.b)]
    IN  var[0]

\* The variables of a text are what & separates; the first of its name counts.
Variables(s) ==
    LET ends == {0, Len(s) + 1} \cup {i \in DOMAIN s : s[i] = Amp}
    IN  {<<i + 1, Min({j \in ends : j > i}) - 1>> : i \in ends \ {Len(s) + 1}}

ValueOf(s, name) ==
    LET Key(v) == Min({k \in v[1]..(v[2] + 1) : k = v[2] + 1 \/ s[k] = Equals})
        hits == {v \in Variables(s) : v[2] >= v[1] /\
                     SameLetters(SubSeq(s, v[1], Key(v) - 1), name)}
        first == CHOOSE v \in hits : \A w \in hits : v[1] <= w[1]
    IN  IF hits = {} THEN Failed ELSE [ok |-> TRUE, v |-> SubSeq(s, Key(first) + 1, first[2])]
-----------------------------------------------------------------------------
\* match() says what the pattern's wildcards say.  (Texts of several segments
\* are left out for patterns with a *, which the code lets end a segment, see
\* StarStaysInSegment, and does not try again past a / after a #.)
MatchExact ==
    function = "match" =>
        \/ Star \in Range(operand) /\ Slash \in Range(text)
        \/ Match(text, operand) = Means(text, operand)

\* str_to_num() and to_size_t() return the number a text stands for, and fail if
\* it stands for none or for one that does not fit: no sum of digits wraps.
NumbersExact ==
    function = "number" =>
        /\ \A base \in {2, 10, 16}, max \in {Wide, Wide \div 256} :
               StrToNum(text, base, max) = Number(text, base, max)
        /\ StrToNum(text, 0, Wide) = PrefixedNumber(text, Wide)
        /\ to_size_t(text) = Number(Trimmed(text), 10, Wide)

\* http_var() returns the value of the first variable of the name, of those that
\* & separates, and fails if there is none.
VariablesExact == function = "var" => http_var(text, operand) = ValueOf(text, operand)

\* A * stops at the end of a segment: what it matches has no /.
StarStaysInSegment ==
    function = "match" /\ Match(text, operand) => Means(text, operand)
=============================================================================
