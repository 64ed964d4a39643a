------------------------------- MODULE MCParts -------------------------------
(* The parts a connection is made of and the functions it calls, one at a  *)
(* time: the WebSocket handler, timers, buffers, the Python binding, and   *)
(* the parsers and codings.  `part' says which of them a behaviour is of;  *)
(* the others keep the state they start in.                                *)
EXTENDS WsCb, Timer, IOBuf, Binding, Framing, Json

CONSTANTS Parts_, ta, tb, tc
VARIABLE part

\* Frames of messages and pings, or of messages and one frame of another kind.
Usual == {"text", "begin", "more", "last", "ping"}
SomeScripts ==
    {s \in [1..Frames -> DOMAIN Frame] :
        LET others == {i \in 1..Frames : s[i] \notin Usual}
        IN  others = {} \/ (Cardinality(others) = 1 /\ "ping" \notin Range(s))}
OneScript == [i \in 1..Frames |-> "text"]
NoWire == Wire("none", 0, <<>>, 0, <<>>)

PartsInit ==
    /\ part \in Parts_
    /\ IF part = "ws" THEN TRUE ELSE is_client = FALSE /\ script = OneScript
    /\ IF part = "framing" THEN FramingInit ELSE wire = NoWire /\ got = 0
    /\ IF part = "json" THEN JsonInit ELSE doc = Value /\ path = <<>>
    /\ TextInit /\ (part = "text" <=> function # "none")
    /\ TimerInit /\ IOBufInit /\ BindingInit /\ Init

PartsNext ==
    /\ \/ part = "ws" /\ Next /\ UNCHANGED <<timerVars, bufVars, bindVars, textVars, frameVars, jsonVars>>
       \/ part = "timer" /\ TimerNext /\ UNCHANGED <<vars, bufVars, bindVars, textVars, frameVars, jsonVars>>
       \/ part = "iobuf" /\ IOBufNext /\ UNCHANGED <<vars, timerVars, bindVars, textVars, frameVars, jsonVars>>
       \/ part = "binding" /\ BindingNext /\ UNCHANGED <<vars, timerVars, bufVars, textVars, frameVars, jsonVars>>
       \/ part = "text" /\ TextNext /\ UNCHANGED <<vars, timerVars, bufVars, bindVars, frameVars, jsonVars>>
       \/ part = "framing" /\ FramingNext /\ UNCHANGED <<vars, timerVars, bufVars, bindVars, textVars, jsonVars>>
       \/ part = "json" /\ JsonNext /\ UNCHANGED <<vars, timerVars, bufVars, bindVars, textVars, frameVars>>
    /\ UNCHANGED part

PartsVars == <<part, vars, timerVars, bufVars, bindVars, textVars, frameVars, jsonVars>>
PartsSpec == PartsInit /\ [][PartsNext]_PartsVars

-----------------------------------------------------------------------------
\* t's period in ticks of the clock.
PeriodOf(t) == CASE t = ta -> 2 [] t = tb -> 1 [] OTHER -> 3
OneByte == <<3>>

\* Prefixes that are the largest long, one more, and too large for an unsigned long.
NearLong == {Wide \div 2, Wide \div 2 + 1, Wide + 1}

\* Texts and what they are made of.  An access list is a text of entries.
Chars_ == [match |-> {97, 98, Slash}, number |-> {48, 49, 57, 65, 98, 120, 32, 45},
           var |-> {97, 65, 38, 61, 98}, url |-> {37, 43, 32, 50, 70, 122},
           base64 |-> {0, 97, 255, 129}, sha1 |-> {1, 2},
           parts |-> {97, 58, 47, 64, 91, 93}, aton4 |-> {50, 54, 46},
           aton6 |-> {1, 2, Colon, Percent},
           acl |-> {[flag |-> f, net |-> n, prefix |-> p] :
                       f \in {"+", "-", "x"},
                       n \in {<<>>, <<0, 1>>, <<1, 2>>, <<0, 1, 3>>, <<0, 1, 2>>},
                       p \in {-1, 0, 2, 3, 5, 6} \cup NearLong}]
AlphabetOf(f) == IF f = "none" THEN {} ELSE Chars_[f]
OperandAlphabetOf(f) == CASE f = "match" -> {97, 98, Star, Hash, Query}
                          [] f = "var" -> {97, 98} [] f = "sha1" -> {1, 2} [] OTHER -> {}
TextBounds == [match |-> 4, number |-> 5, var |-> 6, url |-> 5, base64 |-> 5, sha1 |-> 6,
               parts |-> 6, aton4 |-> 9, aton6 |-> 7, acl |-> 2, none |-> 0]
MaxTextOf(f) == TextBounds[f]
MaxOperandOf(f) == CASE f = "match" -> 4 [] f = "var" -> 1 [] f = "sha1" -> 5 [] OTHER -> 0
AllFunctions == DOMAIN TextBounds
PeersAsked == {<<0, 1>>, <<1, 2>>, <<0, 1, 3>>}

\* Heads with repeated, malformed and too many headers.
Hd(name, value) == [name |-> name, value |-> value]
SomeHeaders == {Hd(72, <<97, 32, 98>>), Hd(72, <<>>), Hd(72, <<97, CR, 98>>),
                Hd(ContentLength, <<49, 50>>), Hd(ContentLength, <<45, 49>>)}
UpTo(S, n) == UNION {[1..k -> S] : k \in 0..n}
SomeHeads == {[method |-> <<71, 69>>, uri |-> <<47>>, query |-> q, headers |-> hs] :
                 q \in {<<>>, <<97, 61>>}, hs \in UpTo(SomeHeaders, 3)}
Long == [i \in 1..17 |-> 97]
SomeBodies == {<<>>, <<<<97>>>>, <<<<CR, LF>>, <<97, 98, 99>>>>, <<<<48>>, Long>>,
               <<Long, <<48, CR, LF, CR>>>>}
SomeForms == UNION {[1..n -> [header : {<<>>, <<72, CR, LF>>},
                              body : {<<>>, <<97>>, CRLF, CRLF \o <<Minus, Minus>>, Boundary}]] :
                       n \in 1..2}
\* Lookups: all pairs of answers, a third that points on twice, and a fourth.
An(owner, kind) == [owner |-> owner, kind |-> kind]
SomeAnswers == {An(o, k) : o \in {"question", "own", "alias"}, k \in {"A", "AAAA", "CNAME", "chaos"}}
LongAnswers == {<<An("question", "CNAME"), An("own", "CNAME"), x>> : x \in SomeAnswers}
               \cup {<<An("own", "chaos"), An("question", "CNAME"), x, An("own", "A")>> : x \in SomeAnswers}
SomeNames == {<<97>>, <<97, Dot, 98>>, <<97, 98, Dot, 99, 100, Dot, 101, 102, 103, 104>>}
SomeLookups == [name : SomeNames, capital : BOOLEAN, answers : UpTo(SomeAnswers, 1)]
               \cup [name : SomeNames \ {<<97>>}, capital : {FALSE},
                     answers : [1..2 -> SomeAnswers] \cup LongAnswers]
SomePayloads == [op : {1}, len : {0, 1, 5, 125, 126, 127, 65535, 65536}, masked : BOOLEAN]
Following == <<71, 32, 48>>

\* Documents up to three levels deep, one more than MaxDepth.
Index(x) == IF x = "0" THEN 0 ELSE 1
Deeper(S) == {Value} \cup {Array(ds) : ds \in UpTo(S, 2)}
             \cup {Object(ms) : ms \in UpTo({Member(m, d) : m \in Names, d \in S}, 2)}
Flat == Deeper({Value})
Slim == Deeper({Value, Array(<<Value>>), Object(<<Member("a", Value)>>)})
SomeDocs == Deeper(Flat) \cup {Array(<<d>>) : d \in Slim}
            \cup {Object(<<Member("a", d)>>) : d \in Slim}
=============================================================================
