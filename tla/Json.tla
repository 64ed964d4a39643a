---------------------------------- MODULE Json ----------------------------------
(***************************************************************************)
(* json.cpp: json_get(), which walks over a document once to find what a   *)
(* path names, and json_next(), which steps through the members of an      *)
(* array or object by it.                                                  *)
(*                                                                         *)
(* A document is the tree it means; what the code reads is its tokens, a   *)
(* string or a number being one.  A path is the names and the indices it   *)
(* is made of: $.a[1] is <<"a", "1">>.                                     *)
(***************************************************************************)
EXTENDS Integers, Sequences, SequencesExt, FiniteSetsExt

CONSTANTS
    Docs,           \* documents
    Names,          \* of members
    Indices,        \* as they stand in a path
    IndexOf(_),     \* and what they are
    MaxPath,        \* names and indices of a path (bound)
    MaxDepth        \* MG_JSON_MAX_DEPTH

ASSUME JsonAssumption == MaxDepth \in Nat \ {0} /\ \A x \in Indices : IndexOf(x) \in Nat

VARIABLES doc, path
jsonVars == <<doc, path>>

JsonInit == doc \in Docs /\ path = <<>>

JsonNext == Len(path) < MaxPath /\ UNCHANGED doc
            /\ \E step \in Names \cup Indices : path' = Append(path, step)

-----------------------------------------------------------------------------
Value == [kind |-> "value"]
Array(ds) == [kind |-> "array", of |-> ds]
Member(name, d) == [name |-> name, value |-> d]
Object(ms) == [kind |-> "object", of |-> ms]

RECURSIVE Tokens(_)
Tokens(d) ==
    LET Of(x) == IF d.kind = "array" THEN Tokens(x) ELSE <<x.name, ":">> \o Tokens(x.value)
        inner == FoldLeft(LAMBDA s, x : s \o (IF s = <<>> THEN <<>> ELSE <<",">>) \o Of(x),
                          <<>>, IF d.kind = "value" THEN <<>> ELSE d.of)
    IN  CASE d.kind = "value"  -> <<"0">>
          [] d.kind = "array"  -> <<"[">> \o inner \o <<"]">>
          [] d.kind = "object" -> <<"{">> \o inner \o <<"}">>

RECURSIVE Depth(_)
Depth(d) == CASE d.kind = "value" -> 0
              [] d.kind = "array" -> 1 + Max({0} \cup {Depth(d.of[i]) : i \in DOMAIN d.of})
              [] OTHER -> 1 + Max({0} \cup {Depth(d.of[i].value) : i \in DOMAIN d.of})

-----------------------------------------------------------------------------
(* json_get(): i is the token, nesting the open brackets; the path is      *)
(* expected ed brackets deep, k of its steps are found (dot: the object of *)
(* the next is entered), ci of the ei elements before the one wanted are   *)
(* passed; j is where the last candidate starts.                           *)

NotFound == [at |-> "not found"]
Invalid == [at |-> "invalid"]
TooDeep == [at |-> "too deep"]
Found(from, to) == [at |-> "found", from |-> from, to |-> to]

Walk0 == [i |-> 1, expecting |-> "value", nesting |-> <<>>, j |-> 1, ed |-> 0,
          k |-> 0, dot |-> FALSE, ci |-> -1, ei |-> -1]

Here(w) == Len(w.nesting) = w.ed

\* MG_CHECKRET
Answers(w, p) == Here(w) /\ w.k = Len(p) /\ ~w.dot /\ w.ci = w.ei

Wants(w, p, steps) == Here(w) /\ ~w.dot /\ w.k < Len(p) /\ p[w.k + 1] \in steps /\ w.ci = w.ei

\* Mutant: an element is entered whatever its index.
EntersAny(w, p) == Here(w) /\ ~w.dot /\ w.k < Len(p) /\ p[w.k + 1] \in Indices

Enters(w, p) == Wants(w, p, Indices)

Matches(t, closing) == <<t, closing>> \in {<<"[", "]">>, <<"{", "}">>}

RECURSIVE Walk(_, _, _)
Walk(w, s, p) ==
    LET c == s[w.i]
        On(x) == Walk([x EXCEPT !.i = @ + 1], s, p)
        Passed(x) == On([x EXCEPT !.ci = IF Here(x) /\ x.ei >= 0 THEN @ + 1 ELSE @,
                                  !.expecting = "comma"])
        Ended(x) == IF Answers(x, p) THEN Found(x.j, x.i) ELSE Passed(x)
        Closed(x) == IF Here(x) /\ x.ci # x.ei THEN NotFound
                     ELSE IF ~Matches(Last(x.nesting), c) THEN Invalid
                     ELSE Ended([x EXCEPT !.nesting = Front(@)])
        v == IF Here(w) THEN [w EXCEPT !.j = w.i] ELSE w
        into == [v EXCEPT !.nesting = Append(@, c)]
    IN  CASE w.i > Len(s) -> NotFound
          [] w.i <= Len(s) /\ w.expecting = "value" ->
               CASE c \in {"{", "["} /\ Len(w.nesting) >= MaxDepth -> TooDeep
                 [] c = "{" /\ Len(w.nesting) < MaxDepth ->
                      On([IF Wants(w, p, Names)
                          THEN [into EXCEPT !.ed = @ + 1, !.dot = TRUE, !.ci = -1, !.ei = -1]
                          ELSE into EXCEPT !.expecting = "key"])
                 [] c = "[" /\ Len(w.nesting) < MaxDepth ->
                      On(IF Enters(w, p)
                         THEN [into EXCEPT !.ed = @ + 1, !.k = @ + 1, !.ci = 0,
                                           !.ei = IndexOf(p[w.k + 1])]
                         ELSE into)
                 [] c = "]" /\ w.nesting # <<>> -> Closed(v)
                 [] c \in {"0"} \cup Names -> Ended(v)
                 [] OTHER -> Invalid
          [] w.i <= Len(s) /\ w.expecting = "key" ->
               CASE c = "}" -> Closed(w)
                 [] c \in Names /\ (Len(w.nesting) < w.ed \/ (Here(w) /\ ~w.dot)) -> NotFound
                 [] c \in Names /\ Len(w.nesting) >= w.ed /\ (Here(w) => w.dot) ->
                      On([IF Here(w) /\ p[w.k + 1] = c
                          THEN [w EXCEPT !.k = @ + 1, !.dot = FALSE] ELSE w
                          EXCEPT !.expecting = "colon"])
                 [] OTHER -> Invalid
          [] w.i <= Len(s) /\ w.expecting = "colon" ->
               IF c = ":" THEN On([w EXCEPT !.expecting = "value"]) ELSE Invalid
          [] OTHER ->
               CASE w.nesting = <<>> -> Invalid
                 [] w.nesting # <<>> /\ c = "," ->
                      On([w EXCEPT !.expecting = IF Last(w.nesting) = "{" THEN "key" ELSE "value"])
                 [] w.nesting # <<>> /\ c \in {"]", "}"} ->
                      IF Here(w) /\ c = "}" /\ w.dot THEN NotFound ELSE Closed(w)
                 [] OTHER -> Invalid

json_get(s, p) == Walk(Walk0, s, p)

\* json_next(): the members from an offset on, as the places of their tokens.
RECURSIVE json_next(_, _)
json_next(s, ofs) ==
    LET From(n) == json_get(SubSeq(s, n + 1, Len(s)), <<>>)
        start == IF ofs = 0 THEN 1 ELSE ofs
        key == From(start)
        colon == Min({n \in (start + key.to)..Len(s) : n = Len(s) \/ s[n] = ":"})
        from == IF s[1] = "[" THEN start ELSE colon
        val == From(from)
        next == from + val.to + (IF from + val.to < Len(s) /\ s[from + val.to + 1] = "," THEN 1 ELSE 0)
    IN  IF Len(s) < 2 \/ s[1] \notin {"[", "{"} \/ ofs >= Len(s) THEN <<>>
        ELSE IF key.at # "found" \/ val.at # "found" THEN <<>>
        ELSE <<[key |-> IF s[1] = "[" THEN 0 ELSE start + key.from,
                from |-> from + val.from, to |-> from + val.to]>> \o json_next(s, next)

-----------------------------------------------------------------------------
(* What a path names: the value it leads to, where its tokens start, and,  *)
(* if it leads nowhere, the value it stops at and that one's parent.       *)

Child(d, n) == IF d.kind = "array" THEN d.of[n] ELSE d.of[n].value

\* Tokens before the n-th member of a value.
Offset(d, n) ==
    1 + FoldLeft(LAMBDA sum, m : sum + 1 + Len(Tokens(Child(d, m)))
                                 + (IF d.kind = "object" THEN 2 ELSE 0),
                 IF d.kind = "object" THEN 2 ELSE 0, [m \in 1..(n - 1) |-> m])

Hit(d, step) ==
    CASE d.kind = "array" /\ step \in Indices -> {n \in DOMAIN d.of : n = IndexOf(step) + 1}
      [] d.kind = "object" /\ step \in Names -> {n \in DOMAIN d.of : d.of[n].name = step}
      [] OTHER -> {}

RECURSIVE Lookup(_, _, _, _)
Lookup(d, p, at, parents) ==
    LET n == Min(Hit(d, Head(p)))
    IN  CASE p = <<>> -> [hit |-> TRUE, found |-> Found(at + 1, at + Len(Tokens(d)))]
          [] p # <<>> /\ Hit(d, Head(p)) = {} -> [hit |-> FALSE, stop |-> d, parents |-> parents]
          [] OTHER -> Lookup(Child(d, n), Tail(p), at + Offset(d, n), Append(parents, d.kind))

Members(d) ==
    IF d.kind = "value" THEN <<>>
    ELSE [n \in DOMAIN d.of |->
             LET from == Offset(d, n)
             IN  [key |-> IF d.kind = "array" THEN 0 ELSE from - 1, from |-> from + 1,
                  to |-> from + Len(Tokens(Child(d, n)))]]

\* json_get() gives what a path leads to, where it is, and json_next() the
\* members in their order, in documents no deeper than MG_JSON_MAX_DEPTH; in
\* deeper ones, that or an error.  A path that leads nowhere is not found, but
\* for one that stops at an array or an empty object inside an array, see
\* MissingNotFound.
JsonExact ==
    LET s == Tokens(doc)
        r == json_get(s, path)
        l == Lookup(doc, path, 0, <<>>)
    IN  /\ \/ l.hit /\ r = l.found
           \/ ~l.hit /\ r = NotFound
           \/ Depth(doc) > MaxDepth /\ r = TooDeep
           \/ ~l.hit /\ "array" \in Range(l.parents) /\ l.stop.kind # "value"
              /\ (l.stop.kind = "object" => l.stop.of = <<>>)
        /\ path = <<>> /\ Depth(doc) <= MaxDepth => json_next(s, 0) = Members(doc)

\* What is not there is not found.
MissingNotFound ==
    Depth(doc) <= MaxDepth /\ ~Lookup(doc, path, 0, <<>>).hit
        => json_get(Tokens(doc), path) = NotFound
=============================================================================
