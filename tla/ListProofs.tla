------------------------------ MODULE ListProofs ------------------------------
(***************************************************************************)
(* Lemmas about linked lists and sequences: what adding at the head and    *)
(* unlinking do to the set of elements, and to what is still ahead of a    *)
(* walk that has saved its next element; induction over a set of numbers,  *)
(* and the functions on numbers that may be defined by recursion; and what *)
(* FlattenSeq() of the community modules returns.                          *)
(***************************************************************************)
EXTENDS Lists, SequenceTheorems, FiniteSetTheorems, TLAPS

\* A list of elements of S, none of them twice.
IsList(s, S) == s \in Seq(S) /\ IsInjective(s)

\* The elements of a list, and that a place is known by its element.
LEMMA ListRange ==
    ASSUME NEW S, NEW s, IsList(s, S)
    PROVE  /\ Range(s) \subseteq S
           /\ Range(s) = {s[i] : i \in 1..Len(s)}
           /\ Len(s) \in Nat /\ DOMAIN s = 1..Len(s)
           /\ \A i, j \in 1..Len(s) : s[i] = s[j] => i = j
BY DEF IsList, IsInjective, Range

\* A new element at the head: a list again, with one element more.
LEMMA AddRange ==
    ASSUME NEW S, NEW s, IsList(s, S), NEW c \in S, c \notin Range(s)
    PROVE  /\ IsList(<<c>> \o s, S)
           /\ Range(<<c>> \o s) = {c} \cup Range(s)
<1>1. <<c>> \in Seq(S) /\ Len(<<c>>) = 1 /\ s \in Seq(S) BY DEF IsList
<1> DEFINE t == <<c>> \o s
<1>2. /\ t \in Seq(S) /\ Len(t) = Len(s) + 1 /\ t[1] = c
      /\ \A i \in 1..Len(s) : t[i + 1] = s[i]
      /\ \A i \in 2..Len(t) : t[i] = s[i - 1]
  BY <1>1
<1> HIDE DEF t
<1>3. Range(t) = {c} \cup Range(s)
  <2>1. \A i \in DOMAIN t : t[i] \in {c} \cup Range(s)
    BY <1>1, <1>2 DEF Range
  <2>2. ASSUME NEW i \in DOMAIN s PROVE s[i] \in Range(t)
    <3>1. i \in 1..Len(s) /\ i + 1 \in 1..Len(t) /\ DOMAIN t = 1..Len(t)
      BY <1>1, <1>2
    <3>2. s[i] = t[i + 1] BY <1>2, <3>1
    <3> QED BY <3>1, <3>2 DEF Range
  <2>3. c \in Range(t) BY <1>1, <1>2 DEF Range
  <2> QED BY <2>1, <2>2, <2>3 DEF Range
<1>4. IsInjective(t)
  <2> SUFFICES ASSUME NEW i \in 1..Len(t), NEW j \in 1..Len(t), t[i] = t[j] PROVE i = j
    BY <1>2 DEF IsInjective
  <2>1. Len(t) = Len(s) + 1 /\ Len(s) \in Nat BY <1>2, ListRange
  <2>2. ASSUME NEW k \in 2..Len(t) PROVE k - 1 \in 1..Len(s) /\ t[k] = s[k - 1] /\ t[k] # c
    <3>1. k - 1 \in 1..Len(s) BY <2>1
    <3> QED BY <1>2, <3>1, ListRange
  <2>3. CASE i = 1 BY <1>2, <2>1, <2>2, <2>3
  <2>4. CASE j = 1 BY <1>2, <2>1, <2>2, <2>4
  <2>5. CASE i # 1 /\ j # 1
    <3>1. s[i - 1] = s[j - 1] /\ i - 1 \in 1..Len(s) /\ j - 1 \in 1..Len(s)
      BY <2>1, <2>2, <2>5
    <3>2. i - 1 = j - 1 BY <3>1, ListRange
    <3> QED BY <3>2
  <2> QED BY <2>3, <2>4, <2>5
<1> QED BY <1>2, <1>3, <1>4 DEF t, IsList

\* RemoveFirst unlinks the element at its place.
LEMMA RemoveIsRemoveAt ==
    ASSUME NEW S, NEW s, IsList(s, S), NEW k \in 1..Len(s)
    PROVE  RemoveFirst(s, s[k]) = RemoveAt(s, k)
<1> DEFINE I == {i \in 1..Len(s) : s[i] = s[k]}
<1>1. I = {k} BY ListRange
<1>2. k \in Int BY ListRange
<1>3. (CHOOSE x \in {k} : \A y \in {k} : x =< y) = k BY <1>2
<1>4. SelectInSeq(s, LAMBDA v : v = s[k]) = k
  BY <1>1, <1>3 DEF SelectInSeq, Min
<1> QED BY <1>4 DEF RemoveFirst

\* What is where after the element at place k has been removed.
LEMMA RemoveAtPoints ==
    ASSUME NEW S, NEW s \in Seq(S), NEW k \in 1..Len(s)
    PROVE  /\ RemoveAt(s, k) \in Seq(S)
           /\ Len(RemoveAt(s, k)) = Len(s) - 1
           /\ \A j \in 1..(Len(s) - 1) : RemoveAt(s, k)[j] = IF j < k THEN s[j] ELSE s[j + 1]
<1> DEFINE n == Len(s)
           a == SubSeq(s, 1, k - 1)
           b == SubSeq(s, k + 1, n)
<1>1. n \in Nat /\ k \in Int /\ \A i \in 1..n : s[i] \in S BY DEF n
<1>2. /\ a \in Seq(S) /\ Len(a) = k - 1
      /\ \A j \in 1..(k - 1) : a[j] = s[j]
  BY <1>1, SubSeqProperties
<1>3. /\ b \in Seq(S) /\ Len(b) = n - k
      /\ \A j \in 1..(n - k) : b[j] = s[j + k]
  BY <1>1, SubSeqProperties
<1> HIDE DEF a, b, n
<1>4. a \o b \in Seq(S) /\ Len(a \o b) = n - 1
  <2>1. (k - 1) + (n - k) = n - 1 BY <1>1
  <2> QED BY <1>2, <1>3, <2>1, ConcatProperties
<1>5. ASSUME NEW j \in 1..(n - 1) PROVE (a \o b)[j] = IF j < k THEN s[j] ELSE s[j + 1]
  <2>1. (a \o b)[j] = IF j <= k - 1 THEN a[j] ELSE b[j - (k - 1)]
    <3>1. j \in 1..(Len(a) + Len(b)) BY <1>1, <1>2, <1>3
    <3> QED BY <1>2, <1>3, <3>1, ConcatProperties
  <2>2. CASE j < k BY <1>1, <1>2, <2>1, <2>2
  <2>3. CASE ~(j < k)
    <3>1. j - (k - 1) \in 1..(n - k) BY <1>1, <2>3
    <3>2. b[j - (k - 1)] = s[(j - (k - 1)) + k] BY <3>1, <1>3
    <3>3. (j - (k - 1)) + k = j + 1 BY <1>1
    <3>4. ~(j <= k - 1) BY <1>1, <2>3
    <3> QED BY <2>1, <2>3, <3>2, <3>3, <3>4
  <2> QED BY <2>2, <2>3
<1> QED BY <1>4, <1>5 DEF RemoveAt, a, b, n

\* Unlinking an element: a list again, with that element less.
LEMMA RemoveRange ==
    ASSUME NEW S, NEW s, IsList(s, S), NEW c \in Range(s)
    PROVE  /\ IsList(RemoveFirst(s, c), S)
           /\ Range(RemoveFirst(s, c)) = Range(s) \ {c}
<1>1. PICK k \in 1..Len(s) : s[k] = c BY DEF Range, IsList
<1> DEFINE t == RemoveAt(s, k)
           n == Len(s)
<1>2. RemoveFirst(s, c) = t BY <1>1, RemoveIsRemoveAt
<1>3. /\ t \in Seq(S) /\ Len(t) = n - 1 /\ n \in Nat /\ k \in Int
      /\ \A j \in 1..(n - 1) : t[j] = IF j < k THEN s[j] ELSE s[j + 1]
  BY RemoveAtPoints DEF IsList
<1> HIDE DEF t, n
<1>4. \A i, j \in 1..n : s[i] = s[j] => i = j BY ListRange DEF n
<1>5. IsInjective(t)
  <2> SUFFICES ASSUME NEW i \in 1..(n - 1), NEW j \in 1..(n - 1), t[i] = t[j] PROVE i = j
    BY <1>3 DEF IsInjective
  <2> QED BY <1>3, <1>4
<1>6. Range(t) = Range(s) \ {c}
  <2>1. ASSUME NEW j \in 1..(n - 1) PROVE t[j] \in Range(s) \ {c}
    BY <1>1, <1>3, <1>4, ListRange DEF n
  <2>2. ASSUME NEW i \in 1..n, s[i] # c PROVE s[i] \in Range(t)
    <3>1. i < k \/ i > k BY <1>1, <1>3, <2>2
    <3>2. CASE i < k
      <4>1. i \in 1..(n - 1) /\ t[i] = s[i] BY <1>1, <1>3, <3>2 DEF n
      <4> QED BY <4>1, <1>3 DEF Range
    <3>3. CASE i > k
      <4>1. i - 1 \in 1..(n - 1) /\ t[i - 1] = s[i] BY <1>1, <1>3, <3>3 DEF n
      <4> QED BY <4>1, <1>3 DEF Range
    <3> QED BY <3>1, <3>2, <3>3
  <2> QED BY <2>1, <2>2, <1>3, ListRange DEF Range, n
<1> QED BY <1>2, <1>3, <1>5, <1>6 DEF IsList

-----------------------------------------------------------------------------
\* x and what follows it on the list.
From(s, x) == {s[j] : j \in {j \in DOMAIN s : \E i \in 1..j : s[i] = x}}

\* What is ahead of the element at place k: the places from k on.
LEMMA FromPlaces ==
    ASSUME NEW S, NEW s, IsList(s, S), NEW k \in 1..Len(s)
    PROVE  From(s, s[k]) = {s[j] : j \in k..Len(s)}
<1>1. \A i \in 1..Len(s) : s[i] = s[k] => i = k BY ListRange
<1>2. Len(s) \in Nat /\ DOMAIN s = 1..Len(s) BY ListRange
<1> QED BY <1>1, <1>2 DEF From

\* Only elements of the list are ahead, and nothing once it is left.
LEMMA FromWithin ==
    ASSUME NEW S, NEW s, IsList(s, S), NEW x
    PROVE  /\ From(s, x) \subseteq Range(s)
           /\ x \in Range(s) => x \in From(s, x)
           /\ x \notin Range(s) => From(s, x) = {}
<1>1. From(s, x) \subseteq Range(s) BY DEF From, Range
<1>2. ASSUME x \in Range(s) PROVE x \in From(s, x)
  <2>1. PICK k \in 1..Len(s) : s[k] = x BY <1>2, ListRange
  <2>2. k \in k..Len(s) BY ListRange
  <2> QED BY <2>1, <2>2, FromPlaces
<1>3. ASSUME x \notin Range(s) PROVE From(s, x) = {}
  <2>1. DOMAIN s = 1..Len(s) /\ Len(s) \in Nat BY ListRange
  <2>2. \A j \in 1..Len(s) : \A i \in 1..j : i \in 1..Len(s) BY <2>1
  <2> QED BY <1>3, <2>1, <2>2, ListRange DEF From
<1> QED BY <1>1, <1>2, <1>3

\* At the head the whole list is ahead.
LEMMA FromFirst ==
    ASSUME NEW S, NEW s, IsList(s, S), NEW end, end \notin S
    PROVE  /\ From(s, HeadOf(s, end)) = Range(s)
           /\ HeadOf(s, end) \in Range(s) \cup {end}
<1>1. CASE s = <<>>
  <2>1. HeadOf(s, end) = end BY <1>1 DEF HeadOf
  <2>2. end \notin Range(s) BY ListRange
  <2>3. Range(s) = {} BY <1>1 DEF Range
  <2> QED BY <2>1, <2>2, <2>3, FromWithin
<1>2. CASE s # <<>>
  <2>1. 1 \in 1..Len(s) /\ s[1] = Head(s) BY <1>2 DEF IsList
  <2>2. From(s, s[1]) = {s[j] : j \in 1..Len(s)} BY <2>1, FromPlaces
  <2>3. HeadOf(s, end) = s[1] BY <1>2, <2>1 DEF HeadOf
  <2>4. s[1] \in Range(s) BY <2>1, ListRange
  <2> QED BY <2>2, <2>3, <2>4, ListRange
<1> QED BY <1>1, <1>2

\* One step of the walk leaves exactly one element behind.
LEMMA FromAfter ==
    ASSUME NEW S, NEW s, IsList(s, S), NEW x \in Range(s), NEW end, end \notin S
    PROVE  /\ NextOf(s, x, end) \in Range(s) \cup {end}
           /\ From(s, x) = {x} \cup From(s, NextOf(s, x, end))
           /\ x \notin From(s, NextOf(s, x, end))
<1>0. Len(s) \in Nat /\ DOMAIN s = 1..Len(s) BY ListRange
<1>1. PICK k \in 1..Len(s) : s[k] = x BY ListRange
<1>2. (CHOOSE i \in DOMAIN s : s[i] = x) = k
  <2>1. \A i \in DOMAIN s : s[i] = x <=> i = k BY <1>0, <1>1, ListRange
  <2> QED BY <1>0, <1>1, <2>1
<1>3. From(s, x) = {s[j] : j \in k..Len(s)} BY <1>1, FromPlaces
<1>4. CASE k = Len(s)
  <2>1. NextOf(s, x, end) = end BY <1>2, <1>4 DEF NextOf
  <2>2. end \notin Range(s) BY ListRange
  <2>3. From(s, end) = {} BY <2>2, FromWithin
  <2>4. k..Len(s) = {k} BY <1>0, <1>4
  <2> QED BY <1>1, <1>3, <2>1, <2>3, <2>4
<1>5. CASE k # Len(s)
  <2>1. k + 1 \in 1..Len(s)
    <3>1. Len(s) \in Nat BY <1>0
    <3> QED BY <1>5, <3>1
  <2>2. NextOf(s, x, end) = s[k + 1] BY <1>2, <1>5 DEF NextOf
  <2>3. From(s, s[k + 1]) = {s[j] : j \in (k + 1)..Len(s)} BY <2>1, FromPlaces
  <2>4. k..Len(s) = {k} \cup ((k + 1)..Len(s)) BY <1>0
  <2>5. s[k + 1] \in Range(s) BY <2>1, ListRange
  <2>6. \A j \in (k + 1)..Len(s) : s[j] # x
    <3>1. \A j \in (k + 1)..Len(s) : j \in 1..Len(s) /\ j # k BY <1>0
    <3> QED BY <1>1, <3>1, ListRange
  <2> QED BY <1>1, <1>3, <2>2, <2>3, <2>4, <2>5, <2>6
<1> QED BY <1>4, <1>5

\* What is added at the head is not ahead of a walk that has begun.
LEMMA FromAdd ==
    ASSUME NEW S, NEW s, IsList(s, S), NEW c \in S, c \notin Range(s), NEW x, x # c
    PROVE  From(<<c>> \o s, x) = From(s, x)
<1> DEFINE t == <<c>> \o s
<1>1. IsList(t, S) /\ Range(t) = {c} \cup Range(s) BY AddRange
<1>2. CASE x \notin Range(s) BY <1>1, <1>2, FromWithin
<1>3. CASE x \in Range(s)
  <2>0. s \in Seq(S) /\ Len(s) \in Nat BY DEF IsList
  <2>1. PICK k \in 1..Len(s) : s[k] = x BY <1>3, ListRange
  <2>2. /\ Len(t) = Len(s) + 1
        /\ \A i \in 1..Len(s) : t[i + 1] = s[i]
        /\ \A i \in 2..Len(t) : t[i] = s[i - 1]
    BY <2>0
  <2> HIDE DEF t
  <2>3. k + 1 \in 1..Len(t) /\ t[k + 1] = x BY <2>0, <2>1, <2>2
  <2>4. From(t, x) = {t[j] : j \in (k + 1)..Len(t)} BY <1>1, <2>3, FromPlaces
  <2>5. From(s, x) = {s[j] : j \in k..Len(s)} BY <2>1, FromPlaces
  <2>6. ASSUME NEW j \in k..Len(s) PROVE j + 1 \in (k + 1)..Len(t) /\ t[j + 1] = s[j]
    BY <2>0, <2>2
  <2>7. ASSUME NEW j \in (k + 1)..Len(t) PROVE j - 1 \in k..Len(s) /\ t[j] = s[j - 1]
    BY <2>0, <2>2
  <2>8. {t[j] : j \in (k + 1)..Len(t)} = {s[j] : j \in k..Len(s)}
    <3>1. ASSUME NEW e \in {t[j] : j \in (k + 1)..Len(t)} PROVE e \in {s[j] : j \in k..Len(s)}
      BY <2>7
    <3>2. ASSUME NEW e \in {s[j] : j \in k..Len(s)} PROVE e \in {t[j] : j \in (k + 1)..Len(t)}
      <4>1. PICK j \in k..Len(s) : e = s[j] OBVIOUS
      <4> QED BY <4>1, <2>6
    <3> QED BY <3>1, <3>2
  <2> QED BY <2>4, <2>5, <2>8 DEF t
<1> QED BY <1>2, <1>3

\* Unlinking what lies behind changes nothing of what is ahead.
LEMMA FromRemove ==
    ASSUME NEW S, NEW s, IsList(s, S), NEW c \in Range(s), NEW x, c \notin From(s, x)
    PROVE  From(RemoveFirst(s, c), x) = From(s, x)
<1> DEFINE t == RemoveFirst(s, c)
           n == Len(s)
<1>1. IsList(t, S) /\ Range(t) = Range(s) \ {c} BY RemoveRange
<1>2. CASE x \notin Range(s) BY <1>1, <1>2, FromWithin
<1>3. CASE x \in Range(s)
  <2>0. n \in Nat /\ s \in Seq(S) BY ListRange DEF IsList
  <2>1. PICK k \in 1..n : s[k] = x BY <1>3, ListRange
  <2>2. PICK m \in 1..n : s[m] = c BY ListRange
  <2>3. From(s, x) = {s[j] : j \in k..n} BY <2>1, FromPlaces
  <2>4. m < k
    <3>1. m \notin k..n BY <2>2, <2>3
    <3> QED BY <2>0, <3>1
  <2>5. t = RemoveAt(s, m) BY <2>2, RemoveIsRemoveAt
  <2>6. Len(t) = n - 1 /\ \A j \in 1..(n - 1) : t[j] = IF j < m THEN s[j] ELSE s[j + 1]
    BY <2>0, <2>5, RemoveAtPoints
  <2> HIDE DEF t, n
  <2>7. k - 1 \in 1..(n - 1) /\ t[k - 1] = x
    <3>1. k - 1 \in 1..(n - 1) /\ ~(k - 1 < m) BY <2>0, <2>4
    <3> QED BY <2>1, <2>6, <3>1
  <2>8. From(t, x) = {t[j] : j \in (k - 1)..(n - 1)} BY <1>1, <2>6, <2>7, FromPlaces
  <2>9. ASSUME NEW j \in k..n PROVE j - 1 \in (k - 1)..(n - 1) /\ t[j - 1] = s[j]
    <3>1. j - 1 \in 1..(n - 1) /\ ~(j - 1 < m) BY <2>0, <2>4
    <3> QED BY <2>6, <3>1
  <2>10. ASSUME NEW j \in (k - 1)..(n - 1) PROVE j + 1 \in k..n /\ t[j] = s[j + 1]
    <3>1. j \in 1..(n - 1) /\ ~(j < m) BY <2>0, <2>4
    <3> QED BY <2>0, <2>6, <3>1
  <2>11. {t[j] : j \in (k - 1)..(n - 1)} = {s[j] : j \in k..n}
    BY <2>9, <2>10
  <2> QED BY <2>3, <2>8, <2>11 DEF t, n
<1> QED BY <1>2, <1>3

\* Unlinking another element takes it, and only it, from what is ahead.
LEMMA FromRemoveOther ==
    ASSUME NEW S, NEW s, IsList(s, S), NEW c \in Range(s), NEW x, x # c
    PROVE  From(RemoveFirst(s, c), x) = From(s, x) \ {c}
<1> DEFINE t == RemoveFirst(s, c)
           n == Len(s)
<1>1. IsList(t, S) /\ Range(t) = Range(s) \ {c} BY RemoveRange
<1>2. CASE x \notin Range(s) BY <1>1, <1>2, FromWithin
<1>3. CASE c \notin From(s, x)
  <2>1. From(t, x) = From(s, x) BY <1>3, FromRemove
  <2> QED BY <1>3, <2>1
<1>4. CASE x \in Range(s) /\ c \in From(s, x)
  <2>0. n \in Nat /\ s \in Seq(S) BY ListRange DEF IsList
  <2>1. PICK k \in 1..n : s[k] = x BY <1>4, ListRange
  <2>2. PICK m \in 1..n : s[m] = c BY ListRange
  <2>3. From(s, x) = {s[j] : j \in k..n} BY <2>1, FromPlaces
  <2>4. \A i, j \in 1..n : s[i] = s[j] => i = j BY ListRange
  <2>5. k < m
    <3>1. PICK j \in k..n : s[j] = c BY <1>4, <2>3
    <3>2. j = m BY <2>0, <2>2, <2>4, <3>1
    <3>3. m # k BY <2>1, <2>2
    <3> QED BY <2>0, <3>1, <3>2, <3>3
  <2>6. t = RemoveAt(s, m) BY <2>2, RemoveIsRemoveAt
  <2>7. Len(t) = n - 1 /\ \A j \in 1..(n - 1) : t[j] = IF j < m THEN s[j] ELSE s[j + 1]
    BY <2>0, <2>6, RemoveAtPoints
  <2> HIDE DEF t, n
  <2>8. k \in 1..(n - 1) /\ t[k] = x BY <2>0, <2>1, <2>5, <2>7
  <2>9. From(t, x) = {t[j] : j \in k..(n - 1)}
    <3>1. k \in 1..Len(t) BY <2>7, <2>8
    <3>2. From(t, t[k]) = {t[j] : j \in k..Len(t)} BY <1>1, <3>1, FromPlaces
    <3> QED BY <2>7, <2>8, <3>2
  <2>10. ASSUME NEW j \in k..(n - 1) PROVE t[j] \in From(s, x) \ {c}
    <3>1. j \in 1..(n - 1) /\ j \in k..n /\ j + 1 \in k..n /\ j \in 1..n /\ j + 1 \in 1..n
      BY <2>0
    <3>2. CASE j < m
      <4>1. t[j] = s[j] /\ j # m BY <2>0, <2>7, <3>1, <3>2
      <4>2. s[j] # c BY <2>2, <2>4, <3>1, <4>1
      <4> QED BY <2>3, <3>1, <4>1, <4>2
    <3>3. CASE ~(j < m)
      <4>1. t[j] = s[j + 1] /\ j + 1 # m BY <2>0, <2>7, <3>1, <3>3
      <4>2. s[j + 1] # c BY <2>2, <2>4, <3>1, <4>1
      <4> QED BY <2>3, <3>1, <4>1, <4>2
    <3> QED BY <3>2, <3>3
  <2>11. ASSUME NEW j \in k..n, s[j] # c PROVE s[j] \in From(t, x)
    <3>1. CASE j < m
      <4>1. j \in k..(n - 1) /\ j \in 1..(n - 1) BY <2>0, <3>1
      <4>2. t[j] = s[j] BY <2>7, <3>1, <4>1
      <4> QED BY <2>9, <4>1, <4>2
    <3>2. CASE ~(j < m)
      <4>1. j # m BY <2>2, <2>11
      <4>2. j - 1 \in k..(n - 1) /\ j - 1 \in 1..(n - 1) /\ ~(j - 1 < m)
        BY <2>0, <2>5, <3>2, <4>1
      <4>3. t[j - 1] = s[j] BY <2>0, <2>7, <4>2
      <4> QED BY <2>9, <4>2, <4>3
    <3> QED BY <3>1, <3>2
  <2> QED BY <2>3, <2>9, <2>10, <2>11 DEF t
<1> QED BY <1>2, <1>3, <1>4

\* The elements of a list are finitely many.
LEMMA ListFinite ==
    ASSUME NEW S, NEW s, IsList(s, S)
    PROVE  IsFiniteSet(Range(s))
<1>1. Len(s) \in Nat BY ListRange
<1>2. IsFiniteSet(1..Len(s)) BY <1>1, FS_Interval, 1 \in Int
<1>3. s \in Surjection(1..Len(s), Range(s))
  BY ListRange DEF Surjection, IsList
<1> QED BY <1>2, <1>3, FS_Surjection

\* Two elements added at the head at once are added one after the other.
LEMMA TwoAtHead ==
    ASSUME NEW S, NEW s \in Seq(S), NEW a \in S, NEW b \in S
    PROVE  <<a, b>> \o s = <<a>> \o (<<b>> \o s)
<1> DEFINE u == <<a>>
           v == <<b>>
           w == <<a, b>>
<1>1. /\ u \in Seq(S) /\ Len(u) = 1 /\ u[1] = a
      /\ v \in Seq(S) /\ Len(v) = 1 /\ v[1] = b
      /\ w \in Seq(S) /\ Len(w) = 2 /\ w[1] = a /\ w[2] = b
  OBVIOUS
<1> HIDE DEF u, v, w
<1>2. /\ u \o v \in Seq(S) /\ Len(u \o v) = Len(u) + Len(v)
      /\ \A i \in 1..Len(u) + Len(v) :
            (u \o v)[i] = IF i <= Len(u) THEN u[i] ELSE v[i - Len(u)]
  BY <1>1, ConcatProperties
<1>a. Len(u) + Len(v) = 2 BY <1>1
<1>b. (u \o v)[1] = a BY <1>1, <1>2
<1>c. (u \o v)[2] = b BY <1>1, <1>2
<1>3. \A i \in 1..2 : i = 1 \/ i = 2 OBVIOUS
<1>4. u \o v = w
  <2>1. \A i \in 1..Len(u \o v) : (u \o v)[i] = w[i]
    BY <1>1, <1>2, <1>a, <1>b, <1>c, <1>3
  <2> QED BY <1>1, <1>2, <1>a, <2>1, SeqEqual
<1>5. (u \o v) \o s = u \o (v \o s) BY <1>1
<1> QED BY <1>4, <1>5 DEF u, v, w
-----------------------------------------------------------------------------
(* Induction.  The library states it for a predicate, which the provers    *)
(* cannot instantiate; stated for a set of numbers it needs no more than   *)
(* that < is well-founded on Nat.                                          *)

\* A set of natural numbers that is not empty has a least element.
LEMMA LeastNumber ==
    ASSUME NEW K, K \subseteq Nat, K # {}
    PROVE  \E n \in K : \A m \in K : n <= m
<1> DEFINE R == {p \in Nat \X Nat : p[1] < p[2]}
<1>1. IsWellFoundedOn(R, Nat)
  <2>1. OpToRel(<, Nat) = R BY DEF OpToRel
  <2> QED BY <2>1, NatLessThanWellFounded, Zenon
<1> HIDE DEF R
<1>2. PICK n \in K : \A m \in K : ~(<<m, n>> \in R)
  BY <1>1, WFMin, Zenon
<1>3. ASSUME NEW m \in K PROVE n <= m
  <2>1. ~(<<m, n>> \in R) BY <1>2
  <2>2. n \in Nat /\ m \in Nat OBVIOUS
  <2> QED BY <2>1, <2>2 DEF R
<1> QED BY <1>3

\* A set that has a and with each number below b the next one has all from a to b.
LEMMA Induction ==
    ASSUME NEW a \in Nat, NEW b \in Nat, NEW K,
           a \in K, \A n \in a..(b - 1) : n \in K => n + 1 \in K
    PROVE  \A n \in a..b : n \in K
<1> DEFINE Missing == {n \in a..b : n \notin K}
<1> SUFFICES ASSUME Missing # {} PROVE FALSE OBVIOUS
<1>1. Missing \subseteq Nat OBVIOUS
<1>2. PICK n \in Missing : \A m \in Missing : n <= m BY <1>1, LeastNumber
<1>3. n \in Nat /\ n \in a..b /\ n # a /\ n - 1 \in a..(b - 1) OBVIOUS
<1>4. n - 1 \in K BY <1>2, <1>3
<1>5. (n - 1) + 1 \in K BY <1>3, <1>4
<1> QED BY <1>3, <1>5

\* The least number of a set, as Min() finds it.
LEMMA MinIsLeast ==
    ASSUME NEW K, K \subseteq Nat, K # {}
    PROVE  Min(K) \in K /\ \A m \in K : Min(K) <= m
BY LeastNumber DEF Min

\* The greatest number of a set that is bounded, as Max() finds it.
LEMMA MaxIsGreatest ==
    ASSUME NEW b \in Nat, NEW K, K \subseteq 0..b, K # {}
    PROVE  Max(K) \in K /\ \A m \in K : Max(K) >= m
<1> DEFINE L == {b - k : k \in K}
<1>2. \A m \in K : b - m \in L OBVIOUS
<1>3. \A n \in L : \E k \in K : n = b - k OBVIOUS
<1> HIDE DEF L
<1>0. \A k \in K : b - k \in Nat OBVIOUS
<1>1. L \subseteq Nat /\ L # {} BY <1>0, <1>2, <1>3
<1>4. Min(L) \in L /\ \A m \in L : Min(L) <= m BY <1>1, MinIsLeast
<1>5. PICK k \in K : Min(L) = b - k BY <1>3, <1>4
<1>6. ASSUME NEW m \in K PROVE k >= m
  <2>1. b - m \in L BY <1>2
  <2>2. b - k <= b - m BY <1>4, <1>5, <2>1
  <2> QED BY <2>2
<1>7. \E x \in K : \A m \in K : x >= m BY <1>6
<1> QED BY <1>7 DEF Max

\* There is a function on the numbers from a to b that begins with x and whose every
\* other value is what F makes of the one before.
Recursive(a, b, S, x, F) ==
    \E g \in [a..b -> S] : g[a] = x /\ \A k \in (a + 1)..b : g[k] = F[<<k, g[k - 1]>>]

\* A function may be defined by its first value and each next one.
LEMMA Recursion ==
    ASSUME NEW a \in Nat, NEW b \in Nat, a <= b, NEW S, NEW x \in S,
           NEW F \in [((a + 1)..b) \X S -> S]
    PROVE  Recursive(a, b, S, x, F)
<1> DEFINE Upto(m, g) == g[a] = x /\ \A k \in (a + 1)..m : g[k] = F[<<k, g[k - 1]>>]
           K == {m \in a..b : \E g \in [a..m -> S] : Upto(m, g)}
<1>1. a \in K
  <2> DEFINE g == [i \in a..a |-> x]
  <2>1. g \in [a..a -> S] /\ Upto(a, g) OBVIOUS
  <2> HIDE DEF g
  <2> QED BY <2>1
<1>2. ASSUME NEW m \in a..(b - 1), m \in K PROVE m + 1 \in K
  <2>1. PICK g \in [a..m -> S] : Upto(m, g) BY <1>2
  <2> DEFINE h == [i \in a..(m + 1) |-> IF i = m + 1 THEN F[<<i, g[m]>>] ELSE g[i]]
  <2>2. m \in Nat /\ m + 1 \in a..b /\ m + 1 \in (a + 1)..b /\ m \in a..m /\ g[m] \in S OBVIOUS
  <2>3. F[<<m + 1, g[m]>>] \in S BY <2>2
  <2>4. h \in [a..(m + 1) -> S] BY <2>2, <2>3
  <2>5. ASSUME NEW k \in (a + 1)..(m + 1) PROVE h[k] = F[<<k, h[k - 1]>>]
    <3>1. CASE k = m + 1 BY <2>2, <3>1
    <3>2. CASE k # m + 1
      <4>1. k \in (a + 1)..m /\ k - 1 \in a..(m + 1) /\ k - 1 # m + 1 /\ k \in a..(m + 1)
        BY <2>2, <3>2
      <4>2. h[k] = g[k] /\ h[k - 1] = g[k - 1] BY <3>2, <4>1
      <4> HIDE DEF h
      <4> QED BY <2>1, <4>1, <4>2
    <3> QED BY <3>1, <3>2
  <2>6. h[a] = x BY <2>1, <2>2
  <2> HIDE DEF h
  <2> QED BY <2>2, <2>4, <2>5, <2>6
<1>3. b \in K
  <2> HIDE DEF K
  <2>1. \A m \in a..b : m \in K BY <1>1, <1>2, Induction
  <2> QED BY <2>1
<1> QED BY <1>3 DEF Recursive

\* There is a function on the numbers up to n that has a value of its own where it
\* stops, and elsewhere the value at the number it goes to.
Jumping(n, S, stop, value, next) ==
    \E g \in [0..n -> S] :
        \A k \in 0..n : g[k] = IF k \in stop THEN value[k] ELSE g[next[k]]

\* A function may be defined by where it goes from each number, if that is further on.
LEMMA Jumps ==
    ASSUME NEW n \in Nat, NEW S, NEW stop, NEW value \in [0..n -> S], NEW next, n \in stop,
           \A k \in 0..n : k \notin stop => next[k] \in (k + 1)..n
    PROVE  Jumping(n, S, stop, value, next)
<1> DEFINE Follows(m, g) ==
               \A k \in m..n : g[k] = IF k \in stop THEN value[k] ELSE g[next[k]]
           K == {i \in 0..n : \E g \in [(n - i)..n -> S] : Follows(n - i, g)}
<1>1. 0 \in K
  <2> DEFINE g == [k \in n..n |-> value[n]]
  <2>1. g \in [n..n -> S] OBVIOUS
  <2>2. \A k \in n..n : k = n /\ g[k] = value[n] OBVIOUS
  <2> HIDE DEF g
  <2>3. Follows(n, g) BY <2>2
  <2>4. n - 0 = n OBVIOUS
  <2> QED BY <2>1, <2>3, <2>4
<1>2. ASSUME NEW i \in 0..(n - 1), i \in K PROVE i + 1 \in K
  <2> DEFINE m == n - i
             l == n - (i + 1)
  <2>1. /\ m \in 0..n /\ l \in 0..n /\ l + 1 = m /\ i + 1 \in 0..n
        /\ m \in Nat /\ l \in Nat
    OBVIOUS
  <2>2. PICK g \in [m..n -> S] : Follows(m, g) BY <1>2
  <2> HIDE DEF m, l
  <2> DEFINE x == IF l \in stop THEN value[l] ELSE g[next[l]]
             h == [k \in l..n |-> IF k = l THEN x ELSE g[k]]
  <2>3. l \notin stop => next[l] \in m..n BY <2>1
  <2>4. x \in S BY <2>1, <2>3
  <2> HIDE DEF x
  <2>5. h \in [l..n -> S]
    <3>1. \A k \in l..n : k = l \/ k \in m..n BY <2>1
    <3> QED BY <2>4, <3>1
  <2>6. h[l] = x /\ \A k \in m..n : h[k] = g[k]
    <3>1. l \in l..n /\ \A k \in m..n : k \in l..n /\ k # l BY <2>1
    <3> QED BY <3>1
  <2> HIDE DEF h
  <2>7. ASSUME NEW k \in l..n PROVE h[k] = IF k \in stop THEN value[k] ELSE h[next[k]]
    <3>1. CASE k = l BY <2>3, <2>6, <3>1 DEF x
    <3>2. CASE k # l
      <4>1. k \in m..n /\ k \in 0..n BY <2>1, <3>2
      <4>2. k \notin stop => next[k] \in m..n
        <5>1. k \notin stop => next[k] \in (k + 1)..n BY <4>1
        <5> QED BY <2>1, <4>1, <5>1
      <4>3. g[k] = IF k \in stop THEN value[k] ELSE g[next[k]] BY <2>2, <4>1
      <4> QED BY <2>6, <4>1, <4>2, <4>3
    <3> QED BY <3>1, <3>2
  <2>8. Follows(l, h) BY <2>7
  <2> QED BY <2>1, <2>5, <2>8 DEF l
<1>3. n \in K
  <2> HIDE DEF K
  <2>1. \A i \in 0..n : i \in K BY <1>1, <1>2, Induction
  <2> QED BY <2>1
<1>4. n - n = 0 OBVIOUS
<1>5. \E g \in [0..n -> S] : Follows(0, g) BY <1>3, <1>4
<1> QED BY <1>5 DEF Jumping

-----------------------------------------------------------------------------
(* A sequence of sequences laid out as one.                                *)

\* The function by which FlattenSeq() is defined.
Flattened(s, g) ==
    g = [i \in 1..Len(s) |-> IF i = 1 THEN s[i] ELSE g[i - 1] \o s[i]]

\* It exists.
LEMMA FlattenedExists ==
    ASSUME NEW T, NEW s \in Seq(Seq(T)), Len(s) # 0
    PROVE  \E g \in [1..Len(s) -> Seq(T)] : Flattened(s, g)
<1> DEFINE n == Len(s)
           Upto(m, g) == \A i \in 1..m : g[i] = IF i = 1 THEN s[i] ELSE g[i - 1] \o s[i]
           K == {m \in 1..n : \E g \in [1..m -> Seq(T)] : Upto(m, g)}
<1>0. n \in Nat /\ n >= 1 /\ \A i \in 1..n : s[i] \in Seq(T) OBVIOUS
<1> HIDE DEF n
<1>1. 1 \in K
  <2> DEFINE g == [i \in 1..1 |-> s[i]]
  <2>1. 1 \in 1..n BY <1>0
  <2>2. g \in [1..1 -> Seq(T)] /\ Upto(1, g) BY <2>1, <1>0
  <2> HIDE DEF g
  <2> QED BY <2>1, <2>2
<1>2. ASSUME NEW m \in 1..(n - 1), m \in K PROVE m + 1 \in K
  <2>1. PICK g \in [1..m -> Seq(T)] : Upto(m, g) BY <1>2
  <2> DEFINE h == [i \in 1..(m + 1) |-> IF i = m + 1 THEN g[m] \o s[i] ELSE g[i]]
  <2>2. m \in Nat /\ m + 1 \in 1..n /\ g[m] \in Seq(T) /\ s[m + 1] \in Seq(T) BY <1>0
  <2>3. g[m] \o s[m + 1] \in Seq(T) BY <2>2
  <2>4. h \in [1..(m + 1) -> Seq(T)] BY <2>2, <2>3
  <2>5. ASSUME NEW i \in 1..(m + 1) PROVE h[i] = IF i = 1 THEN s[i] ELSE h[i - 1] \o s[i]
    <3>1. CASE i = m + 1
      <4>1. h[i] = g[m] \o s[i] /\ i # 1 /\ i - 1 = m /\ h[m] = g[m] BY <2>2, <3>1
      <4> QED BY <4>1
    <3>2. CASE i # m + 1
      <4>1. i \in 1..m /\ h[i] = g[i] BY <2>2, <3>2
      <4>2. i # 1 => i - 1 \in 1..(m + 1) /\ i - 1 # m + 1 /\ h[i - 1] = g[i - 1] BY <2>2, <4>1
      <4>3. g[i] = IF i = 1 THEN s[i] ELSE g[i - 1] \o s[i] BY <2>1, <4>1
      <4> HIDE DEF h
      <4> QED BY <4>1, <4>2, <4>3
    <3> QED BY <3>1, <3>2
  <2> HIDE DEF h
  <2> QED BY <2>2, <2>4, <2>5
<1>3. n \in K
  <2> HIDE DEF K
  <2>1. \A m \in 1..n : m \in K BY <1>0, <1>1, <1>2, Induction
  <2> QED BY <1>0, <2>1
<1>4. PICK g \in [1..n -> Seq(T)] : Upto(n, g) BY <1>3
<1> QED BY <1>4 DEF Flattened, n

\* What FlattenSeq() is: nothing for nothing, otherwise the value of the function
\* at the last sequence.
LEMMA FlattenedAtEnd ==
    ASSUME NEW T, NEW s \in Seq(Seq(T)), Len(s) # 0
    PROVE  \E g \in [1..Len(s) -> Seq(T)] : Flattened(s, g) /\ FlattenSeq(s) = g[Len(s)]
<1> DEFINE G == CHOOSE g : Flattened(s, g)
<1>1. FlattenSeq(s) = G[Len(s)] BY DEF FlattenSeq, Flattened
<1>2. Flattened(s, G)
  <2>1. \E g : Flattened(s, g) BY FlattenedExists
  <2> QED BY <2>1
<1>3. PICK g \in [1..Len(s) -> Seq(T)] : Flattened(s, g) BY FlattenedExists
<1> DEFINE K == {i \in 1..Len(s) : G[i] = g[i]}
<1> HIDE DEF G
<1>4. 1 \in K
  <2>1. 1 \in 1..Len(s) OBVIOUS
  <2> QED BY <2>1, <1>2, <1>3 DEF Flattened
<1>5. ASSUME NEW i \in 1..(Len(s) - 1), i \in K PROVE i + 1 \in K
  <2>1. i \in Nat /\ i + 1 \in 1..Len(s) /\ i + 1 # 1 /\ (i + 1) - 1 = i OBVIOUS
  <2>2. G[i + 1] = G[i] \o s[i + 1] BY <1>2, <2>1 DEF Flattened
  <2>3. g[i + 1] = g[i] \o s[i + 1] BY <1>3, <2>1 DEF Flattened
  <2> QED BY <1>5, <2>1, <2>2, <2>3
<1>6. Len(s) \in Nat /\ Len(s) \in 1..Len(s) OBVIOUS
<1>7. \A i \in 1..Len(s) : i \in K
  <2> HIDE DEF K
  <2> QED BY <1>4, <1>5, <1>6, Induction
<1>8. G[Len(s)] = g[Len(s)] BY <1>6, <1>7
<1> QED BY <1>1, <1>3, <1>8

\* One sequence more.
LEMMA FlattenAppend ==
    ASSUME NEW T, NEW s \in Seq(Seq(T)), NEW x \in Seq(T)
    PROVE  /\ FlattenSeq(s) \in Seq(T)
           /\ FlattenSeq(<<>>) = <<>>
           /\ FlattenSeq(Append(s, x)) = FlattenSeq(s) \o x
<1> DEFINE t == Append(s, x)
<1>1. FlattenSeq(<<>>) = <<>> BY DEF FlattenSeq
<1>2. FlattenSeq(s) \in Seq(T)
  <2>1. CASE Len(s) = 0
    <3>1. s = <<>> /\ <<>> \in Seq(T) BY <2>1
    <3> QED BY <1>1, <3>1
  <2>2. CASE Len(s) # 0
    <3>1. PICK g \in [1..Len(s) -> Seq(T)] : FlattenSeq(s) = g[Len(s)]
      BY <2>2, FlattenedAtEnd
    <3>2. Len(s) \in 1..Len(s) BY <2>2
    <3> QED BY <3>1, <3>2
  <2> QED BY <2>1, <2>2
<1>3. t \in Seq(Seq(T)) /\ Len(t) = Len(s) + 1 /\ t[Len(t)] = x
      /\ \A i \in 1..Len(s) : t[i] = s[i]
  OBVIOUS
<1> HIDE DEF t
<1>4. PICK h \in [1..Len(t) -> Seq(T)] : Flattened(t, h) /\ FlattenSeq(t) = h[Len(t)]
  <2>1. Len(t) # 0 BY <1>3
  <2> QED BY <1>3, <2>1, FlattenedAtEnd
<1>5. CASE Len(s) = 0
  <2>1. s = <<>> /\ Len(t) = 1 /\ t[1] = x BY <1>3, <1>5
  <2>2. h[1] = x BY <1>4, <2>1 DEF Flattened
  <2>3. FlattenSeq(t) = <<>> \o x BY <1>4, <2>1, <2>2
  <2>4. FlattenSeq(t) = FlattenSeq(s) \o x BY <1>1, <2>1, <2>3
  <2> QED BY <1>1, <1>2, <2>4 DEF t
<1>6. CASE Len(s) # 0
  <2> DEFINE n == Len(s)
  <2>0. n \in Nat /\ n >= 1 BY <1>6
  <2>1. PICK g \in [1..n -> Seq(T)] : Flattened(s, g) /\ FlattenSeq(s) = g[n]
    BY <1>6, FlattenedAtEnd
  <2> DEFINE K == {i \in 1..n : h[i] = g[i]}
  <2> HIDE DEF n
  <2>2. 1 \in K BY <1>3, <1>4, <2>0, <2>1 DEF Flattened, n
  <2>3. ASSUME NEW i \in 1..(n - 1), i \in K PROVE i + 1 \in K
    <3>1. i \in Nat /\ i + 1 \in 1..n /\ i + 1 # 1 /\ (i + 1) - 1 = i /\ i + 1 \in 1..Len(t)
      BY <1>3, <2>0 DEF n
    <3>2. g[i + 1] = g[i] \o s[i + 1] BY <2>1, <3>1 DEF Flattened, n
    <3>3. h[i + 1] = h[i] \o t[i + 1] BY <1>4, <3>1 DEF Flattened
    <3> QED BY <1>3, <2>3, <3>1, <3>2, <3>3 DEF n
  <2>4. \A i \in 1..n : i \in K
    <3> HIDE DEF K
    <3> QED BY <2>0, <2>2, <2>3, Induction
  <2>5. h[n] = g[n] BY <2>0, <2>4
  <2>6. Len(t) \in 1..Len(t) /\ Len(t) # 1 /\ Len(t) - 1 = n BY <1>3, <2>0 DEF n
  <2>7. h[Len(t)] = h[n] \o x BY <1>3, <1>4, <2>6 DEF Flattened
  <2> QED BY <1>2, <1>1, <1>4, <2>1, <2>5, <2>7 DEF t
<1> QED BY <1>1, <1>2, <1>5, <1>6 DEF t

\* A sequence of sequences given by a function, and one more.
LEMMA FlattenNext ==
    ASSUME NEW T, NEW n \in Nat, NEW f, \A i \in 1..(n + 1) : f[i] \in Seq(T)
    PROVE  /\ FlattenSeq([i \in 1..n |-> f[i]]) \in Seq(T)
           /\ FlattenSeq([i \in 1..(n + 1) |-> f[i]])
                = FlattenSeq([i \in 1..n |-> f[i]]) \o f[n + 1]
<1> DEFINE s == [i \in 1..n |-> f[i]]
           t == [i \in 1..(n + 1) |-> f[i]]
           x == f[n + 1]
<1>1. s \in Seq(Seq(T)) /\ Len(s) = n /\ x \in Seq(T) OBVIOUS
<1>2. \A i \in 1..n : s[i] = f[i] OBVIOUS
<1>3. t \in Seq(Seq(T)) /\ Len(t) = n + 1
  <2>1. n + 1 \in Nat /\ t \in [1..(n + 1) -> Seq(T)] OBVIOUS
  <2> QED BY <2>1
<1>4. \A i \in 1..(n + 1) : t[i] = f[i] OBVIOUS
<1> HIDE DEF s, t
<1> HIDE DEF x
<1>5. /\ Append(s, x) \in Seq(Seq(T)) /\ Len(Append(s, x)) = n + 1
      /\ Append(s, x)[n + 1] = x /\ \A i \in 1..n : Append(s, x)[i] = s[i]
  BY <1>1, AppendProperties
<1>6. \A i \in 1..(n + 1) : t[i] = Append(s, x)[i]
  <2> TAKE i \in 1..(n + 1)
  <2>1. i \in 1..n \/ i = n + 1 OBVIOUS
  <2> QED BY <1>2, <1>4, <1>5, <2>1 DEF x
<1>7. t = Append(s, x) BY <1>3, <1>5, <1>6, SeqEqual
<1>8. FlattenSeq(s) \in Seq(T) /\ FlattenSeq(Append(s, x)) = FlattenSeq(s) \o x
  BY <1>1, FlattenAppend
<1> QED BY <1>7, <1>8 DEF s, t, x

\* The front of two sequences laid end to end is the first of them.
LEMMA FrontOfConcat ==
    ASSUME NEW T, NEW f \in Seq(T), NEW r \in Seq(T)
    PROVE  /\ f \o r \in Seq(T) /\ Len(f) <= Len(f \o r)
           /\ f = SubSeq(f \o r, 1, Len(f))
<1> DEFINE s == f \o r
           n == Len(f)
<1>1. s \in Seq(T) /\ n \in Nat /\ Len(r) \in Nat /\ Len(s) = n + Len(r)
      /\ \A i \in 1..n : s[i] = f[i]
  OBVIOUS
<1> HIDE DEF s
<1>2. \A i \in 1..n : s[i] \in T BY <1>1
<1>3. /\ SubSeq(s, 1, n) \in Seq(T) /\ Len(SubSeq(s, 1, n)) = n
      /\ \A i \in 1..n : SubSeq(s, 1, n)[i] = s[i]
  BY <1>1, <1>2, SubSeqProperties
<1>4. f = SubSeq(s, 1, n) BY <1>1, <1>3, SeqEqual
<1> QED BY <1>1, <1>4 DEF s

\* The rest of what lies after a place.
LEMMA RestOfSub ==
    ASSUME NEW T, NEW s \in Seq(T), NEW a \in Nat, NEW b \in a..Len(s), NEW k \in 0..(b - a)
    PROVE  /\ SubSeq(s, a + 1, b) \in Seq(T) /\ Len(SubSeq(s, a + 1, b)) = b - a
           /\ \A i \in 1..(b - a) : SubSeq(s, a + 1, b)[i] = s[a + i]
           /\ SubSeq(SubSeq(s, a + 1, b), k + 1, b - a) = SubSeq(s, a + k + 1, b)
<1> DEFINE u == SubSeq(s, a + 1, b)
           v == SubSeq(u, k + 1, b - a)
           w == SubSeq(s, a + k + 1, b)
<1>0. Len(s) \in Nat /\ b \in Nat /\ k \in Nat /\ b - a \in Nat /\ a + k + 1 \in Int OBVIOUS
<1>1. \A i \in (a + 1)..b : s[i] \in T BY <1>0
<1>2. u \in Seq(T) /\ Len(u) = b - a /\ \A i \in 1..(b - a) : u[i] = s[a + i]
  <2>1. /\ u \in Seq(T) /\ Len(u) = IF a + 1 <= b THEN b - (a + 1) + 1 ELSE 0
        /\ \A i \in 1..(b - (a + 1) + 1) : u[i] = s[a + 1 + i - 1]
    BY <1>0, <1>1, SubSeqProperties
  <2>2. Len(u) = b - a /\ b - (a + 1) + 1 = b - a BY <1>0, <2>1, SMTT(20)
  <2>3. ASSUME NEW i \in 1..(b - a) PROVE u[i] = s[a + i]
    <3>1. a + 1 + i - 1 = a + i BY <1>0
    <3> QED BY <2>1, <2>2, <3>1
  <2> HIDE DEF u
  <2> QED BY <2>1, <2>2, <2>3
<1>3. w \in Seq(T) /\ Len(w) = b - a - k /\ \A i \in 1..(b - a - k) : w[i] = s[a + k + i]
  <2>0. \A i \in (a + k + 1)..b : s[i] \in T BY <1>0, <1>1
  <2>1. /\ w \in Seq(T) /\ Len(w) = IF a + k + 1 <= b THEN b - (a + k + 1) + 1 ELSE 0
        /\ \A i \in 1..(b - (a + k + 1) + 1) : w[i] = s[a + k + 1 + i - 1]
    BY <1>0, <2>0, SubSeqProperties
  <2>2. Len(w) = b - a - k /\ b - (a + k + 1) + 1 = b - a - k BY <1>0, <2>1
  <2>3. ASSUME NEW i \in 1..(b - a - k) PROVE w[i] = s[a + k + i]
    <3>1. a + k + 1 + i - 1 = a + k + i BY <1>0
    <3> QED BY <2>1, <2>2, <3>1
  <2> HIDE DEF w
  <2> QED BY <2>1, <2>2, <2>3
<1> HIDE DEF u, w
<1>4. v \in Seq(T) /\ Len(v) = b - a - k /\ \A i \in 1..(b - a - k) : v[i] = u[k + i]
  <2>0. \A i \in (k + 1)..(b - a) : u[i] \in T BY <1>0, <1>2
  <2>1. /\ v \in Seq(T) /\ Len(v) = IF k + 1 <= b - a THEN (b - a) - (k + 1) + 1 ELSE 0
        /\ \A i \in 1..((b - a) - (k + 1) + 1) : v[i] = u[k + 1 + i - 1]
    BY <1>0, <2>0, SubSeqProperties
  <2>2. Len(v) = b - a - k /\ (b - a) - (k + 1) + 1 = b - a - k BY <1>0, <2>1
  <2>3. ASSUME NEW i \in 1..(b - a - k) PROVE v[i] = u[k + i]
    <3>1. k + 1 + i - 1 = k + i BY <1>0
    <3> QED BY <2>1, <2>2, <3>1
  <2> HIDE DEF v
  <2> QED BY <2>1, <2>2, <2>3
<1> HIDE DEF v
<1>5. \A i \in 1..(b - a - k) : v[i] = w[i]
  <2> TAKE i \in 1..(b - a - k)
  <2>1. k + i \in 1..(b - a) /\ a + (k + i) = a + k + i BY <1>0
  <2> QED BY <1>2, <1>3, <1>4, <2>1
<1>6. v = w BY <1>3, <1>4, <1>5, SeqEqual
<1> QED BY <1>2, <1>6 DEF u, v, w
=============================================================================
