--------------------------- MODULE DeliveryProofs ---------------------------
(***************************************************************************)
(* Proofs about Delivery: the dialplan implements Announcement, and what   *)
(* is played is what was asked, for every set of digits, numbers and       *)
(* codes.                                                                  *)
(***************************************************************************)
EXTENDS Delivery, TLAPS, WellFoundedInduction, SequenceTheorems

Bytes == Digits \union {"lead", "trail"}

-----------------------------------------------------------------------------
(* Concatenation.  FlattenSeq is a recursive function; a property of it is  *)
(* proved by considering the first place where it fails.                   *)

\* A set of naturals that is not empty has a least element.
LEMMA Least ==
  ASSUME NEW T \in SUBSET Nat, T # {}
  PROVE  \E n \in T : \A m \in T : n <= m
<1>1. PICK n \in T : \A m \in T : <<m, n>> \notin OpToRel(<, Nat)
  BY WFMin, NatLessThanWellFounded, Zenon
<1>2. \A m \in T : ~(m < n)
  BY <1>1, Zenon DEF OpToRel
<1>3. n \in Nat /\ \A m \in T : m \in Nat
  OBVIOUS
<1>4. \A m \in T : n <= m
  BY <1>2, <1>3
<1> QED BY <1>4

\* What holds of 1 and passes from each number to the next holds up to n.
LEMMA UpTo ==
  ASSUME NEW n \in Nat, NEW T,
         n >= 1 => 1 \in T,
         \A i \in 1..n : i > 1 /\ i - 1 \in T => i \in T
  PROVE  1..n \subseteq T
<1> SUFFICES ASSUME ~(1..n \subseteq T) PROVE FALSE
  OBVIOUS
<1> DEFINE B == {i \in 1..n : i \notin T}
<1>1. B \in SUBSET Nat /\ B # {}
  OBVIOUS
<1>2. PICK m \in B : \A i \in B : m <= i
  BY <1>1, Least
<1>3. m \in 1..n /\ m \notin T /\ m # 1
  BY <1>2
<1>4. m - 1 \in 1..n /\ m - 1 \notin B
  BY <1>2, <1>3
<1> QED BY <1>3, <1>4

Partial(s, f, n) ==
  f = [i \in 1..n |-> IF i = 1 THEN s[i] ELSE f[i - 1] \o s[i]]

\* What a sequence of partial concatenations has at a place.
LEMMA PartialAt ==
  ASSUME NEW s, NEW f, NEW n \in Nat, Partial(s, f, n), NEW i \in 1..n
  PROVE  f[i] = IF i = 1 THEN s[i] ELSE f[i - 1] \o s[i]
BY DEF Partial

\* The concatenations of the first i sequences exist, for every i.
LEMMA PartialExists ==
  ASSUME NEW s, NEW n \in Nat
  PROVE  \E f : Partial(s, f, n)
<1> DEFINE T == {k \in 0..n : \E f : Partial(s, f, k)}
<1>1. 0 \in T
  <2> DEFINE f == [i \in 1..0 |-> IF i = 1 THEN s[i] ELSE s]
  <2>1. f = [i \in 1..0 |-> IF i = 1 THEN s[i] ELSE f[i - 1] \o s[i]]
    OBVIOUS
  <2>2. Partial(s, f, 0)
    <3> HIDE DEF f
    <3> QED BY <2>1 DEF Partial
  <2> HIDE DEF f
  <2> QED BY <2>2
<1>2. ASSUME NEW k \in 1..n, k - 1 \in T
      PROVE  k \in T
  <2>1. PICK f : Partial(s, f, k - 1)
    BY <1>2
  <2> DEFINE last == IF k = 1 THEN s[k] ELSE f[k - 1] \o s[k]
             g == [i \in 1..k |-> IF i = k THEN last ELSE f[i]]
  <2>2. ASSUME NEW i \in 1..k
        PROVE  g[i] = IF i = 1 THEN s[i] ELSE g[i - 1] \o s[i]
    <3>1. CASE i = k
      BY <3>1
    <3>2. CASE i # k
      <4>1. i \in 1..(k - 1)
        BY <3>2
      <4>2. f[i] = IF i = 1 THEN s[i] ELSE f[i - 1] \o s[i]
        BY <2>1, <4>1 DEF Partial
      <4> QED BY <3>2, <4>1, <4>2
    <3> QED BY <3>1, <3>2
  <2>3. Partial(s, g, k)
    <3> g = [i \in 1..k |-> IF i = 1 THEN s[i] ELSE g[i - 1] \o s[i]]
      BY <2>2
    <3> QED BY DEF Partial
  <2> QED BY <2>3
<1>3. CASE n = 0
  BY <1>1, <1>3
<1>4. CASE n # 0
  <2>1. 1 \in T
    BY <1>1, <1>2, <1>4
  <2>2. \A i \in 1..n : i > 1 /\ i - 1 \in T => i \in T
    BY <1>2
  <2>3. 1..n \subseteq T
    <3> HIDE DEF T
    <3> QED BY <2>1, <2>2, UpTo
  <2> QED BY <2>3, <1>4
<1> QED BY <1>3, <1>4

\* FlattenSeq is the last of them.
LEMMA FlattenIs ==
  ASSUME NEW s, Len(s) \in Nat \ {0}
  PROVE  \E f : Partial(s, f, Len(s)) /\ FlattenSeq(s) = f[Len(s)]
<1> DEFINE F == CHOOSE f : f = [i \in 1..Len(s) |->
                                  IF i = 1 THEN s[i] ELSE f[i - 1] \o s[i]]
<1>1. \E f : f = [i \in 1..Len(s) |->
                    IF i = 1 THEN s[i] ELSE f[i - 1] \o s[i]]
  BY PartialExists DEF Partial
<1>2. F = [i \in 1..Len(s) |-> IF i = 1 THEN s[i] ELSE F[i - 1] \o s[i]]
  BY <1>1
<1>3. Partial(s, F, Len(s))
  <2> HIDE DEF F
  <2> QED BY <1>2 DEF Partial
<1>4. FlattenSeq(s) = F[Len(s)]
  BY DEF FlattenSeq
<1> HIDE DEF F
<1> QED BY <1>3, <1>4

\* The concatenation of sequences over A is one.
LEMMA FlattenType ==
  ASSUME NEW A, NEW s \in Seq(Seq(A))
  PROVE  FlattenSeq(s) \in Seq(A)
<1>1. CASE Len(s) = 0
  <2>1. s = <<>>
    BY <1>1
  <2> QED BY <2>1 DEF FlattenSeq
<1>2. CASE Len(s) # 0
  <2>1. PICK f : Partial(s, f, Len(s)) /\ FlattenSeq(s) = f[Len(s)]
    BY <1>2, FlattenIs
  <2> DEFINE T == {i \in 1..Len(s) : f[i] \in Seq(A)}
  <2>2. 1 \in T
    BY <1>2, <2>1 DEF Partial
  <2>3. ASSUME NEW i \in 1..Len(s), i > 1, i - 1 \in T
        PROVE  i \in T
    <3>1. f[i] = f[i - 1] \o s[i]
      <4>1. Len(s) \in Nat
        OBVIOUS
      <4>2. f[i] = IF i = 1 THEN s[i] ELSE f[i - 1] \o s[i]
        BY <2>1, <4>1, PartialAt, Zenon
      <4>3. i # 1
        BY <2>3, <4>1
      <4> QED BY <4>2, <4>3, Zenon
    <3>2. f[i - 1] \in Seq(A) /\ s[i] \in Seq(A)
      BY <2>3, ElementOfSeq
    <3>3. f[i] \in Seq(A)
      <4> HIDE DEF T
      <4> QED BY <3>1, <3>2
    <3> QED BY <3>3
  <2>4. 1..Len(s) \subseteq T
    <3>1. Len(s) \in Nat
      OBVIOUS
    <3> HIDE DEF T
    <3> QED BY <2>2, <2>3, <3>1, UpTo
  <2> QED BY <1>2, <2>1, <2>4
<1> QED BY <1>1, <1>2

\* The concatenation of sequences of one is the sequence of these.
LEMMA FlattenOnes ==
  ASSUME NEW A, NEW x \in Seq(A), NEW s,
         s = [i \in DOMAIN x |-> <<x[i]>>]
  PROVE  FlattenSeq(s) = x
<1>1. DOMAIN x = 1..Len(x) /\ Len(x) \in Nat
  OBVIOUS
<1>2. Len(s) = Len(x) /\ \A i \in 1..Len(s) : s[i] = <<x[i]>> /\ x[i] \in A
  <2>1. s = [i \in 1..Len(x) |-> <<x[i]>>]
    BY <1>1
  <2>2. \A i \in 1..Len(x) : x[i] \in A
    BY ElementOfSeq
  <2> QED BY <1>1, <2>1, <2>2
<1>3. CASE Len(s) = 0
  <2>1. s = <<>> /\ x = <<>>
    BY <1>1, <1>2, <1>3
  <2> QED BY <2>1 DEF FlattenSeq
<1>4. CASE Len(s) # 0
  <2>1. PICK f : Partial(s, f, Len(s)) /\ FlattenSeq(s) = f[Len(s)]
    BY <1>1, <1>2, <1>4, FlattenIs
  <2>0. \A i \in 1..Len(s) : f[i] = IF i = 1 THEN s[i] ELSE f[i - 1] \o s[i]
    <3>1. Len(s) \in Nat /\ Partial(s, f, Len(s))
      BY <1>1, <1>2, <2>1
    <3> QED BY <3>1, PartialAt
  <2> DEFINE Is(y, n) == /\ y \in Seq(A) /\ Len(y) = n
                         /\ \A k \in 1..n : y[k] = x[k]
             T == {i \in 1..Len(s) : Is(f[i], i)}
  <2>2. 1 \in T
    <3>1. 1 \in 1..Len(s)
      BY <1>1, <1>2, <1>4
    <3>2. f[1] = <<x[1]>> /\ x[1] \in A
      BY <1>1, <1>2, <2>1, <3>1, PartialAt
    <3>3. Is(<<x[1]>>, 1)
      BY <3>2
    <3>4. Is(f[1], 1)
      <4> HIDE DEF Is
      <4> QED BY <3>2, <3>3
    <3> HIDE DEF Is
    <3> QED BY <3>1, <3>4
  <2>3. ASSUME NEW i \in 1..Len(s), i > 1, i - 1 \in T
        PROVE  i \in T
    <3>1. f[i] = f[i - 1] \o <<x[i]>> /\ x[i] \in A
      <4>1. Len(s) \in Nat
        BY <1>1, <1>2
      <4>2. f[i] = IF i = 1 THEN s[i] ELSE f[i - 1] \o s[i]
        BY <2>0, Zenon
      <4>3. i # 1
        BY <2>3, <4>1
      <4> QED BY <1>2, <4>2, <4>3, Zenon
    <3>2. Is(f[i - 1], i - 1)
      BY <2>3
    <3>3. ASSUME NEW y, Is(y, i - 1) PROVE Is(y \o <<x[i]>>, i)
      BY <3>1, <3>3, <1>1, <1>2
    <3>4. Is(f[i], i)
      <4> HIDE DEF Is
      <4> QED BY <3>1, <3>2, <3>3
    <3> HIDE DEF Is
    <3> QED BY <3>4
  <2>4. 1..Len(s) \subseteq T
    <3> HIDE DEF T
    <3> QED BY <1>1, <1>2, <2>2, <2>3, UpTo
  <2>5. Is(f[Len(s)], Len(x))
    <3> HIDE DEF Is
    <3> QED BY <1>1, <1>2, <1>4, <2>4
  <2> QED BY <2>1, <2>5, SeqEqual
<1> QED BY <1>3, <1>4

-----------------------------------------------------------------------------
(* The validator *)

\* A set of naturals up to n that is not empty has a least and a greatest
\* element, and Min and Max are these.
LEMMA MinMax ==
  ASSUME NEW n \in Nat, NEW S \in SUBSET (1..n), S # {}
  PROVE  Min(S) \in S /\ Max(S) \in S
<1>1. \E x \in S : \A y \in S : x <= y
  <2>1. S \in SUBSET Nat
    OBVIOUS
  <2> QED BY <2>1, Least
<1>2. \E x \in S : \A y \in S : x >= y
  <2> DEFINE T == {k \in Nat : k <= n /\ n - k \in S}
  <2>1. T # {}
    <3>1. PICK x \in S : TRUE
      OBVIOUS
    <3>2. n - x \in Nat /\ n - (n - x) = x
      BY <3>1
    <3>3. n - x \in T
      BY <3>1, <3>2
    <3> QED BY <3>3
  <2>2. PICK k \in T : \A m \in T : k <= m
    <3>1. T \in SUBSET Nat
      OBVIOUS
    <3> HIDE DEF T
    <3> QED BY <2>1, <3>1, Least
  <2>3. n - k \in S /\ k \in Nat
    BY <2>2
  <2>4. ASSUME NEW y \in S PROVE n - k >= y
    <3>1. y \in 1..n /\ n - y \in Nat /\ n - (n - y) = y
      BY <2>4
    <3>2. n - y \in T
      BY <3>1
    <3>3. k <= n - y
      BY <2>2, <3>2
    <3> QED BY <2>3, <3>1, <3>3
  <2> QED BY <2>3, <2>4
<1>3. Min(S) \in S
  BY <1>1 DEF Min
<1>4. Max(S) \in S
  BY <1>2 DEF Max
<1> QED BY <1>3, <1>4

\* What the schema lets through is a sequence of characters, stripped or not.
LEMMA InputType ==
  ASSUME NEW s \in Inputs
  PROVE  s \in Seq(Chars) /\ Strip(s) \in Seq(Chars)
<1>1. s \in Seq(Chars)
  <2>1. PICK m \in 0..MaxInput : s \in [1..m -> Chars]
    BY DEF Inputs, BoundedSeq, SeqOf
  <2>2. m \in Nat
    BY DeliveryAssumption
  <2> QED BY <2>1, <2>2
<1>2. Strip(s) \in Seq(Chars)
  <2> DEFINE kept == {i \in DOMAIN s : s[i] # Newline}
  <2>1. CASE kept = {}
    <3>1. Strip(s) = <<>>
      BY <2>1 DEF Strip
    <3> QED BY <3>1
  <2>2. CASE kept # {}
    <3>1. Len(s) \in Nat /\ kept \in SUBSET (1..Len(s))
      BY <1>1
    <3>2. Min(kept) \in 1..Len(s) /\ Max(kept) \in 1..Len(s)
      <4> HIDE DEF kept
      <4> QED BY <2>2, <3>1, MinMax
    <3>3. Strip(s) = SubSeq(s, Min(kept), Max(kept))
      BY <2>2 DEF Strip
    <3> HIDE DEF kept
    <3>4. \A i \in Min(kept)..Max(kept) : s[i] \in Chars
      BY <1>1, <3>1, <3>2, ElementOfSeq
    <3>5. SubSeq(s, Min(kept), Max(kept)) \in Seq(Chars)
      BY <3>1, <3>2, <3>4, SubSeqProperties
    <3> QED BY <3>3, <3>5
  <2> QED BY <2>1, <2>2
<1> QED BY <1>1, <1>2

\* A number begins with its prefix, and with no other of another length.
LEMMA Begins ==
  ASSUME NEW A, NEW p \in Seq(A), NEW s \in A
  PROVE  /\ Number(p, s) \in Seq(A) /\ Len(Number(p, s)) = Len(p) + 1
         /\ \A i \in 1..Len(p) : Number(p, s)[i] = p[i]
         /\ Number(p, s)[Len(p) + 1] = s
         /\ Has(Number(p, s), p)
         /\ \A q \in Seq(A) : Has(Number(p, s), q) =>
              Len(q) = Len(p) /\ \A i \in 1..Len(q) : q[i] = p[i]
<1> DEFINE m == Number(p, s)
<1>1. /\ m \in Seq(A) /\ Len(m) = Len(p) + 1 /\ Len(p) \in Nat
      /\ \A i \in 1..Len(p) : m[i] = p[i]
      /\ m[Len(p) + 1] = s
  BY DEF Number
<1>2. ASSUME NEW q \in Seq(A)
      PROVE  Has(m, q) <=> /\ Len(q) = Len(p)
                           /\ SubSeq(q, 1, Len(q)) = SubSeq(m, 1, Len(q))
  <2> HIDE DEF m
  <2> QED BY <1>1 DEF Has, IsPrefix
<1>3. ASSUME NEW q \in Seq(A), Len(q) = Len(p)
      PROVE  /\ Len(SubSeq(q, 1, Len(q))) = Len(q)
             /\ Len(SubSeq(m, 1, Len(q))) = Len(q)
             /\ SubSeq(q, 1, Len(q)) \in Seq(A)
             /\ SubSeq(m, 1, Len(q)) \in Seq(A)
             /\ \A i \in 1..Len(q) : /\ SubSeq(q, 1, Len(q))[i] = q[i]
                                     /\ SubSeq(m, 1, Len(q))[i] = p[i]
  <2>1. /\ \A i \in 1..Len(q) : q[i] \in A
        /\ \A i \in 1..Len(q) : m[i] \in A
        /\ Len(q) \in Nat
    <3> HIDE DEF m
    <3> QED BY <1>1, <1>3
  <2> HIDE DEF m
  <2> QED BY <1>1, <1>3, <2>1, SubSeqProperties
<1>4. Has(m, p)
  <2>1. SubSeq(p, 1, Len(p)) = SubSeq(m, 1, Len(p))
    <3> HIDE DEF m
    <3> QED BY <1>3, SeqEqual
  <2> HIDE DEF m
  <2> QED BY <1>2, <2>1
<1>5. ASSUME NEW q \in Seq(A), Has(m, q)
      PROVE  Len(q) = Len(p) /\ \A i \in 1..Len(q) : q[i] = p[i]
  <2> HIDE DEF m
  <2>1. Len(q) = Len(p) /\ SubSeq(q, 1, Len(q)) = SubSeq(m, 1, Len(q))
    BY <1>2, <1>5
  <2> QED BY <1>3, <2>1
<1> QED BY <1>1, <1>4, <1>5

\* The prefixes, as sequences over any set of their characters.
LEMMA PrefixTypes ==
  ASSUME NEW A, {"0", "9", "8", "+"} \subseteq A
  PROVE  /\ <<"0", "9">> \in Seq(A) /\ Len(<<"0", "9">>) = 2
         /\ <<"0", "8">> \in Seq(A) /\ Len(<<"0", "8">>) = 2
         /\ <<"9", "8", "9">> \in Seq(A) /\ Len(<<"9", "8", "9">>) = 3
         /\ <<"+", "9", "8", "9">> \in Seq(A)
         /\ Len(<<"+", "9", "8", "9">>) = 4
         /\ <<"0", "0", "9", "8", "9">> \in Seq(A)
         /\ Len(<<"0", "0", "9", "8", "9">>) = 5
  OBVIOUS

\* The last two characters of a number replace its prefix.
LEMMA CutTo ==
  ASSUME NEW A, {"0", "9", "8", "+"} \subseteq A, NEW m \in Seq(A),
         NEW n \in 1..4, Len(m) = n + 2, m[n + 1] = "9"
  PROVE  <<"0">> \o SubSeq(m, n + 1, Len(m)) = <<"0", "9", m[n + 2]>>
<1> DEFINE t == SubSeq(m, n + 1, Len(m))
<1>1. /\ Len(t) = 2 /\ t \in Seq(A)
      /\ t[1] = "9" /\ t[2] = m[n + 2]
  <2>1. \A i \in n + 1..n + 2 : m[i] \in A
    OBVIOUS
  <2> DEFINE a == n + 1
             b == n + 2
  <2>2. a \in Int /\ b \in Int /\ a <= b /\ b - a + 1 = 2 /\ b = Len(m)
    OBVIOUS
  <2>3. \A i \in a..b : m[i] \in A
    BY <2>1
  <2> HIDE DEF a, b
  <2>4. /\ SubSeq(m, a, b) \in Seq(A)
        /\ Len(SubSeq(m, a, b)) = IF a <= b THEN b - a + 1 ELSE 0
        /\ \A i \in 1..b - a + 1 : SubSeq(m, a, b)[i] = m[a + i - 1]
    BY <2>2, <2>3, SubSeqProperties
  <2>5. /\ t \in Seq(A) /\ Len(t) = 2
        /\ \A i \in 1..2 : t[i] = m[n + 1 + i - 1]
    <3>1. t = SubSeq(m, a, b)
      BY <2>2 DEF a
    <3> HIDE DEF t
    <3>2. /\ t \in Seq(A) /\ Len(t) = 2
          /\ \A i \in 1..2 : t[i] = m[a + i - 1]
      BY <2>2, <2>4, <3>1
    <3> QED BY <3>2 DEF a
  <2>6. t[1] = m[n + 1] /\ t[2] = m[n + 2]
    <3> HIDE DEF t
    <3>1. t[1] = m[n + 1 + 1 - 1] /\ t[2] = m[n + 1 + 2 - 1]
      BY <2>5
    <3> QED BY <3>1
  <2> QED BY <2>5, <2>6
<1>2. m[n + 2] \in A
  OBVIOUS
<1> HIDE DEF t
<1> DEFINE c == <<"0">> \o t
<1>3. c \in Seq(A) /\ Len(c) = 3 /\ c[1] = "0" /\ c[2] = "9" /\ c[3] = m[n + 2]
  <2>1. <<"0">> \in Seq(A) /\ Len(<<"0">>) = 1 /\ <<"0">>[1] = "0"
    OBVIOUS
  <2>2. /\ c \in Seq(A) /\ Len(c) = 1 + Len(t)
        /\ \A i \in 1..1 + Len(t) :
             c[i] = IF i <= 1 THEN <<"0">>[i] ELSE t[i - 1]
    <3> DEFINE z == <<"0">>
    <3>1. z \in Seq(A) /\ Len(z) = 1
      BY <2>1
    <3> HIDE DEF z
    <3>2. /\ z \o t \in Seq(A) /\ Len(z \o t) = Len(z) + Len(t)
          /\ \A i \in 1..Len(z) + Len(t) :
               (z \o t)[i] = IF i <= Len(z) THEN z[i] ELSE t[i - Len(z)]
      BY <1>1, <3>1, ConcatProperties
    <3>3. /\ z \o t \in Seq(A) /\ Len(z \o t) = 1 + Len(t)
          /\ \A i \in 1..1 + Len(t) :
               (z \o t)[i] = IF i <= 1 THEN z[i] ELSE t[i - 1]
      BY <3>1, <3>2
    <3> QED BY <3>3 DEF z
  <2>3. c[1] = "0" /\ c[2] = t[1] /\ c[3] = t[2]
    <3> HIDE DEF c
    <3> QED BY <1>1, <2>1, <2>2
  <2> HIDE DEF c
  <2> QED BY <1>1, <2>2, <2>3
<1> DEFINE d == <<"0", "9", m[n + 2]>>
<1>4. /\ d \in Seq(A) /\ Len(d) = 3
      /\ d[1] = "0" /\ d[2] = "9" /\ d[3] = m[n + 2]
  BY <1>2
<1> HIDE DEF c, d
<1>5. c = d
  BY <1>3, <1>4, SeqEqual
<1> QED BY <1>5 DEF c, d, t

\* Every format that passes is brought to 09 and the subscriber.
LEMMA Normalized ==
  ASSUME NEW p \in Formats, NEW s, ValidMobile(Number(p, s))
  PROVE  Normalize(Number(p, s)) = <<"0", "9", s>>
<1> DEFINE A == {"0", "9", "8", "+", s}
           m == Number(p, s)
<1>1. s \in A /\ {"0", "9", "8", "+"} \subseteq A
  OBVIOUS
<1> HIDE DEF A
<1>2. p \in Seq(A)
  BY <1>1, PrefixTypes DEF Formats
<1>3. /\ m \in Seq(A) /\ Len(m) = Len(p) + 1
      /\ \A i \in 1..Len(p) : m[i] = p[i]
      /\ m[Len(p) + 1] = s
      /\ Has(m, p)
  BY <1>1, <1>2, Begins
<1>4. ASSUME NEW q \in Seq(A), Has(m, q)
      PROVE  Len(q) = Len(p) /\ \A i \in 1..Len(q) : q[i] = p[i]
  BY <1>1, <1>2, <1>4, Begins
<1> HIDE DEF m
<1>5. ASSUME NEW q \in Seq(A), NEW n, Len(q) = n, Len(p) # n
      PROVE  ~Has(m, q)
  BY <1>4, <1>5
<1>6. ASSUME NEW n \in 1..4, Normalize(m) = <<"0">> \o SubSeq(m, n + 1, Len(m)),
             Len(p) = n + 1, p[n + 1] = "9"
      PROVE  Normalize(m) = <<"0", "9", s>>
  <2>1. Len(m) = n + 2 /\ m[n + 1] = "9" /\ m[n + 2] = s
    BY <1>3, <1>6
  <2> QED BY <1>1, <1>3, <1>6, <2>1, CutTo
<1>7. /\ <<"0", "9">> \in Seq(A) /\ Len(<<"0", "9">>) = 2
      /\ <<"9", "8", "9">> \in Seq(A) /\ Len(<<"9", "8", "9">>) = 3
      /\ <<"+", "9", "8", "9">> \in Seq(A)
      /\ Len(<<"+", "9", "8", "9">>) = 4
      /\ <<"0", "0", "9", "8", "9">> \in Seq(A)
      /\ Len(<<"0", "0", "9", "8", "9">>) = 5
  BY <1>1, PrefixTypes, Zenon
<1>8. CASE p = <<"0", "8">>
  <2>1. ASSUME NEW q \in Formats \ {<<"0", "8">>}
        PROVE  ~Has(m, q)
    <3>0. Len(p) = 2 /\ p[2] = "8" /\ Len(p) # 3 /\ Len(p) # 4 /\ Len(p) # 5
      BY <1>8
    <3>1. CASE q = <<"0", "9">>
      <4>1. q \in Seq(A) /\ 2 \in 1..Len(q) /\ q[2] = "9"
        BY <1>1, <3>1, PrefixTypes
      <4> QED BY <1>4, <3>0, <4>1
    <3>2. CASE q = <<"+", "9", "8", "9">>
      BY <1>7, <1>5, <3>0, <3>2, Zenon
    <3>3. CASE q = <<"9", "8", "9">>
      BY <1>7, <1>5, <3>0, <3>3, Zenon
    <3>4. CASE q = <<"0", "0", "9", "8", "9">>
      BY <1>7, <1>5, <3>0, <3>4, Zenon
    <3> QED BY <3>1, <3>2, <3>3, <3>4 DEF Formats
  <2>2. ~ValidMobile(m)
    BY <2>1 DEF ValidMobile
  <2> QED BY <2>2 DEF m
<1>9. CASE p = <<"0", "9">>
  <2>1. Normalize(m) = <<"0">> \o SubSeq(m, 1 + 1, Len(m))
    BY <1>3, <1>9 DEF Normalize
  <2> QED BY <1>6, <1>9, <2>1 DEF m
<1>10. CASE p = <<"+", "9", "8", "9">>
  <2>0. Len(p) = 4 /\ p[4] = "9" /\ Len(p) # 2
    BY <1>10
  <2>1. ~Has(m, <<"0", "9">>)
    BY <1>7, <1>5, <2>0, Zenon
  <2>2. Normalize(m) = <<"0">> \o SubSeq(m, 3 + 1, Len(m))
    BY <1>3, <1>10, <2>1 DEF Normalize
  <2> QED BY <1>6, <2>0, <2>2 DEF m
<1>11. CASE p = <<"9", "8", "9">>
  <2>0. Len(p) = 3 /\ p[3] = "9" /\ Len(p) # 2 /\ Len(p) # 4 /\ Len(p) # 5
    BY <1>11
  <2>1. ~Has(m, <<"0", "9">>)
    BY <1>7, <1>5, <2>0, Zenon
  <2>2. ~Has(m, <<"+", "9", "8", "9">>)
    BY <1>7, <1>5, <2>0, Zenon
  <2>3. ~Has(m, <<"0", "0", "9", "8", "9">>)
    BY <1>7, <1>5, <2>0, Zenon
  <2>4. Normalize(m) = <<"0">> \o SubSeq(m, 2 + 1, Len(m))
    BY <2>1, <2>2, <2>3 DEF Normalize
  <2> QED BY <1>6, <2>0, <2>4 DEF m
<1>12. CASE p = <<"0", "0", "9", "8", "9">>
  <2>0. Len(p) = 5 /\ p[5] = "9" /\ Len(p) # 2 /\ Len(p) # 4
    BY <1>12
  <2>1. ~Has(m, <<"0", "9">>)
    BY <1>7, <1>5, <2>0, Zenon
  <2>2. ~Has(m, <<"+", "9", "8", "9">>)
    BY <1>7, <1>5, <2>0, Zenon
  <2>3. Normalize(m) = <<"0">> \o SubSeq(m, 4 + 1, Len(m))
    BY <1>3, <1>12, <2>1, <2>2 DEF Normalize
  <2> QED BY <1>6, <2>0, <2>3 DEF m
<1> QED BY <1>8, <1>9, <1>10, <1>11, <1>12 DEF Formats

\* A part between commas has none.
LEMMA PartType ==
  ASSUME NEW A, NEW s \in Seq(A), NEW part \in Parts(s)
  PROVE  part \in Seq(A \ {Comma})
<1>1. DOMAIN s = 1..Len(s) /\ Len(s) \in Nat
  OBVIOUS
<1> DEFINE cuts == {0, Len(s) + 1} \union {i \in DOMAIN s : s[i] = Comma}
<1>2. PICK d \in cuts \X cuts : /\ d[1] < d[2]
                                /\ \A i \in cuts : i <= d[1] \/ d[2] <= i
                                /\ part = SubSeq(s, d[1] + 1, d[2] - 1)
  BY DEF Parts
<1>3. d[1] \in 0..Len(s) + 1 /\ d[2] \in 0..Len(s) + 1
  BY <1>1
<1> DEFINE a == d[1] + 1
           b == d[2] - 1
<1>4. a \in Int /\ b \in Int /\ \A i \in a..b : i \in 1..Len(s)
  BY <1>2, <1>3, <1>1
<1>5. \A i \in a..b : s[i] \in A \ {Comma}
  <2>1. ASSUME NEW i \in a..b PROVE s[i] \in A \ {Comma}
    <3>1. i \in 1..Len(s) /\ d[1] < i /\ i < d[2] /\ i \in Int
      BY <1>3, <1>4, <2>1
    <3>2. i \notin cuts
      <4>1. cuts \subseteq Int /\ d[1] \in Int /\ d[2] \in Int
        BY <1>1, <1>3
      <4> HIDE DEF cuts
      <4> QED BY <1>2, <3>1, <4>1
    <3> QED BY <1>1, <3>1, <3>2, ElementOfSeq
  <2> QED BY <2>1
<1> HIDE DEF a, b
<1>6. SubSeq(s, a, b) \in Seq(A \ {Comma})
  BY <1>4, <1>5, SubSeqProperties
<1> QED BY <1>2, <1>6 DEF a, b

\* What is sent is bytes, and the code itself if there is a recording of each
\* of its characters.
LEMMA EncodedType ==
  ASSUME NEW code \in Seq(Chars), NEW part \in Parts(Sanitize(code))
  PROVE  Encode(part) \in Seq(Bytes)
<1>1. Sanitize(code) \in Seq(Chars \ {Newline})
  <2> DEFINE s == [i \in DOMAIN code |->
                     IF code[i] = Newline THEN <<>> ELSE <<code[i]>>]
  <2>1. s \in Seq(Seq(Chars \ {Newline}))
    <3>1. DOMAIN code = 1..Len(code) /\ Len(code) \in Nat
      OBVIOUS
    <3>2. \A i \in 1..Len(code) : code[i] \in Chars
      BY ElementOfSeq
    <3>3. ASSUME NEW i \in 1..Len(code)
          PROVE  s[i] \in Seq(Chars \ {Newline})
      <4>1. CASE code[i] = Newline
        BY <3>1, <4>1
      <4>2. CASE code[i] # Newline
        <5>1. s[i] = <<code[i]>> /\ code[i] \in Chars \ {Newline}
          BY <3>1, <3>2, <4>2
        <5>2. <<code[i]>> \in Seq(Chars \ {Newline})
          BY <5>1
        <5> HIDE DEF s
        <5> QED BY <5>1, <5>2, Zenon
      <4> QED BY <4>1, <4>2
    <3> QED BY <3>1, <3>3
  <2>2. Sanitize(code) = FlattenSeq(s)
    BY DEF Sanitize
  <2> HIDE DEF s
  <2> QED BY <2>1, <2>2, FlattenType
<1>2. ASSUME NEW x \in Seq(Chars \ {Newline, Comma})
      PROVE  Encode(x) \in Seq(Bytes)
  <2> DEFINE s == [i \in DOMAIN x |->
                     IF x[i] \in Wide THEN <<"lead", "trail">> ELSE <<x[i]>>]
  <2>1. s \in Seq(Seq(Bytes))
    <3>1. DOMAIN x = 1..Len(x) /\ Len(x) \in Nat
      OBVIOUS
    <3>2. \A i \in 1..Len(x) : x[i] \in Digits \union Wide
      BY ElementOfSeq DEF Chars
    <3>3. ASSUME NEW i \in 1..Len(x)
          PROVE  s[i] \in Seq(Bytes)
      <4>1. CASE x[i] \in Wide
        <5>1. /\ s[i] = <<"lead", "trail">>
              /\ "lead" \in Bytes /\ "trail" \in Bytes
          BY <3>1, <4>1 DEF Bytes
        <5>2. <<"lead", "trail">> \in Seq(Bytes)
          BY <5>1
        <5> HIDE DEF s
        <5> QED BY <5>1, <5>2, Zenon
      <4>2. CASE x[i] \notin Wide
        <5>1. s[i] = <<x[i]>> /\ x[i] \in Bytes
          BY <3>1, <3>2, <4>2 DEF Bytes
        <5>2. <<x[i]>> \in Seq(Bytes)
          BY <5>1
        <5> HIDE DEF s
        <5> QED BY <5>1, <5>2, Zenon
      <4> QED BY <4>1, <4>2
    <3> QED BY <3>1, <3>3
  <2>2. Encode(x) = FlattenSeq(s)
    BY DEF Encode
  <2> HIDE DEF s
  <2> QED BY <2>1, <2>2, FlattenType
<1>3. part \in Seq(Chars \ {Newline, Comma})
  <2> DEFINE B == Chars \ {Newline}
             t == Sanitize(code)
  <2> HIDE DEF B, t
  <2>1. part \in Seq(B \ {Comma})
    BY <1>1, PartType DEF B, t
  <2> QED BY <2>1 DEF B
<1> QED BY <1>2, <1>3

\* What has no comma stays whole.
LEMMA Whole ==
  ASSUME NEW A, NEW s \in Seq(A), NEW part \in Parts(s),
         Comma \notin Range(s)
  PROVE  part = s
<1>1. DOMAIN s = 1..Len(s) /\ Len(s) \in Nat
  OBVIOUS
<1>2. \A i \in DOMAIN s : s[i] # Comma
  BY DEF Range
<1> DEFINE cuts == {0, Len(s) + 1} \union {i \in DOMAIN s : s[i] = Comma}
<1>3. PICK d \in cuts \X cuts :
        d[1] < d[2] /\ part = SubSeq(s, d[1] + 1, d[2] - 1)
  BY DEF Parts
<1>4. cuts = {0, Len(s) + 1}
  BY <1>2
<1>5. d[1] = 0 /\ d[2] = Len(s) + 1
  BY <1>1, <1>3, <1>4
<1>6. part = SubSeq(s, 1, Len(s))
  BY <1>1, <1>3, <1>5
<1>7. /\ SubSeq(s, 1, Len(s)) \in Seq(A) /\ Len(SubSeq(s, 1, Len(s))) = Len(s)
      /\ \A i \in 1..Len(s) : SubSeq(s, 1, Len(s))[i] = s[i]
  <2>1. \A i \in 1..Len(s) : s[i] \in A
    BY <1>1, ElementOfSeq
  <2> QED BY <1>1, <2>1, SubSeqProperties
<1> QED BY <1>6, <1>7, SeqEqual

\* A code of digits that are not wide is announced as it was asked.
LEMMA DigitsUnchanged ==
  ASSUME NEW code \in Seq(Digits)
  PROVE  /\ Comma \notin Range(Sanitize(code))
         /\ \A part \in Parts(Sanitize(code)) : Encode(part) = code
<1>1. DOMAIN code = 1..Len(code) /\ Len(code) \in Nat
  OBVIOUS
<1>2. \A i \in DOMAIN code : /\ code[i] # Newline /\ code[i] \notin Wide
                             /\ code[i] # Comma
  BY <1>1, ElementOfSeq, DeliveryAssumption
<1>3. Sanitize(code) = code
  <2> DEFINE s == [i \in DOMAIN code |->
                     IF code[i] = Newline THEN <<>> ELSE <<code[i]>>]
  <2>1. s = [i \in DOMAIN code |-> <<code[i]>>]
    BY <1>2
  <2>2. Sanitize(code) = FlattenSeq(s)
    BY DEF Sanitize
  <2> HIDE DEF s
  <2> QED BY <2>1, <2>2, FlattenOnes
<1>4. Encode(code) = code
  <2> DEFINE s == [i \in DOMAIN code |-> IF code[i] \in Wide
                     THEN <<"lead", "trail">> ELSE <<code[i]>>]
  <2>1. s = [i \in DOMAIN code |-> <<code[i]>>]
    BY <1>2
  <2>2. Encode(code) = FlattenSeq(s)
    BY DEF Encode
  <2> HIDE DEF s
  <2> QED BY <2>1, <2>2, FlattenOnes
<1>5. Comma \notin Range(code)
  BY <1>2 DEF Range
<1>6. \A part \in Parts(code) : part = code
  BY <1>5, Whole
<1> QED BY <1>3, <1>4, <1>5, <1>6

\* The clamp of originate changes no repeat that was accepted.
LEMMA ClampNothing ==
  ASSUME NEW n \in 1..3
  PROVE  Clamp(n) = n
<1>1. Min({3, n}) = n
  <2>1. n \in {3, n} /\ \A y \in {3, n} : n <= y
    OBVIOUS
  <2>2. \A x \in {3, n} : (\A y \in {3, n} : x <= y) => x = n
    OBVIOUS
  <2> QED BY <2>1, <2>2 DEF Min
<1>2. Max({1, n}) = n
  <2>1. n \in {1, n} /\ \A y \in {1, n} : n >= y
    OBVIOUS
  <2>2. \A x \in {1, n} : (\A y \in {1, n} : x >= y) => x = n
    OBVIOUS
  <2> QED BY <2>1, <2>2 DEF Max
<1> QED BY <1>1, <1>2 DEF Clamp

-----------------------------------------------------------------------------
(* The announcement *)

\* The line after the c-th starts where that ends.
LEMMA NextLine ==
  ASSUME NEW l \in Nat, NEW c \in Nat
  PROVE  c * l \in Nat /\ (c + 1) * l = c * l + l
OBVIOUS

\* A line that is not the last ends before the last one does.
LEMMA Before ==
  ASSUME NEW l \in Nat, NEW n \in Nat, NEW c \in Nat, c < n
  PROVE  c * l \in Nat /\ c * l + l <= n * l /\ c * l < n * l + 1
<1> DEFINE d == n - c - 1
<1>1. d \in Nat /\ n = (c + 1) + d
  OBVIOUS
<1> HIDE DEF d
<1>2. c * l \in Nat /\ d * l \in Nat /\ (c + 1) * l = c * l + l
  BY <1>1, NextLine
<1>3. n * l = (c + 1) * l + d * l
  BY <1>1
<1> DEFINE x == c * l
           y == d * l
           z == n * l
<1>4. x \in Nat /\ y \in Nat /\ z = x + l + y
  BY <1>2, <1>3
<1> HIDE DEF x, y, z
<1>5. x + l <= z /\ x < z + 1
  BY <1>4
<1> QED BY <1>2, <1>5 DEF x, z

\* A place in the announcement is a line and a place in that line.
LEMMA Remainder ==
  ASSUME NEW l \in Nat \ {0}, NEW c \in Nat, NEW k \in 0..(l - 1)
  PROVE  (c * l + k) % l = k
<1> DEFINE a == c * l
           q == (a + k) \div l
           r == (a + k) % l
           p == q * l
<1>1. a \in Nat
  BY NextLine
<1>2. q \in Int /\ r \in 0..l - 1 /\ a + k = p + r
  BY <1>1
<1> HIDE DEF r
<1>3. q \in Nat
  BY <1>1
<1> HIDE DEF q
<1>4. CASE q < c
  <2>1. p + l <= a
    BY <1>3, <1>4, Before
  <2> HIDE DEF p, a
  <2> QED BY <1>1, <1>2, <2>1
<1>5. CASE c < q
  <2>1. a + l <= p
    BY <1>3, <1>5, Before
  <2> HIDE DEF p, a
  <2> QED BY <1>1, <1>2, <2>1
<1>6. CASE q = c
  <2>1. p = a
    BY <1>6
  <2> HIDE DEF p, a
  <2>2. r = k
    BY <1>1, <1>2, <2>1
  <2> QED BY <2>2 DEF r, a
<1> QED BY <1>3, <1>4, <1>5, <1>6

\* The words of an announcement, by line and place.
LEMMA ScriptIs ==
  ASSUME NEW S, NEW code \in Seq(S), NEW n \in Nat
  PROVE  LET s == Promise!Script(code, n)
             l == Len(code) + 1
         IN /\ Len(s) = n * l + 1 /\ Len(s) \in Nat
            /\ DOMAIN s = 1..Len(s)
            /\ \A c \in 0..n - 1 : s[c * l + 1] = "intro"
            /\ \A c \in 0..n - 1 : \A k \in 1..Len(code) :
                 s[c * l + k + 1] = Word(code[k])
            /\ s[n * l + 1] = "goodbye"
<1> DEFINE s == Promise!Script(code, n)
           l == Len(code) + 1
<1>1. l \in Nat \ {0} /\ Len(code) = l - 1
  OBVIOUS
<1>2. n * l \in Nat
  BY <1>1, NextLine
<1>3. s = [i \in 1..n * l + 1 |->
             IF i = n * l + 1 THEN "goodbye"
             ELSE IF (i - 1) % l = 0 THEN "intro"
             ELSE Word(code[(i - 1) % l])]
  BY DEF Promise!Script, Promise!Goodbye, Promise!Intro, Promise!Word,
         Promise!Gap, Word
<1> HIDE DEF s, l
<1>4. Len(s) = n * l + 1 /\ Len(s) \in Nat /\ DOMAIN s = 1..Len(s)
  BY <1>2, <1>3
<1>5. s[n * l + 1] = "goodbye"
  BY <1>2, <1>3
<1>6. ASSUME NEW i \in 1..n * l + 1, i # n * l + 1
      PROVE  s[i] = IF (i - 1) % l = 0 THEN "intro" ELSE Word(code[(i - 1) % l])
  BY <1>3, <1>6
<1>7. ASSUME NEW c \in 0..n - 1, NEW k \in 0..l - 1, NEW i, i = c * l + k + 1
      PROVE  s[i] = IF k = 0 THEN "intro" ELSE Word(code[k])
  <2>1. c \in Nat /\ c < n /\ c * l \in Nat
    BY <1>1, NextLine
  <2>2. (c * l + k) % l = k
    BY <1>1, <2>1, Remainder
  <2>3. c * l + l <= n * l
    BY <1>1, <2>1, Before
  <2>4. i - 1 = c * l + k /\ i \in 1..n * l + 1 /\ i # n * l + 1
    <3> DEFINE x == c * l
               y == n * l
    <3>1. x \in Nat /\ y \in Nat /\ x + l <= y /\ i = x + k + 1
      BY <1>2, <1>7, <2>1, <2>3
    <3> HIDE DEF x, y
    <3>2. i - 1 = x + k /\ i \in 1..y + 1 /\ i # y + 1
      BY <1>1, <3>1
    <3> QED BY <3>2 DEF x, y
  <2>5. (i - 1) % l = k
    BY <2>2, <2>4
  <2> QED BY <1>6, <2>4, <2>5
<1>8. ASSUME NEW c \in 0..n - 1
      PROVE  s[c * l + 1] = "intro"
  <2>1. 0 \in 0..l - 1 /\ c * l + 1 = c * l + 0 + 1
    BY <1>1
  <2>2. s[c * l + 1] = IF 0 = 0 THEN "intro" ELSE Word(code[0])
    BY <1>7, <2>1, Zenon
  <2> QED BY <2>2
<1>9. ASSUME NEW c \in 0..n - 1, NEW k \in 1..Len(code)
      PROVE  s[c * l + k + 1] = Word(code[k])
  <2>1. k \in 0..l - 1 /\ k # 0
    BY <1>1
  <2>2. s[c * l + k + 1] = IF k = 0 THEN "intro" ELSE Word(code[k])
    BY <1>7, <2>1, Zenon
  <2> QED BY <2>1, <2>2, Zenon
<1> QED BY <1>4, <1>5, <1>8, <1>9 DEF s, l

-----------------------------------------------------------------------------
(* The inductive invariant *)

Words == Digits \union {"gap", "intro", "goodbye"}

\* What has been asked is in the record, and is what is dialled.
Asked ==
  /\ asked \in [sub : Subscribers, code : Seq(Chars), times : 1..3]
  /\ record = [mobile |-> <<"0", "9", asked.sub>>, code |-> asked.code]
  /\ job = [mobile |-> <<"0", "9", asked.sub>>, code |-> asked.code,
            times |-> asked.times]

\* The channel has what was asked: the sanitized code, cut at its commas if it
\* has any and encoded, and the repeat, unless something stands behind a comma.
Called ==
  /\ chan \in [number : {<<"0", "9", asked.sub>>}, code : Seq(Bytes),
               times : Nat]
  /\ \E part \in Parts(Sanitize(asked.code)) : chan.code = Encode(part)
  /\ Comma \notin Range(Sanitize(asked.code)) => chan.times = asked.times
  /\ asked.code \in Seq(Digits) =>
       chan.code = asked.code /\ chan.times = asked.times

\* How many words have been heard when the dialplan is at its next statement,
\* and how many user events sent.
Line == Len(chan.code) + 1
Said ==
  CASE at = "while"  -> counter * Line
    [] at = "code"   -> counter * Line + 1
    [] at = "digits" -> counter * Line + 1 + j
    [] at \in {"complete", "hangup"} -> chan.times * Line + 1
    [] OTHER -> 0
ToldBy == CASE at = "playback" -> 1
            [] at \in {"while", "code", "digits", "complete"} -> 2
            [] at = "hangup" -> 3
            [] OTHER -> 0

Text == Promise!Script(chan.code, chan.times)

\* The dialplan is where the words and the events say it is.
InOrder ==
  /\ counter \in 0..chan.times /\ j \in 0..Len(chan.code)
  /\ at \in {"code", "digits"} => counter < chan.times
  /\ told = ToldBy
  /\ heard \in Seq(Words) /\ Len(heard) = Said
  /\ \A i \in 1..Len(heard) : heard[i] = Text[i]

Silent == /\ chan = NoChannel /\ heard = <<>> /\ told = 0
          /\ counter = 0 /\ j = 0

DeliveryInv ==
  /\ at \in {"new", "refused", "queued", "failed", "over"} \union Ringing
  /\ at \notin {"new", "refused"} => Asked
  /\ at \in Ringing => Called /\ InOrder
  /\ at \notin Ringing => Silent

\* A step of Announcement, or none.
Announced == Promise!Next \/ UNCHANGED Promise!vars

\* Before the request nothing is asked, called or heard.
LEMMA InitDelivery == Init => DeliveryInv /\ Promise!Init
<1> SUFFICES ASSUME Init PROVE DeliveryInv /\ Promise!Init
  OBVIOUS
<1>1. DeliveryInv
  BY DEF Init, DeliveryInv, Silent, Ringing, InDialplan
<1>2. Promise!Init
  BY DEF Init, Promise!Init, NoChannel, Ringing, InDialplan
<1> QED BY <1>1, <1>2

\* The callee hears nothing while the call is not placed.
LEMMA Unheard ==
  ASSUME at \notin Ringing, at' \notin Ringing, UNCHANGED <<chan, output>>
  PROVE  Announced
BY DEF Announced, Promise!vars, output

\* The request, accepted or refused (send_otp_call).
LEMMA SubmitDelivers ==
  ASSUME DeliveryInv, NEW p \in Formats, NEW s \in Subscribers,
         NEW code \in Inputs, NEW n \in 0..4, Submit(p, s, code, n)
  PROVE  DeliveryInv' /\ Announced
<1> DEFINE ok == /\ ValidMobile(Number(p, s)) /\ ValidCode(Strip(code))
                 /\ n \in 1..3
<1>1. /\ at \notin Ringing /\ Silent /\ UNCHANGED <<chan, loop, output>>
      /\ at' \in {"queued", "refused"}
  BY DEF Submit, DeliveryInv, Ringing, InDialplan
<1>2. at' \notin Ringing /\ Silent'
  BY <1>1 DEF Ringing, InDialplan, Silent, loop, output
<1>3. CASE ok
  <2>1. /\ asked' = [sub |-> s, code |-> Strip(code), times |-> n]
        /\ record' = [mobile |-> <<"0", "9", s>>, code |-> Strip(code)]
        /\ job' = [mobile |-> <<"0", "9", s>>, code |-> Strip(code),
                   times |-> n]
    BY <1>3, Normalized DEF Submit
  <2>2. Asked'
    BY <1>3, <2>1, InputType DEF Asked
  <2> QED BY <1>1, <1>2, <2>2, Unheard DEF DeliveryInv
<1>4. CASE ~ok
  <2>1. at' = "refused"
    BY <1>4 DEF Submit
  <2> QED BY <1>1, <1>2, <2>1, Unheard DEF DeliveryInv
<1> QED BY <1>3, <1>4

\* The retry (retry_call).
LEMMA RetryDelivers ==
  ASSUME DeliveryInv, NEW code \in Inputs, NEW n \in 0..3, Retry(code, n)
  PROVE  DeliveryInv' /\ Announced
<1>1. /\ at \notin Ringing /\ Silent /\ UNCHANGED <<chan, loop, output>>
      /\ at' = "queued" /\ Asked
  BY DEF Retry, DeliveryInv, Ringing, InDialplan
<1>2. at' \notin Ringing /\ Silent'
  BY <1>1 DEF Ringing, InDialplan, Silent, loop, output
<1> DEFINE new == IF code = <<>> THEN asked.code ELSE code
           times == IF n = 0 THEN 2 ELSE n
<1>3. new \in Seq(Chars) /\ times \in 1..3
  BY <1>1, InputType DEF Asked
<1>4. /\ asked' = [asked EXCEPT !.code = new, !.times = times]
      /\ record' = [mobile |-> <<"0", "9", asked.sub>>, code |-> new]
      /\ job' = [mobile |-> <<"0", "9", asked.sub>>, code |-> new,
                 times |-> times]
  BY <1>1 DEF Retry, Asked
<1> HIDE DEF new, times
<1>6. /\ asked' \in [sub : Subscribers, code : Seq(Chars), times : 1..3]
      /\ asked'.sub = asked.sub /\ asked'.code = new /\ asked'.times = times
  BY <1>1, <1>3, <1>4 DEF Asked
<1>5. Asked'
  BY <1>4, <1>6 DEF Asked
<1> QED BY <1>1, <1>2, <1>5, Unheard DEF DeliveryInv

\* The variables of the channel are set (originate).
LEMMA OriginateDelivers ==
  ASSUME DeliveryInv, Originate
  PROVE  DeliveryInv' /\ Announced
<1>1. /\ at \notin Ringing /\ Silent /\ Asked /\ at' = "ringing"
      /\ UNCHANGED <<asked, record, job, loop, output>>
  BY DEF Originate, DeliveryInv, Ringing, InDialplan
<1> DEFINE code == Sanitize(asked.code)
<1>8. /\ asked.code \in Seq(Chars) /\ asked.times \in 1..3
      /\ job.mobile = <<"0", "9", asked.sub>> /\ job.code = asked.code
      /\ Clamp(job.times) = asked.times
  BY <1>1, ClampNothing DEF Asked
<1>2. PICK part \in Parts(code), times \in Nat :
        /\ chan' = [number |-> <<"0", "9", asked.sub>>, code |-> Encode(part),
                    times |-> times]
        /\ Comma \notin Range(code) => times = asked.times
  <2> DEFINE others == IF Comma \in Range(code) THEN Overrides ELSE {}
  <2>1. Sanitize(job.code) = code
    BY <1>8
  <2>2. PICK part \in Parts(code), times \in {Clamp(job.times)} \union others :
          chan' = [number |-> job.mobile, code |-> Encode(part),
                   times |-> times]
    <3> HIDE DEF code
    <3> QED BY <2>1 DEF Originate
  <2>3. times \in Nat /\ (Comma \notin Range(code) => times = asked.times)
    <3>1. Overrides \subseteq Nat
      BY DeliveryAssumption
    <3>2. times = asked.times \/ (Comma \in Range(code) /\ times \in Overrides)
      <4> HIDE DEF code
      <4>1. times = Clamp(job.times) \/ times \in others
        BY <2>2, Zenon
      <4> QED BY <1>8, <4>1
    <3>3. times \in Nat
      <4>1. asked.times \in Nat
        BY <1>8
      <4> QED BY ONLY <3>1, <3>2, <4>1
    <3>4. Comma \notin Range(code) => times = asked.times
      BY <3>2, Zenon
    <3> QED BY <3>3, <3>4, Zenon
  <2> HIDE DEF code
  <2> QED BY <1>8, <2>2, <2>3
<1> HIDE DEF code
<1>3. Encode(part) \in Seq(Bytes)
  BY <1>8, EncodedType DEF code
<1>9. ASSUME asked.code \in Seq(Digits)
      PROVE  Encode(part) = asked.code /\ times = asked.times
  BY <1>2, <1>9, DigitsUnchanged DEF code
<1>4. Asked' /\ Called'
  <2>1. Asked'
    BY <1>1 DEF Asked
  <2>2. chan'.code = Encode(part) /\ chan'.times = times
    BY <1>2
  <2>3. asked' = asked
    BY <1>1
  <2>4. chan' \in [number : {<<"0", "9", asked'.sub>>}, code : Seq(Bytes),
                   times : Nat]
    BY <1>2, <1>3, <2>3
  <2>5. \E p \in Parts(Sanitize(asked'.code)) : chan'.code = Encode(p)
    BY <1>2, <2>2, <2>3 DEF code
  <2>6. Comma \notin Range(Sanitize(asked'.code)) => chan'.times = asked'.times
    BY <1>2, <2>2, <2>3 DEF code
  <2>7. asked'.code \in Seq(Digits) =>
          chan'.code = asked'.code /\ chan'.times = asked'.times
    BY <1>9, <2>2, <2>3
  <2> QED BY <2>1, <2>4, <2>5, <2>6, <2>7 DEF Called
<1>5. at' \in Ringing
  BY <1>1 DEF Ringing
<1>6. InOrder'
  <2>1. counter' = 0 /\ j' = 0 /\ told' = 0 /\ heard' = <<>>
    BY <1>1 DEF Silent, loop, output
  <2>2. chan'.times \in Nat /\ Len(chan'.code) \in Nat
    BY <1>2, <1>3
  <2> QED BY <1>1, <2>1, <2>2 DEF InOrder, Said, ToldBy
<1>7. Promise!Enter
  BY <1>1, <1>2, <1>3, <1>5 DEF Promise!Enter, Silent, Asked, Bytes, output
<1> QED BY <1>1, <1>4, <1>5, <1>6, <1>7 DEF DeliveryInv, Announced, Promise!Next

\* The channel is gone, and Announcement closes.
LEMMA GoneDelivers ==
  ASSUME DeliveryInv, at \in Ringing, at' \in {"failed", "over"}, Gone,
         UNCHANGED <<asked, record, job>>
  PROVE  DeliveryInv' /\ Announced
<1>1. at' \notin Ringing /\ at \notin {"new", "refused"} /\ Asked
  BY DEF Ringing, InDialplan, DeliveryInv
<1>2. Asked'
  BY <1>1 DEF Asked
<1>3. Silent'
  BY DEF Gone, Silent, NoChannel
<1>4. Promise!Leave
  BY <1>1 DEF Promise!Leave, Gone, NoChannel
<1> QED BY <1>1, <1>2, <1>3, <1>4 DEF DeliveryInv, Announced, Promise!Next

\* While the dialplan goes on, what it has to say stays the same.
LEMMA PlayGoesOn ==
  ASSUME DeliveryInv, NEW from \in Ringing, NEW to \in Ringing, Goes(from, to)
  PROVE  /\ at = from /\ at' = to /\ InOrder /\ Called /\ Asked
         /\ chan' = chan /\ Line' = Line /\ Text' = Text
         /\ chan.times \in Nat /\ chan.code \in Seq(Bytes)
         /\ Len(chan.code) \in Nat /\ Line \in Nat \ {0}
         /\ Line = Len(chan.code) + 1
         /\ (InOrder' => DeliveryInv')
<1>1. /\ at = from /\ at' = to /\ chan' = chan
      /\ UNCHANGED <<asked, record, job>>
  BY DEF Goes
<1>2. InOrder /\ Called /\ Asked
  BY <1>1 DEF DeliveryInv, Ringing, InDialplan
<1>3. Line' = Line /\ Text' = Text
  BY <1>1 DEF Line, Text
<1>4. chan.times \in Nat /\ chan.code \in Seq(Bytes)
  BY <1>2 DEF Called
<1>5. Len(chan.code) \in Nat /\ Line \in Nat \ {0} /\ Line = Len(chan.code) + 1
  BY <1>4 DEF Line
<1>6. Asked' /\ Called'
  BY <1>1, <1>2 DEF Asked, Called
<1>7. InOrder' => DeliveryInv'
  BY <1>1, <1>6 DEF DeliveryInv
<1> QED BY <1>1, <1>2, <1>3, <1>4, <1>5, <1>7

\* The announcement of the call, by line and place.
LEMMA TextIs ==
  ASSUME chan.times \in Nat, chan.code \in Seq(Bytes)
  PROVE  /\ Len(Text) = chan.times * Line + 1 /\ Len(Text) \in Nat
         /\ DOMAIN Text = 1..Len(Text)
         /\ \A c \in 0..chan.times - 1 : Text[c * Line + 1] = "intro"
         /\ \A c \in 0..chan.times - 1 : \A k \in 1..Len(chan.code) :
              Text[c * Line + k + 1] = Word(chan.code[k])
         /\ Text[chan.times * Line + 1] = "goodbye"
BY ScriptIs DEF Text, Line

\* A step between two words is none of Announcement's.
LEMMA Silence ==
  ASSUME at \in Ringing, at' \in Ringing, UNCHANGED <<chan, output>>
  PROVE  Announced
BY DEF Announced, Promise!vars, output

\* The callee picks up: nothing is said yet.
LEMMA PickUpDelivers ==
  ASSUME DeliveryInv, PickUp
  PROVE  DeliveryInv' /\ Announced
<1>1. "ringing" \in Ringing /\ "start" \in Ringing
  BY DEF Ringing, InDialplan
<1>2. Goes("ringing", "start") /\ UNCHANGED <<loop, output>>
  BY DEF PickUp
<1>3. InOrder'
  BY <1>1, <1>2, PlayGoesOn DEF InOrder, Said, ToldBy, loop, output
<1> QED BY <1>1, <1>2, <1>3, PlayGoesOn, Silence

\* OTPCallStart.
LEMMA CallStartDelivers ==
  ASSUME DeliveryInv, CallStart
  PROVE  DeliveryInv' /\ Announced
<1>1. "start" \in Ringing /\ "playback" \in Ringing
  BY DEF Ringing, InDialplan
<1>2. Goes("start", "playback") /\ Tell /\ UNCHANGED loop
  BY DEF CallStart
<1>3. told = 0
  BY <1>1, <1>2, PlayGoesOn DEF InOrder, ToldBy
<1>4. InOrder'
  BY <1>1, <1>2, <1>3, PlayGoesOn DEF InOrder, Said, ToldBy, Tell, loop
<1>5. Promise!Tell
  BY <1>1, <1>2, <1>3, PlayGoesOn DEF Promise!Tell, Tell
<1> QED BY <1>1, <1>2, <1>4, <1>5, PlayGoesOn DEF Announced, Promise!Next

\* OTPPlaybackStart: the loops start.
LEMMA PlaybackStartDelivers ==
  ASSUME DeliveryInv, PlaybackStart
  PROVE  DeliveryInv' /\ Announced
<1>1. "playback" \in Ringing /\ "while" \in Ringing
  BY DEF Ringing, InDialplan
<1>2. Goes("playback", "while") /\ Tell /\ counter' = 0 /\ j' = j
  BY DEF PlaybackStart
<1>3. told = 1 /\ heard' = heard /\ Len(heard) = 0
  BY <1>1, <1>2, PlayGoesOn DEF InOrder, ToldBy, Said, Tell
<1>4. InOrder'
  <2>1. counter' * Line' = 0
    BY <1>1, <1>2, PlayGoesOn
  <2> QED BY <1>1, <1>2, <1>3, <2>1, PlayGoesOn DEF InOrder, Said, ToldBy, Tell
<1>5. Promise!Tell
  BY <1>1, <1>2, <1>3, PlayGoesOn DEF Promise!Tell, Tell
<1> QED BY <1>1, <1>2, <1>4, <1>5, PlayGoesOn DEF Announced, Promise!Next

\* The next word of the announcement is heard.
LEMMA NextWord ==
  ASSUME DeliveryInv, NEW from \in Ringing, NEW to \in Ringing, Goes(from, to),
         NEW w \in Words, Hear(w), told = 2,
         Len(heard) < Len(Text), Text[Len(heard) + 1] = w, Len(Text) \in Nat
  PROVE  /\ Announced
         /\ heard' \in Seq(Words) /\ Len(heard') = Len(heard) + 1
         /\ \A i \in 1..Len(heard') : heard'[i] = Text'[i]
<1>1. /\ heard \in Seq(Words) /\ \A i \in 1..Len(heard) : heard[i] = Text[i]
      /\ Text' = Text /\ chan' = chan /\ at \in Ringing /\ at' \in Ringing
  BY PlayGoesOn DEF InOrder
<1>2. heard' = Append(heard, w) /\ told' = told
  BY DEF Hear
<1>3. Promise!Say
  BY <1>1, <1>2 DEF Promise!Say, Text
<1>4. /\ heard' \in Seq(Words) /\ Len(heard') = Len(heard) + 1
      /\ \A i \in 1..Len(heard) + 1 :
           heard'[i] = IF i = Len(heard) + 1 THEN w ELSE heard[i]
  BY <1>1, <1>2
<1>5. \A i \in 1..Len(heard') : heard'[i] = Text'[i]
  BY <1>1, <1>4
<1> QED BY <1>3, <1>4, <1>5 DEF Announced, Promise!Next

\* The introduction of a line.
LEMMA IntroduceDelivers ==
  ASSUME DeliveryInv, Introduce
  PROVE  DeliveryInv' /\ Announced
<1>1. "while" \in Ringing /\ "code" \in Ringing /\ "intro" \in Words
  BY DEF Ringing, InDialplan, Words
<1>2. /\ Goes("while", "code") /\ Hear("intro") /\ UNCHANGED loop
      /\ counter < chan.times
  BY DEF Introduce
<1>3. /\ told = 2 /\ Len(heard) = counter * Line /\ counter \in 0..chan.times
      /\ chan.times \in Nat /\ Line \in Nat \ {0} /\ chan.code \in Seq(Bytes)
  BY <1>1, <1>2, PlayGoesOn DEF InOrder, ToldBy, Said
<1>4. /\ Len(Text) = chan.times * Line + 1 /\ Len(Text) \in Nat
      /\ Text[counter * Line + 1] = "intro"
  <2>1. counter \in 0..chan.times - 1
    BY <1>2, <1>3
  <2> QED BY <1>3, <2>1, TextIs
<1>5. Len(heard) < Len(Text)
  <2>1. counter \in Nat /\ Line \in Nat
    BY <1>3
  <2>2. counter * Line < chan.times * Line + 1
    BY <1>2, <1>3, <2>1, Before
  <2> QED BY <1>3, <1>4, <2>2
<1>6. /\ Announced
      /\ heard' \in Seq(Words) /\ Len(heard') = Len(heard) + 1
      /\ \A i \in 1..Len(heard') : heard'[i] = Text'[i]
  BY <1>1, <1>2, <1>3, <1>4, <1>5, NextWord
<1>7. InOrder'
  <2>1. Len(heard') = counter' * Line' + 1
    BY <1>1, <1>2, <1>3, <1>6, PlayGoesOn DEF loop
  <2> QED BY <1>1, <1>2, <1>3, <1>6, <2>1, PlayGoesOn
          DEF InOrder, Said, ToldBy, Hear, loop
<1> QED BY <1>1, <1>2, <1>6, <1>7, PlayGoesOn

\* A line starts with its first digit.
LEMMA StartCodeDelivers ==
  ASSUME DeliveryInv, StartCode
  PROVE  DeliveryInv' /\ Announced
<1>1. "code" \in Ringing /\ "digits" \in Ringing
  BY DEF Ringing, InDialplan
<1>2. /\ Goes("code", "digits") /\ j' = 0 /\ counter' = counter
      /\ told' = told /\ heard' = heard
  BY DEF StartCode, output
<1>3. /\ told = 2 /\ Len(heard) = counter * Line + 1 /\ counter < chan.times
      /\ counter * Line \in Nat
  BY <1>1, <1>2, PlayGoesOn DEF InOrder, ToldBy, Said
<1>4. InOrder'
  <2>1. Len(heard') = counter' * Line' + 1 + j'
    BY <1>1, <1>2, <1>3, PlayGoesOn
  <2> QED BY <1>1, <1>2, <1>3, <2>1, PlayGoesOn DEF InOrder, Said, ToldBy
<1> QED BY <1>1, <1>2, <1>4, PlayGoesOn, Silence DEF output

\* The next digit of the line.
LEMMA NextDigitDelivers ==
  ASSUME DeliveryInv, NextDigit
  PROVE  DeliveryInv' /\ Announced
<1> DEFINE w == Word(chan.code[j + 1])
<1>1. "digits" \in Ringing
  BY DEF Ringing, InDialplan
<1>2. /\ Goes("digits", "digits") /\ Hear(w) /\ j' = j + 1
      /\ counter' = counter /\ j < Len(chan.code)
  BY DEF NextDigit
<1>3. /\ told = 2 /\ Len(heard) = counter * Line + 1 + j
      /\ counter \in 0..chan.times /\ counter < chan.times
      /\ j \in 0..Len(chan.code) /\ Len(chan.code) \in Nat
      /\ chan.times \in Nat /\ Line \in Nat \ {0} /\ chan.code \in Seq(Bytes)
      /\ Line = Len(chan.code) + 1
  BY <1>1, <1>2, PlayGoesOn DEF InOrder, ToldBy, Said
<1>4. w \in Words
  BY DEF Word, Words
<1> HIDE DEF w
<1>5. j + 1 \in 1..Len(chan.code) /\ counter \in 0..chan.times - 1
  BY <1>2, <1>3
<1>6. /\ Len(Text) = chan.times * Line + 1 /\ Len(Text) \in Nat
      /\ Text[counter * Line + (j + 1) + 1] = w
  BY <1>3, <1>5, TextIs DEF w
<1>7. counter * Line \in Nat /\ counter * Line + Line <= chan.times * Line
  <2>1. counter \in Nat /\ Line \in Nat /\ chan.times \in Nat
        /\ counter < chan.times
    BY <1>3
  <2> QED BY ONLY <2>1, Before
<1>8. Len(heard) + 1 = counter * Line + (j + 1) + 1 /\ Len(heard) < Len(Text)
  <2> DEFINE b == counter * Line
             e == chan.times * Line
  <2>1. /\ Len(heard) = b + 1 + j /\ Len(Text) = e + 1
        /\ b \in Nat /\ e \in Nat /\ b + Line <= e
    <3>1. Len(heard) = b + 1 + j /\ b \in Nat /\ b + Line <= e
      BY <1>3, <1>7
    <3>2. e \in Nat
      <4>1. chan.times \in Nat /\ Line \in Nat
        BY <1>3
      <4> QED BY <4>1, NextLine
    <3>3. Len(Text) = e + 1
      BY <1>6
    <3> QED BY <3>1, <3>2, <3>3
  <2> HIDE DEF b, e
  <2>2. j \in Nat /\ Line \in Nat /\ j + 1 < Line
    <3>1. /\ j \in 0..Len(chan.code) /\ Len(chan.code) \in Nat
          /\ Line = Len(chan.code) + 1 /\ j < Len(chan.code)
      BY <1>2, <1>3
    <3> QED BY ONLY <3>1
  <2>3. Len(heard) + 1 = b + (j + 1) + 1 /\ Len(heard) < Len(Text)
    BY ONLY <2>1, <2>2
  <2> QED BY <2>3 DEF b
<1>9. /\ Announced
      /\ heard' \in Seq(Words) /\ Len(heard') = Len(heard) + 1
      /\ \A i \in 1..Len(heard') : heard'[i] = Text'[i]
  BY <1>1, <1>2, <1>3, <1>4, <1>6, <1>8, NextWord
<1>10. InOrder'
  <2>1. Len(heard') = counter' * Line' + 1 + j'
    <3> DEFINE b == counter * Line
    <3>1. b \in Nat /\ Len(heard) = b + 1 + j
      BY <1>3, <1>7
    <3>2. counter' * Line' = b /\ j' = j + 1
      BY <1>1, <1>2, PlayGoesOn
    <3>5. j \in Nat
      <4>1. j \in 0..Len(chan.code) /\ Len(chan.code) \in Nat
        BY <1>3
      <4> QED BY ONLY <4>1
    <3>4. j \in Nat /\ Len(heard') = Len(heard) + 1
      BY ONLY <1>9, <3>5
    <3> HIDE DEF b
    <3>3. Len(heard') = b + 1 + j'
      BY ONLY <3>1, <3>2, <3>4
    <3> QED BY <3>2, <3>3
  <2>2. j' \in 0..Len(chan'.code)
    BY <1>1, <1>2, <1>5, PlayGoesOn
  <2> QED BY <1>1, <1>2, <1>3, <1>9, <2>1, <2>2, PlayGoesOn
          DEF InOrder, Said, ToldBy, Hear
<1> QED BY <1>1, <1>2, <1>9, <1>10, PlayGoesOn

\* The line is over.
LEMMA EndCodeDelivers ==
  ASSUME DeliveryInv, EndCode
  PROVE  DeliveryInv' /\ Announced
<1>1. "digits" \in Ringing /\ "while" \in Ringing
  BY DEF Ringing, InDialplan
<1>2. /\ Goes("digits", "while") /\ j' = j /\ counter' = counter + 1
      /\ told' = told /\ heard' = heard /\ j >= Len(chan.code)
  BY DEF EndCode, output
<1>3. /\ told = 2 /\ Len(heard) = counter * Line + 1 + j
      /\ counter \in 0..chan.times /\ counter < chan.times
      /\ j \in 0..Len(chan.code) /\ Len(chan.code) \in Nat
      /\ chan.times \in Nat /\ Line \in Nat \ {0}
      /\ Line = Len(chan.code) + 1
  BY <1>1, <1>2, PlayGoesOn DEF InOrder, ToldBy, Said
<1>4. InOrder'
  <2>1. counter \in Nat /\ counter' \in 0..chan.times
    BY <1>2, <1>3
  <2>2. counter * Line \in Nat /\ (counter + 1) * Line = counter * Line + Line
    <3>1. Line \in Nat
      BY <1>3
    <3> QED BY <2>1, <3>1, NextLine
  <2>3. Len(heard') = counter' * Line'
    <3>1. Len(heard) = counter * Line + Line
      BY <1>2, <1>3, <2>2
    <3> QED BY <1>1, <1>2, <2>2, <3>1, PlayGoesOn
  <2> QED BY <1>1, <1>2, <1>3, <2>1, <2>3, PlayGoesOn DEF InOrder, Said, ToldBy
<1> QED BY <1>1, <1>2, <1>4, PlayGoesOn, Silence DEF output

\* The goodbye, after the last line.
LEMMA SayGoodbyeDelivers ==
  ASSUME DeliveryInv, SayGoodbye
  PROVE  DeliveryInv' /\ Announced
<1>1. "while" \in Ringing /\ "complete" \in Ringing /\ "goodbye" \in Words
  BY DEF Ringing, InDialplan, Words
<1>2. /\ Goes("while", "complete") /\ Hear("goodbye") /\ UNCHANGED loop
      /\ counter >= chan.times
  BY DEF SayGoodbye
<1>3. /\ told = 2 /\ Len(heard) = counter * Line /\ counter \in 0..chan.times
      /\ chan.times \in Nat /\ Line \in Nat \ {0} /\ chan.code \in Seq(Bytes)
  BY <1>1, <1>2, PlayGoesOn DEF InOrder, ToldBy, Said
<1>4. counter = chan.times /\ Len(heard) = chan.times * Line
  BY <1>2, <1>3
<1>5. /\ Len(Text) = chan.times * Line + 1 /\ Len(Text) \in Nat
      /\ Text[chan.times * Line + 1] = "goodbye"
  BY <1>3, TextIs
<1>6. Len(heard) < Len(Text)
  BY <1>4, <1>5
<1>7. /\ Announced
      /\ heard' \in Seq(Words) /\ Len(heard') = Len(heard) + 1
      /\ \A i \in 1..Len(heard') : heard'[i] = Text'[i]
  BY <1>1, <1>2, <1>3, <1>4, <1>5, <1>6, NextWord
<1>8. InOrder'
  <2>1. Len(heard') = chan'.times * Line' + 1
    BY <1>1, <1>2, <1>4, <1>7, PlayGoesOn
  <2> QED BY <1>1, <1>2, <1>3, <1>7, <2>1, PlayGoesOn
          DEF InOrder, Said, ToldBy, Hear, loop
<1> QED BY <1>1, <1>2, <1>7, <1>8, PlayGoesOn

\* All is said: what has been heard is the announcement.
LEMMA AllSaid ==
  ASSUME InOrder, at \in {"complete", "hangup"},
         chan.times \in Nat, chan.code \in Seq(Bytes)
  PROVE  heard = Text
<1>1. /\ heard \in Seq(Words) /\ Len(heard) = Len(Text)
      /\ \A i \in 1..Len(heard) : heard[i] = Text[i]
      /\ DOMAIN Text = 1..Len(Text) /\ Len(Text) \in Nat
  BY TextIs DEF InOrder, Said
<1>2. Text \in Seq(Words)
  <2>1. Text = [i \in 1..Len(Text) |-> Text[i]]
    BY <1>1 DEF Text, Promise!Script
  <2>2. \A i \in 1..Len(Text) : Text[i] \in Words
    BY <1>1
  <2> QED BY <1>1, <2>1, <2>2
<1> QED BY <1>1, <1>2, SeqEqual

\* OTPPlaybackComplete: all is said.
LEMMA PlaybackCompleteDelivers ==
  ASSUME DeliveryInv, PlaybackComplete
  PROVE  DeliveryInv' /\ Announced
<1>1. "complete" \in Ringing /\ "hangup" \in Ringing
  BY DEF Ringing, InDialplan
<1>2. /\ Goes("complete", "hangup") /\ told' = told + 1 /\ heard' = heard
      /\ UNCHANGED loop
  BY DEF PlaybackComplete, Tell
<1>3. told = 2 /\ Len(heard) = chan.times * Line + 1
  BY <1>1, <1>2, PlayGoesOn DEF InOrder, ToldBy, Said
<1>4. InOrder'
  BY <1>1, <1>2, <1>3, PlayGoesOn DEF InOrder, Said, ToldBy, loop
<1>5. heard = Text
  BY <1>1, <1>2, AllSaid, PlayGoesOn
<1>6. Promise!Complete
  BY <1>1, <1>2, <1>3, <1>5, PlayGoesOn DEF Promise!Complete, Text
<1> QED BY <1>1, <1>2, <1>4, <1>6, PlayGoesOn DEF Announced, Promise!Next

\* Every step.
LEMMA NextDelivers ==
  ASSUME DeliveryInv, [Next]_vars
  PROVE  DeliveryInv' /\ Announced
<1>1. ASSUME NEW p \in Formats, NEW s \in Subscribers, NEW code \in Inputs,
             NEW n \in 0..4, Submit(p, s, code, n)
      PROVE  DeliveryInv' /\ Announced
  BY <1>1, SubmitDelivers
<1>2. ASSUME NEW code \in Inputs, NEW n \in 0..3, Retry(code, n)
      PROVE  DeliveryInv' /\ Announced
  BY <1>2, RetryDelivers
<1>3. CASE Originate
  BY <1>3, OriginateDelivers
<1>4. CASE NoAnswer
  BY <1>4, GoneDelivers DEF NoAnswer, Ringing
<1>5. CASE PickUp
  BY <1>5, PickUpDelivers
<1>6. CASE HangUp
  BY <1>6, GoneDelivers DEF HangUp, Ringing
<1>7. CASE Play
  BY <1>6, <1>7, CallStartDelivers, PlaybackStartDelivers, IntroduceDelivers,
     StartCodeDelivers, NextDigitDelivers, EndCodeDelivers, SayGoodbyeDelivers,
     PlaybackCompleteDelivers DEF Play
<1>8. CASE UNCHANGED vars
  <2>1. DeliveryInv'
    BY <1>8 DEF vars, loop, output, DeliveryInv, Asked, Called, InOrder, Silent,
       Said, ToldBy, Text, Line
  <2>2. Announced
    BY <1>8 DEF vars, output, Announced, Promise!vars
  <2> QED BY <2>1, <2>2
<1> QED BY <1>1, <1>2, <1>3, <1>4, <1>5, <1>6, <1>7, <1>8 DEF Next

-----------------------------------------------------------------------------
(* The theorems *)

\* The dialplan is where what has been heard says it is, and the channel has
\* what was asked, up to a comma, for every code and at every point where the
\* call may end.
THEOREM Delivers == Spec => []DeliveryInv
BY InitDelivery, NextDelivers, PTL DEF Spec

\* The dialplan's loops, as the service fills in their variables, announce what
\* Announcement promises: introduction and code as often as asked, then the
\* goodbye, never a word out of order, and OTPPlaybackComplete after the last.
THEOREM AnnouncementImplemented == Spec => Announces
BY InitDelivery, NextDelivers, Delivers, PTL
   DEF Spec, Announces, Promise!Spec, Announced

\* Through validation, record, retry, clamp, sanitizing and encoding: the
\* subscriber's phone rings, and a completed playback said what the latest
\* accepted request asked, if there is a recording of each of its characters.
THEOREM WhatIsAskedIsPlayed == Spec => []DeliveredAsAsked
<1>1. ASSUME DeliveryInv PROVE DeliveredAsAsked
  <2>1. ASSUME at \in Ringing
        PROVE  chan.number = <<"0", "9", asked.sub>>
    BY <1>1, <2>1 DEF DeliveryInv, Called
  <2>2. ASSUME told = 3, asked.code \in Seq(Digits)
        PROVE  heard = Promise!Script(asked.code, asked.times)
    <3>1. at \in Ringing /\ at = "hangup" /\ InOrder /\ Called /\ Asked
      BY <1>1, <2>2
         DEF DeliveryInv, Silent, InOrder, ToldBy, Ringing, InDialplan
    <3>2. chan.code = asked.code /\ chan.times = asked.times
      BY <2>2, <3>1 DEF Called
    <3>3. chan.times \in Nat /\ chan.code \in Seq(Bytes)
      BY <3>1 DEF Called
    <3> QED BY <3>1, <3>2, <3>3, AllSaid DEF Text
  <2> QED BY <2>1, <2>2 DEF DeliveredAsAsked
<1> QED BY <1>1, Delivers, PTL
=============================================================================
