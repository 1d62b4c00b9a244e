---------------------------- MODULE ListTheorems ----------------------------
(***************************************************************************)
(* Lists without duplicates, as a Vector of handles is used: the set of    *)
(* their elements, and what append, taking the first, removing at an index,*)
(* filtering and concatenation do to it.                                   *)
(***************************************************************************)
EXTENDS Integers, Sequences, SequenceTheorems, NaturalsInduction, WellFoundedInduction, TLAPS

Listed(s) == {s[i] : i \in DOMAIN s}
NoDuplicates(s) == \A a, b \in DOMAIN s : s[a] = s[b] => a = b

\* One more at the end of a list.
LEMMA ListAppend ==
    ASSUME NEW S, NEW s \in Seq(S), NEW x \in S
    PROVE  /\ Append(s, x) \in Seq(S)
           /\ Append(s, x) # <<>>
           /\ Listed(Append(s, x)) = Listed(s) \cup {x}
           /\ NoDuplicates(s) /\ x \notin Listed(s) => NoDuplicates(Append(s, x))
<1>1. /\ Append(s, x) \in Seq(S)
      /\ Len(Append(s, x)) = Len(s) + 1
      /\ \A i \in 1..Len(s) : Append(s, x)[i] = s[i]
      /\ Append(s, x)[Len(s) + 1] = x
  OBVIOUS
<1>2. DOMAIN s = 1..Len(s) /\ DOMAIN Append(s, x) = 1..(Len(s) + 1) /\ Len(s) \in Nat
  BY <1>1
<1>3. Listed(Append(s, x)) = Listed(s) \cup {x}
  BY <1>1, <1>2 DEF Listed
<1>4. NoDuplicates(s) /\ x \notin Listed(s) => NoDuplicates(Append(s, x))
  BY <1>1, <1>2 DEF Listed, NoDuplicates
<1> QED BY <1>1, <1>3, <1>4

\* A list without its first.
LEMMA ListTail ==
    ASSUME NEW S, NEW s \in Seq(S), s # <<>>, NoDuplicates(s)
    PROVE  /\ Head(s) \in S /\ Head(s) \in Listed(s)
           /\ Tail(s) \in Seq(S)
           /\ NoDuplicates(Tail(s))
           /\ Listed(Tail(s)) = Listed(s) \ {Head(s)}
<1>1. /\ Len(s) \in Nat \ {0} /\ DOMAIN s = 1..Len(s)
      /\ Head(s) = s[1] /\ Head(s) \in S
      /\ Tail(s) \in Seq(S)
      /\ Len(Tail(s)) = Len(s) - 1
      /\ DOMAIN Tail(s) = 1..(Len(s) - 1)
      /\ \A i \in 1..(Len(s) - 1) : Tail(s)[i] = s[i + 1]
  OBVIOUS
<1>2. NoDuplicates(Tail(s))
  BY <1>1 DEF NoDuplicates
<1>3. ASSUME NEW x \in Listed(Tail(s)) PROVE x \in Listed(s) \ {Head(s)}
  <2>1. PICK i \in 1..(Len(s) - 1) : x = s[i + 1]
    BY <1>1 DEF Listed
  <2> QED BY <1>1, <2>1 DEF Listed, NoDuplicates
<1>4. ASSUME NEW x \in Listed(s) \ {Head(s)} PROVE x \in Listed(Tail(s))
  <2>1. PICK i \in 1..Len(s) : x = s[i]
    BY <1>1 DEF Listed
  <2>2. i - 1 \in 1..(Len(s) - 1) /\ Tail(s)[i - 1] = x
    BY <1>1, <2>1
  <2> QED BY <1>1, <2>2 DEF Listed
<1>5. Head(s) \in Listed(s)
  BY <1>1 DEF Listed
<1> QED BY <1>1, <1>2, <1>3, <1>4, <1>5

\* a, b and t are s up to its n-th element, after it, and without it.
IsBefore(a, s, n) == Len(a) = n - 1 /\ \A k \in 1..(n - 1) : a[k] = s[k]
IsAfter(b, s, n) == Len(b) = Len(s) - n /\ \A k \in 1..(Len(s) - n) : b[k] = s[n + k]
IsWithout(t, s, n) ==
    /\ Len(t) = Len(s) - 1
    /\ \A k \in 1..(n - 1) : t[k] = s[k]
    /\ \A k \in n..(Len(s) - 1) : t[k] = s[k + 1]

\* A list without the element at one place.
LEMMA ListWithout ==
    ASSUME NEW S, NEW s \in Seq(S), NoDuplicates(s), NEW n \in 1..Len(s),
           NEW t \in Seq(S), IsWithout(t, s, n)
    PROVE  /\ NoDuplicates(t)
           /\ Listed(t) = Listed(s) \ {s[n]}
<1> USE DEF IsWithout
<1>1. Len(s) \in Nat /\ DOMAIN s = 1..Len(s) /\ DOMAIN t = 1..(Len(s) - 1)
  OBVIOUS
<1>2. \A k \in 1..(Len(s) - 1) : k \in 1..(n - 1) \/ k \in n..(Len(s) - 1)
  BY <1>1
<1> DEFINE g(k) == IF k < n THEN k ELSE k + 1
<1>3. \A k \in 1..(Len(s) - 1) : g(k) \in (1..Len(s)) \ {n} /\ t[k] = s[g(k)]
  BY <1>1, <1>2
<1>4. \A k, m \in 1..(Len(s) - 1) : g(k) = g(m) => k = m
  BY <1>1
<1> HIDE DEF g
<1>5. NoDuplicates(t)
  <2> SUFFICES ASSUME NEW k \in 1..(Len(s) - 1), NEW m \in 1..(Len(s) - 1), t[k] = t[m]
               PROVE  k = m
    BY <1>1 DEF NoDuplicates
  <2>1. s[g(k)] = s[g(m)] /\ g(k) \in 1..Len(s) /\ g(m) \in 1..Len(s)
    BY <1>3
  <2>2. g(k) = g(m)
    BY <1>1, <2>1 DEF NoDuplicates
  <2> QED BY <1>4, <2>2
<1>6. ASSUME NEW x \in Listed(t) PROVE x \in Listed(s) \ {s[n]}
  <2>1. PICK k \in 1..(Len(s) - 1) : x = t[k]
    BY <1>1 DEF Listed
  <2>2. PICK m \in (1..Len(s)) \ {n} : x = s[m]
    BY <1>3, <2>1
  <2>3. x # s[n]
    BY <1>1, <2>2 DEF NoDuplicates
  <2> QED BY <1>1, <2>2, <2>3 DEF Listed
<1>7. ASSUME NEW x \in Listed(s) \ {s[n]} PROVE x \in Listed(t)
  <2>1. PICK i \in 1..Len(s) : x = s[i]
    BY <1>1 DEF Listed
  <2>2. CASE i < n
    BY <1>1, <2>1, <2>2 DEF Listed
  <2>3. CASE i > n
    <3>1. i - 1 \in n..(Len(s) - 1) /\ (i - 1) + 1 = i
      BY <1>1, <2>1, <2>3
    <3>2. i - 1 \in DOMAIN t /\ t[i - 1] = x
      BY <1>1, <2>1, <3>1
    <3> QED BY <3>2 DEF Listed
  <2> QED BY <1>1, <2>1, <2>2, <2>3
<1> QED BY <1>5, <1>6, <1>7

\* The parts before and after one place, put together, are that list.
LEMMA ListSplice ==
    ASSUME NEW S, NEW s \in Seq(S), NoDuplicates(s), NEW n \in 1..Len(s),
           NEW a \in Seq(S), IsBefore(a, s, n), NEW b \in Seq(S), IsAfter(b, s, n)
    PROVE  /\ a \o b \in Seq(S)
           /\ IsWithout(a \o b, s, n)
           /\ NoDuplicates(a \o b)
           /\ Listed(a \o b) = Listed(s) \ {s[n]}
<1>1. Len(s) \in Nat
  OBVIOUS
<1>2. PICK t : t = a \o b
  OBVIOUS
<1>3. /\ t \in Seq(S) /\ Len(t) = Len(a) + Len(b)
      /\ \A k \in 1..(Len(a) + Len(b)) : t[k] = IF k <= Len(a) THEN a[k] ELSE b[k - Len(a)]
  BY <1>2, ConcatProperties
<1>4. Len(t) = Len(s) - 1
  BY <1>1, <1>3 DEF IsBefore, IsAfter
<1>5. ASSUME NEW k \in 1..(n - 1) PROVE t[k] = s[k]
  <2>1. k \in 1..(Len(a) + Len(b)) /\ k <= Len(a)
    BY <1>1 DEF IsBefore, IsAfter
  <2> QED BY <1>3, <2>1 DEF IsBefore
<1>6. ASSUME NEW k \in n..(Len(s) - 1) PROVE t[k] = s[k + 1]
  <2>1. k \in 1..(Len(a) + Len(b)) /\ ~(k <= Len(a)) /\ k - Len(a) \in 1..(Len(s) - n)
        /\ n + (k - Len(a)) = k + 1
    BY <1>1 DEF IsBefore, IsAfter
  <2>2. t[k] = b[k - Len(a)]
    BY <1>3, <2>1
  <2> QED BY <2>1, <2>2 DEF IsAfter
<1>7. IsWithout(t, s, n)
  BY <1>4, <1>5, <1>6 DEF IsWithout
<1>8. NoDuplicates(t) /\ Listed(t) = Listed(s) \ {s[n]}
  BY <1>3, <1>7, ListWithout
<1> QED BY <1>2, <1>3, <1>7, <1>8

\* The list without its n-th element, as the parts before and after it.
LEMMA ListRemoved ==
    ASSUME NEW S, NEW s \in Seq(S), NoDuplicates(s), NEW n \in DOMAIN s
    PROVE  LET t == SubSeq(s, 1, n - 1) \o SubSeq(s, n + 1, Len(s)) IN
           /\ t \in Seq(S)
           /\ IsWithout(t, s, n)
           /\ NoDuplicates(t)
           /\ Listed(t) = Listed(s) \ {s[n]}
<1>1. Len(s) \in Nat /\ n \in 1..Len(s)
  OBVIOUS
<1>2. PICK a : a = SubSeq(s, 1, n - 1)
  OBVIOUS
<1>3. PICK b : b = SubSeq(s, n + 1, Len(s))
  OBVIOUS
<1>4. a \in Seq(S) /\ IsBefore(a, s, n)
  <2>1. \A i \in 1..(n - 1) : s[i] \in S
    BY <1>1
  <2>2. n - 1 \in Int /\ 1 \in Int
    BY <1>1
  <2> QED BY <1>1, <1>2, <2>1, <2>2, SubSeqProperties DEF IsBefore
<1>5. b \in Seq(S) /\ IsAfter(b, s, n)
  <2>1. \A i \in (n + 1)..Len(s) : s[i] \in S
    BY <1>1
  <2>2. n + 1 \in Int /\ Len(s) \in Int
    BY <1>1
  <2>3. /\ b \in Seq(S)
        /\ Len(b) = IF n + 1 <= Len(s) THEN Len(s) - (n + 1) + 1 ELSE 0
        /\ \A k \in 1..(Len(s) - (n + 1) + 1) : b[k] = s[n + 1 + k - 1]
    BY <1>3, <2>1, <2>2, SubSeqProperties
  <2>4. \A k \in Int : n + 1 + k - 1 = n + k
    BY <1>1
  <2>5. Len(s) - (n + 1) + 1 = Len(s) - n
    BY <1>1
  <2>6. Len(b) = Len(s) - n
    BY <1>1, <2>3
  <2>7. ASSUME NEW k \in 1..(Len(s) - n) PROVE b[k] = s[n + k]
    <3>1. k \in 1..(Len(s) - (n + 1) + 1) /\ k \in Int
      BY <2>5
    <3>2. b[k] = s[n + 1 + k - 1]
      BY <2>3, <3>1
    <3> QED BY <2>4, <3>1, <3>2
  <2> QED BY <2>3, <2>6, <2>7 DEF IsAfter
<1>6. /\ a \o b \in Seq(S) /\ IsWithout(a \o b, s, n)
      /\ NoDuplicates(a \o b) /\ Listed(a \o b) = Listed(s) \ {s[n]}
  BY <1>1, <1>4, <1>5, ListSplice
<1> QED BY <1>2, <1>3, <1>6

\* What it has.
LEMMA ListRemove ==
    ASSUME NEW S, NEW s \in Seq(S), NoDuplicates(s), NEW n \in DOMAIN s
    PROVE  LET t == SubSeq(s, 1, n - 1) \o SubSeq(s, n + 1, Len(s)) IN
           /\ t \in Seq(S)
           /\ NoDuplicates(t)
           /\ Listed(t) = Listed(s) \ {s[n]}
BY ListRemoved

\* Two lists one after the other.
LEMMA ListConcat ==
    ASSUME NEW S, NEW s \in Seq(S), NEW t \in Seq(S)
    PROVE  /\ s \o t \in Seq(S)
           /\ Listed(s \o t) = Listed(s) \cup Listed(t)
           /\ NoDuplicates(s) /\ NoDuplicates(t) /\ Listed(s) \cap Listed(t) = {}
                 => NoDuplicates(s \o t)
<1>1. PICK u : u = s \o t
  OBVIOUS
<1>2. /\ u \in Seq(S) /\ Len(u) = Len(s) + Len(t)
      /\ \A k \in 1..(Len(s) + Len(t)) : u[k] = IF k <= Len(s) THEN s[k] ELSE t[k - Len(s)]
  BY <1>1, ConcatProperties
<1>3. /\ Len(s) \in Nat /\ Len(t) \in Nat
      /\ DOMAIN s = 1..Len(s) /\ DOMAIN t = 1..Len(t) /\ DOMAIN u = 1..(Len(s) + Len(t))
  BY <1>2
<1>4. ASSUME NEW k \in DOMAIN u
      PROVE  \/ k \in DOMAIN s /\ u[k] = s[k]
             \/ k - Len(s) \in DOMAIN t /\ u[k] = t[k - Len(s)]
  BY <1>2, <1>3
<1>5. ASSUME NEW k \in DOMAIN s PROVE k \in DOMAIN u /\ u[k] = s[k]
  BY <1>2, <1>3
<1>6. ASSUME NEW k \in DOMAIN t PROVE k + Len(s) \in DOMAIN u /\ u[k + Len(s)] = t[k]
  <2>1. k + Len(s) \in 1..(Len(s) + Len(t)) /\ ~(k + Len(s) <= Len(s)) /\ (k + Len(s)) - Len(s) = k
    BY <1>3
  <2> QED BY <1>2, <1>3, <2>1
<1>7. Listed(u) = Listed(s) \cup Listed(t)
  BY <1>4, <1>5, <1>6 DEF Listed
<1>8. ASSUME NoDuplicates(s), NoDuplicates(t), Listed(s) \cap Listed(t) = {}
      PROVE  NoDuplicates(u)
  <2> SUFFICES ASSUME NEW a \in DOMAIN u, NEW b \in DOMAIN u, u[a] = u[b] PROVE a = b
    BY DEF NoDuplicates
  <2>1. CASE a \in DOMAIN s /\ u[a] = s[a] /\ b \in DOMAIN s /\ u[b] = s[b]
    BY <1>8, <2>1 DEF NoDuplicates
  <2>2. CASE a - Len(s) \in DOMAIN t /\ u[a] = t[a - Len(s)]
             /\ b - Len(s) \in DOMAIN t /\ u[b] = t[b - Len(s)]
    <3>1. a - Len(s) = b - Len(s)
      BY <1>8, <2>2 DEF NoDuplicates
    <3> QED BY <1>3, <3>1
  <2>3. ASSUME NEW c \in DOMAIN s, NEW d \in DOMAIN t, s[c] = t[d] PROVE FALSE
    BY <1>8, <2>3 DEF Listed
  <2> QED BY <1>4, <2>1, <2>2, <2>3
<1> QED BY <1>1, <1>2, <1>7, <1>8

\* The first n elements of a list and the others.
LEMMA ListSplit ==
    ASSUME NEW S, NEW s \in Seq(S), NoDuplicates(s), NEW n \in 0..Len(s)
    PROVE  /\ SubSeq(s, 1, n) \in Seq(S) /\ SubSeq(s, n + 1, Len(s)) \in Seq(S)
           /\ Len(SubSeq(s, 1, n)) = n
           /\ NoDuplicates(SubSeq(s, 1, n))
           /\ NoDuplicates(SubSeq(s, n + 1, Len(s)))
           /\ Listed(SubSeq(s, 1, n)) = {s[i] : i \in 1..n}
           /\ Listed(SubSeq(s, 1, n)) \subseteq Listed(s)
           /\ Listed(SubSeq(s, n + 1, Len(s))) = Listed(s) \ Listed(SubSeq(s, 1, n))
<1> DEFINE a == SubSeq(s, 1, n)
           b == SubSeq(s, n + 1, Len(s))
<1>1. DOMAIN s = 1..Len(s) /\ Len(s) \in Nat /\ n \in Nat
  OBVIOUS
<1>2. a \in Seq(S) /\ Len(a) = n /\ DOMAIN a = 1..n /\ \A i \in 1..n : a[i] = s[i]
  BY <1>1
<1>3. b \in Seq(S) /\ DOMAIN b = 1..(Len(s) - n)
      /\ \A i \in 1..(Len(s) - n) : b[i] = s[n + i]
  BY <1>1
<1> HIDE DEF a, b
<1>4. NoDuplicates(a)
  BY <1>1, <1>2 DEF NoDuplicates
<1>5. NoDuplicates(b)
  <2> SUFFICES ASSUME NEW i \in 1..(Len(s) - n), NEW j \in 1..(Len(s) - n), b[i] = b[j]
               PROVE  i = j
    BY <1>3 DEF NoDuplicates
  <2>1. n + i \in DOMAIN s /\ n + j \in DOMAIN s /\ s[n + i] = s[n + j]
    BY <1>1, <1>3
  <2>2. n + i = n + j
    BY <2>1 DEF NoDuplicates
  <2> QED BY <1>1, <2>2
<1>6. Listed(a) = {s[i] : i \in 1..n} /\ Listed(a) \subseteq Listed(s)
  BY <1>1, <1>2 DEF Listed
<1>7. ASSUME NEW x \in Listed(b) PROVE x \in Listed(s) /\ x \notin Listed(a)
  <2>1. PICK i \in 1..(Len(s) - n) : x = b[i]
    BY <1>3 DEF Listed
  <2>2. n + i \in DOMAIN s /\ x = s[n + i] /\ n + i \notin 1..n
    BY <1>1, <1>3, <2>1
  <2>3. ASSUME NEW j \in 1..n, x = s[j] PROVE FALSE
    <3>1. j \in DOMAIN s
      BY <1>1
    <3> QED BY <2>2, <2>3, <3>1 DEF NoDuplicates
  <2> QED BY <1>6, <2>2, <2>3 DEF Listed
<1>8. ASSUME NEW x \in Listed(s), x \notin Listed(a) PROVE x \in Listed(b)
  <2>1. PICK j \in DOMAIN s : x = s[j]
    BY DEF Listed
  <2>2. j \notin 1..n
    BY <1>6, <1>8, <2>1
  <2>3. j - n \in 1..(Len(s) - n) /\ n + (j - n) = j
    BY <1>1, <2>2
  <2>4. b[j - n] = x
    BY <1>3, <2>1, <2>3
  <2> QED BY <1>3, <2>3, <2>4 DEF Listed
<1>9. Listed(b) = Listed(s) \ Listed(a)
  BY <1>7, <1>8
<1> QED BY <1>2, <1>3, <1>4, <1>5, <1>6, <1>9 DEF a, b

\* One more in front of a list.
LEMMA ListPrepend ==
    ASSUME NEW S, NEW s \in Seq(S), NEW x \in S
    PROVE  /\ <<x>> \o s \in Seq(S)
           /\ Listed(<<x>> \o s) = Listed(s) \cup {x}
           /\ NoDuplicates(s) /\ x \notin Listed(s) => NoDuplicates(<<x>> \o s)
<1>1. PICK q : q = <<x>>
  OBVIOUS
<1>2. q \in Seq(S) /\ Len(q) = 1 /\ DOMAIN q = 1..1 /\ q[1] = x
  BY <1>1
<1>3. Listed(q) = {x} /\ NoDuplicates(q)
  BY <1>2 DEF Listed, NoDuplicates
<1>4. /\ q \o s \in Seq(S) /\ Listed(q \o s) = Listed(q) \cup Listed(s)
      /\ NoDuplicates(q) /\ NoDuplicates(s) /\ Listed(q) \cap Listed(s) = {}
            => NoDuplicates(q \o s)
  BY <1>2, ListConcat
<1> QED BY <1>1, <1>3, <1>4

-----------------------------------------------------------------------------
(* Filtering, written as a recursive function: F[i] is what is kept of the *)
(* first i elements when those in X go.                                    *)

Filters(F, s, X, n) ==
    F = [i \in 0..n |-> IF i = 0 THEN <<>>
                        ELSE IF s[i] \notin X THEN Append(F[i - 1], s[i])
                                              ELSE F[i - 1]]

\* Induction over the naturals, as the minimum of the counterexamples.
LEMMA Minimum ==
    ASSUME NEW B \in SUBSET Nat, B # {}
    PROVE  \E n \in B : \A m \in B : ~(m < n)
<1>1. PICK n \in B : \A m \in B : ~(<<m, n>> \in OpToRel(<, Nat))
  BY NatLessThanWellFounded, WFMin, Zenon
<1> QED BY <1>1 DEF OpToRel

\* The recursion defines a function.
LEMMA FilterExists ==
    ASSUME NEW S, NEW s \in Seq(S), NEW X, NEW len \in Nat, len <= Len(s)
    PROVE  \E F \in [0..len -> Seq(S)] : Filters(F, s, X, len)
<1> DEFINE Bad == {n \in Nat : n <= Len(s)
                         /\ ~ \E F \in [0..n -> Seq(S)] : Filters(F, s, X, n)}
<1>1. SUFFICES ASSUME Bad # {} PROVE FALSE
  OBVIOUS
<1>2. PICK n \in Bad : \A m \in Bad : ~(m < n)
  BY <1>1, Minimum
<1>3. n # 0
  <2>1. [i \in 0..0 |-> <<>>] \in [0..0 -> Seq(S)]
    OBVIOUS
  <2>2. Filters([i \in 0..0 |-> <<>>], s, X, 0)
    BY DEF Filters
  <2> QED BY <2>1, <2>2
<1>4. PICK G \in [0..(n - 1) -> Seq(S)] : Filters(G, s, X, n - 1)
  <2>1. n - 1 \in Nat /\ n - 1 <= Len(s) /\ n - 1 < n
    BY <1>3
  <2>2. n - 1 \notin Bad
    BY <1>2, <2>1
  <2> QED BY <2>1, <2>2
<1> DEFINE H == [i \in 0..n |-> IF i < n THEN G[i]
                  ELSE IF s[n] \notin X THEN Append(G[n - 1], s[n]) ELSE G[n - 1]]
<1>5. H \in [0..n -> Seq(S)]
  <2>1. n \in 1..Len(s) /\ s[n] \in S
    BY <1>3
  <2>2. G[n - 1] \in Seq(S)
    BY <2>1
  <2> QED BY <2>1, <2>2
<1>6. ASSUME NEW i \in 0..n
      PROVE  H[i] = IF i = 0 THEN <<>>
                    ELSE IF s[i] \notin X THEN Append(H[i - 1], s[i]) ELSE H[i - 1]
  <2>1. CASE i = n
    BY <1>3, <2>1
  <2>2. CASE i < n
    <3>1. i \in 0..(n - 1)
      BY <2>2
    <3>2. G[i] = IF i = 0 THEN <<>>
                 ELSE IF s[i] \notin X THEN Append(G[i - 1], s[i]) ELSE G[i - 1]
      BY <3>1, <1>4 DEF Filters
    <3> QED BY <2>2, <3>2
  <2> QED BY <2>1, <2>2
<1>7. Filters(H, s, X, n)
  BY <1>6 DEF Filters
<1> QED BY <1>5, <1>7

\* What it keeps is the elements outside X, without new duplicates.
LEMMA FilterKeeps ==
    ASSUME NEW S, NEW s \in Seq(S), NoDuplicates(s), NEW X, NEW F, Filters(F, s, X, Len(s))
    PROVE  /\ F[Len(s)] \in Seq(S)
           /\ NoDuplicates(F[Len(s)])
           /\ Listed(F[Len(s)]) = Listed(s) \ X
<1> DEFINE Good(i) == /\ F[i] \in Seq(S)
                      /\ NoDuplicates(F[i])
                      /\ Listed(F[i]) = {s[k] : k \in 1..i} \ X
           Bad == {n \in Nat : n <= Len(s) /\ ~Good(n)}
<1>1. SUFFICES ASSUME Bad # {} PROVE FALSE
  <2>1. Len(s) \in Nat /\ Len(s) <= Len(s) /\ Listed(s) = {s[k] : k \in 1..Len(s)}
    BY DEF Listed
  <2>2. Len(s) \notin Bad => Good(Len(s))
    BY <2>1
  <2> QED BY <2>1, <2>2
<1>2. PICK n \in Bad : \A m \in Bad : ~(m < n)
  BY <1>1, Minimum
<1>3. \A i \in 0..Len(s) :
        F[i] = IF i = 0 THEN <<>>
               ELSE IF s[i] \notin X THEN Append(F[i - 1], s[i]) ELSE F[i - 1]
  BY Zenon DEF Filters
<1>4. n \in 0..Len(s) /\ ~Good(n)
  OBVIOUS
<1>5. n # 0
  <2>1. <<>> \in Seq(S) /\ NoDuplicates(<<>>) /\ Listed(<<>>) = {s[k] : k \in 1..0} \ X
    BY DEF NoDuplicates, Listed
  <2>2. 0 \in 0..Len(s) /\ F[0] = <<>>
    BY <1>3
  <2> QED BY <1>4, <2>1, <2>2
<1>6. n - 1 \in Nat /\ n - 1 < n /\ n - 1 <= Len(s) /\ n \in 1..Len(s) /\ s[n] \in S
  BY <1>4, <1>5
<1>7. Good(n - 1)
  BY <1>2, <1>6
<1>8. {s[k] : k \in 1..n} = {s[k] : k \in 1..(n - 1)} \cup {s[n]}
  <2>1. \A k \in 1..n : k = n \/ k \in 1..(n - 1)
    BY <1>6
  <2>2. \A k \in 1..(n - 1) : k \in 1..n
    BY <1>6
  <2>3. n \in 1..n
    BY <1>6
  <2> QED BY <2>1, <2>2, <2>3
<1>9. s[n] \notin {s[k] : k \in 1..(n - 1)}
  <2>1. \A k \in 1..(n - 1) : k \in DOMAIN s /\ n \in DOMAIN s /\ k # n
    BY <1>6
  <2> QED BY <2>1 DEF NoDuplicates
<1> HIDE DEF Good
<1>10. CASE s[n] \in X
  <2>1. F[n] = F[n - 1]
    BY <1>3, <1>4, <1>5, <1>10, Zenon
  <2>2. {s[k] : k \in 1..n} \ X = {s[k] : k \in 1..(n - 1)} \ X
    BY <1>8, <1>10
  <2> QED BY <1>4, <1>7, <2>1, <2>2 DEF Good
<1>11. CASE s[n] \notin X
  <2>1. F[n] = Append(F[n - 1], s[n])
    BY <1>3, <1>4, <1>5, <1>11, Zenon
  <2>2. F[n - 1] \in Seq(S) /\ NoDuplicates(F[n - 1])
        /\ Listed(F[n - 1]) = {s[k] : k \in 1..(n - 1)} \ X
    BY <1>7 DEF Good
  <2>3. s[n] \notin Listed(F[n - 1])
    BY <1>9, <2>2
  <2>4. /\ F[n] \in Seq(S) /\ NoDuplicates(F[n])
        /\ Listed(F[n]) = Listed(F[n - 1]) \cup {s[n]}
    BY <1>6, <2>1, <2>2, <2>3, ListAppend
  <2>5. Listed(F[n]) = {s[k] : k \in 1..n} \ X
    BY <1>8, <1>11, <2>2, <2>4
  <2> QED BY <1>4, <2>4, <2>5 DEF Good
<1> QED BY <1>10, <1>11
=============================================================================
