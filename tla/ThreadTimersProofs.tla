------------------------- MODULE ThreadTimersProofs -------------------------
(***************************************************************************)
(* Proofs about ThreadTimers and its heap, for any timers, delays and      *)
(* bounds.                                                                 *)
(***************************************************************************)
EXTENDS ThreadTimers, ListTheorems, TLAPS

-----------------------------------------------------------------------------
(* The places of a heap.                                                    *)

\* G is the recursion of Ancestors, up to n.
Climbs(G, n) ==
    /\ G \in [0 .. n -> SUBSET Nat]
    /\ G[0] = {}
    /\ \A p \in 1 .. n : G[p] = {p} \cup G[p \div 2]

\* A parent's place is an earlier one, and places with the same parent are
\* neighbours.
LEMMA Halves ==
    ASSUME NEW p \in Nat
    PROVE  /\ p \div 2 \in Nat
           /\ p >= 1 => p \div 2 < p
           /\ p >= 2 => p \div 2 >= 1
           /\ p = 2 * (p \div 2) \/ p = 2 * (p \div 2) + 1
OBVIOUS

\* The recursion can be followed to any place,
LEMMA ClimbsExists ==
    ASSUME NEW n \in Nat
    PROVE  \E G : Climbs(G, n)
<1> DEFINE B == {m \in Nat : ~ \E G : Climbs(G, m)}
<1> SUFFICES ASSUME B # {} PROVE FALSE
  OBVIOUS
<1>1. PICK m \in B : \A k \in B : ~(k < m)
  BY Minimum
<1>2. CASE m = 0
  <2>1. Climbs([q \in 0 .. 0 |-> {}], 0)
    BY DEF Climbs
  <2> QED BY <1>2, <2>1
<1>3. CASE m > 0
  <2>1. m - 1 \in Nat /\ m - 1 \notin B
    BY <1>1, <1>3
  <2>2. PICK G : Climbs(G, m - 1)
    BY <2>1
  <2> DEFINE H == [q \in 0 .. m |-> IF q = m THEN {m} \cup G[m \div 2] ELSE G[q]]
  <2>3. m \div 2 \in 0 .. m - 1
    BY <1>3, Halves
  <2>4. G[m \div 2] \in SUBSET Nat
    BY <2>2, <2>3 DEF Climbs
  <2>5. H \in [0 .. m -> SUBSET Nat] /\ H[0] = {}
    BY <1>3, <2>2, <2>4 DEF Climbs
  <2>6. ASSUME NEW p \in 1 .. m PROVE H[p] = {p} \cup H[p \div 2]
    <3>1. p \div 2 \in 0 .. m /\ p \div 2 # m /\ p \div 2 <= m - 1
      BY Halves
    <3>2. CASE p = m
      BY <3>1, <3>2
    <3>3. CASE p # m
      <4>1. p \in 1 .. m - 1 /\ p \in 0 .. m
        BY <3>3
      <4> QED BY <2>2, <3>1, <3>3, <4>1 DEF Climbs
    <3> QED BY <3>2, <3>3
  <2>7. Climbs(H, m)
    BY <2>5, <2>6 DEF Climbs
  <2> QED BY <2>7
<1> QED BY <1>1, <1>2, <1>3

\* and always with the same result.
LEMMA ClimbsAgree ==
    ASSUME NEW n \in Nat, NEW m \in Nat, NEW G, NEW H, Climbs(G, n), Climbs(H, m),
           NEW k \in Nat, k <= n, k <= m
    PROVE  G[k] = H[k]
<1> DEFINE B == {q \in Nat : q <= n /\ q <= m /\ G[q] # H[q]}
<1> SUFFICES ASSUME B # {} PROVE FALSE
  OBVIOUS
<1>1. PICK q \in B : \A r \in B : ~(r < q)
  BY Minimum
<1>2. q # 0
  BY DEF Climbs
<1>3. q \in 1 .. n /\ q \in 1 .. m
  BY <1>2
<1>4. q \div 2 \in Nat /\ q \div 2 < q
  BY <1>2, Halves
<1>5. G[q \div 2] = H[q \div 2]
  BY <1>1, <1>4
<1> QED BY <1>3, <1>5 DEF Climbs

\* Ancestors is what its definition says.
LEMMA AncestorsDef ==
    ASSUME NEW p \in Nat
    PROVE  Ancestors[p] = IF p = 0 THEN {} ELSE {p} \cup Ancestors[p \div 2]
<1> DEFINE C(n) == CHOOSE G : Climbs(G, n)
           F == [n \in Nat |-> C(n)[n]]
<1>1. ASSUME NEW n \in Nat PROVE Climbs(C(n), n)
  BY ClimbsExists
<1>2. ASSUME NEW n \in Nat
      PROVE  F[n] = IF n = 0 THEN {} ELSE {n} \cup F[n \div 2]
  <2>1. n \div 2 \in Nat
    BY Halves
  <2>2. CASE n = 0
    <3>1. C(0)[0] = {}
      BY <1>1 DEF Climbs
    <3> QED BY <2>2, <3>1
  <2>3. CASE n # 0
    <3>1. n \in 1 .. n /\ n \div 2 <= n
      BY <2>3, Halves
    <3>2. Climbs(C(n), n) /\ Climbs(C(n \div 2), n \div 2)
      BY <1>1, <2>1
    <3>3. C(n)[n] = {n} \cup C(n)[n \div 2]
      BY <3>1, <3>2 DEF Climbs
    <3> HIDE DEF C
    <3>4. C(n)[n \div 2] = C(n \div 2)[n \div 2]
      BY <2>1, <3>1, <3>2, ClimbsAgree
    <3> QED BY <2>1, <2>3, <3>3, <3>4
  <2> QED BY <2>2, <2>3
<1> DEFINE IsRec(f) == f = [n \in Nat |-> IF n = 0 THEN {} ELSE {n} \cup f[n \div 2]]
<1>3. IsRec(F)
  <2> HIDE DEF F
  <2>1. F = [n \in Nat |-> F[n]]
    BY DEF F
  <2> QED BY <1>2, <2>1
<1>4. Ancestors = CHOOSE f : IsRec(f)
  BY DEF Ancestors
<1> HIDE DEF F
<1>5. IsRec(CHOOSE f : IsRec(f))
  BY <1>3
<1>6. IsRec(Ancestors)
  BY <1>4, <1>5
<1> QED BY <1>6

\* The ancestors of a place: a chain up to the root.
ChainUp(A, i) ==
    /\ A \subseteq 1 .. i /\ i \in A
    /\ \A q \in A : q > 1 => q \div 2 \in A
    /\ \A p, q \in A : p < q => p <= q \div 2

\* The places from i up to the root form one.
LEMMA AncestorsChain ==
    ASSUME NEW i \in Nat, i # 0
    PROVE  ChainUp(Ancestors[i], i)
<1> DEFINE B == {m \in Nat : m # 0 /\ ~ChainUp(Ancestors[m], m)}
<1> SUFFICES ASSUME B # {} PROVE FALSE
  OBVIOUS
<1>1. PICK m \in B : \A k \in B : ~(k < m)
  BY Minimum
<1>2. Ancestors[m] = {m} \cup Ancestors[m \div 2]
  BY AncestorsDef
<1>3. CASE m = 1
  <2>1. m \div 2 = 0
    BY <1>3
  <2>2. Ancestors[m] = {1}
    BY <1>2, <1>3, <2>1, AncestorsDef
  <2> QED BY <1>3, <2>2 DEF ChainUp
<1>4. CASE m # 1
  <2>1. m \div 2 \in Nat /\ m \div 2 >= 1 /\ m \div 2 < m
    BY <1>4, Halves
  <2>2. ChainUp(Ancestors[m \div 2], m \div 2)
    BY <1>1, <2>1
  <2> DEFINE A == Ancestors[m \div 2]
             h == m \div 2
  <2>3. A \subseteq 1 .. h /\ h \in A
    BY <2>2 DEF ChainUp
  <2>4. \A q \in A : q > 1 => q \div 2 \in A
    BY <2>2 DEF ChainUp
  <2>5. \A p, q \in A : p < q => p <= q \div 2
    BY <2>2 DEF ChainUp
  <2>6. Ancestors[m] = {m} \cup A
    BY <1>2
  <2> HIDE DEF A
  <2>7. ChainUp({m} \cup A, m)
    BY <2>1, <2>3, <2>4, <2>5 DEF ChainUp
  <2> QED BY <2>6, <2>7
<1> QED BY <1>3, <1>4

\* RisesTo takes the least of a set that is not empty.
LEMMA MinIsLeast ==
    ASSUME NEW B \in SUBSET Nat, B # {}
    PROVE  Min(B) \in B /\ \A y \in B : Min(B) <= y
<1>1. PICK n \in B : \A m \in B : ~(m < n)
  BY Minimum
<1>2. \A m \in B : n <= m
  BY <1>1
<1> QED BY <1>2 DEF Min

\* SinksTo takes the greatest of a set that is not empty.
LEMMA MaxIsGreatest ==
    ASSUME NEW n \in Nat, NEW B \in SUBSET (0 .. n), B # {}
    PROVE  Max(B) \in B /\ \A y \in B : y <= Max(B)
<1> DEFINE C == {k \in 0 .. n : n - k \in B}
<1>1. C \in SUBSET Nat /\ C # {}
  <2>1. PICK b \in B : TRUE
    OBVIOUS
  <2>2. n - b \in 0 .. n /\ n - (n - b) = b
    OBVIOUS
  <2> QED BY <2>2
<1>2. PICK k \in C : \A m \in C : ~(m < k)
  BY <1>1, Minimum
<1>3. ASSUME NEW y \in B PROVE n - k >= y
  <2>1. n - y \in C
    <3>1. n - y \in 0 .. n /\ n - (n - y) = y
      OBVIOUS
    <3> QED BY <3>1
  <2>2. ~(n - y < k)
    BY <1>2, <2>1
  <2> QED BY <2>2
<1>4. \E x \in B : \A y \in B : x >= y
  BY <1>3
<1>5. Max(B) \in B /\ \A y \in B : Max(B) >= y
  BY <1>4 DEF Max
<1> QED BY <1>5
-----------------------------------------------------------------------------
(* push_heap and pop_heap keep a heap's order.                              *)

\* Of two timers one fires before the other.
Precedence(S, nf, ord) ==
    /\ \A a \in S : ~Before(a, a, nf, ord)
    /\ \A a, b \in S : a # b => Before(a, b, nf, ord) \/ Before(b, a, nf, ord)
    /\ \A a, b, c \in S : Before(a, b, nf, ord) /\ Before(b, c, nf, ord)
                              => Before(a, c, nf, ord)

Ordered(h, nf, ord) == \A c \in 2 .. Len(h) : Before(h[c \div 2], h[c], nf, ord)

\* Nobody fires before the first.
LEMMA FirstPrecedes ==
    ASSUME NEW S, NEW nf, NEW ord, Precedence(S, nf, ord),
           NEW h \in Seq(S), Ordered(h, nf, ord)
    PROVE  \A i \in 2 .. Len(h) : Before(h[1], h[i], nf, ord)
<1> DEFINE B == {i \in Nat : i \in 2 .. Len(h) /\ ~Before(h[1], h[i], nf, ord)}
<1> SUFFICES ASSUME B # {} PROVE FALSE
  OBVIOUS
<1>1. PICK i \in B : \A k \in B : ~(k < i)
  BY Minimum
<1>2. i \div 2 \in Nat /\ i \div 2 >= 1 /\ i \div 2 < i
  BY Halves
<1>3. Before(h[i \div 2], h[i], nf, ord)
  BY DEF Ordered
<1>4. i \div 2 # 1
  BY <1>3
<1>5. Before(h[1], h[i \div 2], nf, ord)
  BY <1>1, <1>2, <1>4
<1>6. h[1] \in S /\ h[i] \in S /\ h[i \div 2] \in S
  BY <1>2
<1> QED BY <1>3, <1>5, <1>6 DEF Precedence

\* Where the element that rises stops.
LEMMA RestingPlace ==
    ASSUME NEW S, NEW nf, NEW ord, Precedence(S, nf, ord),
           NEW h \in Seq(S), NoDuplicates(h), NEW i \in DOMAIN h
    PROVE  LET d == RisesTo(h, i, nf, ord) IN
           /\ d \in Ancestors[i]
           /\ \A q \in Ancestors[i] : d <= q /\ q < i => Before(h[i], h[q], nf, ord)
           /\ d > 1 => Before(h[d \div 2], h[i], nf, ord)
<1> DEFINE A == Ancestors[i]
           d == RisesTo(h, i, nf, ord)
           P == {p \in A : \A q \in A : p <= q /\ q < i => Before(h[i], h[q], nf, ord)}
<1>1. i \in Nat /\ i # 0 /\ i <= Len(h)
  OBVIOUS
<1>2. ChainUp(A, i)
  BY <1>1, AncestorsChain
<1> HIDE DEF A
<1>3. P \in SUBSET Nat /\ i \in P
  <2>1. A \subseteq 1 .. i /\ i \in A
    BY <1>2 DEF ChainUp
  <2>2. A \subseteq Nat
    BY <2>1
  <2>3. \A q \in A : ~(i <= q /\ q < i)
    BY <1>1, <2>2
  <2> QED BY <2>1, <2>2, <2>3
<1>4. d = Min(P)
  BY DEF RisesTo, A
<1>5. d \in P /\ \A y \in P : d <= y
  BY <1>3, <1>4, MinIsLeast
<1>6. ASSUME d > 1 PROVE Before(h[d \div 2], h[i], nf, ord)
  <2>0. d \in A /\ d \in 1 .. i
    <3>1. A \subseteq 1 .. i
      BY <1>2 DEF ChainUp
    <3> QED BY <1>5, <3>1
  <2>1. /\ d \in A /\ d \in 1 .. i
        /\ d \div 2 \in Nat /\ d \div 2 >= 1 /\ d \div 2 < d /\ d \div 2 \in A
    <3> HIDE DEF d
    <3>1. d \in Nat /\ d >= 2
      BY <1>6, <2>0
    <3>2. d \div 2 \in A
      BY <1>2, <1>6, <2>0 DEF ChainUp
    <3> QED BY <2>0, <3>1, <3>2, Halves
  <2>2. d \div 2 \notin P
    BY <1>5, <2>1
  <2>3. PICK q \in A : d \div 2 <= q /\ q < i /\ ~Before(h[i], h[q], nf, ord)
    BY <2>1, <2>2
  <2>4. q \in 1 .. i
    BY <1>2 DEF ChainUp
  <2>5. q < d
    BY <1>5, <2>1, <2>3, <2>4
  <2>6. q <= d \div 2
    BY <1>2, <2>1, <2>5 DEF ChainUp
  <2>7. q = d \div 2
    BY <2>1, <2>3, <2>4, <2>6
  <2>8. h[q] \in S /\ h[i] \in S /\ h[q] # h[i]
    BY <1>1, <2>3, <2>4 DEF NoDuplicates
  <2> QED BY <2>3, <2>7, <2>8 DEF Precedence
<1> QED BY <1>5, <1>6 DEF A

\* push_heap: only the element at i may precede its parent.
LEMMA PushKeeps ==
    ASSUME NEW S, NEW nf, NEW ord, Precedence(S, nf, ord),
           NEW h \in Seq(S), NoDuplicates(h), NEW i \in DOMAIN h,
           \A c \in 2 .. Len(h) : c # i => Before(h[c \div 2], h[c], nf, ord),
           \A c \in 2 .. Len(h) : c \div 2 = i /\ i > 1
               => Before(h[i \div 2], h[c], nf, ord)
    PROVE  LET g == PushHeap(h, i, nf, ord) IN
           /\ g \in Seq(S) /\ Len(g) = Len(h)
           /\ NoDuplicates(g) /\ Listed(g) = Listed(h)
           /\ Ordered(g, nf, ord)
           /\ i > 1 /\ Before(h[i], h[i \div 2], nf, ord) => g[i] # h[i]
<1> DEFINE A == Ancestors[i]
           d == RisesTo(h, i, nf, ord)
           src(q) == IF q = d THEN i ELSE IF q \in A /\ q > d THEN q \div 2 ELSE q
           g == PushHeap(h, i, nf, ord)
           n == Len(h)
<1>1. i \in Nat /\ i # 0 /\ i <= n /\ n \in Nat /\ DOMAIN h = 1 .. n
  OBVIOUS
<1>2. ChainUp(A, i)
  BY <1>1, AncestorsChain
<1>3. /\ d \in A
      /\ \A q \in A : d <= q /\ q < i => Before(h[i], h[q], nf, ord)
      /\ d > 1 => Before(h[d \div 2], h[i], nf, ord)
  BY RestingPlace
<1>4. g = [q \in 1 .. n |-> IF q = d THEN h[i] ELSE IF q \in A /\ q > d THEN h[q \div 2] ELSE h[q]]
  BY <1>1 DEF PushHeap
<1> HIDE DEF A, d, g
<1>5. /\ A \subseteq 1 .. i /\ i \in A /\ d \in 1 .. i
      /\ \A q \in A : q > 1 => q \div 2 \in A
      /\ \A p, q \in A : p < q => p <= q \div 2
  BY <1>2, <1>3 DEF ChainUp
<1>6. ASSUME NEW q \in 1 .. n PROVE src(q) \in 1 .. n /\ g[q] = h[src(q)]
  <2>1. q \in A /\ q > d => q \div 2 \in 1 .. n
    BY <1>1, <1>5
  <2> QED BY <1>1, <1>4, <2>1
<1>7. g \in Seq(S) /\ Len(g) = n /\ DOMAIN g = 1 .. n
  <2>1. g \in [1 .. n -> S]
    <3>1. \A q \in 1 .. n : g[q] \in S
      BY <1>6
    <3> QED BY <1>4, <3>1
  <2> QED BY <1>1, <2>1
<1>8. ASSUME NEW p \in 1 .. n, NEW q \in 1 .. n, src(p) = src(q) PROVE p = q
  <2>1. p \in A /\ p > d => d <= p \div 2 /\ p \div 2 < p /\ p \div 2 \in Nat /\ p \div 2 \in A /\ p \div 2 < i
    BY <1>1, <1>3, <1>5, Halves
  <2>2. q \in A /\ q > d => d <= q \div 2 /\ q \div 2 < q /\ q \div 2 \in Nat /\ q \div 2 \in A /\ q \div 2 < i
    BY <1>1, <1>3, <1>5, Halves
  <2>3. p \in A /\ q \in A /\ p > d /\ q > d /\ p \div 2 = q \div 2 => p = q
    <3>1. ASSUME p \in A, q \in A, p > d, q > d, p \div 2 = q \div 2, p < q PROVE FALSE
      BY <1>5, <3>1, <2>1
    <3>2. ASSUME p \in A, q \in A, p > d, q > d, p \div 2 = q \div 2, q < p PROVE FALSE
      BY <1>5, <3>2, <2>2
    <3> QED BY <3>1, <3>2
  <2> QED BY <1>3, <1>5, <1>8, <2>1, <2>2, <2>3
<1>9. NoDuplicates(g)
  <2> SUFFICES ASSUME NEW p \in 1 .. n, NEW q \in 1 .. n, g[p] = g[q] PROVE p = q
    BY <1>7 DEF NoDuplicates
  <2>1. src(p) \in DOMAIN h /\ src(q) \in DOMAIN h /\ h[src(p)] = h[src(q)]
    BY <1>1, <1>6
  <2>2. src(p) = src(q)
    BY <2>1 DEF NoDuplicates
  <2> QED BY <1>8, <2>2
<1>10. ASSUME NEW p \in 1 .. n PROVE \E q \in 1 .. n : src(q) = p
  <2>1. CASE p \notin A \/ p < d
    BY <1>3, <1>5, <2>1
  <2>2. CASE p = i
    BY <1>1, <1>5, <2>2
  <2>3. CASE p \in A /\ p >= d /\ p # i
    <3> DEFINE U == {q \in A : p < q}
    <3>1. U \in SUBSET Nat /\ i \in U
      <4>1. p \in 1 .. i
        BY <1>5, <2>3
      <4>2. p < i
        BY <1>1, <2>3, <4>1
      <4>3. A \subseteq Nat
        BY <1>5
      <4> QED BY <1>5, <4>2, <4>3
    <3>2. PICK q \in U : \A r \in U : ~(r < q)
      BY <3>1, Minimum
    <3>3. q \in A /\ p < q /\ q > 1 /\ q \in 1 .. i
      BY <1>5, <3>2
    <3>4. q \div 2 \in A /\ p <= q \div 2 /\ q \div 2 < q /\ q \div 2 \in Nat
      BY <1>5, <2>3, <3>3, Halves
    <3>5. q \div 2 = p
      BY <3>2, <3>4
    <3>6. q \in 1 .. n /\ q > d
      BY <1>1, <1>5, <2>3, <3>3
    <3> QED BY <3>3, <3>5, <3>6
  <2> QED BY <1>5, <2>1, <2>2, <2>3
<1>11. Listed(g) = Listed(h)
  <2> HIDE DEF src
  <2>1. ASSUME NEW x \in Listed(g) PROVE x \in Listed(h)
    BY <1>1, <1>6, <1>7 DEF Listed
  <2>2. ASSUME NEW x \in Listed(h) PROVE x \in Listed(g)
    <3>1. PICK p \in 1 .. n : x = h[p]
      BY <1>1 DEF Listed
    <3>2. PICK q \in 1 .. n : src(q) = p
      BY <1>10
    <3>3. g[q] = x
      BY <1>6, <3>1, <3>2
    <3> QED BY <1>7, <3>3 DEF Listed
  <2> QED BY <2>1, <2>2
<1>12. Ordered(g, nf, ord)
  <2> DEFINE LT(a, b) == Before(a, b, nf, ord)
  <2> SUFFICES ASSUME NEW c \in 2 .. n PROVE LT(g[c \div 2], g[c])
    BY <1>7 DEF Ordered
  <2> DEFINE p == c \div 2
  <2>1. p \in 1 .. n /\ c \in 1 .. n /\ p < c /\ p \in Nat
    BY Halves
  <2>2. c # i => LT(h[p], h[c])
    OBVIOUS
  <2>3. c \in A => p \in A
    BY <1>5
  <2>4. \A a, b, e \in S : LT(a, b) /\ LT(b, e) => LT(a, e)
    BY DEF Precedence
  <2>5. \A q \in A : d <= q /\ q < i => LT(h[i], h[q])
    BY <1>3
  <2>6. d > 1 => LT(h[d \div 2], h[i])
    BY <1>3
  <2>7. c \div 2 = i /\ i > 1 => LT(h[i \div 2], h[c])
    OBVIOUS
  <2>8. \A q \in 1 .. n : h[q] \in S
    OBVIOUS
  <2>9. p > 1 => p \div 2 \in 1 .. n /\ (p # i => LT(h[p \div 2], h[p]))
    <3>1. ASSUME p > 1 PROVE p \in 2 .. n /\ p \div 2 \in 1 .. n
      BY <2>1, <3>1, Halves
    <3> QED BY <3>1
  <2> SUFFICES LT(g[p], g[c])
    OBVIOUS
  <2> HIDE DEF LT, p
  <2>10. CASE c = d
    <3>1. p \in A /\ p < d /\ g[c] = h[i] /\ g[p] = h[p]
      BY <1>3, <1>4, <2>1, <2>3, <2>10
    <3> QED BY <2>6, <2>10, <3>1 DEF p
  <2>11. CASE c \in A /\ c > d
    <3>1. d <= p
      BY <1>3, <1>5, <2>11 DEF p
    <3>2. g[c] = h[p]
      BY <1>4, <2>1, <2>11 DEF p
    <3>3. p < i
      BY <1>5, <2>1, <2>11
    <3>4. CASE p = d
      BY <1>4, <2>1, <2>3, <2>5, <2>11, <3>1, <3>2, <3>3, <3>4
    <3>5. CASE p > d
      <4>1. g[p] = h[p \div 2]
        BY <1>4, <2>1, <2>3, <2>11, <3>5
      <4>2. p > 1
        <5>1. d \in Nat /\ d >= 1
          BY <1>5
        <5> QED BY <2>1, <3>5, <5>1
      <4> QED BY <2>9, <3>2, <3>3, <4>1, <4>2
    <3> QED BY <1>5, <2>1, <3>1, <3>4, <3>5
  <2>12. CASE c \in A /\ c < d
    BY <1>4, <1>5, <2>1, <2>2, <2>12
  <2>13. CASE c \notin A
    <3>1. g[c] = h[c] /\ c # i /\ c # d
      BY <1>3, <1>4, <1>5, <2>1, <2>13
    <3>2. LT(h[p], h[c])
      BY <2>2, <3>1
    <3>3. CASE p \notin A \/ p < d
      <4>1. p # d /\ ~(p \in A /\ p > d)
        BY <1>3, <1>5, <2>1, <3>3
      <4>2. g[p] = h[p]
        BY <1>4, <2>1, <4>1
      <4> QED BY <3>1, <3>2, <4>2
    <3>4. CASE p = d
      <4>1. g[p] = h[i]
        BY <1>4, <2>1, <3>4
      <4>2. CASE d = i
        BY <3>1, <3>2, <3>4, <4>1, <4>2
      <4>3. CASE d < i
        <5>1. LT(h[i], h[p])
          BY <1>3, <1>5, <2>5, <3>4, <4>3
        <5>2. h[i] \in S /\ h[p] \in S /\ h[c] \in S
          BY <1>1, <2>1, <2>8
        <5> QED BY <2>4, <3>1, <3>2, <4>1, <5>1, <5>2
      <4> QED BY <1>5, <4>2, <4>3
    <3>5. CASE p \in A /\ p > d
      <4>1. g[p] = h[p \div 2] /\ p > 1
        BY <1>4, <1>5, <2>1, <3>5
      <4>2. CASE p = i
        BY <2>7, <3>1, <4>1, <4>2 DEF p
      <4>3. CASE p # i
        <5>1. LT(h[p \div 2], h[p])
          BY <2>9, <4>1, <4>3
        <5>2. h[p \div 2] \in S /\ h[p] \in S /\ h[c] \in S
          BY <2>1, <2>8, <2>9, <4>1
        <5> QED BY <2>4, <3>1, <3>2, <4>1, <5>1, <5>2
      <4> QED BY <4>2, <4>3
    <3> QED BY <1>5, <2>1, <3>3, <3>4, <3>5
  <2>14. d \in Nat /\ c \in Nat
    BY <1>5
  <2>15. c = d \/ c > d \/ c < d
    BY <2>14
  <2> QED BY <2>10, <2>11, <2>12, <2>13, <2>15
<1>13. ASSUME i > 1, Before(h[i], h[i \div 2], nf, ord) PROVE g[i] # h[i]
  <2>1. i \div 2 \in A /\ i \div 2 < i /\ i \div 2 \in 1 .. n
    BY <1>1, <1>5, <1>13, Halves
  <2>2. d # i
    <3> SUFFICES ASSUME d = i PROVE FALSE
      OBVIOUS
    <3>1. Before(h[i \div 2], h[i], nf, ord)
      BY <1>3, <1>13
    <3>2. h[i] \in S /\ h[i \div 2] \in S
      BY <2>1
    <3> QED BY <1>13, <3>1, <3>2 DEF Precedence
  <2>3. d < i
    BY <1>5, <2>2
  <2>4. g[i] = h[i \div 2]
    BY <1>1, <1>4, <1>5, <2>3
  <2> QED BY <1>1, <2>1, <2>4 DEF NoDuplicates
<1> QED BY <1>7, <1>9, <1>11, <1>12, <1>13 DEF g

\* The child that fires first.
LEMMA FirstChildIs ==
    ASSUME NEW S, NEW nf, NEW ord, Precedence(S, nf, ord),
           NEW h \in Seq(S), NoDuplicates(h), NEW n \in Nat, n <= Len(h)
    PROVE  /\ \A p \in 1 .. n : 2 * p <= n =>
                  /\ FirstChild(h, n, p, nf, ord) \in 2 .. n
                  /\ FirstChild(h, n, p, nf, ord) \div 2 = p
           /\ \A c \in 2 .. n : c # FirstChild(h, n, c \div 2, nf, ord) =>
                  Before(h[FirstChild(h, n, c \div 2, nf, ord)], h[c], nf, ord)
<1>1. ASSUME NEW p \in 1 .. n, 2 * p <= n
      PROVE  /\ FirstChild(h, n, p, nf, ord) \in 2 .. n
             /\ FirstChild(h, n, p, nf, ord) \div 2 = p
  <2>1. (2 * p) \div 2 = p /\ (2 * p + 1) \div 2 = p
    OBVIOUS
  <2>2. 2 * p \in 2 .. n
    BY <1>1
  <2>3. 2 * p # n => 2 * p + 1 \in 2 .. n
    BY <1>1
  <2> QED BY <2>1, <2>2, <2>3 DEF FirstChild
<1>2. ASSUME NEW c \in 2 .. n, c # FirstChild(h, n, c \div 2, nf, ord)
      PROVE  Before(h[FirstChild(h, n, c \div 2, nf, ord)], h[c], nf, ord)
  <2> DEFINE p == c \div 2
  <2>1. p \in Nat /\ p >= 1 /\ (c = 2 * p \/ c = 2 * p + 1)
    BY Halves
  <2> HIDE DEF p
  <2>2. 2 * p <= n
    BY <2>1
  <2>3. CASE c = 2 * p
    <3>1. /\ 2 * p # n /\ ~Before(h[2 * p], h[2 * p + 1], nf, ord)
          /\ FirstChild(h, n, p, nf, ord) = 2 * p + 1
      BY <1>2, <2>3 DEF FirstChild, p
    <3>2. 2 * p \in 1 .. Len(h) /\ 2 * p + 1 \in 1 .. Len(h) /\ 2 * p # 2 * p + 1
      BY <2>1, <2>2, <3>1
    <3>3. h[2 * p] \in S /\ h[2 * p + 1] \in S /\ h[2 * p] # h[2 * p + 1]
      BY <3>2 DEF NoDuplicates
    <3>4. Before(h[2 * p + 1], h[2 * p], nf, ord)
      BY <3>1, <3>3 DEF Precedence
    <3> QED BY <2>3, <3>1, <3>4 DEF p
  <2>4. CASE c = 2 * p + 1
    <3>1. 2 * p # n
      BY <2>1, <2>4
    <3>2. Before(h[2 * p], h[2 * p + 1], nf, ord) /\ FirstChild(h, n, p, nf, ord) = 2 * p
      BY <1>2, <2>4, <3>1 DEF FirstChild, p
    <3> QED BY <2>4, <3>2 DEF p
  <2> QED BY <2>1, <2>3, <2>4
<1> QED BY <1>1, <1>2

\* The way down: a chain from the root.
LEMMA SinkChain ==
    ASSUME NEW S, NEW nf, NEW ord, Precedence(S, nf, ord),
           NEW h \in Seq(S), NoDuplicates(h), NEW n \in Nat, n >= 1, n <= Len(h)
    PROVE  LET W == SinkPath(h, n, nf, ord) IN
           /\ W \subseteq 1 .. n /\ 1 \in W
           /\ \A q \in W : q > 1 => /\ q \div 2 \in W
                                    /\ q = FirstChild(h, n, q \div 2, nf, ord)
           /\ \A p \in W : 2 * p <= n => FirstChild(h, n, p, nf, ord) \in W
           /\ \A p, q \in W : p < q => p <= q \div 2
<1> DEFINE W == SinkPath(h, n, nf, ord)
           ch(p) == FirstChild(h, n, p, nf, ord)
<1>1. W = {p \in 1 .. n : \A q \in Ancestors[p] \ {1} : q = ch(q \div 2)}
  BY DEF SinkPath
<1>2. /\ \A p \in 1 .. n : 2 * p <= n => ch(p) \in 2 .. n /\ ch(p) \div 2 = p
  BY FirstChildIs
<1> HIDE DEF W, ch
<1>3. 1 \in W
  <2>1. ChainUp(Ancestors[1], 1)
    BY AncestorsChain
  <2>2. Ancestors[1] \ {1} = {}
    BY <2>1 DEF ChainUp
  <2> QED BY <1>1, <2>2
<1>4. ASSUME NEW q \in 1 .. n, q > 1
      PROVE  q \in W <=> q \div 2 \in W /\ q = ch(q \div 2)
  <2>1. q \in Nat /\ q # 0 /\ q \div 2 \in 1 .. n /\ q \div 2 < q
    BY <1>4, Halves
  <2>2. Ancestors[q] = {q} \cup Ancestors[q \div 2]
    BY <2>1, AncestorsDef
  <2>3. q \in W <=> \A r \in Ancestors[q] \ {1} : r = ch(r \div 2)
    BY <1>1
  <2>4. q \div 2 \in W <=> \A r \in Ancestors[q \div 2] \ {1} : r = ch(r \div 2)
    BY <1>1, <2>1
  <2>5. Ancestors[q] \ {1} = {q} \cup (Ancestors[q \div 2] \ {1})
    BY <1>4, <2>2
  <2> QED BY <2>3, <2>4, <2>5, Zenon
<1>5. W \subseteq 1 .. n
  BY <1>1
<1>6. ASSUME NEW p \in W, 2 * p <= n PROVE ch(p) \in W
  <2>1. ch(p) \in 2 .. n /\ ch(p) \div 2 = p
    BY <1>2, <1>5, <1>6
  <2> QED BY <1>4, <2>1
<1>7. ASSUME NEW x \in W, NEW y \in W, x < y PROVE x <= y \div 2
  <2> DEFINE B == {q \in Nat : q \in W /\ \E p \in W : p < q /\ ~(p <= q \div 2)}
  <2>1. ASSUME B # {} PROVE FALSE
    <3>1. PICK q \in B : \A k \in B : ~(k < q)
      BY <2>1, Minimum
    <3>2. PICK p \in W : p < q /\ ~(p <= q \div 2)
      BY <3>1
    <3>3. p \in 1 .. n /\ q \in 1 .. n /\ q > 1
      BY <1>5, <3>1, <3>2
    <3>4. /\ q \div 2 \in Nat /\ q \div 2 >= 1 /\ q \div 2 < q
          /\ p \div 2 \in Nat /\ p \div 2 <= q \div 2
      BY <3>2, <3>3, Halves
    <3>5. q \div 2 < p /\ p > 1
      BY <3>2, <3>3, <3>4
    <3>6. q \div 2 \in W /\ q = ch(q \div 2) /\ p \div 2 \in W /\ p = ch(p \div 2)
      BY <1>4, <3>1, <3>3, <3>5
    <3>7. p \notin B
      BY <3>1, <3>2, <3>3
    <3>8. q \div 2 <= p \div 2
      BY <3>3, <3>5, <3>6, <3>7
    <3>9. p \div 2 = q \div 2
      BY <3>4, <3>8
    <3> QED BY <3>2, <3>3, <3>6, <3>9
  <2>2. y \in Nat
    BY <1>5
  <2> QED BY <1>7, <2>1, <2>2
<1>8. \A q \in W : q > 1 => q \div 2 \in W /\ q = ch(q \div 2)
  BY <1>4, <1>5
<1> QED BY <1>3, <1>5, <1>6, <1>7, <1>8 DEF W, ch

\* Where the element that sinks stops.
LEMMA SinkingPlace ==
    ASSUME NEW S, NEW nf, NEW ord, Precedence(S, nf, ord),
           NEW h \in Seq(S), NoDuplicates(h), NEW n \in Nat, n >= 1, Len(h) = n + 1
    PROVE  LET W == SinkPath(h, n, nf, ord)
               d == SinksTo(h, n, nf, ord) IN
           /\ d \in W
           /\ \A q \in W : 1 < q /\ q <= d => Before(h[q], h[n + 1], nf, ord)
           /\ 2 * d <= n => Before(h[n + 1], h[FirstChild(h, n, d, nf, ord)], nf, ord)
<1> DEFINE W == SinkPath(h, n, nf, ord)
           d == SinksTo(h, n, nf, ord)
           ch(p) == FirstChild(h, n, p, nf, ord)
           P == {p \in W : \A q \in W : 1 < q /\ q <= p => Before(h[q], h[n + 1], nf, ord)}
<1>1. /\ W \subseteq 1 .. n /\ 1 \in W
      /\ \A p \in W : 2 * p <= n => ch(p) \in W
      /\ \A p, q \in W : p < q => p <= q \div 2
  BY SinkChain
<1>2. \A p \in 1 .. n : 2 * p <= n => ch(p) \in 2 .. n /\ ch(p) \div 2 = p
  <2>1. n <= Len(h)
    OBVIOUS
  <2>2. /\ \A p \in 1 .. n : 2 * p <= n => ch(p) \in 2 .. n /\ ch(p) \div 2 = p
        /\ \A c \in 2 .. n : c # ch(c \div 2) => Before(h[ch(c \div 2)], h[c], nf, ord)
    BY <2>1, FirstChildIs
  <2> QED BY <2>2
<1>3. d = Max(P)
  BY DEF SinksTo
<1> HIDE DEF W, ch, d
<1>4. P \in SUBSET (0 .. n) /\ 1 \in P
  <2>1. W \subseteq 0 .. n
    BY <1>1
  <2>2. \A q \in W : ~(1 < q /\ q <= 1)
    BY <2>1
  <2> QED BY <1>1, <2>1, <2>2
<1>5. d \in P /\ \A y \in P : y <= d
  BY <1>3, <1>4, MaxIsGreatest
<1>6. d \in W /\ d \in 1 .. n
  BY <1>1, <1>5
<1>7. ASSUME 2 * d <= n PROVE Before(h[n + 1], h[ch(d)], nf, ord)
  <2> DEFINE b == ch(d)
  <2>1. b \in W /\ b \in 2 .. n /\ b \div 2 = d
    BY <1>1, <1>2, <1>6, <1>7
  <2> HIDE DEF b
  <2>2. d < b
    BY <1>6, <2>1, Halves
  <2>3. b \notin P
    BY <1>5, <1>6, <2>1, <2>2
  <2>4. PICK q \in W : 1 < q /\ q <= b /\ ~Before(h[q], h[n + 1], nf, ord)
    BY <2>1, <2>3
  <2>5. q \in 1 .. n
    BY <1>1
  <2>6. d < q
    BY <1>5, <1>6, <2>4, <2>5
  <2>7. q = b
    <3>1. q < b => q <= d
      BY <1>1, <2>1
    <3> QED BY <1>6, <2>1, <2>4, <2>5, <2>6, <3>1
  <2>8. h[q] \in S /\ h[n + 1] \in S /\ h[q] # h[n + 1]
    <3>1. q \in DOMAIN h /\ n + 1 \in DOMAIN h /\ q # n + 1
      BY <2>5
    <3> QED BY <3>1 DEF NoDuplicates
  <2>9. Before(h[n + 1], h[b], nf, ord)
    BY <2>4, <2>7, <2>8 DEF Precedence
  <2> QED BY <2>9 DEF b
<1> QED BY <1>5, <1>7 DEF W, d, ch

\* pop_heap and removeLast: the root leaves.
LEMMA PopKeeps ==
    ASSUME NEW S, NEW nf, NEW ord, Precedence(S, nf, ord),
           NEW h \in Seq(S), NoDuplicates(h), h # <<>>, Ordered(h, nf, ord)
    PROVE  LET g == PopHeap(h, nf, ord) IN
           /\ g \in Seq(S) /\ Len(g) = Len(h) - 1
           /\ NoDuplicates(g) /\ Listed(g) = Listed(h) \ {h[1]}
           /\ Ordered(g, nf, ord)
<1> DEFINE n == Len(h) - 1
           W == SinkPath(h, n, nf, ord)
           d == SinksTo(h, n, nf, ord)
           ch(p) == FirstChild(h, n, p, nf, ord)
           src(q) == IF q = d THEN n + 1 ELSE IF q \in W /\ q < d THEN ch(q) ELSE q
           g == PopHeap(h, nf, ord)
<1>1. n \in Nat /\ Len(h) = n + 1 /\ DOMAIN h = 1 .. n + 1
  OBVIOUS
<1>2. CASE n = 0
  <2>1. g = <<>>
    BY <1>2 DEF PopHeap
  <2>2. DOMAIN h = {1}
    <3>1. Len(h) = 1
      BY <1>2
    <3>2. DOMAIN h = 1 .. 1
      BY <3>1
    <3>3. 1 .. 1 = {1}
      OBVIOUS
    <3> QED BY <3>2, <3>3
  <2>3. Listed(h) = {h[1]}
    BY <2>2, Zenon DEF Listed
  <2>4. /\ <<>> \in Seq(S) /\ Len(<<>>) = 0 /\ Listed(<<>>) = {}
        /\ NoDuplicates(<<>>) /\ Ordered(<<>>, nf, ord)
    BY DEF Listed, NoDuplicates, Ordered
  <2> HIDE DEF g
  <2>5. /\ g \in Seq(S) /\ Len(g) = Len(h) - 1
        /\ NoDuplicates(g) /\ Listed(g) = Listed(h) \ {h[1]}
        /\ Ordered(g, nf, ord)
    BY <1>1, <1>2, <2>1, <2>3, <2>4
  <2> QED BY <2>5 DEF g
<1>3. CASE n >= 1
  <2>1. /\ W \subseteq 1 .. n /\ 1 \in W
        /\ \A q \in W : q > 1 => q \div 2 \in W /\ q = ch(q \div 2)
        /\ \A p \in W : 2 * p <= n => ch(p) \in W
        /\ \A p, q \in W : p < q => p <= q \div 2
    BY <1>1, <1>3, SinkChain
  <2>2. /\ \A p \in 1 .. n : 2 * p <= n => ch(p) \in 2 .. n /\ ch(p) \div 2 = p
        /\ \A c \in 2 .. n : c # ch(c \div 2) => Before(h[ch(c \div 2)], h[c], nf, ord)
    <3>1. n <= Len(h)
      BY <1>1
    <3> QED BY <1>1, <3>1, FirstChildIs
  <2>3. /\ d \in W
        /\ \A q \in W : 1 < q /\ q <= d => Before(h[q], h[n + 1], nf, ord)
        /\ 2 * d <= n => Before(h[n + 1], h[ch(d)], nf, ord)
    BY <1>1, <1>3, SinkingPlace
  <2>4. g = [q \in 1 .. n |-> IF q = d THEN h[n + 1] ELSE IF q \in W /\ q < d THEN h[ch(q)] ELSE h[q]]
    BY <1>3 DEF PopHeap
  <2> HIDE DEF W, d, ch, g, n
  <2>5. d \in 1 .. n /\ d \in Nat
    BY <2>1, <2>3
  <2>6. ASSUME NEW q \in W, q < d
        PROVE  ch(q) \in W /\ ch(q) \in 2 .. n /\ ch(q) \div 2 = q /\ ch(q) <= d
    <3>1. q \in 1 .. n /\ q <= d \div 2
      BY <2>1, <2>3, <2>6
    <3>2. 2 * q <= n
      BY <1>1, <2>5, <3>1
    <3>3. ch(q) \in W /\ ch(q) \in 2 .. n /\ ch(q) \div 2 = q
      BY <2>1, <2>2, <3>1, <3>2
    <3>4. ch(q) > d => d <= q
      BY <2>1, <2>3, <3>3
    <3> QED BY <2>5, <2>6, <3>1, <3>3, <3>4
  <2>7. ASSUME NEW q \in 1 .. n PROVE src(q) \in 2 .. n + 1 /\ g[q] = h[src(q)]
    <3>1. q = d => src(q) \in 2 .. n + 1
      BY <1>1, <1>3
    <3>2. q \in W /\ q < d => src(q) \in 2 .. n + 1
      BY <1>1, <2>6
    <3>3. q # d /\ ~(q \in W /\ q < d) => src(q) \in 2 .. n + 1
      <4>1. q = 1 => q = d \/ (q \in W /\ q < d)
        BY <2>1, <2>5
      <4> QED BY <1>1, <4>1
    <3> QED BY <2>4, <3>1, <3>2, <3>3
  <2>8. g \in Seq(S) /\ Len(g) = n /\ DOMAIN g = 1 .. n
    <3>1. \A q \in 1 .. n : g[q] \in S
      <4> HIDE DEF src
      <4>1. \A q \in 1 .. n : src(q) \in DOMAIN h
        BY <1>1, <2>7
      <4> QED BY <2>7, <4>1
    <3>2. g \in [1 .. n -> S]
      BY <2>4, <3>1
    <3> QED BY <1>1, <3>2
  <2>9. ASSUME NEW p \in 1 .. n, NEW q \in 1 .. n, src(p) = src(q) PROVE p = q
    <3>1. p \in W /\ p < d => ch(p) \in W /\ ch(p) \in 2 .. n /\ ch(p) \div 2 = p /\ ch(p) <= d
      BY <2>6
    <3>2. q \in W /\ q < d => ch(q) \in W /\ ch(q) \in 2 .. n /\ ch(q) \div 2 = q /\ ch(q) <= d
      BY <2>6
    <3> QED BY <1>1, <2>3, <2>5, <2>9, <3>1, <3>2
  <2>10. NoDuplicates(g)
    <3> SUFFICES ASSUME NEW p \in 1 .. n, NEW q \in 1 .. n, g[p] = g[q] PROVE p = q
      BY <2>8 DEF NoDuplicates
    <3> HIDE DEF src
    <3>1. src(p) \in DOMAIN h /\ src(q) \in DOMAIN h /\ h[src(p)] = h[src(q)]
      BY <1>1, <2>7
    <3>2. src(p) = src(q)
      BY <3>1 DEF NoDuplicates
    <3> QED BY <2>9, <3>2
  <2>11. ASSUME NEW p \in 2 .. n + 1 PROVE \E q \in 1 .. n : src(q) = p
    <3>1. CASE p = n + 1
      BY <2>5, <3>1
    <3>2. CASE p # n + 1 /\ (p \notin W \/ p > d)
      BY <1>1, <2>3, <2>5, <3>2
    <3>3. CASE p \in W /\ p <= d
      <4>1. p \div 2 \in W /\ p = ch(p \div 2) /\ p \div 2 < p /\ p \div 2 \in Nat
        BY <1>1, <2>1, <3>3, Halves
      <4>2. p \div 2 < d /\ p \div 2 \in 1 .. n
        BY <1>1, <2>1, <2>5, <3>3, <4>1
      <4> QED BY <4>1, <4>2
    <3> QED BY <1>1, <2>5, <3>1, <3>2, <3>3
  <2>12. Listed(g) = Listed(h) \ {h[1]}
    <3> HIDE DEF src
    <3>1. ASSUME NEW x \in Listed(g) PROVE x \in Listed(h) \ {h[1]}
      <4>1. PICK q \in 1 .. n : x = g[q]
        BY <2>8 DEF Listed
      <4>2. src(q) \in DOMAIN h /\ src(q) # 1 /\ 1 \in DOMAIN h /\ x = h[src(q)]
        BY <1>1, <2>7, <4>1
      <4> QED BY <4>2 DEF Listed, NoDuplicates
    <3>2. ASSUME NEW x \in Listed(h) \ {h[1]} PROVE x \in Listed(g)
      <4>1. PICK p \in 1 .. n + 1 : x = h[p]
        BY <1>1 DEF Listed
      <4>2. p \in 2 .. n + 1
        BY <1>1, <3>2, <4>1
      <4>3. PICK q \in 1 .. n : src(q) = p
        BY <2>11, <4>2
      <4>4. g[q] = x
        BY <2>7, <4>1, <4>3
      <4> QED BY <2>8, <4>4 DEF Listed
    <3> QED BY <3>1, <3>2
  <2>13. Ordered(g, nf, ord)
    <3> DEFINE LT(a, b) == Before(a, b, nf, ord)
    <3> SUFFICES ASSUME NEW c \in 2 .. n PROVE LT(g[c \div 2], g[c])
      BY <2>8 DEF Ordered
    <3> DEFINE p == c \div 2
    <3>1. p \in 1 .. n /\ c \in 1 .. n /\ p < c /\ p \in Nat /\ 2 * p <= n
      BY <1>1, Halves
    <3>2. ASSUME NEW q \in 2 .. n PROVE LT(h[q \div 2], h[q])
      BY <1>1 DEF Ordered
    <3>3. c # ch(p) => LT(h[ch(p)], h[c])
      BY <2>2
    <3>4. c \in W => p \in W /\ c = ch(p)
      BY <2>1
    <3>5. \A a, b, e \in S : LT(a, b) /\ LT(b, e) => LT(a, e)
      BY DEF Precedence
    <3>6. \A q \in W : 1 < q /\ q <= d => LT(h[q], h[n + 1])
      BY <2>3
    <3>7. 2 * d <= n => LT(h[n + 1], h[ch(d)])
      BY <2>3
    <3>8. \A q \in 1 .. n + 1 : h[q] \in S
      BY <1>1
    <3>9. LT(h[p], h[c])
      BY <3>2
    <3> SUFFICES LT(g[p], g[c])
      OBVIOUS
    <3> HIDE DEF LT, p
    <3>10. CASE p = d
      <4>1. g[p] = h[n + 1] /\ g[c] = h[c]
        BY <2>4, <2>5, <3>1, <3>10
      <4>2. LT(h[n + 1], h[ch(p)])
        BY <3>1, <3>7, <3>10
      <4>3. CASE c = ch(p)
        BY <4>1, <4>2, <4>3
      <4>4. CASE c # ch(p)
        <5>1. ch(p) \in 1 .. n + 1 /\ c \in 1 .. n + 1 /\ n + 1 \in 1 .. n + 1
          BY <1>1, <2>2, <3>1
        <5>2. h[n + 1] \in S /\ h[ch(p)] \in S /\ h[c] \in S
          BY <3>8, <5>1
        <5>3. LT(h[ch(p)], h[c])
          BY <3>3, <4>4
        <5> QED BY <3>5, <4>1, <4>2, <5>2, <5>3
      <4> QED BY <4>3, <4>4
    <3>11. CASE p \in W /\ p < d
      <4>1. g[p] = h[ch(p)]
        BY <2>4, <3>1, <3>11
      <4>2. ch(p) \in W /\ ch(p) \in 2 .. n /\ ch(p) \div 2 = p /\ ch(p) <= d
        BY <2>6, <3>11
      <4>3. CASE c # ch(p)
        <5>1. c \notin W
          BY <3>4, <4>3
        <5>2. g[c] = h[c]
          BY <2>3, <2>4, <3>1, <5>1
        <5> QED BY <3>3, <4>1, <4>3, <5>2
      <4>4. CASE c = ch(p) /\ c = d
        <5>1. g[c] = h[n + 1]
          BY <2>4, <3>1, <4>4
        <5>2. 1 < c /\ c \in W /\ c <= d
          BY <4>2, <4>4
        <5> QED BY <3>6, <4>1, <4>4, <5>1, <5>2
      <4>5. CASE c = ch(p) /\ c < d
        <5>1. c \in W /\ c < d
          BY <4>2, <4>5
        <5>2. g[c] = h[ch(c)]
          BY <2>4, <3>1, <5>1
        <5>3. ch(c) \in 2 .. n /\ ch(c) \div 2 = c
          BY <2>6, <5>1
        <5>4. LT(h[c], h[ch(c)])
          BY <3>2, <5>3
        <5> QED BY <4>1, <4>5, <5>2, <5>4
      <4> QED BY <2>5, <3>1, <4>2, <4>3, <4>4, <4>5
    <3>12. CASE p \notin W \/ p > d
      <4>1. g[p] = h[p]
        BY <2>3, <2>4, <2>5, <3>1, <3>12
      <4>2. c \notin W \/ c > d
        BY <2>5, <3>1, <3>4, <3>12
      <4>3. g[c] = h[c]
        BY <2>3, <2>4, <2>5, <3>1, <4>2
      <4> QED BY <3>9, <4>1, <4>3
    <3> QED BY <2>5, <3>1, <3>10, <3>11, <3>12
  <2> QED BY <2>8, <2>10, <2>12, <2>13 DEF g, n
<1>4. n = 0 \/ n >= 1
  BY <1>1
<1> QED BY <1>2, <1>3, <1>4
-----------------------------------------------------------------------------
(* The order of the timers, and what a change of one key leaves of it.      *)

\* m_heapIndex.
LEMMA PositionIs ==
    ASSUME NEW s, NEW n \in Nat, DOMAIN s = 1 .. n, n = Len(s), NoDuplicates(s)
    PROVE  /\ \A i \in 1 .. n : Position(s, s[i]) = i
           /\ \A x : x \in Listed(s) => Position(s, x) \in 1 .. n /\ s[Position(s, x)] = x
           /\ \A x : x \notin Listed(s) => Position(s, x) = 0
<1>1. ASSUME NEW x, x \in Listed(s)
      PROVE  Position(s, x) \in 1 .. n /\ s[Position(s, x)] = x
  <2>1. Contains(s, x) /\ \E i \in DOMAIN s : s[i] = x
    BY <1>1 DEF Contains, Listed
  <2>2. Position(s, x) = CHOOSE i \in DOMAIN s : s[i] = x
    BY <2>1 DEF Position
  <2> QED BY <2>1, <2>2
<1>2. ASSUME NEW x, x \notin Listed(s) PROVE Position(s, x) = 0
  BY <1>2 DEF Position, Contains, Listed
<1>3. ASSUME NEW i \in 1 .. n PROVE Position(s, s[i]) = i
  <2>1. s[i] \in Listed(s)
    BY DEF Listed
  <2> QED BY <1>1, <2>1 DEF NoDuplicates
<1> QED BY <1>1, <1>2, <1>3

\* Timers of which at most one has no insertion number are ordered.
LEMMA BeforeOrders ==
    ASSUME NEW S, NEW nf, \A a \in S : nf[a] \in Nat,
           NEW T, NEW ord \in Seq(T), NoDuplicates(ord),
           \A a, b \in S : a # b => a \in Listed(ord) \/ b \in Listed(ord)
    PROVE  Precedence(S, nf, ord)
<1> DEFINE pos(a) == Position(ord, a)
           n == Len(ord)
<1>1. /\ \A x : x \in Listed(ord) => pos(x) \in 1 .. n /\ ord[pos(x)] = x
      /\ \A x : x \notin Listed(ord) => pos(x) = 0
  <2>1. n \in Nat /\ DOMAIN ord = 1 .. n
    OBVIOUS
  <2> QED BY <2>1, PositionIs
<1>2. \A a \in S : pos(a) \in Nat
  BY <1>1
<1>3. \A a, b \in S : a # b => pos(a) # pos(b)
  BY <1>1
<1> HIDE DEF pos
<1>4. \A a, b \in S : Before(a, b, nf, ord) <=>
          nf[a] < nf[b] \/ (nf[a] = nf[b] /\ a # b /\ pos(a) < pos(b))
  BY DEF Before, pos
<1>5. \A a \in S : ~Before(a, a, nf, ord)
  BY <1>4
<1>6. \A a, b \in S : a # b => Before(a, b, nf, ord) \/ Before(b, a, nf, ord)
  BY <1>2, <1>3, <1>4
<1>7. ASSUME NEW a \in S, NEW b \in S, NEW c \in S,
             Before(a, b, nf, ord), Before(b, c, nf, ord)
      PROVE  Before(a, c, nf, ord)
  <2>1. nf[a] \in Nat /\ nf[b] \in Nat /\ nf[c] \in Nat
    OBVIOUS
  <2>2. pos(a) \in Nat /\ pos(b) \in Nat /\ pos(c) \in Nat
    BY <1>2
  <2> QED BY <1>4, <1>7, <2>1, <2>2
<1> QED BY <1>5, <1>6, <1>7 DEF Precedence

\* Two lists have the same members of X in the same order.
SameOrder(X, u, v) ==
    \A a, b \in X : Position(u, a) < Position(u, b) <=> Position(v, a) < Position(v, b)

\* Two pairs of fire times and numbers order X in the same way.
Agree(X, nf, ord, nf2, ord2) ==
    \A a, b \in X : Before(a, b, nf, ord) <=> Before(a, b, nf2, ord2)

\* TimerHeapLessThanFunction looks at fire times and numbers only.
LEMMA SameOrderAgrees ==
    ASSUME NEW X, NEW nf, NEW nf2, NEW ord, NEW ord2, \A a \in X : nf[a] = nf2[a],
           SameOrder(X, ord, ord2)
    PROVE  Agree(X, nf, ord, nf2, ord2)
BY DEF SameOrder, Agree, Before

\* A timer loses its number: the others keep their order.
LEMMA WithoutNumber ==
    ASSUME NEW T, order \in Seq(T), NoDuplicates(order), NEW t
    PROVE  /\ Unnumbered(t) \in Seq(T) /\ NoDuplicates(Unnumbered(t))
           /\ Listed(Unnumbered(t)) = Listed(order) \ {t}
           /\ SameOrder(Listed(order) \ {t}, order, Unnumbered(t))
<1> DEFINE n == Len(order)
           k == Position(order, t)
           u == Unnumbered(t)
<1>1. n \in Nat /\ DOMAIN order = 1 .. n
  OBVIOUS
<1>2. /\ \A i \in 1 .. n : Position(order, order[i]) = i
      /\ \A x : x \in Listed(order) => Position(order, x) \in 1 .. n /\ order[Position(order, x)] = x
  BY <1>1, PositionIs
<1>3. CASE t \notin Listed(order)
  <2>1. u = order
    BY <1>1, <1>3 DEF Unnumbered, Contains, Listed
  <2> QED BY <1>3, <2>1 DEF SameOrder
<1>4. CASE t \in Listed(order)
  <2>1. k \in 1 .. n /\ order[k] = t
    BY <1>2, <1>4
  <2>2. u = SubSeq(order, 1, k - 1) \o SubSeq(order, k + 1, n)
    BY <1>1, <1>4, <2>1 DEF Unnumbered, Contains, Listed, RemoveAt
  <2>3. /\ u \in Seq(T) /\ NoDuplicates(u)
        /\ Listed(u) = Listed(order) \ {t}
    BY <1>1, <2>1, <2>2, ListRemove
  <2> HIDE DEF u, k
  <2>5. /\ Len(u) = n - 1 /\ DOMAIN u = 1 .. n - 1
        /\ \A i \in 1 .. n - 1 : u[i] = IF i < k THEN order[i] ELSE order[i + 1]
    <3>1. IsWithout(u, order, k)
      BY <1>1, <2>1, <2>2, ListRemoved
    <3>2. \A i \in 1 .. n - 1 : i \in 1 .. k - 1 \/ i \in k .. n - 1
      BY <1>1, <2>1
    <3>3. Len(u) = n - 1 /\ DOMAIN u = 1 .. n - 1
      BY <2>3, <3>1 DEF IsWithout
    <3>4. ASSUME NEW i \in 1 .. n - 1 PROVE u[i] = IF i < k THEN order[i] ELSE order[i + 1]
      BY <1>1, <2>1, <3>1, <3>2 DEF IsWithout
    <3> QED BY <3>3, <3>4
  <2>6. ASSUME NEW x \in Listed(order) \ {t}
        PROVE  /\ Position(u, x) = IF Position(order, x) < k THEN Position(order, x)
                                   ELSE Position(order, x) - 1
               /\ Position(order, x) \in 1 .. n /\ Position(order, x) # k
    <3> DEFINE j == Position(order, x)
               i == IF j < k THEN j ELSE j - 1
    <3>1. j \in 1 .. n /\ order[j] = x
      BY <1>2
    <3>2. j # k
      BY <2>1, <3>1
    <3> HIDE DEF j
    <3>3. i \in 1 .. n - 1 /\ u[i] = x
      BY <1>1, <2>1, <2>5, <3>1, <3>2
    <3>4. n - 1 \in Nat /\ n - 1 = Len(u)
      BY <2>5, <3>3
    <3>5. Position(u, u[i]) = i
      BY <2>3, <2>5, <3>3, <3>4, PositionIs
    <3> QED BY <3>1, <3>2, <3>3, <3>5 DEF j
  <2>7. SameOrder(Listed(order) \ {t}, order, u)
    <3> SUFFICES ASSUME NEW a \in Listed(order) \ {t}, NEW b \in Listed(order) \ {t}
                 PROVE  Position(order, a) < Position(order, b)
                            <=> Position(u, a) < Position(u, b)
      BY DEF SameOrder
    <3> DEFINE pa == Position(order, a)
               pb == Position(order, b)
    <3>1. Position(u, a) = (IF pa < k THEN pa ELSE pa - 1) /\ pa \in 1 .. n /\ pa # k
      BY <2>6
    <3>2. Position(u, b) = (IF pb < k THEN pb ELSE pb - 1) /\ pb \in 1 .. n /\ pb # k
      BY <2>6
    <3> HIDE DEF pa, pb
    <3>3. pa < pb <=> Position(u, a) < Position(u, b)
      BY <2>1, <3>1, <3>2
    <3> QED BY <3>3 DEF pa, pb
  <2> QED BY <2>3, <2>7 DEF u
<1> QED BY <1>3, <1>4

\* A timer gets a new number.
LEMMA WithNewNumber ==
    ASSUME NEW T, order \in Seq(T), NoDuplicates(order), NEW t \in T, NEW time, time # 0
    PROVE  /\ Renumbered(t, time) \in Seq(T) /\ NoDuplicates(Renumbered(t, time))
           /\ Listed(Renumbered(t, time)) = Listed(order) \cup {t}
           /\ SameOrder(Listed(order) \ {t}, order, Renumbered(t, time))
<1> DEFINE u == Unnumbered(t)
           v == Append(u, t)
<1>1. /\ u \in Seq(T) /\ NoDuplicates(u)
      /\ Listed(u) = Listed(order) \ {t}
      /\ SameOrder(Listed(order) \ {t}, order, u)
  BY WithoutNumber
<1>2. Renumbered(t, time) = v
  BY DEF Renumbered
<1> HIDE DEF u
<1>3. /\ v \in Seq(T) /\ NoDuplicates(v) /\ Listed(v) = Listed(order) \cup {t}
  BY <1>1, ListAppend
<1>4. Len(v) = Len(u) + 1 /\ \A i \in 1 .. Len(u) : v[i] = u[i]
  BY <1>1
<1> HIDE DEF v
<1>5. ASSUME NEW x \in Listed(u) PROVE Position(v, x) = Position(u, x)
  <2>1. Len(u) \in Nat /\ DOMAIN u = 1 .. Len(u) /\ Len(v) \in Nat /\ DOMAIN v = 1 .. Len(v)
    BY <1>1, <1>3
  <2> DEFINE i == Position(u, x)
  <2>2. i \in 1 .. Len(u) /\ u[i] = x
    BY <1>1, <2>1, PositionIs
  <2> HIDE DEF i
  <2>3. i \in 1 .. Len(v) /\ v[i] = x
    BY <1>4, <2>1, <2>2
  <2>4. Position(v, v[i]) = i
    BY <1>3, <2>1, <2>3, PositionIs
  <2> QED BY <2>3, <2>4 DEF i
<1>6. SameOrder(Listed(order) \ {t}, order, v)
  BY <1>1, <1>5 DEF SameOrder
<1> QED BY <1>2, <1>3, <1>6
-----------------------------------------------------------------------------
(* The heap after the key of one timer has changed.                         *)

\* h holds what is in S, in the order of nf and ord.
IsHeap(h, S, nf, ord) ==
    /\ h \in Seq(S) /\ NoDuplicates(h) /\ Listed(h) = S
    /\ Ordered(h, nf, ord)

\* A heap depends on the order of its members only.
LEMMA AgreeingHeap ==
    ASSUME NEW S, NEW nf, NEW ord, NEW nf2, NEW ord2, NEW h, IsHeap(h, S, nf, ord),
           Agree(S, nf, ord, nf2, ord2)
    PROVE  IsHeap(h, S, nf2, ord2)
<1>1. ASSUME NEW c \in 2 .. Len(h) PROVE c \div 2 \in DOMAIN h /\ c \in DOMAIN h
  BY Halves DEF IsHeap
<1> QED BY <1>1 DEF IsHeap, Ordered, Agree

\* heapDecreaseKey: t at i has a new key, with which it precedes those below.
LEMMA DecreaseKeeps ==
    ASSUME NEW S, NEW nf, NEW ord, NEW nf2, NEW ord2, NEW h, IsHeap(h, S, nf, ord),
           Precedence(S, nf, ord), Precedence(S, nf2, ord2),
           NEW t \in S, NEW i \in DOMAIN h, h[i] = t,
           Agree(S \ {t}, nf, ord, nf2, ord2),
           \A b \in S \ {t} : Before(t, b, nf, ord) => Before(t, b, nf2, ord2)
    PROVE  /\ IsHeap(PushHeap(h, i, nf2, ord2), S, nf2, ord2)
           /\ Len(PushHeap(h, i, nf2, ord2)) = Len(h)
           /\ i > 1 /\ Before(t, h[i \div 2], nf2, ord2) => PushHeap(h, i, nf2, ord2)[i] # t
<1>1. h \in Seq(S) /\ NoDuplicates(h) /\ Listed(h) = S /\ Ordered(h, nf, ord)
  BY DEF IsHeap
<1>2. ASSUME NEW c \in 2 .. Len(h)
      PROVE  /\ c \div 2 \in DOMAIN h /\ c \in DOMAIN h /\ c \div 2 # c
             /\ h[c \div 2] \in S /\ h[c] \in S
             /\ Before(h[c \div 2], h[c], nf, ord)
  <2>1. c \div 2 \in DOMAIN h /\ c \in DOMAIN h /\ c \div 2 # c
    BY <1>1, Halves
  <2> QED BY <1>1, <2>1 DEF Ordered
<1>3. ASSUME NEW j \in DOMAIN h, j # i PROVE h[j] \in S \ {t}
  BY <1>1, <1>3 DEF NoDuplicates
<1>4. ASSUME NEW c \in 2 .. Len(h), c # i PROVE Before(h[c \div 2], h[c], nf2, ord2)
  <2>1. h[c] \in S \ {t}
    BY <1>2, <1>3, <1>4
  <2>2. CASE c \div 2 = i
    BY <1>2, <2>1, <2>2
  <2>3. CASE c \div 2 # i
    BY <1>2, <1>3, <2>1, <2>3 DEF Agree
  <2> QED BY <2>2, <2>3
<1>5. ASSUME NEW c \in 2 .. Len(h), c \div 2 = i, i > 1
      PROVE  Before(h[i \div 2], h[c], nf2, ord2)
  <2>1. i \in 2 .. Len(h)
    BY <1>1, <1>5
  <2>2. Before(h[i \div 2], t, nf, ord) /\ Before(t, h[c], nf, ord)
    BY <1>2, <1>5, <2>1
  <2>3. i \div 2 \in DOMAIN h /\ i \div 2 # i /\ c \in DOMAIN h /\ c # i
    BY <1>2, <1>5, <2>1
  <2>4. h[i \div 2] \in S \ {t} /\ h[c] \in S \ {t}
    BY <1>3, <2>3
  <2>5. Before(h[i \div 2], h[c], nf, ord)
    BY <2>2, <2>4 DEF Precedence
  <2> QED BY <2>4, <2>5 DEF Agree
<1> DEFINE g == PushHeap(h, i, nf2, ord2)
<1>6. /\ g \in Seq(S) /\ Len(g) = Len(h)
      /\ NoDuplicates(g) /\ Listed(g) = Listed(h)
      /\ Ordered(g, nf2, ord2)
      /\ i > 1 /\ Before(h[i], h[i \div 2], nf2, ord2) => g[i] # h[i]
  BY <1>1, <1>4, <1>5, PushKeeps
<1> QED BY <1>1, <1>6 DEF IsHeap

\* heapInsert.
LEMMA InsertKeeps ==
    ASSUME NEW S, NEW nf, NEW ord, NEW h, IsHeap(h, S, nf, ord),
           NEW t, t \notin S, Precedence(S \cup {t}, nf, ord)
    PROVE  IsHeap(HeapInsert(h, t, nf, ord), S \cup {t}, nf, ord)
<1> DEFINE a == Append(h, t)
           R == S \cup {t}
           n == Len(h)
<1>1. h \in Seq(S) /\ NoDuplicates(h) /\ Listed(h) = S /\ Ordered(h, nf, ord) /\ n \in Nat
  BY DEF IsHeap
<1>2. h \in Seq(R)
  BY <1>1
<1>3. a \in Seq(R) /\ NoDuplicates(a) /\ Listed(a) = R
  BY <1>1, <1>2, ListAppend
<1>4. Len(a) = n + 1 /\ \A q \in 1 .. n : a[q] = h[q]
  BY <1>2
<1> HIDE DEF a, R
<1>5. n + 1 \in DOMAIN a
  BY <1>1, <1>3, <1>4
<1>6. ASSUME NEW c \in 2 .. Len(a), c # n + 1 PROVE Before(a[c \div 2], a[c], nf, ord)
  <2>1. c \in 2 .. n /\ c \in 1 .. n /\ c \div 2 \in 1 .. n
    BY <1>1, <1>4, <1>6, Halves
  <2> QED BY <1>1, <1>4, <2>1 DEF Ordered
<1>7. ASSUME NEW c \in 2 .. Len(a), c \div 2 = n + 1 PROVE FALSE
  BY <1>1, <1>4, <1>7, Halves
<1> DEFINE g == PushHeap(a, n + 1, nf, ord)
<1>8. Precedence(R, nf, ord)
  BY DEF R
<1>9. /\ g \in Seq(R) /\ NoDuplicates(g) /\ Listed(g) = Listed(a)
      /\ Ordered(g, nf, ord)
  <2>1. \A c \in 2 .. Len(a) : c \div 2 = n + 1 /\ n + 1 > 1
            => Before(a[(n + 1) \div 2], a[c], nf, ord)
    BY <1>7
  <2>2. PICK k \in DOMAIN a : k = n + 1
    BY <1>5
  <2> DEFINE e == PushHeap(a, k, nf, ord)
  <2>3. /\ e \in Seq(R) /\ Len(e) = Len(a)
        /\ NoDuplicates(e) /\ Listed(e) = Listed(a)
        /\ Ordered(e, nf, ord)
        /\ k > 1 /\ Before(a[k], a[k \div 2], nf, ord) => e[k] # a[k]
    BY <1>3, <1>6, <1>8, <2>1, <2>2, PushKeeps
  <2> QED BY <2>2, <2>3
<1>10. IsHeap(g, R, nf, ord)
  BY <1>3, <1>9 DEF IsHeap
<1> QED BY <1>10 DEF HeapInsert, a, R

\* heapPop and removeLast: with the least key t rises to the root and leaves.
LEMMA RemoveKeeps ==
    ASSUME NEW S, NEW nf, NEW ord, NEW nf2, NEW ord2, NEW h, IsHeap(h, S, nf, ord),
           Precedence(S, nf, ord), Precedence(S, nf2, ord2),
           NEW t \in S, NEW i \in DOMAIN h, h[i] = t,
           Agree(S \ {t}, nf, ord, nf2, ord2),
           \A b \in S \ {t} : Before(t, b, nf2, ord2)
    PROVE  IsHeap(PopHeap(PushHeap(h, i, nf2, ord2), nf2, ord2), S \ {t}, nf2, ord2)
<1> DEFINE g == PushHeap(h, i, nf2, ord2)
           f == PopHeap(g, nf2, ord2)
<1>1. IsHeap(g, S, nf2, ord2)
  BY DecreaseKeeps
<1> HIDE DEF g
<1>2. g \in Seq(S) /\ NoDuplicates(g) /\ Listed(g) = S /\ Ordered(g, nf2, ord2)
  BY <1>1 DEF IsHeap
<1>3. PICK j \in DOMAIN g : g[j] = t
  BY <1>2 DEF Listed
<1>4. j = 1
  <2> SUFFICES ASSUME j # 1 PROVE FALSE
    OBVIOUS
  <2>1. j \in 2 .. Len(g) /\ 1 \in DOMAIN g
    BY <1>2
  <2>2. Before(g[1], t, nf2, ord2)
    BY <1>2, <1>3, <2>1, FirstPrecedes
  <2>3. g[1] \in S \ {t}
    BY <1>2, <1>3, <2>1 DEF NoDuplicates
  <2>4. Before(t, g[1], nf2, ord2)
    BY <2>3
  <2> QED BY <2>2, <2>3, <2>4 DEF Precedence
<1>5. g # <<>> /\ g[1] = t
  BY <1>2, <1>3, <1>4
<1>6. /\ f \in Seq(S) /\ NoDuplicates(f) /\ Listed(f) = S \ {t}
      /\ Ordered(f, nf2, ord2)
  BY <1>2, <1>5, PopKeeps
<1> HIDE DEF f
<1>7. f \in Seq(S \ {t})
  <2>1. \A k \in 1 .. Len(f) : f[k] \in S \ {t}
    <3> SUFFICES ASSUME NEW k \in 1 .. Len(f) PROVE f[k] \in Listed(f)
      BY <1>6
    <3> QED BY <1>6 DEF Listed
  <2> QED BY <1>6, <2>1
<1>8. IsHeap(f, S \ {t}, nf2, ord2)
  BY <1>6, <1>7 DEF IsHeap
<1> QED BY <1>8 DEF f, g

\* The timers with a fire time.
Active(nf) == {x \in Timers : nf[x] # 0}

\* What setNextFireTime does to the numbers, and to the order of the others.
LEMMA NewKey ==
    ASSUME NEW nf \in [Timers -> Nat], NEW t \in Timers, NEW time \in Nat,
           order \in Seq(Timers), NoDuplicates(order),
           Active(nf) \subseteq Listed(order), Listed(order) \subseteq Active(nf) \cup {t}
    PROVE  LET nf2 == [nf EXCEPT ![t] = time]
               ord2 == Renumbered(t, time) IN
           /\ ord2 \in Seq(Timers) /\ NoDuplicates(ord2) /\ Listed(ord2) = Active(nf2)
           /\ Precedence(Active(nf), nf, order)
           /\ \A k \in Nat : LET nf3 == [nf EXCEPT ![t] = k] IN
                  /\ Precedence(Active(nf) \cup {t}, nf3, ord2)
                  /\ Agree(Active(nf) \ {t}, nf, order, nf3, ord2)
<1> DEFINE nf2 == [nf EXCEPT ![t] = time]
           ord2 == Renumbered(t, time)
           S == Active(nf)
<1>1. /\ ord2 \in Seq(Timers) /\ NoDuplicates(ord2)
      /\ Listed(ord2) = (Listed(order) \ {t}) \cup (IF time = 0 THEN {} ELSE {t})
      /\ SameOrder(Listed(order) \ {t}, order, ord2)
  <2>1. CASE time = 0
    BY <2>1, WithoutNumber DEF Renumbered
  <2>2. CASE time # 0
    BY <2>2, WithNewNumber
  <2> QED BY <2>1, <2>2
<1>2. Active(nf2) = (S \ {t}) \cup (IF time = 0 THEN {} ELSE {t})
  BY DEF Active
<1>3. S \subseteq Timers /\ S \ {t} = Listed(order) \ {t}
  BY DEF Active
<1> HIDE DEF ord2, S
<1>4. Listed(ord2) = Active(nf2)
  BY <1>1, <1>2, <1>3
<1>5. Precedence(S, nf, order)
  <2>1. \A a \in S : nf[a] \in Nat
    BY <1>3
  <2>2. \A a, b \in S : a # b => a \in Listed(order) \/ b \in Listed(order)
    BY DEF S
  <2> QED BY <2>1, <2>2, BeforeOrders
<1>6. ASSUME NEW k \in Nat
      PROVE  LET nf3 == [nf EXCEPT ![t] = k] IN
             /\ Precedence(S \cup {t}, nf3, ord2)
             /\ Agree(S \ {t}, nf, order, nf3, ord2)
  <2> DEFINE nf3 == [nf EXCEPT ![t] = k]
  <2>1. \A a \in S \cup {t} : nf3[a] \in Nat
    BY <1>3
  <2>2. \A a \in S \ {t} : nf[a] = nf3[a]
    BY <1>3
  <2> HIDE DEF nf3
  <2>3. \A a, b \in S \cup {t} : a # b => a \in Listed(ord2) \/ b \in Listed(ord2)
    BY <1>1, <1>3
  <2>4. Precedence(S \cup {t}, nf3, ord2)
    BY <1>1, <2>1, <2>3, BeforeOrders
  <2>5. SameOrder(S \ {t}, order, ord2)
    BY <1>1, <1>3
  <2>6. Agree(S \ {t}, nf, order, nf3, ord2)
    BY <2>2, <2>5, SameOrderAgrees
  <2> QED BY <2>4, <2>6 DEF nf3
<1> QED BY <1>1, <1>4, <1>5, <1>6 DEF ord2, S

\* updateHeapIfNeeded.
LEMMA UpdateKeeps ==
    ASSUME NEW nf \in [Timers -> Nat], NEW t \in Timers, NEW time \in Nat, nf[t] # time,
           order \in Seq(Timers), NoDuplicates(order),
           Active(nf) \subseteq Listed(order), Listed(order) \subseteq Active(nf) \cup {t},
           NEW h, IsHeap(h, Active(nf), nf, order)
    PROVE  LET nf2 == [nf EXCEPT ![t] = time]
               ord2 == Renumbered(t, time) IN
           IsHeap(UpdateHeapIfNeeded(h, t, nf[t], nf2, ord2), Active(nf2), nf2, ord2)
<1> DEFINE nf2 == [nf EXCEPT ![t] = time]
           nf0 == [nf EXCEPT ![t] = 0]
           ord2 == Renumbered(t, time)
           S == Active(nf)
           i == Position(h, t)
           g == UpdateHeapIfNeeded(h, t, nf[t], nf2, ord2)
<1>1. /\ Precedence(S, nf, order)
      /\ Precedence(S \cup {t}, nf2, ord2) /\ Agree(S \ {t}, nf, order, nf2, ord2)
      /\ Precedence(S \cup {t}, nf0, ord2) /\ Agree(S \ {t}, nf, order, nf0, ord2)
  BY NewKey
<1>2. /\ nf2[t] = time /\ nf0[t] = 0
      /\ \A b \in S \ {t} : nf0[b] = nf[b] /\ nf2[b] = nf[b] /\ nf[b] \in Nat \ {0}
  BY DEF Active
<1>3. S \subseteq Timers /\ (nf[t] # 0 => t \in S) /\ (nf[t] = 0 => t \notin S)
  BY DEF Active
<1>4. /\ time = 0 => Active(nf2) = S \ {t}
      /\ time # 0 => Active(nf2) = S \cup {t}
  BY DEF Active
<1>5. nf[t] \in Nat
  OBVIOUS
<1>6. [nf2 EXCEPT ![t] = 0] = nf0
  OBVIOUS
<1>7. h \in Seq(S) /\ NoDuplicates(h) /\ Listed(h) = S /\ Ordered(h, nf, order)
  BY DEF IsHeap
<1> HIDE DEF nf2, nf0, ord2, S
<1>8. CASE nf[t] = 0
  <2>1. g = HeapInsert(h, t, nf2, ord2)
    BY <1>8 DEF UpdateHeapIfNeeded
  <2>2. S \ {t} = S
    BY <1>3, <1>8
  <2>3. IsHeap(h, S, nf2, ord2)
    BY <1>1, <2>2, AgreeingHeap DEF S
  <2>4. IsHeap(g, S \cup {t}, nf2, ord2)
    BY <1>1, <1>3, <1>8, <2>1, <2>3, InsertKeeps
  <2>5. time # 0
    BY <1>8
  <2> QED BY <1>4, <2>4, <2>5 DEF nf2, ord2
<1>9. CASE nf[t] # 0
  <2>1. t \in S /\ S \cup {t} = S
    BY <1>3, <1>9
  <2>2. i \in DOMAIN h /\ h[i] = t
    <3>1. Len(h) \in Nat /\ DOMAIN h = 1 .. Len(h)
      BY <1>7
    <3> QED BY <1>7, <2>1, <3>1, PositionIs
  <2>3. Precedence(S, nf2, ord2) /\ Precedence(S, nf0, ord2)
    BY <1>1, <2>1
  <2>4. IsHeap(HeapRemove(h, i, nf2, ord2), S \ {t}, nf0, ord2)
    <3>1. ASSUME NEW b \in S \ {t} PROVE Before(t, b, nf0, ord2)
      BY <1>2 DEF Before
    <3>2. IsHeap(h, S, nf, order)
      BY DEF S
    <3>3. IsHeap(PopHeap(PushHeap(h, i, nf0, ord2), nf0, ord2), S \ {t}, nf0, ord2)
      <4> HIDE DEF i
      <4> QED BY <1>1, <2>1, <2>2, <2>3, <3>1, <3>2, RemoveKeeps
    <3> QED BY <1>6, <2>2, <3>3 DEF HeapRemove
  <2> HIDE DEF i
  <2>5. CASE time = 0
    <3>1. g = HeapRemove(h, i, nf2, ord2)
      BY <1>2, <1>9, <2>5 DEF UpdateHeapIfNeeded, i
    <3>2. nf2 = nf0
      BY <2>5 DEF nf2, nf0
    <3> QED BY <1>4, <2>4, <2>5, <3>1, <3>2 DEF nf2, ord2
  <2>6. CASE time # 0 /\ HasValidHeapPosition(h, i, nf2, ord2)
    <3>1. g = h
      BY <1>2, <1>9, <2>6 DEF UpdateHeapIfNeeded, i
    <3>2. ASSUME NEW c \in 2 .. Len(h) PROVE Before(h[c \div 2], h[c], nf2, ord2)
      <4>1. c \in DOMAIN h /\ c \div 2 \in DOMAIN h /\ c > 1
        BY <1>7, Halves
      <4>2. CASE c = i
        BY <2>6, <4>1, <4>2 DEF HasValidHeapPosition
      <4>3. CASE c \div 2 = i
        <5>1. c \in {2 * i, 2 * i + 1} /\ c <= Len(h)
          <6>1. c \in Nat /\ c <= Len(h)
            BY <1>7
          <6> QED BY <4>3, <6>1, Halves
        <5> QED BY <2>6, <4>3, <5>1 DEF HasValidHeapPosition
      <4>4. CASE c # i /\ c \div 2 # i
        <5>1. h[c] \in S \ {t} /\ h[c \div 2] \in S \ {t}
          BY <1>7, <2>2, <4>1, <4>4 DEF NoDuplicates
        <5>2. Before(h[c \div 2], h[c], nf, order)
          BY <1>7 DEF Ordered
        <5> QED BY <1>1, <5>1, <5>2 DEF Agree
      <4> QED BY <4>2, <4>3, <4>4
    <3>3. IsHeap(h, S, nf2, ord2)
      BY <1>7, <3>2 DEF IsHeap, Ordered
    <3> QED BY <1>4, <2>1, <2>6, <3>1, <3>3 DEF nf2, ord2
  <2>7. CASE time # 0 /\ ~HasValidHeapPosition(h, i, nf2, ord2) /\ time < nf[t]
    <3>1. g = PushHeap(h, i, nf2, ord2)
      BY <1>2, <1>9, <2>7 DEF UpdateHeapIfNeeded, i
    <3>2. ASSUME NEW b \in S \ {t}, Before(t, b, nf, order) PROVE Before(t, b, nf2, ord2)
      <4>1. nf[t] <= nf[b]
        BY <1>2, <1>5, <3>2 DEF Before
      <4>2. nf2[t] < nf2[b]
        BY <1>2, <1>5, <2>7, <4>1
      <4> QED BY <4>2 DEF Before
    <3>3. IsHeap(h, S, nf, order)
      BY DEF S
    <3>4. IsHeap(g, S, nf2, ord2)
      BY <1>1, <2>1, <2>2, <2>3, <3>1, <3>2, <3>3, DecreaseKeeps
    <3> QED BY <1>4, <2>1, <2>7, <3>4 DEF nf2, ord2
  <2>8. CASE time # 0 /\ ~HasValidHeapPosition(h, i, nf2, ord2) /\ ~(time < nf[t])
    <3> DEFINE f == HeapRemove(h, i, nf2, ord2)
    <3>1. g = HeapInsert(f, t, nf2, ord2)
      BY <1>2, <1>9, <2>8 DEF UpdateHeapIfNeeded, i
    <3>2. Agree(S \ {t}, nf0, ord2, nf2, ord2)
      BY <1>2 DEF Agree, Before
    <3> HIDE DEF f
    <3>3. IsHeap(f, S \ {t}, nf2, ord2)
      BY <2>4, <3>2, AgreeingHeap DEF f
    <3>4. (S \ {t}) \cup {t} = S /\ t \notin S \ {t}
      BY <2>1
    <3>5. IsHeap(HeapInsert(f, t, nf2, ord2), (S \ {t}) \cup {t}, nf2, ord2)
      BY <2>3, <3>3, <3>4, InsertKeeps
    <3> QED BY <1>4, <2>1, <2>8, <3>1, <3>4, <3>5 DEF nf2, ord2
  <2> QED BY <2>5, <2>6, <2>7, <2>8
<1> QED BY <1>8, <1>9
-----------------------------------------------------------------------------
(* updateHeapIfNeeded moves a timer whose position is not valid.            *)

\* Of two ancestors of a place the earlier is an ancestor of the later.
LEMMA AncestorsNest ==
    ASSUME NEW k \in Nat
    PROVE  /\ \A i \in Ancestors[k] : Ancestors[i] \subseteq Ancestors[k]
           /\ \A p, i \in Ancestors[k] : p <= i => p \in Ancestors[i]
<1> DEFINE Nested(m) ==
              /\ \A i \in Ancestors[m] : Ancestors[i] \subseteq Ancestors[m]
              /\ \A p, i \in Ancestors[m] : p <= i => p \in Ancestors[i]
           B == {m \in Nat : ~Nested(m)}
<1> SUFFICES ASSUME B # {} PROVE FALSE
  OBVIOUS
<1>1. PICK m \in B : \A l \in B : ~(l < m)
  BY Minimum
<1>2. m # 0
  <2>1. Ancestors[0] = {}
    BY AncestorsDef
  <2> QED BY <1>1, <2>1
<1> DEFINE A == Ancestors[m \div 2]
<1>3. m \div 2 \in Nat /\ m \div 2 < m
  BY <1>2, Halves
<1>4. Nested(m \div 2)
  BY <1>1, <1>3
<1>5. Ancestors[m] = {m} \cup A
  BY <1>2, AncestorsDef
<1>6. \A p \in A : p < m /\ p \in Nat
  <2>1. CASE m \div 2 = 0
    BY <2>1, AncestorsDef
  <2>2. CASE m \div 2 # 0
    <3>1. A \subseteq 1 .. (m \div 2)
      BY <1>3, <2>2, AncestorsChain DEF ChainUp
    <3> QED BY <1>3, <3>1
  <2> QED BY <2>1, <2>2
<1>7. /\ \A i \in A : Ancestors[i] \subseteq A
      /\ \A p, i \in A : p <= i => p \in Ancestors[i]
  BY <1>4
<1> HIDE DEF A
<1>8. Nested(m)
  <2>1. \A i \in {m} \cup A : Ancestors[i] \subseteq {m} \cup A
    BY <1>5, <1>7
  <2>2. ASSUME NEW p \in {m} \cup A, NEW i \in {m} \cup A, p <= i PROVE p \in Ancestors[i]
    <3>1. CASE i = m
      BY <1>5, <3>1
    <3>2. CASE i # m
      <4>1. i \in A /\ i < m /\ i \in Nat
        BY <1>6, <3>2
      <4>2. p # m
        BY <2>2, <4>1
      <4> QED BY <1>7, <2>2, <4>1, <4>2
    <3> QED BY <3>1, <3>2
  <2> QED BY <1>5, <2>1, <2>2
<1> QED BY <1>1, <1>8

\* In a heap everything precedes what is below it.
LEMMA AncestorPrecedes ==
    ASSUME NEW S, NEW nf, NEW ord, Precedence(S, nf, ord),
           NEW h \in Seq(S), Ordered(h, nf, ord), NEW i \in DOMAIN h
    PROVE  \A p \in Ancestors[i] : p # i => p \in DOMAIN h /\ Before(h[p], h[i], nf, ord)
<1> DEFINE Good(m) == \A p \in Ancestors[m] : p # m => Before(h[p], h[m], nf, ord)
           B == {m \in Nat : m \in DOMAIN h /\ ~Good(m)}
<1>1. Len(h) \in Nat /\ DOMAIN h = 1 .. Len(h)
  OBVIOUS
<1>2. ASSUME NEW m \in DOMAIN h PROVE Ancestors[m] \subseteq DOMAIN h
  <2>1. m \in Nat /\ m # 0
    BY <1>1
  <2>2. Ancestors[m] \subseteq 1 .. m
    BY <2>1, AncestorsChain DEF ChainUp
  <2> QED BY <1>1, <2>1, <2>2
<1>3. ASSUME B # {} PROVE FALSE
  <2>1. PICK m \in B : \A l \in B : ~(l < m)
    BY <1>3, Minimum
  <2>2. PICK p \in Ancestors[m] : p # m /\ ~Before(h[p], h[m], nf, ord)
    BY <2>1
  <2>3. m \in Nat /\ m # 0 /\ m \in DOMAIN h
    BY <1>1, <2>1
  <2>4. p \in Ancestors[m \div 2]
    BY <2>2, <2>3, AncestorsDef
  <2>5. m # 1
    <3>1. Ancestors[0] = {}
      BY AncestorsDef
    <3>2. m = 1 => m \div 2 = 0
      OBVIOUS
    <3> QED BY <2>4, <3>1, <3>2
  <2>6. m \in 2 .. Len(h) /\ m \div 2 \in DOMAIN h /\ m \div 2 \in Nat /\ m \div 2 < m
    BY <1>1, <2>3, <2>5, Halves
  <2>7. Before(h[m \div 2], h[m], nf, ord)
    BY <2>6 DEF Ordered
  <2>8. m \div 2 \notin B
    BY <2>1, <2>6
  <2>9. Good(m \div 2)
    BY <2>6, <2>8
  <2>10. p \in DOMAIN h /\ h[p] \in S /\ h[m] \in S /\ h[m \div 2] \in S
    BY <1>2, <2>2, <2>3, <2>6
  <2>11. CASE p = m \div 2
    BY <2>2, <2>7, <2>11
  <2>12. CASE p # m \div 2
    <3>1. Before(h[p], h[m \div 2], nf, ord)
      BY <2>4, <2>9, <2>12
    <3> QED BY <2>2, <2>7, <2>10, <3>1 DEF Precedence
  <2> QED BY <2>11, <2>12
<1>4. Good(i)
  <2>1. i \in Nat
    BY <1>1
  <2> QED BY <1>3, <2>1
<1> QED BY <1>2, <1>4

\* The way down from the root: what comes earlier on it is an ancestor.
LEMMA WayDown ==
    ASSUME NEW S, NEW nf, NEW ord, Precedence(S, nf, ord),
           NEW h \in Seq(S), NoDuplicates(h), NEW n \in Nat, n >= 1, n <= Len(h)
    PROVE  LET W == SinkPath(h, n, nf, ord) IN
           \A p, q \in W : p <= q => p \in Ancestors[q]
<1> DEFINE W == SinkPath(h, n, nf, ord)
           B == {q \in Nat : q \in W /\ \E p \in W : p <= q /\ p \notin Ancestors[q]}
<1>1. /\ W \subseteq 1 .. n
      /\ \A q \in W : q > 1 => q \div 2 \in W
      /\ \A p, q \in W : p < q => p <= q \div 2
  BY SinkChain
<1> HIDE DEF W
<1>2. ASSUME B # {} PROVE FALSE
  <2>1. PICK q \in B : \A l \in B : ~(l < q)
    BY <1>2, Minimum
  <2>2. PICK p \in W : p <= q /\ p \notin Ancestors[q]
    BY <2>1
  <2>3. q \in W /\ q \in 1 .. n /\ p \in 1 .. n /\ q \in Nat /\ q # 0
    BY <1>1, <2>1
  <2>4. Ancestors[q] = {q} \cup Ancestors[q \div 2]
    BY <2>3, AncestorsDef
  <2>5. p < q /\ q > 1
    BY <2>2, <2>3, <2>4
  <2>6. q \div 2 \in W /\ p <= q \div 2 /\ q \div 2 < q /\ q \div 2 \in Nat
    BY <1>1, <2>2, <2>3, <2>5, Halves
  <2>7. q \div 2 \notin B
    BY <2>1, <2>6
  <2>8. p \in Ancestors[q \div 2]
    BY <2>6, <2>7
  <2> QED BY <2>2, <2>4, <2>8
<1>3. ASSUME NEW p \in W, NEW q \in W, p <= q PROVE p \in Ancestors[q]
  <2>1. q \in Nat
    BY <1>1
  <2> QED BY <1>2, <1>3, <2>1
<1> QED BY <1>3 DEF W

\* push_heap with the least key: t goes to the root and its ancestors one down.
LEMMA RaisedIs ==
    ASSUME NEW S, NEW nf, NEW ord, Precedence(S, nf, ord),
           NEW h \in Seq(S), NoDuplicates(h), NEW i \in DOMAIN h,
           \A b \in S : b # h[i] => Before(h[i], b, nf, ord)
    PROVE  LET r == PushHeap(h, i, nf, ord) IN
           /\ 1 \in Ancestors[i]
           /\ \A q \in DOMAIN h : r[q] = IF q = 1 THEN h[i]
                                         ELSE IF q \in Ancestors[i] THEN h[q \div 2] ELSE h[q]
<1> DEFINE A == Ancestors[i]
           d == RisesTo(h, i, nf, ord)
           r == PushHeap(h, i, nf, ord)
<1>1. Len(h) \in Nat /\ DOMAIN h = 1 .. Len(h) /\ i \in Nat /\ i # 0
  OBVIOUS
<1>2. /\ d \in A
      /\ d > 1 => Before(h[d \div 2], h[i], nf, ord)
  BY RestingPlace
<1>3. A \subseteq 1 .. i
  BY <1>1, AncestorsChain DEF ChainUp
<1>4. r = [q \in DOMAIN h |-> IF q = d THEN h[i]
                              ELSE IF q \in A /\ q > d THEN h[q \div 2] ELSE h[q]]
  BY DEF PushHeap
<1> HIDE DEF d, A, r
<1>5. d = 1
  <2> SUFFICES ASSUME d # 1 PROVE FALSE
    OBVIOUS
  <2>1. d \in 1 .. i /\ d > 1 /\ d \in Nat
    BY <1>1, <1>2, <1>3
  <2>2. d \div 2 \in 1 .. Len(h) /\ d \div 2 # i
    BY <1>1, <2>1, Halves
  <2>3. h[d \div 2] \in S /\ h[i] \in S /\ h[d \div 2] # h[i]
    BY <1>1, <2>2 DEF NoDuplicates
  <2>4. Before(h[d \div 2], h[i], nf, ord) /\ Before(h[i], h[d \div 2], nf, ord)
    BY <1>2, <2>1, <2>3
  <2> QED BY <2>3, <2>4 DEF Precedence
<1>6. \A q \in A : q # 1 => q > 1
  BY <1>1, <1>3
<1>7. \A q \in DOMAIN h : r[q] = IF q = 1 THEN h[i]
                                 ELSE IF q \in A THEN h[q \div 2] ELSE h[q]
  BY <1>4, <1>5, <1>6
<1> QED BY <1>2, <1>5, <1>7 DEF A, r
\* heapPop of the timer t at i, when the last place is below i: the last timer
\* sinks below i too, and nothing changes outside of what is below i.
LEMMA PoppedIs ==
    ASSUME NEW S, NEW nf, NEW ord, NEW nf0, NEW ord2, NEW h, IsHeap(h, S, nf, ord),
           Precedence(S, nf, ord), Precedence(S, nf0, ord2),
           NEW i \in DOMAIN h, Agree(S \ {h[i]}, nf, ord, nf0, ord2),
           \A b \in S : b # h[i] => Before(h[i], b, nf0, ord2),
           i < Len(h), i \in Ancestors[Len(h)]
    PROVE  LET f == PopHeap(PushHeap(h, i, nf0, ord2), nf0, ord2) IN
           \A q \in 1 .. Len(h) - 1 : i \notin Ancestors[q] => f[q] = h[q]
<1> DEFINE n == Len(h)
           m == n - 1
           t == h[i]
           A == Ancestors[i]
           r == PushHeap(h, i, nf0, ord2)
           W == SinkPath(r, m, nf0, ord2)
           ch(p) == FirstChild(r, m, p, nf0, ord2)
           d == SinksTo(r, m, nf0, ord2)
           P == {p \in W : \A q \in W : 1 < q /\ q <= p => Before(r[q], r[n], nf0, ord2)}
           f == PopHeap(r, nf0, ord2)
<1>1. /\ h \in Seq(S) /\ NoDuplicates(h) /\ Listed(h) = S /\ Ordered(h, nf, ord)
      /\ n \in Nat /\ DOMAIN h = 1 .. n /\ i \in Nat /\ i >= 1 /\ i < n /\ m \in Nat /\ m >= 1
      /\ i <= m /\ m + 1 = n /\ n # 0
  BY DEF IsHeap
<1>2. t \in S
  BY <1>1
<1>3. \A b \in S \ {t} : Before(t, b, nf, ord) => Before(t, b, nf0, ord2)
  OBVIOUS
<1>4. r \in Seq(S) /\ NoDuplicates(r) /\ Len(r) = n
  <2>1. IsHeap(r, S, nf0, ord2) /\ Len(r) = n
    <3>1. PICK u \in S : u = t
      BY <1>2
    <3>2. h[i] = u /\ Agree(S \ {u}, nf, ord, nf0, ord2)
      BY <3>1
    <3>3. \A b \in S \ {u} : Before(u, b, nf, ord) => Before(u, b, nf0, ord2)
      BY <1>3, <3>1
    <3> QED BY <3>2, <3>3, DecreaseKeeps
  <2> QED BY <2>1 DEF IsHeap
<1>5. /\ 1 \in A
      /\ \A q \in 1 .. n : r[q] = IF q = 1 THEN t
                                  ELSE IF q \in A THEN h[q \div 2] ELSE h[q]
  BY <1>1, RaisedIs
<1>6. /\ A \subseteq 1 .. i /\ i \in A
      /\ \A q \in A : q > 1 => q \div 2 \in A
      /\ \A p, q \in A : p < q => p <= q \div 2
  BY <1>1, AncestorsChain DEF ChainUp
<1>7. A \subseteq Ancestors[n]
  BY <1>1, AncestorsNest
<1>8. \A b, c \in S \ {t} : Before(b, c, nf, ord) => Before(b, c, nf0, ord2)
  BY DEF Agree
<1>9. \A q \in 1 .. n : q # i => h[q] \in S \ {t}
  BY <1>1 DEF NoDuplicates
<1>10. /\ W \subseteq 1 .. m /\ 1 \in W
       /\ \A p \in W : 2 * p <= m => ch(p) \in W
       /\ \A p, q \in W : p < q => p <= q \div 2
  BY <1>1, <1>4, SinkChain
<1>11. \A p, q \in W : p <= q => p \in Ancestors[q]
  BY <1>1, <1>4, WayDown
<1>12. /\ \A p \in 1 .. m : 2 * p <= m => ch(p) \in 2 .. m /\ ch(p) \div 2 = p
       /\ \A c \in 2 .. m : c # ch(c \div 2) => Before(r[ch(c \div 2)], r[c], nf0, ord2)
  <2>1. m \in Nat /\ m <= Len(r)
    BY <1>1, <1>4
  <2> HIDE DEF m, r
  <2> QED BY <1>4, <2>1, FirstChildIs
<1>13. W = {p \in 1 .. m : \A q \in Ancestors[p] \ {1} : q = ch(q \div 2)}
  BY DEF SinkPath
<1>14. d = Max(P)
  <2>1. r[m + 1] = r[n]
    BY <1>1
  <2> QED BY <2>1 DEF SinksTo
<1>15. f = [q \in 1 .. m |-> IF q = d THEN r[n]
                            ELSE IF q \in W /\ q < d THEN r[ch(q)] ELSE r[q]]
  <2>1. Len(r) - 1 = m /\ m # 0 /\ m + 1 = n
    BY <1>1, <1>4
  <2> HIDE DEF m, n, r
  <2> QED BY <2>1 DEF PopHeap
<1> HIDE DEF n, m, t, A, r, W, ch, d, f
<1>16. i \in W
  <2> SUFFICES ASSUME NEW q \in A \ {1}, q # ch(q \div 2) PROVE FALSE
    BY <1>1, <1>13 DEF A
  <2> DEFINE s == ch(q \div 2)
  <2>1. q \in 2 .. m /\ q <= i /\ q \in 1 .. n
    BY <1>1, <1>6
  <2>2. q \div 2 \in 1 .. m /\ 2 * (q \div 2) <= m /\ q \div 2 < q /\ q \div 2 # i
    BY <1>1, <2>1, Halves
  <2>3. s \in 2 .. m /\ s \div 2 = q \div 2
    BY <1>12, <2>2
  <2>4. Before(r[s], r[q], nf0, ord2)
    BY <1>12, <2>1
  <2> HIDE DEF s
  <2>5. s \notin A
    <3> SUFFICES ASSUME s \in A PROVE FALSE
      OBVIOUS
    <3>1. s \in Nat /\ q \in Nat /\ s # q /\ s >= 2 /\ q >= 2
      BY <2>1, <2>3 DEF s
    <3>2. s \div 2 < s /\ q \div 2 < q /\ s \div 2 \in Nat
      BY <3>1, Halves
    <3>3. CASE s < q
      <4>1. s <= q \div 2
        BY <1>6, <3>3
      <4> QED BY <2>3, <3>1, <3>2, <4>1
    <3>4. CASE q < s
      <4>1. q <= s \div 2
        BY <1>6, <3>4
      <4> QED BY <2>3, <3>1, <3>2, <4>1
    <3> QED BY <3>1, <3>3, <3>4
  <2>6. s \in 2 .. n /\ s \in 1 .. n /\ s # 1 /\ s # i
    BY <1>1, <1>6, <2>3, <2>5
  <2>7. r[s] = h[s] /\ r[q] = h[q \div 2]
    <3>1. q # 1 /\ q \in A
      OBVIOUS
    <3> QED BY <1>5, <2>1, <2>5, <2>6, <3>1
  <2>8. Before(h[q \div 2], h[s], nf, ord)
    <3>1. Before(h[s \div 2], h[s], nf, ord)
      BY <1>1, <2>6 DEF Ordered, n
    <3> QED BY <2>3, <3>1
  <2>9. h[q \div 2] \in S \ {t} /\ h[s] \in S \ {t}
    <3>1. q \div 2 \in 1 .. n
      BY <1>1, <2>2
    <3> QED BY <1>9, <2>2, <2>6, <3>1
  <2>10. Before(r[q], r[s], nf0, ord2)
    BY <1>8, <2>7, <2>8, <2>9
  <2> QED BY <2>4, <2>7, <2>9, <2>10 DEF Precedence
<1>17. i <= d /\ d \in W /\ d \in 1 .. m
  <2>1. ASSUME NEW q \in W, 1 < q, q <= i PROVE Before(r[q], r[n], nf0, ord2)
    <3>1. q \in A /\ q \in 1 .. n /\ q # 1
      BY <1>1, <1>6, <1>10, <1>11, <1>16, <2>1 DEF A
    <3>2. q \div 2 \in Nat /\ q \div 2 >= 1 /\ q \div 2 < q /\ q \in Nat
      BY <1>1, <2>1, <3>1, Halves
    <3>3. q \div 2 \in 1 .. n /\ q \div 2 # i /\ q \div 2 # n /\ n \in 1 .. n /\ n # 1 /\ n # i
      BY <1>1, <2>1, <3>2
    <3>4. r[q] = h[q \div 2]
      BY <1>5, <3>1
    <3>5. n \notin A
      BY <1>1, <1>6
    <3>6. r[n] = h[n]
      BY <1>5, <3>3, <3>5
    <3>7. q \div 2 \in Ancestors[n]
      BY <1>6, <1>7, <2>1, <3>1
    <3>8. n \in DOMAIN h
      BY <1>1, <3>3
    <3>9. Before(h[q \div 2], h[n], nf, ord)
      BY <1>1, <3>3, <3>7, <3>8, AncestorPrecedes
    <3> QED BY <1>8, <1>9, <3>3, <3>4, <3>6, <3>9
  <2>2. i \in P
    BY <1>16, <2>1
  <2>3. P \in SUBSET (0 .. m)
    <3>1. W \subseteq 0 .. m
      BY <1>10
    <3> QED BY <3>1
  <2>4. d \in P /\ \A y \in P : y <= d
    BY <1>1, <1>14, <2>2, <2>3, MaxIsGreatest
  <2> QED BY <1>10, <2>2, <2>4
<1>18. ASSUME NEW q \in 1 .. m, i \notin Ancestors[q] PROVE f[q] = h[q]
  <2>1. q # d /\ (q \in W => q < i)
    <3>1. q \in W => ~(i <= q)
      BY <1>11, <1>16, <1>18
    <3> QED BY <1>1, <1>10, <1>17, <3>1
  <2>2. CASE q \in W
    <3> DEFINE c == ch(q)
    <3>1. q < i /\ q < d
      BY <1>1, <1>17, <2>1, <2>2
    <3>2. q <= i \div 2 /\ 2 * q <= m
      <4>1. q <= i \div 2
        BY <1>10, <1>16, <2>2, <3>1
      <4>2. i \div 2 \in Nat /\ (i = 2 * (i \div 2) \/ i = 2 * (i \div 2) + 1)
        BY <1>1, Halves
      <4> QED BY <1>1, <4>1, <4>2
    <3>3. c \in W /\ c \in 2 .. m /\ c \div 2 = q
      BY <1>10, <1>12, <2>2, <3>2
    <3>4. f[q] = r[c]
      BY <1>15, <2>1, <2>2, <3>1
    <3> HIDE DEF c
    <3>5. c <= i
      <4>1. ~(i < c)
        BY <1>1, <1>10, <1>16, <3>1, <3>3
      <4> QED BY <1>1, <3>3, <4>1
    <3>6. c \in A
      BY <1>11, <1>16, <3>3, <3>5 DEF A
    <3>7. c \in 1 .. n /\ c # 1
      BY <1>1, <3>3
    <3> QED BY <1>5, <3>3, <3>4, <3>6, <3>7
  <2>3. CASE q \notin W
    <3>1. f[q] = r[q]
      BY <1>15, <2>1, <2>3
    <3>2. q \notin A
      <4> SUFFICES ASSUME q \in A PROVE FALSE
        OBVIOUS
      <4>1. Ancestors[q] \subseteq A
        BY <1>1, AncestorsNest DEF A
      <4> QED BY <1>1, <1>13, <1>16, <2>3, <4>1 DEF A
    <3>3. q \in 1 .. n /\ q # 1
      BY <1>1, <1>5, <3>2
    <3> QED BY <1>5, <3>1, <3>2, <3>3
  <2> QED BY <2>2, <2>3
<1> QED BY <1>18 DEF f, r, m, n
\* heapIncreaseKey of t at i, where it no longer precedes the child at c: it
\* does not come back to i.
LEMMA IncreaseMoves ==
    ASSUME NEW S, NEW nf, NEW ord, NEW nf0, NEW nf2, NEW ord2,
           NEW h, IsHeap(h, S, nf, ord), Precedence(S, nf, ord),
           Precedence(S, nf0, ord2), Precedence(S, nf2, ord2),
           NEW i \in DOMAIN h, Agree(S \ {h[i]}, nf, ord, nf0, ord2),
           \A b \in S : b # h[i] => Before(h[i], b, nf0, ord2),
           NEW f, f = PopHeap(PushHeap(h, i, nf0, ord2), nf0, ord2),
           IsHeap(f, S \ {h[i]}, nf2, ord2),
           IsHeap(HeapInsert(f, h[i], nf2, ord2), S, nf2, ord2),
           NEW c \in 2 .. Len(h), c \div 2 = i, ~Before(h[i], h[c], nf2, ord2)
    PROVE  HeapInsert(f, h[i], nf2, ord2)[i] # h[i]
<1> DEFINE n == Len(h)
           t == h[i]
           a == Append(f, t)
           g == HeapInsert(f, h[i], nf2, ord2)
           A == Ancestors[n]
           d == RisesTo(a, n, nf2, ord2)
<1> SUFFICES ASSUME g[i] = t PROVE FALSE
  OBVIOUS
<1>1. /\ h \in Seq(S) /\ NoDuplicates(h) /\ Listed(h) = S
      /\ n \in Nat /\ DOMAIN h = 1 .. n /\ i \in 1 .. n /\ c \in 1 .. n /\ i < c /\ c \in Nat /\ c # 0
      /\ i < n /\ n >= 2
  <2>1. h \in Seq(S) /\ NoDuplicates(h) /\ Listed(h) = S
    BY DEF IsHeap
  <2>2. n \in Nat /\ DOMAIN h = 1 .. n /\ c \in 2 .. n
    BY <2>1
  <2>3. i < c
    BY <2>2, Halves
  <2> QED BY <2>1, <2>2, <2>3
<1>2. /\ g \in Seq(S) /\ NoDuplicates(g) /\ Listed(g) = S /\ Ordered(g, nf2, ord2)
  BY DEF IsHeap
<1>3. t \in S
  BY <1>1
<1>4. f \in Seq(S \ {t}) /\ NoDuplicates(f) /\ Listed(f) = S \ {t} /\ f \in Seq(S)
  <2>1. f \in Seq(S \ {t}) /\ NoDuplicates(f) /\ Listed(f) = S \ {t}
    BY DEF IsHeap
  <2> QED BY <2>1
<1>5. Len(f) = n - 1
  <2> DEFINE r == PushHeap(h, i, nf0, ord2)
  <2>1. IsHeap(r, S, nf0, ord2) /\ Len(r) = n
    <3>1. PICK u \in S : u = t
      BY <1>3
    <3>2. h[i] = u /\ Agree(S \ {u}, nf, ord, nf0, ord2)
      BY <3>1
    <3>3. \A b \in S \ {u} : Before(u, b, nf, ord) => Before(u, b, nf0, ord2)
      BY <3>1
    <3> QED BY <3>2, <3>3, DecreaseKeeps
  <2>2. f = PopHeap(r, nf0, ord2)
    OBVIOUS
  <2> HIDE DEF r
  <2>3. r \in Seq(S) /\ NoDuplicates(r) /\ Ordered(r, nf0, ord2) /\ r # <<>>
    <3>1. r \in Seq(S) /\ NoDuplicates(r) /\ Ordered(r, nf0, ord2)
      BY <2>1 DEF IsHeap
    <3> QED BY <1>1, <2>1, <3>1
  <2>4. Len(PopHeap(r, nf0, ord2)) = Len(r) - 1
    BY <2>3, PopKeeps
  <2> QED BY <2>1, <2>2, <2>4
<1>6. /\ a \in Seq(S) /\ NoDuplicates(a) /\ Len(a) = n /\ DOMAIN a = 1 .. n
      /\ a[n] = t /\ \A q \in 1 .. n - 1 : a[q] = f[q]
  <2>1. a \in Seq(S) /\ NoDuplicates(a)
    BY <1>3, <1>4, ListAppend
  <2>2. Len(a) = Len(f) + 1 /\ a[Len(f) + 1] = t /\ \A q \in 1 .. Len(f) : a[q] = f[q]
    BY <1>4
  <2> HIDE DEF a
  <2> QED BY <1>1, <1>5, <2>1, <2>2
<1>7. d \in A
  <2>1. PICK k \in DOMAIN a : k = n
    <3> HIDE DEF a, n
    <3>1. n \in DOMAIN a
      BY <1>1, <1>6
    <3> QED BY <3>1
  <2>2. RisesTo(a, k, nf2, ord2) \in Ancestors[k]
    BY <1>6, <2>1, RestingPlace
  <2> QED BY <2>1, <2>2
<1>8. g = [q \in 1 .. n |-> IF q = d THEN a[n]
                            ELSE IF q \in A /\ q > d THEN a[q \div 2] ELSE a[q]]
  <2>1. g = PushHeap(a, n, nf2, ord2)
    <3>1. Len(f) + 1 = n
      BY <1>1, <1>5
    <3> QED BY <3>1 DEF HeapInsert
  <2> QED BY <1>6, <2>1 DEF PushHeap
<1> HIDE DEF n, t, a, g, A, d
<1>9. A \subseteq 1 .. n /\ n \in A
  BY <1>1, AncestorsChain DEF ChainUp, A
<1>10. d = i
  <2>1. d \in 1 .. n /\ g[d] = t
    BY <1>6, <1>7, <1>8, <1>9
  <2>2. DOMAIN g = 1 .. n
    BY <1>8
  <2> QED BY <1>1, <1>2, <2>1, <2>2 DEF NoDuplicates
<1>11. \A q \in 1 .. n - 1 : i \notin Ancestors[q] => f[q] = h[q]
  <2>1. i < Len(h) /\ i \in Ancestors[Len(h)]
    BY <1>1, <1>7, <1>10 DEF n, A
  <2> QED BY <2>1, PoppedIs DEF n
<1>12. ASSUME NEW q \in 1 .. n, i \notin Ancestors[q] PROVE g[q] = h[q]
  <2>1. i \in Ancestors[i]
    <3>1. i \in Nat /\ i # 0
      BY <1>1
    <3> QED BY <3>1, AncestorsDef
  <2>2. q # i /\ q # n
    BY <1>7, <1>10, <1>12, <2>1 DEF A
  <2>3. ~(q \in A /\ q > i)
    <3> SUFFICES ASSUME q \in A, q > i PROVE FALSE
      OBVIOUS
    <3>1. i \in A /\ i <= q
      BY <1>1, <1>7, <1>10
    <3> QED BY <1>1, <1>12, <3>1, AncestorsNest DEF A
  <2>4. q \in 1 .. n - 1
    BY <1>1, <2>2
  <2>5. g[q] = a[q]
    BY <1>8, <1>10, <2>2, <2>3
  <2> QED BY <1>6, <1>11, <1>12, <2>4, <2>5
<1>13. i \in Ancestors[c]
  <2>1. Ancestors[c] = {c} \cup Ancestors[i]
    BY <1>1, AncestorsDef
  <2>2. Ancestors[i] = {i} \cup Ancestors[i \div 2]
    <3>1. i \in Nat /\ i # 0
      BY <1>1
    <3> QED BY <3>1, AncestorsDef
  <2> QED BY <2>1, <2>2
<1>14. h[c] \in S /\ h[c] # t
  BY <1>1 DEF NoDuplicates, t
<1>15. PICK p \in DOMAIN g : g[p] = h[c]
  BY <1>2, <1>14 DEF Listed
<1>16. p \in 1 .. n /\ p # i
  BY <1>8, <1>14, <1>15
<1>17. i \in Ancestors[p]
  <2> SUFFICES ASSUME i \notin Ancestors[p] PROVE FALSE
    OBVIOUS
  <2>1. h[p] = h[c]
    BY <1>12, <1>15, <1>16
  <2>2. p = c
    BY <1>1, <1>16, <2>1 DEF NoDuplicates
  <2> QED BY <1>13, <2>2
<1>18. Before(t, h[c], nf2, ord2)
  BY <1>2, <1>15, <1>16, <1>17, AncestorPrecedes
<1> QED BY <1>18 DEF t
\* The children of a place.
LEMMA ChildOf ==
    ASSUME NEW n \in Nat, NEW i \in 1 .. n, NEW c \in {2 * i, 2 * i + 1}, c <= n
    PROVE  c \in 2 .. n /\ c \div 2 = i
<1>1. i \in Nat /\ i >= 1
  OBVIOUS
<1>2. (2 * i) \div 2 = i /\ (2 * i + 1) \div 2 = i
  BY <1>1
<1> QED BY <1>1, <1>2

\* updateHeapIfNeeded, without its early return, changes m_heapIndex.
LEMMA UpdateMoves ==
    ASSUME NEW nf \in [Timers -> Nat], NEW t \in Timers, NEW time \in Nat, nf[t] # time,
           order \in Seq(Timers), NoDuplicates(order),
           Active(nf) \subseteq Listed(order), Listed(order) \subseteq Active(nf) \cup {t},
           NEW h, IsHeap(h, Active(nf), nf, order),
           ~(/\ time # 0 /\ Position(h, t) # 0
             /\ HasValidHeapPosition(h, Position(h, t), [nf EXCEPT ![t] = time],
                                     Renumbered(t, time)))
    PROVE  Position(UpdateHeapIfNeeded(h, t, nf[t], [nf EXCEPT ![t] = time],
                                       Renumbered(t, time)), t) # Position(h, t)
<1> DEFINE nf2 == [nf EXCEPT ![t] = time]
           nf0 == [nf EXCEPT ![t] = 0]
           ord2 == Renumbered(t, time)
           S == Active(nf)
           i == Position(h, t)
           g == UpdateHeapIfNeeded(h, t, nf[t], nf2, ord2)
<1>1. /\ Precedence(S, nf, order)
      /\ Precedence(S \cup {t}, nf2, ord2) /\ Agree(S \ {t}, nf, order, nf2, ord2)
      /\ Precedence(S \cup {t}, nf0, ord2) /\ Agree(S \ {t}, nf, order, nf0, ord2)
  BY NewKey
<1>2. /\ nf2[t] = time /\ nf0[t] = 0 /\ nf[t] \in Nat
      /\ \A b \in S \ {t} : nf0[b] = nf[b] /\ nf2[b] = nf[b] /\ nf[b] \in Nat \ {0}
  BY DEF Active
<1>3. /\ nf[t] # 0 => t \in S
      /\ nf[t] = 0 => t \notin S
      /\ time = 0 => t \notin Active(nf2)
      /\ time # 0 => Active(nf2) = S \cup {t}
  BY DEF Active
<1>4. IsHeap(g, Active(nf2), nf2, ord2)
  BY UpdateKeeps
<1>5. IsHeap(h, S, nf, order)
  OBVIOUS
<1>6. [nf2 EXCEPT ![t] = 0] = nf0
  OBVIOUS
<1>7. ~(time # 0 /\ i # 0 /\ HasValidHeapPosition(h, i, nf2, ord2))
  OBVIOUS
<1> DEFINE S2 == Active(nf2)
<1> HIDE DEF nf2, nf0, ord2, S, S2
<1>8. /\ h \in Seq(S) /\ NoDuplicates(h) /\ Listed(h) = S /\ Ordered(h, nf, order)
      /\ Len(h) \in Nat /\ DOMAIN h = 1 .. Len(h)
  BY <1>5 DEF IsHeap
<1>9. /\ t \in S => i \in 1 .. Len(h) /\ h[i] = t
      /\ t \notin S => i = 0
  BY <1>8, PositionIs
<1>10. /\ t \in S2 => Position(g, t) \in 1 .. Len(g) /\ g[Position(g, t)] = t
       /\ t \notin S2 => Position(g, t) = 0
  <2> HIDE DEF g
  <2>1. /\ NoDuplicates(g) /\ Listed(g) = S2
        /\ Len(g) \in Nat /\ DOMAIN g = 1 .. Len(g)
    BY <1>4 DEF IsHeap, S2
  <2> QED BY <2>1, PositionIs
<1>11. CASE nf[t] = 0
  <2>1. i = 0 /\ t \in S2
    BY <1>3, <1>9, <1>11 DEF S2
  <2> HIDE DEF g, i
  <2>2. Position(g, t) >= 1
    BY <1>10, <2>1
  <2> QED BY <2>1, <2>2 DEF g, i, nf2, ord2
<1>12. CASE time = 0
  <2>1. i \in 1 .. Len(h) /\ Position(g, t) = 0
    BY <1>3, <1>9, <1>10, <1>12 DEF S2
  <2> HIDE DEF g, i
  <2> QED BY <2>1 DEF g, i, nf2, ord2
<1>13. CASE nf[t] # 0 /\ time # 0
  <2>1. t \in S /\ S \cup {t} = S /\ S2 = S
    BY <1>3, <1>13 DEF S2
  <2>2. i \in DOMAIN h /\ h[i] = t /\ i \in 1 .. Len(h) /\ i # 0
    BY <1>8, <1>9, <2>1
  <2>3. ~HasValidHeapPosition(h, i, nf2, ord2)
    BY <1>7, <1>13, <2>2
  <2>4. Precedence(S, nf2, ord2) /\ Precedence(S, nf0, ord2)
    BY <1>1, <2>1
  <2>5. ASSUME NEW c \in 2 .. Len(h), c = i \/ c \div 2 = i
        PROVE  /\ Before(h[c \div 2], h[c], nf, order)
               /\ c = i => h[c \div 2] \in S \ {t}
               /\ c \div 2 = i => h[c] \in S \ {t}
    <3>1. c \in DOMAIN h /\ c \div 2 \in DOMAIN h /\ c \div 2 # c
      BY <1>8, Halves
    <3> HIDE DEF i
    <3>2. Before(h[c \div 2], h[c], nf, order)
      BY <1>8 DEF Ordered
    <3>3. \A q \in DOMAIN h : q # i => h[q] \in S \ {t}
      BY <1>8, <2>2 DEF NoDuplicates
    <3> QED BY <3>1, <3>2, <3>3
  <2>6. g[i] # t
    <3>1. CASE time < nf[t]
      <4>1. g = PushHeap(h, i, nf2, ord2)
        BY <1>2, <1>13, <2>3, <3>1 DEF UpdateHeapIfNeeded
      <4>2. ASSUME NEW b \in S \ {t}, Before(t, b, nf, order) PROVE Before(t, b, nf2, ord2)
        <5>1. nf[t] <= nf[b]
          BY <1>2, <4>2 DEF Before
        <5>2. nf2[t] < nf2[b]
          BY <1>2, <3>1, <5>1
        <5> QED BY <5>2 DEF Before
      <4> HIDE DEF i, g
      <4>3. ASSUME NEW c \in {2 * i, 2 * i + 1}, c <= Len(h)
            PROVE  Before(h[i], h[c], nf2, ord2)
        <5>1. c \in 2 .. Len(h) /\ c \div 2 = i
          BY <1>8, <2>2, <4>3, ChildOf
        <5> QED BY <2>2, <2>5, <4>2, <5>1
      <4>4. i > 1 /\ ~Before(h[i \div 2], h[i], nf2, ord2)
        BY <2>3, <4>3 DEF HasValidHeapPosition
      <4>5. i \in 2 .. Len(h)
        BY <2>2, <4>4
      <4>6. h[i \div 2] \in S \ {t}
        BY <2>5, <4>5
      <4>7. Before(t, h[i \div 2], nf2, ord2)
        BY <2>1, <2>2, <2>4, <4>4, <4>6 DEF Precedence
      <4>8. i > 1 /\ Before(t, h[i \div 2], nf2, ord2) => PushHeap(h, i, nf2, ord2)[i] # t
        BY <1>1, <1>5, <2>1, <2>2, <2>4, <4>2, DecreaseKeeps
      <4> QED BY <4>1, <4>4, <4>7, <4>8
    <3>2. CASE ~(time < nf[t])
      <4> DEFINE f == HeapRemove(h, i, nf2, ord2)
      <4>1. g = HeapInsert(f, t, nf2, ord2)
        BY <1>2, <1>13, <2>3, <3>2 DEF UpdateHeapIfNeeded
      <4>2. f = PopHeap(PushHeap(h, i, nf0, ord2), nf0, ord2)
        BY <1>6, <2>2 DEF HeapRemove
      <4>3. nf[t] < time
        BY <1>2, <3>2
      <4> HIDE DEF f, i, g
      <4>4. i > 1 => Before(h[i \div 2], h[i], nf2, ord2)
        <5> SUFFICES ASSUME i > 1 PROVE Before(h[i \div 2], h[i], nf2, ord2)
          OBVIOUS
        <5>1. i \in 2 .. Len(h)
          BY <2>2
        <5>2. Before(h[i \div 2], t, nf, order) /\ h[i \div 2] \in S \ {t}
          BY <2>2, <2>5, <5>1
        <5>3. nf[h[i \div 2]] <= nf[t]
          BY <1>2, <5>2 DEF Before
        <5>4. nf2[h[i \div 2]] < nf2[t]
          BY <1>2, <4>3, <5>2, <5>3
        <5> QED BY <2>2, <5>4 DEF Before
      <4>5. PICK c \in {2 * i, 2 * i + 1} : c <= Len(h) /\ ~Before(h[i], h[c], nf2, ord2)
        BY <2>3, <4>4 DEF HasValidHeapPosition
      <4>6. c \in 2 .. Len(h) /\ c \div 2 = i
        BY <1>8, <2>2, <4>5, ChildOf
      <4>7. ASSUME NEW b \in S, b # t PROVE Before(t, b, nf0, ord2)
        BY <1>2, <4>7 DEF Before
      <4>8. IsHeap(f, S \ {t}, nf2, ord2)
        <5>1. \A b \in S \ {t} : Before(t, b, nf0, ord2)
          BY <4>7
        <5>2. IsHeap(f, S \ {t}, nf0, ord2)
          BY <1>1, <1>5, <2>1, <2>2, <2>4, <4>2, <5>1, RemoveKeeps
        <5>3. Agree(S \ {t}, nf0, ord2, nf2, ord2)
          BY <1>2 DEF Agree, Before
        <5> QED BY <5>2, <5>3, AgreeingHeap
      <4>9. IsHeap(HeapInsert(f, t, nf2, ord2), S, nf2, ord2)
        BY <1>4, <2>1, <4>1 DEF S2
      <4>10. HeapInsert(f, h[i], nf2, ord2)[i] # h[i]
        BY <1>1, <1>5, <2>2, <2>4, <4>2, <4>5, <4>6, <4>7, <4>8, <4>9, IncreaseMoves
      <4> QED BY <2>2, <4>1, <4>10
    <3> QED BY <3>1, <3>2
  <2> HIDE DEF g, i
  <2>7. Position(g, t) # i
    BY <1>10, <2>1, <2>6
  <2> QED BY <2>7 DEF g, i, nf2, ord2
<1> QED BY <1>11, <1>12, <1>13
-----------------------------------------------------------------------------
(* The shared timer.                                                        *)

\* A list with one more element at place k.
LEMMA InsertIs ==
    ASSUME NEW S, NEW s \in Seq(S), NEW k \in 1 .. Len(s) + 1, NEW x \in S
    PROVE  /\ InsertAt(s, k, x) \in Seq(S)
           /\ Len(InsertAt(s, k, x)) = Len(s) + 1
           /\ Listed(InsertAt(s, k, x)) = Listed(s) \cup {x}
<1> DEFINE a == SubSeq(s, 1, k - 1)
           b == SubSeq(s, k, Len(s))
           n == Len(s)
<1>1. n \in Nat /\ DOMAIN s = 1 .. n /\ k - 1 \in Int /\ k \in Int /\ n \in Int /\ k - 1 <= n
  OBVIOUS
<1>2. /\ a \in Seq(S) /\ Len(a) = k - 1
      /\ \A j \in 1 .. k - 1 : a[j] = s[j]
  <2>1. \A j \in 1 .. k - 1 : s[j] \in S
    BY <1>1
  <2>2. /\ a \in Seq(S) /\ Len(a) = IF 1 <= k - 1 THEN (k - 1) - 1 + 1 ELSE 0
        /\ \A j \in 1 .. (k - 1) - 1 + 1 : a[j] = s[1 + j - 1]
    BY <1>1, <2>1, SubSeqProperties
  <2> QED BY <1>1, <2>2
<1>3. /\ b \in Seq(S) /\ Len(b) = n - k + 1
      /\ \A j \in 1 .. n - k + 1 : b[j] = s[k + j - 1]
  <2>1. \A j \in k .. n : s[j] \in S
    BY <1>1
  <2>2. /\ b \in Seq(S) /\ Len(b) = IF k <= n THEN n - k + 1 ELSE 0
        /\ \A j \in 1 .. n - k + 1 : b[j] = s[k + j - 1]
    BY <1>1, <2>1, SubSeqProperties
  <2>3. ~(k <= n) => n - k + 1 = 0
    BY <1>1
  <2> QED BY <2>2, <2>3
<1> HIDE DEF a, b
<1>4. <<x>> \in Seq(S) /\ Len(<<x>>) = 1 /\ Listed(<<x>>) = {x}
  BY DEF Listed
<1>5. a \o <<x>> \in Seq(S) /\ Listed(a \o <<x>>) = Listed(a) \cup {x} /\ Len(a \o <<x>>) = k
  <2>1. Len(a \o <<x>>) = Len(a) + 1
    BY <1>2, <1>4, ConcatProperties
  <2>2. a \o <<x>> \in Seq(S) /\ Listed(a \o <<x>>) = Listed(a) \cup Listed(<<x>>)
    BY <1>2, <1>4, ListConcat
  <2>3. Len(a) + 1 = k
    BY <1>1, <1>2
  <2> QED BY <1>4, <2>1, <2>2, <2>3
<1> DEFINE c == a \o <<x>>
<1> HIDE DEF c
<1>6. /\ c \o b \in Seq(S) /\ Listed(c \o b) = Listed(a) \cup {x} \cup Listed(b)
      /\ Len(c \o b) = n + 1
  <2>1. c \in Seq(S) /\ Listed(c) = Listed(a) \cup {x} /\ Len(c) = k
    BY <1>5 DEF c
  <2>2. Len(c \o b) = Len(c) + Len(b)
    BY <1>3, <2>1, ConcatProperties
  <2> QED BY <1>1, <1>3, <2>1, <2>2, ListConcat
<1>7. Listed(a) \cup Listed(b) = Listed(s)
  <2>1. ASSUME NEW y \in Listed(a) PROVE y \in Listed(s)
    <3>1. PICK j \in 1 .. k - 1 : y = a[j]
      BY <1>2 DEF Listed
    <3> QED BY <1>1, <1>2, <3>1 DEF Listed
  <2>2. ASSUME NEW y \in Listed(b) PROVE y \in Listed(s)
    <3>1. PICK j \in 1 .. n - k + 1 : y = b[j]
      BY <1>3 DEF Listed
    <3>2. k + j - 1 \in DOMAIN s /\ y = s[k + j - 1]
      BY <1>1, <1>3, <3>1
    <3> QED BY <3>2 DEF Listed
  <2>3. ASSUME NEW y \in Listed(s) PROVE y \in Listed(a) \cup Listed(b)
    <3>1. PICK j \in 1 .. n : y = s[j]
      BY <1>1 DEF Listed
    <3>2. CASE j <= k - 1
      <4>1. j \in DOMAIN a /\ a[j] = y
        BY <1>1, <1>2, <3>1, <3>2
      <4> QED BY <4>1 DEF Listed
    <3>3. CASE j >= k
      <4>1. j - k + 1 \in 1 .. n - k + 1 /\ k + (j - k + 1) - 1 = j
        BY <1>1, <3>3
      <4>2. j - k + 1 \in DOMAIN b /\ b[j - k + 1] = y
        <5>1. DOMAIN b = 1 .. n - k + 1
          BY <1>3
        <5>2. b[j - k + 1] = s[k + (j - k + 1) - 1]
          BY <1>3, <4>1
        <5> QED BY <3>1, <4>1, <5>1, <5>2
      <4> QED BY <4>2 DEF Listed
    <3> QED BY <1>1, <3>2, <3>3
  <2> QED BY <2>1, <2>2, <2>3
<1>8. InsertAt(s, k, x) = c \o b
  BY DEF InsertAt, a, b, c
<1> QED BY <1>6, <1>7, <1>8

\* The larger of two.
LEMMA MaxOfTwo ==
    ASSUME NEW a \in Nat, NEW b \in Nat
    PROVE  Max({a, b}) = IF a <= b THEN b ELSE a
<1> DEFINE m == IF a <= b THEN b ELSE a
<1>1. m \in {a, b} /\ \A y \in {a, b} : m >= y
  OBVIOUS
<1>2. \A x \in {a, b} : (\A y \in {a, b} : x >= y) => x = m
  OBVIOUS
<1> HIDE DEF m
<1>3. Max({a, b}) \in {a, b} /\ \A y \in {a, b} : Max({a, b}) >= y
  BY <1>1 DEF Max
<1>4. Max({a, b}) = m
  BY <1>2, <1>3
<1> QED BY <1>4 DEF m

\* Fl::add_timeout.
LEMMA AddTimeoutIs ==
    ASSUME NEW sh \in SharedTimers, NEW e \in 0 .. Horizon
    PROVE  LET a == AddTimeout(sh, e) IN
           /\ a \in SharedTimers
           /\ a.interval = sh.interval /\ a.running = sh.running
           /\ Len(a.timeouts) = Len(sh.timeouts) + 1
           /\ Listed(a.timeouts) = Listed(sh.timeouts) \cup {e}
<1> DEFINE ts == sh.timeouts
           P == {j \in 1 .. Len(ts) + 1 : j <= Len(ts) => e < ts[j]}
           k == Min(P)
<1>1. ts \in Seq(0 .. Horizon) /\ Len(ts) \in Nat
  BY DEF SharedTimers
<1>2. P \in SUBSET Nat /\ Len(ts) + 1 \in P
  BY <1>1
<1>3. k \in P
  BY <1>2, MinIsLeast
<1>4. k \in 1 .. Len(ts) + 1
  BY <1>3
<1> HIDE DEF k, ts
<1>5. /\ InsertAt(ts, k, e) \in Seq(0 .. Horizon)
      /\ Len(InsertAt(ts, k, e)) = Len(ts) + 1
      /\ Listed(InsertAt(ts, k, e)) = Listed(ts) \cup {e}
  <2> DEFINE T == 0 .. Horizon
  <2>1. ts \in Seq(T) /\ e \in T
    BY <1>1
  <2> HIDE DEF T
  <2>2. /\ InsertAt(ts, k, e) \in Seq(T)
        /\ Len(InsertAt(ts, k, e)) = Len(ts) + 1
        /\ Listed(InsertAt(ts, k, e)) = Listed(ts) \cup {e}
    BY <1>4, <2>1, InsertIs
  <2> QED BY <2>2 DEF T
<1>6. AddTimeout(sh, e) = [sh EXCEPT !.timeouts = InsertAt(ts, k, e)]
  BY DEF AddTimeout, k, ts
<1> QED BY <1>5, <1>6 DEF SharedTimers, ts

\* The members of a list.
LEMMA ListedIn ==
    ASSUME NEW S, NEW s \in Seq(S)
    PROVE  Listed(s) \subseteq S
BY DEF Listed

\* FLTK will run callback() by that time, or at once.
Armed(sh, time, clock) == \E e \in Listed(sh.timeouts) : e <= clock \/ e <= time

\* The timeouts there are, and the one that setSharedTimerFireInterval would
\* add without taking another away.
Load(sh) == Len(sh.timeouts) + IF sh.running THEN 0 ELSE 1

\* Both are numbers.
LEMMA LoadIs ==
    ASSUME NEW sh \in SharedTimers
    PROVE  Load(sh) \in Nat /\ Len(sh.timeouts) \in Nat
BY DEF Load, SharedTimers

\* stopSharedTimer.
LEMMA StopSharedTimerIs ==
    ASSUME NEW sh \in SharedTimers
    PROVE  LET a == StopSharedTimer(sh) IN
           /\ a \in SharedTimers /\ ~a.running /\ a.interval = sh.interval
           /\ sh.running => Len(a.timeouts) = 0
           /\ ~sh.running => a.timeouts = sh.timeouts
           /\ Load(a) <= Load(sh) \/ Load(a) <= 1
<1> DEFINE a == StopSharedTimer(sh)
<1>1. /\ a \in SharedTimers /\ ~a.running /\ a.interval = sh.interval
      /\ sh.running => a.timeouts = <<>>
      /\ ~sh.running => a.timeouts = sh.timeouts
  <2> DEFINE ts == IF sh.running THEN <<>> ELSE sh.timeouts
  <2>1. a = [sh EXCEPT !.timeouts = ts, !.running = FALSE]
    BY DEF StopSharedTimer
  <2>2. sh.timeouts \in Seq(0 .. Horizon) /\ <<>> \in Seq(0 .. Horizon)
    BY DEF SharedTimers
  <2>3. ts \in Seq(0 .. Horizon)
    BY <2>2
  <2> HIDE DEF a, ts
  <2>4. a \in SharedTimers /\ a.running = FALSE /\ a.interval = sh.interval /\ a.timeouts = ts
    BY <2>1, <2>3 DEF SharedTimers
  <2> QED BY <2>4 DEF ts
<1>2. Len(<<>>) = 0
  OBVIOUS
<1> HIDE DEF a
<1>3. Load(a) <= Load(sh) \/ Load(a) <= 1
  <2>1. Load(a) = Len(a.timeouts) + 1
    BY <1>1 DEF Load
  <2>2. CASE sh.running
    BY <1>1, <1>2, <2>1, <2>2
  <2>3. CASE ~sh.running
    <3>1. Load(sh) = Len(a.timeouts) + 1 /\ Load(sh) \in Nat
      BY <1>1, <2>3, LoadIs DEF Load
    <3> QED BY <2>1, <3>1
  <2> QED BY <2>2, <2>3
<1> QED BY <1>1, <1>2, <1>3 DEF a

\* setSharedTimerFireInterval.
LEMMA SetSharedTimerFireIntervalIs ==
    ASSUME NEW sh \in SharedTimers, now \in 1 .. MaxTime, NEW i \in 0 .. MaxDelay
    PROVE  LET a == SetSharedTimerFireInterval(sh, i) IN
           /\ a \in SharedTimers
           /\ now + i \in Listed(a.timeouts)
           /\ Load(a) <= Load(sh) \/ Load(a) <= 1
<1> DEFINE b == IF sh.running THEN StopSharedTimer(sh) ELSE sh
           c == AddTimeout(b, now + i)
           a == SetSharedTimerFireInterval(sh, i)
<1>1. b \in SharedTimers
  BY StopSharedTimerIs
<1>2. sh.running => Len(b.timeouts) = 0
  BY StopSharedTimerIs
<1>3. ~sh.running => b = sh
  OBVIOUS
<1> HIDE DEF b
<1>4. now + i \in 0 .. Horizon
  BY TimersAssumption DEF Horizon
<1>5. /\ c \in SharedTimers /\ Len(c.timeouts) = Len(b.timeouts) + 1
      /\ Listed(c.timeouts) = Listed(b.timeouts) \cup {now + i}
  BY <1>1, <1>4, AddTimeoutIs
<1> HIDE DEF c
<1>6. a = [c EXCEPT !.interval = i, !.running = TRUE]
  BY DEF SetSharedTimerFireInterval, b, c
<1> HIDE DEF a
<1>7. a \in SharedTimers /\ a.running /\ a.timeouts = c.timeouts
  BY <1>5, <1>6 DEF SharedTimers
<1>8. Load(a) = Len(b.timeouts) + 1
  <2>1. Len(b.timeouts) + 1 \in Int
    BY <1>1, LoadIs
  <2> QED BY <1>5, <1>7, <2>1 DEF Load
<1>9. CASE sh.running
  BY <1>2, <1>5, <1>7, <1>8, <1>9 DEF a
<1>10. CASE ~sh.running
  <2>1. Load(sh) = Len(b.timeouts) + 1 /\ Load(sh) \in Nat
    BY <1>3, <1>10, LoadIs DEF Load
  <2> QED BY <1>5, <1>7, <1>8, <2>1 DEF a
<1> QED BY <1>9, <1>10

\* Fl::repeat_timeout at the end of callback().
LEMMA RepeatedIs ==
    ASSUME NEW sh \in SharedTimers, now \in 1 .. MaxTime
    PROVE  LET a == Repeated(sh) IN
           /\ a \in SharedTimers
           /\ Listed(sh.timeouts) \subseteq Listed(a.timeouts)
           /\ Load(a) = Load(sh) + 1
<1> DEFINE i == Max({sh.interval, 1})
           c == AddTimeout(sh, now + i)
           a == Repeated(sh)
<1>1. sh.interval \in 0 .. MaxDelay /\ sh.interval \in Nat /\ MaxDelay \in Nat /\ MaxDelay >= 1
  BY TimersAssumption DEF SharedTimers
<1>2. i \in 0 .. MaxDelay
  <2>1. i = IF sh.interval <= 1 THEN 1 ELSE sh.interval
    BY <1>1, MaxOfTwo
  <2> HIDE DEF i
  <2> QED BY <1>1, <2>1
<1> HIDE DEF i
<1>3. now + i \in 0 .. Horizon
  BY <1>2, TimersAssumption DEF Horizon
<1>4. /\ c \in SharedTimers /\ Len(c.timeouts) = Len(sh.timeouts) + 1
      /\ c.running = sh.running
      /\ Listed(c.timeouts) = Listed(sh.timeouts) \cup {now + i}
  BY <1>3, AddTimeoutIs
<1> HIDE DEF c
<1>5. a = [c EXCEPT !.interval = i]
  BY DEF Repeated, c, i
<1>6. a \in SharedTimers /\ a.running = sh.running /\ a.timeouts = c.timeouts
  BY <1>2, <1>4, <1>5 DEF SharedTimers
<1> HIDE DEF a
<1>7. Load(a) = Load(sh) + 1
  <2>1. Len(sh.timeouts) \in Nat /\ Len(a.timeouts) = Len(sh.timeouts) + 1
    BY <1>4, <1>6, LoadIs
  <2>2. CASE sh.running
    BY <1>6, <2>1, <2>2 DEF Load
  <2>3. CASE ~sh.running
    BY <1>6, <2>1, <2>3 DEF Load
  <2> QED BY <2>2, <2>3
<1> QED BY <1>4, <1>6, <1>7 DEF a

\* updateSharedTimer.
LEMMA UpdateSharedTimerIs ==
    ASSUME now \in 1 .. MaxTime, shared \in SharedTimers,
           NEW f \in BOOLEAN, NEW h, NEW nf, NEW p \in 0 .. Horizon,
           h # <<>> => nf[h[1]] \in Nat /\ nf[h[1]] <= now + MaxDelay,
           p # 0 => Armed(shared, p, now)
    PROVE  LET p2 == PendingAfterUpdate(f, h, nf, p)
               sh2 == SharedAfterUpdate(f, h, nf, p) IN
           /\ p2 \in 0 .. Horizon /\ sh2 \in SharedTimers
           /\ f => p2 = 0
           /\ p2 # 0 => Armed(sh2, p2, now)
           /\ ~f /\ h # <<>> => Armed(sh2, nf[h[1]], now)
           /\ Load(sh2) <= Load(shared) \/ Load(sh2) <= 1
<1> DEFINE p2 == PendingAfterUpdate(f, h, nf, p)
           sh2 == SharedAfterUpdate(f, h, nf, p)
<1>1. Load(shared) \in Nat
  BY LoadIs
<1>2. CASE f \/ h = <<>>
  <2>1. p2 = 0 /\ sh2 = StopSharedTimer(shared)
    BY <1>2 DEF PendingAfterUpdate, SharedAfterUpdate
  <2>2. sh2 \in SharedTimers /\ (Load(sh2) <= Load(shared) \/ Load(sh2) <= 1)
    BY <2>1, StopSharedTimerIs
  <2>3. 0 \in 0 .. Horizon
    BY TimersAssumption DEF Horizon
  <2> QED BY <1>2, <2>1, <2>2, <2>3
<1>3. CASE ~f /\ h # <<>> /\ AlreadyOverdue(h, nf, p)
  <2>1. p2 = p /\ sh2 = shared /\ p # 0 /\ p <= now
    BY <1>3 DEF PendingAfterUpdate, SharedAfterUpdate, AlreadyOverdue
  <2>2. Armed(shared, nf[h[1]], now)
    <3>1. PICK e \in Listed(shared.timeouts) : e <= now \/ e <= p
      BY <2>1 DEF Armed
    <3>2. e \in Nat
      <4>1. Listed(shared.timeouts) \subseteq 0 .. Horizon
        <5>1. shared.timeouts \in Seq(0 .. Horizon)
          BY DEF SharedTimers
        <5> QED BY <5>1, ListedIn
      <4> QED BY <3>1, <4>1
    <3>3. e <= now
      BY <2>1, <3>1, <3>2
    <3> QED BY <3>3 DEF Armed
  <2> QED BY <1>1, <1>3, <2>1, <2>2
<1>4. CASE ~f /\ h # <<>> /\ ~AlreadyOverdue(h, nf, p)
  <2> DEFINE time == nf[h[1]]
             i == Max({time, now}) - now
  <2>1. time \in Nat /\ time <= now + MaxDelay /\ now \in Nat /\ now >= 1 /\ now <= MaxTime
    BY <1>4
  <2>2. p2 = time /\ sh2 = SetSharedTimerFireInterval(shared, i)
    BY <1>4 DEF PendingAfterUpdate, SharedAfterUpdate
  <2>3. Max({time, now}) = IF time <= now THEN now ELSE time
    BY <2>1, MaxOfTwo
  <2> HIDE DEF time
  <2>4. i \in 0 .. MaxDelay /\ (now + i = now \/ now + i = time)
    BY <2>1, <2>3, TimersAssumption
  <2> HIDE DEF i
  <2>5. /\ sh2 \in SharedTimers /\ now + i \in Listed(sh2.timeouts)
        /\ Load(sh2) <= Load(shared) \/ Load(sh2) <= 1
    BY <2>2, <2>4, SetSharedTimerFireIntervalIs
  <2>6. Armed(sh2, time, now)
    <3>1. now + i <= now \/ now + i <= time
      BY <2>1, <2>4
    <3> QED BY <2>5, <3>1 DEF Armed
  <2>7. time \in 0 .. Horizon
    BY <2>1, TimersAssumption DEF Horizon
  <2> QED BY <1>4, <2>2, <2>5, <2>6, <2>7 DEF time
<1> QED BY <1>2, <1>3, <1>4
-----------------------------------------------------------------------------
(* setNextFireTime.                                                         *)

\* Nothing but the key of t is different, and t may come or go.
OtherKeysKept(t, S, nf, ord, S2, nf2, ord2) ==
    S \ {t} = S2 \ {t} /\ Agree(S \ {t}, nf, ord, nf2, ord2)

\* When the key of t changes and t is first neither before nor after, the same
\* timer is first before and after: why setNextFireTime need not call
\* updateSharedTimer then.
LEMMA FirstStays ==
    ASSUME NEW S, NEW nf, NEW ord, NEW h, IsHeap(h, S, nf, ord), Precedence(S, nf, ord),
           NEW S2, NEW nf2, NEW ord2, NEW g, IsHeap(g, S2, nf2, ord2),
           Precedence(S2, nf2, ord2),
           NEW t, OtherKeysKept(t, S, nf, ord, S2, nf2, ord2),
           g # <<>>, g[1] # t, h # <<>> => h[1] # t
    PROVE  h # <<>> /\ h[1] = g[1]
<1>1. /\ h \in Seq(S) /\ Listed(h) = S /\ Ordered(h, nf, ord)
      /\ g \in Seq(S2) /\ Listed(g) = S2 /\ Ordered(g, nf2, ord2)
  BY DEF IsHeap
<1>2. 1 \in DOMAIN g /\ g[1] \in S \ {t}
  BY <1>1 DEF OtherKeysKept
<1>3. PICK i \in DOMAIN h : h[i] = g[1]
  BY <1>1, <1>2 DEF Listed
<1>4. h # <<>> /\ 1 \in DOMAIN h /\ h[1] \in S \ {t}
  BY <1>1, <1>3
<1>5. PICK j \in DOMAIN g : g[j] = h[1]
  BY <1>1, <1>4 DEF Listed, OtherKeysKept
<1>6. ASSUME h[1] # g[1] PROVE FALSE
  <2>1. i \in 2 .. Len(h) /\ j \in 2 .. Len(g)
    BY <1>1, <1>3, <1>5, <1>6
  <2>2. Before(h[1], g[1], nf, ord)
    BY <1>1, <1>3, <2>1, FirstPrecedes
  <2>3. Before(g[1], h[1], nf2, ord2)
    BY <1>1, <1>5, <2>1, FirstPrecedes
  <2>4. Before(g[1], h[1], nf, ord)
    BY <1>2, <1>4, <2>3 DEF Agree, OtherKeysKept
  <2> QED BY <1>2, <1>4, <2>2, <2>4 DEF Precedence
<1> QED BY <1>4, <1>6

\* m_heapIndex is 0 for the first timer of the heap.
LEMMA FirstPosition ==
    ASSUME NEW S, NEW h \in Seq(S), NoDuplicates(h), NEW t
    PROVE  Position(h, t) = 1 <=> h # <<>> /\ h[1] = t
<1>1. Len(h) \in Nat /\ DOMAIN h = 1 .. Len(h)
  OBVIOUS
<1>2. /\ \A i \in 1 .. Len(h) : Position(h, h[i]) = i
      /\ t \in Listed(h) => Position(h, t) \in 1 .. Len(h) /\ h[Position(h, t)] = t
      /\ t \notin Listed(h) => Position(h, t) = 0
  BY <1>1, PositionIs
<1>3. ASSUME Position(h, t) = 1 PROVE h # <<>> /\ h[1] = t
  BY <1>1, <1>2, <1>3
<1>4. ASSUME h # <<>>, h[1] = t PROVE Position(h, t) = 1
  <2>1. 1 \in 1 .. Len(h)
    BY <1>1, <1>4
  <2> QED BY <1>2, <1>4, <2>1
<1> QED BY <1>3, <1>4

\* The heap and the numbers agree with the fire times.
KeysMatch(h, nf, ord) ==
    /\ IsHeap(h, Active(nf), nf, ord)
    /\ ord \in Seq(Timers) /\ NoDuplicates(ord) /\ Listed(ord) = Active(nf)

\* Nothing is due later than the longest interval from now.
KeysBounded(nf, clock) ==
    /\ nf \in [Timers -> Nat]
    /\ \A x \in Timers : nf[x] <= clock + MaxDelay

\* The pending fire time says that a timeout is set by then, and outside the
\* firing of timers there is one for the first of the heap.
SharedArmed(f, p, sh, h, nf, clock) ==
    /\ f => p = 0
    /\ p # 0 => Armed(sh, p, clock)
    /\ ~f /\ h # <<>> => Armed(sh, nf[h[1]], clock)

\* The whole of TimerBase::setNextFireTime, from a heap and fire times that
\* agree: its early return, the update of the heap and the shared timer's.
LEMMA SetNextFireTimeIs ==
    ASSUME now \in 1 .. MaxTime, firing \in BOOLEAN, pending \in 0 .. Horizon,
           shared \in SharedTimers, order \in Seq(Timers), NoDuplicates(order),
           NEW t \in Timers, NEW time \in Nat, time <= now + MaxDelay,
           NEW nf, KeysBounded(nf, now), NEW h, IsHeap(h, Active(nf), nf, order),
           Active(nf) \subseteq Listed(order), Listed(order) \subseteq Active(nf) \cup {t},
           SharedArmed(firing, pending, shared, h, nf, now),
           SetNextFireTime(t, time, h, nf)
    PROVE  /\ KeysMatch(heap', nextFire', order') /\ KeysBounded(nextFire', now)
           /\ pending' \in 0 .. Horizon /\ shared' \in SharedTimers
           /\ SharedArmed(firing, pending', shared', heap', nextFire', now)
           /\ Load(shared') <= Load(shared) \/ Load(shared') <= 1
<1> DEFINE S == Active(nf)
           nf2 == [nf EXCEPT ![t] = time]
<1>1. nf \in [Timers -> Nat] /\ \A x \in Timers : nf[x] <= now + MaxDelay
  BY DEF KeysBounded
<1>2. nextFire' = nf2 /\ nf2 \in [Timers -> Nat] /\ nf2[t] = time
  BY <1>1 DEF SetNextFireTime
<1>3. KeysBounded(nf2, now)
  BY <1>1, <1>2 DEF KeysBounded
<1>4. Load(shared) \in Nat
  BY LoadIs
<1>5. CASE nf[t] = time
  <2>1. /\ heap' = h /\ order' = (IF time = 0 THEN Unnumbered(t) ELSE order)
        /\ pending' = pending /\ shared' = shared
    BY <1>5 DEF SetNextFireTime
  <2>2. nf2 = nf
    BY <1>1, <1>5
  <2>3. KeysMatch(h, nf, order')
    <3>1. CASE time = 0
      <4>1. t \notin S /\ order' = Renumbered(t, 0) /\ 0 \in Nat
        BY <1>5, <2>1, <3>1 DEF Active, Renumbered
      <4> DEFINE u == Renumbered(t, 0)
      <4>2. /\ u \in Seq(Timers) /\ NoDuplicates(u) /\ Listed(u) = Active(nf)
            /\ Agree(S \ {t}, nf, order, nf, u)
        <5> DEFINE nf0 == [nf EXCEPT ![t] = 0]
        <5>1. /\ u \in Seq(Timers) /\ NoDuplicates(u) /\ Listed(u) = Active(nf0)
              /\ Agree(S \ {t}, nf, order, nf0, u)
          BY <1>1, <4>1, NewKey
        <5>2. nf0 = nf
          BY <1>1, <1>5, <3>1
        <5> HIDE DEF nf0, u, S
        <5> QED BY <5>1, <5>2
      <4>3. IsHeap(h, S, nf, u)
        <5>1. S \ {t} = S
          BY <4>1
        <5> HIDE DEF u, S
        <5>2. Agree(S, nf, order, nf, u)
          BY <4>2, <5>1
        <5>3. IsHeap(h, S, nf, order)
          BY DEF S
        <5> QED BY <5>2, <5>3, AgreeingHeap
      <4> QED BY <4>1, <4>2, <4>3 DEF KeysMatch
    <3>2. CASE time # 0
      <4>1. t \in S
        BY <1>5, <3>2 DEF Active
      <4>2. order' = order /\ Listed(order) = S
        BY <2>1, <3>2, <4>1
      <4> QED BY <4>2 DEF KeysMatch
    <3> QED BY <3>1, <3>2
  <2> HIDE DEF nf2
  <2>4. nextFire' = nf
    BY <1>2, <2>2
  <2> QED BY <1>4, <2>1, <2>3, <2>4
<1>6. CASE nf[t] # time
  <2> DEFINE ord2 == Renumbered(t, time)
             g == UpdateHeapIfNeeded(h, t, nf[t], nf2, ord2)
             S2 == Active(nf2)
  <2>1. order' = ord2 /\ heap' = g
    BY <1>2, <1>6 DEF SetNextFireTime
  <2>2. IsHeap(g, S2, nf2, ord2)
    BY <1>1, <1>6, UpdateKeeps
  <2>3. /\ ord2 \in Seq(Timers) /\ NoDuplicates(ord2) /\ Listed(ord2) = S2
        /\ Precedence(S, nf, order)
        /\ Precedence(S \cup {t}, nf2, ord2)
        /\ Agree(S \ {t}, nf, order, nf2, ord2)
    BY <1>1, NewKey
  <2>4. S \ {t} = S2 \ {t} /\ S2 \subseteq S \cup {t} /\ S2 \subseteq Timers
    BY <1>1, <1>2 DEF Active
  <2>5. IsHeap(h, S, nf, order)
    OBVIOUS
  <2> DEFINE touched == Position(h, t) = 1 \/ Position(g, t) = 1
  <2>6. IF touched
        THEN /\ pending' = PendingAfterUpdate(firing, g, nf2, pending)
             /\ shared' = SharedAfterUpdate(firing, g, nf2, pending)
        ELSE pending' = pending /\ shared' = shared
    BY <1>2, <1>6, <2>1 DEF SetNextFireTime
  <2> HIDE DEF ord2, g, S, S2, nf2
  <2>7. Precedence(S2, nf2, ord2)
    BY <2>3, <2>4 DEF Precedence
  <2>8. KeysMatch(g, nf2, ord2)
    BY <2>2, <2>3 DEF KeysMatch, S2
  <2>9. CASE touched
    <3>1. g # <<>> => nf2[g[1]] \in Nat /\ nf2[g[1]] <= now + MaxDelay
      <4>1. g # <<>> => g[1] \in S2
        BY <2>2 DEF IsHeap
      <4> QED BY <1>3, <2>4, <4>1 DEF KeysBounded
    <3>2. pending # 0 => Armed(shared, pending, now)
      BY DEF SharedArmed
    <3> DEFINE p2 == PendingAfterUpdate(firing, g, nf2, pending)
               sh2 == SharedAfterUpdate(firing, g, nf2, pending)
    <3>3. /\ p2 \in 0 .. Horizon /\ sh2 \in SharedTimers
          /\ firing => p2 = 0
          /\ p2 # 0 => Armed(sh2, p2, now)
          /\ ~firing /\ g # <<>> => Armed(sh2, nf2[g[1]], now)
          /\ Load(sh2) <= Load(shared) \/ Load(sh2) <= 1
      BY <3>1, <3>2, UpdateSharedTimerIs
    <3>4. pending' = p2 /\ shared' = sh2
      BY <2>6, <2>9
    <3> HIDE DEF p2, sh2
    <3> QED BY <1>2, <1>3, <2>1, <2>8, <3>3, <3>4 DEF SharedArmed
  <2>10. CASE ~touched
    <3>1. pending' = pending /\ shared' = shared
      BY <2>6, <2>10
    <3>2. ASSUME g # <<>> PROVE h # <<>> /\ nf2[g[1]] = nf[h[1]]
      <4>1. g[1] # t /\ (h # <<>> => h[1] # t)
        BY <2>2, <2>5, <2>10, <3>2, FirstPosition DEF IsHeap
      <4>2. h # <<>> /\ h[1] = g[1]
        <5>1. /\ Precedence(S, nf, order)
              /\ OtherKeysKept(t, S, nf, order, S2, nf2, ord2)
          BY <2>3, <2>4 DEF OtherKeysKept
        <5> QED BY <2>2, <2>5, <2>7, <3>2, <4>1, <5>1, FirstStays
      <4>3. g[1] \in Timers
        BY <2>2, <2>4, <3>2 DEF IsHeap
      <4> QED BY <1>1, <4>1, <4>2, <4>3 DEF nf2
    <3>3. SharedArmed(firing, pending, shared, g, nf2, now)
      BY <3>2 DEF SharedArmed
    <3> QED BY <1>2, <1>3, <1>4, <2>1, <2>8, <3>1, <3>3
  <2> QED BY <2>9, <2>10
<1> QED BY <1>5, <1>6

-----------------------------------------------------------------------------
(* The inductive invariant.                                                 *)

KeysInv == KeysMatch(heap, nextFire, order) /\ KeysBounded(nextFire, now)

\* Only the innermost activation runs, the others wait in their event loops;
\* one at its loop's test is firing timers.
StackInv ==
    /\ \A i \in DOMAIN stack : stack[i].fireTime <= now
    /\ \A i \in DOMAIN stack : i < Len(stack) => stack[i].at = "nested"
    /\ At("test") => firing

ArmedInv == SharedArmed(firing, pending, shared, heap, nextFire, now)

\* Each activation adds a timeout when it ends.
CountInv == Load(shared) + Len(stack) <= 1 + MaxNesting

TimersInv == TypeOK /\ KeysInv /\ StackInv /\ ArmedInv /\ CountInv

\* The types of the variables other than the keys, and what follows from them.
Typed(clock, rep, f, p, sh, st) ==
    /\ clock \in 1 .. MaxTime
    /\ rep \in [Timers -> Repeats \cup {0}]
    /\ f \in BOOLEAN /\ p \in 0 .. Horizon /\ sh \in SharedTimers
    /\ st \in Seq(Activations) /\ Len(st) <= MaxNesting

\* The keys' types follow from KeysInv.
LEMMA TypesFollow ==
    ASSUME NEW clock, NEW nf, NEW ord, NEW h, clock \in 1 .. MaxTime,
           KeysMatch(h, nf, ord), KeysBounded(nf, clock)
    PROVE  /\ nf \in [Timers -> 0 .. Horizon]
           /\ ord \in Seq(Timers) /\ IsInjective(ord)
           /\ h \in Seq(Timers) /\ IsInjective(h)
<1>1. nf \in [Timers -> 0 .. Horizon]
  <2>1. \A x \in Timers : nf[x] \in 0 .. Horizon
    BY TimersAssumption DEF KeysBounded, Horizon
  <2> QED BY <2>1 DEF KeysBounded
<1>2. ord \in Seq(Timers) /\ IsInjective(ord)
  BY DEF KeysMatch, NoDuplicates, IsInjective
<1>3. h \in Seq(Timers) /\ IsInjective(h)
  <2>1. h \in Seq(Active(nf)) /\ NoDuplicates(h) /\ Active(nf) \subseteq Timers
    BY DEF KeysMatch, IsHeap, Active
  <2> QED BY <2>1 DEF NoDuplicates, IsInjective
<1> QED BY <1>1, <1>2, <1>3

\* It is enough to look at the other types.
LEMMA InvariantFrom ==
    ASSUME Typed(now, repeat, firing, pending, shared, stack),
           KeysInv, StackInv, ArmedInv, CountInv
    PROVE  TimersInv
<1>1. /\ nextFire \in [Timers -> 0 .. Horizon]
      /\ order \in Seq(Timers) /\ IsInjective(order)
      /\ heap \in Seq(Timers) /\ IsInjective(heap)
  BY TypesFollow DEF KeysInv, Typed
<1> QED BY <1>1 DEF TimersInv, TypeOK, Typed

\* What a step may use.
LEMMA InvariantGives ==
    ASSUME TimersInv
    PROVE  /\ Typed(now, repeat, firing, pending, shared, stack)
           /\ KeysMatch(heap, nextFire, order) /\ KeysBounded(nextFire, now)
           /\ ArmedInv /\ CountInv /\ StackInv
           /\ now \in Nat /\ Len(stack) \in Nat /\ Load(shared) \in Nat
<1>1. Typed(now, repeat, firing, pending, shared, stack)
  BY DEF TimersInv, TypeOK, Typed
<1>2. shared \in SharedTimers
  BY <1>1 DEF Typed
<1>3. Load(shared) \in Nat
  BY <1>2, LoadIs
<1>4. now \in Nat /\ Len(stack) \in Nat
  BY <1>1 DEF Typed
<1> QED BY <1>1, <1>3, <1>4 DEF TimersInv, KeysInv

\* The same after a step.
LEMMA InvariantAfter ==
    ASSUME Typed(now', repeat', firing', pending', shared', stack'),
           KeysMatch(heap', nextFire', order'), KeysBounded(nextFire', now'),
           StackInv', ArmedInv', CountInv'
    PROVE  TimersInv'
<1>1. /\ nextFire' \in [Timers -> 0 .. Horizon]
      /\ order' \in Seq(Timers) /\ IsInjective(order')
      /\ heap' \in Seq(Timers) /\ IsInjective(heap')
  BY TypesFollow DEF Typed
<1> QED BY <1>1 DEF TimersInv, TypeOK, Typed, KeysInv

\* The heap's first timer.
LEMMA FirstOfHeap ==
    ASSUME TimersInv, heap # <<>>
    PROVE  /\ heap[1] \in Active(nextFire) /\ heap[1] \in Timers
           /\ nextFire[heap[1]] \in Nat /\ nextFire[heap[1]] <= now + MaxDelay
<1>1. heap \in Seq(Active(nextFire)) /\ KeysBounded(nextFire, now)
  BY InvariantGives DEF KeysMatch, IsHeap
<1>2. heap[1] \in Active(nextFire)
  BY <1>1
<1> QED BY <1>1, <1>2 DEF Active, KeysBounded

\* An activation goes on to another place.
LEMMA MovedToIs ==
    ASSUME stack \in Seq(Activations), stack # <<>>,
           NEW place \in {"test", "fired", "nested", "end"}
    PROVE  LET moved == MovedTo(place) IN
           /\ moved \in Seq(Activations) /\ Len(moved) = Len(stack)
           /\ DOMAIN moved = DOMAIN stack
           /\ moved # <<>> /\ moved[Len(stack)].at = place
           /\ \A i \in DOMAIN stack : moved[i].fireTime = stack[i].fireTime
           /\ \A i \in DOMAIN stack : i # Len(stack) => moved[i] = stack[i]
<1> DEFINE n == Len(stack)
           moved == MovedTo(place)
<1>1. n \in Nat /\ n >= 1 /\ DOMAIN stack = 1 .. n /\ n \in DOMAIN stack
  OBVIOUS
<1>2. stack[n] \in Activations
  BY <1>1
<1> DEFINE r == [stack[n] EXCEPT !.at = place]
<1>3. r \in Activations /\ r.at = place /\ r.fireTime = stack[n].fireTime
  BY <1>2 DEF Activations
<1> HIDE DEF r
<1>4. moved = [stack EXCEPT ![n] = r]
  BY DEF r, MovedTo
<1> HIDE DEF moved
<1>5. /\ moved \in Seq(Activations) /\ Len(moved) = n /\ DOMAIN moved = DOMAIN stack
      /\ moved[n] = r /\ \A i \in DOMAIN stack : i # n => moved[i] = stack[i]
  BY <1>1, <1>3, <1>4
<1>6. \A i \in DOMAIN stack : moved[i].fireTime = stack[i].fireTime
  BY <1>3, <1>5
<1> QED BY <1>1, <1>3, <1>5, <1>6 DEF moved

\* The others stay where they are.
LEMMA MovedStack ==
    ASSUME TimersInv, stack # <<>>, NEW place \in {"test", "fired", "nested", "end"},
           stack' = MovedTo(place), now' = now, place = "test" => firing'
    PROVE  stack' \in Seq(Activations) /\ Len(stack') = Len(stack) /\ StackInv'
<1>1. stack \in Seq(Activations) /\ StackInv
  BY InvariantGives DEF Typed
<1>2. /\ stack' \in Seq(Activations) /\ Len(stack') = Len(stack)
      /\ DOMAIN stack' = DOMAIN stack
      /\ stack' # <<>> /\ stack'[Len(stack)].at = place
      /\ \A i \in DOMAIN stack : stack'[i].fireTime = stack[i].fireTime
      /\ \A i \in DOMAIN stack : i # Len(stack) => stack'[i] = stack[i]
  BY <1>1, MovedToIs
<1>3. \A i \in DOMAIN stack' : stack'[i].fireTime <= now'
  BY <1>1, <1>2 DEF StackInv
<1>4. \A i \in DOMAIN stack' : i < Len(stack') => stack'[i].at = "nested"
  <2> SUFFICES ASSUME NEW i \in DOMAIN stack, i < Len(stack)
               PROVE  stack'[i].at = "nested"
    BY <1>2
  <2>1. i # Len(stack)
    BY <1>1
  <2> QED BY <1>1, <1>2, <2>1 DEF StackInv
<1>5. At("test")' => firing'
  <2>1. At("test")' => stack'[Len(stack)].at = "test"
    BY <1>2 DEF At, Last
  <2> QED BY <1>2, <2>1
<1> QED BY <1>2, <1>3, <1>4, <1>5 DEF StackInv

\* TimerBase::start and TimerBase::stop.
LEMMA StartKeeps ==
    ASSUME TimersInv, NEW t \in Timers, NEW time \in Nat, time <= now + MaxDelay,
           NEW interval \in Repeats \cup {0},
           repeat' = [repeat EXCEPT ![t] = interval],
           SetNextFireTime(t, time, heap, nextFire),
           UNCHANGED <<now, firing, stack>>
    PROVE  TimersInv'
<1>1. /\ Typed(now, repeat, firing, pending, shared, stack)
      /\ KeysMatch(heap, nextFire, order) /\ KeysBounded(nextFire, now)
      /\ ArmedInv /\ CountInv /\ StackInv
      /\ now \in Nat /\ Len(stack) \in Nat /\ Load(shared) \in Nat
  BY InvariantGives
<1>2. /\ KeysMatch(heap', nextFire', order') /\ KeysBounded(nextFire', now)
      /\ pending' \in 0 .. Horizon /\ shared' \in SharedTimers
      /\ SharedArmed(firing, pending', shared', heap', nextFire', now)
      /\ Load(shared') <= Load(shared) \/ Load(shared') <= 1
  <2>1. /\ now \in 1 .. MaxTime /\ firing \in BOOLEAN /\ pending \in 0 .. Horizon
        /\ shared \in SharedTimers
    BY <1>1 DEF Typed
  <2>2. /\ order \in Seq(Timers) /\ NoDuplicates(order) /\ Listed(order) = Active(nextFire)
        /\ IsHeap(heap, Active(nextFire), nextFire, order)
    BY <1>1 DEF KeysMatch
  <2>3. /\ Active(nextFire) \subseteq Listed(order)
        /\ Listed(order) \subseteq Active(nextFire) \cup {t}
    BY <2>2
  <2>4. SharedArmed(firing, pending, shared, heap, nextFire, now)
    BY <1>1 DEF ArmedInv
  <2> QED BY <1>1, <2>1, <2>2, <2>3, <2>4, SetNextFireTimeIs
<1>3. Typed(now', repeat', firing', pending', shared', stack')
  BY <1>1, <1>2 DEF Typed
<1>4. ArmedInv'
  BY <1>2 DEF ArmedInv
<1>5. StackInv'
  BY <1>1 DEF StackInv, At
<1>6. CountInv'
  <2>1. Load(shared') \in Nat /\ Len(stack) <= MaxNesting /\ MaxNesting \in Nat
    BY <1>1, <1>2, LoadIs, TimersAssumption DEF Typed
  <2> QED BY <1>1, <1>2, <2>1 DEF CountInv
<1> QED BY <1>2, <1>3, <1>4, <1>5, <1>6, InvariantAfter

\* callback() and the beginning of sharedTimerFiredInternal.
LEMMA TimeoutTakenIs ==
    ASSUME shared \in SharedTimers, shared.timeouts # <<>>
    PROVE  TimeoutTaken \in SharedTimers /\ Load(TimeoutTaken) = Load(shared) - 1
<1> DEFINE ts == shared.timeouts
<1>1. /\ ts \in Seq(0 .. Horizon) /\ shared.running \in BOOLEAN
  BY DEF SharedTimers
<1>2. /\ Tail(ts) \in Seq(0 .. Horizon) /\ Len(Tail(ts)) = Len(ts) - 1 /\ Len(ts) \in Nat
  <2> DEFINE T == 0 .. Horizon
  <2>1. ts \in Seq(T)
    BY <1>1
  <2> HIDE DEF T, ts
  <2>2. ts # <<>>
    BY DEF ts
  <2>3. Tail(ts) \in Seq(T) /\ Len(Tail(ts)) = Len(ts) - 1 /\ Len(ts) \in Nat
    BY <2>1, <2>2
  <2> QED BY <2>3 DEF T
<1> DEFINE b == TimeoutTaken
<1>3. b = [shared EXCEPT !.timeouts = Tail(ts)]
  BY DEF TimeoutTaken
<1> HIDE DEF b
<1>4. b \in SharedTimers /\ b.timeouts = Tail(ts) /\ b.running = shared.running
  BY <1>2, <1>3 DEF SharedTimers
<1>5. CASE shared.running
  BY <1>2, <1>4, <1>5 DEF Load, b
<1>6. CASE ~shared.running
  BY <1>2, <1>4, <1>6 DEF Load, b
<1> QED BY <1>5, <1>6

\* callback() outside the firing of timers.
LEMMA CallbackKeeps ==
    ASSUME TimersInv, Callback
    PROVE  TimersInv'
<1> DEFINE new == [fireTime |-> now, at |-> "test"]
<1>1. /\ Typed(now, repeat, firing, pending, shared, stack)
      /\ KeysMatch(heap, nextFire, order) /\ KeysBounded(nextFire, now)
      /\ ArmedInv /\ CountInv /\ StackInv
      /\ now \in Nat /\ Len(stack) \in Nat /\ Load(shared) \in Nat
  BY InvariantGives
<1>2. /\ InEventLoop /\ Len(stack) < MaxNesting /\ Expired
      /\ shared' = TimeoutTaken /\ firing' = TRUE /\ pending' = 0
      /\ stack' = Append(stack, new)
      /\ UNCHANGED <<now, nextFire, repeat, order, heap>>
  BY DEF Callback
<1>3. shared' \in SharedTimers /\ Load(shared') = Load(shared) - 1
  BY <1>1, <1>2, TimeoutTakenIs DEF Typed, Expired
<1>4. stack \in Seq(Activations) /\ new \in Activations
  BY <1>1 DEF Typed, Activations
<1>5. /\ stack' \in Seq(Activations) /\ Len(stack') = Len(stack) + 1
      /\ DOMAIN stack' = 1 .. Len(stack) + 1 /\ DOMAIN stack = 1 .. Len(stack)
      /\ \A i \in 1 .. Len(stack) : stack'[i] = stack[i]
      /\ stack'[Len(stack) + 1] = new
  BY <1>2, <1>4
<1>6. \A i \in 1 .. Len(stack) : stack[i].at = "nested"
  <2> SUFFICES ASSUME NEW i \in 1 .. Len(stack) PROVE stack[i].at = "nested"
    OBVIOUS
  <2>1. CASE i = Len(stack)
    <3>1. stack # <<>>
      BY <1>4
    <3> QED BY <1>2, <2>1, <3>1 DEF InEventLoop, At, Last
  <2>2. CASE i # Len(stack)
    <3> DEFINE n == Len(stack)
    <3>1. n \in Nat /\ i \in 1 .. n /\ i # n /\ DOMAIN stack = 1 .. n
      BY <1>1, <1>5, <2>2
    <3> HIDE DEF n
    <3>2. i < n /\ i \in DOMAIN stack
      BY <3>1
    <3> QED BY <1>1, <3>2 DEF StackInv, n
  <2> QED BY <2>1, <2>2
<1>7. StackInv'
  <2>1. \A i \in DOMAIN stack' : stack'[i].fireTime <= now'
    <3> SUFFICES ASSUME NEW i \in 1 .. Len(stack) + 1 PROVE stack'[i].fireTime <= now
      BY <1>2, <1>5
    <3>1. CASE i = Len(stack) + 1
      BY <1>1, <1>5, <3>1
    <3>2. CASE i # Len(stack) + 1
      <4>1. i \in 1 .. Len(stack)
        BY <1>1, <3>2
      <4> QED BY <1>1, <1>5, <4>1 DEF StackInv
    <3> QED BY <3>1, <3>2
  <2>2. \A i \in DOMAIN stack' : i < Len(stack') => stack'[i].at = "nested"
    <3> SUFFICES ASSUME NEW i \in 1 .. Len(stack) + 1, i < Len(stack) + 1
                 PROVE  stack'[i].at = "nested"
      BY <1>5
    <3>1. i \in 1 .. Len(stack)
      BY <1>1
    <3> QED BY <1>5, <1>6, <3>1
  <2> QED BY <1>2, <2>1, <2>2 DEF StackInv
<1>8. ArmedInv'
  BY <1>2 DEF ArmedInv, SharedArmed
<1>9. CountInv'
  <2>1. MaxNesting \in Nat
    BY TimersAssumption
  <2> QED BY <1>1, <1>3, <1>5, <2>1 DEF CountInv
<1>10. Typed(now', repeat', firing', pending', shared', stack')
  <2>1. 0 \in 0 .. Horizon /\ Len(stack') <= MaxNesting
    BY <1>1, <1>2, <1>5, TimersAssumption DEF Horizon
  <2> QED BY <1>1, <1>2, <1>3, <1>5, <2>1 DEF Typed
<1> QED BY <1>1, <1>2, <1>7, <1>8, <1>9, <1>10, InvariantAfter

\* callback() while timers are being fired.
LEMMA ReentrantCallbackKeeps ==
    ASSUME TimersInv, ReentrantCallback
    PROVE  TimersInv'
<1>1. /\ Typed(now, repeat, firing, pending, shared, stack)
      /\ KeysMatch(heap, nextFire, order) /\ KeysBounded(nextFire, now)
      /\ ArmedInv /\ CountInv /\ StackInv
      /\ now \in Nat /\ Len(stack) \in Nat /\ Load(shared) \in Nat
  BY InvariantGives
<1>2. /\ firing /\ Expired /\ shared' = Repeated(TimeoutTaken)
      /\ UNCHANGED <<now, nextFire, repeat, order, heap, firing, pending, stack>>
  BY DEF ReentrantCallback
<1>3. TimeoutTaken \in SharedTimers /\ Load(TimeoutTaken) = Load(shared) - 1
  BY <1>1, <1>2, TimeoutTakenIs DEF Typed, Expired
<1>4. shared' \in SharedTimers /\ Load(shared') = Load(shared) - 1 + 1
  BY <1>1, <1>2, <1>3, RepeatedIs DEF Typed
<1>5. StackInv'
  BY <1>1, <1>2 DEF StackInv, At
<1>6. ArmedInv'
  BY <1>1, <1>2 DEF ArmedInv, SharedArmed
<1>7. CountInv'
  BY <1>1, <1>2, <1>4 DEF CountInv
<1>8. Typed(now', repeat', firing', pending', shared', stack')
  BY <1>1, <1>2, <1>4 DEF Typed
<1> QED BY <1>1, <1>2, <1>5, <1>6, <1>7, <1>8, InvariantAfter

\* The heap of sharedTimerFiredInternal's loop after the first timer lost its
\* fire time and left it.
LEMMA FirstPopped ==
    ASSUME NEW nf \in [Timers -> Nat], NEW h, KeysMatch(h, nf, order), h # <<>>
    PROVE  LET nf0 == [nf EXCEPT ![h[1]] = 0] IN
           /\ Active(nf0) = Active(nf) \ {h[1]}
           /\ IsHeap(PopHeap(h, nf0, order), Active(nf0), nf0, order)
<1> DEFINE t == h[1]
           nf0 == [nf EXCEPT ![h[1]] = 0]
           S == Active(nf)
           g == PopHeap(h, nf0, order)
<1>1. /\ h \in Seq(S) /\ NoDuplicates(h) /\ Listed(h) = S /\ Ordered(h, nf, order)
      /\ order \in Seq(Timers) /\ NoDuplicates(order) /\ Listed(order) = S
  BY DEF KeysMatch, IsHeap
<1>2. t \in S /\ S \subseteq Timers /\ 1 \in DOMAIN h
  <2>1. t \in S /\ 1 \in DOMAIN h
    BY <1>1
  <2> QED BY <2>1 DEF Active
<1>3. /\ nf0[t] = 0 /\ \A a \in S : nf0[a] \in Nat
      /\ \A a \in S \ {t} : nf[a] = nf0[a] /\ nf0[a] \in Nat \ {0}
  BY <1>2 DEF Active
<1>4. Active(nf0) = S \ {t}
  BY <1>2 DEF Active
<1> HIDE DEF nf0, S, g, t
<1>5. Precedence(S, nf0, order)
  <2>1. \A a, b \in S : a # b => a \in Listed(order) \/ b \in Listed(order)
    BY <1>1
  <2> QED BY <1>1, <1>3, <2>1, BeforeOrders
<1>6. Agree(S \ {t}, nf, order, nf0, order)
  <2>1. SameOrder(S \ {t}, order, order)
    BY DEF SameOrder
  <2> QED BY <1>3, <2>1, SameOrderAgrees
<1>7. Ordered(h, nf0, order)
  <2> SUFFICES ASSUME NEW c \in 2 .. Len(h) PROVE Before(h[c \div 2], h[c], nf0, order)
    BY DEF Ordered
  <2>1. c \in DOMAIN h /\ c # 1 /\ c \div 2 \in DOMAIN h
    BY <1>1, Halves
  <2>2. h[c] \in S \ {t}
    BY <1>1, <1>2, <2>1 DEF NoDuplicates, t
  <2>3. CASE c \div 2 = 1
    <3>1. h[c \div 2] = t /\ nf0[t] < nf0[h[c]]
      BY <1>3, <2>2, <2>3 DEF t
    <3> QED BY <3>1 DEF Before
  <2>4. CASE c \div 2 # 1
    <3>1. h[c \div 2] \in S \ {t}
      BY <1>1, <1>2, <2>1, <2>4 DEF NoDuplicates, t
    <3> QED BY <1>1, <1>6, <2>2, <3>1 DEF Agree, Ordered
  <2> QED BY <2>3, <2>4
<1>8. /\ g \in Seq(S) /\ NoDuplicates(g) /\ Listed(g) = S \ {t}
      /\ Ordered(g, nf0, order)
  BY <1>1, <1>5, <1>7, PopKeeps DEF g, t
<1>9. g \in Seq(S \ {t})
  <2>1. \A k \in 1 .. Len(g) : g[k] \in S \ {t}
    <3> SUFFICES ASSUME NEW k \in 1 .. Len(g) PROVE g[k] \in Listed(g)
      BY <1>8
    <3> QED BY <1>8 DEF Listed
  <2> QED BY <1>8, <2>1
<1>10. IsHeap(g, S \ {t}, nf0, order)
  BY <1>8, <1>9 DEF IsHeap
<1> QED BY <1>4, <1>10 DEF g, nf0, S, t

\* The while loop of sharedTimerFiredInternal goes round.
LEMMA FireFirstKeeps ==
    ASSUME TimersInv, FireFirst
    PROVE  TimersInv'
<1> DEFINE t == heap[1]
           fireTime == Last(stack).fireTime
           time == IF repeat[t] = 0 THEN 0 ELSE fireTime + repeat[t]
           nf == [nextFire EXCEPT ![t] = 0]
           h == PopHeap(heap, nf, order)
<1>1. /\ Typed(now, repeat, firing, pending, shared, stack)
      /\ KeysMatch(heap, nextFire, order) /\ KeysBounded(nextFire, now)
      /\ ArmedInv /\ CountInv /\ StackInv
      /\ now \in Nat /\ Len(stack) \in Nat /\ Load(shared) \in Nat
  BY InvariantGives
<1>2. /\ At("test") /\ heap # <<>>
      /\ SetNextFireTime(t, time, h, nf)
      /\ stack' = MovedTo("fired")
      /\ UNCHANGED <<now, repeat, firing>>
  BY DEF FireFirst, FirstIsDue
<1>3. firing /\ pending = 0
  BY <1>1, <1>2 DEF StackInv, ArmedInv, SharedArmed
<1>4. t \in Timers /\ t \in Active(nextFire)
  BY <1>2, FirstOfHeap
<1>5. stack # <<>> /\ fireTime \in Nat /\ fireTime <= now
  <2>1. stack # <<>> /\ stack \in Seq(Activations)
    BY <1>1, <1>2 DEF At, Typed
  <2>2. Len(stack) \in DOMAIN stack /\ stack[Len(stack)] \in Activations
    BY <2>1
  <2>3. stack[Len(stack)].fireTime \in 1 .. MaxTime
    BY <2>2 DEF Activations
  <2> QED BY <1>1, <2>1, <2>2, <2>3 DEF StackInv, Last
<1>6. time \in Nat /\ time <= now + MaxDelay
  <2> HIDE DEF fireTime, t
  <2>1. repeat[t] \in 0 .. MaxDelay /\ MaxDelay \in Nat
    <3>1. repeat[t] \in Repeats \cup {0}
      BY <1>1, <1>4 DEF Typed
    <3>2. MaxDelay \in Nat /\ Repeats \subseteq 1 .. MaxDelay
      BY TimersAssumption
    <3>3. \A r \in Repeats \cup {0} : r \in 0 .. MaxDelay
      BY <3>2
    <3> QED BY <3>1, <3>2, <3>3
  <2> QED BY <1>1, <1>5, <2>1
<1>7. Active(nf) = Active(nextFire) \ {t} /\ IsHeap(h, Active(nf), nf, order)
  BY <1>1, <1>2, FirstPopped DEF KeysBounded
<1>8. KeysBounded(nf, now)
  <2>1. nextFire \in [Timers -> Nat] /\ \A x \in Timers : nextFire[x] <= now + MaxDelay
    BY <1>1 DEF KeysBounded
  <2>2. \A x \in Timers : nf[x] = IF x = t THEN 0 ELSE nextFire[x]
    BY <2>1
  <2>3. nf \in [Timers -> Nat]
    BY <2>1
  <2>4. 0 <= now + MaxDelay
    BY <1>1, TimersAssumption
  <2> HIDE DEF nf, t
  <2> QED BY <2>1, <2>2, <2>3, <2>4 DEF KeysBounded
<1>9. /\ now \in 1 .. MaxTime /\ firing \in BOOLEAN /\ pending \in 0 .. Horizon
      /\ shared \in SharedTimers
      /\ order \in Seq(Timers) /\ NoDuplicates(order)
      /\ Active(nf) \subseteq Listed(order) /\ Listed(order) \subseteq Active(nf) \cup {t}
      /\ SharedArmed(firing, pending, shared, h, nf, now)
  <2>1. /\ order \in Seq(Timers) /\ NoDuplicates(order) /\ Listed(order) = Active(nextFire)
    BY <1>1 DEF KeysMatch
  <2>2. SharedArmed(firing, pending, shared, h, nf, now)
    BY <1>3 DEF SharedArmed
  <2> HIDE DEF nf, t, h
  <2>3. Active(nf) \subseteq Listed(order) /\ Listed(order) \subseteq Active(nf) \cup {t}
    BY <1>7, <2>1
  <2> QED BY <1>1, <2>1, <2>2, <2>3 DEF Typed
<1>10. SetNextFireTime(t, time, h, nf)
  BY <1>2
<1> HIDE DEF t, time, nf, h
<1>11. /\ KeysMatch(heap', nextFire', order') /\ KeysBounded(nextFire', now)
       /\ pending' \in 0 .. Horizon /\ shared' \in SharedTimers
       /\ SharedArmed(firing, pending', shared', heap', nextFire', now)
       /\ Load(shared') <= Load(shared) \/ Load(shared') <= 1
  BY <1>4, <1>6, <1>7, <1>8, <1>9, <1>10, SetNextFireTimeIs
<1>12. stack' \in Seq(Activations) /\ Len(stack') = Len(stack) /\ StackInv'
  BY <1>2, <1>5, MovedStack
<1>13. Typed(now', repeat', firing', pending', shared', stack')
  BY <1>1, <1>2, <1>11, <1>12 DEF Typed
<1>14. ArmedInv'
  BY <1>2, <1>11 DEF ArmedInv
<1>15. CountInv'
  <2>1. Load(shared') \in Nat /\ Len(stack) <= MaxNesting /\ MaxNesting \in Nat
    BY <1>1, <1>11, LoadIs, TimersAssumption DEF Typed
  <2> QED BY <1>1, <1>11, <1>12, <2>1 DEF CountInv
<1> QED BY <1>2, <1>11, <1>12, <1>13, <1>14, <1>15, InvariantAfter

\* A step that only moves the innermost activation.
LEMMA MoveKeeps ==
    ASSUME TimersInv, stack # <<>>, NEW place \in {"test", "fired", "nested", "end"},
           stack' = MovedTo(place), place = "test" => firing,
           UNCHANGED <<now, nextFire, repeat, order, heap, firing, pending, shared>>
    PROVE  TimersInv'
<1>1. /\ Typed(now, repeat, firing, pending, shared, stack)
      /\ KeysMatch(heap, nextFire, order) /\ KeysBounded(nextFire, now)
      /\ ArmedInv /\ CountInv /\ StackInv
  BY InvariantGives
<1>2. stack' \in Seq(Activations) /\ Len(stack') = Len(stack) /\ StackInv'
  BY MovedStack
<1>3. Typed(now', repeat', firing', pending', shared', stack')
  BY <1>1, <1>2 DEF Typed
<1>4. ArmedInv' /\ CountInv'
  BY <1>1, <1>2 DEF ArmedInv, CountInv
<1> QED BY <1>1, <1>2, <1>3, <1>4, InvariantAfter

\* updateSharedTimer outside the firing of timers, from pending time p.
LEMMA UpdateArms ==
    ASSUME TimersInv, NEW p \in 0 .. Horizon, p # 0 => p = pending
    PROVE  LET p2 == PendingAfterUpdate(FALSE, heap, nextFire, p)
               sh2 == SharedAfterUpdate(FALSE, heap, nextFire, p) IN
           /\ p2 \in 0 .. Horizon /\ sh2 \in SharedTimers
           /\ SharedArmed(FALSE, p2, sh2, heap, nextFire, now)
           /\ Load(sh2) <= Load(shared) \/ Load(sh2) <= 1
<1> DEFINE p2 == PendingAfterUpdate(FALSE, heap, nextFire, p)
           sh2 == SharedAfterUpdate(FALSE, heap, nextFire, p)
<1>1. now \in 1 .. MaxTime /\ shared \in SharedTimers
  BY InvariantGives DEF Typed
<1>2. p # 0 => Armed(shared, p, now)
  BY InvariantGives DEF ArmedInv, SharedArmed
<1>3. heap # <<>> => nextFire[heap[1]] \in Nat /\ nextFire[heap[1]] <= now + MaxDelay
  BY FirstOfHeap
<1>4. /\ p2 \in 0 .. Horizon /\ sh2 \in SharedTimers
      /\ FALSE => p2 = 0
      /\ p2 # 0 => Armed(sh2, p2, now)
      /\ ~FALSE /\ heap # <<>> => Armed(sh2, nextFire[heap[1]], now)
      /\ Load(sh2) <= Load(shared) \/ Load(sh2) <= 1
  BY <1>1, <1>2, <1>3, UpdateSharedTimerIs
<1> HIDE DEF p2, sh2
<1>5. SharedArmed(FALSE, p2, sh2, heap, nextFire, now)
  BY <1>4 DEF SharedArmed
<1> QED BY <1>4, <1>5 DEF p2, sh2

\* The end of sharedTimerFiredInternal and of callback().
LEMMA FinishKeeps ==
    ASSUME TimersInv, Finish
    PROVE  TimersInv'
<1> DEFINE p2 == PendingAfterUpdate(FALSE, heap, nextFire, pending)
           sh2 == SharedAfterUpdate(FALSE, heap, nextFire, pending)
           n == Len(stack)
<1>1. /\ Typed(now, repeat, firing, pending, shared, stack)
      /\ KeysMatch(heap, nextFire, order) /\ KeysBounded(nextFire, now)
      /\ ArmedInv /\ CountInv /\ StackInv
      /\ now \in Nat /\ n \in Nat /\ Load(shared) \in Nat
  BY InvariantGives
<1>2. /\ stack # <<>> /\ firing' = FALSE
      /\ pending' = p2 /\ shared' = Repeated(sh2) /\ stack' = Front(stack)
      /\ UNCHANGED <<now, nextFire, repeat, order, heap>>
  BY DEF Finish, At
<1>3. /\ p2 \in 0 .. Horizon /\ sh2 \in SharedTimers
      /\ SharedArmed(FALSE, p2, sh2, heap, nextFire, now)
      /\ Load(sh2) <= Load(shared) \/ Load(sh2) <= 1
  BY <1>1, UpdateArms DEF Typed
<1> HIDE DEF p2, sh2
<1>4. /\ shared' \in SharedTimers
      /\ Listed(sh2.timeouts) \subseteq Listed(shared'.timeouts)
      /\ Load(shared') = Load(sh2) + 1
  BY <1>1, <1>2, <1>3, RepeatedIs DEF Typed
<1>5. ArmedInv'
  <2>1. \A time : Armed(sh2, time, now) => Armed(shared', time, now)
    BY <1>4 DEF Armed
  <2> QED BY <1>2, <1>3, <2>1 DEF ArmedInv, SharedArmed
<1>6. n >= 1 /\ DOMAIN stack = 1 .. n /\ stack \in Seq(Activations)
  BY <1>1, <1>2 DEF Typed
<1>7. /\ stack' \in Seq(Activations) /\ Len(stack') = n - 1 /\ DOMAIN stack' = 1 .. n - 1
      /\ \A i \in 1 .. n - 1 : stack'[i] = stack[i]
  <2>1. stack' = SubSeq(stack, 1, n - 1)
    BY <1>2 DEF Front
  <2> QED BY <1>6, <2>1
<1>8. \A i \in 1 .. n - 1 : i \in DOMAIN stack /\ stack[i].at = "nested"
  <2> SUFFICES ASSUME NEW i \in 1 .. n - 1
               PROVE  i \in DOMAIN stack /\ stack[i].at = "nested"
    OBVIOUS
  <2> HIDE DEF n
  <2>1. i \in DOMAIN stack /\ i < n
    BY <1>1, <1>6
  <2> QED BY <1>1, <2>1 DEF StackInv, n
<1>9. StackInv'
  <2>1. \A i \in DOMAIN stack' : stack'[i].fireTime <= now' /\ stack'[i].at = "nested"
    BY <1>1, <1>2, <1>7, <1>8 DEF StackInv
  <2>2. ~At("test")'
    <3> SUFFICES ASSUME stack' # <<>> PROVE stack'[Len(stack')].at # "test"
      BY DEF At, Last
    <3>1. Len(stack') \in DOMAIN stack'
      BY <1>7
    <3> QED BY <2>1, <3>1
  <2> QED BY <2>1, <2>2 DEF StackInv
<1>10. Typed(now', repeat', firing', pending', shared', stack')
  <2>1. Len(stack') <= MaxNesting
    BY <1>1, <1>7, TimersAssumption DEF Typed
  <2> QED BY <1>1, <1>2, <1>3, <1>4, <1>7, <2>1 DEF Typed
<1>11. CountInv'
  <2>1. Load(sh2) \in Nat /\ n <= MaxNesting /\ MaxNesting \in Nat
    BY <1>1, <1>3, LoadIs, TimersAssumption DEF Typed
  <2> QED BY <1>1, <1>3, <1>4, <1>7, <2>1 DEF CountInv
<1> QED BY <1>1, <1>2, <1>5, <1>9, <1>10, <1>11, InvariantAfter

\* fireTimersInNestedEventLoop.
LEMMA PauseKeeps ==
    ASSUME TimersInv, PauseInDebugger
    PROVE  TimersInv'
<1> DEFINE p2 == PendingAfterUpdate(FALSE, heap, nextFire, 0)
           sh2 == SharedAfterUpdate(FALSE, heap, nextFire, 0)
<1>1. /\ Typed(now, repeat, firing, pending, shared, stack)
      /\ KeysMatch(heap, nextFire, order) /\ KeysBounded(nextFire, now)
      /\ ArmedInv /\ CountInv /\ StackInv
      /\ now \in Nat /\ Len(stack) \in Nat /\ Load(shared) \in Nat
  BY InvariantGives
<1>2. /\ CodeRuns /\ firing' = FALSE /\ pending' = p2 /\ shared' = sh2
      /\ stack' = (IF At("fired") THEN MovedTo("nested") ELSE stack)
      /\ UNCHANGED <<now, nextFire, repeat, order, heap>>
  BY DEF PauseInDebugger
<1>3. /\ p2 \in 0 .. Horizon /\ sh2 \in SharedTimers
      /\ SharedArmed(FALSE, p2, sh2, heap, nextFire, now)
      /\ Load(sh2) <= Load(shared) \/ Load(sh2) <= 1
  <2>1. 0 \in 0 .. Horizon
    BY TimersAssumption DEF Horizon
  <2> QED BY <2>1, UpdateArms
<1> HIDE DEF p2, sh2
<1>4. stack' \in Seq(Activations) /\ Len(stack') = Len(stack) /\ StackInv'
  <2>1. CASE At("fired")
    <3>1. stack # <<>> /\ stack' = MovedTo("nested")
      BY <1>2, <2>1 DEF At
    <3> QED BY <1>2, <3>1, MovedStack
  <2>2. CASE ~At("fired")
    <3>1. stack' = stack /\ ~At("test")
      BY <1>2, <2>2 DEF CodeRuns, InEventLoop, At
    <3> QED BY <1>1, <1>2, <3>1 DEF StackInv, Typed, At
  <2> QED BY <2>1, <2>2
<1>5. Typed(now', repeat', firing', pending', shared', stack')
  BY <1>1, <1>2, <1>3, <1>4 DEF Typed
<1>6. ArmedInv'
  BY <1>2, <1>3 DEF ArmedInv
<1>7. CountInv'
  <2>1. Load(sh2) \in Nat /\ Len(stack) <= MaxNesting /\ MaxNesting \in Nat
    BY <1>1, <1>3, LoadIs, TimersAssumption DEF Typed
  <2> QED BY <1>1, <1>2, <1>3, <1>4, <2>1 DEF CountInv
<1> QED BY <1>1, <1>2, <1>4, <1>5, <1>6, <1>7, InvariantAfter

\* Time passes: what is armed stays armed.
LEMMA TickKeeps ==
    ASSUME TimersInv, Tick
    PROVE  TimersInv'
<1>1. /\ Typed(now, repeat, firing, pending, shared, stack)
      /\ KeysMatch(heap, nextFire, order) /\ KeysBounded(nextFire, now)
      /\ ArmedInv /\ CountInv /\ StackInv /\ now \in Nat
  BY InvariantGives
<1>2. /\ now < MaxTime /\ now' = now + 1
      /\ UNCHANGED <<nextFire, repeat, order, heap, firing, pending, shared, stack>>
  BY DEF Tick
<1>3. Typed(now', repeat', firing', pending', shared', stack')
  <2>1. now' \in 1 .. MaxTime
    BY <1>1, <1>2, TimersAssumption DEF Typed
  <2> QED BY <1>1, <1>2, <2>1 DEF Typed
<1>4. KeysBounded(nextFire', now')
  BY <1>1, <1>2, TimersAssumption DEF KeysBounded
<1>5. StackInv'
  <2>1. \A i \in DOMAIN stack : stack[i].fireTime \in Nat
    <3>1. \A i \in DOMAIN stack : stack[i] \in Activations
      BY <1>1 DEF Typed
    <3>2. \A r \in Activations : r.fireTime \in Nat
      BY DEF Activations
    <3> QED BY <3>1, <3>2
  <2>2. \A i \in DOMAIN stack : stack[i].fireTime <= now + 1
    BY <1>1, <2>1 DEF StackInv
  <2> QED BY <1>1, <1>2, <2>2 DEF StackInv, At
<1>6. ArmedInv'
  <2>1. Listed(shared.timeouts) \subseteq 0 .. Horizon
    <3>1. shared.timeouts \in Seq(0 .. Horizon)
      BY <1>1 DEF Typed, SharedTimers
    <3> QED BY <3>1, ListedIn
  <2>2. \A time : Armed(shared, time, now) => Armed(shared, time, now + 1)
    BY <1>1, <2>1 DEF Armed
  <2> QED BY <1>1, <1>2, <2>2 DEF ArmedInv, SharedArmed
<1>7. CountInv'
  BY <1>1, <1>2 DEF CountInv
<1> QED BY <1>1, <1>2, <1>3, <1>4, <1>5, <1>6, <1>7, InvariantAfter

-----------------------------------------------------------------------------
(* The theorems.                                                            *)

\* At the start no timer is set.
LEMMA InitialInvariant ==
    ASSUME Init
    PROVE  TimersInv
<1>1. /\ now = 1 /\ nextFire = [t \in Timers |-> 0] /\ repeat = [t \in Timers |-> 0]
      /\ order = <<>> /\ heap = <<>> /\ firing = FALSE /\ pending = 0
      /\ shared = [interval |-> 0, running |-> FALSE, timeouts |-> <<>>] /\ stack = <<>>
  BY DEF Init
<1>2. MaxTime \in Nat \ {0} /\ MaxDelay \in Nat \ {0} /\ MaxNesting \in Nat \ {0}
  BY TimersAssumption
<1>3. shared \in SharedTimers /\ Load(shared) = 1
  <2>1. <<>> \in Seq(0 .. Horizon) /\ Len(<<>>) = 0
    OBVIOUS
  <2>2. shared.timeouts = <<>> /\ shared.running = FALSE
    BY <1>1
  <2>3. shared \in SharedTimers
    BY <1>1, <1>2, <2>1 DEF SharedTimers
  <2> QED BY <2>1, <2>2, <2>3 DEF Load
<1>4. Typed(now, repeat, firing, pending, shared, stack)
  <2>1. now \in 1 .. MaxTime /\ pending \in 0 .. Horizon
    BY <1>1, <1>2 DEF Horizon
  <2>2. stack \in Seq(Activations) /\ Len(stack) <= MaxNesting
    BY <1>1, <1>2
  <2> QED BY <1>1, <1>3, <2>1, <2>2 DEF Typed
<1>5. KeysMatch(heap, nextFire, order)
  <2>1. Active(nextFire) = {}
    BY <1>1 DEF Active
  <2>2. Listed(<<>>) = {} /\ NoDuplicates(<<>>)
    BY DEF Listed, NoDuplicates
  <2>3. Ordered(<<>>, nextFire, order)
    BY DEF Ordered
  <2>4. <<>> \in Seq(Timers) /\ <<>> \in Seq(Active(nextFire))
    OBVIOUS
  <2> QED BY <1>1, <2>1, <2>2, <2>3, <2>4 DEF KeysMatch, IsHeap
<1>6. KeysBounded(nextFire, now)
  <2>1. nextFire \in [Timers -> Nat] /\ \A x \in Timers : nextFire[x] = 0
    BY <1>1
  <2> QED BY <1>1, <1>2, <2>1 DEF KeysBounded
<1>7. StackInv
  BY <1>1 DEF StackInv, At
<1>8. ArmedInv
  BY <1>1 DEF ArmedInv, SharedArmed
<1>9. CountInv
  BY <1>1, <1>2, <1>3 DEF CountInv
<1> QED BY <1>4, <1>5, <1>6, <1>7, <1>8, <1>9, InvariantFrom DEF KeysInv

\* Every step of the main thread keeps the invariant.
LEMMA StepKeeps ==
    ASSUME TimersInv, [Next]_vars
    PROVE  TimersInv'
<1>1. now \in 1 .. MaxTime /\ now \in Nat
  BY InvariantGives DEF Typed
<1>2. MaxDelay \in Nat /\ Delays \subseteq 0 .. MaxDelay /\ Repeating \subseteq Timers
  BY TimersAssumption
<1>3. ASSUME NEW t \in Timers, NEW d \in Delays, NEW r \in Repeats \cup {0}, Start(t, d, r)
      PROVE  TimersInv'
  <2>1. now + d \in Nat /\ now + d <= now + MaxDelay
    BY <1>1, <1>2
  <2> QED BY <1>3, <2>1, StartKeeps DEF Start
<1>4. ASSUME NEW t \in Timers, Stop(t) PROVE TimersInv'
  <2>1. 0 \in Nat /\ 0 <= now + MaxDelay /\ 0 \in Repeats \cup {0}
    BY <1>1, <1>2
  <2> QED BY <1>4, <2>1, StartKeeps DEF Stop
<1>5. CASE OpenDialog
  <2>1. /\ stack # <<>> /\ stack' = MovedTo("nested")
        /\ UNCHANGED <<now, nextFire, repeat, order, heap, firing, pending, shared>>
    BY <1>5 DEF OpenDialog, At
  <2> QED BY <2>1, MoveKeeps
<1>6. CASE LeaveLoop
  <2>1. /\ stack # <<>> /\ stack' = MovedTo("fired")
        /\ UNCHANGED <<now, nextFire, repeat, order, heap, firing, pending, shared>>
    BY <1>6 DEF LeaveLoop, At
  <2> QED BY <2>1, MoveKeeps
<1>7. ASSUME NEW timeUp \in BOOLEAN, FiredReturns(timeUp) PROVE TimersInv'
  <2> DEFINE place == IF ~firing \/ timeUp THEN "end" ELSE "test"
  <2>1. /\ stack # <<>> /\ stack' = MovedTo(place)
        /\ UNCHANGED <<now, nextFire, repeat, order, heap, firing, pending, shared>>
    BY <1>7 DEF FiredReturns, At
  <2>2. place \in {"test", "fired", "nested", "end"} /\ (place = "test" => firing)
    OBVIOUS
  <2> HIDE DEF place
  <2> QED BY <2>1, <2>2, MoveKeeps
<1>8. CASE UNCHANGED vars
  BY <1>8 DEF vars, TimersInv, TypeOK, KeysInv, StackInv, ArmedInv, CountInv, At
<1>9. CASE Code
  <2>1. \A r \in Repeats : r \in Repeats \cup {0}
    OBVIOUS
  <2>2. 0 \in Repeats \cup {0}
    OBVIOUS
  <2> QED BY <1>2, <1>3, <1>4, <1>5, <1>9, <2>1, <2>2, PauseKeeps DEF Code
<1>10. CASE Dispatch
  BY <1>10, CallbackKeeps, ReentrantCallbackKeeps, FireFirstKeeps, FinishKeeps DEF Dispatch
<1> QED BY <1>6, <1>7, <1>8, <1>9, <1>10, TickKeeps DEF Next

\* The inductive invariant holds.
THEOREM TimersInvariance == Spec => []TimersInv
<1>1. Init => TimersInv
  BY InitialInvariant
<1>2. TimersInv /\ [Next]_vars => TimersInv'
  BY StepKeeps
<1> QED BY <1>1, <1>2, PTL DEF Spec

\* Whatever is started, stopped, fired and nested, the heap has exactly the
\* timers with a fire time, and its first one fires before all others, equal
\* fire times by insertion: what checkConsistency asserts, for heaps of any size.
THEOREM HeapIsConsistent == Spec => []HeapConsistent
<1>1. TimersInv => HeapConsistent
  <2> SUFFICES ASSUME TimersInv PROVE HeapConsistent
    OBVIOUS
  <2>1. TypeOK /\ KeysMatch(heap, nextFire, order) /\ nextFire \in [Timers -> Nat]
    BY InvariantGives DEF TimersInv, KeysBounded
  <2>2. IsHeap(heap, Active(nextFire), nextFire, order)
    BY <2>1 DEF KeysMatch
  <2>3. ToSet(heap) = {t \in Timers : nextFire[t] # 0}
    BY <2>2 DEF IsHeap, Listed, ToSet, Active
  <2>4. Precedence(Active(nextFire), nextFire, order)
    <3> DEFINE S == Active(nextFire)
    <3>1. order \in Seq(Timers) /\ NoDuplicates(order) /\ Listed(order) = S
      BY <2>1 DEF KeysMatch
    <3>2. \A a \in S : nextFire[a] \in Nat
      BY <2>1 DEF Active
    <3> HIDE DEF S
    <3>3. \A a, b \in S : a # b => a \in Listed(order) \/ b \in Listed(order)
      BY <3>1
    <3>4. Precedence(S, nextFire, order)
      BY <3>1, <3>2, <3>3, BeforeOrders
    <3> QED BY <3>4 DEF S
  <2>5. \A i \in 2 .. Len(heap) : Before(heap[1], heap[i], nextFire, order)
    BY <2>2, <2>4, FirstPrecedes DEF IsHeap
  <2> QED BY <2>1, <2>3, <2>5 DEF HeapConsistent
<1> QED BY <1>1, TimersInvariance, PTL

\* Every timer of the heap is at a place that hasValidHeapPosition accepts:
\* what updateHeapIfNeeded asserts at its end of the timer that it moved, and
\* what its early return relies on for all the others.
EveryPositionValid ==
    \A i \in DOMAIN heap : HasValidHeapPosition(heap, i, nextFire, order)

\* After any sequence of inserts, removals, decreases and increases of keys no
\* timer of the heap fails hasValidHeapPosition.
THEOREM PositionsStayValid == Spec => []EveryPositionValid
<1>1. TimersInv => EveryPositionValid
  <2> SUFFICES ASSUME TimersInv, NEW i \in DOMAIN heap
               PROVE  HasValidHeapPosition(heap, i, nextFire, order)
    BY DEF EveryPositionValid
  <2>1. /\ DOMAIN heap = 1 .. Len(heap) /\ Len(heap) \in Nat
        /\ Ordered(heap, nextFire, order)
    BY InvariantGives DEF KeysMatch, IsHeap
  <2>2. i > 1 => Before(heap[i \div 2], heap[i], nextFire, order)
    BY <2>1 DEF Ordered
  <2>3. ASSUME NEW c \in {2 * i, 2 * i + 1}, c <= Len(heap)
        PROVE  Before(heap[i], heap[c], nextFire, order)
    <3>1. c \in 2 .. Len(heap) /\ c \div 2 = i
      BY <2>1, <2>3
    <3> QED BY <2>1, <3>1 DEF Ordered
  <2> QED BY <2>2, <2>3 DEF HasValidHeapPosition
<1> QED BY <1>1, TimersInvariance, PTL

\* A start or stop that changes the fire time of a timer, and does not take the
\* early return of updateHeapIfNeeded, changes its m_heapIndex.
HeapIndexChanges ==
    \A t \in Timers :
        LET i == Position(heap, t) IN
        /\ Stop(t) \/ \E d \in Delays, r \in Repeats \cup {0} : Start(t, d, r)
        /\ nextFire'[t] # nextFire[t]
        /\ ~(nextFire'[t] # 0 /\ i # 0 /\ HasValidHeapPosition(heap, i, nextFire', order'))
        => Position(heap', t) # i

\* The assertion m_heapIndex != oldHeapIndex at the end of updateHeapIfNeeded
\* never fails: a timer that hasValidHeapPosition rejects really moves, also
\* when it is popped and pushed again.
THEOREM RejectedTimersMove == Spec => [][HeapIndexChanges]_vars
<1>1. TimersInv /\ [Next]_vars => [HeapIndexChanges]_vars
  <2> SUFFICES ASSUME TimersInv, NEW t \in Timers,
                      Stop(t) \/ \E d \in Delays, r \in Repeats \cup {0} : Start(t, d, r),
                      nextFire'[t] # nextFire[t],
                      ~(nextFire'[t] # 0 /\ Position(heap, t) # 0
                        /\ HasValidHeapPosition(heap, Position(heap, t), nextFire', order'))
               PROVE  Position(heap', t) # Position(heap, t)
    BY DEF HeapIndexChanges
  <2>1. PICK time \in Nat : SetNextFireTime(t, time, heap, nextFire)
    <3>1. now \in Nat /\ Delays \subseteq Nat
      BY InvariantGives, TimersAssumption
    <3>2. CASE Stop(t)
      BY <3>2 DEF Stop
    <3>3. CASE \E d \in Delays, r \in Repeats \cup {0} : Start(t, d, r)
      <4>1. PICK d \in Delays, r \in Repeats \cup {0} : Start(t, d, r)
        BY <3>3
      <4>2. now + d \in Nat
        BY <3>1
      <4> QED BY <4>1, <4>2 DEF Start
    <3> QED BY <3>2, <3>3
  <2> DEFINE nf2 == [nextFire EXCEPT ![t] = time]
             ord2 == Renumbered(t, time)
             i == Position(heap, t)
  <2>2. /\ order \in Seq(Timers) /\ NoDuplicates(order) /\ Listed(order) = Active(nextFire)
        /\ nextFire \in [Timers -> Nat]
        /\ IsHeap(heap, Active(nextFire), nextFire, order)
    BY InvariantGives DEF KeysMatch, KeysBounded
  <2>3. nextFire' = nf2 /\ nf2[t] = time /\ nextFire[t] # time
    BY <2>1, <2>2 DEF SetNextFireTime
  <2>4. order' = ord2 /\ heap' = UpdateHeapIfNeeded(heap, t, nextFire[t], nf2, ord2)
    BY <2>1, <2>3 DEF SetNextFireTime
  <2>5. ~(time # 0 /\ i # 0 /\ HasValidHeapPosition(heap, i, nf2, ord2))
    BY <2>3, <2>4
  <2>6. /\ Active(nextFire) \subseteq Listed(order)
        /\ Listed(order) \subseteq Active(nextFire) \cup {t}
    BY <2>2
  <2>7. Position(UpdateHeapIfNeeded(heap, t, nextFire[t], nf2, ord2), t) # i
    BY <2>2, <2>3, <2>5, <2>6, UpdateMoves
  <2> QED BY <2>4, <2>7
<1> QED BY <1>1, TimersInvariance, PTL DEF Spec

\* While timers are set and none is fired, FLTK will call callback() by the
\* time the first is due, or at once: the early return of updateSharedTimer
\* and its skipping for a timer that is not first lose no wake-up.
THEOREM AlwaysArmed == Spec => []TimerArmed
<1>1. TimersInv => TimerArmed
  <2> SUFFICES ASSUME TimersInv, heap # <<>>, ~firing
               PROVE  \E e \in ToSet(shared.timeouts) : e <= Max({now, nextFire[heap[1]]})
    BY DEF TimerArmed
  <2> DEFINE time == nextFire[heap[1]]
  <2>1. now \in Nat /\ time \in Nat /\ shared \in SharedTimers
    BY InvariantGives, FirstOfHeap DEF Typed
  <2>2. Max({now, time}) = IF now <= time THEN time ELSE now
    BY <2>1, MaxOfTwo
  <2>3. PICK e \in Listed(shared.timeouts) : e <= now \/ e <= time
    BY InvariantGives DEF ArmedInv, SharedArmed, Armed
  <2>4. e \in Nat
    <3>1. shared.timeouts \in Seq(0 .. Horizon)
      BY <2>1 DEF SharedTimers
    <3>2. Listed(shared.timeouts) \subseteq 0 .. Horizon
      BY <3>1, ListedIn
    <3> QED BY <2>3, <3>2
  <2>5. e \in ToSet(shared.timeouts)
    BY <2>3 DEF ToSet, Listed
  <2> HIDE DEF time
  <2>6. e <= Max({now, time})
    BY <2>1, <2>2, <2>3, <2>4
  <2> QED BY <2>5, <2>6 DEF time
<1> QED BY <1>1, TimersInvariance, PTL

\* The timeouts that callback() leaves behind when it repeats itself never
\* exceed one per activation and one more.
THEOREM TimeoutsStayBounded == Spec => []TimeoutsBounded
<1>1. TimersInv => TimeoutsBounded
  <2> SUFFICES ASSUME TimersInv PROVE TimeoutsBounded
    OBVIOUS
  <2>1. /\ shared \in SharedTimers /\ CountInv /\ Len(stack) \in Nat
    BY InvariantGives DEF Typed
  <2>2. Len(shared.timeouts) \in Nat /\ MaxNesting \in Nat
    BY <2>1, LoadIs, TimersAssumption
  <2>3. Len(shared.timeouts) <= Load(shared) /\ Load(shared) \in Nat
    <3>1. CASE shared.running
      BY <2>2, <3>1 DEF Load
    <3>2. CASE ~shared.running
      BY <2>2, <3>2 DEF Load
    <3> QED BY <3>1, <3>2
  <2> QED BY <2>1, <2>2, <2>3 DEF TimeoutsBounded, CountInv
<1> QED BY <1>1, TimersInvariance, PTL
=============================================================================
