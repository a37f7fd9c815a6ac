-------------------------- MODULE SelectionProofs --------------------------
(***************************************************************************)
(* What a subsequence has in common with the sequence it is taken from,    *)
(* and how often an element occurs in a sequence.                          *)
(***************************************************************************)
EXTENDS Selection, SequenceTheorems, FiniteSetTheorems, TLAPS

\* A set of positions has a least one.
LEMMA LeastPosition ==
    ASSUME NEW P, P \subseteq Nat, P # {}
    PROVE  \E n \in P : \A m \in P : n <= m
<1> DEFINE less == {ss \in Nat \X Nat : ss[1] < ss[2]}
<1>1. IsWellFoundedOn(less, Nat)
    BY NatLessThanWellFounded DEF OpToRel
<1>2. PICK n \in P : \A m \in P : <<m, n>> \notin less
    BY <1>1, WFMin
<1>3. \A m \in P : ~(m < n) /\ m \in Nat /\ n \in Nat
    BY <1>2
<1> QED BY <1>3

\* A subsequence has the elements of the sequence at its positions, and of an
\* empty sequence it is empty.
LEMMA PickedType ==
    ASSUME NEW S, NEW s \in Seq(S), NEW P \in SUBSET DOMAIN s, NEW p \in Picked(s, P)
    PROVE  /\ p \in Seq(S)
           /\ s = <<>> => p = <<>>
           /\ \A n \in DOMAIN p : \E m \in P : p[n] = s[m]
<1>0. Len(s) \in Nat /\ DOMAIN s = 1 .. Len(s) /\ s \in [1 .. Len(s) -> S]
    BY LenProperties
<1>1. Len(s) \in Nat /\ DOMAIN s = 1 .. Len(s) /\ \A n \in DOMAIN s : s[n] \in S
    BY <1>0
<1>2. IsFiniteSet(P)
    <2>1. IsFiniteSet(1 .. Len(s))
        BY <1>1, FS_Interval
    <2>2. P \subseteq 1 .. Len(s)
        BY <1>1
    <2> QED BY <2>1, <2>2, FS_Subset
<1>3. Cardinality(P) \in Nat
    BY <1>2, FS_CardinalityType
<1>4. PICK f \in [1 .. Cardinality(P) -> P] : p = [n \in 1 .. Cardinality(P) |-> s[f[n]]]
    BY DEF Picked, Ascending
<1>5. p \in Seq(S)
    <2>1. \A n \in 1 .. Cardinality(P) : s[f[n]] \in S
        BY <1>1
    <2> QED BY <1>3, <1>4, <2>1, IsASeq
<1>6. ASSUME s = <<>> PROVE p = <<>>
    <2>1. P = {}
        BY <1>1, <1>6, EmptySeq
    <2>2. Cardinality(P) = 0
        BY <2>1, FS_EmptySet
    <2>3. Len(p) = 0
        BY <1>4, <1>5, <2>2, LenProperties
    <2> QED BY <1>5, <2>3, EmptySeq
<1>7. \A n \in DOMAIN p : \E m \in P : p[n] = s[m]
    BY <1>4
<1> QED BY <1>5, <1>6, <1>7

\* ... and all that is at one of the positions is kept.
LEMMA PickedAll ==
    ASSUME NEW S, NEW s \in Seq(S), NEW P \in SUBSET DOMAIN s, NEW p \in Picked(s, P)
    PROVE  \A m \in P : \E n \in DOMAIN p : p[n] = s[m]
<1> DEFINE c == Cardinality(P)
<1>1. IsFiniteSet(P) /\ P \subseteq Nat
    <2>1. IsFiniteSet(1 .. Len(s)) /\ Len(s) \in Nat /\ DOMAIN s = 1 .. Len(s)
        BY LenProperties, FS_Interval
    <2> QED BY <2>1, FS_Subset
<1>2. c \in Nat /\ IsFiniteSet(1 .. c) /\ Cardinality(1 .. c) = c
    BY <1>1, FS_CardinalityType, FS_Interval
<1>3. PICK f \in Ascending(P) : p = [n \in 1 .. c |-> s[f[n]]]
    BY DEF Picked
<1>4. /\ f \in [1 .. c -> P]
      /\ \A i, j \in 1 .. c : i < j => f[i] < f[j]
    BY DEF Ascending
<1> HIDE DEF c
<1>5. \A i, j \in 1 .. c : f[i] = f[j] => i = j
    <2> TAKE i, j \in 1 .. c
    <2>1. f[i] \in Nat /\ f[j] \in Nat
        BY <1>1, <1>4
    <2> QED BY <1>2, <1>4, <2>1
<1>6. f \in Injection(1 .. c, P)
    BY <1>4, <1>5 DEF Injection, IsInjective
<1>7. f \in Surjection(1 .. c, P)
    BY <1>1, <1>2, <1>6, FS_Injection DEF c
<1>8. \A m \in P : \E n \in 1 .. c : f[n] = m
    BY <1>7 DEF Surjection
<1> QED BY <1>3, <1>8

-----------------------------------------------------------------------------
(***************************************************************************)
(* Occurrences.                                                            *)
(***************************************************************************)

\* How many elements of a sequence are in a set.
Occurrences(seq, E) == Cardinality({n \in DOMAIN seq : seq[n] \in E})

\* Occurrences can be counted.
LEMMA OccurrencesType ==
    ASSUME NEW S, NEW s \in Seq(S), NEW E
    PROVE  /\ Occurrences(s, E) \in Nat
           /\ IsFiniteSet({n \in DOMAIN s : s[n] \in E})
<1>1. IsFiniteSet(1 .. Len(s)) /\ DOMAIN s = 1 .. Len(s)
    BY LenProperties, FS_Interval
<1>2. {n \in DOMAIN s : s[n] \in E} \in SUBSET (1 .. Len(s))
    BY <1>1
<1> QED BY <1>1, <1>2, FS_Subset, FS_CardinalityType DEF Occurrences

\* Nothing occurs in the empty sequence; what does not occur is not there.
LEMMA OccurrencesEmpty ==
    ASSUME NEW S, NEW s \in Seq(S), NEW E
    PROVE  Occurrences(s, E) = 0 <=> \A n \in DOMAIN s : s[n] \notin E
<1>1. IsFiniteSet({n \in DOMAIN s : s[n] \in E})
    BY OccurrencesType
<1> QED BY <1>1, FS_EmptySet DEF Occurrences

\* Nothing occurs in the empty sequence.
LEMMA OccurrencesNone ==
    ASSUME NEW E
    PROVE  Occurrences(<<>>, E) = 0
<1>1. {n \in DOMAIN <<>> : <<>>[n] \in E} = {}
    OBVIOUS
<1> QED BY <1>1, FS_EmptySet DEF Occurrences

\* An appended element counts if it is in the set.
LEMMA OccurrencesAppend ==
    ASSUME NEW S, NEW s \in Seq(S), NEW e \in S, NEW E
    PROVE  Occurrences(Append(s, e), E)
             = Occurrences(s, E) + (IF e \in E THEN 1 ELSE 0)
<1> DEFINE A == {n \in DOMAIN s : s[n] \in E}
           B == {n \in DOMAIN Append(s, e) : Append(s, e)[n] \in E}
           k == Len(s)
<1>1. /\ k \in Nat /\ DOMAIN s = 1 .. k /\ DOMAIN Append(s, e) = 1 .. k + 1
      /\ \A i \in 1 .. k : Append(s, e)[i] = s[i]
      /\ Append(s, e)[k + 1] = e
    BY LenProperties, AppendProperties
<1>2. IsFiniteSet(A) /\ Cardinality(A) \in Nat /\ k + 1 \notin A
    <2>1. k + 1 \notin A
        BY <1>1
    <2>2. IsFiniteSet(A) /\ Occurrences(s, E) \in Nat
        BY OccurrencesType
    <2> QED BY <2>1, <2>2 DEF Occurrences
<1>3. CASE e \in E
    <2>1. B = A \cup {k + 1}
        BY <1>1, <1>3
    <2>2. Cardinality(B) = Cardinality(A) + 1
        <3> HIDE DEF A, B
        <3> QED BY <1>2, <2>1, FS_AddElement
    <2> QED BY <1>3, <2>2 DEF Occurrences
<1>4. CASE e \notin E
    <2>1. B = A
        BY <1>1, <1>4
    <2>2. Occurrences(Append(s, e), E) = Occurrences(s, E) /\ Occurrences(s, E) \in Nat
        BY <1>2, <2>1 DEF Occurrences
    <2> QED BY <1>4, <2>2
<1> QED BY <1>3, <1>4

\* The elements of a concatenation are those of its parts.
LEMMA OccurrencesConcat ==
    ASSUME NEW S, NEW s \in Seq(S), NEW t \in Seq(S), NEW E
    PROVE  Occurrences(s \o t, E) = Occurrences(s, E) + Occurrences(t, E)
<1> DEFINE A == {n \in DOMAIN s : s[n] \in E}
           B == {n \in DOMAIN t : t[n] \in E}
           C == {n \in DOMAIN (s \o t) : (s \o t)[n] \in E}
           k == Len(s)
           shift == [n \in B |-> n + k]
           D == {n + k : n \in B}
<1>1. /\ k \in Nat /\ Len(t) \in Nat /\ DOMAIN s = 1 .. k /\ DOMAIN t = 1 .. Len(t)
      /\ DOMAIN (s \o t) = 1 .. k + Len(t)
      /\ \A i \in 1 .. k + Len(t) : (s \o t)[i] = IF i <= k THEN s[i] ELSE t[i - k]
    BY LenProperties, ConcatProperties
<1>2. /\ IsFiniteSet(A) /\ IsFiniteSet(B)
      /\ Cardinality(A) \in Nat /\ Cardinality(B) \in Nat
    BY OccurrencesType DEF Occurrences
<1>3. \A n \in B : n \in Nat /\ n >= 1
    BY <1>1
<1>4. C = A \cup D
    <2>1. ASSUME NEW n \in C PROVE n \in A \cup D
        <3>1. CASE n <= k
            BY <1>1, <3>1
        <3>2. CASE ~(n <= k)
            <4>1. n - k \in 1 .. Len(t) /\ (s \o t)[n] = t[n - k] /\ n = (n - k) + k
                BY <1>1, <3>2
            <4>2. n - k \in B
                BY <1>1, <4>1
            <4> QED BY <4>1, <4>2
        <3> QED BY <3>1, <3>2
    <2>2. ASSUME NEW n \in A PROVE n \in C
        BY <1>1
    <2>3. ASSUME NEW m \in B PROVE m + k \in C
        <3>1. m \in 1 .. Len(t) /\ t[m] \in E
            BY <1>1
        <3>2. m + k \in 1 .. k + Len(t) /\ ~(m + k <= k) /\ (m + k) - k = m
            BY <1>1, <3>1
        <3> QED BY <1>1, <3>1, <3>2
    <2> QED BY <2>1, <2>2, <2>3
<1>5. A \cap D = {}
    BY <1>1, <1>3
<1>6. shift \in Bijection(B, D)
    BY <1>1, <1>3 DEF Bijection, Injection, Surjection, IsInjective
<1> HIDE DEF A, B, C, D, shift
<1>7. IsFiniteSet(D) /\ Cardinality(D) = Cardinality(B)
    BY <1>2, <1>6, FS_Bijection DEF ExistsBijection
<1>8. Cardinality(A \cup D) = Cardinality(A) + Cardinality(D) - Cardinality(A \cap D)
    BY <1>2, <1>7, FS_Union
<1>9. Cardinality(A \cap D) = 0
    BY <1>5, FS_EmptySet
<1>10. Cardinality(C) = Cardinality(A) + Cardinality(B)
    BY <1>2, <1>4, <1>7, <1>8, <1>9
<1>11. /\ Occurrences(s, E) = Cardinality(A) /\ Occurrences(t, E) = Cardinality(B)
       /\ Occurrences(s \o t, E) = Cardinality(C)
    BY DEF Occurrences, A, B, C
<1> QED BY <1>10, <1>11

\* The head counts if it is in the set, the rest is in the tail.
LEMMA OccurrencesHeadTail ==
    ASSUME NEW S, NEW s \in Seq(S), s # <<>>, NEW E
    PROVE  Occurrences(s, E)
             = (IF Head(s) \in E THEN 1 ELSE 0) + Occurrences(Tail(s), E)
<1>1. Head(s) \in S /\ Tail(s) \in Seq(S) /\ <<>> \in Seq(S)
    BY HeadTailProperties, EmptySeq
<1>2. s = <<Head(s)>> \o Tail(s)
    <2>1. /\ Len(s) \in Nat \ {0} /\ Len(Tail(s)) = Len(s) - 1 /\ Head(s) = s[1]
          /\ \A i \in 1 .. Len(s) - 1 : Tail(s)[i] = s[i + 1]
        BY HeadTailProperties, EmptySeq
    <2>2. <<Head(s)>> \in Seq(S) /\ Len(<<Head(s)>>) = 1 /\ <<Head(s)>>[1] = Head(s)
        BY <1>1
    <2> DEFINE h == <<Head(s)>>
    <2> HIDE DEF h
    <2>3. /\ h \o Tail(s) \in Seq(S) /\ Len(h \o Tail(s)) = 1 + (Len(s) - 1)
          /\ \A i \in 1 .. 1 + (Len(s) - 1) :
                (h \o Tail(s))[i] = IF i <= 1 THEN h[1] ELSE Tail(s)[i - 1]
        <3>1. h \in Seq(S) /\ Len(h) = 1
            BY <2>2 DEF h
        <3>2. /\ h \o Tail(s) \in Seq(S) /\ Len(h \o Tail(s)) = Len(h) + Len(Tail(s))
              /\ \A i \in 1 .. Len(h) + Len(Tail(s)) :
                    (h \o Tail(s))[i] = IF i <= Len(h) THEN h[i] ELSE Tail(s)[i - Len(h)]
            BY <1>1, <3>1, ConcatProperties
        <3>3. \A i \in 1 .. 1 + (Len(s) - 1) : i <= 1 => i = 1
            BY <2>1
        <3> QED BY <2>1, <3>1, <3>2, <3>3
    <2>4. \A i \in 1 .. Len(s) : s[i] = (h \o Tail(s))[i]
        <3> SUFFICES ASSUME NEW i \in 1 .. Len(s) PROVE s[i] = (h \o Tail(s))[i]
            OBVIOUS
        <3>1. CASE i = 1
            BY <2>1, <2>2, <2>3, <3>1 DEF h
        <3>2. CASE i # 1
            <4>1. i - 1 \in 1 .. Len(s) - 1 /\ (i - 1) + 1 = i /\ ~(i <= 1)
                BY <2>1, <3>2
            <4> QED BY <2>1, <2>3, <4>1
        <3> QED BY <3>1, <3>2
    <2>5. Len(s) = Len(h \o Tail(s))
        <3> DEFINE l == Len(s)
                   m == Len(h \o Tail(s))
        <3>1. l \in Nat /\ l # 0 /\ m = 1 + (l - 1)
            BY <2>1, <2>3
        <3> HIDE DEF l, m
        <3>2. l = m
            BY <3>1
        <3> QED BY <3>2 DEF l, m
    <2>6. s = h \o Tail(s)
        BY <2>3, <2>4, <2>5, SeqEqual
    <2> QED BY <2>6 DEF h
<1>3. Occurrences(<<Head(s)>>, E) = IF Head(s) \in E THEN 1 ELSE 0
    <2>1. <<Head(s)>> = Append(<<>>, Head(s))
        OBVIOUS
    <2>2. Occurrences(Append(<<>>, Head(s)), E)
            = Occurrences(<<>>, E) + (IF Head(s) \in E THEN 1 ELSE 0)
        BY <1>1, OccurrencesAppend
    <2> QED BY <2>1, <2>2, OccurrencesNone
<1>4. <<Head(s)>> \in Seq(S)
    BY <1>1
<1>5. Occurrences(<<Head(s)>> \o Tail(s), E)
        = Occurrences(<<Head(s)>>, E) + Occurrences(Tail(s), E)
    BY <1>1, <1>4, OccurrencesConcat
<1> QED BY <1>2, <1>3, <1>5

-----------------------------------------------------------------------------
(***************************************************************************)
(* Subsequences at given positions.                                        *)
(***************************************************************************)

\* The position of an element among some positions.
Rank(P, n) == Cardinality({m \in P : m <= n})

\* Ranks number the positions from 1, in order.
LEMMA RankMonotonic ==
    ASSUME NEW k \in Nat, NEW P \in SUBSET (1 .. k)
    PROVE  /\ IsFiniteSet(P) /\ Cardinality(P) \in Nat
           /\ \A n \in P : Rank(P, n) \in 1 .. Cardinality(P)
           /\ \A m, n \in P : m < n => Rank(P, m) < Rank(P, n)
<1>1. IsFiniteSet(P) /\ Cardinality(P) \in Nat
    <2>1. IsFiniteSet(1 .. k)
        BY FS_Interval
    <2>2. IsFiniteSet(P)
        BY <2>1, FS_Subset
    <2> QED BY <2>2, FS_CardinalityType
<1>2. \A n \in P : /\ IsFiniteSet({m \in P : m <= n})
                    /\ Rank(P, n) \in Nat /\ Rank(P, n) <= Cardinality(P)
    <2> TAKE n \in P
    <2> DEFINE U == {m \in P : m <= n}
    <2>1. U \in SUBSET P
        OBVIOUS
    <2> HIDE DEF U
    <2>2. IsFiniteSet(U) /\ Cardinality(U) <= Cardinality(P) /\ Cardinality(U) \in Nat
        BY <1>1, <2>1, FS_Subset, FS_CardinalityType
    <2> QED BY <2>2 DEF Rank, U
<1>3. \A n \in P : Rank(P, n) # 0
    <2> TAKE n \in P
    <2> DEFINE U == {m \in P : m <= n}
    <2>1. n \in U
        OBVIOUS
    <2>2. IsFiniteSet(U) /\ Rank(P, n) = Cardinality(U)
        BY <1>2 DEF Rank
    <2> HIDE DEF U
    <2>3. Cardinality(U) # 0
        BY <2>1, <2>2, FS_EmptySet
    <2> QED BY <2>2, <2>3
<1>4. ASSUME NEW m \in P, NEW n \in P, m < n PROVE Rank(P, m) < Rank(P, n)
    <2> DEFINE U == {i \in P : i <= m}
               V == {i \in P : i <= n}
    <2>0. P \subseteq Nat
        OBVIOUS
    <2>1. U \in SUBSET V /\ U # V
        <3>1. \A i \in P : i <= m => i <= n
            BY <1>4, <2>0
        <3>2. n \in V /\ n \notin U
            BY <1>4, <2>0
        <3> QED BY <3>1, <3>2
    <2>2. IsFiniteSet(V)
        BY <1>2
    <2> HIDE DEF U, V
    <2>3. Cardinality(U) < Cardinality(V)
        <3>1. Cardinality(U) <= Cardinality(V) /\ (Cardinality(V) = Cardinality(U) => V = U)
            BY <2>1, <2>2, FS_Subset
        <3>2. Cardinality(U) \in Nat /\ Cardinality(V) \in Nat
            BY <2>1, <2>2, FS_Subset, FS_CardinalityType
        <3> QED BY <2>1, <3>1, <3>2
    <2> QED BY <2>3 DEF Rank, U, V
<1>5. \A n \in P : Rank(P, n) \in 1 .. Cardinality(P)
    <2> TAKE n \in P
    <2>1. Rank(P, n) \in Nat /\ Rank(P, n) <= Cardinality(P) /\ Rank(P, n) # 0
        BY <1>2, <1>3
    <2> QED BY <1>1, <2>1
<1> QED BY <1>1, <1>4, <1>5

\* There is one position of each rank.
LEMMA RankedType ==
    ASSUME NEW k \in Nat, NEW P \in SUBSET (1 .. k), NEW r \in 1 .. Cardinality(P)
    PROVE  Ranked(P, r) \in P /\ Rank(P, Ranked(P, r)) = r
<1> DEFINE f == [n \in P |-> Rank(P, n)]
           c == Cardinality(P)
<1>1. IsFiniteSet(P) /\ c \in Nat
    BY RankMonotonic
<1>2. f \in Injection(P, 1 .. c)
    <2>1. f \in [P -> 1 .. c]
        BY RankMonotonic
    <2>2. \A m, n \in P : f[m] = f[n] => m = n
        <3> SUFFICES ASSUME NEW m \in P, NEW n \in P, f[m] = f[n], m # n PROVE FALSE
            OBVIOUS
        <3>1. m < n \/ n < m
            OBVIOUS
        <3>2. f[m] < f[n] \/ f[n] < f[m]
            BY <3>1, RankMonotonic
        <3>3. f[m] \in Nat /\ f[n] \in Nat
            BY <1>1, <2>1
        <3> QED BY <3>2, <3>3
    <2> QED BY <2>1, <2>2 DEF Injection, IsInjective
<1>3. IsFiniteSet(1 .. c) /\ Cardinality(1 .. c) = c
    <2>1. c >= 1 \/ c = 0
        BY <1>1
    <2> QED BY <1>1, <2>1, FS_Interval
<1> HIDE DEF f
<1>4. f \in Surjection(P, 1 .. c)
    BY <1>1, <1>2, <1>3, FS_Injection
<1>5. PICK n \in P : f[n] = r
    BY <1>4 DEF Surjection
<1>6. Rank(P, n) = r
    BY <1>5 DEF f
<1> QED BY <1>6 DEF Ranked, Rank

\* A position is the only one of its rank.
LEMMA RankedUnique ==
    ASSUME NEW k \in Nat, NEW P \in SUBSET (1 .. k), NEW n \in P
    PROVE  Ranked(P, Rank(P, n)) = n
<1> DEFINE r == Rank(P, n)
<1>1. r \in 1 .. Cardinality(P)
    BY RankMonotonic
<1> HIDE DEF r
<1>2. Ranked(P, r) \in P /\ Rank(P, Ranked(P, r)) = r
    BY <1>1, RankedType
<1>3. ~(Ranked(P, r) < n) /\ ~(n < Ranked(P, r))
    <2>1. \A m \in P : Rank(P, m) \in Nat
        <3>1. Cardinality(P) \in Nat /\ \A m \in P : Rank(P, m) \in 1 .. Cardinality(P)
            BY RankMonotonic
        <3> QED BY <3>1
    <2>2. Ranked(P, r) < n => Rank(P, Ranked(P, r)) < Rank(P, n)
        BY <1>2, RankMonotonic
    <2>3. n < Ranked(P, r) => Rank(P, n) < Rank(P, Ranked(P, r))
        BY <1>2, RankMonotonic
    <2> QED BY <1>2, <2>1, <2>2, <2>3 DEF r
<1>4. n \in Nat /\ Ranked(P, r) \in Nat
    <2>1. P \subseteq Nat
        OBVIOUS
    <2> QED BY <1>2, <2>1
<1>5. Ranked(P, r) = n
    BY <1>3, <1>4
<1> QED BY <1>5 DEF r

\* A subsequence has one element for each position, taken from it.
LEMMA SubsequenceType ==
    ASSUME NEW S, NEW s \in Seq(S), NEW P \in SUBSET DOMAIN s
    PROVE  /\ Subsequence(s, P) \in Seq(S)
           /\ Cardinality(P) \in Nat /\ Len(Subsequence(s, P)) = Cardinality(P)
           /\ \A r \in 1 .. Cardinality(P) :
                 Ranked(P, r) \in P /\ Subsequence(s, P)[r] = s[Ranked(P, r)]
<1>1. Len(s) \in Nat /\ DOMAIN s = 1 .. Len(s) /\ \A n \in DOMAIN s : s[n] \in S
    BY LenProperties
<1>2. Cardinality(P) \in Nat
    BY <1>1, RankMonotonic
<1>3. \A r \in 1 .. Cardinality(P) : Ranked(P, r) \in P
    BY <1>1, RankedType
<1>4. \A r \in 1 .. Cardinality(P) : s[Ranked(P, r)] \in S
    BY <1>1, <1>3
<1>5. Subsequence(s, P) \in Seq(S) /\ DOMAIN Subsequence(s, P) = 1 .. Cardinality(P)
    BY <1>2, <1>4, IsASeq DEF Subsequence
<1>6. Len(Subsequence(s, P)) = Cardinality(P)
    BY <1>2, <1>5, LenProperties
<1> QED BY <1>2, <1>3, <1>5, <1>6 DEF Subsequence

\* An appended element joins a subsequence if its position is among those
\* kept, and then at the end.
LEMMA SubsequenceAppend ==
    ASSUME NEW S, NEW s \in Seq(S), NEW e \in S, NEW P \in SUBSET DOMAIN s
    PROVE  /\ Subsequence(Append(s, e), P) = Subsequence(s, P)
           /\ Subsequence(Append(s, e), P \cup {Len(s) + 1})
                = Append(Subsequence(s, P), e)
<1> DEFINE k == Len(s)
           c == Cardinality(P)
           Q == P \cup {k + 1}
           t == Append(s, e)
<1>1. /\ k \in Nat /\ DOMAIN s = 1 .. k /\ t \in Seq(S)
      /\ DOMAIN t = 1 .. k + 1 /\ t[k + 1] = e /\ \A i \in 1 .. k : t[i] = s[i]
    BY LenProperties, AppendProperties
<1>2. /\ P \in SUBSET (1 .. k) /\ P \in SUBSET DOMAIN t
      /\ Q \in SUBSET (1 .. k + 1) /\ Q \in SUBSET DOMAIN t
      /\ k + 1 \notin P /\ k + 1 \in Nat
    BY <1>1
<1>3. c \in Nat /\ IsFiniteSet(P)
    BY <1>1, <1>2, RankMonotonic
<1>4. Cardinality(Q) = c + 1
    BY <1>2, <1>3, FS_AddElement
<1>5. \A r \in 1 .. c : Ranked(P, r) \in P /\ t[Ranked(P, r)] = s[Ranked(P, r)]
    BY <1>1, <1>2, RankedType
<1>6. Subsequence(t, P) = Subsequence(s, P)
    BY <1>5 DEF Subsequence
<1>7. \A n \in P : Rank(Q, n) = Rank(P, n)
    <2> TAKE n \in P
    <2>1. {m \in Q : m <= n} = {m \in P : m <= n}
        BY <1>1, <1>2
    <2> QED BY <2>1 DEF Rank
<1>8. Rank(Q, k + 1) = c + 1
    <2>1. {m \in Q : m <= k + 1} = Q
        BY <1>1, <1>2
    <2> QED BY <1>4, <2>1 DEF Rank
<1>9. \A r \in 1 .. c : Ranked(Q, r) = Ranked(P, r)
    <2> TAKE r \in 1 .. c
    <2>1. Ranked(P, r) \in P /\ Rank(P, Ranked(P, r)) = r
        BY <1>1, <1>2, RankedType
    <2>2. Rank(Q, Ranked(P, r)) = r
        BY <1>7, <2>1
    <2>3. Ranked(P, r) \in Q
        BY <2>1
    <2> DEFINE n == Ranked(P, r)
    <2> HIDE DEF Q, n
    <2>4. Ranked(Q, Rank(Q, n)) = n
        <3>1. n \in Q /\ Q \in SUBSET (1 .. k + 1) /\ k + 1 \in Nat
            BY <1>2, <2>3 DEF n
        <3> HIDE DEF k
        <3> QED BY <3>1, RankedUnique
    <2> QED BY <2>2, <2>4 DEF n
<1>10. Ranked(Q, c + 1) = k + 1
    <2>1. k + 1 \in Q
        OBVIOUS
    <2> DEFINE n == k + 1
    <2> HIDE DEF Q, c, n
    <2>2. n \in Q /\ n \in Nat /\ Q \in SUBSET (1 .. n) /\ Rank(Q, n) = c + 1
        BY <1>2, <1>8, <2>1 DEF n
    <2>3. Ranked(Q, Rank(Q, n)) = n
        BY <2>2, RankedUnique
    <2> QED BY <2>2, <2>3 DEF n
<1>11. /\ Subsequence(s, P) \in Seq(S) /\ Len(Subsequence(s, P)) = c
       /\ \A r \in 1 .. c : Subsequence(s, P)[r] = s[Ranked(P, r)]
    BY SubsequenceType
<1>12. /\ Subsequence(t, Q) \in Seq(S) /\ Len(Subsequence(t, Q)) = c + 1
       /\ \A r \in 1 .. c + 1 : Subsequence(t, Q)[r] = t[Ranked(Q, r)]
    <2> HIDE DEF Q, t, c
    <2> QED BY <1>1, <1>2, <1>4, SubsequenceType
<1> HIDE DEF Q, t, c, k
<1>13. Subsequence(t, Q) = Append(Subsequence(s, P), e)
    <2> DEFINE u == Subsequence(s, P)
               v == Subsequence(t, Q)
    <2>1. /\ u \in Seq(S) /\ Len(u) = c /\ \A r \in 1 .. c : u[r] = s[Ranked(P, r)]
          /\ v \in Seq(S) /\ Len(v) = c + 1
          /\ \A r \in 1 .. c + 1 : v[r] = t[Ranked(Q, r)]
        BY <1>11, <1>12
    <2> HIDE DEF u, v
    <2>2. /\ Append(u, e) \in Seq(S) /\ Len(Append(u, e)) = c + 1
          /\ \A r \in 1 .. c : Append(u, e)[r] = u[r]
          /\ Append(u, e)[c + 1] = e
        BY <2>1, AppendProperties
    <2>3. \A r \in 1 .. c + 1 : v[r] = Append(u, e)[r]
        <3> TAKE r \in 1 .. c + 1
        <3>1. CASE r \in 1 .. c
            <4>1. r \in 1 .. c + 1
                OBVIOUS
            <4> QED BY <3>1, <4>1, <2>1, <2>2, <1>5, <1>9
        <3>2. CASE r = c + 1
            <4>1. c + 1 \in 1 .. c + 1
                BY <1>3 DEF c
            <4>2. v[c + 1] = t[Ranked(Q, c + 1)]
                BY <2>1, <4>1
            <4>3. t[k + 1] = e
                BY <1>1 DEF t, k
            <4> QED BY <3>2, <2>2, <4>2, <4>3, <1>10
        <3>3. c \in Nat
            BY <1>3 DEF c
        <3>4. r \in 1 .. c \/ r = c + 1
            BY <3>3
        <3> QED BY <3>1, <3>2, <3>4
    <2>4. v = Append(u, e)
        BY <2>1, <2>2, <2>3, SeqEqual
    <2> QED BY <2>4 DEF u, v
<1> QED BY <1>6, <1>13 DEF Q, t, k

\* Nothing is taken from the empty sequence.
LEMMA SubsequenceNone == Subsequence(<<>>, {}) = <<>>
<1>1. {} \in SUBSET DOMAIN <<>> /\ <<>> \in Seq({})
    OBVIOUS
<1>2. Cardinality({}) = 0
    BY FS_EmptySet
<1>3. Subsequence(<<>>, {}) \in Seq({}) /\ Len(Subsequence(<<>>, {})) = 0
    BY <1>1, <1>2, SubsequenceType
<1> QED BY <1>3, EmptySeq

=============================================================================
