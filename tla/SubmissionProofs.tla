--------------------------- MODULE SubmissionProofs ---------------------------
(* Proofs about the lists of addresses and about the requests that carry them. *)
EXTENDS Submission, FiniteSetTheorems, SequenceTheorems, WellFoundedInduction, TLAPS

(* Sequences.  The library's induction theorems cannot be instantiated; what holds  *)
(* of every number is shown by the absence of a least counterexample.               *)

\* A set of natural numbers has a least one.
LEMMA LeastNatural ==
  ASSUME NEW T \in SUBSET Nat, T # {}
  PROVE  \E x \in T : \A y \in T : x <= y
<1> DEFINE less == {p \in Nat \X Nat : p[1] < p[2]}
<1>1. IsWellFoundedOn(less, Nat)
  BY NatLessThanWellFounded DEF OpToRel
<1>2. PICK x \in T : \A y \in T : <<y, x>> \notin less
  BY <1>1, WFMin
<1>3. \A y \in T : ~(y < x)
  BY <1>2
<1>4. QED
  BY <1>3

\* Induction: a set that has 0 and all successors in 0..n has all of 0..n.
LEMMA UpTo ==
  ASSUME NEW n \in Nat, NEW T, 0 \in T, \A m \in 1..n : m - 1 \in T => m \in T
  PROVE  0..n \subseteq T
<1> DEFINE out == (0..n) \ T
<1>1. SUFFICES ASSUME out # {} PROVE FALSE
  OBVIOUS
<1>2. PICK m \in out : \A k \in out : m <= k
  <2>1. out \in SUBSET Nat
    OBVIOUS
  <2> HIDE DEF out
  <2>2. QED
    BY <1>1, <2>1, LeastNatural
<1>3. m # 0 /\ m \in 1..n
  BY <1>2
<1>4. m - 1 \in 0..n /\ ~(m <= m - 1)
  BY <1>3
<1>5. m - 1 \in T
  BY <1>2, <1>4
<1>6. QED
  BY <1>2, <1>3, <1>5

\* A function from 1..n is a sequence.
LEMMA FunctionIsSeq ==
  ASSUME NEW S, NEW n \in Nat, NEW f \in [1..n -> S] PROVE f \in Seq(S) /\ Len(f) = n
OBVIOUS

\* The members of a sequence that is put together of others.
LEMMA Members ==
  ASSUME NEW S, NEW s \in Seq(S)
  PROVE  /\ ToSet(<<>>) = {} /\ ToSet(s) \subseteq S
         /\ \A x \in S : ToSet(Append(s, x)) = ToSet(s) \cup {x}
         /\ \A t \in Seq(S) : ToSet(s \o t) = ToSet(s) \cup ToSet(t)
<1>1. ToSet(<<>>) = {} /\ ToSet(s) \subseteq S
  BY DEF ToSet
<1>2. ASSUME NEW x \in S PROVE ToSet(Append(s, x)) = ToSet(s) \cup {x}
  <2>1. /\ DOMAIN Append(s, x) = 1..Len(s) + 1 /\ DOMAIN s = 1..Len(s) /\ Len(s) \in Nat
        /\ \A i \in 1..Len(s) + 1 : Append(s, x)[i] = IF i = Len(s) + 1 THEN x ELSE s[i]
    OBVIOUS
  <2>2. ASSUME NEW y PROVE y \in ToSet(Append(s, x)) <=> y \in ToSet(s) \cup {x}
    BY <2>1 DEF ToSet
  <2>3. QED
    BY <2>2
<1>3. ASSUME NEW t \in Seq(S) PROVE ToSet(s \o t) = ToSet(s) \cup ToSet(t)
  <2>1. /\ DOMAIN s = 1..Len(s) /\ DOMAIN t = 1..Len(t) /\ Len(s) \in Nat /\ Len(t) \in Nat
        /\ DOMAIN (s \o t) = 1..Len(s) + Len(t)
        /\ \A i \in 1..Len(s) + Len(t) :
              (s \o t)[i] = IF i <= Len(s) THEN s[i] ELSE t[i - Len(s)]
    BY ConcatProperties
  <2>2. ASSUME NEW y \in ToSet(s \o t) PROVE y \in ToSet(s) \cup ToSet(t)
    <3>1. PICK i \in 1..Len(s) + Len(t) : y = (s \o t)[i]
      BY <2>1 DEF ToSet
    <3>2. CASE i <= Len(s)
      BY <2>1, <3>1, <3>2 DEF ToSet
    <3>3. CASE ~(i <= Len(s))
      <4>1. i - Len(s) \in 1..Len(t) /\ y = t[i - Len(s)]
        BY <2>1, <3>1, <3>3
      <4>2. QED
        BY <2>1, <4>1 DEF ToSet
    <3>4. QED
      BY <3>2, <3>3
  <2>3. ASSUME NEW y \in ToSet(s) PROVE y \in ToSet(s \o t)
    <3>1. PICK i \in 1..Len(s) : y = s[i]
      BY <2>1 DEF ToSet
    <3>2. i \in 1..Len(s) + Len(t) /\ (s \o t)[i] = y
      BY <2>1, <3>1
    <3>3. QED
      BY <2>1, <3>2 DEF ToSet
  <2>4. ASSUME NEW y \in ToSet(t) PROVE y \in ToSet(s \o t)
    <3>1. PICK i \in 1..Len(t) : y = t[i]
      BY <2>1 DEF ToSet
    <3>2. /\ i + Len(s) \in 1..Len(s) + Len(t) /\ ~(i + Len(s) <= Len(s))
          /\ i + Len(s) - Len(s) = i
      BY <2>1
    <3>3. (s \o t)[i + Len(s)] = y
      BY <2>1, <3>1, <3>2
    <3>4. QED
      BY <2>1, <3>2, <3>3 DEF ToSet
  <2>5. QED
    BY <2>2, <2>3, <2>4
<1>4. QED
  BY <1>1, <1>2, <1>3

------------------------------------------------------------------------------
(* Lists of addresses. *)

\* The function Kept is defined by.
IsKept(s, I, f) ==
    f = [n \in 0..Len(s) |->
            IF n = 0 THEN <<>>
            ELSE IF n \in I THEN Append(f[n - 1], s[n]) ELSE f[n - 1]]

\* That function exists, so its equation may be used.
LEMMA KeptIsDefined ==
  ASSUME NEW s, Len(s) \in Nat, NEW I
  PROVE  \E f : IsKept(s, I, f) /\ Kept(s, I) = f[Len(s)]
<1> DEFINE Up(m, f) == f = [n \in 0..m |->
                 IF n = 0 THEN <<>>
                 ELSE IF n \in I THEN Append(f[n - 1], s[n]) ELSE f[n - 1]]
           T == {m \in Nat : \E f : Up(m, f)}
<1>1. 0 \in T
  <2>1. Up(0, [n \in 0..0 |-> <<>>])
    OBVIOUS
  <2>2. QED
    BY <2>1
<1>2. ASSUME NEW m \in 1..Len(s), m - 1 \in T PROVE m \in T
  <2>1. PICK f : Up(m - 1, f)
    BY <1>2
  <2> DEFINE g == [n \in 0..m |-> IF n < m THEN f[n]
                     ELSE IF n \in I THEN Append(f[n - 1], s[n]) ELSE f[n - 1]]
  <2>2. ASSUME NEW n \in 0..m
        PROVE  g[n] = IF n = 0 THEN <<>>
                      ELSE IF n \in I THEN Append(g[n - 1], s[n]) ELSE g[n - 1]
    <3>1. n # 0 => n - 1 \in 0..m /\ n - 1 < m /\ g[n - 1] = f[n - 1]
      BY <1>2
    <3>2. CASE n < m
      <4>1. n \in 0..m - 1
        BY <3>2
      <4>2. g[n] = f[n]
        BY <3>2
      <4> HIDE DEF g
      <4>3. QED
        BY <2>1, <3>1, <4>1, <4>2
    <3>3. CASE ~(n < m)
      <4>1. n = m /\ n # 0
        BY <1>2, <3>3
      <4>2. g[n] = IF n \in I THEN Append(f[n - 1], s[n]) ELSE f[n - 1]
        BY <3>3
      <4> HIDE DEF g
      <4>3. QED
        BY <3>1, <4>1, <4>2
    <3>4. QED
      BY <3>2, <3>3
  <2>3. Up(m, g)
    <3>1. g = [n \in 0..m |-> g[n]]
      OBVIOUS
    <3> HIDE DEF g
    <3>2. QED
      BY <2>2, <3>1
  <2> HIDE DEF g, Up
  <2>4. QED
    BY <1>2, <2>3
<1>3. Len(s) \in T
  <2> HIDE DEF T
  <2>1. 0..Len(s) \subseteq T
    BY <1>1, <1>2, UpTo
  <2>2. QED
    BY <2>1
<1>4. PICK f : IsKept(s, I, f)
  BY <1>3 DEF IsKept
<1> DEFINE k == CHOOSE g : IsKept(s, I, g)
<1>5. IsKept(s, I, k)
  BY <1>4
<1>6. Kept(s, I) = k[Len(s)]
  BY DEF Kept, IsKept
<1> HIDE DEF k
<1>7. QED
  BY <1>5, <1>6

\* Kept(s, I) is a sequence of the elements of s at the positions in I.
LEMMA KeptFacts ==
  ASSUME NEW S, NEW s \in Seq(S), NEW I \in SUBSET (DOMAIN s)
  PROVE  /\ Kept(s, I) \in Seq(S)
         /\ IsFiniteSet(I) /\ Len(Kept(s, I)) = Cardinality(I)
         /\ ToSet(Kept(s, I)) = {s[i] : i \in I}
<1>1. Len(s) \in Nat /\ DOMAIN s = 1..Len(s) /\ \A i \in 1..Len(s) : s[i] \in S
  OBVIOUS
<1>2. PICK f : IsKept(s, I, f) /\ Kept(s, I) = f[Len(s)]
  BY <1>1, KeptIsDefined
<1> DEFINE upTo(n) == {i \in I : i <= n}
           T == {n \in 0..Len(s) : /\ f[n] \in Seq(S)
                                   /\ IsFiniteSet(upTo(n)) /\ Len(f[n]) = Cardinality(upTo(n))
                                   /\ ToSet(f[n]) = {s[i] : i \in upTo(n)}}
<1>3. 0 \in T
  <2>1. f[0] = <<>>
    BY <1>1, <1>2 DEF IsKept
  <2>2. upTo(0) = {}
    BY <1>1
  <2>3. ToSet(<<>>) = {} /\ Len(<<>>) = 0 /\ <<>> \in Seq(S)
    BY DEF ToSet
  <2>4. IsFiniteSet({}) /\ Cardinality({}) = 0
    BY FS_EmptySet
  <2>5. {s[i] : i \in upTo(0)} = {}
    BY <2>2
  <2>6. /\ f[0] \in Seq(S) /\ IsFiniteSet(upTo(0)) /\ Len(f[0]) = Cardinality(upTo(0))
        /\ ToSet(f[0]) = {}
    <3> HIDE DEF upTo
    <3>1. QED
      BY <2>1, <2>2, <2>3, <2>4
  <2>7. 0 \in 0..Len(s)
    BY <1>1
  <2> HIDE DEF upTo
  <2>8. QED
    BY <2>5, <2>6, <2>7
<1>4. ASSUME NEW n \in 1..Len(s), n - 1 \in T PROVE n \in T
  <2>1. n \in 0..Len(s) /\ n # 0 /\ n \in Int /\ n - 1 \in 0..Len(s)
    BY <1>1
  <2>2. f[n] = IF n \in I THEN Append(f[n - 1], s[n]) ELSE f[n - 1]
    BY <1>2, <2>1 DEF IsKept
  <2>3. CASE n \in I
    <3>1. upTo(n) = upTo(n - 1) \cup {n} /\ n \notin upTo(n - 1)
      BY <1>1, <2>1, <2>3
    <3>2. {s[i] : i \in upTo(n - 1) \cup {n}} = {s[i] : i \in upTo(n - 1)} \cup {s[n]}
      OBVIOUS
    <3> HIDE DEF upTo
    <3>3. /\ f[n - 1] \in Seq(S) /\ s[n] \in S
          /\ IsFiniteSet(upTo(n - 1)) /\ Len(f[n - 1]) = Cardinality(upTo(n - 1))
          /\ ToSet(f[n - 1]) = {s[i] : i \in upTo(n - 1)}
      BY <1>1, <1>4
    <3>4. /\ IsFiniteSet(upTo(n - 1) \cup {n})
          /\ Cardinality(upTo(n - 1) \cup {n}) = Cardinality(upTo(n - 1)) + 1
      BY <3>1, <3>3, FS_AddElement
    <3>5. /\ Append(f[n - 1], s[n]) \in Seq(S)
          /\ Len(Append(f[n - 1], s[n])) = Len(f[n - 1]) + 1
      BY <3>3
    <3>6. ToSet(Append(f[n - 1], s[n])) = ToSet(f[n - 1]) \cup {s[n]}
      BY <3>3, Members
    <3>7. QED
      BY <2>1, <2>2, <2>3, <3>1, <3>2, <3>3, <3>4, <3>5, <3>6
  <2>4. CASE n \notin I
    <3>1. upTo(n) = upTo(n - 1)
      BY <1>1, <2>1, <2>4
    <3> HIDE DEF upTo
    <3>2. QED
      BY <1>4, <2>1, <2>2, <2>4, <3>1
  <2>5. QED
    BY <2>3, <2>4
<1>5. Len(s) \in T
  <2> HIDE DEF T
  <2>1. 0..Len(s) \subseteq T
    BY <1>1, <1>3, <1>4, UpTo
  <2>2. QED
    BY <1>1, <2>1
<1>6. upTo(Len(s)) = I
  BY <1>1
<1> HIDE DEF upTo
<1>7. QED
  BY <1>2, <1>5, <1>6

\* Distinct keeps each member once.
LEMMA DistinctFacts ==
  ASSUME NEW S, NEW s \in Seq(S)
  PROVE  /\ Distinct(s) \in Seq(S)
         /\ ToSet(Distinct(s)) = ToSet(s)
         /\ Len(Distinct(s)) = Cardinality(ToSet(s))
         /\ Len(Distinct(s)) <= Len(s)
<1> DEFINE I == {i \in DOMAIN s : \A j \in 1..i - 1 : s[j] # s[i]}
           at == [i \in I |-> s[i]]
<1>1. Distinct(s) = Kept(s, I) /\ I \in SUBSET (DOMAIN s)
  BY DEF Distinct
<1>2. DOMAIN s = 1..Len(s) /\ Len(s) \in Nat
  OBVIOUS
<1>3. ASSUME NEW x \in ToSet(s) PROVE \E i \in I : s[i] = x
  <2> DEFINE T == {i \in DOMAIN s : s[i] = x}
  <2>1. T # {} /\ T \in SUBSET Nat
    BY <1>2 DEF ToSet
  <2>2. PICK i \in T : \A j \in T : i <= j
    <3> HIDE DEF T
    <3>1. QED
      BY <2>1, LeastNatural
  <2>3. i \in DOMAIN s /\ s[i] = x /\ \A j \in DOMAIN s : s[j] = x => i <= j
    BY <2>2
  <2>4. \A j \in 1..i - 1 : s[j] # s[i]
    BY <1>2, <2>3
  <2>5. QED
    BY <2>3, <2>4
<1>4. ASSUME NEW a \in I, NEW b \in I, s[a] = s[b] PROVE a = b
  <2>1. a \in Nat /\ b \in Nat /\ a >= 1 /\ b >= 1
    BY <1>2
  <2>2. ~(a < b)
    BY <1>4, <2>1
  <2>3. ~(b < a)
    BY <1>4, <2>1
  <2>4. QED
    BY <2>1, <2>2, <2>3
<1>5. {s[i] : i \in I} = ToSet(s)
  BY <1>3 DEF ToSet
<1> HIDE DEF I
<1>6. at \in Bijection(I, ToSet(s))
  <2>1. at \in [I -> ToSet(s)]
    BY <1>5
  <2>2. \A a, b \in I : at[a] = at[b] => a = b
    BY <1>4
  <2>3. \A x \in ToSet(s) : \E i \in I : at[i] = x
    BY <1>3
  <2> HIDE DEF at
  <2>4. at \in Injection(I, ToSet(s))
    BY <2>1, <2>2 DEF Injection, IsInjective
  <2>5. at \in Surjection(I, ToSet(s))
    BY <2>1, <2>3 DEF Surjection
  <2>6. QED
    BY <2>4, <2>5 DEF Bijection
<1>7. /\ Kept(s, I) \in Seq(S) /\ IsFiniteSet(I) /\ Len(Kept(s, I)) = Cardinality(I)
      /\ ToSet(Kept(s, I)) = {s[i] : i \in I}
  BY <1>1, KeptFacts
<1>8. Cardinality(ToSet(s)) = Cardinality(I)
  <2>1. ExistsBijection(I, ToSet(s))
    BY <1>6 DEF ExistsBijection
  <2>2. QED
    BY <1>7, <2>1, FS_Bijection
<1>9. Cardinality(I) <= Len(s)
  <2>1. IsFiniteSet(1..Len(s)) /\ Cardinality(1..Len(s)) = Len(s)
    <3>1. 1 \in Int /\ Len(s) \in Int
      BY <1>2
    <3>2. IsFiniteSet(1..Len(s)) /\ Cardinality(1..Len(s)) = IF 1 > Len(s) THEN 0 ELSE Len(s) - 1 + 1
      BY <3>1, FS_Interval
    <3>3. QED
      BY <1>2, <3>2
  <2>2. I \in SUBSET (1..Len(s))
    BY <1>1, <1>2
  <2>3. QED
    BY <2>1, <2>2, FS_Subset
<1>10. QED
  BY <1>1, <1>5, <1>7, <1>8, <1>9

\* Distinct of what is distinct is as long.
LEMMA DistinctTwice ==
  ASSUME NEW S, NEW s \in Seq(S)
  PROVE  /\ Distinct(Distinct(s)) \in Seq(S)
         /\ ToSet(Distinct(Distinct(s))) = ToSet(s)
         /\ Len(Distinct(Distinct(s))) = Len(Distinct(s))
<1>1. /\ Distinct(s) \in Seq(S) /\ ToSet(Distinct(s)) = ToSet(s)
      /\ Len(Distinct(s)) = Cardinality(ToSet(s))
  BY DistinctFacts
<1>2. /\ Distinct(Distinct(s)) \in Seq(S) /\ ToSet(Distinct(Distinct(s))) = ToSet(Distinct(s))
      /\ Len(Distinct(Distinct(s))) = Cardinality(ToSet(Distinct(s)))
  BY <1>1, DistinctFacts
<1>3. QED
  BY <1>1, <1>2

\* The addresses in lower case.
Canonical == {a \in DOMAIN Lower : Lower[a] = a}

\* Normalised keeps the positions, and what is in lower case already.
LEMMA NormalisedFacts ==
  ASSUME NEW s \in Seq(DOMAIN Lower)
  PROVE  /\ Normalised(s) \in Seq(Canonical) /\ Len(Normalised(s)) = Len(s)
         /\ s \in Seq(Canonical) => Normalised(s) = s
<1>1. /\ Len(s) \in Nat /\ DOMAIN s = 1..Len(s) /\ s = [i \in 1..Len(s) |-> s[i]]
      /\ \A i \in 1..Len(s) : s[i] \in DOMAIN Lower
  OBVIOUS
<1>2. \A i \in 1..Len(s) : Lower[s[i]] \in Canonical
  BY <1>1, RecipientsAssumption DEF Canonical
<1>3. Normalised(s) \in [1..Len(s) -> Canonical]
  BY <1>1, <1>2 DEF Normalised
<1>4. Normalised(s) \in Seq(Canonical) /\ Len(Normalised(s)) = Len(s)
  BY <1>1, <1>3
<1>5. ASSUME s \in Seq(Canonical) PROVE Normalised(s) = s
  <2>1. \A i \in 1..Len(s) : Lower[s[i]] = s[i]
    BY <1>1, <1>5 DEF Canonical
  <2>2. QED
    BY <1>1, <2>1 DEF Normalised
<1>6. QED
  BY <1>4, <1>5

\* The function FlattenSeq is defined by.
IsFlattened(seqs, f) ==
    f = [i \in 1..Len(seqs) |-> IF i = 1 THEN seqs[i] ELSE f[i - 1] \o seqs[i]]

\* That function exists, too.
LEMMA FlattenIsDefined ==
  ASSUME NEW seqs, Len(seqs) \in Nat, Len(seqs) # 0
  PROVE  \E f : IsFlattened(seqs, f) /\ FlattenSeq(seqs) = f[Len(seqs)]
<1> DEFINE Up(m, f) == f = [i \in 1..m |-> IF i = 1 THEN seqs[i] ELSE f[i - 1] \o seqs[i]]
           T == {m \in Nat : \E f : Up(m, f)}
<1>1. 0 \in T
  <2>1. Up(0, [i \in 1..0 |-> 0])
    OBVIOUS
  <2>2. QED
    BY <2>1
<1>2. ASSUME NEW m \in 1..Len(seqs), m - 1 \in T PROVE m \in T
  <2>1. PICK f : Up(m - 1, f)
    BY <1>2
  <2> DEFINE g == [i \in 1..m |-> IF i < m THEN f[i]
                     ELSE IF i = 1 THEN seqs[i] ELSE f[i - 1] \o seqs[i]]
  <2>2. ASSUME NEW i \in 1..m
        PROVE  g[i] = IF i = 1 THEN seqs[i] ELSE g[i - 1] \o seqs[i]
    <3>1. i # 1 => i - 1 \in 1..m /\ i - 1 < m /\ g[i - 1] = f[i - 1]
      BY <1>2
    <3>2. CASE i < m
      <4>1. i \in 1..m - 1
        BY <3>2
      <4>2. g[i] = f[i]
        BY <3>2
      <4> HIDE DEF g
      <4>3. QED
        BY <2>1, <3>1, <4>1, <4>2
    <3>3. CASE ~(i < m)
      <4>1. g[i] = IF i = 1 THEN seqs[i] ELSE f[i - 1] \o seqs[i]
        BY <3>3
      <4> HIDE DEF g
      <4>2. QED
        BY <3>1, <4>1
    <3>4. QED
      BY <3>2, <3>3
  <2>3. Up(m, g)
    <3>1. g = [i \in 1..m |-> g[i]]
      OBVIOUS
    <3> HIDE DEF g
    <3>2. QED
      BY <2>2, <3>1
  <2> HIDE DEF g, Up
  <2>4. QED
    BY <1>2, <2>3
<1>3. Len(seqs) \in T
  <2> HIDE DEF T
  <2>1. 0..Len(seqs) \subseteq T
    BY <1>1, <1>2, UpTo
  <2>2. QED
    BY <2>1
<1>4. PICK f : IsFlattened(seqs, f)
  BY <1>3 DEF IsFlattened
<1> DEFINE k == CHOOSE g : IsFlattened(seqs, g)
<1>5. IsFlattened(seqs, k)
  BY <1>4
<1>6. FlattenSeq(seqs) = k[Len(seqs)]
  BY DEF FlattenSeq, IsFlattened
<1> HIDE DEF k
<1>7. QED
  BY <1>5, <1>6

\* The concatenation of sequences is one.
LEMMA FlattenFacts ==
  ASSUME NEW S, NEW seqs \in Seq(Seq(S)) PROVE FlattenSeq(seqs) \in Seq(S)
<1>1. Len(seqs) \in Nat /\ \A i \in 1..Len(seqs) : seqs[i] \in Seq(S)
  OBVIOUS
<1>2. CASE Len(seqs) = 0
  <2>1. seqs = <<>> /\ <<>> \in Seq(S)
    <3>1. seqs # <<>> => Len(seqs) \in Nat \ {0}
      BY EmptySeq
    <3>2. QED
      BY <1>2, <3>1
  <2>2. FlattenSeq(seqs) = seqs
    BY <1>2 DEF FlattenSeq
  <2>3. QED
    BY <2>1, <2>2
<1>3. CASE Len(seqs) # 0
  <2>1. PICK f : IsFlattened(seqs, f) /\ FlattenSeq(seqs) = f[Len(seqs)]
    BY <1>1, <1>3, FlattenIsDefined
  <2> DEFINE T == {n \in 0..Len(seqs) : n # 0 => f[n] \in Seq(S)}
  <2>2. 0 \in T
    BY <1>1
  <2>3. ASSUME NEW n \in 1..Len(seqs), n - 1 \in T PROVE n \in T
    <3>1. f[n] = IF n = 1 THEN seqs[n] ELSE f[n - 1] \o seqs[n]
      BY <2>1 DEF IsFlattened
    <3>2. n # 1 => f[n - 1] \in Seq(S)
      BY <2>3
    <3>3. f[n] \in Seq(S)
      BY <1>1, <3>1, <3>2
    <3>4. QED
      BY <3>3
  <2>4. Len(seqs) \in T
    <3> HIDE DEF T
    <3>1. 0..Len(seqs) \subseteq T
      BY <1>1, <2>2, <2>3, UpTo
    <3>2. QED
      BY <1>1, <3>1
  <2>5. QED
    BY <1>3, <2>1, <2>4
<1>4. QED
  BY <1>2, <1>3

\* What both sides read in a text: addresses in lower case, and a count of the
\* duplicates that is exact (parse-recipients.ts:80).
LEMMA ParseFacts ==
  ASSUME NEW t \in Texts \cup Lists
  PROVE  /\ Parsed[t] # None
         /\ Parsed[t].emails \in Seq(Canonical)
         /\ Parsed[t].totalFound \in Nat
         /\ Len(Parsed[t].emails) \in Nat
         /\ Parsed[t].duplicatesRemoved = Parsed[t].totalFound - Len(Parsed[t].emails)
<1> DEFINE founds == [i \in DOMAIN t |-> t[i].found]
           found  == FlattenSeq(founds)
<1>1. t \in Seq([found : Seq(DOMAIN Lower), header : BOOLEAN]) /\ Parsed[t] # None
  BY SubmissionAssumption DEF Readable
<1>2. founds \in Seq(Seq(DOMAIN Lower))
  <2> DEFINE Line == [found : Seq(DOMAIN Lower), header : BOOLEAN]
             Q == Seq(DOMAIN Lower)
  <2>1. \A line \in Line : line.found \in Q
    OBVIOUS
  <2>2. t \in Seq(Line)
    BY <1>1
  <2> HIDE DEF Line, Q
  <2>3. /\ Len(t) \in Nat /\ DOMAIN t = 1..Len(t)
        /\ \A i \in 1..Len(t) : t[i] \in Line
    BY <2>2
  <2>4. founds \in [1..Len(t) -> Q]
    BY <2>1, <2>3
  <2> HIDE DEF founds
  <2>5. founds \in Seq(Q)
    BY <2>3, <2>4, FunctionIsSeq
  <2>6. QED
    BY <2>5 DEF Q
<1> HIDE DEF founds
<1>3. found \in Seq(DOMAIN Lower)
  BY <1>2, FlattenFacts
<1> HIDE DEF found
<1>4. Normalised(found) \in Seq(Canonical) /\ Len(found) \in Nat
  BY <1>3, NormalisedFacts
<1>5. Distinct(Normalised(found)) \in Seq(Canonical)
  BY <1>4, DistinctFacts
<1>6. Parsed[t] = parseRecipients(t)
  BY DEF Parsed
<1>7. /\ parseRecipients(t).emails = Distinct(Normalised(found))
      /\ parseRecipients(t).totalFound = Len(found)
      /\ parseRecipients(t).duplicatesRemoved = Len(found) - Len(Distinct(Normalised(found)))
  BY DEF parseRecipients, found, founds
<1>8. Len(Distinct(Normalised(found))) \in Nat
  BY <1>5
<1>9. QED
  BY <1>1, <1>4, <1>5, <1>6, <1>7, <1>8

\* The merge of two lists in lower case has the members of both, each once, and
\* counts what it drops (mergeRecipients, parse-recipients.ts:121).
LEMMA MergeFacts ==
  ASSUME NEW a \in Seq(Canonical), NEW b \in Seq(Canonical)
  PROVE  LET merged == mergeRecipients(a, b) IN
         /\ merged.emails \in Seq(Canonical) /\ Len(merged.emails) \in Nat
         /\ ToSet(merged.emails) = ToSet(a) \cup ToSet(b)
         /\ ToSet(Distinct(merged.emails)) = ToSet(a) \cup ToSet(b)
         /\ Len(Distinct(merged.emails)) = Len(merged.emails)
         /\ merged.duplicatesRemoved = Len(a) + Len(b) - Len(merged.emails)
<1> DEFINE all == a \o b
<1>1. /\ all \in Seq(Canonical) /\ Len(all) = Len(a) + Len(b)
      /\ ToSet(all) = ToSet(a) \cup ToSet(b)
  BY ConcatProperties, Members
<1> HIDE DEF all
<1>2. all \in Seq(DOMAIN Lower)
  BY <1>1 DEF Canonical
<1>3. Normalised(all) = all
  BY <1>1, <1>2, NormalisedFacts
<1>4. /\ Distinct(all) \in Seq(Canonical) /\ ToSet(Distinct(all)) = ToSet(all)
      /\ ToSet(Distinct(Distinct(all))) = ToSet(all)
      /\ Len(Distinct(Distinct(all))) = Len(Distinct(all))
  BY <1>1, DistinctFacts, DistinctTwice
<1>5. /\ mergeRecipients(a, b).emails = Distinct(all)
      /\ mergeRecipients(a, b).duplicatesRemoved = Len(all) - Len(Distinct(all))
  BY <1>3 DEF mergeRecipients, all
<1>6. Len(Distinct(all)) \in Nat
  BY <1>4
<1>7. QED
  BY <1>1, <1>4, <1>5, <1>6

------------------------------------------------------------------------------
(* Types. *)

\* What the screen said, what the database keeps, and what is answered.
Screen   == [recipients : SUBSET Canonical, startAt : Times \cup {None}]
Campaign == [rows : Seq(Canonical), totalRecipients : Nat, attachments : Seq(Files),
             startAt : Times \cup {None}]
Report   == [recipientsAccepted : Nat, duplicatesRemoved : Int]

\* The types TypeOK leaves out; the addresses in the form are in lower case.
DataOK ==
    /\ typed \in Seq(Canonical)
    /\ payload \in [Requests -> Form \cup {None}]
    /\ \A q \in Requests : payload[q] # None => payload[q].recipients \in Seq(Canonical)
    /\ shown \in [Requests -> Screen \cup {None}]
    /\ campaign \in [Requests -> Campaign \cup {None}]
    /\ answer \in [Requests -> Report \cup {None}]
TypedInv == TypeOK /\ DataOK

\* A sequence without one of its elements is one.
LEMMA RemoveAtFacts ==
  ASSUME NEW S, NEW s \in Seq(S), NEW i \in DOMAIN s PROVE RemoveAt(s, i) \in Seq(S)
<1>1. Len(s) \in Nat /\ DOMAIN s = 1..Len(s) /\ \A k \in 1..Len(s) : s[k] \in S
  OBVIOUS
<1>2. 1 \in Int /\ i - 1 \in Int /\ i + 1 \in Int /\ Len(s) \in Int
  BY <1>1
<1>3. SubSeq(s, 1, i - 1) \in Seq(S)
  <2>1. \A k \in 1..i - 1 : s[k] \in S
    BY <1>1
  <2>2. QED
    BY <1>2, <2>1, SubSeqProperties
<1>4. SubSeq(s, i + 1, Len(s)) \in Seq(S)
  <2>1. \A k \in i + 1..Len(s) : s[k] \in S
    BY <1>1
  <2>2. QED
    BY <1>2, <2>1, SubSeqProperties
<1>5. QED
  BY <1>3, <1>4 DEF RemoveAt

\* AttachmentBar.add keeps the attachments a sequence of files.
LEMMA AttachFacts ==
  ASSUME TypeOK, NEW picked \in Seq(Files), Attach(picked)
  PROVE  attachments' \in Seq(Files)
<1> DEFINE room == MaxFiles - Len(attachments)
           n == IF Len(picked) < room THEN Len(picked) ELSE room
<1>1. attachments \in Seq(Files) /\ Len(attachments) \in Nat /\ Len(picked) \in Nat
  BY DEF TypeOK
<1>2. room \in Int /\ room > 0
  BY <1>1, SubmissionAssumption DEF Attach
<1> HIDE DEF room
<1>3. n \in 0..Len(picked)
  BY <1>1, <1>2
<1> HIDE DEF n
<1>4. SubSeq(picked, 1, n) \in Seq(Files)
  <2>1. \A k \in 1..n : picked[k] \in Files
    BY <1>1, <1>3
  <2>2. QED
    BY <1>3, <2>1, SubSeqProperties
<1>5. attachments' = attachments \o SubSeq(picked, 1, n)
  BY DEF Attach, n, room
<1>6. QED
  BY <1>1, <1>4, <1>5

\* All files at hand, in some order.
LEMMA SetToSeqFacts ==
  ASSUME IsFiniteSet(Files) PROVE SetToSeq(Files) \in Seq(Files)
<1> DEFINE n == Cardinality(Files)
           s == CHOOSE f \in [1..n -> Files] : IsInjective(f)
<1>1. n \in Nat /\ ExistsBijection(1..n, Files)
  BY FS_CardinalityType
<1>2. \E f \in [1..n -> Files] : IsInjective(f)
  BY <1>1 DEF ExistsBijection, Bijection, Injection
<1> HIDE DEF n
<1>3. s \in [1..n -> Files]
  BY <1>2
<1>4. SetToSeq(Files) = s
  BY DEF SetToSeq, n
<1> HIDE DEF s
<1>5. QED
  BY <1>1, <1>3, <1>4, FunctionIsSeq

\* What the form's own steps leave alone.
beyondForm == <<phase, inFlight, payload, shown, told, eager, apiVars>>
\* The steps of the form.
FormStep == EditStep \/ ListRead \/ ListUnreadable

\* The steps of the form keep its types.
LEMMA FormStepFacts ==
  ASSUME IsFiniteSet(Files), TypedInv, FormStep
  PROVE  /\ UNCHANGED beyondForm
         /\ typed' \in Seq(Canonical) /\ attachments' \in Seq(Files)
         /\ startAt' \in Times \cup {None}
         /\ {reading', leadFile'} \subseteq Lists \cup {None}
         /\ IF leadFile' = None THEN leadParsed' = None ELSE leadParsed' = Parsed[leadFile']
         /\ popover' \in BOOLEAN /\ draft' \in Times \cup {None}
         /\ edits' \in 0..MaxEdits
<1> DEFINE Goal == /\ UNCHANGED beyondForm
                   /\ typed' \in Seq(Canonical) /\ attachments' \in Seq(Files)
                   /\ startAt' \in Times \cup {None}
                   /\ {reading', leadFile'} \subseteq Lists \cup {None}
                   /\ IF leadFile' = None THEN leadParsed' = None
                      ELSE leadParsed' = Parsed[leadFile']
                   /\ popover' \in BOOLEAN /\ draft' \in Times \cup {None}
                   /\ edits' \in 0..MaxEdits
<1>1. /\ typed \in Seq(Canonical) /\ attachments \in Seq(Files) /\ startAt \in Times \cup {None}
      /\ {reading, leadFile} \subseteq Lists \cup {None}
      /\ IF leadFile = None THEN leadParsed = None ELSE leadParsed = Parsed[leadFile]
      /\ popover \in BOOLEAN /\ draft \in Times \cup {None} /\ edits \in 0..MaxEdits
      /\ MaxEdits \in Nat
  BY SubmissionAssumption DEF TypedInv, TypeOK, DataOK
<1>2. Edit => UNCHANGED beyondForm /\ edits' \in 0..MaxEdits
  BY <1>1 DEF Edit, beyondForm
<1>3. ASSUME NEW t \in Texts, AddChips(t) PROVE Goal
  <2> DEFINE emails == Parsed[t].emails
             I == {i \in DOMAIN emails : emails[i] \notin ToSet(typed)}
  <2>1. emails \in Seq(Canonical)
    BY ParseFacts
  <2>2. I \in SUBSET (DOMAIN emails)
    OBVIOUS
  <2> HIDE DEF emails, I
  <2>3. Kept(emails, I) \in Seq(Canonical)
    BY <2>1, <2>2, KeptFacts
  <2>4. typed' = typed \o Kept(emails, I)
    BY <1>3 DEF AddChips, emails, I
  <2>5. typed' \in Seq(Canonical)
    BY <1>1, <2>3, <2>4
  <2>6. QED
    BY <1>1, <1>2, <1>3, <2>5 DEF AddChips, listVars, popVars
<1>4. ASSUME NEW i \in DOMAIN typed, RemoveChip(i) PROVE Goal
  <2>1. typed' \in Seq(Canonical)
    BY <1>1, <1>4, RemoveAtFacts DEF RemoveChip
  <2>2. QED
    BY <1>1, <1>2, <1>4, <2>1 DEF RemoveChip, listVars, popVars
<1>5. ASSUME NEW l \in Lists, PickList(l) PROVE Goal
  BY <1>1, <1>2, <1>5 DEF PickList, formVars, popVars
<1>6. RemoveList => Goal
  BY <1>1, <1>2 DEF RemoveList, formVars, popVars
<1>7. ASSUME NEW picked \in Seq(Files), Attach(picked) PROVE Goal
  <2>1. attachments' \in Seq(Files)
    BY <1>7, AttachFacts DEF TypedInv
  <2>2. QED
    BY <1>1, <1>2, <1>7, <2>1 DEF Attach, listVars, popVars
<1>8. ASSUME NEW i \in DOMAIN attachments, Detach(i) PROVE Goal
  <2>1. attachments' \in Seq(Files)
    BY <1>1, <1>8, RemoveAtFacts DEF Detach
  <2>2. QED
    BY <1>1, <1>2, <1>8, <2>1 DEF Detach, listVars, popVars
<1>9. OpenPopover => Goal
  BY <1>1, <1>2 DEF OpenPopover, formVars, listVars
<1>10. Dismiss \/ Done \/ SendImmediately => Goal
  BY <1>1 DEF Dismiss, Done, SendImmediately, ClosePopover, InPopover, listVars, beyondForm
<1>11. ASSUME NEW t \in Times, PickTime(t) PROVE Goal
  BY <1>1, <1>11 DEF PickTime, InPopover, listVars, beyondForm
<1>12. ListRead \/ ListUnreadable => Goal
  BY <1>1 DEF ListRead, ListUnreadable, NoEdit, formVars, popVars, beyondForm
<1>13. \A f \in Files : <<f>> \in Seq(Files)
  OBVIOUS
<1> HIDE DEF Goal
<1>14. Goal
  BY <1>3, <1>4, <1>5, <1>6, <1>7, <1>8, <1>9, <1>10, <1>11, <1>12, <1>13, SetToSeqFacts
     DEF FormStep, EditStep
<1>15. QED
  BY <1>14 DEF Goal

\* What the API reads in a form it has received.
LEMMA RequestFacts ==
  ASSUME TypedInv, NEW q \in Requests, payload[q] # None
  PROVE  /\ payload[q] \in Form /\ payload[q].recipients \in Seq(Canonical)
         /\ Len(payload[q].recipients) \in Nat
         /\ FromFile(q).emails \in Seq(Canonical) /\ Len(FromFile(q).emails) \in Nat
         /\ FromFile(q).totalFound \in Nat
         /\ FromFile(q).duplicatesRemoved = FromFile(q).totalFound - Len(FromFile(q).emails)
         /\ Merged(q).emails \in Seq(Canonical) /\ Len(Merged(q).emails) \in Nat
         /\ ToSet(Distinct(Merged(q).emails)) =
              ToSet(payload[q].recipients) \cup ToSet(FromFile(q).emails)
         /\ Len(Distinct(Merged(q).emails)) = Len(Merged(q).emails)
         /\ Merged(q).duplicatesRemoved =
              Len(payload[q].recipients) + Len(FromFile(q).emails) - Len(Merged(q).emails)
<1>1. payload[q] \in Form /\ payload[q].recipients \in Seq(Canonical)
  BY DEF TypedInv, DataOK
<1>2. /\ FromFile(q).emails \in Seq(Canonical) /\ Len(FromFile(q).emails) \in Nat
      /\ FromFile(q).totalFound \in Nat
      /\ FromFile(q).duplicatesRemoved = FromFile(q).totalFound - Len(FromFile(q).emails)
  <2>1. CASE payload[q].leads = None
    <3>1. <<>> \in Seq(Canonical) /\ Len(<<>>) = 0
      OBVIOUS
    <3>2. /\ FromFile(q).emails = <<>> /\ FromFile(q).totalFound = 0
          /\ FromFile(q).duplicatesRemoved = 0
      BY <2>1 DEF FromFile
    <3>3. FromFile(q).emails \in Seq(Canonical) /\ Len(FromFile(q).emails) = 0
      BY <3>1, <3>2
    <3> DEFINE d == FromFile(q).duplicatesRemoved
               n == FromFile(q).totalFound
               l == Len(FromFile(q).emails)
    <3>4. d = 0 /\ n = 0 /\ l = 0
      BY <3>2, <3>3
    <3> HIDE DEF d, n, l
    <3>5. n \in Nat /\ l \in Nat /\ d = n - l
      BY <3>4
    <3>6. QED
      BY <3>3, <3>5 DEF d, n, l
  <2>2. CASE payload[q].leads # None
    <3>1. payload[q].leads \in Lists
      BY <1>1, <2>2 DEF Form
    <3>2. QED
      BY <2>2, <3>1, ParseFacts DEF FromFile
  <2>3. QED
    BY <2>1, <2>2
<1>3. Len(payload[q].recipients) \in Nat
  BY <1>1
<1> DEFINE a == payload[q].recipients
           b == FromFile(q).emails
<1>4. Merged(q) = mergeRecipients(a, b)
  BY DEF Merged
<1>5. a \in Seq(Canonical) /\ b \in Seq(Canonical)
  BY <1>1, <1>2
<1> HIDE DEF a, b
<1>6. /\ Merged(q).emails \in Seq(Canonical) /\ Len(Merged(q).emails) \in Nat
      /\ ToSet(Distinct(Merged(q).emails)) = ToSet(a) \cup ToSet(b)
      /\ Len(Distinct(Merged(q).emails)) = Len(Merged(q).emails)
      /\ Merged(q).duplicatesRemoved = Len(a) + Len(b) - Len(Merged(q).emails)
  <2> DEFINE m == mergeRecipients(a, b)
  <2>1. /\ m.emails \in Seq(Canonical) /\ Len(m.emails) \in Nat
        /\ ToSet(Distinct(m.emails)) = ToSet(a) \cup ToSet(b)
        /\ Len(Distinct(m.emails)) = Len(m.emails)
        /\ m.duplicatesRemoved = Len(a) + Len(b) - Len(m.emails)
    BY <1>5, MergeFacts
  <2>2. Merged(q) = m
    BY <1>4
  <2> HIDE DEF m
  <2>3. QED
    BY <2>1, <2>2
<1>7. QED
  BY <1>1, <1>2, <1>3, <1>6 DEF a, b

\* What is accepted and what was dropped, twice, make up all that was found.
LEMMA ReportAddsUp ==
  ASSUME TypedInv, NEW q \in Requests, payload[q] # None
  PROVE  /\ FromFile(q).duplicatesRemoved + Merged(q).duplicatesRemoved \in Int
         /\ Len(Merged(q).emails)
              + (FromFile(q).duplicatesRemoved + Merged(q).duplicatesRemoved)
              = Len(payload[q].recipients) + FromFile(q).totalFound
<1> DEFINE entered == Len(payload[q].recipients)
           found   == FromFile(q).totalFound
           listed  == Len(FromFile(q).emails)
           kept    == Len(Merged(q).emails)
           first   == FromFile(q).duplicatesRemoved
           second  == Merged(q).duplicatesRemoved
<1>1. /\ entered \in Nat /\ found \in Nat /\ listed \in Nat /\ kept \in Nat
      /\ first = found - listed /\ second = entered + listed - kept
  BY RequestFacts
<1> HIDE DEF entered, found, listed, kept, first, second
<1>2. first + second \in Int /\ kept + (first + second) = entered + found
  BY <1>1
<1>3. QED
  BY <1>2 DEF entered, found, listed, kept, first, second

\* Nothing is typed, sent or stored yet.
LEMMA TypedInit == Init => TypedInv
<1> SUFFICES ASSUME Init PROVE TypedInv
  OBVIOUS
<1>1. <<>> \in Seq(Files) /\ <<>> \in Seq(Canonical)
  OBVIOUS
<1>2. 0 \in 0..MaxEdits /\ 0 \in 0..MaxCrashes
  BY SubmissionAssumption
<1>3. TypeOK
  BY <1>1, <1>2 DEF Init, TypeOK
<1>4. DataOK
  BY <1>1 DEF Init, DataOK
<1>5. QED
  BY <1>3, <1>4 DEF TypedInv

\* What the screen says when Send is pressed is the typed addresses and those of the
\* list; all of it is in the form.
LEMMA SubmitFacts ==
  ASSUME TypedInv, NEW q \in Requests, Submit(q)
  PROVE  /\ payload[q] = None /\ phase \in {"editing", "scheduled"}
         /\ \E form \in Form, said \in Screen :
              /\ form # None /\ form.recipients \in Seq(Canonical)
              /\ said.recipients = ToSet(form.recipients)
                   \cup (IF form.leads = None THEN {} ELSE ToSet(Parsed[form.leads].emails))
              /\ said.startAt = form.startAt
              /\ payload' = [payload EXCEPT ![q] = form]
              /\ shown' = [shown EXCEPT ![q] = said]
<1> DEFINE form == [recipients |-> typed, leads |-> leadFile, attachments |-> attachments,
                    startAt |-> startAt]
           said == [recipients |-> Detected, startAt |-> startAt]
<1>1. /\ typed \in Seq(Canonical) /\ leadFile \in Lists \cup {None}
      /\ attachments \in Seq(Files) /\ startAt \in Times \cup {None}
      /\ IF leadFile = None THEN leadParsed = None ELSE leadParsed = Parsed[leadFile]
  BY DEF TypedInv, TypeOK, DataOK
<1>2. typed \in Seq(DOMAIN Lower)
  BY <1>1 DEF Canonical
<1>3. form \in Form /\ form # None
  <2>1. form \in Form
    BY <1>1, <1>2 DEF Form
  <2> HIDE DEF form
  <2>2. QED
    BY <2>1, SubmissionAssumption
<1>4. /\ Detected = ToSet(typed) \cup IF leadFile = None THEN {} ELSE ToSet(Parsed[leadFile].emails)
      /\ Detected \subseteq Canonical
  <2>1. ToSet(typed) \subseteq Canonical
    BY <1>1, Members
  <2>2. CASE leadFile = None
    BY <1>1, <2>1, <2>2 DEF Detected
  <2>3. CASE leadFile # None
    <3>1. Parsed[leadFile] # None /\ Parsed[leadFile].emails \in Seq(Canonical)
      BY <1>1, <2>3, ParseFacts
    <3>2. ToSet(Parsed[leadFile].emails) \subseteq Canonical
      BY <3>1, Members
    <3>3. QED
      BY <1>1, <2>1, <2>3, <3>1, <3>2 DEF Detected
  <2>4. QED
    BY <2>2, <2>3
<1>5. said \in Screen
  BY <1>1, <1>4 DEF Screen
<1>6. /\ payload[q] = None /\ phase \in {"editing", "scheduled"}
      /\ payload' = [payload EXCEPT ![q] = form] /\ shown' = [shown EXCEPT ![q] = said]
  BY DEF Submit, CanSend
<1>7. /\ form.recipients = typed /\ form.leads = leadFile /\ form.startAt = startAt
      /\ said.recipients = Detected /\ said.startAt = startAt
  OBVIOUS
<1> HIDE DEF form, said
<1>8. QED
  BY <1>1, <1>3, <1>4, <1>5, <1>6, <1>7

\* The steps of a request move its stage, and the stages of others stay.
LEMMA StageFacts ==
  ASSUME TypedInv, NEW q \in Requests, RequestStep(q)
  PROVE  /\ UNCHANGED <<clientVars, crashes>>
         /\ stage[q] \in Active /\ payload[q] # None
         /\ stage' \in [Requests -> Active \cup {"unsent", "answered", "dead"}]
         /\ stage'[q] \in (Active \ {"sent"}) \cup {"answered"}
         /\ \A r \in Requests : r # q => stage'[r] = stage[r]
<1>1. UNCHANGED <<clientVars, crashes>>
  BY DEF RequestStep, Upload, Refuse, ReadLeads, Validate, Commit, Enqueue, Respond
<1>2. \E from \in Active, to \in (Active \ {"sent"}) \cup {"answered"} : Advance(q, from, to)
  <2>1. stage = [stage EXCEPT ![q] = stage[q]]
    BY DEF TypedInv, TypeOK
  <2>2. CASE Enqueue(q)
    BY <2>1, <2>2 DEF Enqueue, Advance, Fail, Active
  <2>3. CASE ~Enqueue(q)
    BY <2>3 DEF RequestStep, Upload, Refuse, ReadLeads, Validate, Commit, Respond, Fail, Active
  <2>4. QED
    BY <2>2, <2>3
<1>3. PICK from \in Active, to \in (Active \ {"sent"}) \cup {"answered"} :
        stage[q] = from /\ stage' = [stage EXCEPT ![q] = to]
  BY <1>2 DEF Advance
<1>4. stage \in [Requests -> Active \cup {"unsent", "answered", "dead"}]
  BY DEF TypedInv, TypeOK
<1>5. stage[q] # "unsent"
  BY <1>3 DEF Active
<1>6. payload[q] # None
  BY <1>5 DEF TypedInv, TypeOK
<1>7. QED
  BY <1>1, <1>3, <1>4, <1>6

\* The campaign Commit writes, the files Upload stores and ReadLeads removes, the
\* report of Respond, all have their types.
LEMMA RequestStepFacts ==
  ASSUME TypedInv, NEW q \in Requests, RequestStep(q)
  PROVE  /\ disk' \subseteq Requests \X (Files \cup {"leads"}) /\ warned' \subseteq Requests
         /\ campaign' \in [Requests -> Campaign \cup {None}]
         /\ answer' \in [Requests -> Report \cup {None}]
<1>1. /\ disk \subseteq Requests \X (Files \cup {"leads"}) /\ warned \subseteq Requests
      /\ campaign \in [Requests -> Campaign \cup {None}]
      /\ answer \in [Requests -> Report \cup {None}]
  BY DEF TypedInv, TypeOK, DataOK
<1>2. payload[q] \in Form
  BY StageFacts, RequestFacts
<1>3. CASE Upload(q)
  <2>1. ToSet(payload[q].attachments) \subseteq Files
    BY <1>2, Members DEF Form
  <2>2. QED
    BY <1>1, <1>3, <2>1 DEF Upload
<1>4. CASE Commit(q)
  <2> DEFINE row(overdue) == [rows |-> Distinct(Merged(q).emails),
                       totalRecipients |-> Len(Merged(q).emails),
                       attachments |-> payload[q].attachments,
                       startAt |-> IF overdue THEN None ELSE payload[q].startAt]
  <2>1. Distinct(Merged(q).emails) \in Seq(Canonical) /\ Len(Merged(q).emails) \in Nat
    BY StageFacts, RequestFacts, DistinctFacts
  <2>2. payload[q].attachments \in Seq(Files) /\ payload[q].startAt \in Times \cup {None}
    BY <1>2 DEF Form
  <2>3. \A overdue \in BOOLEAN : row(overdue) \in Campaign
    BY <2>1, <2>2 DEF Campaign
  <2>4. \/ \E overdue \in BOOLEAN : campaign' = [campaign EXCEPT ![q] = row(overdue)]
        \/ UNCHANGED campaign
    BY <1>4 DEF Commit
  <2>5. UNCHANGED <<disk, answer, warned>>
    BY <1>4 DEF Commit
  <2> HIDE DEF row
  <2>6. QED
    BY <1>1, <2>3, <2>4, <2>5
<1>5. CASE Respond(q)
  <2> DEFINE report == [recipientsAccepted |-> Len(Merged(q).emails),
                        duplicatesRemoved |->
                           FromFile(q).duplicatesRemoved + Merged(q).duplicatesRemoved]
  <2>1. /\ Len(Merged(q).emails) \in Nat
        /\ FromFile(q).duplicatesRemoved + Merged(q).duplicatesRemoved \in Int
    BY StageFacts, RequestFacts, ReportAddsUp
  <2>2. report \in Report
    BY <2>1 DEF Report
  <2>3. answer' = [answer EXCEPT ![q] = report] \/ UNCHANGED answer
    BY <1>5 DEF Respond
  <2>4. UNCHANGED <<disk, campaign, warned>>
    BY <1>5 DEF Respond
  <2> HIDE DEF report
  <2>5. QED
    BY <1>1, <2>2, <2>3, <2>4
<1>6. CASE Refuse(q) \/ ReadLeads(q) \/ Validate(q) \/ Enqueue(q)
  <2>1. disk' \subseteq disk /\ warned' \subseteq Requests /\ UNCHANGED <<campaign, answer>>
    BY <1>1, <1>6 DEF Refuse, ReadLeads, Unlink, Validate, Enqueue
  <2>2. QED
    BY <1>1, <2>1
<1>7. QED
  BY <1>3, <1>4, <1>5, <1>6 DEF RequestStep

\* Every step keeps the types.
LEMMA TypedStep == IsFiniteSet(Files) /\ TypedInv /\ [Next]_vars => TypedInv'
<1> SUFFICES ASSUME IsFiniteSet(Files), TypedInv, [Next]_vars PROVE TypedInv'
  OBVIOUS
<1>1. TypeOK /\ DataOK
  BY DEF TypedInv
<1>2. CASE UNCHANGED vars
  BY <1>1, <1>2 DEF TypedInv, TypeOK, DataOK, vars, clientVars, apiVars, formVars, listVars,
     popVars
<1>3. CASE FormStep
  <2>1. /\ UNCHANGED <<phase, inFlight, payload, shown, told, eager>> /\ UNCHANGED apiVars
        /\ typed' \in Seq(Canonical) /\ attachments' \in Seq(Files)
        /\ startAt' \in Times \cup {None}
        /\ {reading', leadFile'} \subseteq Lists \cup {None}
        /\ IF leadFile' = None THEN leadParsed' = None ELSE leadParsed' = Parsed[leadFile']
        /\ popover' \in BOOLEAN /\ draft' \in Times \cup {None}
        /\ edits' \in 0..MaxEdits
    BY <1>3, FormStepFacts DEF beyondForm
  <2>2. TypeOK'
    BY <1>1, <2>1 DEF TypeOK, apiVars
  <2>3. DataOK'
    BY <1>1, <2>1 DEF DataOK, apiVars
  <2>4. QED
    BY <2>2, <2>3 DEF TypedInv
<1>4. ASSUME NEW q \in Requests, Submit(q) PROVE TypedInv'
  <2>1. PICK form \in Form, said \in Screen :
          /\ form # None /\ form.recipients \in Seq(Canonical)
          /\ payload' = [payload EXCEPT ![q] = form]
          /\ shown' = [shown EXCEPT ![q] = said]
    BY <1>4, SubmitFacts
  <2>2. /\ stage' = [stage EXCEPT ![q] = "sent"] /\ phase' = "pending" /\ inFlight' = q
        /\ eager' \in Nat
        /\ UNCHANGED <<formVars, listVars, popVars, edits, told, answer, disk, campaign, jobs,
                       crashes, warned>>
    BY <1>1, <1>4 DEF Submit, TypeOK
  <2>3. q # None
    BY SubmissionAssumption
  <2>4. /\ payload' \in [Requests -> Form \cup {None}]
        /\ \A r \in Requests : payload'[r] = IF r = q THEN form ELSE payload[r]
        /\ shown' \in [Requests -> Screen \cup {None}]
    BY <1>1, <2>1 DEF DataOK
  <2>5. /\ stage' \in [Requests -> Active \cup {"unsent", "answered", "dead"}]
        /\ \A r \in Requests : stage'[r] = IF r = q THEN "sent" ELSE stage[r]
    BY <1>1, <2>2 DEF TypeOK, Active
  <2>6. \A r \in Requests : payload'[r] = None <=> stage'[r] = "unsent"
    BY <1>1, <2>1, <2>4, <2>5 DEF TypeOK
  <2>7. TypeOK'
    BY <1>1, <2>2, <2>3, <2>5, <2>6 DEF TypeOK, formVars, listVars, popVars
  <2>8. DataOK'
    BY <1>1, <2>1, <2>2, <2>4 DEF DataOK, formVars
  <2>9. QED
    BY <2>7, <2>8 DEF TypedInv
<1>5. ASSUME NEW q \in Requests, NEW outcome \in {"created", "error"}, Settle(q, outcome)
      PROVE  TypedInv'
  <2>1. /\ inFlight' = None /\ phase' \in {"scheduled", "editing"}
        /\ told' = [told EXCEPT ![q] = outcome]
        /\ UNCHANGED <<formVars, listVars, popVars, edits, payload, shown, eager, apiVars>>
    BY <1>5 DEF Settle
  <2>2. TypeOK'
    BY <1>1, <2>1 DEF TypeOK, formVars, listVars, popVars, apiVars
  <2>3. DataOK'
    BY <1>1, <2>1 DEF DataOK, formVars, apiVars
  <2>4. QED
    BY <2>2, <2>3 DEF TypedInv
<1>6. CASE Navigate
  <2>1. /\ phase = "scheduled" /\ phase' = "left"
        /\ UNCHANGED <<formVars, listVars, popVars, inFlight, edits, payload, shown, told,
                       eager, apiVars>>
    BY <1>6 DEF Navigate
  <2>2. TypeOK'
    BY <1>1, <2>1 DEF TypeOK, formVars, listVars, popVars, apiVars
  <2>3. DataOK'
    BY <1>1, <2>1 DEF DataOK, formVars, apiVars
  <2>4. QED
    BY <2>2, <2>3 DEF TypedInv
<1>7. ASSUME NEW q \in Requests, RequestStep(q) PROVE TypedInv'
  <2>1. /\ UNCHANGED <<clientVars, crashes>>
        /\ stage[q] \in Active /\ payload[q] # None
        /\ stage' \in [Requests -> Active \cup {"unsent", "answered", "dead"}]
        /\ stage'[q] \in (Active \ {"sent"}) \cup {"answered"}
        /\ \A r \in Requests : r # q => stage'[r] = stage[r]
    BY <1>7, StageFacts
  <2>2. /\ disk' \subseteq Requests \X (Files \cup {"leads"}) /\ warned' \subseteq Requests
        /\ campaign' \in [Requests -> Campaign \cup {None}]
        /\ answer' \in [Requests -> Report \cup {None}]
    BY <1>7, RequestStepFacts
  <2>3. \A r \in Requests : payload'[r] = None <=> stage'[r] = "unsent"
    <3>1. stage'[q] # "unsent"
      BY <2>1 DEF Active
    <3>2. QED
      BY <1>1, <2>1, <3>1 DEF TypeOK, clientVars
  <2>4. TypeOK'
    BY <1>1, <2>1, <2>2, <2>3 DEF TypeOK, clientVars, formVars, listVars, popVars
  <2>5. DataOK'
    BY <1>1, <2>1, <2>2 DEF DataOK, clientVars, formVars
  <2>6. QED
    BY <2>4, <2>5 DEF TypedInv
<1>8. CASE ApiCrash
  <2>1. /\ crashes' \in 0..MaxCrashes
        /\ stage' = [q \in Requests |-> IF stage[q] \in Active THEN "dead" ELSE stage[q]]
        /\ UNCHANGED <<clientVars, answer, disk, campaign, jobs, warned>>
    BY <1>1, <1>8, SubmissionAssumption DEF ApiCrash, TypeOK
  <2>2. /\ stage' \in [Requests -> Active \cup {"unsent", "answered", "dead"}]
        /\ \A q \in Requests : stage'[q] = "unsent" <=> stage[q] = "unsent"
    BY <1>1, <2>1 DEF TypeOK, Active
  <2>3. TypeOK'
    BY <1>1, <2>1, <2>2 DEF TypeOK, clientVars, formVars, listVars, popVars
  <2>4. DataOK'
    BY <1>1, <2>1 DEF DataOK, clientVars, formVars
  <2>5. QED
    BY <2>3, <2>4 DEF TypedInv
<1>9. \A q \in Requests : Answered(q) \/ NetworkError(q) =>
          \E outcome \in {"created", "error"} : Settle(q, outcome)
  BY DEF Answered, NetworkError
<1>10. QED
  BY <1>2, <1>3, <1>4, <1>5, <1>6, <1>7, <1>8, <1>9 DEF Next, FormStep

\* Every reachable state is well typed: what the screen lists is the parse of the file
\* that will be sent, and the form waits exactly for the request in flight
\* (UploadList.tsx:58).
THEOREM SubmissionTyping == IsFiniteSet(Files) => (Spec => []TypeOK)
<1> SUFFICES ASSUME IsFiniteSet(Files) PROVE Spec => []TypeOK
  OBVIOUS
<1>1. TypedInv => TypeOK
  BY DEF TypedInv
<1>2. QED
  BY TypedInit, TypedStep, <1>1, PTL DEF Spec

------------------------------------------------------------------------------
(* What a campaign and its report contain. *)

\* The screen showed everyone the form addresses, and the start it asks for.
ShownInv ==
    \A q \in Requests : payload[q] # None =>
        /\ shown[q].recipients = ToSet(payload[q].recipients) \cup ToSet(FromFile(q).emails)
        /\ shown[q].startAt = payload[q].startAt
\* A campaign is what its form says.
CommittedInv ==
    \A q \in Requests : campaign[q] # None =>
        /\ payload[q] # None
        /\ campaign[q].rows = Distinct(Merged(q).emails)
        /\ campaign[q].totalRecipients = Len(Merged(q).emails)
        /\ campaign[q].attachments = payload[q].attachments
        /\ campaign[q].startAt \in {payload[q].startAt, None}
\* A report counts the merge of the form's two sources.
ReportInv ==
    \A q \in Requests : answer[q] # None =>
        /\ payload[q] # None
        /\ answer[q].recipientsAccepted = Len(Merged(q).emails)
        /\ answer[q].duplicatesRemoved =
              FromFile(q).duplicatesRemoved + Merged(q).duplicatesRemoved
ContentInv == TypedInv /\ ShownInv /\ CommittedInv /\ ReportInv

\* The lists of a request depend on its form alone.
LEMMA ListsOfForm ==
  ASSUME NEW q \in Requests, payload'[q] = payload[q]
  PROVE  FromFile(q)' = FromFile(q) /\ Merged(q)' = Merged(q)
<1>1. Parsed' = Parsed
  BY DEF Parsed, parseRecipients, Distinct, Normalised, Kept
<1>2. FromFile(q)' = FromFile(q)
  BY <1>1 DEF FromFile
<1>3. Merged(q)' = Merged(q)
  BY <1>2 DEF Merged, mergeRecipients, Distinct, Normalised, Kept
<1>4. QED
  BY <1>2, <1>3

\* Every step but Submit leaves the forms and what was shown; only Commit writes a
\* campaign, only Respond a report.
LEMMA WhoWrites ==
  ASSUME [Next]_vars
  PROVE  /\ UNCHANGED <<payload, shown>> \/ \E q \in Requests : Submit(q)
         /\ UNCHANGED campaign \/ \E q \in Requests : Commit(q)
         /\ UNCHANGED answer \/ \E q \in Requests : Respond(q)
<1>1. CASE UNCHANGED vars
  BY <1>1 DEF vars, clientVars, apiVars
<1>2. CASE FormStep
  <2>1. EditStep => UNCHANGED <<payload, shown, apiVars>>
    BY DEF EditStep, AddChips, RemoveChip, PickList, RemoveList, Attach, Detach, OpenPopover, Edit,
       Dismiss, Done, SendImmediately, ClosePopover, PickTime, InPopover
  <2>2. ListRead \/ ListUnreadable => UNCHANGED <<payload, shown, apiVars>>
    BY DEF ListRead, ListUnreadable, NoEdit
  <2>3. QED
    BY <1>2, <2>1, <2>2 DEF FormStep, apiVars
<1>3. ASSUME NEW q \in Requests, Submit(q)
      PROVE  UNCHANGED <<campaign, answer>>
  BY <1>3 DEF Submit
<1>4. ASSUME NEW q \in Requests, Answered(q) \/ NetworkError(q)
      PROVE  UNCHANGED <<payload, shown, campaign, answer>>
  BY <1>4 DEF Answered, NetworkError, Settle, apiVars
<1>5. ASSUME NEW q \in Requests, RequestStep(q)
      PROVE  /\ UNCHANGED <<payload, shown>>
             /\ UNCHANGED campaign \/ Commit(q)
             /\ UNCHANGED answer \/ Respond(q)
  BY <1>5 DEF RequestStep, Upload, Refuse, ReadLeads, Validate, Commit, Enqueue, Respond, clientVars
<1>6. Navigate \/ ApiCrash => UNCHANGED <<payload, shown, campaign, answer>>
  BY DEF Navigate, ApiCrash, clientVars, apiVars
<1>7. QED
  BY <1>1, <1>2, <1>3, <1>4, <1>5, <1>6 DEF Next, FormStep

\* Forms, once sent, never change.
LEMMA FormsStay ==
  ASSUME TypedInv, [Next]_vars, NEW q \in Requests, payload[q] # None
  PROVE  payload'[q] = payload[q] /\ shown'[q] = shown[q]
<1>1. ASSUME NEW r \in Requests, Submit(r)
      PROVE  payload'[q] = payload[q] /\ shown'[q] = shown[q]
  <2>1. PICK form, said : /\ payload' = [payload EXCEPT ![r] = form]
                          /\ shown' = [shown EXCEPT ![r] = said] /\ payload[r] = None
    BY <1>1 DEF Submit
  <2>2. QED
    BY <2>1 DEF TypedInv, DataOK
<1>2. QED
  BY <1>1, WhoWrites

\* Nothing has been sent.
LEMMA ContentInit == Init => ContentInv
<1>1. Init => ShownInv /\ CommittedInv /\ ReportInv
  BY DEF Init, ShownInv, CommittedInv, ReportInv
<1>2. QED
  BY <1>1, TypedInit DEF ContentInv

\* Submit writes down what is on screen.
LEMMA ShownStep == ASSUME TypedInv, ShownInv, [Next]_vars PROVE ShownInv'
<1>1. ASSUME NEW q \in Requests, payload'[q] # None
      PROVE  /\ shown'[q].recipients = ToSet(payload'[q].recipients) \cup ToSet(FromFile(q)'.emails)
             /\ shown'[q].startAt = payload'[q].startAt
  <2>1. CASE payload[q] # None
    <3>1. payload'[q] = payload[q] /\ shown'[q] = shown[q] /\ FromFile(q)' = FromFile(q)
      BY <2>1, FormsStay, ListsOfForm
    <3>2. QED
      BY <2>1, <3>1 DEF ShownInv
  <2>2. CASE payload[q] = None
    <3>1. PICK r \in Requests : Submit(r)
      BY <1>1, <2>2, WhoWrites
    <3>2. PICK form \in Form, said \in Screen :
            /\ said.recipients = ToSet(form.recipients)
                 \cup (IF form.leads = None THEN {} ELSE ToSet(Parsed[form.leads].emails))
            /\ said.startAt = form.startAt
            /\ payload' = [payload EXCEPT ![r] = form]
            /\ shown' = [shown EXCEPT ![r] = said]
      BY <3>1, SubmitFacts
    <3>3. q = r
      BY <1>1, <2>2, <3>2 DEF TypedInv, DataOK
    <3>4. payload'[q] = form /\ shown'[q] = said
      BY <3>2, <3>3 DEF TypedInv, DataOK
    <3>5. ToSet(FromFile(q)'.emails)
            = IF form.leads = None THEN {} ELSE ToSet(Parsed[form.leads].emails)
      <4>1. CASE form.leads = None
        <5>1. FromFile(q)'.emails = <<>>
          BY <3>4, <4>1 DEF FromFile
        <5>2. ToSet(<<>>) = {}
          BY DEF ToSet
        <5>3. QED
          BY <4>1, <5>1, <5>2
      <4>2. CASE form.leads # None
        <5>1. FromFile(q)' = Parsed[form.leads]
          BY <3>4, <4>2 DEF FromFile, Parsed, parseRecipients, Distinct, Normalised, Kept
        <5>2. QED
          BY <4>2, <5>1
      <4>3. QED
        BY <4>1, <4>2
    <3>6. QED
      BY <3>2, <3>4, <3>5
  <2>3. QED
    BY <2>1, <2>2
<1>2. QED
  BY <1>1 DEF ShownInv

\* Commit writes down what the form says.
LEMMA CommittedStep == ASSUME TypedInv, CommittedInv, [Next]_vars PROVE CommittedInv'
<1>1. ASSUME NEW q \in Requests, campaign'[q] # None
      PROVE  /\ payload'[q] # None
             /\ campaign'[q].rows = Distinct(Merged(q)'.emails)
             /\ campaign'[q].totalRecipients = Len(Merged(q)'.emails)
             /\ campaign'[q].attachments = payload'[q].attachments
             /\ campaign'[q].startAt \in {payload'[q].startAt, None}
  <2> DEFINE Goal == /\ payload[q] # None
                     /\ campaign'[q].rows = Distinct(Merged(q).emails)
                     /\ campaign'[q].totalRecipients = Len(Merged(q).emails)
                     /\ campaign'[q].attachments = payload[q].attachments
                     /\ campaign'[q].startAt \in {payload[q].startAt, None}
  <2>1. Goal
    <3>1. CASE campaign'[q] = campaign[q]
      BY <1>1, <3>1 DEF CommittedInv
    <3>2. CASE campaign'[q] # campaign[q]
      <4>1. PICK r \in Requests : Commit(r)
        BY <3>2, WhoWrites
      <4>2. RequestStep(r)
        BY <4>1 DEF RequestStep
      <4>3. PICK overdue \in BOOLEAN :
              campaign' = [campaign EXCEPT ![r] =
                 [rows |-> Distinct(Merged(r).emails),
                  totalRecipients |-> Len(Merged(r).emails),
                  attachments |-> payload[r].attachments,
                  startAt |-> IF overdue THEN None ELSE payload[r].startAt]]
        BY <3>2, <4>1 DEF Commit
      <4>4. r = q
        BY <3>2, <4>3 DEF TypedInv, DataOK
      <4>5. campaign'[q] = [rows |-> Distinct(Merged(q).emails),
                            totalRecipients |-> Len(Merged(q).emails),
                            attachments |-> payload[q].attachments,
                            startAt |-> IF overdue THEN None ELSE payload[q].startAt]
        BY <4>3, <4>4 DEF TypedInv, DataOK
      <4>6. payload[q] # None
        BY <4>2, <4>4, StageFacts
      <4>7. QED
        BY <4>5, <4>6
    <3>3. QED
      BY <3>1, <3>2
  <2>2. payload'[q] = payload[q] /\ Merged(q)' = Merged(q)
    BY <2>1, FormsStay, ListsOfForm
  <2>3. QED
    BY <2>1, <2>2
<1>2. QED
  BY <1>1 DEF CommittedInv, Distinct, Kept

\* Respond counts what the form says.
LEMMA ReportStep == ASSUME TypedInv, ReportInv, [Next]_vars PROVE ReportInv'
<1>1. ASSUME NEW q \in Requests, answer'[q] # None
      PROVE  /\ payload'[q] # None
             /\ answer'[q].recipientsAccepted = Len(Merged(q)'.emails)
             /\ answer'[q].duplicatesRemoved =
                  FromFile(q)'.duplicatesRemoved + Merged(q)'.duplicatesRemoved
  <2> DEFINE Goal == /\ payload[q] # None
                     /\ answer'[q].recipientsAccepted = Len(Merged(q).emails)
                     /\ answer'[q].duplicatesRemoved =
                          FromFile(q).duplicatesRemoved + Merged(q).duplicatesRemoved
  <2>1. Goal
    <3>1. CASE answer'[q] = answer[q]
      BY <1>1, <3>1 DEF ReportInv
    <3>2. CASE answer'[q] # answer[q]
      <4>1. PICK r \in Requests : Respond(r)
        BY <3>2, WhoWrites
      <4>2. RequestStep(r)
        BY <4>1 DEF RequestStep
      <4>3. answer' = [answer EXCEPT ![r] =
                [recipientsAccepted |-> Len(Merged(r).emails),
                 duplicatesRemoved  |-> FromFile(r).duplicatesRemoved + Merged(r).duplicatesRemoved]]
        BY <3>2, <4>1 DEF Respond
      <4>4. r = q
        BY <3>2, <4>3 DEF TypedInv, DataOK
      <4>5. answer'[q] =
               [recipientsAccepted |-> Len(Merged(q).emails),
                duplicatesRemoved  |-> FromFile(q).duplicatesRemoved + Merged(q).duplicatesRemoved]
        BY <4>3, <4>4 DEF TypedInv, DataOK
      <4>6. payload[q] # None
        BY <4>2, <4>4, StageFacts
      <4>7. QED
        BY <4>5, <4>6
    <3>3. QED
      BY <3>1, <3>2
  <2>2. payload'[q] = payload[q] /\ Merged(q)' = Merged(q) /\ FromFile(q)' = FromFile(q)
    BY <2>1, FormsStay, ListsOfForm
  <2>3. QED
    BY <2>1, <2>2
<1>2. QED
  BY <1>1 DEF ReportInv

\* Every step keeps the contents right.
LEMMA ContentStep == IsFiniteSet(Files) /\ ContentInv /\ [Next]_vars => ContentInv'
BY TypedStep, ShownStep, CommittedStep, ReportStep DEF ContentInv

\* A campaign's rows are the addresses that were on screen when Send was pressed, each
\* once, and its start the one on the chip, or now (parse-recipients.ts:6).
THEOREM CampaignsAreAsShown == IsFiniteSet(Files) => (Spec => []CampaignAsShown)
<1> SUFFICES ASSUME IsFiniteSet(Files) PROVE Spec => []CampaignAsShown
  OBVIOUS
<1>1. ASSUME ContentInv PROVE CampaignAsShown
  <2>1. ASSUME NEW q \in Requests, campaign[q] # None
        PROVE  /\ ToSet(campaign[q].rows) = shown[q].recipients
               /\ campaign[q].totalRecipients = Len(campaign[q].rows)
               /\ campaign[q].startAt \in {shown[q].startAt, None}
    <3>1. /\ payload[q] # None
          /\ campaign[q].rows = Distinct(Merged(q).emails)
          /\ campaign[q].totalRecipients = Len(Merged(q).emails)
          /\ campaign[q].startAt \in {payload[q].startAt, None}
      BY <1>1, <2>1 DEF ContentInv, CommittedInv
    <3>2. /\ shown[q].recipients = ToSet(payload[q].recipients) \cup ToSet(FromFile(q).emails)
          /\ shown[q].startAt = payload[q].startAt
      BY <1>1, <3>1 DEF ContentInv, ShownInv
    <3>3. /\ ToSet(Distinct(Merged(q).emails)) =
               ToSet(payload[q].recipients) \cup ToSet(FromFile(q).emails)
          /\ Len(Distinct(Merged(q).emails)) = Len(Merged(q).emails)
      BY <1>1, <3>1, RequestFacts DEF ContentInv
    <3>4. QED
      BY <3>1, <3>2, <3>3
  <2>2. QED
    BY <2>1 DEF CampaignAsShown
<1>2. QED
  BY ContentInit, ContentStep, <1>1, PTL DEF Spec

\* What a report says was accepted and what it says was dropped add up to all that was
\* typed and found in the list (campaigns.routes.ts:57).
THEOREM ReportsAddUp == IsFiniteSet(Files) => (Spec => []CountsAddUp)
<1> SUFFICES ASSUME IsFiniteSet(Files) PROVE Spec => []CountsAddUp
  OBVIOUS
<1>1. ASSUME ContentInv PROVE CountsAddUp
  <2>1. ASSUME NEW q \in Requests, answer[q] # None
        PROVE  answer[q].recipientsAccepted + answer[q].duplicatesRemoved
                 = Len(payload[q].recipients) + FromFile(q).totalFound
    <3>1. /\ payload[q] # None
          /\ answer[q].recipientsAccepted = Len(Merged(q).emails)
          /\ answer[q].duplicatesRemoved =
               FromFile(q).duplicatesRemoved + Merged(q).duplicatesRemoved
      BY <1>1, <2>1 DEF ContentInv, ReportInv
    <3>2. QED
      BY <1>1, <3>1, ReportAddsUp DEF ContentInv
  <2>2. QED
    BY <2>1 DEF CountsAddUp
<1>2. QED
  BY ContentInit, ContentStep, <1>1, PTL DEF Spec

------------------------------------------------------------------------------
(* The upload directory. *)

\* A lead list is on disk between the upload and the parse only, or where the process
\* died in between or the log has it; the attachments of a request are there from the
\* upload on.
FilesInv ==
    \A q \in Requests :
        /\ <<q, "leads">> \in disk => stage[q] \in {"received", "dead"} \/ q \in warned
        /\ stage[q] \in Active \ {"sent"} \/ campaign[q] # None =>
              \A f \in ToSet(payload[q].attachments) : <<q, f>> \in disk
StoredInv == ContentInv /\ FilesInv

\* What a form attaches are files, never the lead list.
LEMMA AttachmentsAreFiles ==
  ASSUME TypedInv, NEW q \in Requests, payload[q] # None, NEW f \in ToSet(payload[q].attachments)
  PROVE  f \in Files /\ f # "leads"
<1>1. payload[q].attachments \in Seq(Files)
  BY DEF TypedInv, DataOK, Form
<1>2. QED
  BY <1>1, Members, SubmissionAssumption

\* A step of one request touches its own files only: Upload stores them, ReadLeads
\* removes the lead list.
LEMMA OwnFiles ==
  ASSUME TypedInv, FilesInv, NEW q \in Requests, RequestStep(q)
  PROVE  /\ warned \subseteq warned'
         /\ \A r \in Requests : r # q =>
              /\ stage'[r] = stage[r] /\ campaign'[r] = campaign[r]
              /\ \A f : <<r, f>> \in disk' <=> <<r, f>> \in disk
         /\ <<q, "leads">> \in disk' => stage'[q] = "received" \/ q \in warned'
         /\ stage'[q] \in Active \/ campaign'[q] # None =>
              \A f \in ToSet(payload[q].attachments) : <<q, f>> \in disk'
<1>1. /\ payload[q] # None /\ \A r \in Requests : r # q => stage'[r] = stage[r]
      /\ stage \in [Requests -> Active \cup {"unsent", "answered", "dead"}]
      /\ campaign \in [Requests -> Campaign \cup {None}]
  BY StageFacts DEF TypedInv, TypeOK, DataOK
<1>2. \A f \in ToSet(payload[q].attachments) : f # "leads"
  BY <1>1, AttachmentsAreFiles
<1>3. /\ <<q, "leads">> \in disk => stage[q] \in {"received", "dead"} \/ q \in warned
      /\ stage[q] \in Active \ {"sent"} \/ campaign[q] # None =>
           \A f \in ToSet(payload[q].attachments) : <<q, f>> \in disk
  BY DEF FilesInv
<1>4. CASE Upload(q)
  <2>1. /\ stage[q] = "sent" /\ stage'[q] = "received" /\ UNCHANGED <<campaign, warned>>
        /\ disk' = disk \cup {<<q, f>> : f \in ToSet(payload[q].attachments) \cup
                                    IF payload[q].leads = None THEN {} ELSE {"leads"}}
    BY <1>1, <1>4 DEF Upload, Advance, Active
  <2>2. QED
    BY <1>1, <2>1
<1>5. CASE Refuse(q)
  <2>1. stage[q] = "sent" /\ stage'[q] = "answered" /\ UNCHANGED <<campaign, disk, warned>>
    BY <1>1, <1>5 DEF Refuse, Fail, Advance, Active
  <2>2. QED
    BY <1>1, <1>3, <2>1 DEF Active
<1>6. CASE ReadLeads(q)
  <2>1. /\ stage[q] = "received" /\ UNCHANGED campaign
        /\ \/ disk' = disk \ {<<q, "leads">>} /\ UNCHANGED warned
           \/ UNCHANGED disk /\ warned' = warned \cup {q}
    BY <1>1, <1>6 DEF ReadLeads, Unlink, Fail, Advance
  <2>2. QED
    BY <1>1, <1>2, <1>3, <2>1 DEF Active
<1>7. CASE Validate(q) \/ Commit(q) \/ Enqueue(q) \/ Respond(q)
  <2>1. /\ stage[q] \in {"parsed", "valid", "committed", "queued"} /\ UNCHANGED <<disk, warned>>
        /\ \A r \in Requests : r # q => campaign'[r] = campaign[r]
    BY <1>1, <1>7 DEF Validate, Commit, Enqueue, Respond, Fail, Advance
  <2>2. QED
    BY <1>1, <1>3, <2>1 DEF Active
<1>8. QED
  BY <1>4, <1>5, <1>6, <1>7 DEF RequestStep

\* Every step keeps the directory in order.
LEMMA FilesStep ==
  ASSUME IsFiniteSet(Files), ContentInv, FilesInv, [Next]_vars PROVE FilesInv'
<1>1. TypedInv /\ CommittedInv
  BY DEF ContentInv
<1>2. CASE UNCHANGED <<payload, stage, disk, campaign, warned>>
  BY <1>2 DEF FilesInv
<1>3. ASSUME NEW r \in Requests, Submit(r) PROVE FilesInv'
  <2>1. payload[r] = None /\ campaign[r] = None /\ stage[r] = "unsent"
    BY <1>1, <1>3 DEF Submit, CommittedInv, TypedInv, TypeOK
  <2>2. /\ \A q \in Requests : q # r => stage'[q] = stage[q] /\ payload'[q] = payload[q]
        /\ stage'[r] = "sent" /\ UNCHANGED <<campaign, disk, warned>>
    BY <1>1, <1>3 DEF Submit, TypedInv, TypeOK, DataOK
  <2>3. QED
    BY <2>1, <2>2 DEF FilesInv
<1>4. ASSUME NEW r \in Requests, RequestStep(r) PROVE FilesInv'
  <2>1. UNCHANGED payload
    BY <1>1, <1>4, StageFacts DEF clientVars
  <2>2. /\ \A q \in Requests : q # r =>
              /\ stage'[q] = stage[q] /\ campaign'[q] = campaign[q]
              /\ \A f : <<q, f>> \in disk' <=> <<q, f>> \in disk
        /\ <<r, "leads">> \in disk' => stage'[r] = "received" \/ r \in warned'
        /\ warned \subseteq warned'
        /\ stage'[r] \in Active \/ campaign'[r] # None =>
             \A f \in ToSet(payload[r].attachments) : <<r, f>> \in disk'
    BY <1>1, <1>4, OwnFiles
  <2>3. QED
    BY <2>1, <2>2 DEF FilesInv
<1>5. CASE ApiCrash
  <2>1. /\ UNCHANGED <<payload, campaign, disk, warned>>
        /\ \A q \in Requests : stage'[q] = IF stage[q] \in Active THEN "dead" ELSE stage[q]
    BY <1>5 DEF ApiCrash, clientVars
  <2>2. QED
    BY <2>1 DEF FilesInv, Active
<1>6. CASE FormStep
  BY <1>1, <1>2, <1>6, FormStepFacts DEF beyondForm, apiVars
<1>7. ASSUME NEW q \in Requests, Answered(q) \/ NetworkError(q)
      PROVE  UNCHANGED <<payload, stage, disk, campaign, warned>>
  BY <1>7 DEF Answered, NetworkError, Settle, apiVars
<1>8. CASE UNCHANGED vars \/ Navigate
  BY <1>2, <1>8 DEF Navigate, vars, clientVars, apiVars
<1>9. QED
  BY <1>2, <1>3, <1>4, <1>5, <1>6, <1>7, <1>8 DEF Next, FormStep

\* No copy of a lead list outlives its parse, unless the process dies in between or the
\* log says that it could not be removed, and every attachment a campaign refers to is
\* on disk (upload.ts:11, campaigns.routes.ts:71).
THEOREM FilesAreKept == IsFiniteSet(Files) => (Spec => []FilesWhileNeeded)
<1> SUFFICES ASSUME IsFiniteSet(Files) PROVE Spec => []FilesWhileNeeded
  OBVIOUS
<1>1. Init => StoredInv
  BY ContentInit DEF StoredInv, FilesInv, Init, Active
<1>2. StoredInv /\ [Next]_vars => StoredInv'
  BY ContentStep, FilesStep DEF StoredInv
<1>3. StoredInv => FilesWhileNeeded
  BY DEF StoredInv, ContentInv, CommittedInv, FilesInv, FilesWhileNeeded
<1>4. QED
  BY <1>1, <1>2, <1>3, PTL DEF Spec

------------------------------------------------------------------------------
(* The database first, then Redis. *)

\* A request has no campaign before its transaction, and has one from there on; once
\* it is queued, and if it was answered with a report, all its jobs are there.
QueuedInv ==
    /\ \A q \in Requests :
          /\ stage[q] \in {"unsent", "sent", "received", "parsed", "valid"} =>
                campaign[q] = None /\ answer[q] = None
          /\ stage[q] \in {"committed", "queued"} => campaign[q] # None
          /\ stage[q] = "queued" => JobsOf(q) \subseteq jobs
    /\ \A j \in jobs : j[1] \in Requests
    /\ DatabaseFirst
OrderedInv == TypedInv /\ QueuedInv

\* A step of one request writes its own campaign and report, and adds jobs of its own.
LEMMA OwnJobs ==
  ASSUME TypedInv, QueuedInv, NEW q \in Requests, RequestStep(q)
  PROVE  /\ \A r \in Requests : r # q =>
              /\ stage'[r] = stage[r] /\ campaign'[r] = campaign[r] /\ answer'[r] = answer[r]
         /\ jobs \subseteq jobs'
         /\ campaign[q] # None => campaign'[q] = campaign[q]
         /\ \A j \in jobs' \ jobs : campaign[q] # None /\ j \in JobsOf(q)
         /\ stage'[q] \in {"received", "parsed", "valid"} =>
               campaign'[q] = None /\ answer'[q] = None
         /\ stage'[q] \in {"committed", "queued"} => campaign'[q] # None
         /\ stage'[q] = "queued" => campaign'[q] = campaign[q] /\ JobsOf(q) \subseteq jobs'
         /\ answer'[q] # None => campaign'[q] = campaign[q] /\ campaign[q] # None
                                /\ JobsOf(q) \subseteq jobs'
<1>1. /\ \A r \in Requests : r # q => stage'[r] = stage[r]
      /\ stage \in [Requests -> Active \cup {"unsent", "answered", "dead"}]
      /\ stage' \in [Requests -> Active \cup {"unsent", "answered", "dead"}]
      /\ campaign \in [Requests -> Campaign \cup {None}]
      /\ answer \in [Requests -> Report \cup {None}]
  BY StageFacts DEF TypedInv, TypeOK, DataOK
<1>2. /\ stage[q] \in {"unsent", "sent", "received", "parsed", "valid"} =>
            campaign[q] = None /\ answer[q] = None
      /\ stage[q] \in {"committed", "queued"} => campaign[q] # None
      /\ stage[q] = "queued" => JobsOf(q) \subseteq jobs
      /\ answer[q] # None => campaign[q] # None /\ JobsOf(q) \subseteq jobs
  BY DEF QueuedInv, DatabaseFirst
<1>3. CASE Upload(q) \/ Refuse(q) \/ ReadLeads(q) \/ Validate(q)
  <2>1. /\ UNCHANGED <<campaign, answer, jobs>>
        /\ stage[q] \in {"sent", "received", "parsed"}
        /\ stage'[q] \in {"received", "parsed", "valid", "answered"}
    BY <1>1, <1>3 DEF Upload, Refuse, ReadLeads, Validate, Fail, Advance
  <2>2. QED
    BY <1>1, <1>2, <2>1
<1>4. CASE Commit(q)
  <2>1. /\ UNCHANGED <<answer, jobs>> /\ stage[q] = "valid"
        /\ stage'[q] \in {"committed", "answered"}
        /\ stage'[q] = "committed" => \E c : campaign' = [campaign EXCEPT ![q] = c]
        /\ stage'[q] # "committed" => UNCHANGED campaign
    BY <1>1, <1>4 DEF Commit, Fail, Advance
  <2>2. ASSUME stage'[q] = "committed" PROVE campaign'[q] # None
    <3> DEFINE row(overdue) == [rows |-> Distinct(Merged(q).emails),
                         totalRecipients |-> Len(Merged(q).emails),
                         attachments |-> payload[q].attachments,
                         startAt |-> IF overdue THEN None ELSE payload[q].startAt]
    <3>1. PICK overdue \in BOOLEAN : campaign'[q] = row(overdue)
      BY <1>1, <1>4, <2>2 DEF Commit, Fail, Advance
    <3>2. /\ Distinct(Merged(q).emails) \in Seq(Canonical) /\ Len(Merged(q).emails) \in Nat
          /\ payload[q].attachments \in Seq(Files) /\ payload[q].startAt \in Times \cup {None}
      BY StageFacts, RequestFacts, DistinctFacts DEF Form
    <3>3. Distinct(Merged(q).emails) \in Seq(DOMAIN Lower)
      BY <3>2 DEF Canonical
    <3>4. row(overdue) \in Stored
      BY <3>2, <3>3 DEF Stored
    <3> HIDE DEF row
    <3>5. QED
      BY <3>1, <3>4, SubmissionAssumption
  <2>3. CASE stage'[q] = "committed"
    <3>1. answer[q] = None
      BY <1>2, <2>1
    <3>2. PICK c : campaign' = [campaign EXCEPT ![q] = c]
      BY <2>1, <2>3
    <3>3. QED
      BY <1>1, <1>2, <2>1, <2>2, <2>3, <3>1, <3>2
  <2>4. CASE stage'[q] # "committed"
    BY <1>1, <1>2, <2>1, <2>4
  <2>5. QED
    BY <2>3, <2>4
<1>5. CASE Enqueue(q)
  <2>1. /\ UNCHANGED <<campaign, answer>> /\ stage[q] = "committed"
        /\ stage'[q] \in {"committed", "queued", "answered"}
    BY <1>1, <1>5 DEF Enqueue, Fail, Advance
  <2>2. PICK n \in 0..Len(campaign[q].rows) :
          /\ jobs' = jobs \cup {<<q, campaign[q].rows[i]>> : i \in 1..n}
          /\ stage'[q] = "queued" => n = Len(campaign[q].rows)
    BY <1>1, <1>5 DEF Enqueue, Queued, Fail, Advance
  <2>3. campaign[q].rows \in Seq(Canonical) /\ campaign[q] # None
    BY <1>1, <1>2, <2>1 DEF Campaign
  <2>4. Len(campaign[q].rows) \in Nat /\ DOMAIN campaign[q].rows = 1..Len(campaign[q].rows)
    BY <2>3
  <2>5. JobsOf(q) = {<<q, campaign[q].rows[i]>> : i \in 1..Len(campaign[q].rows)}
    BY <2>3, <2>4 DEF JobsOf, ToSet
  <2>6. {<<q, campaign[q].rows[i]>> : i \in 1..n} \subseteq JobsOf(q)
    BY <2>4, <2>5
  <2>7. stage'[q] = "queued" => JobsOf(q) \subseteq jobs'
    BY <2>2, <2>5
  <2>8. answer[q] # None => JobsOf(q) \subseteq jobs'
    BY <1>2, <2>2
  <2>9. QED
    BY <1>1, <1>2, <2>1, <2>2, <2>3, <2>6, <2>7, <2>8
<1>6. CASE Respond(q)
  <2>1. /\ UNCHANGED <<campaign, jobs>> /\ stage[q] = "queued" /\ stage'[q] = "answered"
        /\ \A r \in Requests : r # q => answer'[r] = answer[r]
    BY <1>1, <1>6 DEF Respond, Fail, Advance
  <2>2. QED
    BY <1>1, <1>2, <2>1
<1>7. QED
  BY <1>3, <1>4, <1>5, <1>6 DEF RequestStep

\* Every step keeps the order.
LEMMA QueuedStep == ASSUME IsFiniteSet(Files), TypedInv, QueuedInv, [Next]_vars PROVE QueuedInv'
<1>1. CASE UNCHANGED <<stage, campaign, answer, jobs>>
  BY <1>1 DEF QueuedInv, DatabaseFirst, JobsOf, ToSet
<1>2. ASSUME NEW r \in Requests, Submit(r) PROVE QueuedInv'
  <2>1. /\ stage[r] = "unsent" /\ \A q \in Requests : q # r => stage'[q] = stage[q]
        /\ stage'[r] = "sent" /\ UNCHANGED <<campaign, answer, jobs>>
    BY <1>2 DEF Submit, TypedInv, TypeOK
  <2>2. QED
    BY <2>1 DEF QueuedInv, DatabaseFirst, JobsOf, ToSet
<1>3. ASSUME NEW r \in Requests, RequestStep(r) PROVE QueuedInv'
  <2>1. /\ \A q \in Requests : q # r =>
              /\ stage'[q] = stage[q] /\ campaign'[q] = campaign[q] /\ answer'[q] = answer[q]
        /\ jobs \subseteq jobs'
        /\ campaign[r] # None => campaign'[r] = campaign[r]
        /\ \A j \in jobs' \ jobs : campaign[r] # None /\ j \in JobsOf(r)
        /\ stage'[r] \in {"received", "parsed", "valid"} =>
              campaign'[r] = None /\ answer'[r] = None
        /\ stage'[r] \in {"committed", "queued"} => campaign'[r] # None
        /\ stage'[r] = "queued" => campaign'[r] = campaign[r] /\ JobsOf(r) \subseteq jobs'
        /\ answer'[r] # None => campaign'[r] = campaign[r] /\ campaign[r] # None
                               /\ JobsOf(r) \subseteq jobs'
    BY <1>3, OwnJobs
  <2>2. stage'[r] \in (Active \ {"sent"}) \cup {"answered"}
    BY <1>3, StageFacts
  <2>3. ASSUME NEW q \in Requests, campaign'[q] = campaign[q] PROVE JobsOf(q)' = JobsOf(q)
    BY <2>3 DEF JobsOf, ToSet
  <2>4. ASSUME NEW j \in jobs'
        PROVE  /\ j[1] \in Requests
               /\ campaign'[j[1]] # None /\ j[2] \in ToSet(campaign'[j[1]].rows)
    <3>1. CASE j \in jobs
      <4>1. /\ j[1] \in Requests
            /\ campaign[j[1]] # None /\ j[2] \in ToSet(campaign[j[1]].rows)
        BY <3>1 DEF QueuedInv, DatabaseFirst
      <4>2. campaign'[j[1]] = campaign[j[1]]
        BY <2>1, <4>1
      <4>3. QED
        BY <4>1, <4>2
    <3>2. CASE j \notin jobs
      <4>1. campaign[r] # None /\ j \in JobsOf(r) /\ campaign'[r] = campaign[r]
        BY <2>1, <3>2
      <4>2. j[1] = r /\ j[2] \in ToSet(campaign[r].rows)
        BY <4>1 DEF JobsOf
      <4>3. QED
        BY <4>1, <4>2
    <3>3. QED
      BY <3>1, <3>2
  <2>5. ASSUME NEW q \in Requests
        PROVE  /\ stage'[q] \in {"unsent", "sent", "received", "parsed", "valid"} =>
                     campaign'[q] = None /\ answer'[q] = None
               /\ stage'[q] \in {"committed", "queued"} => campaign'[q] # None
               /\ stage'[q] = "queued" => JobsOf(q)' \subseteq jobs'
               /\ answer'[q] # None => campaign'[q] # None /\ JobsOf(q)' \subseteq jobs'
    <3>1. CASE q = r
      BY <2>1, <2>2, <2>3, <3>1 DEF Active
    <3>2. CASE q # r
      BY <2>1, <2>3, <3>2 DEF QueuedInv, DatabaseFirst
    <3>3. QED
      BY <3>1, <3>2
  <2>6. QED
    BY <2>4, <2>5 DEF QueuedInv, DatabaseFirst, ToSet
<1>4. CASE ApiCrash
  <2>1. /\ UNCHANGED <<campaign, answer, jobs>>
        /\ \A q \in Requests : stage'[q] = IF stage[q] \in Active THEN "dead" ELSE stage[q]
    BY <1>4 DEF ApiCrash
  <2>2. QED
    BY <2>1 DEF QueuedInv, DatabaseFirst, JobsOf, ToSet, Active
<1>5. CASE FormStep
  BY <1>1, <1>5, FormStepFacts DEF beyondForm, apiVars
<1>6. ASSUME NEW q \in Requests, Answered(q) \/ NetworkError(q)
      PROVE  UNCHANGED <<stage, campaign, answer, jobs>>
  BY <1>6 DEF Answered, NetworkError, Settle, apiVars
<1>7. CASE UNCHANGED vars \/ Navigate
  BY <1>1, <1>7 DEF Navigate, vars, apiVars
<1>8. QED
  BY <1>1, <1>2, <1>3, <1>4, <1>5, <1>6, <1>7 DEF Next, FormStep

\* The database is written first, and only then is Redis told: every job has its row,
\* and a 201 says that every row of the campaign has its job (scheduleCampaign.ts:43).
THEOREM RowsBeforeJobs == IsFiniteSet(Files) => (Spec => []DatabaseFirst)
<1> SUFFICES ASSUME IsFiniteSet(Files) PROVE Spec => []DatabaseFirst
  OBVIOUS
<1>1. Init => OrderedInv
  BY TypedInit DEF OrderedInv, QueuedInv, DatabaseFirst, Init
<1>2. OrderedInv /\ [Next]_vars => OrderedInv'
  BY TypedStep, QueuedStep DEF OrderedInv
<1>3. OrderedInv => DatabaseFirst
  BY DEF OrderedInv, QueuedInv
<1>4. QED
  BY <1>1, <1>2, <1>3, PTL DEF Spec

------------------------------------------------------------------------------
(* Presses of Send. *)

\* Every press but the last is settled, and one success more than the author was
\* eager for is the one after which the page is left.
PressInv ==
    /\ \A q \in Requests : payload[q] # None => told[q] # None \/ inFlight = q
    /\ Cardinality({q \in Requests : told[q] = "created"}) <=
          IF phase \in {"scheduled", "left"} THEN eager + 1 ELSE eager
PressedInv == ContentInv /\ PressInv

\* An element adds one to a set at most.
LEMMA OneMore ==
  ASSUME NEW S, IsFiniteSet(S), NEW x
  PROVE  /\ IsFiniteSet(S \cup {x}) /\ Cardinality(S \cup {x}) \in Nat
         /\ Cardinality(S \cup {x}) <= Cardinality(S) + 1
<1>1. /\ IsFiniteSet(S \cup {x})
      /\ Cardinality(S \cup {x}) = IF x \in S THEN Cardinality(S) ELSE Cardinality(S) + 1
  BY FS_AddElement
<1>2. Cardinality(S) \in Nat
  BY FS_CardinalityType
<1>3. QED
  BY <1>1, <1>2

\* Every step keeps the count of successes within its bound.
LEMMA PressStep ==
  ASSUME IsFiniteSet(Requests), IsFiniteSet(Files), ContentInv, PressInv, [Next]_vars
  PROVE  PressInv'
<1>1. TypedInv
  BY DEF ContentInv
<1>2. CASE UNCHANGED <<payload, told, inFlight, phase, eager>>
  BY <1>2 DEF PressInv
<1> DEFINE created == {q \in Requests : told[q] = "created"}
<1>3. IsFiniteSet(created) /\ Cardinality(created) \in Nat
  BY FS_Subset, FS_CardinalityType
<1>4. eager \in Nat
  BY <1>1 DEF TypedInv, TypeOK
<1>5. Cardinality(created) <= IF phase \in {"scheduled", "left"} THEN eager + 1 ELSE eager
  BY DEF PressInv
<1>6. ASSUME NEW r \in Requests, Submit(r) PROVE PressInv'
  <2>1. inFlight = None
    BY <1>1, <1>6 DEF Submit, CanSend, TypedInv, TypeOK
  <2>2. /\ \A q \in Requests : q # r => payload'[q] = payload[q]
        /\ UNCHANGED told /\ inFlight' = r /\ phase' = "pending"
        /\ eager' = IF phase = "scheduled" THEN eager + 1 ELSE eager
    BY <1>1, <1>6 DEF Submit, TypedInv, DataOK
  <2>3. \A q \in Requests : payload'[q] # None => told'[q] # None \/ inFlight' = q
    BY <2>1, <2>2, SubmissionAssumption DEF PressInv
  <2>4. phase # "left"
    BY <1>6 DEF Submit, CanSend
  <2>5. created' = created
    BY <2>2
  <2> HIDE DEF created
  <2>6. Cardinality(created') <= eager'
    BY <1>3, <1>4, <1>5, <2>2, <2>4, <2>5
  <2>7. QED
    BY <2>2, <2>3, <2>6 DEF PressInv, created
<1>7. ASSUME NEW r \in Requests, NEW outcome \in {"created", "error"}, Settle(r, outcome)
      PROVE  PressInv'
  <2>1. /\ inFlight = r /\ phase = "pending"
    BY <1>1, <1>7, SubmissionAssumption DEF Settle, TypedInv, TypeOK
  <2>2. /\ UNCHANGED <<payload, eager>>
        /\ \A q \in Requests : told'[q] = IF q = r THEN outcome ELSE told[q]
        /\ phase' = IF outcome = "created" THEN "scheduled" ELSE "editing"
    BY <1>1, <1>7 DEF Settle, TypedInv, TypeOK
  <2>3. \A q \in Requests : payload'[q] # None => told'[q] # None \/ inFlight' = q
    BY <2>1, <2>2, SubmissionAssumption DEF PressInv
  <2>4. created' \subseteq IF outcome = "created" THEN created \cup {r} ELSE created
    BY <2>2
  <2> HIDE DEF created
  <2>5. /\ IsFiniteSet(created \cup {r}) /\ Cardinality(created \cup {r}) \in Nat
        /\ Cardinality(created \cup {r}) <= Cardinality(created) + 1
    BY <1>3, OneMore
  <2>6. Cardinality(created') <= IF outcome = "created" THEN eager + 1 ELSE eager
    <3>1. CASE outcome = "created"
      <4>1. Cardinality(created') <= Cardinality(created \cup {r}) /\ Cardinality(created') \in Nat
        BY <2>4, <2>5, <3>1, FS_Subset, FS_CardinalityType
      <4>2. QED
        BY <1>3, <1>4, <1>5, <2>1, <2>5, <3>1, <4>1
    <3>2. CASE outcome # "created"
      <4>1. Cardinality(created') <= Cardinality(created) /\ Cardinality(created') \in Nat
        BY <1>3, <2>4, <3>2, FS_Subset, FS_CardinalityType
      <4>2. QED
        BY <1>3, <1>4, <1>5, <2>1, <3>2, <4>1
    <3>3. QED
      BY <3>1, <3>2
  <2>7. QED
    BY <2>2, <2>3, <2>6 DEF PressInv, created
<1>8. CASE Navigate
  BY <1>8 DEF Navigate, PressInv
<1>9. CASE FormStep
  BY <1>1, <1>2, <1>9, FormStepFacts DEF beyondForm
<1>10. ASSUME NEW q \in Requests, RequestStep(q) PROVE UNCHANGED clientVars
  BY <1>1, <1>10, StageFacts
<1>11. CASE UNCHANGED clientVars
  BY <1>2, <1>11 DEF clientVars
<1>12. UNCHANGED vars \/ ApiCrash => UNCHANGED clientVars
  BY DEF ApiCrash, vars
<1>13. \A q \in Requests : Answered(q) \/ NetworkError(q) =>
          \E outcome \in {"created", "error"} : Settle(q, outcome)
  BY DEF Answered, NetworkError
<1>14. QED
  BY <1>6, <1>7, <1>8, <1>9, <1>10, <1>11, <1>12, <1>13 DEF Next, FormStep

\* One press of Send, one campaign: a second one needs an author who was told of a
\* failure after the first was committed, or who pressed again before the page was left
\* (scheduleCampaign.ts:103).
THEOREM DuplicatesAreExplained ==
  IsFiniteSet(Requests) /\ IsFiniteSet(Files) => (Spec => []DuplicatesExplained)
<1> SUFFICES ASSUME IsFiniteSet(Requests), IsFiniteSet(Files)
             PROVE  Spec => []DuplicatesExplained
  OBVIOUS
<1>1. Init => PressedInv
  <2>1. ASSUME Init PROVE PressInv
    <3>1. {q \in Requests : told[q] = "created"} = {}
      BY <2>1, SubmissionAssumption DEF Init
    <3>2. Cardinality({q \in Requests : told[q] = "created"}) = 0
      BY <3>1, FS_EmptySet
    <3>3. \A q \in Requests : payload[q] = None
      BY <2>1 DEF Init
    <3>4. phase = "editing" /\ eager = 0
      BY <2>1 DEF Init
    <3>5. QED
      BY <3>2, <3>3, <3>4 DEF PressInv
  <2>2. QED
    BY <2>1, ContentInit DEF PressedInv
<1>2. PressedInv /\ [Next]_vars => PressedInv'
  BY ContentStep, PressStep DEF PressedInv
<1>3. ASSUME PressedInv PROVE DuplicatesExplained
  <2> DEFINE campaigns == {q \in Requests : campaign[q] # None}
             created   == {q \in Requests : told[q] = "created"}
             failed    == {q \in campaigns : told[q] = "error"}
             settled   == created \cup failed
  <2>1. TypedInv /\ CommittedInv /\ PressInv
    BY <1>3 DEF PressedInv, ContentInv
  <2>2. campaigns \subseteq settled \cup {inFlight}
    BY <2>1 DEF CommittedInv, PressInv, TypedInv, TypeOK
  <2>3. phase # "pending" => campaigns \subseteq settled
    BY <2>1, SubmissionAssumption DEF CommittedInv, PressInv, TypedInv, TypeOK
  <2>4. eager \in Nat /\ phase \in {"editing", "pending", "scheduled", "left"}
    BY <2>1 DEF TypedInv, TypeOK
  <2>5. Cardinality(created) <= IF phase \in {"scheduled", "left"} THEN eager + 1 ELSE eager
    BY <2>1 DEF PressInv
  <2>6. created \subseteq Requests /\ failed \subseteq Requests
    OBVIOUS
  <2>7. DuplicatesExplained <=> Cardinality(campaigns) <= 1 + eager + Cardinality(failed)
    BY DEF DuplicatesExplained
  <2> HIDE DEF campaigns, created, failed
  <2>8. /\ IsFiniteSet(created) /\ Cardinality(created) \in Nat
        /\ IsFiniteSet(failed) /\ Cardinality(failed) \in Nat
    BY <2>6, FS_Subset, FS_CardinalityType
  <2>9. /\ IsFiniteSet(settled) /\ Cardinality(settled) \in Nat
        /\ Cardinality(settled) <= Cardinality(created) + Cardinality(failed)
    <3>1. /\ IsFiniteSet(settled)
          /\ Cardinality(settled) = Cardinality(created) + Cardinality(failed)
                                      - Cardinality(created \cap failed)
      BY <2>8, FS_Union
    <3>2. Cardinality(created \cap failed) \in Nat
      BY <2>8, FS_Intersection, FS_CardinalityType
    <3>3. QED
      BY <2>8, <3>1, <3>2, FS_CardinalityType
  <2> HIDE DEF settled
  <2>10. CASE phase = "pending"
    <3>1. /\ IsFiniteSet(settled \cup {inFlight}) /\ Cardinality(settled \cup {inFlight}) \in Nat
          /\ Cardinality(settled \cup {inFlight}) <= Cardinality(settled) + 1
      BY <2>9, OneMore
    <3>2. /\ Cardinality(campaigns) <= Cardinality(settled \cup {inFlight})
          /\ Cardinality(campaigns) \in Nat
      BY <2>2, <3>1, FS_Subset, FS_CardinalityType
    <3>3. Cardinality(created) <= eager
      BY <2>5, <2>10
    <3>4. QED
      BY <2>4, <2>7, <2>8, <2>9, <3>1, <3>2, <3>3
  <2>11. CASE phase # "pending"
    <3>1. Cardinality(campaigns) <= Cardinality(settled) /\ Cardinality(campaigns) \in Nat
      BY <2>3, <2>9, <2>11, FS_Subset, FS_CardinalityType
    <3>2. Cardinality(created) <= eager + 1
      BY <2>4, <2>5, <2>8
    <3>3. QED
      BY <2>4, <2>7, <2>8, <2>9, <3>1, <3>2
  <2>12. QED
    BY <2>10, <2>11
<1>4. QED
  BY <1>1, <1>2, <1>3, PTL DEF Spec

=============================================================================
