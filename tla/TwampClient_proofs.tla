--------------------------- MODULE TwampClient_proofs ---------------------------
(***************************************************************************)
(* Proofs about the TWAMP client: that it only goes on to its test with    *)
(* the consent of the server, that a result is that of the message it is   *)
(* recorded for, how many replies the network and the socket hold, and     *)
(* that the statistics of a call are those of some measurement.            *)
(*                                                                         *)
(* SumFunction, and with it every count of datagrams and every average,    *)
(* is recursive.  The first sections prove what it computes, with least    *)
(* elements of sets of natural numbers in place of an induction principle. *)
(***************************************************************************)
EXTENDS TwampClient, FiniteSetTheorems, WellFoundedInduction, TLAPS

--------------------------------------------------------------------------------
(* Induction.                                                              *)

LEMMA LeastElement ==
    ASSUME NEW S \in SUBSET Nat, S # {}
    PROVE  \E i \in S : \A j \in S : i <= j
<1> DEFINE R == OpToRel(<, Nat)
<1>1. IsWellFoundedOn(R, Nat)
  BY NatLessThanWellFounded, Zenon
<1>2. \A x, y \in Nat : x < y => <<x, y>> \in R
  BY DEF OpToRel
<1> HIDE DEF R
<1>3. PICK x \in S : \A y \in S : ~ (<<y, x>> \in R)
  BY <1>1, WFMin
<1>4. ASSUME NEW y \in S PROVE x <= y
  <2>1. ~ (y < x)
    BY <1>2, <1>3
  <2>2. QED
    BY <2>1
<1>5. QED
  BY <1>4

\* A set that holds zero and the successor of each number it holds has every number.
LEMMA Successors ==
    ASSUME NEW S, 0 \in S, \A n \in Nat : n \in S => n + 1 \in S
    PROVE  \A n \in Nat : n \in S
<1> DEFINE T == {n \in Nat : n \notin S}
<1>1. SUFFICES ASSUME T # {} PROVE FALSE
  OBVIOUS
<1>2. PICK i \in T : \A j \in T : i <= j
  <2>1. T \in SUBSET Nat
    OBVIOUS
  <2> HIDE DEF T
  <2>2. QED
    BY <1>1, <2>1, LeastElement
<1>3. i # 0 /\ i \in Nat
  OBVIOUS
<1>4. i - 1 \in Nat /\ i = (i - 1) + 1
  BY <1>3
<1>5. i - 1 \in S
  BY <1>2, <1>4
<1>6. QED
  BY <1>4, <1>5

--------------------------------------------------------------------------------
(* Sums.                                                                   *)

\* A function with finite domain and natural values.
Counts(f) == IsFiniteSet(DOMAIN f) /\ f \in [DOMAIN f -> Nat]

Some(s) == CHOOSE x \in s : TRUE

\* The sum of f over s, if g has those over smaller sets.
SumWith(f, g, s) == IF s = {} THEN 0 ELSE f[Some(s)] + g[s \ {Some(s)}]

SumsOf(f, g) == g = [s \in SUBSET DOMAIN f |-> SumWith(f, g, s)]
Sums(f) == CHOOSE g : SumsOf(f, g)

LEMMA SumIsSums == \A f : SumFunction(f) = Sums(f)[DOMAIN f]
BY DEF SumFunction, SumFunctionOnSet, FoldFunctionOnSet, MapThenFoldSet, Sums, SumsOf,
       SumWith, Some

LEMMA SomeMember == \A s : s # {} => Some(s) \in s
BY DEF Some

LEMMA Smaller ==
    ASSUME NEW S, IsFiniteSet(S), NEW s \in SUBSET S, NEW x \in s
    PROVE  /\ Cardinality(s) \in Nat \ {0}
           /\ Cardinality(s \ {x}) = Cardinality(s) - 1
           /\ s \ {x} \in SUBSET S
<1>1. IsFiniteSet(s)
  BY FS_Subset
<1>2. Cardinality(s) \in Nat
  BY <1>1, FS_CardinalityType
<1>3. Cardinality(s) # 0
  BY <1>1, FS_EmptySet
<1>4. QED
  BY <1>1, <1>2, <1>3, FS_RemoveElement

\* There is a function that satisfies the recursion.
LEMMA SumsExist ==
    ASSUME NEW f, Counts(f)
    PROVE  SumsOf(f, Sums(f))
<1> DEFINE D == DOMAIN f
           Upto(n) == {s \in SUBSET D : Cardinality(s) <= n}
           P == {n \in Nat : \E g : g = [s \in Upto(n) |-> SumWith(f, g, s)]}
<1>1. IsFiniteSet(D) /\ \A s \in SUBSET D : Cardinality(s) \in Nat
  BY FS_Subset, FS_CardinalityType DEF Counts
<1>2. 0 \in P
  <2>1. \A s \in Upto(0) : s = {}
    BY <1>1, FS_Subset, FS_EmptySet
  <2>2. [s \in Upto(0) |-> 0] = [s \in Upto(0) |-> SumWith(f, [u \in Upto(0) |-> 0], s)]
    BY <2>1 DEF SumWith
  <2>3. QED
    BY <2>2
<1>3. ASSUME NEW n \in Nat, n \in P PROVE n + 1 \in P
  <2>1. PICK g : g = [s \in Upto(n) |-> SumWith(f, g, s)]
    BY <1>3
  <2> DEFINE h == [s \in Upto(n + 1) |-> IF s \in Upto(n) THEN g[s] ELSE SumWith(f, g, s)]
  <2>2. ASSUME NEW s \in Upto(n + 1) PROVE h[s] = SumWith(f, h, s)
    <3>1. h[s] = SumWith(f, g, s)
      BY <2>1
    <3>2. CASE s = {}
      BY <3>1, <3>2 DEF SumWith
    <3>3. CASE s # {}
      <4> DEFINE u == s \ {Some(s)}
      <4>1. Cardinality(u) = Cardinality(s) - 1 /\ u \in SUBSET D
        BY <1>1, <3>3, SomeMember, Smaller
      <4>2. u \in Upto(n) /\ u \in Upto(n + 1)
        BY <1>1, <4>1
      <4>3. h[u] = g[u]
        BY <4>2
      <4>4. QED
        BY <3>1, <3>3, <4>3 DEF SumWith
    <3>4. QED
      BY <3>2, <3>3
  <2>3. h = [s \in Upto(n + 1) |-> h[s]]
    OBVIOUS
  <2> HIDE DEF h
  <2>4. h = [s \in Upto(n + 1) |-> SumWith(f, h, s)]
    BY <2>2, <2>3
  <2>5. \E e : e = [s \in Upto(n + 1) |-> SumWith(f, e, s)]
    BY <2>4
  <2> HIDE DEF Upto
  <2>6. QED
    BY <2>5
<1>4. Cardinality(D) \in P
  <2> HIDE DEF P
  <2>1. QED
    BY <1>1, <1>2, <1>3, Successors
<1>5. Upto(Cardinality(D)) = SUBSET D
  BY <1>1, FS_Subset
<1>6. \E g : SumsOf(f, g)
  BY <1>4, <1>5 DEF SumsOf
<1>7. QED
  BY <1>6 DEF Sums

LEMMA SumsAt ==
    ASSUME NEW f, Counts(f), NEW s \in SUBSET DOMAIN f
    PROVE  /\ s = {} => Sums(f)[s] = 0
           /\ s # {} => Sums(f)[s] = f[Some(s)] + Sums(f)[s \ {Some(s)}]
BY SumsExist DEF SumsOf, SumWith


LEMMA SumsType ==
    ASSUME NEW f, Counts(f)
    PROVE  \A s \in SUBSET DOMAIN f : Sums(f)[s] \in Nat
<1> DEFINE D == DOMAIN f
           P == {n \in Nat : \A s \in SUBSET D : Cardinality(s) = n => Sums(f)[s] \in Nat}
<1>1. IsFiniteSet(D) /\ \A s \in SUBSET D : Cardinality(s) \in Nat
  BY FS_Subset, FS_CardinalityType DEF Counts
<1>2. 0 \in P
  <2>1. \A s \in SUBSET D : Cardinality(s) = 0 => s = {}
    BY <1>1, FS_Subset, FS_EmptySet
  <2>2. Sums(f)[{}] = 0
    BY SumsAt
  <2>3. QED
    BY <2>1, <2>2
<1>3. ASSUME NEW n \in Nat, n \in P PROVE n + 1 \in P
  <2>1. ASSUME NEW s \in SUBSET D, Cardinality(s) = n + 1 PROVE Sums(f)[s] \in Nat
    <3>1. s # {}
      BY <2>1, FS_EmptySet
    <3> DEFINE u == s \ {Some(s)}
    <3>2. Some(s) \in D /\ f[Some(s)] \in Nat
      BY <3>1, SomeMember DEF Counts
    <3>3. u \in SUBSET D /\ Cardinality(u) = n
      BY <1>1, <2>1, <3>1, SomeMember, Smaller
    <3>4. Sums(f)[u] \in Nat
      BY <1>3, <3>3
    <3>5. QED
      BY <3>1, <3>2, <3>4, SumsAt
  <2>2. QED
    BY <2>1
<1>4. \A n \in Nat : n \in P
  <2> HIDE DEF P
  <2>1. QED
    BY <1>2, <1>3, Successors
<1>5. QED
  BY <1>1, <1>4

\* Whichever element is taken out first, the sum is the same.
LEMMA SumsWithout ==
    ASSUME NEW f, Counts(f), NEW s \in SUBSET DOMAIN f, NEW x \in s
    PROVE  Sums(f)[s] = f[x] + Sums(f)[s \ {x}]
<1> DEFINE D == DOMAIN f
           P == {n \in Nat : \A t \in SUBSET D : Cardinality(t) = n =>
                                \A y \in t : Sums(f)[t] = f[y] + Sums(f)[t \ {y}]}
<1>1. IsFiniteSet(D) /\ \A t \in SUBSET D : Cardinality(t) \in Nat
  BY FS_Subset, FS_CardinalityType DEF Counts
<1>2. 0 \in P
  BY <1>1, FS_Subset, FS_EmptySet
<1>3. ASSUME NEW n \in Nat, n \in P PROVE n + 1 \in P
  <2>1. ASSUME NEW t \in SUBSET D, Cardinality(t) = n + 1, NEW y \in t
        PROVE  Sums(f)[t] = f[y] + Sums(f)[t \ {y}]
    <3> DEFINE c == Some(t)
    <3>1. c \in t
      BY SomeMember
    <3>2. Sums(f)[t] = f[c] + Sums(f)[t \ {c}]
      BY SumsAt
    <3>3. CASE c = y
      BY <3>2, <3>3
    <3>4. CASE c # y
      <4> HIDE DEF c
      <4>1. /\ t \ {c} \in SUBSET D /\ Cardinality(t \ {c}) = n
            /\ t \ {y} \in SUBSET D /\ Cardinality(t \ {y}) = n
        BY <1>1, <2>1, <3>1, Smaller
      <4>2. Sums(f)[t \ {c}] = f[y] + Sums(f)[(t \ {c}) \ {y}]
        BY <1>3, <3>4, <4>1
      <4>3. Sums(f)[t \ {y}] = f[c] + Sums(f)[(t \ {y}) \ {c}]
        BY <1>3, <3>1, <3>4, <4>1
      <4>4. (t \ {y}) \ {c} = (t \ {c}) \ {y} /\ (t \ {c}) \ {y} \in SUBSET D
        OBVIOUS
      <4>5. f[c] \in Nat /\ f[y] \in Nat /\ Sums(f)[(t \ {c}) \ {y}] \in Nat
        BY <3>1, <4>4, SumsType DEF Counts
      <4>6. Sums(f)[t \ {y}] = f[c] + Sums(f)[(t \ {c}) \ {y}]
        BY <4>3, <4>4
      <4> DEFINE a == f[c]
                 b == f[y]
                 r == Sums(f)[(t \ {c}) \ {y}]
                 ra == Sums(f)[t \ {c}]
                 rb == Sums(f)[t \ {y}]
      <4>7. a \in Nat /\ b \in Nat /\ r \in Nat /\ ra = b + r /\ rb = a + r
        BY <4>2, <4>5, <4>6
      <4>8. a + ra = b + rb
        <5> HIDE DEF a, b, r, ra, rb
        <5>1. QED
          BY <4>7
      <4>9. QED
        BY <3>2, <4>8
    <3>5. QED
      BY <3>3, <3>4
  <2>2. QED
    BY <2>1
<1>4. \A n \in Nat : n \in P
  <2> HIDE DEF P
  <2>1. QED
    BY <1>2, <1>3, Successors
<1>5. QED
  BY <1>1, <1>4

\* Functions that agree on a set have the same sum over it.
LEMMA SumsAgree ==
    ASSUME NEW f, Counts(f), NEW h, Counts(h), DOMAIN h \subseteq DOMAIN f,
           \A x \in DOMAIN h : h[x] = f[x]
    PROVE  \A s \in SUBSET DOMAIN h : Sums(h)[s] = Sums(f)[s]
<1> DEFINE D == DOMAIN h
           P == {n \in Nat : \A s \in SUBSET D : Cardinality(s) = n => Sums(h)[s] = Sums(f)[s]}
<1>1. IsFiniteSet(D) /\ \A s \in SUBSET D : Cardinality(s) \in Nat
  BY FS_Subset, FS_CardinalityType DEF Counts
<1>2. 0 \in P
  <2>1. \A s \in SUBSET D : Cardinality(s) = 0 => s = {}
    BY <1>1, FS_Subset, FS_EmptySet
  <2>2. Sums(h)[{}] = 0 /\ Sums(f)[{}] = 0
    BY SumsAt
  <2>3. QED
    BY <2>1, <2>2
<1>3. ASSUME NEW n \in Nat, n \in P PROVE n + 1 \in P
  <2>1. ASSUME NEW s \in SUBSET D, Cardinality(s) = n + 1 PROVE Sums(h)[s] = Sums(f)[s]
    <3>1. s # {} /\ s \in SUBSET DOMAIN f
      BY <2>1, FS_EmptySet
    <3> DEFINE u == s \ {Some(s)}
    <3>2. Some(s) \in D /\ h[Some(s)] = f[Some(s)]
      BY <3>1, SomeMember
    <3>3. u \in SUBSET D /\ Cardinality(u) = n
      BY <1>1, <2>1, <3>1, SomeMember, Smaller
    <3>4. Sums(h)[u] = Sums(f)[u]
      BY <1>3, <3>3
    <3>5. /\ Sums(h)[s] = h[Some(s)] + Sums(h)[u]
          /\ Sums(f)[s] = f[Some(s)] + Sums(f)[u]
      BY <3>1, SumsAt
    <3>6. QED
      BY <3>2, <3>4, <3>5
  <2>2. QED
    BY <2>1
<1>4. \A n \in Nat : n \in P
  <2> HIDE DEF P
  <2>1. QED
    BY <1>2, <1>3, Successors
<1>5. QED
  BY <1>1, <1>4

LEMMA SumType == ASSUME NEW f, Counts(f) PROVE SumFunction(f) \in Nat
BY SumIsSums, SumsType

LEMMA SumOfNone == ASSUME NEW f, Counts(f), DOMAIN f = {} PROVE SumFunction(f) = 0
BY SumIsSums, SumsAt

LEMMA SumWithout ==
    ASSUME NEW f, Counts(f), NEW x \in DOMAIN f, NEW h, h = [y \in DOMAIN f \ {x} |-> f[y]]
    PROVE  Counts(h) /\ SumFunction(f) = f[x] + SumFunction(h)
<1>1. Counts(h) /\ DOMAIN h = DOMAIN f \ {x}
  BY FS_RemoveElement DEF Counts
<1>2. SumFunction(f) = f[x] + Sums(f)[DOMAIN h]
  BY <1>1, SumIsSums, SumsWithout
<1>3. Sums(f)[DOMAIN h] = Sums(h)[DOMAIN h]
  BY <1>1, SumsAgree
<1>4. QED
  BY <1>1, <1>2, <1>3, SumIsSums

\* A sum lies between the bounds of its terms, times their number.
LEMMA SumBounds ==
    ASSUME NEW f, Counts(f), NEW lo \in Nat, NEW hi \in Nat,
           \A x \in DOMAIN f : lo <= f[x] /\ f[x] <= hi
    PROVE  /\ Cardinality(DOMAIN f) * lo <= SumFunction(f)
           /\ SumFunction(f) <= Cardinality(DOMAIN f) * hi
<1> DEFINE D == DOMAIN f
           P == {n \in Nat : \A s \in SUBSET D : Cardinality(s) = n =>
                                n * lo <= Sums(f)[s] /\ Sums(f)[s] <= n * hi}
<1>1. IsFiniteSet(D) /\ \A s \in SUBSET D : Cardinality(s) \in Nat
  BY FS_Subset, FS_CardinalityType DEF Counts
<1>2. 0 \in P
  <2>1. \A s \in SUBSET D : Cardinality(s) = 0 => Sums(f)[s] = 0
    BY <1>1, FS_Subset, FS_EmptySet, SumsAt
  <2>2. 0 * lo = 0 /\ 0 * hi = 0
    OBVIOUS
  <2>3. QED
    BY <2>1, <2>2
<1>3. ASSUME NEW n \in Nat, n \in P PROVE n + 1 \in P
  <2>1. ASSUME NEW s \in SUBSET D, Cardinality(s) = n + 1
        PROVE  (n + 1) * lo <= Sums(f)[s] /\ Sums(f)[s] <= (n + 1) * hi
    <3>1. s # {}
      BY <2>1, FS_EmptySet
    <3> DEFINE u == s \ {Some(s)}
    <3>2. Some(s) \in D
      BY <3>1, SomeMember
    <3>3. u \in SUBSET D /\ Cardinality(u) = n
      BY <1>1, <2>1, <3>1, SomeMember, Smaller
    <3>4. n * lo <= Sums(f)[u] /\ Sums(f)[u] <= n * hi
      BY <1>3, <3>3
    <3>5. Sums(f)[s] = f[Some(s)] + Sums(f)[u]
      BY <3>1, SumsAt
    <3>6. f[Some(s)] \in Nat /\ Sums(f)[u] \in Nat
      BY <3>2, <3>3, SumsType DEF Counts
    <3>7. lo <= f[Some(s)] /\ f[Some(s)] <= hi
      BY <3>2
    <3>8. (n + 1) * lo = n * lo + lo /\ (n + 1) * hi = n * hi + hi
          /\ n * lo \in Nat /\ n * hi \in Nat
      OBVIOUS
    <3> HIDE DEF u
    <3>9. QED
      BY <3>4, <3>5, <3>6, <3>7, <3>8
  <2>2. QED
    BY <2>1
<1>4. \A n \in Nat : n \in P
  <2> HIDE DEF P
  <2>1. QED
    BY <1>2, <1>3, Successors
<1>5. QED
  BY <1>1, <1>4, SumIsSums


--------------------------------------------------------------------------------
(* Bags of datagrams.                                                      *)

Datagrams(b) == Counts(b) /\ \A x \in DOMAIN b : b[x] > 0

LEMMA OneMore ==
    ASSUME NEW b, Datagrams(b), NEW x, NEW c, c = b (+) SetToBag({x})
    PROVE  Datagrams(c) /\ DOMAIN c = DOMAIN b \cup {x} /\ SumFunction(c) = SumFunction(b) + 1
<1> DEFINE h == [y \in DOMAIN b \ {x} |-> b[y]]
<1>1. /\ DOMAIN c = DOMAIN b \cup {x}
      /\ \A y \in DOMAIN b \ {x} : c[y] = b[y] + 0
      /\ c[x] = (IF x \in DOMAIN b THEN b[x] ELSE 0) + 1
      /\ c = [y \in DOMAIN b \cup {x} |-> c[y]]
  BY DEF (+), SetToBag
<1>2. /\ IsFiniteSet(DOMAIN b)
      /\ \A y \in DOMAIN b : b[y] \in Nat /\ b[y] > 0
      /\ b = [y \in DOMAIN b |-> b[y]]
  BY DEF Datagrams, Counts
<1>3. \A y \in DOMAIN b \ {x} : c[y] = b[y]
  BY <1>1, <1>2
<1>4. Datagrams(c)
  <2>1. IsFiniteSet(DOMAIN c)
    BY <1>1, <1>2, FS_AddElement
  <2>2. ASSUME NEW y \in DOMAIN c PROVE c[y] \in Nat /\ c[y] > 0
    <3>1. CASE y = x
      BY <1>1, <1>2, <3>1
    <3>2. CASE y # x
      BY <1>1, <1>2, <1>3, <3>2
    <3>3. QED
      BY <3>1, <3>2
  <2>3. c \in [DOMAIN c -> Nat]
    BY <1>1, <2>2
  <2>4. QED
    BY <2>1, <2>2, <2>3 DEF Datagrams, Counts
<1>5. h = [y \in DOMAIN c \ {x} |-> c[y]]
  BY <1>1, <1>3
<1>6. Counts(h) /\ SumFunction(c) = c[x] + SumFunction(h)
  <2>1. Counts(c) /\ x \in DOMAIN c
    BY <1>1, <1>4 DEF Datagrams
  <2> HIDE DEF h
  <2>2. QED
    BY <1>5, <2>1, SumWithout
<1>7. SumFunction(h) \in Nat
  BY <1>6, SumType
<1>8. CASE x \in DOMAIN b
  <2>1. SumFunction(b) = b[x] + SumFunction(h)
    BY <1>8, SumWithout DEF Datagrams
  <2>2. b[x] \in Nat /\ c[x] = b[x] + 1
    BY <1>1, <1>2, <1>8
  <2> HIDE DEF h
  <2>3. QED
    BY <1>1, <1>4, <1>6, <1>7, <2>1, <2>2
<1>9. CASE x \notin DOMAIN b
  <2>1. h = b
    BY <1>2, <1>9
  <2>2. c[x] = 1
    BY <1>1, <1>9
  <2> HIDE DEF h
  <2>3. QED
    BY <1>1, <1>4, <1>6, <1>7, <2>1, <2>2
<1>10. QED
  BY <1>8, <1>9

LEMMA OneLess ==
    ASSUME NEW b, Datagrams(b), NEW x \in DOMAIN b, NEW c, c = b (-) SetToBag({x})
    PROVE  /\ Datagrams(c) /\ DOMAIN c \subseteq DOMAIN b
           /\ SumFunction(c) \in Nat /\ SumFunction(b) = SumFunction(c) + 1
<1> DEFINE d == [y \in DOMAIN b |-> IF y = x THEN b[y] - 1 ELSE b[y]]
           h == [y \in DOMAIN b \ {x} |-> b[y]]
<1>1. /\ IsFiniteSet(DOMAIN b)
      /\ \A y \in DOMAIN b : b[y] \in Nat /\ b[y] > 0
      /\ b = [y \in DOMAIN b |-> b[y]]
  BY DEF Datagrams, Counts
<1>2. c = [y \in {z \in DOMAIN d : d[z] > 0} |-> d[y]]
  BY DEF (-), SetToBag
<1>3. SumFunction(b) = b[x] + SumFunction(h) /\ Counts(h) /\ SumFunction(h) \in Nat
  BY SumWithout, SumType DEF Datagrams
<1>4. CASE b[x] = 1
  <2>1. {z \in DOMAIN d : d[z] > 0} = DOMAIN b \ {x}
    BY <1>1, <1>4
  <2>2. c = h
    BY <1>2, <2>1
  <2>3. Datagrams(c) /\ DOMAIN c \subseteq DOMAIN b
    BY <1>1, <1>3, <2>2 DEF Datagrams
  <2>4. SumFunction(c) \in Nat
    BY <1>3, <2>2
  <2>5. SumFunction(b) = 1 + SumFunction(c)
    BY <1>3, <1>4, <2>2
  <2>6. \A n \in Nat : 1 + n = n + 1
    OBVIOUS
  <2> HIDE DEF d, h
  <2>7. SumFunction(b) = SumFunction(c) + 1
    BY <2>4, <2>5, <2>6, Zenon
  <2>8. QED
    BY <2>3, <2>4, <2>7, Zenon
<1>5. CASE b[x] # 1
  <2>1. {z \in DOMAIN d : d[z] > 0} = DOMAIN b
    <3>1. ASSUME NEW z \in DOMAIN b PROVE d[z] > 0
      <4>1. \A n \in Nat : n > 0 /\ n # 1 => n - 1 > 0
        OBVIOUS
      <4>2. QED
        BY <1>1, <1>5, <4>1
    <3>2. DOMAIN d = DOMAIN b
      OBVIOUS
    <3> HIDE DEF d
    <3>3. QED
      BY <3>1, <3>2
  <2>2. c = d /\ DOMAIN c = DOMAIN b
    BY <1>2, <2>1
  <2>3. \A y \in DOMAIN b : c[y] \in Nat /\ c[y] > 0
    BY <1>1, <1>5, <2>2
  <2>4. Datagrams(c)
    BY <1>1, <2>2, <2>3 DEF Datagrams, Counts
  <2>5. h = [y \in DOMAIN c \ {x} |-> c[y]]
    BY <2>2
  <2>6. SumFunction(c) = c[x] + SumFunction(h)
    <3> HIDE DEF d, h
    <3>1. QED
      BY <2>2, <2>4, <2>5, SumWithout DEF Datagrams
  <2>7. c[x] = b[x] - 1 /\ b[x] \in Nat /\ b[x] > 0
    BY <1>1, <2>2
  <2>8. \A k, n, m, r : k \in Nat /\ k > 0 /\ r \in Nat /\ n = k + r /\ m = (k - 1) + r
                        => m \in Nat /\ n = m + 1
    OBVIOUS
  <2>9. SumFunction(c) = (b[x] - 1) + SumFunction(h)
    BY <2>6, <2>7
  <2> HIDE DEF d, h
  <2>10. SumFunction(c) \in Nat /\ SumFunction(b) = SumFunction(c) + 1
    BY <1>3, <2>7, <2>8, <2>9, Zenon
  <2>11. DOMAIN c \subseteq DOMAIN b
    BY <2>2
  <2>12. QED
    BY <2>4, <2>10, <2>11, Zenon
<1>6. QED
  BY <1>4, <1>5

LEMMA NoneLeft ==
    ASSUME NEW b, Datagrams(b)
    PROVE  SumFunction(b) \in Nat /\ (SumFunction(b) = 0 <=> DOMAIN b = {})
<1>1. SumFunction(b) \in Nat
  BY SumType DEF Datagrams
<1>2. ASSUME NEW x \in DOMAIN b PROVE SumFunction(b) > 0
  <2> DEFINE h == [y \in DOMAIN b \ {x} |-> b[y]]
  <2>1. SumFunction(b) = b[x] + SumFunction(h) /\ SumFunction(h) \in Nat
    BY SumWithout, SumType DEF Datagrams
  <2>2. b[x] \in Nat /\ b[x] > 0
    BY DEF Datagrams, Counts
  <2> HIDE DEF h
  <2>3. QED
    BY <2>1, <2>2
<1>3. QED
  BY <1>1, <1>2, SumOfNone DEF Datagrams


--------------------------------------------------------------------------------
(* The type invariant of the test.                                         *)

Results == [number : Seqs, of : Seqs, rtt : Times, first : BOOLEAN]
Replied == [seq : Seqs, of : Seqs]

\* The types, and when RunX is on its way: the last call is not over while a message
\* waits or some of its messages are done.
TestInv ==
    /\ TestTypeOK
    /\ numbers \in BOOLEAN
    /\ Datagrams(messages) /\ Datagrams(replies)
    /\ results \in Seq(Results) /\ Len(results) <= sent
    /\ waiting # None => sent < Count
    /\ sent > 0 \/ waiting # None => calls < MaxCalls

LEMMA Numbers ==
    /\ None \notin Seqs /\ Seqs \subseteq Nat /\ 0 \in Seqs
    /\ \A n \in Seqs : (n + 1) % Width \in Seqs
<1>1. Width \in Nat /\ Width > 0 /\ None \notin Nat
  <2>1. \A w \in Nat \ {0} : w \in Nat /\ w > 0
    OBVIOUS
  <2>2. QED
    BY <2>1, TestAssumption
<1>2. \A n \in Nat : n % Width \in 0..Width - 1
  BY <1>1
<1>3. \A n \in Nat : (n + 1) % Width \in 0..Width - 1
  BY <1>2
<1>4. QED
  BY <1>1, <1>3 DEF Seqs

LEMMA NoDatagrams == Datagrams(EmptyBag) /\ DOMAIN EmptyBag = {}
<1>1. DOMAIN EmptyBag = {} /\ EmptyBag = [x \in {} |-> 1]
  BY DEF EmptyBag, SetToBag
<1>2. IsFiniteSet({})
  BY FS_EmptySet
<1>3. QED
  BY <1>1, <1>2 DEF Datagrams, Counts

LEMMA InitTest == TestInit => TestInv
<1>1. SUFFICES ASSUME TestInit PROVE TestInv
  OBVIOUS
<1>2. Datagrams(messages) /\ Datagrams(replies) /\ DOMAIN messages = {} /\ DOMAIN replies = {}
  BY <1>1, NoDatagrams DEF TestInit
<1>3. TestTypeOK
  BY <1>1, <1>2, Numbers, TestAssumption DEF TestInit, TestTypeOK, BagToSet
<1>4. QED
  BY <1>1, <1>2, <1>3, TestAssumption DEF TestInit, TestInv

LEMMA SendType == TestInv /\ SendMessage => TestInv'
<1>1. SUFFICES ASSUME TestInv, SendMessage PROVE TestInv'
  OBVIOUS
<1>2. seq \in Seqs /\ NextSeq \in Seqs
  BY <1>1, Numbers DEF TestInv, TestTypeOK, NextSeq
<1>3. Datagrams(messages)' /\ DOMAIN messages' = DOMAIN messages \cup {seq}
  BY <1>1, OneMore DEF TestInv, SendMessage
<1>4. UNCHANGED <<sent, results, calls, stat, numbers, reflected, replies, socket, extra, lost>>
      /\ waiting' = seq /\ seq' = NextSeq /\ sent < Count /\ calls < MaxCalls
  BY <1>1 DEF SendMessage
<1>5. TestTypeOK'
  BY <1>1, <1>2, <1>3, <1>4, Numbers DEF TestInv, TestTypeOK, BagToSet, Seqs
<1>6. QED
  BY <1>1, <1>3, <1>4, <1>5 DEF TestInv, Datagrams, Counts

LEMMA ReceiveType == ASSUME NEW rtt \in Times PROVE TestInv /\ Receive(rtt) => TestInv'
<1>1. SUFFICES ASSUME TestInv, Receive(rtt) PROVE TestInv'
  OBVIOUS
<1>2. /\ waiting # None /\ sent < Count /\ calls < MaxCalls /\ waiting \in Seqs
      /\ socket \in Seq(Replied) /\ socket # <<>>
  BY <1>1 DEF TestInv, TestTypeOK, Receive, Replied
<1>3. Head(socket) \in Replied /\ Tail(socket) \in Seq(Replied)
  BY <1>2
<1>4. [number |-> waiting, of |-> Head(socket).of, rtt |-> rtt, first |-> sent = 0] \in Results
  BY <1>2, <1>3 DEF Results, Replied
<1>5. results' \in Seq(Results) /\ Len(results') <= Len(results) + 1
  BY <1>1, <1>4 DEF TestInv, Receive
<1>6. /\ sent' = sent + 1 /\ waiting' = None /\ socket' = Tail(socket)
      /\ UNCHANGED <<seq, calls, stat, numbers, reflected, messages, replies, extra, lost>>
  BY <1>1 DEF Receive, network
<1>7. sent \in 0..Count /\ Len(results) <= sent /\ results \in Seq(Results)
  BY <1>1 DEF TestInv, TestTypeOK
<1>8. sent' \in 0..Count /\ Len(results') <= sent'
  <2>1. \A l, m \in Nat : \A n \in 0..Count : l <= n /\ n < Count /\ m <= l + 1
                            => n + 1 \in 0..Count /\ m <= n + 1
    BY TestAssumption
  <2>2. Len(results) \in Nat /\ Len(results') \in Nat
    BY <1>5, <1>7
  <2>3. QED
    BY <1>2, <1>5, <1>6, <1>7, <2>1, <2>2, Zenon
<1>9. TestTypeOK'
  <2>1. \A i \in DOMAIN results' : results'[i] \in Results
    BY <1>5
  <2>2. \A i \in DOMAIN results' : results'[i].number \in Seqs /\ results'[i].rtt \in Times
    BY <2>1 DEF Results
  <2>3. QED
    BY <1>1, <1>3, <1>6, <1>8, <2>2 DEF TestInv, TestTypeOK, BagToSet, Seqs, Replied
<1>10. QED
  BY <1>1, <1>2, <1>5, <1>6, <1>8, <1>9 DEF TestInv, Datagrams, Counts

LEMMA ReportType == TestInv /\ Report => TestInv'
<1>1. SUFFICES ASSUME TestInv, Report PROVE TestInv'
  OBVIOUS
<1>2. /\ sent = Count /\ sent' = 0 /\ results' = <<>> /\ calls' = calls + 1
      /\ UNCHANGED <<seq, waiting, socket, numbers, reflected, messages, replies, extra, lost>>
  BY <1>1 DEF Report, network
<1>3. calls < MaxCalls /\ waiting = None
  BY <1>1, <1>2, TestAssumption DEF TestInv
<1>4. TestTypeOK'
  BY <1>1, <1>2, <1>3, TestAssumption DEF TestInv, TestTypeOK, BagToSet, Seqs
<1>5. QED
  BY <1>1, <1>2, <1>3, <1>4 DEF TestInv, Datagrams, Counts

\* A datagram that arrives is counted as one less, or as one repeated.
LEMMA ArrivesCount ==
    ASSUME NEW b, Datagrams(b), NEW x \in DOMAIN b, NEW c, NEW e,
           \/ c = b (-) SetToBag({x}) /\ e = extra
           \/ extra < MaxExtra /\ e = extra + 1 /\ c = b,
           extra \in 0..MaxExtra
    PROVE  /\ Datagrams(c) /\ DOMAIN c \subseteq DOMAIN b
           /\ SumFunction(c) \in Nat /\ SumFunction(b) \in Nat
           /\ SumFunction(c) + extra + 1 = SumFunction(b) + e
           /\ e \in 0..MaxExtra
<1>1. SumFunction(b) \in Nat
  BY NoneLeft
<1>2. CASE c = b (-) SetToBag({x}) /\ e = extra
  <2>1. /\ Datagrams(c) /\ DOMAIN c \subseteq DOMAIN b
        /\ SumFunction(c) \in Nat /\ SumFunction(b) = SumFunction(c) + 1
    BY <1>2, OneLess
  <2>2. \A k, n \in Nat : \A z \in 0..MaxExtra : n = k + 1 => k + z + 1 = n + z
    BY TestAssumption
  <2>3. SumFunction(c) + extra + 1 = SumFunction(b) + extra
    BY <1>1, <2>1, <2>2
  <2>4. QED
    BY <1>1, <1>2, <2>1, <2>3
<1>3. CASE extra < MaxExtra /\ e = extra + 1 /\ c = b
  <2>1. \A n \in Nat : \A z \in 0..MaxExtra : n + z + 1 = n + (z + 1)
    BY TestAssumption
  <2>2. SumFunction(b) + extra + 1 = SumFunction(b) + (extra + 1)
    BY <1>1, <2>1
  <2>3. e \in 0..MaxExtra
    BY <1>3, TestAssumption
  <2>4. QED
    BY <1>1, <1>3, <2>2, <2>3
<1>4. QED
  BY <1>2, <1>3

LEMMA ReflectType == ASSUME NEW m PROVE TestInv /\ Reflect(m) => TestInv'
<1>1. SUFFICES ASSUME TestInv, Reflect(m) PROVE TestInv'
  OBVIOUS
<1> DEFINE r == [seq |-> IF numbers THEN reflected ELSE m, of |-> m]
<1>2. m \in DOMAIN messages /\ m \in Seqs /\ reflected \in Seqs
  BY <1>1 DEF Reflect, BagIn, BagToSet, TestInv, TestTypeOK
<1>3. r \in Replied
  BY <1>2 DEF Replied
<1>4. Datagrams(messages)' /\ DOMAIN messages' \subseteq DOMAIN messages /\ extra' \in 0..MaxExtra
  <2>1. \/ messages' = messages (-) SetToBag({m}) /\ extra' = extra
        \/ extra < MaxExtra /\ extra' = extra + 1 /\ messages' = messages
    BY <1>1 DEF Reflect, Arrives
  <2>2. Datagrams(messages) /\ extra \in 0..MaxExtra
    BY <1>1 DEF TestInv, TestTypeOK
  <2>3. QED
    BY <1>2, <2>1, <2>2, ArrivesCount
<1>5. Datagrams(replies)' /\ DOMAIN replies' = DOMAIN replies \cup {r}
  BY <1>1, OneMore DEF TestInv, Reflect
<1>6. /\ reflected' \in Seqs
      /\ UNCHANGED <<seq, waiting, sent, results, calls, stat, numbers, socket, lost>>
  BY <1>1, <1>2, Numbers DEF Reflect
<1>7. TestTypeOK'
  <2> HIDE DEF r
  <2>1. QED
    BY <1>1, <1>3, <1>4, <1>5, <1>6 DEF TestInv, TestTypeOK, BagToSet, Seqs, Replied
<1>8. QED
  BY <1>1, <1>4, <1>5, <1>6, <1>7 DEF TestInv

LEMMA DeliverType == ASSUME NEW r PROVE TestInv /\ Deliver(r) => TestInv'
<1>1. SUFFICES ASSUME TestInv, Deliver(r) PROVE TestInv'
  OBVIOUS
<1>2. r \in DOMAIN replies /\ r \in Replied
  BY <1>1 DEF Deliver, BagIn, BagToSet, TestInv, TestTypeOK, Replied
<1>3. Datagrams(replies)' /\ DOMAIN replies' \subseteq DOMAIN replies /\ extra' \in 0..MaxExtra
  <2>1. \/ replies' = replies (-) SetToBag({r}) /\ extra' = extra
        \/ extra < MaxExtra /\ extra' = extra + 1 /\ replies' = replies
    BY <1>1 DEF Deliver, Arrives
  <2>2. Datagrams(replies) /\ extra \in 0..MaxExtra
    BY <1>1 DEF TestInv, TestTypeOK
  <2>3. QED
    BY <1>2, <2>1, <2>2, ArrivesCount
<1>4. /\ socket' = Append(socket, r)
      /\ UNCHANGED <<seq, waiting, sent, results, calls, stat, numbers, reflected, messages, lost>>
  BY <1>1 DEF Deliver
<1>5. socket' \in Seq(Replied)
  BY <1>1, <1>2, <1>4 DEF TestInv, TestTypeOK, Replied
<1>6. TestTypeOK'
  BY <1>1, <1>3, <1>4, <1>5 DEF TestInv, TestTypeOK, BagToSet, Seqs, Replied
<1>7. QED
  BY <1>1, <1>3, <1>4, <1>6 DEF TestInv, Datagrams, Counts

LEMMA LoseType == TestInv /\ Lose => TestInv'
<1>1. SUFFICES ASSUME TestInv, Lose PROVE TestInv'
  OBVIOUS
<1>2. /\ Datagrams(messages)' /\ DOMAIN messages' \subseteq DOMAIN messages
      /\ Datagrams(replies)' /\ DOMAIN replies' \subseteq DOMAIN replies
  <2>1. CASE \E m \in BagToSet(messages) : messages' = messages (-) SetToBag({m})
    BY <1>1, <2>1, OneLess DEF TestInv, Lose, BagToSet
  <2>2. CASE \E r \in BagToSet(replies) : replies' = replies (-) SetToBag({r})
    BY <1>1, <2>2, OneLess DEF TestInv, Lose, BagToSet
  <2>3. QED
    BY <1>1, <2>1, <2>2 DEF Lose
<1>3. /\ lost' \in 0..MaxLost
      /\ UNCHANGED <<seq, waiting, sent, results, calls, stat, numbers, reflected, socket, extra>>
  BY <1>1, TestAssumption DEF Lose, TestInv, TestTypeOK
<1>4. TestTypeOK'
  BY <1>1, <1>2, <1>3 DEF TestInv, TestTypeOK, BagToSet, Seqs
<1>5. QED
  BY <1>1, <1>2, <1>3, <1>4 DEF TestInv

LEMMA TestType == TestInv /\ [TestNext]_testVars => TestInv'
<1>1. CASE UNCHANGED testVars
  BY <1>1 DEF testVars, TestInv, TestTypeOK, Datagrams, Counts, BagToSet, Seqs
<1>2. QED
  BY <1>1, SendType, ReceiveType, ReportType, ReflectType, DeliverType, LoseType
  DEF TestNext, RunStep, Carry


--------------------------------------------------------------------------------
(* The datagrams there are.                                                *)

LEMMA InitBacklog == TestInit => Backlog
<1>1. SUFFICES ASSUME TestInit PROVE Backlog
  OBVIOUS
<1>2. SumFunction(messages) = 0 /\ SumFunction(replies) = 0
  BY <1>1, NoDatagrams, NoneLeft DEF TestInit
<1>3. QED
  BY <1>1, <1>2 DEF TestInit, Backlog

\* The numbers that Backlog adds.
LEMMA BacklogTypes ==
    ASSUME TestInv
    PROVE  /\ SumFunction(messages) \in Nat /\ SumFunction(replies) \in Nat
           /\ Len(socket) \in Nat /\ lost \in Nat /\ extra \in Nat
<1>1. extra \in Nat /\ lost \in Nat /\ Len(socket) \in Nat
  BY TestAssumption DEF TestInv, TestTypeOK
<1>2. QED
  BY <1>1, NoneLeft DEF TestInv

LEMMA SendBacklog == TestInv /\ Backlog /\ SendMessage => Backlog'
<1>1. SUFFICES ASSUME TestInv, Backlog, SendMessage PROVE Backlog'
  OBVIOUS
<1>2. SumFunction(messages)' = SumFunction(messages) + 1
  BY <1>1, OneMore DEF TestInv, SendMessage
<1>3. waiting = None /\ waiting' # None /\ UNCHANGED <<replies, socket, lost, extra>>
  BY <1>1, Numbers DEF TestInv, TestTypeOK, SendMessage
<1>4. \A m, r, s, l, e \in Nat : m + r + s + l = e + 0 => (m + 1) + r + s + l = e + 1
  OBVIOUS
<1>5. SumFunction(messages) + SumFunction(replies) + Len(socket) + lost = extra + 0
  BY <1>1, <1>3 DEF Backlog
<1>6. (SumFunction(messages) + 1) + SumFunction(replies) + Len(socket) + lost = extra + 1
  BY <1>1, <1>4, <1>5, BacklogTypes
<1>7. QED
  BY <1>2, <1>3, <1>6 DEF Backlog

LEMMA ReceiveBacklog == ASSUME NEW rtt PROVE TestInv /\ Backlog /\ Receive(rtt) => Backlog'
<1>1. SUFFICES ASSUME TestInv, Backlog, Receive(rtt) PROVE Backlog'
  OBVIOUS
<1>2. /\ waiting # None /\ waiting' = None /\ UNCHANGED <<messages, replies, lost, extra>>
      /\ socket \in Seq(Replied) /\ socket # <<>> /\ socket' = Tail(socket)
  BY <1>1 DEF TestInv, TestTypeOK, Receive, network, Replied
<1>3. Len(socket') \in Nat /\ Len(socket) = Len(socket') + 1
  BY <1>2
<1>4. \A m, r, s, l, e \in Nat : m + r + (s + 1) + l = e + 1 => m + r + s + l = e + 0
  OBVIOUS
<1>5. SumFunction(messages) + SumFunction(replies) + (Len(socket') + 1) + lost = extra + 1
  BY <1>1, <1>2, <1>3 DEF Backlog
<1>6. SumFunction(messages) + SumFunction(replies) + Len(socket') + lost = extra + 0
  <2> DEFINE m == SumFunction(messages)
             r == SumFunction(replies)
             n == Len(socket')
  <2>1. m \in Nat /\ r \in Nat /\ n \in Nat /\ lost \in Nat /\ extra \in Nat
    BY <1>1, <1>3, BacklogTypes
  <2>2. m + r + (n + 1) + lost = extra + 1
    BY <1>5
  <2> HIDE DEF m, r, n
  <2>3. m + r + n + lost = extra + 0
    BY <1>4, <2>1, <2>2
  <2>4. QED
    BY <2>3 DEF m, r, n
<1>7. QED
  BY <1>2, <1>6 DEF Backlog

LEMMA ReflectBacklog == ASSUME NEW m PROVE TestInv /\ Backlog /\ Reflect(m) => Backlog'
<1>1. SUFFICES ASSUME TestInv, Backlog, Reflect(m) PROVE Backlog'
  OBVIOUS
<1>2. SumFunction(replies)' = SumFunction(replies) + 1
  BY <1>1, OneMore DEF TestInv, Reflect
<1>3. /\ SumFunction(messages') \in Nat /\ extra' \in 0..MaxExtra
      /\ SumFunction(messages') + extra + 1 = SumFunction(messages) + extra'
  <2>1. \/ messages' = messages (-) SetToBag({m}) /\ extra' = extra
        \/ extra < MaxExtra /\ extra' = extra + 1 /\ messages' = messages
    BY <1>1 DEF Reflect, Arrives
  <2>2. Datagrams(messages) /\ extra \in 0..MaxExtra /\ m \in DOMAIN messages
    BY <1>1 DEF TestInv, TestTypeOK, Reflect, BagIn, BagToSet
  <2>3. QED
    BY <2>1, <2>2, ArrivesCount
<1>4. UNCHANGED <<socket, lost, waiting>>
  BY <1>1 DEF Reflect
<1> DEFINE w == IF waiting = None THEN 0 ELSE 1
<1>5. w \in Nat /\ extra' \in Nat
  BY <1>3, TestAssumption
<1>6. SumFunction(messages) + SumFunction(replies) + Len(socket) + lost = extra + w
  BY <1>1 DEF Backlog
<1>7. SumFunction(messages') + (SumFunction(replies) + 1) + Len(socket) + lost = extra' + w
  <2>1. /\ SumFunction(messages) \in Nat /\ SumFunction(replies) \in Nat
        /\ Len(socket) \in Nat /\ lost \in Nat /\ extra \in Nat
    BY <1>1, BacklogTypes
  <2> DEFINE m1 == SumFunction(messages)
             m2 == SumFunction(messages')
             r1 == SumFunction(replies)
             s1 == Len(socket)
             e2 == extra'
  <2>2. /\ m1 \in Nat /\ m2 \in Nat /\ r1 \in Nat /\ s1 \in Nat /\ e2 \in Nat
        /\ m2 + extra + 1 = m1 + e2 /\ m1 + r1 + s1 + lost = extra + w
    BY <1>3, <1>5, <1>6, <2>1
  <2>3. m2 + (r1 + 1) + s1 + lost = e2 + w
    <3> HIDE DEF w, m1, m2, r1, s1, e2
    <3>1. QED
      BY <1>5, <2>1, <2>2
  <2>4. QED
    BY <2>3
<1>8. QED
  BY <1>2, <1>4, <1>7 DEF Backlog

LEMMA DeliverBacklog == ASSUME NEW r PROVE TestInv /\ Backlog /\ Deliver(r) => Backlog'
<1>1. SUFFICES ASSUME TestInv, Backlog, Deliver(r) PROVE Backlog'
  OBVIOUS
<1>2. /\ SumFunction(replies') \in Nat /\ extra' \in 0..MaxExtra
      /\ SumFunction(replies') + extra + 1 = SumFunction(replies) + extra'
  <2>1. \/ replies' = replies (-) SetToBag({r}) /\ extra' = extra
        \/ extra < MaxExtra /\ extra' = extra + 1 /\ replies' = replies
    BY <1>1 DEF Deliver, Arrives
  <2>2. Datagrams(replies) /\ extra \in 0..MaxExtra /\ r \in DOMAIN replies
    BY <1>1 DEF TestInv, TestTypeOK, Deliver, BagIn, BagToSet
  <2>3. QED
    BY <2>1, <2>2, ArrivesCount
<1>3. UNCHANGED <<messages, lost, waiting>> /\ Len(socket') = Len(socket) + 1
  BY <1>1 DEF Deliver, TestInv, TestTypeOK
<1> DEFINE w == IF waiting = None THEN 0 ELSE 1
<1>4. w \in Nat /\ extra' \in Nat
  BY <1>2, TestAssumption
<1>5. SumFunction(messages) + SumFunction(replies) + Len(socket) + lost = extra + w
  BY <1>1 DEF Backlog
<1>6. SumFunction(messages) + SumFunction(replies') + (Len(socket) + 1) + lost = extra' + w
  <2>1. /\ SumFunction(messages) \in Nat /\ SumFunction(replies) \in Nat
        /\ Len(socket) \in Nat /\ lost \in Nat /\ extra \in Nat
    BY <1>1, BacklogTypes
  <2> DEFINE m1 == SumFunction(messages)
             r1 == SumFunction(replies)
             r2 == SumFunction(replies')
             s1 == Len(socket)
             e2 == extra'
  <2>2. /\ m1 \in Nat /\ r1 \in Nat /\ r2 \in Nat /\ s1 \in Nat /\ e2 \in Nat
        /\ r2 + extra + 1 = r1 + e2 /\ m1 + r1 + s1 + lost = extra + w
    BY <1>2, <1>4, <1>5, <2>1
  <2>3. m1 + r2 + (s1 + 1) + lost = e2 + w
    <3> HIDE DEF w, m1, r1, r2, s1, e2
    <3>1. QED
      BY <1>4, <2>1, <2>2
  <2>4. QED
    BY <2>3
<1>7. QED
  BY <1>3, <1>6 DEF Backlog

LEMMA LoseBacklog == TestInv /\ Backlog /\ Lose => Backlog'
<1>1. SUFFICES ASSUME TestInv, Backlog, Lose PROVE Backlog'
  OBVIOUS
<1> DEFINE w == IF waiting = None THEN 0 ELSE 1
<1>2. w \in Nat
  OBVIOUS
<1>3. SumFunction(messages) + SumFunction(replies) + Len(socket) + lost = extra + w
  BY <1>1 DEF Backlog
<1>4. lost' = lost + 1 /\ UNCHANGED <<socket, extra, waiting>>
  BY <1>1 DEF Lose
<1>5. CASE \E m \in BagToSet(messages) : messages' = messages (-) SetToBag({m})
                                           /\ UNCHANGED replies
  <2>1. SumFunction(messages') \in Nat /\ SumFunction(messages) = SumFunction(messages') + 1
    BY <1>1, <1>5, OneLess DEF TestInv, BagToSet
  <2>2. \A k, m, r, s, l, e, z \in Nat :
           m = k + 1 /\ m + r + s + l = e + z => k + r + s + (l + 1) = e + z
    OBVIOUS
  <2>3. SumFunction(messages') + SumFunction(replies) + Len(socket) + (lost + 1) = extra + w
    <3> HIDE DEF w
    <3>1. QED
      BY <1>1, <1>2, <1>3, <2>1, <2>2, BacklogTypes
  <2>4. QED
    BY <1>4, <1>5, <2>3 DEF Backlog
<1>6. CASE \E r \in BagToSet(replies) : replies' = replies (-) SetToBag({r})
                                          /\ UNCHANGED messages
  <2>1. SumFunction(replies') \in Nat /\ SumFunction(replies) = SumFunction(replies') + 1
    BY <1>1, <1>6, OneLess DEF TestInv, BagToSet
  <2>2. \A k, m, r, s, l, e, z \in Nat :
           r = k + 1 /\ m + r + s + l = e + z => m + k + s + (l + 1) = e + z
    OBVIOUS
  <2>3. SumFunction(messages) + SumFunction(replies') + Len(socket) + (lost + 1) = extra + w
    <3> HIDE DEF w
    <3>1. QED
      BY <1>1, <1>2, <1>3, <2>1, <2>2, BacklogTypes
  <2>4. QED
    BY <1>4, <1>6, <2>3 DEF Backlog
<1>7. QED
  BY <1>1, <1>5, <1>6 DEF Lose

LEMMA NextBacklog == TestInv /\ Backlog /\ [TestNext]_testVars => Backlog'
<1>1. Backlog /\ UNCHANGED testVars => Backlog'
  BY DEF testVars, Backlog
<1>2. Backlog /\ Report => Backlog'
  BY DEF Report, network, Backlog
<1>3. QED
  BY <1>1, <1>2, SendBacklog, ReceiveBacklog, ReflectBacklog, DeliverBacklog, LoseBacklog
  DEF TestNext, RunStep, Carry


--------------------------------------------------------------------------------
(* Whose reply a result is.                                                *)

ReplyTo(n) == [seq |-> n, of |-> n]

\* The only datagram there is belongs to the message that waits, and the reflector has
\* counted it once it answered.
Unanswered ==
    /\ \A m \in DOMAIN messages : m = waiting /\ reflected = waiting
    /\ \A r \in DOMAIN replies : r = ReplyTo(waiting) /\ reflected = seq
    /\ \A i \in DOMAIN socket : socket[i] = ReplyTo(waiting) /\ reflected = seq

\* A reflector that copies numbers never errs; one with numbers of its own counts in
\* step with the client as long as nothing is repeated or lost.
OwnInv ==
    /\ ~ numbers => /\ \A r \in DOMAIN replies : r.seq = r.of
                    /\ \A i \in DOMAIN socket : socket[i].seq = socket[i].of
    /\ numbers /\ extra + lost = 0 =>
          /\ waiting = None => reflected = seq
          /\ waiting # None => seq = (waiting + 1) % Width /\ Unanswered

LEMMA InitOwn == TestInit => OwnInv /\ OwnReply
<1>1. SUFFICES ASSUME TestInit PROVE OwnInv /\ OwnReply
  OBVIOUS
<1>2. DOMAIN replies = {} /\ socket = <<>> /\ results = <<>> /\ reflected = seq /\ waiting = None
  BY <1>1, NoDatagrams DEF TestInit
<1>3. QED
  BY <1>2 DEF OwnInv, OwnReply

\* Nothing was repeated or lost: then there is one datagram while a message waits, and
\* none else.
LEMMA Undisturbed ==
    ASSUME TestInv, Backlog, extra + lost = 0
    PROVE  /\ waiting = None => DOMAIN messages = {} /\ DOMAIN replies = {} /\ socket = <<>>
           /\ DOMAIN messages # {} =>
                 DOMAIN replies = {} /\ socket = <<>> /\ SumFunction(messages) = 1
           /\ DOMAIN replies # {} => DOMAIN messages = {} /\ socket = <<>>
           /\ socket # <<>> => DOMAIN messages = {} /\ DOMAIN replies = {} /\ Len(socket) = 1
<1> DEFINE m == SumFunction(messages)
           r == SumFunction(replies)
           s == Len(socket)
           w == IF waiting = None THEN 0 ELSE 1
<1>1. m \in Nat /\ r \in Nat /\ s \in Nat /\ lost \in Nat /\ extra \in Nat
  BY BacklogTypes
<1>2. m + r + s + lost = extra + w
  BY DEF Backlog
<1>3. (m = 0 <=> DOMAIN messages = {}) /\ (r = 0 <=> DOMAIN replies = {})
  BY NoneLeft DEF TestInv
<1>4. s = 0 <=> socket = <<>>
  BY DEF TestInv, TestTypeOK
<1>5. w \in {0, 1} /\ (waiting = None => w = 0)
  OBVIOUS
<1>6. /\ w = 0 => m = 0 /\ r = 0 /\ s = 0
      /\ m # 0 => r = 0 /\ s = 0 /\ m = 1
      /\ r # 0 => m = 0 /\ s = 0
      /\ s # 0 => m = 0 /\ r = 0 /\ s = 1
  <2> HIDE DEF m, r, s, w
  <2>1. QED
    BY <1>1, <1>2, <1>5
<1>7. QED
  <2>1. m = SumFunction(messages)
    OBVIOUS
  <2> HIDE DEF m, r, w
  <2>2. QED
    BY <1>3, <1>4, <1>5, <1>6, <2>1

LEMMA SendOwn == TestInv /\ Backlog /\ OwnInv /\ OwnReply /\ SendMessage => OwnInv' /\ OwnReply'
<1>1. SUFFICES ASSUME TestInv, Backlog, OwnInv, OwnReply, SendMessage PROVE OwnInv' /\ OwnReply'
  OBVIOUS
<1>2. /\ UNCHANGED <<results, numbers, reflected, replies, socket, extra, lost>>
      /\ waiting = None /\ waiting' = seq /\ seq' = (seq + 1) % Width
      /\ DOMAIN messages' = DOMAIN messages \cup {seq}
  BY <1>1, OneMore DEF TestInv, SendMessage, NextSeq
<1>3. OwnReply'
  BY <1>1, <1>2 DEF OwnReply
<1>4. ASSUME numbers, extra + lost = 0 PROVE Unanswered'
  <2>1. DOMAIN messages = {} /\ DOMAIN replies = {} /\ socket = <<>> /\ reflected = seq
    BY <1>1, <1>2, <1>4, Undisturbed DEF OwnInv
  <2>2. QED
    BY <1>2, <2>1 DEF Unanswered
<1>5. waiting' # None
  BY <1>1, <1>2, Numbers DEF TestInv, TestTypeOK
<1>6. QED
  BY <1>1, <1>2, <1>3, <1>4, <1>5 DEF OwnInv

LEMMA ReceiveOwnReply ==
    ASSUME NEW rtt
    PROVE  TestInv /\ Backlog /\ OwnInv /\ OwnReply /\ Receive(rtt) => OwnInv' /\ OwnReply'
<1>1. SUFFICES ASSUME TestInv, Backlog, OwnInv, OwnReply, Receive(rtt)
               PROVE  OwnInv' /\ OwnReply'
  OBVIOUS
<1> DEFINE r == Head(socket)
           new == [number |-> waiting, of |-> r.of, rtt |-> rtt, first |-> sent = 0]
<1>2. /\ UNCHANGED <<seq, numbers, reflected, messages, replies, extra, lost>>
      /\ waiting # None /\ waiting' = None
      /\ socket \in Seq(Replied) /\ socket # <<>> /\ socket' = Tail(socket)
      /\ results' = IF r.seq = waiting THEN Append(results, new) ELSE results
      /\ results \in Seq(Results)
  BY <1>1 DEF TestInv, TestTypeOK, Receive, IsReply, network, Replied
<1>3. /\ 1 \in DOMAIN socket /\ r = socket[1]
      /\ \A i \in DOMAIN socket' : i + 1 \in DOMAIN socket /\ socket'[i] = socket[i + 1]
  BY <1>2
<1>4. OwnInv'
  <2>1. ASSUME ~ numbers PROVE \A i \in DOMAIN socket' : socket'[i].seq = socket'[i].of
    BY <1>1, <1>3, <2>1 DEF OwnInv
  <2>2. ASSUME numbers, extra + lost = 0 PROVE reflected = seq
    BY <1>1, <1>2, <1>3, <2>2 DEF OwnInv, Unanswered
  <2>3. QED
    BY <1>1, <1>2, <2>1, <2>2 DEF OwnInv
<1>5. r.seq = waiting => (numbers /\ extra + lost > 0) \/ new.of = waiting
  <2>1. CASE ~ numbers
    BY <1>1, <1>3, <2>1 DEF OwnInv
  <2>2. CASE numbers /\ extra + lost = 0
    BY <1>1, <1>2, <1>3, <2>2 DEF OwnInv, Unanswered, ReplyTo
  <2>3. extra + lost = 0 \/ extra + lost > 0
    <3>1. extra \in Nat /\ lost \in Nat
      BY <1>1, BacklogTypes
    <3>2. QED
      BY <3>1
  <2>4. QED
    BY <2>1, <2>2, <2>3
<1>6. OwnReply'
  <2>1. CASE r.seq # waiting
    BY <1>1, <1>2, <2>1 DEF OwnReply
  <2>2. CASE r.seq = waiting
    <3>1. results' = Append(results, new) /\ new.number = waiting
      BY <1>2, <2>2
    <3> HIDE DEF r, new
    <3>2. ASSUME NEW i \in DOMAIN results'
          PROVE  results'[i] = new \/ (i \in DOMAIN results /\ results'[i] = results[i])
      BY <1>2, <3>1
    <3>3. QED
      BY <1>1, <1>2, <1>5, <2>2, <3>1, <3>2 DEF OwnReply
  <2>3. QED
    BY <2>1, <2>2
<1>7. QED
  BY <1>4, <1>6

LEMMA Repeated ==
    ASSUME NEW e \in Nat, NEW f \in Nat, NEW l \in Nat, f = e \/ f = e + 1
    PROVE  /\ e + l > 0 => f + l > 0
           /\ f + l = 0 => e + l = 0 /\ f # e + 1
OBVIOUS

LEMMA ReflectOwn ==
    ASSUME NEW m
    PROVE  TestInv /\ Backlog /\ OwnInv /\ OwnReply /\ Reflect(m) => OwnInv' /\ OwnReply'
<1>1. SUFFICES ASSUME TestInv, Backlog, OwnInv, OwnReply, Reflect(m) PROVE OwnInv' /\ OwnReply'
  OBVIOUS
<1> DEFINE r == [seq |-> IF numbers THEN reflected ELSE m, of |-> m]
<1>2. /\ UNCHANGED <<seq, waiting, results, numbers, socket, lost>>
      /\ m \in DOMAIN messages /\ reflected' = (reflected + 1) % Width
      /\ DOMAIN replies' = DOMAIN replies \cup {r}
      /\ \/ messages' = messages (-) SetToBag({m}) /\ extra' = extra
         \/ extra' = extra + 1
      /\ extra \in Nat /\ lost \in Nat /\ extra' \in Nat /\ lost' \in Nat
  <2>1. /\ UNCHANGED <<seq, waiting, results, numbers, socket, lost>>
        /\ m \in DOMAIN messages /\ reflected' = (reflected + 1) % Width
        /\ \/ messages' = messages (-) SetToBag({m}) /\ extra' = extra
           \/ extra' = extra + 1
        /\ replies' = replies (+) SetToBag({r})
    BY <1>1 DEF Reflect, Arrives, BagIn, BagToSet
  <2>2. DOMAIN replies' = DOMAIN replies \cup {r}
    BY <1>1, <2>1, OneMore DEF TestInv
  <2>3. extra \in Nat /\ lost \in Nat /\ extra' \in Nat /\ lost' \in Nat
    BY <1>1, <2>1, BacklogTypes
  <2>4. QED
    BY <2>1, <2>2, <2>3
<1>3. /\ extra + lost > 0 => extra' + lost' > 0
      /\ extra' + lost' = 0 => extra + lost = 0 /\ extra' # extra + 1
  <2>1. lost' = lost /\ (extra' = extra \/ extra' = extra + 1)
    BY <1>2
  <2>2. QED
    BY <1>2, <2>1, Repeated
<1>4. OwnReply'
  BY <1>1, <1>2, <1>3 DEF OwnReply
<1>5. ASSUME numbers, extra' + lost' = 0
      PROVE  waiting # None /\ Unanswered'
  <2>1. extra + lost = 0 /\ messages' = messages (-) SetToBag({m})
    BY <1>2, <1>3, <1>5
  <2>2. /\ waiting # None /\ DOMAIN replies = {} /\ socket = <<>>
        /\ SumFunction(messages) = 1
    BY <1>1, <1>2, <2>1, Undisturbed
  <2>3. m = waiting /\ reflected = waiting /\ seq = (waiting + 1) % Width
    BY <1>1, <1>2, <1>5, <2>1, <2>2 DEF OwnInv, Unanswered
  <2>4. DOMAIN messages' = {}
    <3>1. /\ Datagrams(messages') /\ SumFunction(messages') \in Nat
          /\ 1 = SumFunction(messages') + 1
      BY <1>1, <1>2, <2>1, <2>2, OneLess DEF TestInv
    <3>2. \A n \in Nat : 1 = n + 1 => n = 0
      OBVIOUS
    <3>3. SumFunction(messages') = 0
      BY <3>1, <3>2
    <3>4. QED
      BY <3>1, <3>3, NoneLeft
  <2>5. QED
    BY <1>2, <1>5, <2>2, <2>3, <2>4 DEF Unanswered, ReplyTo
<1>6. ASSUME ~ numbers PROVE \A x \in DOMAIN replies' : x.seq = x.of
  BY <1>1, <1>2, <1>6 DEF OwnInv
<1>7. numbers /\ extra' + lost' = 0 => seq = (waiting + 1) % Width
  BY <1>1, <1>3, <1>5 DEF OwnInv
<1>8. OwnInv'
  <2> HIDE DEF r
  <2>1. QED
    BY <1>1, <1>2, <1>5, <1>6, <1>7 DEF OwnInv
<1>9. QED
  BY <1>4, <1>8

LEMMA DeliverOwn ==
    ASSUME NEW r
    PROVE  TestInv /\ Backlog /\ OwnInv /\ OwnReply /\ Deliver(r) => OwnInv' /\ OwnReply'
<1>1. SUFFICES ASSUME TestInv, Backlog, OwnInv, OwnReply, Deliver(r) PROVE OwnInv' /\ OwnReply'
  OBVIOUS
<1>2. /\ UNCHANGED <<seq, waiting, results, numbers, reflected, messages, lost>>
      /\ r \in DOMAIN replies /\ socket' = Append(socket, r)
      /\ \/ replies' = replies (-) SetToBag({r}) /\ extra' = extra
         \/ extra' = extra + 1 /\ replies' = replies
      /\ extra \in Nat /\ lost \in Nat /\ extra' \in Nat /\ lost' \in Nat
      /\ r \in Replied /\ socket \in Seq(Replied)
  <2>1. /\ UNCHANGED <<seq, waiting, results, numbers, reflected, messages, lost>>
        /\ r \in DOMAIN replies /\ socket' = Append(socket, r)
        /\ \/ replies' = replies (-) SetToBag({r}) /\ extra' = extra
           \/ extra' = extra + 1 /\ replies' = replies
        /\ r \in Replied /\ socket \in Seq(Replied)
    BY <1>1 DEF Deliver, Arrives, BagIn, BagToSet, TestInv, TestTypeOK, Replied
  <2>2. extra \in Nat /\ lost \in Nat /\ extra' \in Nat /\ lost' \in Nat
    BY <1>1, <2>1, BacklogTypes
  <2>3. QED
    BY <2>1, <2>2
<1>3. DOMAIN replies' \subseteq DOMAIN replies
  BY <1>1, <1>2, OneLess DEF TestInv
<1>4. /\ extra + lost > 0 => extra' + lost' > 0
      /\ extra' + lost' = 0 => extra + lost = 0 /\ extra' # extra + 1
  <2>1. lost' = lost /\ (extra' = extra \/ extra' = extra + 1)
    BY <1>2
  <2>2. QED
    BY <1>2, <2>1, Repeated
<1>5. OwnReply'
  BY <1>1, <1>2, <1>4 DEF OwnReply
<1>6. \A i \in DOMAIN socket' : socket'[i] = r \/ (i \in DOMAIN socket /\ socket'[i] = socket[i])
  BY <1>2
<1>7. ASSUME ~ numbers
      PROVE  /\ \A x \in DOMAIN replies' : x.seq = x.of
             /\ \A i \in DOMAIN socket' : socket'[i].seq = socket'[i].of
  BY <1>1, <1>2, <1>3, <1>6, <1>7 DEF OwnInv
<1>8. ASSUME numbers, extra' + lost' = 0
      PROVE  waiting # None /\ seq = (waiting + 1) % Width /\ Unanswered'
  <2>1. extra + lost = 0
    BY <1>4, <1>8
  <2>2. waiting # None /\ DOMAIN messages = {}
    BY <1>1, <1>2, <2>1, Undisturbed
  <2>3. seq = (waiting + 1) % Width /\ Unanswered
    BY <1>1, <1>8, <2>1, <2>2 DEF OwnInv
  <2>4. r = ReplyTo(waiting) /\ reflected = seq
    BY <1>2, <2>3 DEF Unanswered
  <2>5. /\ \A i \in DOMAIN socket' : socket'[i] = ReplyTo(waiting)
        /\ \A x \in DOMAIN replies' : x = ReplyTo(waiting)
    BY <1>3, <1>6, <2>3, <2>4 DEF Unanswered
  <2>6. QED
    BY <1>2, <2>2, <2>3, <2>4, <2>5 DEF Unanswered, ReplyTo
<1>9. OwnInv'
  BY <1>1, <1>2, <1>7, <1>8 DEF OwnInv
<1>10. QED
  BY <1>5, <1>9

LEMMA LoseOwn == TestInv /\ Backlog /\ OwnInv /\ OwnReply /\ Lose => OwnInv' /\ OwnReply'
<1>1. SUFFICES ASSUME TestInv, Backlog, OwnInv, OwnReply, Lose PROVE OwnInv' /\ OwnReply'
  OBVIOUS
<1>2. /\ UNCHANGED <<seq, waiting, results, numbers, socket, extra>>
      /\ lost' = lost + 1 /\ extra \in Nat /\ lost \in Nat
  BY <1>1, BacklogTypes DEF Lose
<1>3. DOMAIN replies' \subseteq DOMAIN replies
  BY <1>1, OneLess DEF Lose, TestInv, BagToSet
<1>4. extra' + lost' > 0 /\ extra' + lost' # 0
  BY <1>2
<1>5. QED
  BY <1>1, <1>2, <1>3, <1>4 DEF OwnInv, OwnReply

LEMMA NextOwn ==
    TestInv /\ Backlog /\ OwnInv /\ OwnReply /\ [TestNext]_testVars => OwnInv' /\ OwnReply'
<1>1. OwnInv /\ OwnReply /\ UNCHANGED testVars => OwnInv' /\ OwnReply'
  BY DEF testVars, OwnInv, Unanswered, OwnReply
<1>2. OwnInv /\ OwnReply /\ Report => OwnInv' /\ OwnReply'
  BY DEF Report, network, OwnInv, Unanswered, OwnReply
<1>3. QED
  BY <1>1, <1>2, SendOwn, ReceiveOwnReply, ReflectOwn, DeliverOwn, LoseOwn
  DEF TestNext, RunStep, Carry


--------------------------------------------------------------------------------
(* The statistics of a call.                                               *)

LEMMA DivBelow == \A a, q \in Nat, b \in Nat \ {0} : a <= b * q => a \div b <= q
OBVIOUS

LEMMA DivAbove == \A a, q \in Nat, b \in Nat \ {0} : b * q <= a => q <= a \div b
OBVIOUS

LEMMA MoreTimes == \A m, n, q \in Nat : m <= n => m * q <= n * q
OBVIOUS

LEMMA RttsCounts ==
    ASSUME TestInv
    PROVE  /\ DOMAIN results = 1..Len(results) /\ Len(results) \in Nat
           /\ Counts(Rtts) /\ DOMAIN Rtts = 1..Len(results)
           /\ Cardinality(DOMAIN Rtts) = Len(results)
           /\ Rtt = {Rtts[i] : i \in 1..Len(results)}
<1>1. /\ results \in Seq(Results) /\ DOMAIN results = 1..Len(results) /\ Len(results) \in Nat
      /\ \A i \in DOMAIN results : results[i] \in Results
  BY DEF TestInv
<1>2. \A i \in DOMAIN results : results[i].rtt \in Nat
  BY <1>1, TestAssumption DEF Results
<1>3. IsFiniteSet(1..Len(results)) /\ Cardinality(1..Len(results)) = Len(results)
  <2>1. /\ IsFiniteSet(1..Len(results))
        /\ Cardinality(1..Len(results)) = IF 1 > Len(results) THEN 0 ELSE Len(results) - 1 + 1
    BY <1>1, FS_Interval
  <2>2. \A n \in Nat : (IF 1 > n THEN 0 ELSE n - 1 + 1) = n
    OBVIOUS
  <2>3. QED
    BY <1>1, <2>1, <2>2
<1>4. DOMAIN Rtts = 1..Len(results) /\ Rtts \in [1..Len(results) -> Nat]
  BY <1>1, <1>2 DEF Rtts
<1>5. Rtt = {Rtts[i] : i \in 1..Len(results)}
  BY <1>1 DEF Rtt, Rtts
<1>6. QED
  BY <1>1, <1>3, <1>4, <1>5 DEF Counts

\* There is a largest round-trip time.
LEMMA LargestRtt ==
    ASSUME TestInv
    PROVE  Largest \in Rtt \cup {0} /\ Largest \in Nat /\ \A u \in Rtt \cup {0} : u <= Largest
<1> DEFINE S == Rtt \cup {0}
           B == {n \in Nat : \A u \in S : u <= n}
<1>1. S \subseteq Nat
  BY RttsCounts DEF Counts
<1>2. SumFunction(Rtts) \in B
  <2>1. SumFunction(Rtts) \in Nat
    BY RttsCounts, SumType
  <2>2. ASSUME NEW i \in DOMAIN Rtts PROVE Rtts[i] <= SumFunction(Rtts)
    <3> DEFINE h == [y \in DOMAIN Rtts \ {i} |-> Rtts[y]]
    <3>1. SumFunction(Rtts) = Rtts[i] + SumFunction(h) /\ SumFunction(h) \in Nat
      BY RttsCounts, SumWithout, SumType
    <3>2. Rtts[i] \in Nat
      BY RttsCounts DEF Counts
    <3>3. \A a, b \in Nat : a <= a + b
      OBVIOUS
    <3> HIDE DEF h
    <3>4. QED
      BY <3>1, <3>2, <3>3
  <2>3. \A n \in Nat : 0 <= n
    OBVIOUS
  <2>4. QED
    BY <2>1, <2>2, <2>3, RttsCounts
<1>3. PICK b \in B : \A c \in B : b <= c
  <2>1. B \in SUBSET Nat /\ B # {}
    BY <1>2
  <2> HIDE DEF B
  <2>2. QED
    BY <2>1, LeastElement
<1>4. b \in S
  <2>1. SUFFICES ASSUME b \notin S PROVE FALSE
    OBVIOUS
  <2>2. b \in Nat /\ b # 0 /\ \A u \in S : u \in Nat /\ u <= b /\ u # b
    BY <1>1, <2>1
  <2>3. b - 1 \in B
    BY <2>2
  <2>4. b <= b - 1
    BY <1>3, <2>3
  <2>5. QED
    BY <2>2, <2>4
<1>5. \E t \in S : \A u \in Rtt : u <= t
  BY <1>4
<1>6. Largest \in S /\ \A u \in Rtt : u <= Largest
  BY <1>5 DEF Largest
<1>7. 0 <= Largest
  BY <1>1, <1>6
<1>8. QED
  BY <1>1, <1>6, <1>7

LEMMA SmallestRtt ==
    ASSUME TestInv
    PROVE  /\ Smallest \in Nat /\ Smallest <= Largest
           /\ \A i \in DOMAIN Rtts : Smallest <= Rtts[i]
<1>1. Rtt \subseteq Nat /\ Largest \in Nat /\ \A i \in DOMAIN Rtts : Rtts[i] \in Rtt
  BY RttsCounts, LargestRtt DEF Counts
<1>2. CASE \E i \in DOMAIN results : results[i].first
  <2>1. Rtt # {}
    BY <1>2 DEF Rtt
  <2>2. \E t \in Rtt : \A u \in Rtt : t <= u
    BY <1>1, <2>1, LeastElement
  <2>3. Smallest = CHOOSE t \in Rtt : \A u \in Rtt : t <= u
    BY <1>2 DEF Smallest
  <2>4. Smallest \in Rtt /\ \A u \in Rtt : Smallest <= u
    BY <2>2, <2>3
  <2>5. QED
    BY <1>1, <2>4, LargestRtt
<1>3. CASE ~ \E i \in DOMAIN results : results[i].first
  <2>1. Smallest = 0
    BY <1>3 DEF Smallest
  <2>2. \A n \in Nat : 0 <= n
    OBVIOUS
  <2>3. QED
    BY <1>1, <2>1, <2>2
<1>4. QED
  BY <1>2, <1>3

LEMMA AverageBetween ==
    ASSUME TestInv, Len(results) <= Count
    PROVE  Average <= Largest /\ (Len(results) = Count => Smallest <= Average)
<1> DEFINE s == SumFunction(Rtts)
           n == Len(results)
<1>1. s \in Nat /\ n \in Nat /\ Count \in Nat \ {0} /\ Count \in Nat
  BY RttsCounts, SumType, TestAssumption
<1>2. Largest \in Nat /\ Smallest \in Nat
      /\ \A i \in DOMAIN Rtts : Smallest <= Rtts[i] /\ Rtts[i] <= Largest
  BY RttsCounts, LargestRtt, SmallestRtt
<1>3. n * Smallest <= s /\ s <= n * Largest
  BY <1>2, RttsCounts, SumBounds
<1>4. n * Largest <= Count * Largest
  BY <1>1, <1>2, MoreTimes
<1>5. n * Largest \in Nat /\ Count * Largest \in Nat
  <2>1. \A a, b \in Nat : a * b \in Nat
    OBVIOUS
  <2> HIDE DEF n
  <2>2. QED
    BY <1>1, <1>2, <2>1
<1>6. s <= Count * Largest
  <2>1. \A a, b, c \in Nat : a <= b /\ b <= c => a <= c
    OBVIOUS
  <2> HIDE DEF n, s
  <2>2. QED
    BY <1>1, <1>3, <1>4, <1>5, <2>1, Zenon
<1>7. s \div Count <= Largest
  <2> HIDE DEF s
  <2>1. QED
    BY <1>1, <1>2, <1>6, DivBelow, Zenon
<1>8. n = Count => Smallest <= s \div Count
  <2> HIDE DEF s, n
  <2>1. QED
    BY <1>1, <1>2, <1>3, DivAbove, Zenon
<1>9. Average = s \div Count
  BY DEF Average
<1>10. QED
  BY <1>7, <1>8, <1>9

LEMMA JitterBounded == ASSUME TestInv PROVE Jitter <= Largest - Smallest
<1> DEFINE n == Len(results)
           d == [i \in 2..n |-> Distance(Rtts[i - 1], Rtts[i])]
           w == Largest - Smallest
<1>1. n \in Nat /\ DOMAIN Rtts = 1..n
  BY RttsCounts
<1>2. Largest \in Nat /\ Smallest \in Nat /\ Smallest <= Largest
      /\ \A i \in 1..n : Rtts[i] \in Nat /\ Smallest <= Rtts[i] /\ Rtts[i] <= Largest
  BY RttsCounts, LargestRtt, SmallestRtt DEF Counts
<1>3. w \in Nat
  BY <1>2
<1>4. CASE n < 2
  <2>1. Jitter = 0
    BY <1>4 DEF Jitter
  <2>2. \A x \in Nat : 0 <= x
    OBVIOUS
  <2>3. QED
    BY <1>3, <2>1, <2>2
<1>5. CASE ~ (n < 2)
  <2>1. n - 1 \in Nat \ {0} /\ n - 1 \in Nat
    <3>1. \A k \in Nat : ~ (k < 2) => k - 1 \in Nat \ {0} /\ k - 1 \in Nat
      OBVIOUS
    <3> HIDE DEF n
    <3>2. QED
      BY <1>1, <1>5, <3>1
  <2>2. IsFiniteSet(2..n) /\ Cardinality(2..n) = n - 1
    <3>1. IsFiniteSet(2..n) /\ Cardinality(2..n) = IF 2 > n THEN 0 ELSE n - 2 + 1
      BY <1>1, FS_Interval
    <3>2. \A k \in Nat : ~ (k < 2) => (IF 2 > k THEN 0 ELSE k - 2 + 1) = k - 1
      OBVIOUS
    <3>3. QED
      BY <1>1, <1>5, <3>1, <3>2
  <2>3. ASSUME NEW i \in 2..n PROVE d[i] \in Nat /\ 0 <= d[i] /\ d[i] <= w
    <3>1. i \in 1..n /\ i - 1 \in 1..n
      BY <1>1
    <3>2. \A a, b, lo, hi \in Nat : lo <= a /\ a <= hi /\ lo <= b /\ b <= hi
             => Distance(a, b) \in Nat /\ 0 <= Distance(a, b) /\ Distance(a, b) <= hi - lo
      BY DEF Distance
    <3>3. d[i] = Distance(Rtts[i - 1], Rtts[i])
      OBVIOUS
    <3> HIDE DEF d, n
    <3>4. QED
      BY <1>2, <3>1, <3>2, <3>3
  <2>4. Counts(d) /\ DOMAIN d = 2..n
    BY <2>2, <2>3 DEF Counts
  <2>5. SumFunction(d) \in Nat
    BY <2>4, SumType
  <2>6. SumFunction(d) <= (n - 1) * w
    <3> HIDE DEF d, w, n
    <3>1. QED
      BY <1>3, <2>2, <2>3, <2>4, SumBounds
  <2>7. SumFunction(d) \div (n - 1) <= w
    <3> HIDE DEF d, w, n
    <3>1. QED
      BY <1>3, <2>1, <2>5, <2>6, DivBelow, Zenon
  <2>8. Jitter = SumFunction(d) \div (n - 1)
    BY <1>5 DEF Jitter
  <2>9. QED
    BY <2>7, <2>8
<1>6. QED
  BY <1>4, <1>5

LEMMA ReportStatistics == TestInv /\ Report => StatisticsSound'
<1>1. SUFFICES ASSUME TestInv, Report PROVE StatisticsSound'
  OBVIOUS
<1>2. Len(results) <= Count
  BY <1>1 DEF TestInv, Report
<1>3. stat' = [min |-> Smallest, max |-> Largest, avg |-> Average, jitter |-> Jitter,
               rx |-> Len(results)]
  BY <1>1 DEF Report
<1>4. /\ stat'.min = Smallest /\ stat'.max = Largest /\ stat'.avg = Average
      /\ stat'.jitter = Jitter /\ stat'.rx = Len(results)
  BY <1>3
<1>5. QED
  BY <1>1, <1>2, <1>4, AverageBetween, JitterBounded DEF StatisticsSound

LEMMA NextStatistics == TestInv /\ StatisticsSound /\ [TestNext]_testVars => StatisticsSound'
<1>1. StatisticsSound /\ UNCHANGED stat => StatisticsSound'
  BY DEF StatisticsSound
<1>2. [TestNext]_testVars => UNCHANGED stat \/ Report
  BY DEF TestNext, RunStep, SendMessage, Receive, Carry, Reflect, Deliver, Lose, testVars
<1>3. QED
  BY <1>1, <1>2, ReportStatistics


--------------------------------------------------------------------------------
(* The type invariant of the control connection.                           *)

Cells == Modes \cup Codes \cup {Other}

LEMMA CellsOfType ==
    ASSUME NEW r \in Replies, NEW field \in Cells
    PROVE  /\ CellsOf(r, field) \in Seq(Cells) /\ Len(CellsOf(r, field)) = Size[r]
           /\ FieldAt[r] \in 1..Size[r] /\ Size[r] \in {2, 3}
           /\ CellsOf(r, field)[FieldAt[r]] = field
<1>1. FieldAt[r] \in 1..Size[r] /\ Size[r] \in {2, 3}
  BY DEF Replies, FieldAt, Size
<1>2. CellsOf(r, field) \in [1..Size[r] -> Cells]
  BY DEF CellsOf, Cells
<1>3. Size[r] \in Nat
  BY <1>1
<1>4. QED
  BY <1>1, <1>2, <1>3 DEF CellsOf

LEMMA SendsType ==
    ASSUME ControlTypeOK, NEW r \in Replies,
           NEW field, field \in IF r = "greeting" THEN Modes ELSE Codes,
           server \in {"dial", "setup", "request", "startSessions"}, ServerSends(r, field)
    PROVE  /\ incoming' \in Seq(Cells) /\ server' \in {"setup", "request", "startSessions", "stop"}
           /\ DOMAIN answered' = DOMAIN answered \cup {r} /\ DOMAIN answered' \subseteq Replies
           /\ answered'[r] = field
           /\ \A x \in DOMAIN answered : x # r => answered'[x] = answered[x]
           /\ \A x \in DOMAIN answered' : answered'[x] \in IF x = "greeting" THEN Modes ELSE Codes
           /\ UNCHANGED <<step, eof, short>>
<1>1. incoming \in Seq(Cells) /\ field \in Cells
  BY DEF ControlTypeOK, Cells
<1>2. incoming' \in Seq(Cells)
  BY <1>1, CellsOfType DEF ServerSends
<1>3. server' \in {"setup", "request", "startSessions", "stop"}
  BY DEF ServerSends, NextTo
<1>4. /\ DOMAIN answered' = DOMAIN answered \cup {r}
      /\ answered'[r] = field
      /\ \A x \in DOMAIN answered : x # r => answered'[x] = answered[x]
  BY DEF ServerSends
<1>5. QED
  BY <1>2, <1>3, <1>4 DEF ServerSends, ControlTypeOK

LEMMA AcceptSends ==
    ASSUME ControlTypeOK, NEW code \in Codes, Accept(code)
    PROVE  /\ server \in {"setup", "request", "startSessions"} /\ requests # <<>>
           /\ AnswerTo[server] \in Replies \ {"greeting"}
           /\ ServerSends(AnswerTo[server], code)
           /\ requests' = Tail(requests)
BY DEF Accept, AnswerTo, Replies

LEMMA ReadType ==
    ASSUME ControlTypeOK, NEW k, Read(k)
    PROVE  /\ step \in Replies /\ k \in 1..Len(incoming) /\ k \in Nat
           /\ incoming' \in Seq(Cells) /\ incoming' = SubSeq(incoming, k + 1, Len(incoming))
           /\ requests' \in Seq({"setup", "request", "startSessions", "stop"})
           /\ step' \in Replies \cup {"ready", "failed"}
           /\ short' \in BOOLEAN
           /\ UNCHANGED <<server, eof, answered>>
<1>1. /\ step \in Replies /\ k \in 1..Len(incoming)
      /\ incoming' = SubSeq(incoming, k + 1, Len(incoming))
      /\ UNCHANGED <<server, eof, answered>>
  BY DEF Read
<1>2. incoming \in Seq(Cells) /\ Len(incoming) \in Nat /\ k \in Nat
  BY <1>1 DEF ControlTypeOK, Cells
<1>3. incoming' \in Seq(Cells)
  <2>1. \A i \in (k + 1)..Len(incoming) : incoming[i] \in Cells
    BY <1>1, <1>2
  <2>2. QED
    BY <1>1, <1>2, <2>1
<1> DEFINE Requests == {"setup", "request", "startSessions", "stop"}
<1>4. SentAfter[step] \in Seq(Requests)
  <2>1. /\ SentAfter["greeting"] = <<"setup">> /\ SentAfter["start"] = <<"request">>
        /\ SentAfter["session"] = <<"startSessions">> /\ SentAfter["ack"] = <<>>
    BY DEF SentAfter
  <2>2. /\ <<"setup">> \in Seq(Requests) /\ <<"request">> \in Seq(Requests)
        /\ <<"startSessions">> \in Seq(Requests) /\ <<>> \in Seq(Requests)
    OBVIOUS
  <2>3. step \in {"greeting", "start", "session", "ack"}
    BY <1>1 DEF Replies
  <2> HIDE DEF Requests
  <2>4. QED
    BY <2>1, <2>2, <2>3
<1>5. requests' = requests \/ requests' = requests \o SentAfter[step]
  BY DEF Read
<1>6. requests' \in Seq(Requests)
  <2>1. requests \in Seq(Requests)
    BY DEF ControlTypeOK
  <2>2. \A S : \A a, b \in Seq(S) : a \o b \in Seq(S)
    OBVIOUS
  <2>3. requests \o SentAfter[step] \in Seq(Requests)
    <3> HIDE DEF Requests
    <3>1. QED
      BY <1>4, <2>1, <2>2
  <2> HIDE DEF Requests
  <2>4. QED
    BY <1>5, <2>1, <2>3
<1>7. step' \in Replies \cup {"ready", "failed"}
  BY <1>1 DEF Read, StepAfter, Replies
<1>8. short' \in BOOLEAN
  <2>1. short' = (short \/ k < Size[step])
    BY DEF Read
  <2>2. QED
    BY <2>1, Zenon
<1>9. QED
  BY <1>1, <1>2, <1>3, <1>6, <1>7, <1>8

LEMMA InitControl == ControlInit => ControlTypeOK
<1>1. SUFFICES ASSUME ControlInit PROVE ControlTypeOK
  OBVIOUS
<1>2. DOMAIN answered = {}
  BY <1>1 DEF ControlInit
<1>3. \A S : <<>> \in Seq(S)
  OBVIOUS
<1>4. QED
  BY <1>1, <1>2, <1>3 DEF ControlInit, ControlTypeOK

LEMMA ControlType == ControlTypeOK /\ [ControlNext]_controlVars => ControlTypeOK'
<1> SUFFICES ASSUME ControlTypeOK, [ControlNext]_controlVars PROVE ControlTypeOK'
  OBVIOUS
<1>1. ASSUME NEW mode \in Modes, Greet(mode) PROVE ControlTypeOK'
  <2>1. "greeting" \in Replies /\ server = "dial" /\ ServerSends("greeting", mode)
        /\ UNCHANGED requests
    BY <1>1 DEF Greet, Replies
  <2>2. QED
    BY <2>1, SendsType DEF ControlTypeOK, Cells
<1>2. ASSUME NEW code \in Codes, Accept(code) PROVE ControlTypeOK'
  <2>1. requests' \in Seq({"setup", "request", "startSessions", "stop"})
    <3>1. requests # <<>> /\ requests' = Tail(requests)
      BY <1>2, AcceptSends
    <3>2. requests \in Seq({"setup", "request", "startSessions", "stop"})
      BY DEF ControlTypeOK
    <3>3. QED
      BY <3>1, <3>2
  <2>2. QED
    BY <1>2, <2>1, AcceptSends, SendsType DEF ControlTypeOK, Cells
<1>3. CASE CloseConnection
  BY <1>3 DEF CloseConnection, ControlTypeOK
<1>4. CASE Dial
  BY <1>4 DEF Dial, ControlTypeOK, Replies
<1>5. ASSUME NEW k \in 1..3, Read(k) PROVE ControlTypeOK'
  BY <1>5, ReadType DEF ControlTypeOK, Cells
<1>6. CASE ReadFails
  BY <1>6 DEF ReadFails, ControlTypeOK
<1>7. CASE StopSession
  BY <1>7 DEF StopSession, ControlTypeOK
<1>8. CASE UNCHANGED controlVars
  BY <1>8 DEF controlVars, ControlTypeOK
<1>9. QED
  BY <1>1, <1>2, <1>3, <1>4, <1>5, <1>6, <1>7, <1>8 DEF ControlNext, ServerStep, ClientStep

--------------------------------------------------------------------------------
(* The consent of the server.                                              *)

\* The messages in front of one, and what the server waits for before it sends it.
Before   == [greeting |-> {}, start |-> {"greeting"}, session |-> {"greeting", "start"},
             ack |-> {"greeting", "start", "session"}]
AskedFor == [greeting |-> "dial", start |-> "setup", session |-> "request",
             ack |-> "startSessions"]

Consent(r) == ~ Refuses(r, answered[r])

\* The message that the client waits for is not yet sent, and has been asked for.
Asked ==
    /\ server = AskedFor[step] /\ DOMAIN answered = Before[step]
    /\ incoming = <<>> /\ requests = IF step = "greeting" THEN <<>> ELSE <<server>>

\* It is on its way, and nothing else is.
Told ==
    /\ server = NextTo[AskedFor[step]] /\ DOMAIN answered = Before[step] \cup {step}
    /\ incoming = CellsOf(step, answered[step]) /\ requests = <<>>

\* Client and server take turns, as long as no read was short.
ConsentInv ==
    ~ short =>
      /\ step = "dial" => /\ server = "dial" /\ incoming = <<>> /\ requests = <<>>
                          /\ DOMAIN answered = {}
      /\ step \in Replies => (Asked \/ Told) /\ \A r \in Before[step] : Consent(r)
      /\ step \in {"ready", "stopped"} =>
            server = "stop" /\ DOMAIN answered = Replies /\ \A r \in Replies : Consent(r)

LEMMA TurnFacts ==
    ASSUME NEW r \in Replies
    PROVE  /\ Before[r] \subseteq Replies /\ r \notin Before[r]
           /\ AskedFor[r] \in {"dial", "setup", "request", "startSessions"}
           /\ AskedFor[r] = "dial" <=> r = "greeting"
           /\ AnswerTo[AskedFor[r]] = r /\ NextTo[AskedFor[r]] # AskedFor[r]
           /\ r # "ack" => /\ StepAfter[r] \in Replies \ {"greeting"}
                           /\ Before[StepAfter[r]] = Before[r] \cup {r}
                           /\ AskedFor[StepAfter[r]] = NextTo[AskedFor[r]]
                           /\ SentAfter[r] = <<NextTo[AskedFor[r]]>>
           /\ r = "ack" => /\ StepAfter[r] = "ready" /\ Before[r] \cup {r} = Replies
                           /\ NextTo[AskedFor[r]] = "stop"
BY DEF Replies, Before, AskedFor, AnswerTo, NextTo, StepAfter, SentAfter

\* The server only sends the message that the client waits for.
LEMMA SendsConsent ==
    ASSUME ControlTypeOK, ConsentInv, ~ short, step # "dial",
           NEW r \in Replies, NEW field \in Cells,
           r = AnswerTo[server], server # "stop", server = "dial" => requests' = requests,
           server # "dial" => requests # <<>> /\ requests' = Tail(requests),
           ServerSends(r, field)
    PROVE  ConsentInv'
<1>1. /\ incoming' = incoming \o CellsOf(r, field) /\ server' = NextTo[server]
      /\ DOMAIN answered' = DOMAIN answered \cup {r} /\ answered'[r] = field
      /\ \A x \in DOMAIN answered : x # r => answered'[x] = answered[x]
      /\ UNCHANGED <<step, eof, short>>
  BY DEF ServerSends
<1>2. CASE step \in Replies
  <2>1. Asked
    <3>1. SUFFICES ASSUME Told PROVE FALSE
      BY <1>2 DEF ConsentInv
    <3>2. server # "dial" /\ requests = <<>>
      BY <1>2, <3>1 DEF Told, NextTo, AskedFor, Replies
    <3>3. QED
      BY <3>2
  <2>2. r = step /\ server = AskedFor[step]
    BY <1>2, <2>1, TurnFacts DEF Asked
  <2>3. requests' = <<>>
    <3>1. CASE step = "greeting"
      BY <1>2, <2>1, <3>1, TurnFacts DEF Asked
    <3>2. CASE step # "greeting"
      <4>1. requests = <<server>> /\ server # "dial"
        BY <1>2, <2>1, <3>2, TurnFacts DEF Asked
      <4>2. QED
        BY <4>1
    <3>3. QED
      BY <3>1, <3>2
  <2>4. incoming' = CellsOf(step, field)
    <3>1. CellsOf(step, field) \in Seq(Cells) /\ incoming = <<>>
      BY <2>1, <2>2, CellsOfType DEF Asked
    <3>2. QED
      BY <1>1, <2>2, <3>1
  <2>5. Told'
    BY <1>1, <2>1, <2>2, <2>3, <2>4 DEF Told, Asked, CellsOf
  <2>6. \A x \in Before[step] : Consent(x)'
    <3>1. \A x \in Before[step] : Consent(x) /\ x \in DOMAIN answered /\ x # r
      BY <1>2, <2>1, <2>2, TurnFacts DEF ConsentInv, Asked
    <3>2. QED
      BY <1>1, <3>1 DEF Consent, Refuses
  <2>7. step' = step /\ step \notin {"dial", "ready", "stopped"}
    BY <1>1, <1>2 DEF Replies
  <2>8. QED
    BY <1>2, <2>5, <2>6, <2>7 DEF ConsentInv
<1>3. CASE step \in {"ready", "stopped"}
  BY <1>3 DEF ConsentInv
<1>4. CASE step = "failed"
  BY <1>1, <1>4 DEF ConsentInv, Replies
<1>5. QED
  BY <1>2, <1>3, <1>4 DEF ControlTypeOK

\* A read that is not short takes the one message there is.
LEMMA ReadConsent ==
    ASSUME ControlTypeOK, ConsentInv, NEW k, Read(k)
    PROVE  ConsentInv'
<1>1. SUFFICES ASSUME ~ short' PROVE ConsentInv'
  BY DEF ConsentInv
<1>2. /\ step \in Replies /\ k \in 1..Len(incoming) /\ k \in Nat
      /\ incoming' = SubSeq(incoming, k + 1, Len(incoming)) /\ UNCHANGED <<server, eof, answered>>
  BY ReadType
<1>3. ~ short /\ k = Size[step]
  <2>1. short' = (short \/ k < Size[step]) /\ k <= Size[step]
    BY DEF Read
  <2>2. Size[step] \in Nat
    BY <1>2 DEF Size, Replies
  <2>3. ~ short /\ ~ (k < Size[step])
    BY <1>1, <2>1
  <2>4. QED
    BY <1>2, <2>1, <2>2, <2>3
<1>4. Told /\ \A r \in Before[step] : Consent(r)
  <2>1. incoming # <<>>
    BY <1>2
  <2>2. QED
    BY <1>2, <1>3, <2>1 DEF ConsentInv, Asked
<1>5. answered[step] \in Cells /\ answered[step] # Other
  <2>1. answered[step] \in Modes \cup Codes
    BY <1>4 DEF Told, ControlTypeOK
  <2>2. QED
    BY <2>1, ControlAssumption DEF Cells
<1>6. /\ incoming[FieldAt[step]] = answered[step] /\ FieldAt[step] <= k
      /\ Len(incoming) = k
  <2>1. /\ Len(incoming) = Size[step] /\ FieldAt[step] \in 1..Size[step]
        /\ Size[step] \in {2, 3} /\ incoming[FieldAt[step]] = answered[step]
    BY <1>2, <1>4, <1>5, CellsOfType DEF Told
  <2>2. QED
    BY <1>3, <2>1
<1>7. incoming' = <<>>
  <2>1. Len(incoming) \in Int /\ k + 1 \in Int /\ Len(incoming) < k + 1
    BY <1>2, <1>6
  <2>2. QED
    BY <1>2, <2>1
<1>8. Values(step, incoming[FieldAt[step]]) = {answered[step]}
  BY <1>5, <1>6 DEF Values
<1>9. \/ step' = "failed"
      \/ /\ Consent(step) /\ step' = StepAfter[step]
         /\ requests' = requests \o SentAfter[step]
  BY <1>6, <1>8 DEF Read, Consent
<1>10. CASE step' = "failed"
  BY <1>10 DEF ConsentInv, Replies
<1>11. CASE /\ Consent(step) /\ step' = StepAfter[step]
            /\ requests' = requests \o SentAfter[step]
  <2>1. \A r \in Before[step] \cup {step} : Consent(r)'
    BY <1>2, <1>4, <1>11 DEF Consent, Refuses
  <2>2. CASE step = "ack"
    <3>1. step' = "ready" /\ server' = "stop" /\ DOMAIN answered' = Replies
      BY <1>2, <1>4, <1>11, <2>2, TurnFacts DEF Told
    <3>2. \A r \in Replies : Consent(r)'
      BY <1>2, <2>1, <2>2, TurnFacts
    <3>3. QED
      BY <3>1, <3>2 DEF ConsentInv, Replies
  <2>3. CASE step # "ack"
    <3>1. /\ step' \in Replies \ {"greeting"} /\ Before[step'] = Before[step] \cup {step}
          /\ AskedFor[step'] = NextTo[AskedFor[step]]
          /\ SentAfter[step] = <<NextTo[AskedFor[step]]>>
      BY <1>2, <1>11, <2>3, TurnFacts
    <3>2. requests' = <<server>> /\ server' = AskedFor[step']
      BY <1>2, <1>4, <1>11, <3>1 DEF Told
    <3>3. DOMAIN answered' = Before[step']
      BY <1>2, <1>4, <3>1 DEF Told
    <3>4. Asked'
      BY <1>2, <1>7, <3>1, <3>2, <3>3 DEF Asked
    <3>5. step' \notin {"dial", "ready", "stopped"}
      BY <3>1 DEF Replies
    <3>6. \A r \in Before[step'] : Consent(r)'
      BY <2>1, <3>1
    <3>7. QED
      BY <3>1, <3>4, <3>5, <3>6 DEF ConsentInv
  <2>4. QED
    BY <2>2, <2>3
<1>12. QED
  BY <1>9, <1>10, <1>11

LEMMA NextConsent == ControlTypeOK /\ ConsentInv /\ [ControlNext]_controlVars => ConsentInv'
<1> SUFFICES ASSUME ControlTypeOK, ConsentInv, [ControlNext]_controlVars PROVE ConsentInv'
  OBVIOUS
<1>1. ASSUME NEW mode \in Modes, Greet(mode) PROVE ConsentInv'
  <2>1. /\ server = "dial" /\ step # "dial" /\ ServerSends("greeting", mode) /\ requests' = requests
        /\ AnswerTo[server] = "greeting" /\ "greeting" \in Replies /\ mode \in Cells
    BY <1>1 DEF Greet, AnswerTo, Replies, Cells
  <2>2. CASE short
    BY <2>1, <2>2 DEF ServerSends, ConsentInv
  <2>3. CASE ~ short
    BY <2>1, <2>3, SendsConsent
  <2>4. QED
    BY <2>2, <2>3
<1>2. ASSUME NEW code \in Codes, Accept(code) PROVE ConsentInv'
  <2>1. /\ server \in {"setup", "request", "startSessions"} /\ requests # <<>>
        /\ AnswerTo[server] \in Replies /\ ServerSends(AnswerTo[server], code)
        /\ requests' = Tail(requests) /\ code \in Cells
    BY <1>2, AcceptSends DEF Cells
  <2>2. CASE short
    BY <2>1, <2>2 DEF ServerSends, ConsentInv
  <2>3. CASE ~ short
    <3>1. step # "dial"
      BY <2>1, <2>3 DEF ConsentInv
    <3>2. QED
      BY <2>1, <2>3, <3>1, SendsConsent
  <2>4. QED
    BY <2>2, <2>3
<1>3. CASE CloseConnection
  BY <1>3 DEF CloseConnection, ConsentInv, Asked, Told, Consent, Refuses, CellsOf
<1>4. CASE Dial
  <2>1. UNCHANGED <<incoming, requests, server, eof, answered, short>> /\ step = "dial"
        /\ step' \in {"greeting", "failed"}
    BY <1>4 DEF Dial
  <2>2. CASE step' = "greeting"
    <3>1. Before["greeting"] = {} /\ AskedFor["greeting"] = "dial"
      BY DEF Before, AskedFor
    <3>2. QED
      BY <2>1, <2>2, <3>1 DEF ConsentInv, Asked
  <2>3. CASE step' = "failed"
    BY <2>3 DEF ConsentInv, Replies
  <2>4. QED
    BY <2>1, <2>2, <2>3
<1>5. ASSUME NEW k \in 1..3, Read(k) PROVE ConsentInv'
  BY <1>5, ReadConsent
<1>6. CASE ReadFails
  BY <1>6 DEF ReadFails, ConsentInv, Replies
<1>7. CASE StopSession
  BY <1>7 DEF StopSession, ConsentInv, Consent, Refuses, Replies
<1>8. CASE UNCHANGED controlVars
  BY <1>8 DEF controlVars, ConsentInv, Asked, Told, Consent, Refuses, CellsOf
<1>9. QED
  BY <1>1, <1>2, <1>3, <1>4, <1>5, <1>6, <1>7, <1>8 DEF ControlNext, ServerStep, ClientStep

--------------------------------------------------------------------------------
(* Theorems.                                                               *)

LEMMA Components ==
    [TwampNext]_twampVars => [ControlNext]_controlVars /\ [TestNext]_testVars
BY DEF TwampNext, twampVars, Handshake, Test

\* The types of both parts.
THEOREM TypeCorrect == TwampSpec => []TwampTypeOK
<1>1. TwampInit => ControlTypeOK /\ TestInv
  BY InitControl, InitTest DEF TwampInit
<1>2. ControlTypeOK /\ TestInv /\ [TwampNext]_twampVars => ControlTypeOK' /\ TestInv'
  BY Components, ControlType, TestType
<1>3. ControlTypeOK /\ TestInv => TwampTypeOK
  BY DEF TestInv, TwampTypeOK
<1>4. QED
  BY <1>1, <1>2, <1>3, PTL DEF TwampSpec

\* Whatever the server answers and when it closes the connection: unless Read returned a
\* message in pieces, the client gets to its test only with the consent of the server to
\* each step.
THEOREM ConsentGiven == TwampSpec => []SessionAgreed
<1>1. TwampInit => ControlTypeOK /\ ConsentInv
  BY InitControl DEF TwampInit, ControlInit, ConsentInv, Replies
<1>2. ControlTypeOK /\ ConsentInv /\ [TwampNext]_twampVars => ControlTypeOK' /\ ConsentInv'
  BY Components, ControlType, NextConsent
<1>3. ConsentInv => SessionAgreed
  BY DEF ConsentInv, SessionAgreed, Consent, Refuses, RefusedModes, RefusedCodes, Replies
<1>4. QED
  BY <1>1, <1>2, <1>3, PTL DEF TwampSpec

\* For any number of messages and calls, however many datagrams are repeated, lost and
\* reordered: each Run takes one reply, so that replies pile up by those repeated less
\* those lost.
THEOREM RepliesPileUp == TwampSpec => []Backlog
<1>1. TwampInit => TestInv /\ Backlog
  BY InitTest, InitBacklog DEF TwampInit
<1>2. TestInv /\ Backlog /\ [TwampNext]_twampVars => TestInv' /\ Backlog'
  BY Components, TestType, NextBacklog
<1>3. QED
  BY <1>1, <1>2, PTL DEF TwampSpec

\* A result belongs to the message it is recorded for, although Run never looks at the
\* sender's number in the reply, unless a reflector that numbers its replies was given
\* a message twice or not at all.
THEOREM ResultsOwned == TwampSpec => []OwnReply
<1>1. TwampInit => TestInv /\ Backlog /\ OwnInv /\ OwnReply
  BY InitTest, InitBacklog, InitOwn DEF TwampInit
<1>2. TestInv /\ Backlog /\ OwnInv /\ OwnReply /\ [TwampNext]_twampVars
         => TestInv' /\ Backlog' /\ OwnInv' /\ OwnReply'
  BY Components, TestType, NextBacklog, NextOwn
<1>3. QED
  BY <1>1, <1>2, PTL DEF TwampSpec

\* The statistics of every call, of any number of messages and any round-trip times:
\* the truncated average and the jitter stay within the extremes.
THEOREM StatisticsWithinExtremes == TwampSpec => []StatisticsSound
<1>1. TwampInit => TestInv /\ StatisticsSound
  BY InitTest DEF TwampInit, TestInit, StatisticsSound
<1>2. TestInv /\ StatisticsSound /\ [TwampNext]_twampVars => TestInv' /\ StatisticsSound'
  BY Components, TestType, NextStatistics
<1>3. QED
  BY <1>1, <1>2, PTL DEF TwampSpec
=============================================================================
