--------------------------- MODULE CommonTheorems ---------------------------
(***************************************************************************)
(* What the proofs of several components rest on, proved once: what a step *)
(* of one thread does to the number of threads at a point, so that an      *)
(* invariant that adds up counts is linear arithmetic; a principle of      *)
(* induction; what a ring buffer needs of % by a modulus that is not a     *)
(* constant; and how the sequence of the items in a ring buffer changes    *)
(* when an index moves.                                                    *)
(***************************************************************************)
EXTENDS Counting, Integers, FiniteSetTheorems, SequenceTheorems, TLAPS

(* A count over finitely many threads is a number, and it is zero exactly   *)
(* when no thread is at the point.                                          *)
LEMMA CountType ==
    ASSUME NEW at, NEW threads, IsFiniteSet(threads), NEW point
    PROVE  /\ Count(at, threads, point) \in Nat
           /\ \A t \in threads :
                at[t] = point => Count(at, threads, point) > 0
           /\ (\A t \in threads : at[t] # point)
                => Count(at, threads, point) = 0
<1> DEFINE S == { t \in threads : at[t] = point }
<1>1. IsFiniteSet(S)
  BY FS_Subset
<1>2. Cardinality(S) \in Nat
  BY <1>1, FS_CardinalityType
<1>3. ASSUME NEW t \in threads, at[t] = point
      PROVE  Cardinality(S) > 0
  <2>1. S # {}
    BY <1>3
  <2>2. Cardinality(S) # 0
    BY <1>1, <2>1, FS_EmptySet
  <2> QED
    BY <1>2, <2>2
<1>4. ASSUME \A t \in threads : at[t] # point
      PROVE  Cardinality(S) = 0
  BY <1>4, FS_EmptySet
<1> QED
  BY <1>2, <1>3, <1>4 DEF Count

(* One thread goes to another point: the count of the point it leaves loses *)
(* one, that of the point it reaches gains one, and the others stay.        *)
LEMMA CountMove ==
    ASSUME NEW threads, IsFiniteSet(threads), NEW t \in threads,
           NEW at, NEW after, after[t] # at[t],
           \A u \in threads \ {t} : after[u] = at[u]
    PROVE  /\ Count(after, threads, at[t]) = Count(at, threads, at[t]) - 1
           /\ Count(after, threads, after[t]) = Count(at, threads, after[t]) + 1
           /\ \A p : p # at[t] /\ p # after[t]
                => Count(after, threads, p) = Count(at, threads, p)
<1> DEFINE S(f, p) == { u \in threads : f[u] = p }
<1>1. \A p : IsFiniteSet(S(at, p))
  BY FS_Subset
<1>2. S(after, at[t]) = S(at, at[t]) \ {t}
  OBVIOUS
<1>3. S(after, after[t]) = S(at, after[t]) \cup {t}
  OBVIOUS
<1>4. \A p : p # at[t] /\ p # after[t] => S(after, p) = S(at, p)
  OBVIOUS
<1>5. t \in S(at, at[t]) /\ t \notin S(at, after[t])
  OBVIOUS
<1>6. Cardinality(S(at, at[t]) \ {t}) = Cardinality(S(at, at[t])) - 1
  <2> HIDE DEF S
  <2> QED
    BY <1>1, <1>5, FS_RemoveElement
<1>7. Cardinality(S(at, after[t]) \cup {t}) = Cardinality(S(at, after[t])) + 1
  <2> HIDE DEF S
  <2> QED
    BY <1>1, <1>5, FS_AddElement
<1> QED
  BY <1>2, <1>3, <1>4, <1>6, <1>7 DEF Count
(* A set that changes at one element only gains it, loses it or stays.      *)
LEMMA CardinalityMove ==
    ASSUME NEW before, IsFiniteSet(before), NEW after, NEW t,
           after \ {t} = before \ {t}
    PROVE  /\ Cardinality(before) \in Nat /\ Cardinality(after) \in Nat
           /\ IsFiniteSet(after)
           /\ t \in before /\ t \notin after
                => Cardinality(after) = Cardinality(before) - 1
           /\ t \notin before /\ t \in after
                => Cardinality(after) = Cardinality(before) + 1
           /\ (t \in before <=> t \in after)
                => Cardinality(after) = Cardinality(before)
<1>1. Cardinality(before) \in Nat
  BY FS_CardinalityType
<1>2. CASE t \in before /\ t \notin after
  <2>1. after = before \ {t}
    BY <1>2
  <2>2. IsFiniteSet(after) /\ Cardinality(after) = Cardinality(before) - 1
    BY <1>2, <2>1, FS_RemoveElement
  <2> QED
    BY <1>1, <1>2, <2>2, FS_CardinalityType
<1>3. CASE t \notin before /\ t \in after
  <2>1. after = before \cup {t}
    BY <1>3
  <2>2. IsFiniteSet(after) /\ Cardinality(after) = Cardinality(before) + 1
    BY <1>3, <2>1, FS_AddElement
  <2> QED
    BY <1>1, <1>3, <2>2
<1>4. CASE t \in before <=> t \in after
  <2>1. after = before
    BY <1>4
  <2> QED
    BY <1>1, <1>4, <2>1
<1> QED
  BY <1>2, <1>3, <1>4

(* What the threads have done, each f[t] times: a pair for each time.       *)
Pairs(f, threads) == {p \in threads \X (Nat \ {0}) : p[2] <= f[p[1]]}

LEMMA PairsNone ==
    ASSUME NEW threads, NEW f, \A t \in threads : f[t] = 0
    PROVE  IsFiniteSet(Pairs(f, threads)) /\ Cardinality(Pairs(f, threads)) = 0
<1>1. Pairs(f, threads) = {}
  BY DEF Pairs
<1> QED
  BY <1>1, FS_EmptySet

(* A thread that has done it once more adds one to the sum.                 *)
LEMMA PairsMore ==
    ASSUME NEW threads, NEW f, NEW g, \A u \in threads : f[u] \in Nat,
           NEW t \in threads, g[t] = f[t] + 1, \A u \in threads \ {t} : g[u] = f[u],
           IsFiniteSet(Pairs(f, threads))
    PROVE  /\ IsFiniteSet(Pairs(g, threads))
           /\ Cardinality(Pairs(f, threads)) \in Nat
           /\ Cardinality(Pairs(g, threads)) = Cardinality(Pairs(f, threads)) + 1
<1>1. PICK n \in Nat : n = f[t]
  OBVIOUS
<1>2. << t, n + 1 >> \notin Pairs(f, threads)
  BY <1>1 DEF Pairs
<1>3. ASSUME NEW u \in threads, NEW i \in Nat \ {0}
      PROVE  i <= g[u] <=> i <= f[u] \/ << u, i >> = << t, n + 1 >>
  <2>1. CASE u = t
    BY <1>1, <2>1
  <2>2. CASE u # t
    BY <2>2
  <2> QED
    BY <2>1, <2>2
<1>4. Pairs(g, threads) = Pairs(f, threads) \cup {<< t, n + 1 >>}
  <2>1. ASSUME NEW p \in threads \X (Nat \ {0})
        PROVE  p \in Pairs(g, threads) <=> p \in Pairs(f, threads) \/ p = << t, n + 1 >>
    <3>1. PICK u \in threads, i \in Nat \ {0} : p = << u, i >>
      OBVIOUS
    <3> QED
      BY <1>3, <3>1 DEF Pairs
  <2>2. << t, n + 1 >> \in threads \X (Nat \ {0})
    OBVIOUS
  <2>3. /\ Pairs(g, threads) \subseteq threads \X (Nat \ {0})
        /\ Pairs(f, threads) \subseteq threads \X (Nat \ {0})
    BY DEF Pairs
  <2> QED
    BY <2>1, <2>2, <2>3
<1> QED
  BY <1>2, <1>4, FS_AddElement, FS_CardinalityType

LEMMA PairsFull ==
    ASSUME NEW threads, IsFiniteSet(threads), NEW k \in Nat, NEW f,
           \A t \in threads : f[t] = k
    PROVE  Cardinality(Pairs(f, threads)) = Cardinality(threads) * k
<1>1. Pairs(f, threads) = threads \X (1 .. k)
  <2>1. ASSUME NEW p
        PROVE  p \in Pairs(f, threads) <=> p \in threads \X (1 .. k)
    BY DEF Pairs
  <2> QED
    BY <2>1
<1>2. IsFiniteSet(1 .. k) /\ Cardinality(1 .. k) = k
  BY FS_Interval
<1> QED
  BY <1>1, <1>2, FS_Product

(* A sequence of items of S without repetition and without one of them is   *)
(* shorter than S is large.                                                 *)
LEMMA ShorterSeq ==
    ASSUME NEW S, IsFiniteSet(S), NEW s \in Seq(S), NEW x \in S,
           \A i \in DOMAIN s : s[i] # x,
           \A i, j \in DOMAIN s : s[i] = s[j] => i = j
    PROVE  Len(s) < Cardinality(S)
<1> DEFINE others == S \ {x}
           places == 1 .. Len(s)
<1>1. Len(s) \in Nat /\ DOMAIN s = places /\ s \in [places -> others]
  BY LenProperties
<1>2. /\ IsFiniteSet(others) /\ Cardinality(S) \in Nat
      /\ Cardinality(others) = Cardinality(S) - 1
  BY FS_RemoveElement, FS_CardinalityType
<1>3. IsFiniteSet(places) /\ Cardinality(places) = Len(s)
  <2> DEFINE n == Len(s)
  <2>1. n \in Nat
    BY <1>1
  <2> HIDE DEF n
  <2>2. IsFiniteSet(1 .. n) /\ Cardinality(1 .. n) = n
    BY <2>1, FS_Interval
  <2> QED
    BY <2>2 DEF n
<1> HIDE DEF others, places
<1>4. ~ (Cardinality(others) < Cardinality(places))
  <2> SUFFICES ASSUME Cardinality(others) < Cardinality(places) PROVE FALSE
    OBVIOUS
  <2>1. \E i, j \in places : i # j /\ s[i] = s[j]
    BY <1>1, <1>2, <1>3, FS_PigeonHole
  <2> QED
    BY <1>1, <2>1
<1> QED
  BY <1>1, <1>2, <1>3, <1>4
-----------------------------------------------------------------------------
(* Induction: a set of naturals has a least element, so that a property     *)
(* that fails somewhere fails first somewhere.                              *)
LEMMA LeastElement ==
    ASSUME NEW A \in SUBSET Nat, A # {}
    PROVE  \E m \in A : \A k \in A : m <= k
<1> DEFINE R == OpToRel(<, Nat)
<1>1. IsWellFoundedOn(R, Nat)
  BY NatLessThanWellFounded
<1>2. PICK m \in A : \A k \in A : ~ (<<k, m>> \in R)
  BY <1>1, WFMin
<1>3. \A k, n \in Nat : k < n => <<k, n>> \in R
  BY DEF OpToRel
<1> HIDE DEF R
<1>4. m \in Nat /\ \A k \in A : k \in Nat /\ ~ (k < m)
  BY <1>2, <1>3, Zenon
<1>5. \A k \in A : m <= k
  BY <1>4
<1> QED
  BY <1>5

(* A set of naturals with 0 and each one's successor is all of them. *)
LEMMA SetInduction ==
    ASSUME NEW A \in SUBSET Nat, 0 \in A, \A n \in A : n + 1 \in A
    PROVE  A = Nat
<1> SUFFICES ASSUME Nat \ A # {} PROVE FALSE
  OBVIOUS
<1>1. PICK m \in Nat \ A : \A k \in Nat \ A : m <= k
  BY LeastElement
<1>2. m # 0 /\ m - 1 \in Nat
  BY <1>1
<1>3. m - 1 \in A
  BY <1>1, <1>2
<1>4. m - 1 + 1 = m
  BY <1>1
<1> QED
  BY <1>1, <1>3, <1>4

(* f starts at x0 and makes the steps that G tells.                         *)
Iterates(f, x0, G) == f[0] = x0 /\ \A n \in Nat : f[n + 1] = G[n][f[n]]

(* Definition by recursion over the naturals: such a function exists.       *)
LEMMA PrimitiveRecursion ==
    ASSUME NEW T, NEW x0 \in T, NEW G \in [Nat -> [T -> T]]
    PROVE  \E f \in [Nat -> T] : Iterates(f, x0, G)
<1> DEFINE Upto(n, f) == /\ f \in [0 .. n -> T] /\ f[0] = x0
                         /\ \A i \in 0 .. n - 1 : f[i + 1] = G[i][f[i]]
<1>1. ASSUME NEW n \in Nat, NEW m \in Nat, NEW f, Upto(n, f), NEW g, Upto(m, g), n <= m
      PROVE  \A i \in 0 .. n : f[i] = g[i]
  <2> DEFINE A == {i \in Nat : i <= n => f[i] = g[i]}
  <2>1. 0 \in A
    BY <1>1
  <2>2. ASSUME NEW i \in A PROVE i + 1 \in A
    <3>1. CASE i + 1 <= n
      <4>1. i \in 0 .. n - 1 /\ i \in 0 .. m - 1 /\ f[i] = g[i]
        BY <1>1, <2>2, <3>1
      <4> QED
        BY <1>1, <4>1
    <3>2. CASE ~ (i + 1 <= n)
      BY <3>2
    <3> QED
      BY <3>1, <3>2
  <2>3. A = Nat
    <3> HIDE DEF A
    <3>1. A \in SUBSET Nat
      BY DEF A
    <3> QED
      BY <2>1, <2>2, <3>1, SetInduction
  <2> QED
    BY <2>3
<1>2. \A n \in Nat : \E f : Upto(n, f)
  <2> DEFINE A == {n \in Nat : \E f : Upto(n, f)}
  <2>1. 0 \in A
    <3>1. Upto(0, [i \in 0 .. 0 |-> x0])
      OBVIOUS
    <3> QED
      BY <3>1
  <2>2. ASSUME NEW n \in A PROVE n + 1 \in A
    <3>1. PICK f : Upto(n, f)
      OBVIOUS
    <3>2. n \in Nat /\ f \in [0 .. n -> T] /\ f[n] \in T /\ G[n][f[n]] \in T
      BY <3>1
    <3> DEFINE g == [i \in 0 .. n + 1 |-> IF i = n + 1 THEN G[n][f[n]] ELSE f[i]]
    <3>3. g \in [0 .. n + 1 -> T] /\ g[0] = x0
      BY <3>1, <3>2
    <3>4. ASSUME NEW i \in 0 .. n + 1 - 1 PROVE g[i + 1] = G[i][g[i]]
      <4>1. i \in 0 .. n /\ i + 1 \in 0 .. n + 1 /\ g[i] = f[i]
        BY <3>2
      <4>2. CASE i = n
        BY <3>2, <4>1, <4>2
      <4>3. CASE i # n
        <5>1. i \in 0 .. n - 1 /\ i + 1 # n + 1
          BY <3>2, <4>1, <4>3
        <5>2. f[i + 1] = G[i][f[i]] /\ g[i + 1] = f[i + 1]
          BY <3>1, <4>1, <5>1
        <5> QED
          BY <4>1, <5>2
      <4> QED
        BY <4>2, <4>3
    <3>5. Upto(n + 1, g)
      <4> HIDE DEF g
      <4> QED
        BY <3>3, <3>4
    <3> HIDE DEF Upto, g
    <3> QED
      BY <3>2, <3>5
  <2>3. A = Nat
    <3> HIDE DEF A
    <3>1. A \in SUBSET Nat
      BY DEF A
    <3> QED
      BY <2>1, <2>2, <3>1, SetInduction
  <2> QED
    BY <2>3
<1> DEFINE best(n) == CHOOSE f : Upto(n, f)
           whole == [n \in Nat |-> best(n)[n]]
<1>3. \A n \in Nat : Upto(n, best(n))
  <2> HIDE DEF Upto
  <2> QED
    BY <1>2
<1> HIDE DEF best
<1>4. whole \in [Nat -> T] /\ whole[0] = x0
  BY <1>3
<1>5. ASSUME NEW n \in Nat PROVE whole[n + 1] = G[n][whole[n]]
  <2>1. n + 1 \in Nat /\ n <= n + 1 /\ n \in 0 .. n /\ n \in 0 .. n + 1 - 1
    OBVIOUS
  <2>2. Upto(n, best(n)) /\ Upto(n + 1, best(n + 1))
    BY <1>3, <2>1
  <2>3. best(n)[n] = best(n + 1)[n]
    <3> HIDE DEF Upto
    <3> QED
      BY <1>1, <2>1, <2>2
  <2>4. best(n + 1)[n + 1] = G[n][best(n + 1)[n]]
    BY <2>1, <2>2
  <2> QED
    BY <2>1, <2>3, <2>4
<1> QED
  BY <1>4, <1>5 DEF Iterates

(* Products of naturals are naturals: all the non-linear arithmetic used.   *)
LEMMA ProductNonnegative == \A x, y \in Nat : x * y >= 0
  BY SMT

(* Division with remainder. *)
LEMMA Division ==
    \A c \in Nat \ {0}, a \in Nat :
       /\ a \div c \in Int
       /\ a % c \in 0 .. c - 1
       /\ a = c * (a \div c) + (a % c)
  BY SMT

(* The only multiple of c between -c and c is 0. *)
LEMMA NoMultipleBetween ==
    ASSUME NEW c \in Nat \ {0}, NEW k \in Int, -c < c * k, c * k < c
    PROVE  k = 0
<1>1. CASE k >= 1
  <2>1. c * (k - 1) >= 0
    BY <1>1, ProductNonnegative
  <2>2. c * k = c * (k - 1) + c
    BY SMT
  <2> QED
    BY <2>1, <2>2
<1>2. CASE k <= -1
  <2>1. -k - 1 \in Nat
    BY <1>2
  <2>2. c * (-k - 1) >= 0
    BY <2>1, ProductNonnegative
  <2>3. c * k = -(c * (-k - 1)) - c
    BY SMT
  <2> QED
    BY <2>2, <2>3
<1> QED
  BY <1>1, <1>2

(* A lap further is the same slot. *)
LEMMA NextLap ==
    ASSUME NEW c \in Nat \ {0}, NEW a \in Nat
    PROVE  (a + c) % c = a % c
<1> DEFINE q == a \div c
           r == (a + c) \div c
<1>1. q \in Int /\ a % c \in 0 .. c - 1 /\ a = c * q + (a % c)
  BY Division
<1>2. r \in Int /\ (a + c) % c \in 0 .. c - 1 /\ a + c = c * r + ((a + c) % c)
  <2>1. a + c \in Nat
    OBVIOUS
  <2> QED
    BY <2>1, Division
<1> HIDE DEF q, r
<1>3. c * (r - q - 1) = c * r - c * q - c
  BY <1>1, <1>2
<1>4. c * (r - q - 1) = (a % c) - ((a + c) % c)
  BY <1>1, <1>2, <1>3
<1>5. r - q - 1 = 0
  BY <1>1, <1>2, <1>4, NoMultipleBetween
<1>6. c * (r - q - 1) = 0
  BY <1>5
<1> QED
  BY <1>1, <1>2, <1>4, <1>6

(* Less than a lap further is another slot. *)
LEMMA WithinLap ==
    ASSUME NEW c \in Nat \ {0}, NEW a \in Nat, NEW b \in Nat, a < b, b < a + c
    PROVE  a % c # b % c
<1> SUFFICES ASSUME a % c = b % c PROVE FALSE
  OBVIOUS
<1> DEFINE q == a \div c
           r == b \div c
<1>1. q \in Int /\ a % c \in 0 .. c - 1 /\ a = c * q + (a % c)
  BY Division
<1>2. r \in Int /\ b % c \in 0 .. c - 1 /\ b = c * r + (b % c)
  BY Division
<1> HIDE DEF q, r
<1>3. c * (r - q) = c * r - c * q
  BY <1>1, <1>2
<1>4. c * (r - q) = b - a
  BY <1>1, <1>2, <1>3
<1>5. r - q = 0
  BY <1>1, <1>2, <1>4, NoMultipleBetween
<1>6. c * (r - q) = 0
  BY <1>5
<1> QED
  BY <1>4, <1>6

(* Reducing a summand first changes nothing. *)
LEMMA ModuloSum ==
    ASSUME NEW c \in Nat \ {0}, NEW a \in Nat, NEW b \in Nat
    PROVE  ((a % c) + b) % c = (a + b) % c
<1> DEFINE q == a \div c
           r == (a + b) \div c
           s == ((a % c) + b) \div c
           x == (a + b) % c
           y == ((a % c) + b) % c
<1>1. q \in Int /\ a % c \in 0 .. c - 1 /\ a = c * q + (a % c)
  BY Division
<1>2. r \in Int /\ x \in 0 .. c - 1 /\ a + b = c * r + x
  <2>1. a + b \in Nat
    OBVIOUS
  <2> QED
    BY <2>1, Division
<1>3. s \in Int /\ y \in 0 .. c - 1 /\ (a % c) + b = c * s + y
  <2>1. (a % c) + b \in Nat
    BY <1>1
  <2> QED
    BY <2>1, Division
<1> HIDE DEF q, r, s, x, y
<1>4. c * (q + s - r) = c * q + c * s - c * r
  BY <1>1, <1>2, <1>3
<1>5. c * (q + s - r) = x - y
  BY <1>1, <1>2, <1>3, <1>4
<1>6. q + s - r = 0
  BY <1>1, <1>2, <1>3, <1>5, NoMultipleBetween
<1>7. x = y
  BY <1>2, <1>3, <1>5, <1>6
<1> QED
  BY <1>7 DEF x, y

(* Up to two laps, % takes one lap off.                                     *)
LEMMA WithinTwoLaps ==
    ASSUME NEW c \in Nat \ {0}, NEW a \in 0 .. 2 * c - 1
    PROVE  a % c = IF a < c THEN a ELSE a - c
<1>1. \A b \in 0 .. c - 1 : b % c = b
  <2> SUFFICES ASSUME NEW b \in 0 .. c - 1 PROVE b % c = b
    OBVIOUS
  <2> DEFINE q == b \div c
  <2>1. q \in Int /\ b % c \in 0 .. c - 1 /\ b = c * q + (b % c)
    BY Division
  <2> HIDE DEF q
  <2>2. q = 0
    BY <2>1, NoMultipleBetween
  <2>3. c * q = 0
    BY <2>2
  <2> QED
    BY <2>1, <2>3
<1>2. CASE a < c
  BY <1>1, <1>2
<1>3. CASE a >= c
  <2> DEFINE b == a - c
  <2>1. b \in 0 .. c - 1 /\ b \in Nat /\ b + c = a
    BY <1>3
  <2> HIDE DEF b
  <2>2. a % c = b
    BY <1>1, <2>1, NextLap
  <2> QED
    BY <1>3, <2>2 DEF b
<1> QED
  BY <1>2, <1>3
-----------------------------------------------------------------------------
(* A function on 1 .. n is a sequence of length n.                          *)
LEMMA FunctionSeq ==
    ASSUME NEW S, NEW n \in Nat, NEW s \in [1 .. n -> S]
    PROVE  s \in Seq(S) /\ Len(s) = n
<1>1. s \in Seq(S)
  BY SeqDef
<1>2. Len(s) \in Nat /\ DOMAIN s = 1 .. Len(s)
  BY <1>1, LenProperties
<1>3. 1 .. Len(s) = 1 .. n
  BY <1>2
<1>4. Len(s) = n
  BY <1>2, <1>3, SMT
<1> QED
  BY <1>1, <1>4

(* The sequence with one more item at its end.                              *)
LEMMA IsAppend ==
    ASSUME NEW S, NEW s \in Seq(S), NEW item \in S, NEW after \in Seq(S),
           Len(after) = Len(s) + 1, after[Len(s) + 1] = item,
           \A i \in 1 .. Len(s) : after[i] = s[i]
    PROVE  after = Append(s, item)
<1> DEFINE a == Append(s, item)
<1>1. /\ a \in Seq(S) /\ Len(a) = Len(s) + 1 /\ a[Len(s) + 1] = item
      /\ \A i \in 1 .. Len(s) : a[i] = s[i]
  BY AppendProperties
<1>2. Len(s) \in Nat
  BY LenProperties
<1> HIDE DEF a
<1>3. \A i \in 1 .. Len(after) : after[i] = a[i]
  BY <1>1, <1>2
<1>4. after = a
  BY <1>1, <1>3, SeqEqual
<1> QED
  BY <1>4 DEF a

(* The sequence without its first item.                                     *)
LEMMA IsTail ==
    ASSUME NEW S, NEW s \in Seq(S), s # << >>, NEW after \in Seq(S),
           Len(after) = Len(s) - 1,
           \A i \in 1 .. Len(after) : after[i] = s[i + 1]
    PROVE  after = Tail(s)
<1>1. /\ Tail(s) \in Seq(S) /\ Len(Tail(s)) = Len(s) - 1
      /\ \A i \in 1 .. Len(Tail(s)) : Tail(s)[i] = s[i + 1]
  BY HeadTailProperties
<1> QED
  BY <1>1, SeqEqual
-----------------------------------------------------------------------------
(* The n items of a ring of c places that start at the place `first'.       *)
Window(ring, first, n, c) == [i \in 1 .. n |-> ring[(first + i - 1) % c]]

(* They are a sequence of length n, and of whatever the ring holds.         *)
LEMMA WindowLen ==
    ASSUME NEW c, NEW ring, NEW first, NEW n \in Nat
    PROVE  Len(Window(ring, first, n, c)) = n
<1> DEFINE w == [i \in 1 .. n |-> ring[(first + i - 1) % c]]
           items == { w[i] : i \in 1 .. n }
<1>1. w \in [1 .. n -> items]
  OBVIOUS
<1> HIDE DEF items
<1>2. Len(w) = n
  <2> HIDE DEF w
  <2> QED
    BY <1>1, FunctionSeq
<1> QED
  BY <1>2 DEF Window

LEMMA WindowType ==
    ASSUME NEW S, NEW c \in Nat \ {0}, NEW ring \in [0 .. c - 1 -> S],
           NEW first \in Nat, NEW n \in Nat
    PROVE  Window(ring, first, n, c) \in Seq(S)
<1>1. ASSUME NEW i \in 1 .. n
      PROVE  ring[(first + i - 1) % c] \in S
  <2>1. first + i - 1 \in Nat
    OBVIOUS
  <2>2. (first + i - 1) % c \in 0 .. c - 1
    BY <2>1, Division
  <2> QED
    BY <2>2
<1>2. Window(ring, first, n, c) \in [1 .. n -> S]
  BY <1>1 DEF Window
<1> QED
  BY <1>2, FunctionSeq

(* One sequence is the other with an item at its end.  (The provers find    *)
(* their way to WindowAppend only if the equation has a name.)              *)
Appended(after, before, item) == after = Append(before, item)

(* Writing the first free place appends an item.                            *)
LEMMA WindowAppend ==
    ASSUME NEW S, NEW c \in Nat \ {0}, NEW ring \in [0 .. c - 1 -> S],
           NEW first \in Nat, NEW n \in Nat, n < c, NEW item \in S,
           NEW written \in [0 .. c - 1 -> S], written[(first + n) % c] = item,
           \A j \in 0 .. c - 1 \ {(first + n) % c} : written[j] = ring[j]
    PROVE  Appended(Window(written, first, n + 1, c), Window(ring, first, n, c), item)
<1> DEFINE place == (first + n) % c
           before == Window(ring, first, n, c)
           after == Window(written, first, n + 1, c)
<1>1. place \in 0 .. c - 1
  <2>1. first + n \in Nat
    OBVIOUS
  <2> QED
    BY <2>1, Division
<1>2. /\ written[place] = item
      /\ \A j \in 0 .. c - 1 : j # place => written[j] = ring[j]
  OBVIOUS
<1>3. /\ before \in Seq(S) /\ Len(before) = n
      /\ \A i \in 1 .. n : before[i] = ring[(first + i - 1) % c]
  <2>1. before \in Seq(S)
    BY WindowType
  <2>2. Len(before) = n
    BY WindowLen
  <2>3. \A i \in 1 .. n : before[i] = ring[(first + i - 1) % c]
    BY DEF Window
  <2> QED
    BY <2>1, <2>2, <2>3
<1>4. /\ after \in Seq(S) /\ Len(after) = n + 1
      /\ \A i \in 1 .. n + 1 : after[i] = written[(first + i - 1) % c]
  <2>1. n + 1 \in Nat
    OBVIOUS
  <2>2. after \in Seq(S)
    BY <1>2, <2>1, WindowType
  <2>3. Len(after) = n + 1
    BY <1>2, <2>1, WindowLen
  <2>4. \A i \in 1 .. n + 1 : after[i] = written[(first + i - 1) % c]
    BY DEF Window
  <2> QED
    BY <2>2, <2>3, <2>4
<1> HIDE DEF before, after
<1>5. after[n + 1] = item
  <2>1. first + (n + 1) - 1 = first + n
    OBVIOUS
  <2>2. after[n + 1] = written[place]
    BY <1>4, <2>1
  <2> QED
    BY <1>2, <2>2
<1>6. ASSUME NEW i \in 1 .. n
      PROVE  after[i] = before[i]
  <2> DEFINE p == first + i - 1
  <2>1. p \in Nat /\ p < first + n /\ first + n < p + c /\ first + n \in Nat
    OBVIOUS
  <2>2. after[i] = written[p % c] /\ before[i] = ring[p % c]
    BY <1>3, <1>4
  <2> HIDE DEF p
  <2>3. p % c # place
    BY <2>1, WithinLap
  <2>4. p % c \in 0 .. c - 1
    BY <2>1, Division
  <2> QED
    BY <1>2, <2>2, <2>3, <2>4
<1>7. after = Append(before, item)
  BY <1>3, <1>4, <1>5, <1>6, IsAppend
<1> QED
  BY <1>7 DEF before, after, Appended

(* Moving on from the first place takes the head off.                       *)
LEMMA WindowTail ==
    ASSUME NEW S, NEW c \in Nat \ {0}, NEW ring \in [0 .. c - 1 -> S],
           NEW first \in Nat, NEW n \in Nat \ {0}
    PROVE  /\ Window(ring, first, n, c) # << >>
           /\ Head(Window(ring, first, n, c)) = ring[first % c]
           /\ Window(ring, (first + 1) % c, n - 1, c)
                 = Tail(Window(ring, first, n, c))
<1> DEFINE before == Window(ring, first, n, c)
           second == (first + 1) % c
           after == Window(ring, second, n - 1, c)
<1>1. /\ before \in Seq(S) /\ Len(before) = n
      /\ \A i \in 1 .. n : before[i] = ring[(first + i - 1) % c]
  <2>1. before \in Seq(S)
    BY WindowType
  <2>2. Len(before) = n
    BY WindowLen
  <2>3. \A i \in 1 .. n : before[i] = ring[(first + i - 1) % c]
    BY DEF Window
  <2> QED
    BY <2>1, <2>2, <2>3
<1>2. second \in Nat
  <2>1. first + 1 \in Nat
    OBVIOUS
  <2> QED
    BY <2>1, Division
<1>3. /\ after \in Seq(S) /\ Len(after) = n - 1
      /\ \A i \in 1 .. n - 1 : after[i] = ring[(second + i - 1) % c]
  <2>1. n - 1 \in Nat
    OBVIOUS
  <2>2. after \in Seq(S)
    BY <1>2, <2>1, WindowType
  <2>3. Len(after) = n - 1
    BY <1>2, <2>1, WindowLen
  <2>4. \A i \in 1 .. n - 1 : after[i] = ring[(second + i - 1) % c]
    BY DEF Window
  <2> QED
    BY <2>2, <2>3, <2>4
<1> HIDE DEF before, after
<1>4. before # << >>
  BY <1>1
<1>5. Head(before) = ring[first % c]
  <2>1. first + 1 - 1 = first
    OBVIOUS
  <2>2. before[1] = ring[first % c]
    BY <1>1, <2>1
  <2> QED
    BY <1>1, <1>4, <2>2
<1>6. ASSUME NEW i \in 1 .. n - 1
      PROVE  after[i] = before[i + 1]
  <2>1. /\ i - 1 \in Nat /\ first + 1 \in Nat /\ second + i - 1 = second + (i - 1)
        /\ (first + 1) + (i - 1) = first + (i + 1) - 1 /\ i + 1 \in 1 .. n
    BY <1>2
  <2>2. (second + (i - 1)) % c = ((first + 1) + (i - 1)) % c
    BY <2>1, ModuloSum
  <2> HIDE DEF second
  <2> QED
    BY <1>1, <1>3, <2>1, <2>2
<1>7. after = Tail(before)
  BY <1>1, <1>3, <1>4, <1>6, IsTail
<1> QED
  BY <1>4, <1>5, <1>7 DEF before, after
=============================================================================
