---------------------------- MODULE BuddyProofs -----------------------------
(***************************************************************************)
(* One pool of the buddy allocator, of any order: whatever its callers     *)
(* allocate and free, the blocks on its lists and the blocks handed out    *)
(* make up the pool, a block that is held can be freed, NULL is returned   *)
(* only where no block of the size is left, and buddy_alloc and buddy_free *)
(* do what AbstractAllocator says.                                         *)
(*                                                                         *)
(* First what is needed of powers of two and of lists, then blocks that    *)
(* tile a pool, the invariant PoolInv, that the two operations keep it,    *)
(* and the theorems.  At the end the list of pools of main.c, which        *)
(* OnDemandProofs uses: the pools that ADD_MEMORY makes, and what          *)
(* petmem_alloc_pages and petmem_free_pages do with them.                  *)
(***************************************************************************)
EXTENDS Buddy, PagePools, WellFoundedInduction, TLAPS

\* Induction over the natural numbers, on a set.
LEMMA NatIn ==
  ASSUME NEW S, 0 \in S, \A n \in Nat : n \in S => n + 1 \in S
  PROVE  Nat \subseteq S
<1> SUFFICES ASSUME Nat \ S # {} PROVE FALSE
  OBVIOUS
<1> DEFINE T == Nat \ S
<1>1. PICK x \in T : \A y \in T : ~ (<<y, x>> \in OpToRel(<, Nat))
  <2>1. T \subseteq Nat /\ T # {}
    OBVIOUS
  <2> HIDE DEF T
  <2> QED BY <2>1, NatLessThanWellFounded, WFMin, Zenon
<1>2. x \in Nat /\ x # 0
  OBVIOUS
<1>3. x - 1 \in Nat /\ (x - 1) + 1 = x /\ x - 1 < x
  BY <1>2
<1>4. x - 1 \in T
  BY <1>2, <1>3
<1>5. <<x - 1, x>> \in OpToRel(<, Nat)
  BY <1>2, <1>3 DEF OpToRel
<1> QED BY <1>1, <1>4, <1>5, Zenon

-----------------------------------------------------------------------------
\* The function that pow2 is defined as exists.
LEMMA PowerDef == \A k \in Nat : pow2[k] = IF k = 0 THEN 1 ELSE 2 * pow2[k - 1]
<1> DEFINE Step(f, n) == [k \in 0 .. n |-> IF k = 0 THEN 1 ELSE 2 * f[k - 1]]
           Is == {n \in Nat : \E f : f = Step(f, n)}
<1>1. 0 \in Is
  <2> DEFINE f == [k \in 0 .. 0 |-> 1]
  <2>1. f = Step(f, 0)
    OBVIOUS
  <2> QED BY <2>1, Zenon
<1>2. ASSUME NEW n \in Nat, n \in Is PROVE n + 1 \in Is
  <2>0. n + 1 \in Nat
    OBVIOUS
  <2> SUFFICES \E f : f = Step(f, n + 1)
    BY <2>0, Zenon
  <2>1. PICK f : f = Step(f, n)
    BY <1>2
  <2> DEFINE g == [k \in 0 .. n + 1 |-> IF k = n + 1 THEN 2 * f[n] ELSE f[k]]
  <2>2. ASSUME NEW k \in 0 .. n + 1
        PROVE  g[k] = IF k = 0 THEN 1 ELSE 2 * g[k - 1]
    <3>1. CASE k = n + 1
      BY <3>1
    <3>2. CASE k # n + 1
      <4>1. k \in 0 .. n /\ g[k] = f[k]
        BY <3>2
      <4>2. f[k] = IF k = 0 THEN 1 ELSE 2 * f[k - 1]
        BY <2>1, <4>1
      <4>3. k # 0 => g[k - 1] = f[k - 1]
        BY <4>1
      <4> QED BY <4>1, <4>2, <4>3
    <3> QED BY <3>1, <3>2
  <2>3. g = Step(g, n + 1)
    BY <2>2
  <2> QED BY <2>3, Zenon
<1>3. Nat \subseteq Is
  <2> HIDE DEF Is
  <2> QED BY <1>1, <1>2, NatIn
<1> DEFINE F(n) == CHOOSE f : f = Step(f, n)
           h == [n \in Nat |-> F(n)[n]]
<1>4. \A n \in Nat : F(n) = Step(F(n), n)
  <2>1. \A n \in Nat : \E f : f = Step(f, n)
    BY Zenon, <1>3
  <2> QED BY <2>1, Zenon
<1> HIDE DEF F
<1>5. \A n \in Nat : \A k \in 0 .. n : F(n)[k] = IF k = 0 THEN 1 ELSE 2 * F(n)[k - 1]
  BY <1>4, Zenon
<1>6. ASSUME NEW n \in Nat PROVE F(n)[n] = F(n + 1)[n]
  <2> DEFINE Same == {k \in Nat : k <= n => F(n)[k] = F(n + 1)[k]}
  <2>1. 0 \in Same
    <3>1. 0 \in 0 .. n /\ 0 \in 0 .. n + 1
      OBVIOUS
    <3> QED BY <1>5, <3>1
  <2>2. ASSUME NEW k \in Nat, k \in Same PROVE k + 1 \in Same
    <3> SUFFICES ASSUME k + 1 <= n PROVE F(n)[k + 1] = F(n + 1)[k + 1]
      OBVIOUS
    <3>1. k + 1 \in 0 .. n /\ k + 1 \in 0 .. n + 1 /\ k + 1 # 0 /\ (k + 1) - 1 = k
      OBVIOUS
    <3>2. F(n)[k + 1] = 2 * F(n)[k] /\ F(n + 1)[k + 1] = 2 * F(n + 1)[k]
      BY <1>5, <3>1
    <3> QED BY <2>2, <3>2
  <2>3. n \in Same
    <3> HIDE DEF Same
    <3> QED BY <2>1, <2>2, NatIn
  <2> QED BY <2>3
<1>7. \A k \in Nat : h[k] = IF k = 0 THEN 1 ELSE 2 * h[k - 1]
  <2> TAKE k \in Nat
  <2>1. F(k)[k] = IF k = 0 THEN 1 ELSE 2 * F(k)[k - 1]
    BY <1>5
  <2>2. CASE k = 0
    BY <2>1, <2>2
  <2>3. CASE k # 0
    <3>1. k - 1 \in Nat /\ (k - 1) + 1 = k
      BY <2>3
    <3>2. F(k - 1)[k - 1] = F(k)[k - 1]
      BY <1>6, <3>1
    <3> QED BY <2>1, <2>3, <3>1, <3>2
  <2> QED BY <2>2, <2>3
<1>8. h = [k \in Nat |-> IF k = 0 THEN 1 ELSE 2 * h[k - 1]]
  BY <1>7
<1>9. \E f : f = [k \in Nat |-> IF k = 0 THEN 1 ELSE 2 * f[k - 1]]
  <2> HIDE DEF h
  <2> QED BY <1>8
<1>10. pow2 = [k \in Nat |-> IF k = 0 THEN 1 ELSE 2 * pow2[k - 1]]
  <2>1. pow2 = CHOOSE f : f = [k \in Nat |-> IF k = 0 THEN 1 ELSE 2 * f[k - 1]]
    BY DEF pow2
  <2> QED BY <1>9, <2>1, Zenon
<1> QED BY <1>10, Zenon

\* A block of the next order is two of this one.
LEMMA Power ==
  /\ pow2[0] = 1
  /\ \A k \in Nat : pow2[k] \in Nat \ {0} /\ pow2[k + 1] = pow2[k] + pow2[k]
<1> DEFINE Pos == {k \in Nat : pow2[k] \in Nat \ {0}}
<1>1. pow2[0] = 1
  BY PowerDef
<1>2. \A k \in Nat : pow2[k + 1] = 2 * pow2[k]
  <2> TAKE k \in Nat
  <2>1. k + 1 \in Nat /\ k + 1 # 0 /\ (k + 1) - 1 = k
    OBVIOUS
  <2> QED BY <2>1, PowerDef
<1>3. 0 \in Pos
  BY <1>1
<1>4. ASSUME NEW k \in Nat, k \in Pos PROVE k + 1 \in Pos
  BY <1>2, <1>4
<1>5. Nat \subseteq Pos
  <2> HIDE DEF Pos
  <2> QED BY <1>3, <1>4, NatIn
<1> QED BY <1>1, <1>2, <1>5

\* Division by a positive number.
LEMMA QuotientAndRest ==
    ASSUME NEW d \in Nat \ {0}, NEW q \in Nat, NEW r \in 0 .. d - 1
    PROVE  (q * d + r) \div d = q /\ (q * d + r) % d = r
<1> DEFINE x == q * d + r
<1>1. x \in Nat
  OBVIOUS
<1> HIDE DEF x
<1>2. x = d * q + r
  BY DEF x
<1>3. x \div d = q
  BY <1>1, <1>2
<1>4. x % d = r
  BY <1>1, <1>2
<1> QED BY <1>3, <1>4 DEF x

\* Every number is a multiple of d and a rest.
LEMMA Division ==
    ASSUME NEW d \in Nat \ {0}, NEW a \in Nat
    PROVE  \E q \in Nat, r \in 0 .. d - 1 : a = q * d + r /\ a \div d = q /\ a % d = r
<1> DEFINE q == a \div d
           r == a - d * q
<1>1. q \in Nat /\ d * q \in Nat
  OBVIOUS
<1>2. d * (a \div d) <= a
  OBVIOUS
<1>3. a < d * (a \div d) + d
  OBVIOUS
<1>d. q = a \div d
  OBVIOUS
<1> HIDE DEF q
<1>4. r \in 0 .. d - 1 /\ a = d * q + r
  BY <1>1, <1>2, <1>3, <1>d
<1> HIDE DEF r
<1>5. a % d = r
  BY <1>1, <1>4
<1>6. d * q = q * d
  BY <1>1
<1> QED BY <1>1, <1>d, <1>4, <1>5, <1>6, Zenon

\* A block of order k begins at a multiple of its size.
Aligned(a, k) == \E q \in Nat : a = q * pow2[k]

\* The size of a block is a multiple of the size of a smaller one.
LEMMA Divides ==
    \A k \in Nat : \A j \in 0 .. k : \E q \in Nat \ {0} : pow2[k] = q * pow2[j]
<1> DEFINE D == {k \in Nat : \A j \in 0 .. k : \E q \in Nat \ {0} : pow2[k] = q * pow2[j]}
<1>1. 0 \in D
  BY Power
<1>2. ASSUME NEW k \in Nat, k \in D PROVE k + 1 \in D
  <2> SUFFICES ASSUME NEW j \in 0 .. k + 1 PROVE \E q \in Nat \ {0} : pow2[k + 1] = q * pow2[j]
    OBVIOUS
  <2>1. CASE j = k + 1
    <3>1. pow2[k + 1] = 1 * pow2[k + 1]
      BY Power
    <3> QED BY <2>1, <3>1
  <2>2. CASE j # k + 1
    <3>1. PICK q \in Nat \ {0} : pow2[k] = q * pow2[j]
      BY <1>2, <2>2
    <3>2. j \in Nat /\ pow2[j] \in Nat
      BY Power
    <3>3. pow2[k + 1] = q * pow2[j] + q * pow2[j]
      BY <3>1, Power
    <3>4. q * pow2[j] + q * pow2[j] = (q + q) * pow2[j]
      BY <3>2
    <3>5. q + q \in Nat \ {0}
      OBVIOUS
    <3> QED BY <3>3, <3>4, <3>5
  <2> QED BY <2>1, <2>2
<1>3. Nat \subseteq D
  <2> HIDE DEF D
  <2> QED BY <1>1, <1>2, NatIn
<1> QED BY <1>3

\* Alignment as Partition states it.
LEMMA AlignedMod ==
    ASSUME NEW k \in Nat, NEW a \in Nat
    PROVE  Aligned(a, k) <=> a % pow2[k] = 0
<1> DEFINE d == pow2[k]
<1>1. d \in Nat \ {0}
  BY Power
<1> HIDE DEF d
<1>2. ASSUME NEW q \in Nat, a = q * d PROVE a % d = 0
  <2>1. a = q * d + 0 /\ 0 \in 0 .. d - 1
    BY <1>1, <1>2
  <2> QED BY <1>1, <2>1, QuotientAndRest
<1>3. ASSUME a % d = 0 PROVE \E q \in Nat : a = q * d
  <2>1. PICK q \in Nat, r \in 0 .. d - 1 : a = q * d + r /\ a % d = r
    BY <1>1, Division
  <2> QED BY <1>1, <1>3, <2>1
<1> QED BY <1>2, <1>3 DEF Aligned, d

\* What is aligned to a size is aligned to the smaller ones.
LEMMA AlignedDown ==
    ASSUME NEW k \in Nat, NEW j \in 0 .. k, NEW a, Aligned(a, k)
    PROVE  Aligned(a, j) /\ a \in Nat
<1>1. PICK q \in Nat : a = q * pow2[k]
  BY DEF Aligned
<1>2. PICK r \in Nat \ {0} : pow2[k] = r * pow2[j]
  BY Divides
<1>3. pow2[j] \in Nat /\ pow2[k] \in Nat /\ j \in Nat
  BY Power
<1>4. q * (r * pow2[j]) = (q * r) * pow2[j] /\ q * r \in Nat
  BY <1>3
<1>5. a \in Nat
  BY <1>1, <1>3
<1> QED BY <1>1, <1>2, <1>4, <1>5 DEF Aligned

\* Two blocks are nested or apart.
LEMMA Nest ==
    ASSUME NEW k \in Nat, NEW j \in 0 .. k, NEW a, NEW c, Aligned(a, j), Aligned(c, k)
    PROVE  \/ c <= a /\ a + pow2[j] <= c + pow2[k]
           \/ a + pow2[j] <= c
           \/ c + pow2[k] <= a
<1>1. PICK p \in Nat : a = p * pow2[j]
  BY DEF Aligned
<1>2. PICK q \in Nat : c = q * pow2[j]
  BY AlignedDown DEF Aligned
<1>3. PICK r \in Nat \ {0} : pow2[k] = r * pow2[j]
  BY Divides
<1> DEFINE d == pow2[j]
<1>4. d \in Nat \ {0} /\ j \in Nat
  BY Power
<1> HIDE DEF d
<1>5. /\ a + d = (p + 1) * d
      /\ c + pow2[k] = (q + r) * d
  BY <1>1, <1>2, <1>3, <1>4 DEF d
<1>6. \A x, y \in Nat : x <= y => x * d <= y * d
  <2> TAKE x, y \in Nat
  <2> HAVE x <= y
  <2>1. y * d = x * d + (y - x) * d
    BY <1>4
  <2>2. (y - x) * d \in Nat /\ x * d \in Nat
    BY <1>4
  <2> QED BY <2>1, <2>2
<1>7. CASE p + 1 <= q
  <2>1. (p + 1) * d <= q * d
    BY <1>6, <1>7
  <2> QED BY <1>2, <1>5, <2>1 DEF d
<1>8. CASE q + r <= p
  <2>1. (q + r) * d <= p * d
    BY <1>6, <1>8
  <2> QED BY <1>1, <1>5, <2>1 DEF d
<1>9. CASE q <= p /\ p + 1 <= q + r
  <2>1. q * d <= p * d /\ (p + 1) * d <= (q + r) * d
    BY <1>6, <1>9
  <2> QED BY <1>1, <1>2, <1>5, <2>1 DEF d
<1>10. (p + 1 <= q) \/ (q + r <= p) \/ (q <= p /\ p + 1 <= q + r)
  OBVIOUS
<1> QED BY <1>7, <1>8, <1>9, <1>10

\* Two buddies are the halves of the block they merge to.
LEMMA Siblings ==
    ASSUME NEW k \in Nat, NEW m, Aligned(m, k)
    PROVE  /\ Aligned(merged(m, k + 1), k + 1)
           /\ \/ m = merged(m, k + 1) /\ find_buddy(m, k) = m + pow2[k]
              \/ m = merged(m, k + 1) + pow2[k] /\ find_buddy(m, k) = merged(m, k + 1)
<1> DEFINE d == pow2[k]
<1>1. d \in Nat \ {0} /\ pow2[k + 1] = d + d
  BY Power
<1> HIDE DEF d
<1>2. PICK q \in Nat : m = q * d
  BY DEF Aligned, d
<1>3. PICK r \in Nat, e \in 0 .. 1 : q = r * 2 + e /\ q % 2 = e
  <2>1. 2 \in Nat \ {0} /\ 0 .. 2 - 1 = 0 .. 1
    OBVIOUS
  <2> QED BY <2>1, Division
<1>4. m \in Nat /\ m \div d = q
  <2>1. m = q * d + 0 /\ 0 \in 0 .. d - 1 /\ m \in Nat
    BY <1>1, <1>2
  <2> QED BY <1>1, <2>1, QuotientAndRest
<1>5. m = r * (d + d) + e * d
  BY <1>1, <1>2, <1>3
<1>6. m % (d + d) = e * d
  <2>1. d + d \in Nat \ {0} /\ e * d \in 0 .. (d + d) - 1
    BY <1>1
  <2> QED BY <1>5, <2>1, QuotientAndRest
<1>7. merged(m, k + 1) = r * pow2[k + 1]
  BY <1>1, <1>4, <1>5, <1>6 DEF merged
<1>8. CASE e = 0
  <2>1. e * d = 0
    BY <1>1, <1>8
  <2>2. m = merged(m, k + 1)
    BY <1>1, <1>4, <1>6, <2>1 DEF merged
  <2>3. find_buddy(m, k) = m + pow2[k]
    BY <1>3, <1>4, <1>8 DEF find_buddy, d
  <2> QED BY <1>7, <2>2, <2>3 DEF Aligned
<1>9. CASE e = 1
  <2>1. e * d = d
    BY <1>1, <1>9
  <2>2. merged(m, k + 1) = m - d
    BY <1>1, <1>4, <1>6, <2>1 DEF merged
  <2>3. find_buddy(m, k) = m - d
    BY <1>3, <1>4, <1>9 DEF find_buddy, d
  <2>4. m = merged(m, k + 1) + pow2[k]
    BY <1>1, <1>4, <2>2 DEF d
  <2> QED BY <1>7, <2>2, <2>3, <2>4 DEF Aligned
<1> QED BY <1>8, <1>9

\* Merging goes on from where it has got to.
LEMMA Merged ==
    ASSUME NEW k \in Nat, NEW a \in Nat
    PROVE  /\ Aligned(merged(a, k), k)
           /\ merged(a, k + 1) = merged(merged(a, k), k + 1)
           /\ Aligned(a, k) => merged(a, k) = a
           /\ merged(a, k) <= a /\ a < merged(a, k) + pow2[k]
<1> DEFINE d == pow2[k]
<1>1. d \in Nat \ {0} /\ pow2[k + 1] = d + d /\ d + d \in Nat \ {0}
  BY Power
<1> HIDE DEF d
<1>2. PICK q \in Nat, s \in 0 .. d - 1 : a = q * d + s /\ a % d = s
  BY Zenon, <1>1, Division
<1>3. merged(a, k) = q * d /\ q * d \in Nat
  BY <1>1, <1>2 DEF merged, d
<1>4. PICK r \in Nat, e \in 0 .. 1 : q = r * 2 + e
  <2>1. 2 \in Nat \ {0} /\ 0 .. 2 - 1 = 0 .. 1
    OBVIOUS
  <2> QED BY Zenon, <2>1, Division
<1>5. e * d \in {0, d}
  BY <1>1
<1>6. q * d = r * (d + d) + e * d /\ a = r * (d + d) + (e * d + s) /\ r * (d + d) \in Nat
  BY <1>1, <1>2, <1>4
<1> DEFINE R == r * (d + d)
           f == e * d
<1>7. R \in Nat /\ f \in {0, d} /\ q * d = R + f /\ a = R + (f + s)
  BY <1>5, <1>6
<1>8. (q * d) % (d + d) = f /\ a % (d + d) = f + s
  <2>1. f \in 0 .. (d + d) - 1 /\ f + s \in 0 .. (d + d) - 1
    <3> HIDE DEF f
    <3> QED BY <1>1, <1>7
  <2>2. q * d = r * (d + d) + f /\ a = r * (d + d) + (f + s)
    BY <1>6
  <2> HIDE DEF f
  <2> DEFINE D == d + d
  <2>3. D \in Nat \ {0} /\ f \in 0 .. D - 1 /\ f + s \in 0 .. D - 1
    BY <1>1, <2>1
  <2>4. q * d = r * D + f /\ a = r * D + (f + s)
    BY <2>2
  <2> HIDE DEF D
  <2>5. (r * D + f) % D = f /\ (r * D + (f + s)) % D = f + s
    BY Zenon, <2>3, QuotientAndRest
  <2> QED BY <2>4, <2>5, Zenon DEF D
<1> HIDE DEF R, f
<1>9. merged(a, k + 1) = R /\ merged(q * d, k + 1) = R
  <2>1. (R + (f + s)) - (f + s) = R /\ (R + f) - f = R
    BY <1>1, <1>7
  <2> QED BY <1>1, <1>7, <1>8, <2>1 DEF merged
<1>10. Aligned(a, k) => merged(a, k) = a
  <2> HAVE Aligned(a, k)
  <2>1. a % d = 0
    BY AlignedMod DEF d
  <2> QED BY <2>1 DEF merged, d
<1>11. Aligned(q * d, k)
  BY DEF Aligned, d
<1>12. q * d <= a /\ a < q * d + d
  <2> DEFINE Q == q * d
  <2>1. Q \in Nat /\ a = Q + s
    BY <1>2, <1>3
  <2> HIDE DEF Q
  <2>2. Q <= a /\ a < Q + d
    BY <1>1, <2>1
  <2> QED BY <2>2 DEF Q
<1> QED BY <1>3, <1>9, <1>10, <1>11, <1>12 DEF d
-----------------------------------------------------------------------------
\* A block is an <<address, order>>; a unit is in it or not.
In(u, b) == u \in Units(b[1], b[2])

\* The blocks of S are aligned, do not overlap and make up a pool of order n.
Tiling(S, n) ==
    /\ S \subseteq Nat \X (0 .. n)
    /\ \A b \in S : Aligned(b[1], b[2])
    /\ \A b, c \in S : \A u : In(u, b) /\ In(u, c) => b = c
    /\ \A u : u \in 0 .. pow2[n] - 1 <=> \E b \in S : In(u, b)

\* Some blocks may be replaced by others that have the same units.
LEMMA Replace ==
    ASSUME NEW n \in Nat, NEW S, NEW A, NEW B, Tiling(S, n), A \subseteq S,
           B \subseteq Nat \X (0 .. n),
           \A b \in B : Aligned(b[1], b[2]),
           \A b, c \in B : \A u : In(u, b) /\ In(u, c) => b = c,
           \A u : (\E b \in A : In(u, b)) <=> (\E b \in B : In(u, b))
    PROVE  Tiling((S \ A) \cup B, n)
<1> DEFINE T == (S \ A) \cup B
<1>1. T \subseteq Nat \X (0 .. n) /\ \A b \in T : Aligned(b[1], b[2])
  BY DEF Tiling
<1>2. ASSUME NEW b \in T, NEW c \in T, NEW u, In(u, b), In(u, c) PROVE b = c
  <2>1. CASE b \in B /\ c \in B
    BY <1>2, <2>1
  <2>2. CASE b \in B /\ c \in S \ A
    <3>1. PICK d \in A : In(u, d)
      BY <1>2, <2>2
    <3>2. d = c
      BY <1>2, <2>2, <3>1 DEF Tiling
    <3> QED BY <2>2, <3>2
  <2>3. CASE b \in S \ A /\ c \in B
    <3>1. PICK d \in A : In(u, d)
      BY <1>2, <2>3
    <3>2. d = b
      BY <1>2, <2>3, <3>1 DEF Tiling
    <3> QED BY <2>3, <3>2
  <2>4. CASE b \in S /\ c \in S
    BY <1>2, <2>4 DEF Tiling
  <2> QED BY <2>1, <2>2, <2>3, <2>4
<1>3. ASSUME NEW u PROVE (\E b \in S : In(u, b)) <=> (\E b \in T : In(u, b))
  OBVIOUS
<1> HIDE DEF T
<1>4. \A u : u \in 0 .. pow2[n] - 1 <=> \E b \in T : In(u, b)
  BY <1>3, Zenon DEF Tiling
<1>5. Tiling(T, n)
  BY <1>1, <1>2, <1>4, Zenon DEF Tiling
<1> QED BY <1>5 DEF T

\* The halves of a block.
LEMMA Halves ==
    ASSUME NEW k \in Nat, NEW c \in Nat, NEW u
    PROVE  u \in Units(c, k + 1) <=> u \in Units(c, k) \/ u \in Units(c + pow2[k], k)
<1>1. pow2[k] \in Nat \ {0} /\ pow2[k + 1] = pow2[k] + pow2[k]
  BY Power
<1> QED BY <1>1 DEF Units

\* What "trim" cuts a block into: its first units and the upper halves.
LEMMA TrimUnits ==
    ASSUME NEW a \in Nat, NEW o \in Nat
    PROVE  \A j \in Nat : j >= o => \A u :
              u \in Units(a, j) <=>
                 u \in Units(a, o) \/ \E k \in o .. j - 1 : u \in Units(a + pow2[k], k)
<1> DEFINE Is(j) == \A u : u \in Units(a, j) <=>
                       (u \in Units(a, o) \/ \E k \in o .. j - 1 : u \in Units(a + pow2[k], k))
           D == {j \in Nat : j >= o => Is(j)}
<1>1. 0 \in D
  OBVIOUS
<1>2. ASSUME NEW j \in Nat, j \in D PROVE j + 1 \in D
  <2> SUFFICES ASSUME j + 1 >= o, NEW u
               PROVE  u \in Units(a, j + 1) <=>
                        (u \in Units(a, o)
                            \/ \E k \in o .. (j + 1) - 1 : u \in Units(a + pow2[k], k))
    OBVIOUS
  <2>1. CASE j + 1 = o
    BY <2>1
  <2>2. CASE j >= o
    <3>1. u \in Units(a, j) <=>
            (u \in Units(a, o) \/ \E k \in o .. j - 1 : u \in Units(a + pow2[k], k))
      BY <1>2, <2>2
    <3>2. u \in Units(a, j + 1) <=> u \in Units(a, j) \/ u \in Units(a + pow2[j], j)
      BY Halves
    <3>3. \A k : k \in o .. (j + 1) - 1 <=> (k \in o .. j - 1 \/ k = j)
      BY <2>2
    <3> HIDE DEF D
    <3> QED BY <3>1, <3>2, <3>3, Zenon
  <2> QED BY <2>1, <2>2
<1>3. Nat \subseteq D
  <2> HIDE DEF D
  <2> QED BY <1>1, <1>2, NatIn
<1> QED BY <1>3

\* What buddy_free has merged: the freed block and the buddies on the way.
LEMMA MergeUnits ==
    ASSUME NEW o \in Nat, NEW a, Aligned(a, o)
    PROVE  \A j \in Nat : j >= o => \A u :
              u \in Units(merged(a, j), j) <=>
                 u \in Units(a, o)
                    \/ \E k \in o .. j - 1 : u \in Units(find_buddy(merged(a, k), k), k)
<1> DEFINE Is(j) == \A u : u \in Units(merged(a, j), j) <=>
                       (u \in Units(a, o)
                          \/ \E k \in o .. j - 1 : u \in Units(find_buddy(merged(a, k), k), k))
           D == {j \in Nat : j >= o => Is(j)}
<1>0. a \in Nat /\ merged(a, o) = a
  BY AlignedDown, Merged
<1>1. 0 \in D
  BY <1>0
<1>2. ASSUME NEW j \in Nat, j \in D PROVE j + 1 \in D
  <2> SUFFICES ASSUME j + 1 >= o, NEW u
               PROVE  u \in Units(merged(a, j + 1), j + 1) <=>
                        (u \in Units(a, o)
                            \/ \E k \in o .. (j + 1) - 1 : u \in Units(find_buddy(merged(a, k), k), k))
    OBVIOUS
  <2>1. CASE j + 1 = o
    BY <1>0, <2>1
  <2>2. CASE j >= o
    <3>1. u \in Units(merged(a, j), j) <=>
            (u \in Units(a, o)
                \/ \E k \in o .. j - 1 : u \in Units(find_buddy(merged(a, k), k), k))
      BY <1>2, <2>2
    <3>2. u \in Units(merged(a, j + 1), j + 1) <=>
             (u \in Units(merged(a, j), j) \/ u \in Units(find_buddy(merged(a, j), j), j))
      <4> DEFINE m == merged(a, j)
                 v == merged(a, j + 1)
                 b == find_buddy(m, j)
      <4>1. Aligned(m, j) /\ v = merged(m, j + 1)
        BY <1>0, Merged
      <4>2. Aligned(v, j + 1) /\ ((m = v /\ b = m + pow2[j]) \/ (m = v + pow2[j] /\ b = v))
        <5> HIDE DEF m, v
        <5> QED BY <4>1, Siblings
      <4>3. v \in Nat
        <5> HIDE DEF v
        <5> QED BY <4>2, AlignedDown
      <4> HIDE DEF m, v, b
      <4>4. u \in Units(v, j + 1) <=> (u \in Units(m, j) \/ u \in Units(b, j))
        BY <4>2, <4>3, Halves
      <4> QED BY <4>4 DEF m, v, b
    <3>3. \A k : k \in o .. (j + 1) - 1 <=> (k \in o .. j - 1 \/ k = j)
      BY <2>2
    <3> HIDE DEF D
    <3> QED BY <3>1, <3>2, <3>3, Zenon
  <2> QED BY <2>1, <2>2
<1>3. Nat \subseteq D
  <2> HIDE DEF D
  <2> QED BY <1>1, <1>2, NatIn
<1> QED BY <1>3

\* Of two blocks with a unit in common the smaller one lies in the larger one.
LEMMA Overlap ==
    ASSUME NEW k \in Nat, NEW j \in 0 .. k, NEW a, NEW c, Aligned(a, j), Aligned(c, k),
           NEW u, u \in Units(a, j), u \in Units(c, k)
    PROVE  /\ c <= a /\ a + pow2[j] <= c + pow2[k]
           /\ Units(a, j) \subseteq Units(c, k)
<1>1. a \in Nat /\ c \in Nat /\ pow2[j] \in Nat \ {0} /\ pow2[k] \in Nat \ {0} /\ j \in Nat
  BY AlignedDown, Power
<1>2. c <= a /\ a + pow2[j] <= c + pow2[k]
  <2>1. a <= u /\ u < a + pow2[j] /\ c <= u /\ u < c + pow2[k] /\ u \in Int
    BY <1>1 DEF Units
  <2>2. (c <= a /\ a + pow2[j] <= c + pow2[k]) \/ a + pow2[j] <= c \/ c + pow2[k] <= a
    BY Nest
  <2> QED BY <1>1, <2>1, <2>2
<1> QED BY <1>1, <1>2 DEF Units

\* Every block has a unit, its first.
LEMMA FirstUnit ==
    ASSUME NEW k \in Nat, NEW a \in Nat
    PROVE  a \in Units(a, k)
BY Power DEF Units
-----------------------------------------------------------------------------
\* A list of free blocks, none of them twice.
IsList(s) == s \in Seq(Nat) /\ IsInjective(s)

\* list_add of a block that is not on the list.
LEMMA AddToList ==
    ASSUME NEW s, IsList(s), NEW x \in Nat, x \notin Range(s)
    PROVE  IsList(<<x>> \o s) /\ Range(<<x>> \o s) = Range(s) \cup {x}
<1> DEFINE t == <<x>> \o s
<1>1. s \in Seq(Nat) /\ Len(s) \in Nat /\ DOMAIN s = 1 .. Len(s)
  BY DEF IsList
<1>2. /\ t \in Seq(Nat) /\ Len(t) = Len(s) + 1 /\ DOMAIN t = 1 .. Len(s) + 1
      /\ t[1] = x /\ \A i \in 1 .. Len(s) : t[i + 1] = s[i]
  BY <1>1
<1>3. \A i \in 1 .. Len(s) + 1 : i # 1 => i - 1 \in 1 .. Len(s) /\ t[i] = s[i - 1]
  BY <1>1, <1>2
<1> HIDE DEF t
<1>4. ASSUME NEW i \in DOMAIN t, NEW j \in DOMAIN t, t[i] = t[j] PROVE i = j
  <2>1. \A k \in 1 .. Len(s) : s[k] # x
    BY <1>1 DEF Range
  <2>2. CASE i # 1 /\ j # 1
    <3>1. i - 1 \in 1 .. Len(s) /\ j - 1 \in 1 .. Len(s) /\ s[i - 1] = s[j - 1]
      BY SMTT(20), Zenon, <1>2, <1>3, <1>4, <2>2
    <3>2. i - 1 = j - 1
      BY <1>1, <3>1 DEF IsList, IsInjective
    <3> QED BY <1>1, <1>2, <3>2
  <2>3. CASE i = 1 \/ j = 1
    BY <1>2, <1>3, <1>4, <2>1, <2>3
  <2> QED BY <2>2, <2>3
<1>5. Range(t) = Range(s) \cup {x}
  <2>1. ASSUME NEW y \in Range(t) PROVE y \in Range(s) \cup {x}
    <3>1. PICK i \in 1 .. Len(s) + 1 : y = t[i]
      BY <1>2 DEF Range
    <3>2. CASE i = 1
      BY <1>2, <3>1, <3>2
    <3>3. CASE i # 1
      <4>1. i - 1 \in DOMAIN s /\ y = s[i - 1]
        BY <1>1, <1>3, <3>1, <3>3
      <4> QED BY <4>1 DEF Range
    <3> QED BY <3>2, <3>3
  <2>2. ASSUME NEW y \in Range(s) PROVE y \in Range(t)
    <3>1. PICK i \in 1 .. Len(s) : y = s[i]
      BY <1>1 DEF Range
    <3>2. i + 1 \in DOMAIN t /\ t[i + 1] = y
      BY <1>1, <1>2, <3>1
    <3> QED BY <3>2 DEF Range
  <2>3. x \in Range(t)
    BY <1>1, <1>2 DEF Range
  <2> QED BY Zenon, <2>1, <2>2, <2>3
<1> QED BY <1>2, <1>4, <1>5 DEF IsList, IsInjective, t

\* list_del of the first block.
LEMMA TakeFromList ==
    ASSUME NEW s, IsList(s), s # <<>>
    PROVE  /\ IsList(Tail(s)) /\ Head(s) \in Range(s)
           /\ Range(Tail(s)) = Range(s) \ {Head(s)}
<1> DEFINE t == Tail(s)
<1>1. s \in Seq(Nat) /\ Len(s) \in Nat \ {0} /\ DOMAIN s = 1 .. Len(s)
  BY DEF IsList
<1>2. /\ t \in Seq(Nat) /\ Len(t) = Len(s) - 1 /\ DOMAIN t = 1 .. Len(s) - 1
      /\ \A i \in 1 .. Len(s) - 1 : t[i] = s[i + 1]
      /\ Head(s) = s[1]
  BY <1>1
<1> HIDE DEF t
<1>3. \A i, j \in 1 .. Len(s) : s[i] = s[j] => i = j
  BY <1>1 DEF IsList, IsInjective
<1>4. ASSUME NEW i \in DOMAIN t, NEW j \in DOMAIN t, t[i] = t[j] PROVE i = j
  <2>0. i \in 1 .. Len(s) - 1 /\ j \in 1 .. Len(s) - 1
    BY <1>2
  <2>1. s[i + 1] = s[j + 1]
    BY Zenon, <1>2, <1>4, <2>0
  <2>2. i + 1 \in 1 .. Len(s) /\ j + 1 \in 1 .. Len(s)
    BY SMTT(20), Zenon, <1>1, <2>0
  <2>3. i + 1 = j + 1
    BY <1>3, <2>1, <2>2
  <2> QED BY <1>1, <2>0, <2>3
<1>5. ASSUME NEW y \in Range(t) PROVE y \in Range(s) /\ y # Head(s)
  <2>1. PICK i \in 1 .. Len(s) - 1 : y = s[i + 1]
    BY <1>2 DEF Range
  <2>2. i + 1 \in 1 .. Len(s) /\ 1 \in 1 .. Len(s) /\ i + 1 # 1
    BY <1>1
  <2>3. y # s[1]
    BY <1>3, <2>1, <2>2
  <2> QED BY Zenon, <1>1, <1>2, <2>1, <2>2, <2>3 DEF Range
<1>6. ASSUME NEW y \in Range(s), y # Head(s) PROVE y \in Range(t)
  <2>1. PICK i \in 1 .. Len(s) : y = s[i]
    BY <1>1 DEF Range
  <2>2. i # 1 /\ i - 1 \in 1 .. Len(s) - 1 /\ t[i - 1] = y
    BY <1>1, <1>2, <1>6, <2>1
  <2> QED BY SMTT(20), Zenon, <1>2, <2>2 DEF Range
<1>7. Head(s) \in Range(s)
  <2>1. 1 \in DOMAIN s /\ Head(s) = s[1]
    BY <1>1, <1>2
  <2> QED BY <2>1 DEF Range
<1> QED BY <1>2, <1>4, <1>5, <1>6, <1>7 DEF IsList, IsInjective, t

\* list_del of any block.
LEMMA DeleteFromList ==
    ASSUME NEW s, IsList(s), NEW x
    PROVE  IsList(list_del(s, x)) /\ Range(list_del(s, x)) = Range(s) \ {x}
<1>1. CASE x \notin Range(s)
  BY <1>1 DEF list_del
<1>2. CASE x \in Range(s)
  <2> DEFINE at == CHOOSE k \in 1 .. Len(s) : s[k] = x
             t == [k \in 1 .. Len(s) - 1 |-> IF k < at THEN s[k] ELSE s[k + 1]]
  <2>1. s \in Seq(Nat) /\ Len(s) \in Nat /\ DOMAIN s = 1 .. Len(s)
    BY DEF IsList
  <2>2. \A i, j \in 1 .. Len(s) : s[i] = s[j] => i = j
    BY <2>1 DEF IsList, IsInjective
  <2>3. at \in 1 .. Len(s) /\ s[at] = x
    <3>1. \E k \in 1 .. Len(s) : s[k] = x
      BY <1>2, <2>1 DEF Range
    <3> QED BY <3>1
  <2>4. list_del(s, x) = t
    BY <1>2 DEF list_del
  <2> HIDE DEF at
  <2>5. Len(s) - 1 \in Nat /\ t \in Seq(Nat) /\ DOMAIN t = 1 .. Len(s) - 1
    <3>1. Len(s) - 1 \in Nat
      BY <2>1, <2>3
    <3>2. \A k \in 1 .. Len(s) - 1 : t[k] \in Nat
      BY <2>1, <2>3
    <3> QED BY <3>1, <3>2
  <2>6. \A k \in 1 .. Len(s) - 1 : t[k] = IF k < at THEN s[k] ELSE s[k + 1]
    OBVIOUS
  <2> HIDE DEF t
  <2>7. ASSUME NEW i \in DOMAIN t, NEW j \in DOMAIN t, t[i] = t[j] PROVE i = j
    <3> DEFINE p == IF i < at THEN i ELSE i + 1
               q == IF j < at THEN j ELSE j + 1
    <3>0. i \in 1 .. Len(s) - 1 /\ j \in 1 .. Len(s) - 1
      BY <2>5
    <3>1. p \in 1 .. Len(s) /\ q \in 1 .. Len(s)
      BY SMTT(20), Zenon, <2>1, <2>3, <3>0
    <3>2. s[p] = t[i] /\ s[q] = t[j]
      BY <2>6, <3>0
    <3>3. p = q
      <4> HIDE DEF p, q
      <4> QED BY <2>2, <2>7, <3>1, <3>2
    <3> QED BY SMTT(20), Zenon, <2>1, <2>3, <3>0, <3>3
  <2>8. ASSUME NEW y \in Range(t) PROVE y \in Range(s) /\ y # x
    <3>1. PICK i \in 1 .. Len(s) - 1 : y = t[i]
      BY Zenon, <2>5 DEF Range
    <3>2. PICK j \in 1 .. Len(s) : y = s[j] /\ j # at
      <4>1. CASE i < at
        BY <2>1, <2>3, <2>6, <3>1, <4>1
      <4>2. CASE ~ (i < at)
        <5>1. i + 1 \in 1 .. Len(s) /\ i + 1 # at /\ y = s[i + 1]
          BY <2>1, <2>3, <2>6, <3>1, <4>2
        <5> QED BY <5>1
      <4> QED BY <4>1, <4>2
    <3>3. y # x
      BY <2>2, <2>3, <3>2
    <3> QED BY <2>1, <3>2, <3>3 DEF Range
  <2>9. ASSUME NEW y \in Range(s), y # x PROVE y \in Range(t)
    <3>1. PICK j \in 1 .. Len(s) : y = s[j]
      BY <2>1 DEF Range
    <3>2. j # at
      BY <2>3, <2>9, <3>1
    <3>3. CASE j < at
      <4>1. j \in 1 .. Len(s) - 1 /\ t[j] = y
        BY <2>1, <2>3, <2>6, <3>1, <3>3
      <4> QED BY SMTT(20), Zenon, <2>5, <4>1 DEF Range
    <3>4. CASE j > at
      <4>1. j - 1 \in 1 .. Len(s) - 1 /\ t[j - 1] = y
        BY <2>1, <2>3, <2>6, <3>1, <3>4
      <4> QED BY <2>5, <4>1 DEF Range
    <3> QED BY <2>3, <3>2, <3>3, <3>4
  <2>10. IsList(t)
    BY <2>5, <2>7 DEF IsList, IsInjective
  <2>11. Range(t) = Range(s) \ {x}
    BY <2>8, <2>9
  <2> QED BY <2>4, <2>10, <2>11
<1> QED BY <1>1, <1>2
-----------------------------------------------------------------------------
\* The blocks that are on the lists of a pool, with their orders.
Listed(pool) == UNION {{<<b, k>> : b \in Range(pool.avail[k])} : k \in DOMAIN pool.avail}

\* No two buddies are free: buddy_free would have merged them.
NoBuddies(F, n) ==
    \A k \in 0 .. n - 1 : \A u : Aligned(u, k + 1) => ~ (<<u, k>> \in F /\ <<u + pow2[k], k>> \in F)

\* The types of the fields of a pool of order n.
PoolTypeOK(pool, n) ==
    /\ pool \in [pool_order : {n}, avail : [0 .. n -> Seq(Nat)], tag_bits : SUBSET Blocks(n),
                  order : [Blocks(n) -> (0 .. n) \cup {Unknown}]]
    /\ \A k \in 0 .. n : IsList(pool.avail[k])

\* The bits and the order words are right where a free block begins, and the
\* bit is clear where a block that is handed out begins.  They say nothing of
\* other addresses.
WordsOK(pool, A) ==
    /\ \A b \in Listed(pool) : b[1] \in pool.tag_bits /\ pool.order[b[1]] = b[2]
    /\ \A b \in A : b[1] \notin pool.tag_bits

\* The inductive invariant of a pool of order n whose callers hold the blocks A.
PoolInv(pool, n, A) ==
    /\ PoolTypeOK(pool, n)
    /\ A \subseteq Nat \X (MIN_ORDER .. n)
    /\ \A b \in Listed(pool) : b[2] >= MIN_ORDER
    /\ Tiling(Listed(pool) \cup A, n)
    /\ Listed(pool) \cap A = {}
    /\ WordsOK(pool, A)
    /\ NoBuddies(Listed(pool), n)

\* The blocks that are listed.
LEMMA ListedIs ==
    ASSUME NEW n \in Nat, NEW pool, DOMAIN pool.avail = 0 .. n,
           \A k \in 0 .. n : IsList(pool.avail[k])
    PROVE  /\ Listed(pool) \subseteq Nat \X (0 .. n)
           /\ \A b, k : <<b, k>> \in Listed(pool) <=> k \in 0 .. n /\ b \in Range(pool.avail[k])
<1>1. \A k \in 0 .. n : Range(pool.avail[k]) \subseteq Nat
  BY DEF IsList, Range
<1> QED BY <1>1 DEF Listed

\* The blocks of a pool begin at addresses that have a tag bit.
LEMMA BlockStarts ==
    ASSUME NEW n \in Nat, NEW S, Tiling(S, n), NEW a, NEW k, <<a, k>> \in S, MIN_ORDER <= k
    PROVE  a \in Blocks(n) /\ a \in Nat /\ k \in 0 .. n /\ Aligned(a, k) /\ In(a, <<a, k>>)
<1>1. a \in Nat /\ k \in 0 .. n /\ Aligned(a, k)
  BY DEF Tiling
<1>2. In(a, <<a, k>>)
  BY <1>1, FirstUnit DEF In
<1>3. a \in 0 .. pow2[n] - 1
  BY <1>2 DEF Tiling
<1>4. MIN_ORDER \in Nat /\ MIN_ORDER \in 0 .. k
  BY <1>1, BlockAssumption
<1>5. a % pow2[MIN_ORDER] = 0
  BY <1>1, <1>4, AlignedDown, AlignedMod
<1> QED BY <1>1, <1>2, <1>3, <1>5 DEF Blocks

\* Blocks of a pool that have a unit in common are the same.
LEMMA SameBlock ==
    ASSUME NEW n, NEW S, Tiling(S, n), NEW b \in S, NEW c \in S, NEW u, In(u, b), In(u, c)
    PROVE  b = c
BY DEF Tiling

\* The smallest of a set of numbers.
LEMMA MinIs ==
    ASSUME NEW S, S \subseteq Nat, S # {}
    PROVE  Min(S) \in S /\ \A y \in S : Min(S) <= y
<1>1. PICK x \in S : \A y \in S : ~ (<<y, x>> \in OpToRel(<, Nat))
  BY NatLessThanWellFounded, WFMin, Zenon
<1>2. \A y \in S : x <= y
  <2> TAKE y \in S
  <2>1. x \in Nat /\ y \in Nat
    OBVIOUS
  <2>2. y < x => <<y, x>> \in OpToRel(<, Nat)
    BY <2>1 DEF OpToRel
  <2>3. ~ (y < x)
    BY <1>1, <2>2, Zenon
  <2> QED BY <2>1, <2>3
<1> QED BY Zenon, <1>2 DEF Min

\* The largest of a set of numbers that has a bound.
LEMMA MaxIs ==
    ASSUME NEW S, S \subseteq Nat, S # {}, NEW x \in Nat, \A y \in S : y <= x
    PROVE  /\ Max(S) \in S
           /\ x \in S => Max(S) = x
<1> DEFINE D == {d \in Nat : \E y \in S : d = x - y}
<1>1. D # {} /\ D \subseteq Nat
  <2>1. PICK y \in S : TRUE
    BY Zenon
  <2>2. x - y \in Nat
    OBVIOUS
  <2> QED BY Zenon, <2>2
<1>2. Min(D) \in D /\ \A d \in D : Min(D) <= d
  <2> HIDE DEF D
  <2> QED BY Zenon, <1>1, MinIs
<1>3. PICK z \in S : Min(D) = x - z
  BY Zenon, <1>2
<1>4. \A y \in S : z >= y
  <2> TAKE y \in S
  <2>1. y \in Nat /\ z \in Nat /\ x - y \in Nat /\ x - z \in Nat
    OBVIOUS
  <2>2. x - y \in D
    BY <2>1
  <2>3. x - z <= x - y
    BY <1>2, <1>3, <2>2
  <2> QED BY <2>1, <2>3
<1>5. Max(S) \in S /\ \A y \in S : Max(S) >= y
  BY Zenon, <1>4 DEF Max
<1>6. ASSUME x \in S PROVE Max(S) = x
  <2>1. Max(S) \in Nat /\ Max(S) >= x /\ Max(S) <= x
    BY Zenon, <1>5, <1>6
  <2> QED BY <2>1
<1> QED BY <1>5, <1>6

\* What the steps of buddy_alloc leave in the pool p when they take a block of
\* order j for a request of order o.
AllocResult(pool, n, o, j, block, p) ==
    /\ p.pool_order = n
    /\ p.avail = [k \in 0 .. n |->
                    IF k \in o .. j - 1 THEN <<block + pow2[k]>> \o pool.avail[k]
                    ELSE IF k = j THEN Tail(pool.avail[j])
                    ELSE pool.avail[k]]
    /\ p.tag_bits = (pool.tag_bits \ {block}) \cup {block + pow2[k] : k \in o .. j - 1}
    /\ p.order = [b \in Blocks(n) |->
                    LET of == {k \in o .. j - 1 : block + pow2[k] = b}
                    IN IF of # {} THEN CHOOSE k \in of : TRUE
                       ELSE IF b \in Units(block, o) THEN Unknown
                       ELSE pool.order[b]]
    /\ p = [pool_order |-> p.pool_order, avail |-> p.avail, tag_bits |-> p.tag_bits, order |-> p.order]

\* buddy_alloc when a list can serve the request.
LEMMA AllocFields ==
    ASSUME NEW n \in Nat, NEW pool, PoolTypeOK(pool, n), NEW order,
           NEW o, o = fixup(order), NEW j, j \in o .. n,
           candidates(pool, o) # {}, j = Min(candidates(pool, o)),
           NEW block, block = Head(pool.avail[j]), NEW p, p = buddy_alloc(pool, order).pool
    PROVE  buddy_alloc(pool, order).block = block /\ AllocResult(pool, n, o, j, block, p)
<1> DEFINE taken == [pool EXCEPT !.avail[j] = Tail(@),
                              !.tag_bits = mark_allocated(@, block),
                              !.order = [b \in DOMAIN @ |-> IF b \in Units(block, o) THEN Unknown
                                                            ELSE @[b]]]
<1>1. /\ pool = [pool_order |-> pool.pool_order, avail |-> pool.avail, tag_bits |-> pool.tag_bits, order |-> pool.order]
      /\ DOMAIN pool.avail = 0 .. n /\ DOMAIN pool.order = Blocks(n) /\ pool.pool_order = n
  BY DEF PoolTypeOK
<1>2. buddy_alloc(pool, order).block = block /\ p = trim(taken, block, j, o)
  BY DEF buddy_alloc
<1>3. /\ taken = [pool_order |-> taken.pool_order, avail |-> taken.avail, tag_bits |-> taken.tag_bits, order |-> taken.order]
      /\ taken.pool_order = n
      /\ taken.avail = [pool.avail EXCEPT ![j] = Tail(@)]
      /\ taken.tag_bits = pool.tag_bits \ {block}
      /\ taken.order = [b \in Blocks(n) |-> IF b \in Units(block, o) THEN Unknown ELSE pool.order[b]]
  <2>1. DOMAIN pool = {"pool_order", "avail", "tag_bits", "order"}
    BY DEF PoolTypeOK
  <2>2. taken.pool_order = n
    BY <1>1, <2>1
  <2>3. taken.avail = [pool.avail EXCEPT ![j] = Tail(@)]
    BY <1>1, <2>1
  <2>4. taken.tag_bits = pool.tag_bits \ {block}
    BY <1>1, <2>1 DEF mark_allocated
  <2>5. taken.order = [b \in Blocks(n) |-> IF b \in Units(block, o) THEN Unknown ELSE pool.order[b]]
    BY <1>1, <2>1
  <2>6. taken = [pool_order |-> taken.pool_order, avail |-> taken.avail, tag_bits |-> taken.tag_bits, order |-> taken.order]
    <3>1. DOMAIN taken = DOMAIN pool
      BY SMTT(20), Zenon
    <3>2. taken = [x \in DOMAIN pool |-> taken[x]]
      BY ZenonT(30)
    <3> HIDE DEF taken
    <3> QED BY <2>1, <3>1, <3>2
  <2> QED BY <2>2, <2>3, <2>4, <2>5, <2>6
<1> HIDE DEF taken
<1>4. /\ p = [pool_order |-> p.pool_order, avail |-> p.avail, tag_bits |-> p.tag_bits, order |-> p.order]
      /\ p.pool_order = n
      /\ p.avail = [k \in 0 .. n |-> IF k \in o .. j - 1 THEN <<block + pow2[k]>> \o taken.avail[k] ELSE taken.avail[k]]
      /\ p.tag_bits = taken.tag_bits \cup {block + pow2[k] : k \in o .. j - 1}
      /\ p.order = [b \in Blocks(n) |-> LET of == {k \in o .. j - 1 : block + pow2[k] = b}
                                       IN IF of = {} THEN taken.order[b] ELSE CHOOSE k \in of : TRUE]
  BY ZenonT(30), <1>1, <1>2, <1>3 DEF trim
<1>5. \A k \in 0 .. n : taken.avail[k] = IF k = j THEN Tail(pool.avail[j]) ELSE pool.avail[k]
  BY <1>1, <1>3
<1>6. ASSUME NEW k \in 0 .. n
      PROVE  p.avail[k] = IF k \in o .. j - 1 THEN <<block + pow2[k]>> \o pool.avail[k]
                              ELSE IF k = j THEN Tail(pool.avail[j])
                              ELSE pool.avail[k]
  <2>1. k \in o .. j - 1 => k # j
    OBVIOUS
  <2>2. p.avail[k] = IF k \in o .. j - 1 THEN <<block + pow2[k]>> \o taken.avail[k] ELSE taken.avail[k]
    BY Zenon, <1>4
  <2>3. taken.avail[k] = IF k = j THEN Tail(pool.avail[j]) ELSE pool.avail[k]
    BY <1>5
  <2>4. CASE k \in o .. j - 1
    BY <2>1, <2>2, <2>3, <2>4, Zenon
  <2>5. CASE k \notin o .. j - 1
    BY <2>2, <2>3, <2>5, Zenon
  <2> QED BY <2>4, <2>5
<1>7. ASSUME NEW b \in Blocks(n)
      PROVE  p.order[b] = LET of == {k \in o .. j - 1 : block + pow2[k] = b}
                              IN IF of # {} THEN CHOOSE k \in of : TRUE
                                 ELSE IF b \in Units(block, o) THEN Unknown
                                 ELSE pool.order[b]
  <2> DEFINE of == {k \in o .. j - 1 : block + pow2[k] = b}
  <2>1. p.order[b] = IF of = {} THEN taken.order[b] ELSE CHOOSE k \in of : TRUE
    BY <1>4, Zenon
  <2>2. taken.order[b] = IF b \in Units(block, o) THEN Unknown ELSE pool.order[b]
    BY <1>3, Zenon
  <2> HIDE DEF of
  <2>3. p.order[b] = IF of # {} THEN CHOOSE k \in of : TRUE
                     ELSE IF b \in Units(block, o) THEN Unknown ELSE pool.order[b]
    BY <2>1, <2>2
  <2> QED BY <2>3 DEF of
<1>8. p.avail = [k \in 0 .. n |-> IF k \in o .. j - 1 THEN <<block + pow2[k]>> \o pool.avail[k]
                                 ELSE IF k = j THEN Tail(pool.avail[j])
                                 ELSE pool.avail[k]]
  <2>1. p.avail = [k \in 0 .. n |-> p.avail[k]]
    BY Zenon, <1>4
  <2> QED BY Zenon, <1>6, <2>1
<1>9. p.order = [b \in Blocks(n) |->
                    LET of == {k \in o .. j - 1 : block + pow2[k] = b}
                    IN IF of # {} THEN CHOOSE k \in of : TRUE
                       ELSE IF b \in Units(block, o) THEN Unknown
                       ELSE pool.order[b]]
  <2>1. p.order = [b \in Blocks(n) |-> p.order[b]]
    BY Zenon, <1>4
  <2> QED BY Zenon, <1>7, <2>1
<1> QED BY Zenon, <1>2, <1>3, <1>4, <1>8, <1>9 DEF AllocResult
\* A larger order has a larger size.
LEMMA Larger ==
    ASSUME NEW j \in Nat, NEW k \in Nat, j < k
    PROVE  pow2[j] + pow2[j] <= pow2[k]
<1>1. PICK q \in Nat \ {0} : pow2[k] = q * pow2[j + 1]
  BY Divides
<1>2. pow2[j + 1] = pow2[j] + pow2[j] /\ pow2[j] \in Nat /\ pow2[j + 1] \in Nat
  BY Power
<1> DEFINE d == pow2[j + 1]
<1>3. q * d = d + (q - 1) * d /\ (q - 1) * d \in Nat
  BY <1>2
<1> HIDE DEF d
<1> DEFINE e == (q - 1) * d
<1> HIDE DEF e
<1>4. pow2[k] = d + e /\ e \in Nat
  BY <1>1, <1>3 DEF d, e
<1> QED BY <1>2, <1>4 DEF d

\* The block behind a block of its size.
LEMMA AlignedNext ==
    ASSUME NEW k \in Nat, NEW a, Aligned(a, k)
    PROVE  Aligned(a + pow2[k], k)
<1>1. PICK q \in Nat : a = q * pow2[k]
  BY DEF Aligned
<1>2. pow2[k] \in Nat
  BY Power
<1>3. a + pow2[k] = (q + 1) * pow2[k]
  BY <1>1, <1>2
<1> QED BY <1>3 DEF Aligned

\* The blocks that trim makes of one: the first is handed out, the others are
\* free.
Upper(block, j, o) == {<<block + pow2[k], k>> : k \in o .. j - 1}

\* A block may be replaced by the blocks that trim makes of it.
LEMMA TrimTiles ==
    ASSUME NEW n \in Nat, NEW S, Tiling(S, n), NEW j \in 0 .. n, NEW o \in 0 .. j, NEW block,
           <<block, j>> \in S
    PROVE  /\ Tiling((S \ {<<block, j>>}) \cup ({<<block, o>>} \cup Upper(block, j, o)), n)
           /\ \A y \in {<<block, o>>} \cup Upper(block, j, o) :
                 \A u : In(u, y) => In(u, <<block, j>>)
           /\ \A y \in {<<block, o>>} \cup Upper(block, j, o) : In(y[1], y)
<1> DEFINE U == Upper(block, j, o)
           B == {<<block, o>>} \cup U
<1>1. block \in Nat /\ Aligned(block, j) /\ o \in Nat /\ j \in Nat /\ j >= o
  BY DEF Tiling
<1>2. \A k \in o .. j : k \in 0 .. n /\ k \in 0 .. j /\ k \in Nat /\ pow2[k] \in Nat \ {0} /\ Aligned(block, k)
  BY <1>1, AlignedDown, Power
<1>3. \A k \in o .. j - 1 : k \in o .. j
  BY <1>1
<1>4. B \subseteq Nat \X (0 .. n)
  BY <1>1, <1>2, <1>3 DEF Upper
<1>5. \A b \in B : Aligned(b[1], b[2])
  BY <1>1, <1>2, <1>3, AlignedNext DEF Upper
<1>6. \A k \in o .. j - 1 : \A u : In(u, <<block + pow2[k], k>>) =>
          u \in Int /\ block + pow2[k] <= u /\ u < block + pow2[k] + pow2[k]
  BY <1>1, <1>2, <1>3 DEF In, Units
<1>7. \A u : In(u, <<block, o>>) => u \in Int /\ u < block + pow2[o]
  BY <1>1, <1>2 DEF In, Units
<1>8. ASSUME NEW b \in B, NEW c \in B, NEW u, In(u, b), In(u, c) PROVE b = c
  <2>1. ASSUME NEW k \in o .. j - 1, NEW i \in o .. j - 1, k < i,
               In(u, <<block + pow2[k], k>>), In(u, <<block + pow2[i], i>>)
        PROVE  FALSE
    <3>1. pow2[k] + pow2[k] <= pow2[i]
      BY <1>2, <1>3, <2>1, Larger
    <3>2. u \in Int /\ block + pow2[i] <= u /\ u < block + pow2[k] + pow2[k]
      BY Zenon, <1>6, <2>1
    <3>3. pow2[k] \in Nat /\ pow2[i] \in Nat
      BY <1>2, <1>3
    <3> QED BY <1>1, <3>1, <3>2, <3>3
  <2>2. ASSUME NEW k \in o .. j - 1, In(u, <<block + pow2[k], k>>), In(u, <<block, o>>)
        PROVE  FALSE
    <3>1. pow2[o] <= pow2[k]
      BY <1>1, <1>2, <1>3, Larger
    <3>2. u \in Int /\ block + pow2[k] <= u /\ u < block + pow2[o]
      BY Zenon, <1>6, <1>7, <2>2
    <3>3. pow2[k] \in Nat /\ pow2[o] \in Nat
      BY <1>1, <1>2, <1>3
    <3> QED BY <1>1, <3>1, <3>2, <3>3
  <2>3. CASE b = <<block, o>> /\ c \in U
    BY Zenon, <1>8, <2>2, <2>3 DEF Upper
  <2>4. CASE c = <<block, o>> /\ b \in U
    BY Zenon, <1>8, <2>2, <2>4 DEF Upper
  <2>5. CASE b \in U /\ c \in U
    <3>1. PICK k \in o .. j - 1 : b = <<block + pow2[k], k>>
      BY <2>5 DEF Upper
    <3>2. PICK i \in o .. j - 1 : c = <<block + pow2[i], i>>
      BY <2>5 DEF Upper
    <3>3. ~ (k < i) /\ ~ (i < k)
      BY Zenon, <1>8, <2>1, <3>1, <3>2
    <3> QED BY <1>2, <1>3, <3>1, <3>2, <3>3
  <2> QED BY <2>3, <2>4, <2>5
<1>9. ASSUME NEW u
      PROVE  In(u, <<block, j>>) <=> \E b \in B : In(u, b)
  <2>1. u \in Units(block, j) <=>
          (u \in Units(block, o) \/ \E k \in o .. j - 1 : u \in Units(block + pow2[k], k))
    BY <1>1, TrimUnits
  <2>2. (\E b \in B : In(u, b)) <=>
          (In(u, <<block, o>>) \/ \E k \in o .. j - 1 : In(u, <<block + pow2[k], k>>))
    BY Zenon DEF Upper
  <2>3. \A a, k : In(u, <<a, k>>) <=> u \in Units(a, k)
    BY DEF In
  <2> QED BY <2>1, <2>2, <2>3, Zenon
<1>10. \A y \in B : In(y[1], y)
  <2> TAKE y \in B
  <2>1. y[1] \in Nat /\ y[2] \in Nat
    BY <1>4
  <2> QED BY <2>1, FirstUnit DEF In
<1>11. {<<block, j>>} \subseteq S
  OBVIOUS
<1> HIDE DEF B
<1>12. Tiling((S \ {<<block, j>>}) \cup B, n)
  BY Zenon, <1>4, <1>5, <1>8, <1>9, <1>11, Replace
<1> QED BY <1>9, <1>10, <1>12 DEF B

\* buddy_alloc keeps the invariant: either no list can serve the request and
\* nothing changes, or the caller is given a block it did not hold.
LEMMA AllocInv ==
    ASSUME NEW n \in Nat, NEW pool, NEW A, PoolInv(pool, n, A),
           NEW order \in 0 .. n, NEW o, o = fixup(order), o <= n,
           NEW r, r = buddy_alloc(pool, order)
    PROVE  \/ candidates(pool, o) = {} /\ r.block = NULL /\ r.pool = pool
           \/ /\ candidates(pool, o) # {} /\ r.block \in Nat
              /\ <<r.block, o>> \notin A
              /\ PoolInv(r.pool, n, A \cup {<<r.block, o>>})
<1>1. MIN_ORDER \in Nat /\ o \in MIN_ORDER .. n /\ o \in 0 .. n
  BY BlockAssumption DEF fixup
<1>2. CASE candidates(pool, o) = {}
  BY <1>2 DEF buddy_alloc
<1>3. CASE candidates(pool, o) # {}
  <2> DEFINE j == Min(candidates(pool, o))
             block == Head(pool.avail[j])
             p == r.pool
             F == Listed(pool)
             G == Listed(p)
             S == F \cup A
             U == Upper(block, j, o)
             B == {<<block, o>>} \cup U
             C == A \cup {<<block, o>>}
  <2>1. j \in o .. n /\ pool.avail[j] # <<>>
    <3>1. pool.pool_order = n
      BY DEF PoolInv, PoolTypeOK
    <3>2. candidates(pool, o) \subseteq Nat
      BY <1>1, <3>1 DEF candidates
    <3>3. j \in candidates(pool, o)
      BY <1>3, <3>2, MinIs
    <3> QED BY <3>1, <3>3 DEF candidates
  <2>2. r.block = block /\ AllocResult(pool, n, o, j, block, p)
    <3>1. PoolTypeOK(pool, n)
      BY DEF PoolInv
    <3>2. j = Min(candidates(pool, o)) /\ block = Head(pool.avail[j]) /\ p = buddy_alloc(pool, order).pool
      OBVIOUS
    <3> HIDE DEF j, block, p
    <3> QED BY <1>3, <2>1, <3>1, <3>2, AllocFields
  <2> HIDE DEF j, p
  <2>3. /\ DOMAIN pool.avail = 0 .. n
        /\ \A k \in 0 .. n : IsList(pool.avail[k])
        /\ pool.tag_bits \subseteq Blocks(n)
        /\ pool.order \in [Blocks(n) -> (0 .. n) \cup {Unknown}]
    BY DEF PoolInv, PoolTypeOK
  <2>4. /\ F \subseteq Nat \X (0 .. n)
        /\ \A b, k : <<b, k>> \in F <=> k \in 0 .. n /\ b \in Range(pool.avail[k])
    BY <2>3, ListedIs
  <2>5. j \in 0 .. n /\ o \in 0 .. j /\ <<block, j>> \in F
    <3>1. j \in 0 .. n /\ o \in 0 .. j
      BY <1>1, <2>1
    <3> QED BY <2>1, <2>3, <2>4, <3>1, TakeFromList
  <2> HIDE DEF block
  <2>6. Tiling(S, n) /\ <<block, j>> \in S /\ <<block, j>> \notin A
    BY <2>5 DEF PoolInv
  <2>7. /\ Tiling((S \ {<<block, j>>}) \cup B, n)
        /\ \A y \in B : \A u : In(u, y) => In(u, <<block, j>>)
        /\ \A y \in B : In(y[1], y)
    <3> HIDE DEF S
    <3> QED BY Zenon, <2>5, <2>6, TrimTiles
  <2>8. \A y \in B : y \in S => y = <<block, j>>
    <3> HIDE DEF S, B
    <3> QED BY <2>6, <2>7, SameBlock
  <2>9. \A y \in S, z \in B : In(z[1], y) => y = <<block, j>>
    <3> HIDE DEF S, B
    <3> QED BY <2>6, <2>7, SameBlock
  <2>10. U \cap S = {}
    <3> SUFFICES ASSUME NEW y \in U, y \in S PROVE FALSE
      OBVIOUS
    <3>1. PICK k \in o .. j - 1 : y = <<block + pow2[k], k>>
      BY DEF Upper
    <3>2. k # j
      BY <2>5
    <3> QED BY <2>8, <3>1, <3>2
  <2>11. \A k \in o .. j - 1 : /\ k \in 0 .. n /\ k # j /\ k \in Nat
                               /\ pow2[k] \in Nat \ {0}
                               /\ <<block + pow2[k], k>> \in U
    <3> TAKE k \in o .. j - 1
    <3>1. k \in 0 .. n /\ k # j /\ k \in Nat
      BY <2>5
    <3> QED BY <3>1, Power DEF Upper
  <2>12. block \in Nat /\ Aligned(block, j) /\ block \in Blocks(n)
    BY <2>5, <2>6, BlockStarts DEF PoolInv
  <2>13. ASSUME NEW k \in 0 .. n
         PROVE  /\ IsList(p.avail[k])
                /\ Range(p.avail[k]) = (Range(pool.avail[k]) \ {b \in {block} : k = j})
                                          \cup {b \in {block + pow2[k]} : k \in o .. j - 1}
    <3>1. CASE k \in o .. j - 1
      <4>0. pow2[k] \in Nat
        BY Zenon, <2>11, <3>1
      <4>1. block + pow2[k] \in Nat
        BY <2>12, <4>0
      <4>2. block + pow2[k] \notin Range(pool.avail[k])
        BY Zenon, <2>4, <2>10, <2>11, <3>1
      <4>3. p.avail[k] = <<block + pow2[k]>> \o pool.avail[k]
        BY Zenon, <2>2, <3>1 DEF AllocResult
      <4>4. k # j
        BY Zenon, <2>11, <3>1
      <4>5. IsList(p.avail[k]) /\ Range(p.avail[k]) = Range(pool.avail[k]) \cup {block + pow2[k]}
        BY <2>3, <4>1, <4>2, <4>3, AddToList
      <4> QED BY <3>1, <4>4, <4>5
    <3>2. CASE k = j
      <4>1. k \notin o .. j - 1
        BY <2>5, <3>2
      <4>2. p.avail[k] = Tail(pool.avail[j])
        BY Zenon, <2>2, <3>2, <4>1 DEF AllocResult
      <4>3. IsList(p.avail[k]) /\ Range(p.avail[k]) = Range(pool.avail[k]) \ {block}
        BY <2>1, <2>3, <3>2, <4>2, TakeFromList DEF block
      <4> QED BY <3>2, <4>1, <4>3
    <3>3. CASE k \notin o .. j - 1 /\ k # j
      <4>1. p.avail[k] = pool.avail[k]
        BY Zenon, <2>2, <3>3 DEF AllocResult
      <4> QED BY <2>3, <3>3, <4>1
    <3> QED BY <3>1, <3>2, <3>3
  <2>14. /\ G \subseteq Nat \X (0 .. n)
         /\ \A b, k : <<b, k>> \in G <=> k \in 0 .. n /\ b \in Range(p.avail[k])
    BY Zenon, <2>2, <2>13, ListedIs DEF AllocResult
  <2>15. G = (F \ {<<block, j>>}) \cup U
    <3>1. ASSUME NEW b, NEW k
          PROVE  <<b, k>> \in G <=> <<b, k>> \in (F \ {<<block, j>>}) \cup U
      <4>1. <<b, k>> \in U <=> k \in o .. j - 1 /\ b = block + pow2[k]
        BY DEF Upper
      <4>2. k \in o .. j - 1 => k \in 0 .. n
        BY Zenon, <2>11
      <4>3. k \in 0 .. n => (b \in Range(p.avail[k]) <=>
               ((b \in Range(pool.avail[k]) /\ ~ (b = block /\ k = j))
                  \/ (b = block + pow2[k] /\ k \in o .. j - 1)))
        BY <2>13
      <4> QED BY <2>4, <2>14, <4>1, <4>2, <4>3
    <3>2. U \subseteq Nat \X (0 .. n)
      BY <2>11, <2>12 DEF Upper
    <3> HIDE DEF F, G, U
    <3>3. G \subseteq Nat \X (0 .. n) /\ (F \ {<<block, j>>}) \cup U \subseteq Nat \X (0 .. n)
      BY <2>4, <2>14, <3>2
    <3>4. \A x \in Nat \X (0 .. n) : x = <<x[1], x[2]>>
      OBVIOUS
    <3> QED BY <3>1, <3>3, <3>4
  <2>16. G \cup C = (S \ {<<block, j>>}) \cup B
    BY <2>6, <2>15
  <2>17. Tiling(G \cup C, n)
    BY <2>7, <2>16
  <2>18. <<block, o>> \notin A
    BY <2>6, <2>8
  <2>19. G \cap C = {}
    <3>1. ASSUME NEW y \in G, y \in C PROVE FALSE
      <4>1. CASE y \in U
        <5>1. y # <<block, o>>
          BY <2>11, <2>12, <4>1 DEF Upper
        <5> QED BY <2>10, <3>1, <4>1, <5>1
      <4>2. CASE y \in F /\ y # <<block, j>>
        <5>1. y \notin A
          BY <4>2 DEF PoolInv
        <5> QED BY <2>8, <3>1, <4>2, <5>1
      <4> QED BY <2>15, <3>1, <4>1, <4>2
    <3> QED BY <3>1
  <2>20. \A b \in G : b[2] >= MIN_ORDER
    <3>1. \A k \in o .. j - 1 : k >= MIN_ORDER
      BY <1>1, <2>5
    <3> QED BY <2>15, <3>1 DEF PoolInv, Upper
  <2>21. C \subseteq Nat \X (MIN_ORDER .. n)
    BY <1>1, <2>12 DEF PoolInv
  <2>22. \A k \in o .. j - 1 : block + pow2[k] \in Blocks(n)
    <3> TAKE k \in o .. j - 1
    <3>1. <<block + pow2[k], k>> \in G \cup C
      BY Zenon, <2>11, <2>15
    <3>2. MIN_ORDER <= k
      BY <1>1, <2>5
    <3> HIDE DEF G, C
    <3> QED BY <2>17, <3>1, <3>2, BlockStarts
  <2>23. PoolTypeOK(p, n)
    <3>1. p.avail \in [0 .. n -> Seq(Nat)]
      <4>1. p.avail = [k \in 0 .. n |-> p.avail[k]]
        BY Zenon, <2>2 DEF AllocResult
      <4>2. \A k \in 0 .. n : p.avail[k] \in Seq(Nat)
        BY <2>13 DEF IsList
      <4> QED BY <4>1, <4>2
    <3>2. p.tag_bits \in SUBSET Blocks(n)
      <4>1. p.tag_bits = (pool.tag_bits \ {block}) \cup {block + pow2[k] : k \in o .. j - 1}
        BY Zenon, <2>2 DEF AllocResult
      <4> QED BY <2>3, <2>22, <4>1
    <3>3. ASSUME NEW b \in Blocks(n) PROVE p.order[b] \in (0 .. n) \cup {Unknown}
      <4> DEFINE of == {k \in o .. j - 1 : block + pow2[k] = b}
      <4>1. of # {} => (CHOOSE k \in of : TRUE) \in 0 .. n
        BY Zenon, <2>11
      <4>2. p.order[b] = IF of # {} THEN CHOOSE k \in of : TRUE
                         ELSE IF b \in Units(block, o) THEN Unknown ELSE pool.order[b]
        BY Zenon, <2>2 DEF AllocResult
      <4>3. pool.order[b] \in (0 .. n) \cup {Unknown}
        BY <2>3
      <4> HIDE DEF of
      <4> QED BY <4>1, <4>2, <4>3
    <3>4. p.order \in [Blocks(n) -> (0 .. n) \cup {Unknown}]
      <4>1. p.order = [b \in Blocks(n) |-> p.order[b]]
        BY Zenon, <2>2 DEF AllocResult
      <4> QED BY <3>3, <4>1
    <3> QED BY Zenon, <2>2, <2>13, <3>1, <3>2, <3>4 DEF AllocResult, PoolTypeOK
  <2>24. \A x \in F \cup A : In(x[1], x)
    <3> TAKE x \in F \cup A
    <3>1. x[1] \in Nat /\ x[2] \in Nat
      BY <2>6 DEF Tiling
    <3> QED BY <3>1, FirstUnit DEF In
  <2>25. \A x \in S : x # <<block, j>> =>
            x[1] # block /\ x[1] \notin Units(block, o) /\ \A k \in o .. j - 1 : x[1] # block + pow2[k]
    <3> SUFFICES ASSUME NEW x \in S, x # <<block, j>>,
                        x[1] = block \/ x[1] \in Units(block, o)
                          \/ \E k \in o .. j - 1 : x[1] = block + pow2[k]
                 PROVE  FALSE
      OBVIOUS
    <3>1. PICK z \in B : In(x[1], z)
      <4>1. CASE x[1] = block
        BY Zenon, <2>7, <4>1
      <4>2. CASE x[1] \in Units(block, o)
        <5>1. In(x[1], <<block, o>>)
          BY <4>2 DEF In
        <5> QED BY <5>1
      <4>3. ASSUME NEW k \in o .. j - 1, x[1] = block + pow2[k] PROVE \E z \in B : In(x[1], z)
        BY Zenon, <2>7, <2>11, <4>3
      <4> QED BY <4>1, <4>2, <4>3
    <3>2. In(x[1], <<block, j>>) /\ In(x[1], x)
      BY <2>7, <2>24, <3>1
    <3> HIDE DEF S
    <3> QED BY <2>6, <3>2, SameBlock
  <2>26. WordsOK(p, C)
    <3>1. p.tag_bits = (pool.tag_bits \ {block}) \cup {block + pow2[k] : k \in o .. j - 1}
      BY Zenon, <2>2 DEF AllocResult
    <3>2. \A b \in Blocks(n) :
             p.order[b] = LET of == {k \in o .. j - 1 : block + pow2[k] = b}
                          IN IF of # {} THEN CHOOSE k \in of : TRUE
                             ELSE IF b \in Units(block, o) THEN Unknown
                             ELSE pool.order[b]
      BY Zenon, <2>2 DEF AllocResult
    <3>3. ASSUME NEW x \in U PROVE x[1] \in p.tag_bits /\ p.order[x[1]] = x[2]
      <4>1. PICK k \in o .. j - 1 : x = <<block + pow2[k], k>>
        BY DEF Upper
      <4> DEFINE of == {i \in o .. j - 1 : block + pow2[i] = block + pow2[k]}
      <4>2. of = {k}
        <5>1. ASSUME NEW i \in o .. j - 1, block + pow2[i] = block + pow2[k] PROVE i = k
          <6>1. pow2[i] = pow2[k] /\ pow2[i] \in Nat \ {0} /\ i \in Nat /\ k \in Nat
            <7>1. pow2[i] \in Nat \ {0} /\ i \in Nat /\ pow2[k] \in Nat /\ k \in Nat
              BY Zenon, <2>11
            <7>2. \A x1, x2, x3 \in Nat : x1 + x2 = x1 + x3 => x2 = x3
              OBVIOUS
            <7>3. block \in Nat /\ block + pow2[i] = block + pow2[k]
              BY <2>12, <5>1
            <7>4. pow2[i] = pow2[k]
              BY Zenon, <7>1, <7>2, <7>3
            <7> QED BY <7>1, <7>4
          <6>2. ~ (i < k) /\ ~ (k < i)
            BY <6>1, Larger
          <6> QED BY <6>1, <6>2
        <5> QED BY <5>1
      <4>3. p.order[block + pow2[k]] = CHOOSE i \in of : TRUE
        BY Zenon, <2>22, <3>2, <4>2
      <4>4. (CHOOSE i \in of : TRUE) = k
        BY <4>2
      <4> QED BY Zenon, <3>1, <4>1, <4>3, <4>4
    <3>4. ASSUME NEW x \in F, x # <<block, j>> PROVE x[1] \in p.tag_bits /\ p.order[x[1]] = x[2]
      <4>1. x[1] \in pool.tag_bits /\ pool.order[x[1]] = x[2]
        BY DEF PoolInv, WordsOK
      <4>2. x[1] # block /\ x[1] \notin Units(block, o) /\ \A k \in o .. j - 1 : x[1] # block + pow2[k]
        BY <2>25, <3>4
      <4>3. x[1] \in Blocks(n)
        BY <2>3, <4>1
      <4>4. {k \in o .. j - 1 : block + pow2[k] = x[1]} = {}
        BY <4>2
      <4>5. p.order[x[1]] = pool.order[x[1]]
        BY Zenon, <3>2, <4>2, <4>3, <4>4
      <4> QED BY <3>1, <4>1, <4>2, <4>5
    <3>5. ASSUME NEW x \in A PROVE x[1] \notin p.tag_bits
      <4>1. x[1] \notin pool.tag_bits
        BY DEF PoolInv, WordsOK
      <4>2. x # <<block, j>>
        BY <2>6
      <4> QED BY <2>25, <3>1, <4>1, <4>2
    <3>6. block \notin p.tag_bits
      <4>1. \A k \in o .. j - 1 : block # block + pow2[k]
        <5> TAKE k \in o .. j - 1
        <5>1. pow2[k] \in Nat \ {0}
          BY Zenon, <2>11
        <5> QED BY <2>12, <5>1
      <4> QED BY <3>1, <4>1
    <3> HIDE DEF F, U
    <3> QED BY <2>15, <3>3, <3>4, <3>5, <3>6 DEF WordsOK
  <2>27. NoBuddies(G, n)
    <3> SUFFICES ASSUME NEW k \in 0 .. n - 1, NEW u, Aligned(u, k + 1),
                        <<u, k>> \in G, <<u + pow2[k], k>> \in G
                 PROVE  FALSE
      BY DEF NoBuddies
    <3>1. k \in Nat /\ k + 1 \in Nat /\ pow2[k] \in Nat \ {0} /\ pow2[k + 1] = pow2[k] + pow2[k]
      BY Power
    <3>2. u \in Nat
      BY <3>1, AlignedDown
    <3>3. CASE <<u, k>> \in U
      <4>1. u = block + pow2[k] /\ k \in o .. j - 1
        BY <3>3 DEF Upper
      <4>2. k + 1 \in 0 .. j
        BY <2>5, <3>1, <4>1
      <4>3. Aligned(block, k + 1)
        BY <2>5, <2>12, <4>2, AlignedDown
      <4>4. (u <= block /\ block + pow2[k + 1] <= u + pow2[k + 1])
               \/ block + pow2[k + 1] <= u \/ u + pow2[k + 1] <= block
        BY <3>1, <4>3, Nest
      <4> QED BY <2>12, <3>1, <3>2, <4>1, <4>4
    <3>4. CASE <<u + pow2[k], k>> \in U
      <4>1. u + pow2[k] = block + pow2[k] /\ k \in o .. j - 1
        BY <3>4 DEF Upper
      <4>2. u = block
        BY <2>12, <3>1, <3>2, <4>1
      <4>3. In(block, <<block, k>>) /\ In(block, <<block, o>>)
        <5>1. In(block, <<block, k>>)
          BY <2>12, <3>1, FirstUnit DEF In
        <5> QED BY <2>7, <5>1
      <4>4. <<block, k>> = <<block, o>>
        <5> HIDE DEF G
        <5> QED BY <2>17, <4>2, <4>3, SameBlock
      <4> QED BY <2>19, <4>2, <4>4
    <3>5. CASE <<u, k>> \in F /\ <<u + pow2[k], k>> \in F
      BY Zenon, <3>5 DEF PoolInv, NoBuddies
    <3> QED BY <2>15, <3>3, <3>4, <3>5
  <2>28. PoolInv(p, n, C)
    BY <2>17, <2>19, <2>20, <2>21, <2>23, <2>26, <2>27 DEF PoolInv
  <2> QED BY <1>3, <2>2, <2>12, <2>18, <2>28 DEF p
<1> QED BY <1>2, <1>3

-----------------------------------------------------------------------------
\* A free block of order k at most begins at the address.
FreeBegins(pool, b, k) == \E l \in 0 .. k : <<b, l>> \in Listed(pool) /\ pool.order[b] = l

\* The buddy of a block that is being merged, where its bit is set: a free
\* block begins there, not a larger one than what has been merged.  A bit that
\* was left set inside a larger block is not met, because that block would
\* overlap the one that is being freed.
LEMMA BuddyBlock ==
    ASSUME NEW n \in Nat, NEW pool, NEW A, PoolInv(pool, n, A), NEW a, NEW o, <<a, o>> \in A,
           NEW k \in o .. n - 1, NEW b, b = find_buddy(merged(a, k), k), b \in pool.tag_bits
    PROVE  FreeBegins(pool, b, k)
<1> DEFINE m == merged(a, k)
           v == merged(a, k + 1)
           S == Listed(pool) \cup A
<1>1. Tiling(S, n) /\ <<a, o>> \in S
  BY DEF PoolInv
<1>2. a \in Nat /\ o \in 0 .. n /\ Aligned(a, o)
  BY <1>1 DEF Tiling
<1>3. k \in Nat /\ k + 1 \in Nat /\ o \in 0 .. k
  BY <1>2
<1>4. /\ Aligned(m, k) /\ v = merged(m, k + 1)
      /\ v <= a /\ a < v + pow2[k + 1]
  BY <1>2, <1>3, Merged
<1>5. Aligned(v, k + 1) /\ ((m = v /\ b = m + pow2[k]) \/ (m = v + pow2[k] /\ b = v))
  <2> HIDE DEF m, v
  <2>1. b = find_buddy(m, k)
    BY DEF m
  <2> QED BY <1>3, <1>4, <2>1, Siblings
<1> HIDE DEF m, v
<1>6. v \in Nat /\ Aligned(v, k) /\ pow2[k] \in Nat \ {0} /\ pow2[k + 1] = pow2[k] + pow2[k]
  <2>1. k \in 0 .. k + 1
    BY <1>3
  <2>2. v \in Nat /\ Aligned(v, k)
    BY <1>3, <1>5, <2>1, AlignedDown
  <2> QED BY <1>3, <2>2, Power
<1>7. Aligned(b, k) /\ b \in Nat /\ (b = v \/ b = v + pow2[k])
  BY <1>3, <1>5, <1>6, AlignedNext
<1>8. b \in Units(v, k + 1) /\ a \in Units(v, k + 1) /\ b \in Units(b, k)
  BY <1>2, <1>4, <1>6, <1>7 DEF Units
<1>9. b \in 0 .. pow2[n] - 1
  BY DEF PoolInv, PoolTypeOK, Blocks
<1>10. PICK B \in S : In(b, B)
  BY <1>1, <1>9 DEF Tiling
<1> DEFINE c == B[1]
           l == B[2]
<1>11. c \in Nat /\ l \in 0 .. n /\ B = <<c, l>> /\ Aligned(c, l) /\ b \in Units(c, l)
  BY <1>1, <1>10 DEF Tiling, In
<1> HIDE DEF c, l
<1>12. CASE l > k
  <2>1. l \in Nat /\ k + 1 \in 0 .. l
    BY <1>3, <1>11, <1>12
  <2>2. Units(v, k + 1) \subseteq Units(c, l)
    BY <1>5, <1>8, <1>11, <2>1, Overlap
  <2>3. In(a, B) /\ In(a, <<a, o>>)
    BY <1>2, <1>8, <1>11, <2>2, FirstUnit DEF In
  <2>4. B = <<a, o>>
    <3> HIDE DEF S
    <3> QED BY <1>1, <2>3, SameBlock
  <2> QED BY <1>3, <1>11, <1>12, <2>4
<1>13. CASE l <= k
  <2>1. l \in 0 .. k
    BY <1>3, <1>11, <1>13
  <2>2. b <= c
    BY <1>3, <1>7, <1>8, <1>11, <2>1, Overlap
  <2>3. c <= b
    BY <1>11, <1>7, Power DEF Units
  <2>4. B = <<b, l>>
    BY <1>7, <1>11, <2>2, <2>3
  <2>5. B \in Listed(pool) /\ pool.order[b] = l
    BY <1>10, <2>4 DEF PoolInv, WordsOK
  <2> QED BY <2>1, <2>4, <2>5 DEF FreeBegins
<1> QED BY <1>3, <1>11, <1>12, <1>13

\* What buddy_free leaves in the pool p when it stops merging at order last.
FreeResult(pool, n, a, o, last, p) ==
    /\ p.pool_order = n
    /\ p.avail = [k \in 0 .. n |->
                    IF k \in o .. last - 1 THEN list_del(pool.avail[k], find_buddy(merged(a, k), k))
                    ELSE IF k = last THEN <<merged(a, k)>> \o pool.avail[k]
                    ELSE pool.avail[k]]
    /\ p.tag_bits = pool.tag_bits \cup {merged(a, last)}
    /\ p.order = [b \in Blocks(n) |->
                    LET written == {k \in o .. last : merged(a, k) = b /\ (k > o \/ k = last)}
                    IN IF written = {} THEN pool.order[b] ELSE Max(written)]
    /\ p = [pool_order |-> p.pool_order, avail |-> p.avail, tag_bits |-> p.tag_bits, order |-> p.order]

\* buddy_free of a block.
LEMMA FreeFields ==
    ASSUME NEW n \in Nat, NEW pool, PoolTypeOK(pool, n), NEW a, NEW o \in MIN_ORDER .. n,
           NEW last, last = last_order(pool, a, o), NEW p, p = buddy_free(pool, a, o)
    PROVE  FreeResult(pool, n, a, o, last, p)
<1>1. /\ pool = [pool_order |-> pool.pool_order, avail |-> pool.avail, tag_bits |-> pool.tag_bits, order |-> pool.order]
      /\ DOMAIN pool.avail = 0 .. n /\ DOMAIN pool.order = Blocks(n) /\ pool.pool_order = n
      /\ DOMAIN pool = {"pool_order", "avail", "tag_bits", "order"}
  BY DEF PoolTypeOK
<1>2. fixup(o) = o
  BY BlockAssumption DEF fixup
<1> DEFINE written(b) == {k \in o .. last : merged(a, k) = b /\ (k > o \/ k = last)}
           q == [pool EXCEPT
           !.avail = [k \in DOMAIN @ |->
                         IF k \in o .. last - 1 THEN list_del(@[k], find_buddy(merged(a, k), k))
                         ELSE IF k = last THEN <<merged(a, k)>> \o @[k]
                         ELSE @[k]],
           !.tag_bits = mark_available(@, merged(a, last)),
           !.order = [b \in DOMAIN @ |-> IF written(b) = {} THEN @[b] ELSE Max(written(b))]]
<1>3. p = q
  BY <1>2 DEF buddy_free
<1>4. q.pool_order = n
  BY <1>1
<1>5. q.avail = [k \in 0 .. n |->
                    IF k \in o .. last - 1 THEN list_del(pool.avail[k], find_buddy(merged(a, k), k))
                    ELSE IF k = last THEN <<merged(a, k)>> \o pool.avail[k]
                    ELSE pool.avail[k]]
  BY <1>1
<1>6. q.tag_bits = pool.tag_bits \cup {merged(a, last)}
  BY <1>1 DEF mark_available
<1>7. q.order = [b \in Blocks(n) |-> IF written(b) = {} THEN pool.order[b] ELSE Max(written(b))]
  BY <1>1
<1>8. q = [pool_order |-> q.pool_order, avail |-> q.avail, tag_bits |-> q.tag_bits, order |-> q.order]
  <2>1. DOMAIN q = DOMAIN pool
    BY SMTT(20), Zenon
  <2>2. q = [x \in DOMAIN pool |-> q[x]]
    BY Zenon
  <2> HIDE DEF q
  <2> QED BY <1>1, <2>1, <2>2
<1> HIDE DEF q
<1> QED BY <1>3, <1>4, <1>5, <1>6, <1>7, <1>8 DEF FreeResult

\* Where merging stops.
LEMMA LastOrder ==
    ASSUME NEW n \in Nat, NEW pool, pool.pool_order = n, NEW a, NEW o \in 0 .. n,
           NEW last, last = last_order(pool, a, o)
    PROVE  /\ last \in o .. n
           /\ ~ mergeable(pool, a, last)
           /\ \A k \in o .. last - 1 : mergeable(pool, a, k)
<1> DEFINE K == {k \in o .. n : ~ mergeable(pool, a, k)}
<1>1. last = Min(K)
  BY DEF last_order
<1>2. n \in K
  BY DEF mergeable
<1>3. last \in K /\ \A k \in K : last <= k
  <2> K \subseteq Nat
    OBVIOUS
  <2> HIDE DEF K
  <2> QED BY Zenon, <1>1, <1>2, MinIs
<1>4. ASSUME NEW k \in o .. last - 1 PROVE mergeable(pool, a, k)
  <2>1. k \in o .. n /\ ~ (last <= k)
    BY <1>3
  <2> QED BY <1>3, <2>1
<1> QED BY <1>3, <1>4

\* The buddies that a freed block is merged with.
Merging(a, o, last) == {<<find_buddy(merged(a, k), k), k>> : k \in o .. last - 1}

\* The freed block and the buddies may be replaced by the block they make.
LEMMA MergeTiles ==
    ASSUME NEW n \in Nat, NEW S, Tiling(S, n), NEW a, NEW o, <<a, o>> \in S, NEW last \in o .. n,
           Merging(a, o, last) \subseteq S
    PROVE  /\ Tiling((S \ ({<<a, o>>} \cup Merging(a, o, last))) \cup {<<merged(a, last), last>>}, n)
           /\ merged(a, last) \in Nat /\ Aligned(merged(a, last), last)
           /\ \A k \in o .. last : In(merged(a, k), <<merged(a, last), last>>)
           /\ In(a, <<merged(a, last), last>>) /\ In(a, <<a, o>>)
<1> DEFINE V == {<<a, o>>} \cup Merging(a, o, last)
           m == merged(a, last)
<1>1. a \in Nat /\ o \in 0 .. n /\ Aligned(a, o)
  BY DEF Tiling
<1>2. last \in Nat /\ last \in 0 .. n /\ last >= o /\ o \in Nat
  BY <1>1
<1>3. ASSUME NEW k \in o .. last
      PROVE  /\ k \in Nat /\ Aligned(merged(a, k), k) /\ merged(a, k) \in Nat
             /\ a \in Units(merged(a, k), k)
  <2>1. k \in Nat
    BY <1>1
  <2>2. Aligned(merged(a, k), k) /\ merged(a, k) <= a /\ a < merged(a, k) + pow2[k]
    BY <1>1, <2>1, Merged
  <2>3. merged(a, k) \in Nat
    BY <2>1, <2>2, AlignedDown
  <2> QED BY <1>1, <2>1, <2>2, <2>3, Power DEF Units
<1>4. last \in o .. last
  BY <1>2
<1>5. m \in Nat /\ Aligned(m, last) /\ a \in Units(m, last)
  BY <1>3, <1>4
<1>6. \A k \in o .. last : In(merged(a, k), <<m, last>>)
  <2> TAKE k \in o .. last
  <2>1. k \in 0 .. last /\ k \in Nat
    BY <1>1
  <2>2. Units(merged(a, k), k) \subseteq Units(m, last)
    BY Zenon, <1>2, <1>3, <1>5, <2>1, Overlap
  <2>3. merged(a, k) \in Units(merged(a, k), k)
    BY <1>3, <2>1, FirstUnit
  <2> QED BY <2>2, <2>3 DEF In
<1>7. ASSUME NEW u
      PROVE  (\E b \in V : In(u, b)) <=> (\E b \in {<<m, last>>} : In(u, b))
  <2>1. u \in Units(m, last) <=>
          (u \in Units(a, o)
              \/ \E k \in o .. last - 1 : u \in Units(find_buddy(merged(a, k), k), k))
    BY <1>1, <1>2, MergeUnits
  <2>2. (\E b \in V : In(u, b)) <=>
          (In(u, <<a, o>>) \/ \E k \in o .. last - 1 : In(u, <<find_buddy(merged(a, k), k), k>>))
    BY Zenon DEF Merging
  <2>3. \A c, k : In(u, <<c, k>>) <=> u \in Units(c, k)
    BY DEF In
  <2> HIDE DEF V, m
  <2> QED BY <2>1, <2>2, <2>3, Zenon
<1>8. V \subseteq S
  OBVIOUS
<1>9. {<<m, last>>} \subseteq Nat \X (0 .. n)
  BY <1>2, <1>5
<1> HIDE DEF V, m
<1>10. Tiling((S \ V) \cup {<<m, last>>}, n)
  <2> DEFINE B == {<<m, last>>}
  <2>1. /\ B \subseteq Nat \X (0 .. n)
        /\ \A b \in B : Aligned(b[1], b[2])
        /\ \A b, c \in B : \A u : In(u, b) /\ In(u, c) => b = c
        /\ \A u : (\E b \in V : In(u, b)) <=> (\E b \in B : In(u, b))
    BY <1>5, <1>7, <1>9
  <2> HIDE DEF B
  <2>2. Tiling((S \ V) \cup B, n)
    BY SMTT(20), Zenon, <1>8, <2>1, Replace
  <2> QED BY <2>2 DEF B
<1>11. In(a, <<a, o>>) /\ In(a, <<m, last>>)
  BY <1>1, <1>2, <1>5, FirstUnit DEF In
<1> QED BY <1>5, <1>6, <1>10, <1>11 DEF V, m

\* buddy_free keeps the invariant.
LEMMA FreeInv ==
    ASSUME NEW n \in Nat, NEW pool, NEW A, PoolInv(pool, n, A), NEW a, NEW o, <<a, o>> \in A,
           NEW p, p = buddy_free(pool, a, o)
    PROVE  PoolInv(p, n, A \ {<<a, o>>})
<1> DEFINE F == Listed(pool)
           G == Listed(p)
           S == F \cup A
           last == last_order(pool, a, o)
           m == merged(a, last)
           V == Merging(a, o, last)
           D == A \ {<<a, o>>}
           b(k) == find_buddy(merged(a, k), k)
<1>1. /\ DOMAIN pool.avail = 0 .. n
      /\ \A k \in 0 .. n : IsList(pool.avail[k])
      /\ pool.tag_bits \subseteq Blocks(n)
      /\ pool.order \in [Blocks(n) -> (0 .. n) \cup {Unknown}]
      /\ pool.pool_order = n
  BY DEF PoolInv, PoolTypeOK
<1>2. MIN_ORDER \in Nat /\ o \in MIN_ORDER .. n /\ o \in 0 .. n /\ Tiling(S, n) /\ <<a, o>> \in S
  BY BlockAssumption DEF PoolInv
<1>3. last \in o .. n /\ ~ mergeable(pool, a, last) /\ \A k \in o .. last - 1 : mergeable(pool, a, k)
  BY <1>1, <1>2, LastOrder
<1>4. FreeResult(pool, n, a, o, last, p)
  <2> HIDE DEF last
  <2>1. last = last_order(pool, a, o)
    BY DEF last
  <2> QED BY <1>2, <2>1, FreeFields DEF PoolInv
<1> HIDE DEF last
<1>5. last \in 0 .. n /\ last \in Nat /\ last \in o .. last /\ \A k \in o .. last - 1 : k \in o .. n - 1 /\ k \in 0 .. n /\ k # last
  BY <1>2, <1>3
<1>6. \A k \in o .. last - 1 : <<b(k), k>> \in F
  <2> TAKE k \in o .. last - 1
  <2>1. b(k) \in pool.tag_bits /\ pool.order[b(k)] = k /\ k \in o .. n - 1
    BY <1>3, <1>5 DEF mergeable, is_available
  <2>2. \E l \in 0 .. k : <<b(k), l>> \in F /\ pool.order[b(k)] = l
    <3> DEFINE c == find_buddy(merged(a, k), k)
    <3>1. c = find_buddy(merged(a, k), k) /\ c \in pool.tag_bits
      BY <2>1
    <3> HIDE DEF c
    <3>2. FreeBegins(pool, c, k)
      BY <2>1, <3>1, BuddyBlock, Zenon
    <3> QED BY <3>2 DEF c, FreeBegins
  <2> QED BY <2>1, <2>2
<1>7. V \subseteq F /\ V \subseteq S /\ V \cap A = {}
  BY SMTT(20), Zenon, <1>6 DEF Merging, PoolInv
<1>8. /\ Tiling((S \ ({<<a, o>>} \cup V)) \cup {<<m, last>>}, n)
      /\ m \in Nat /\ Aligned(m, last)
      /\ \A k \in o .. last : In(merged(a, k), <<m, last>>)
      /\ In(a, <<m, last>>) /\ In(a, <<a, o>>)
  <2> HIDE DEF S
  <2> QED BY <1>2, <1>3, <1>7, MergeTiles
<1>9. <<m, last>> \notin F /\ <<m, last>> \notin D /\ <<a, o>> \notin F
  <2>1. <<a, o>> \notin F
    BY DEF PoolInv
  <2>2. <<m, last>> \in S => <<m, last>> = <<a, o>>
    <3> HIDE DEF S
    <3> QED BY <1>2, <1>8, SameBlock
  <2> QED BY <2>1, <2>2
<1>10. /\ F \subseteq Nat \X (0 .. n)
       /\ \A c, k : <<c, k>> \in F <=> k \in 0 .. n /\ c \in Range(pool.avail[k])
  BY SMTT(20), Zenon, <1>1, ListedIs
<1>11. ASSUME NEW k \in 0 .. n
       PROVE  /\ IsList(p.avail[k])
              /\ Range(p.avail[k]) = (Range(pool.avail[k]) \ {c \in {b(k)} : k \in o .. last - 1})
                                        \cup {c \in {m} : k = last}
  <2>1. CASE k \in o .. last - 1
    <3>1. p.avail[k] = list_del(pool.avail[k], b(k))
      BY <1>4, <2>1 DEF FreeResult
    <3>2. IsList(p.avail[k]) /\ Range(p.avail[k]) = Range(pool.avail[k]) \ {b(k)}
      BY <1>1, <3>1, DeleteFromList
    <3>3. k # last
      BY <1>5, <2>1
    <3> QED BY <2>1, <3>2, <3>3
  <2>2. CASE k = last
    <3>1. k \notin o .. last - 1
      BY <1>5, <2>2
    <3>2. p.avail[k] = <<m>> \o pool.avail[k]
      BY SMTT(20), Zenon, <1>4, <2>2, <3>1 DEF FreeResult
    <3>3. m \notin Range(pool.avail[k])
      BY <1>9, <1>10, <2>2
    <3>4. IsList(p.avail[k]) /\ Range(p.avail[k]) = Range(pool.avail[k]) \cup {m}
      BY SMTT(20), Zenon, <1>1, <1>8, <3>2, <3>3, AddToList
    <3> QED BY <2>2, <3>1, <3>4
  <2>3. CASE k \notin o .. last - 1 /\ k # last
    <3>1. p.avail[k] = pool.avail[k]
      BY <1>4, <2>3 DEF FreeResult
    <3> QED BY <1>1, <2>3, <3>1
  <2> QED BY SMTT(20), Zenon, <2>1, <2>2, <2>3
<1>12. /\ G \subseteq Nat \X (0 .. n)
       /\ \A c, k : <<c, k>> \in G <=> k \in 0 .. n /\ c \in Range(p.avail[k])
  <2>1. DOMAIN p.avail = 0 .. n
    BY <1>4 DEF FreeResult
  <2> QED BY <1>11, <2>1, ListedIs
<1>13. G = (F \ V) \cup {<<m, last>>}
  <2>1. ASSUME NEW c, NEW k
        PROVE  <<c, k>> \in G <=> <<c, k>> \in (F \ V) \cup {<<m, last>>}
    <3>1. <<c, k>> \in V <=> k \in o .. last - 1 /\ c = b(k)
      BY DEF Merging
    <3>2. k \in 0 .. n => (c \in Range(p.avail[k]) <=>
             ((c \in Range(pool.avail[k]) /\ ~ (c = b(k) /\ k \in o .. last - 1))
                \/ (c = m /\ k = last)))
      BY <1>11
    <3> QED BY <1>5, <1>10, <1>12, <3>1, <3>2
  <2>2. <<m, last>> \in Nat \X (0 .. n)
    BY <1>5, <1>8
  <2> HIDE DEF F, G, V, m
  <2>3. G \subseteq Nat \X (0 .. n) /\ (F \ V) \cup {<<m, last>>} \subseteq Nat \X (0 .. n)
    BY <1>10, <1>12, <2>2
  <2>4. \A x \in Nat \X (0 .. n) : x = <<x[1], x[2]>>
    OBVIOUS
  <2> QED BY <2>1, <2>3, <2>4
<1>14. Tiling(G \cup D, n)
  <2>1. G \cup D = (S \ ({<<a, o>>} \cup V)) \cup {<<m, last>>}
    BY <1>7, <1>9, <1>13
  <2> QED BY <1>8, <2>1
<1>15. G \cap D = {}
  <2>1. F \cap A = {}
    BY DEF PoolInv
  <2> QED BY <1>9, <1>13, <2>1
<1>16. \A x \in G : x[2] >= MIN_ORDER
  <2>1. last >= MIN_ORDER
    BY <1>2, <1>3
  <2> QED BY <1>13, <2>1 DEF PoolInv
<1>17. D \subseteq Nat \X (MIN_ORDER .. n)
  BY DEF PoolInv
<1>18. <<m, last>> \in G /\ m \in Blocks(n)
  <2>1. <<m, last>> \in G /\ last >= MIN_ORDER
    BY <1>2, <1>3, <1>13
  <2>2. <<m, last>> \in G \cup D /\ MIN_ORDER <= last
    BY <1>2, <1>3, <2>1
  <2> HIDE DEF G, D
  <2> QED BY <1>14, <2>1, <2>2, BlockStarts
<1>19. \A c \in Blocks(n) :
          p.order[c] = LET written == {k \in o .. last : merged(a, k) = c /\ (k > o \/ k = last)}
                       IN IF written = {} THEN pool.order[c] ELSE Max(written)
  BY <1>4 DEF FreeResult
<1>20. PoolTypeOK(p, n)
  <2>1. p.avail \in [0 .. n -> Seq(Nat)]
    <3>1. p.avail = [k \in 0 .. n |-> p.avail[k]]
      BY <1>4 DEF FreeResult
    <3>2. \A k \in 0 .. n : p.avail[k] \in Seq(Nat)
      BY <1>11 DEF IsList
    <3> QED BY <3>1, <3>2
  <2>2. p.tag_bits \in SUBSET Blocks(n)
    BY <1>1, <1>4, <1>18 DEF FreeResult
  <2>3. ASSUME NEW c \in Blocks(n) PROVE p.order[c] \in (0 .. n) \cup {Unknown}
    <3> DEFINE written == {k \in o .. last : merged(a, k) = c /\ (k > o \/ k = last)}
    <3>1. written # {} => Max(written) \in 0 .. n
      <4>1. written \subseteq 0 .. n /\ written \subseteq Nat /\ \A k \in written : k <= last
        BY <1>2, <1>3, <1>5
      <4> HIDE DEF written
      <4> QED BY Zenon, <1>5, <4>1, MaxIs
    <3>2. p.order[c] = IF written = {} THEN pool.order[c] ELSE Max(written)
      BY <1>19
    <3>3. pool.order[c] \in (0 .. n) \cup {Unknown}
      BY <1>1
    <3> HIDE DEF written
    <3> QED BY <3>1, <3>2, <3>3
  <2>4. p.order \in [Blocks(n) -> (0 .. n) \cup {Unknown}]
    <3>1. p.order = [c \in Blocks(n) |-> p.order[c]]
      BY <1>4 DEF FreeResult
    <3> QED BY <2>3, <3>1
  <2> QED BY Zenon, <1>4, <1>11, <2>1, <2>2, <2>4 DEF FreeResult, PoolTypeOK
<1>21. \A x \in G \cup D : In(x[1], x)
  <2> TAKE x \in G \cup D
  <2>1. x[1] \in Nat /\ x[2] \in Nat
    BY <1>14 DEF Tiling
  <2> QED BY <2>1, FirstUnit DEF In
<1>22. \A x \in G \cup D : In(x[1], <<m, last>>) => x = <<m, last>>
  <2> HIDE DEF G, D
  <2> QED BY <1>14, <1>18, <1>21, SameBlock
<1>23. WordsOK(p, D)
  <2>1. p.tag_bits = pool.tag_bits \cup {m}
    BY <1>4 DEF FreeResult
  <2>2. ASSUME NEW x \in F, x \notin V PROVE x[1] \in p.tag_bits /\ p.order[x[1]] = x[2]
    <3>1. x[1] \in pool.tag_bits /\ pool.order[x[1]] = x[2]
      BY DEF PoolInv, WordsOK
    <3>2. x[1] \in Blocks(n)
      BY <1>1, <3>1
    <3>3. \A k \in o .. last : merged(a, k) # x[1]
      <4> SUFFICES ASSUME NEW k \in o .. last, merged(a, k) = x[1] PROVE FALSE
        OBVIOUS
      <4>1. In(x[1], <<m, last>>) /\ x \in G
        BY <1>8, <1>13, <2>2
      <4>2. x = <<m, last>>
        BY <1>22, <4>1
      <4> QED BY <1>9, <4>2
    <3>4. {k \in o .. last : merged(a, k) = x[1] /\ (k > o \/ k = last)} = {}
      BY <3>3
    <3>5. p.order[x[1]] = pool.order[x[1]]
      BY Zenon, <1>19, <3>2, <3>4
    <3> QED BY <2>1, <3>1, <3>5
  <2>3. p.order[m] = last
    <3> DEFINE written == {k \in o .. last : merged(a, k) = m /\ (k > o \/ k = last)}
    <3>1. last \in written /\ written \subseteq Nat /\ \A k \in written : k <= last
      BY <1>2, <1>5
    <3>2. p.order[m] = IF written = {} THEN pool.order[m] ELSE Max(written)
      BY <1>18, <1>19
    <3> HIDE DEF written
    <3>3. Max(written) = last
      BY Zenon, <1>5, <3>1, MaxIs
    <3> QED BY <3>1, <3>2, <3>3
  <2>4. ASSUME NEW x \in D PROVE x[1] \notin p.tag_bits
    <3>1. x[1] \notin pool.tag_bits
      BY DEF PoolInv, WordsOK
    <3>2. x[1] # m
      <4> SUFFICES ASSUME x[1] = m PROVE FALSE
        OBVIOUS
      <4>1. In(x[1], <<m, last>>)
        BY <1>18, <1>21
      <4>2. x = <<m, last>>
        BY <1>22, <4>1
      <4> QED BY <1>9, <4>2
    <3> QED BY <2>1, <3>1, <3>2
  <2>5. m \in p.tag_bits
    BY <2>1
  <2> HIDE DEF F, V, D, m
  <2> QED BY <1>13, <2>2, <2>3, <2>4, <2>5 DEF WordsOK
<1>24. NoBuddies(G, n)
  <2> SUFFICES ASSUME NEW k \in 0 .. n - 1, NEW u, Aligned(u, k + 1),
                      <<u, k>> \in G, <<u + pow2[k], k>> \in G
               PROVE  FALSE
    BY DEF NoBuddies
  <2>1. k \in Nat /\ k + 1 \in Nat /\ pow2[k] \in Nat \ {0}
    BY Power
  <2>2. u \in Nat /\ u # u + pow2[k]
    <3>1. u \in Nat
      BY <2>1, AlignedDown
    <3> QED BY <2>1, <3>1
  <2>3. ASSUME k = last, NEW w, <<w, last>> \in G, w # m, w = find_buddy(m, last)
        PROVE  FALSE
    <3>1. <<w, last>> \in F
      BY <1>13, <2>3
    <3>2. w \in pool.tag_bits /\ pool.order[w] = last
      BY <3>1 DEF PoolInv, WordsOK
    <3>3. last < n
      BY <2>3
    <3>4. mergeable(pool, a, last)
      BY <1>1, <2>3, <3>2, <3>3 DEF mergeable, is_available
    <3> QED BY <1>3, <3>4
  <2>4. ASSUME k = last
        PROVE  \/ m = merged(m, k + 1) /\ find_buddy(m, k) = m + pow2[k]
               \/ m = merged(m, k + 1) + pow2[k] /\ find_buddy(m, k) = merged(m, k + 1)
    <3> HIDE DEF m
    <3> QED BY <1>8, <2>1, <2>4, Siblings
  <2>5. Aligned(merged(m, last + 1), last + 1) /\ merged(m, last + 1) \in Nat
    <3> HIDE DEF m
    <3>1. Aligned(merged(m, last + 1), last + 1) /\ last + 1 \in Nat
      BY <1>5, <1>8, Siblings
    <3> QED BY <3>1, AlignedDown
  <2>6. CASE <<u, k>> = <<m, last>>
    <3>1. find_buddy(m, last) = u + pow2[k]
      <4>1. u = m /\ k = last
        BY <2>6
      <4>2. ~ (m = merged(m, k + 1) + pow2[k])
        <5> DEFINE v == merged(m, k + 1)
        <5>1. Aligned(v, k + 1) /\ v \in Nat
          BY <2>5, <4>1
        <5> HIDE DEF v
        <5>2. (u <= v /\ v + pow2[k + 1] <= u + pow2[k + 1])
                 \/ v + pow2[k + 1] <= u \/ u + pow2[k + 1] <= v
          BY <2>1, <5>1, Nest
        <5>3. pow2[k + 1] = pow2[k] + pow2[k]
          BY <2>1, Power
        <5>4. u # v + pow2[k]
          BY <2>1, <2>2, <5>1, <5>2, <5>3
        <5> QED BY <4>1, <5>4 DEF v
      <4> QED BY <2>4, <4>1, <4>2
    <3>2. k = last /\ u + pow2[k] # m
      BY <2>2, <2>6
    <3>3. <<u + pow2[k], last>> \in G
      BY <2>6
    <3> QED BY <2>3, <3>1, <3>2, <3>3
  <2>7. CASE <<u + pow2[k], k>> = <<m, last>>
    <3>1. find_buddy(m, last) = u
      <4>1. u + pow2[k] = m /\ k = last
        BY <2>7
      <4> DEFINE v == merged(m, k + 1)
      <4>2. Aligned(v, k + 1) /\ v \in Nat
        BY <2>5, <4>1
      <4>3. (m = v /\ find_buddy(m, k) = m + pow2[k]) \/ (m = v + pow2[k] /\ find_buddy(m, k) = v)
        BY <2>4, <4>1
      <4> HIDE DEF v
      <4>4. (u <= v /\ v + pow2[k + 1] <= u + pow2[k + 1])
               \/ v + pow2[k + 1] <= u \/ u + pow2[k + 1] <= v
        BY <2>1, <4>2, Nest
      <4>5. pow2[k + 1] = pow2[k] + pow2[k]
        BY <2>1, Power
      <4>6. m # v
        BY <2>1, <2>2, <4>1, <4>2, <4>4, <4>5
      <4>7. find_buddy(m, k) = v /\ u + pow2[k] = v + pow2[k]
        BY <4>1, <4>3, <4>6
      <4>8. u = v
        BY <2>1, <2>2, <4>2, <4>7
      <4> QED BY <4>1, <4>7, <4>8
    <3>2. k = last /\ u # m
      BY <2>2, <2>7
    <3>3. <<u, last>> \in G
      BY <2>7
    <3> QED BY <2>3, <3>1, <3>2, <3>3
  <2>8. CASE <<u, k>> \in F /\ <<u + pow2[k], k>> \in F
    BY Zenon, <2>8 DEF PoolInv, NoBuddies
  <2> QED BY <1>13, <2>6, <2>7, <2>8
<1> QED BY <1>14, <1>15, <1>16, <1>17, <1>20, <1>23, <1>24 DEF PoolInv

-----------------------------------------------------------------------------
\* A pool that buddy_init has made, all of which its maker holds.
LEMMA InitInv ==
    ASSUME NEW n \in Nat, MIN_ORDER <= n
    PROVE  PoolInv(buddy_init(n), n, {<<0, n>>})
<1> DEFINE pool == buddy_init(n)
           S == {<<0, n>>}
<1>1. MIN_ORDER \in Nat /\ n \in MIN_ORDER .. n /\ n \in 0 .. n
  BY BlockAssumption
<1>2. /\ pool.pool_order = n
      /\ pool.avail = [j \in 0 .. n |-> <<>>]
      /\ pool.tag_bits = {}
      /\ pool.order = [b \in Blocks(n) |-> Unknown]
      /\ pool = [pool_order |-> pool.pool_order, avail |-> pool.avail, tag_bits |-> pool.tag_bits, order |-> pool.order]
  BY DEF buddy_init
<1> HIDE DEF pool
<1>3. \A k \in 0 .. n : pool.avail[k] = <<>>
  BY <1>2
<1>4. IsList(<<>>) /\ Range(<<>>) = {}
  BY DEF IsList, IsInjective, Range
<1>5. PoolTypeOK(pool, n)
  <2>1. pool.avail \in [0 .. n -> Seq(Nat)]
    BY <1>2
  <2>2. pool.tag_bits \in SUBSET Blocks(n)
    BY <1>2
  <2>3. pool.order \in [Blocks(n) -> (0 .. n) \cup {Unknown}]
    BY <1>2
  <2> QED BY <1>2, <1>3, <1>4, <2>1, <2>2, <2>3 DEF PoolTypeOK
<1>6. Listed(pool) = {}
  <2>1. DOMAIN pool.avail = 0 .. n
    BY <1>2
  <2> QED BY <1>3, <1>4, <2>1 DEF Listed
<1>7. Tiling(S, n)
  <2>1. Aligned(0, n)
    <3>1. 0 = 0 * pow2[n]
      BY Power
    <3> QED BY <3>1 DEF Aligned
  <2>2. \A u : In(u, <<0, n>>) <=> u \in 0 .. pow2[n] - 1
    <3>1. 0 + pow2[n] - 1 = pow2[n] - 1
      BY Power
    <3> QED BY <3>1 DEF In, Units
  <2> QED BY <1>1, <2>1, <2>2 DEF Tiling
<1>8. Listed(pool) \cup S = S
  BY <1>6
<1> QED BY <1>1, <1>2, <1>5, <1>6, <1>7, <1>8 DEF PoolInv, WordsOK, NoBuddies, pool

\* ADD_MEMORY gives all of it to the pool.
LEMMA NewPool ==
    ASSUME NEW n \in Nat, MIN_ORDER <= n
    PROVE  PoolInv(buddy_free(buddy_init(n), 0, n), n, {})
<1> DEFINE pool == buddy_init(n)
           p == buddy_free(pool, 0, n)
           A == {<<0, n>>}
<1>1. PoolInv(pool, n, A) /\ <<0, n>> \in A /\ p = buddy_free(pool, 0, n)
  BY InitInv
<1> HIDE DEF pool, p
<1>2. A \ {<<0, n>>} = {}
  OBVIOUS
<1> HIDE DEF A
<1>3. PoolInv(p, n, A \ {<<0, n>>})
  BY <1>1, FreeInv
<1> QED BY <1>2, <1>3 DEF pool, p

\* When no list can serve a request of the order, every aligned block of that
\* size overlaps one that is handed out: the smallest free block in it would
\* otherwise have a free buddy.
LEMMA Full ==
    ASSUME NEW n \in Nat, NEW pool, NEW A, PoolInv(pool, n, A), NEW o \in 0 .. n,
           candidates(pool, o) = {}, NEW addr, Aligned(addr, o), addr \in 0 .. pow2[n] - 1
    PROVE  \E b \in A : \E u : In(u, b) /\ In(u, <<addr, o>>)
<1> SUFFICES ASSUME \A b \in A : \A u : In(u, b) => ~ In(u, <<addr, o>>)
             PROVE  FALSE
  OBVIOUS
<1> DEFINE F == Listed(pool)
           S == F \cup A
<1>1. Tiling(S, n) /\ S \subseteq Nat \X (0 .. n) /\ \A b \in S : Aligned(b[1], b[2])
  BY DEF PoolInv, Tiling
<1>2. o \in Nat /\ addr \in Nat /\ pow2[o] \in Nat \ {0}
  BY Power
<1>3. \A u : In(u, <<addr, o>>) /\ u \in 0 .. pow2[n] - 1 => \E b \in F : In(u, b)
  BY <1>1 DEF Tiling
<1>4. \A b \in F : b[2] < o
  <2> TAKE b \in F
  <2>1. /\ DOMAIN pool.avail = 0 .. n /\ pool.pool_order = n
        /\ \A k \in 0 .. n : IsList(pool.avail[k])
    BY DEF PoolInv, PoolTypeOK
  <2>2. b[2] \in 0 .. n /\ b[1] \in Range(pool.avail[b[2]])
    <3>1. \A c, k : <<c, k>> \in F <=> k \in 0 .. n /\ c \in Range(pool.avail[k])
      BY Zenon, <2>1, ListedIs
    <3>2. b = <<b[1], b[2]>>
      BY <1>1
    <3> QED BY <3>1, <3>2
  <2>3. pool.avail[b[2]] # <<>>
    BY <2>2 DEF Range
  <2>4. b[2] \notin o .. n
    BY <2>1, <2>3 DEF candidates
  <2> QED BY <1>2, <2>2, <2>4
<1> DEFINE L == {l \in 0 .. n : \E c : <<c, l>> \in F /\ \E u : In(u, <<c, l>>) /\ In(u, <<addr, o>>)}
<1>5. L # {} /\ L \subseteq Nat
  <2>1. In(addr, <<addr, o>>)
    BY <1>2, FirstUnit DEF In
  <2>2. PICK b \in F : In(addr, b)
    BY <1>3, <2>1
  <2>3. b = <<b[1], b[2]>> /\ b[2] \in 0 .. n
    BY <1>1
  <2>4. <<b[1], b[2]>> \in F /\ In(addr, <<b[1], b[2]>>)
    BY <2>2, <2>3
  <2>5. b[2] \in L
    BY <2>1, <2>3, <2>4
  <2>6. L \subseteq Nat
    OBVIOUS
  <2> HIDE DEF L
  <2> QED BY <2>5, <2>6
<1> DEFINE l == Min(L)
<1>6. l \in L /\ \A k \in L : l <= k
  <2> HIDE DEF L
  <2> QED BY <1>5, MinIs
<1> HIDE DEF l
<1>7. PICK c, w : <<c, l>> \in F /\ In(w, <<c, l>>) /\ In(w, <<addr, o>>)
  BY Zenon, <1>6
<1>8. l \in 0 .. n /\ l \in Nat /\ l < o /\ c \in Nat /\ Aligned(c, l)
  BY <1>1, <1>4, <1>6, <1>7
<1> DEFINE v == merged(c, l + 1)
           b == find_buddy(c, l)
<1>9. Aligned(v, l + 1) /\ ((c = v /\ b = c + pow2[l]) \/ (c = v + pow2[l] /\ b = v))
  BY <1>8, Siblings
<1> HIDE DEF v, b
<1>10. v \in Nat /\ Aligned(v, l) /\ pow2[l] \in Nat \ {0} /\ pow2[l + 1] = pow2[l] + pow2[l] /\ l + 1 \in Nat
  <2>1. l + 1 \in Nat /\ l \in 0 .. l + 1
    BY <1>8
  <2> QED BY <1>8, <1>9, <2>1, AlignedDown, Power
<1>11. Aligned(b, l) /\ b \in Nat
  <2>1. Aligned(v + pow2[l], l) /\ v + pow2[l] \in Nat
    BY <1>8, <1>10, AlignedNext
  <2> QED BY <1>9, <1>10, <2>1
<1>12. \A u : u \in Units(v, l + 1) <=> (u \in Units(c, l) \/ u \in Units(b, l))
  <2> TAKE u
  <2>1. u \in Units(v, l + 1) <=> (u \in Units(v, l) \/ u \in Units(v + pow2[l], l))
    BY SMTT(20), Zenon, <1>8, <1>10, Halves
  <2> QED BY <1>9, <2>1
<1>13. Units(v, l + 1) \subseteq Units(addr, o)
  <2>1. w \in Units(v, l + 1) /\ w \in Units(addr, o)
    BY <1>7, <1>12 DEF In
  <2>2. l + 1 \in 0 .. o
    BY <1>2, <1>8
  <2> QED BY <1>2, <1>9, <2>1, <2>2, Overlap
<1>14. b \in Units(b, l) /\ b \in Units(v, l + 1) /\ b \in Units(addr, o)
  BY <1>8, <1>11, <1>12, <1>13, FirstUnit
<1>15. Units(addr, o) \subseteq 0 .. pow2[n] - 1
  <2>1. o \in 0 .. n
    OBVIOUS
  <2>2. Aligned(0, n) /\ addr \in Units(0, n) /\ Units(0, n) = 0 .. pow2[n] - 1 /\ addr \in Units(addr, o)
    <3>1. 0 = 0 * pow2[n] /\ 0 + pow2[n] - 1 = pow2[n] - 1
      BY Power
    <3>2. Units(0, n) = 0 .. pow2[n] - 1
      BY <3>1 DEF Units
    <3> QED BY Zenon, <1>2, <3>1, <3>2, FirstUnit DEF Aligned
  <2> QED BY Zenon, <2>2, Overlap
<1>16. PICK B \in F : In(b, B)
  BY <1>3, <1>14, <1>15 DEF In
<1> DEFINE d == B[1]
           k == B[2]
<1>17. d \in Nat /\ k \in 0 .. n /\ B = <<d, k>> /\ Aligned(d, k) /\ b \in Units(d, k) /\ k \in Nat
  BY <1>1, <1>16 DEF In
<1> HIDE DEF d, k
<1>18. l <= k
  <2>1. k \in L
    BY <1>14, <1>16, <1>17 DEF In
  <2> QED BY Zenon, <1>6, <2>1
<1>19. CASE k > l
  <2>1. l + 1 \in 0 .. k
    BY <1>8, <1>17, <1>19
  <2>2. Units(v, l + 1) \subseteq Units(d, k)
    BY SMTT(20), Zenon, <1>9, <1>14, <1>17, <2>1, Overlap
  <2>3. In(c, B) /\ In(c, <<c, l>>)
    BY SMTT(20), Zenon, <1>8, <1>12, <1>17, <2>2, FirstUnit DEF In
  <2>4. B = <<c, l>>
    BY <1>1, <1>7, <1>16, <2>3, SameBlock
  <2> QED BY <1>8, <1>17, <1>19, <2>4
<1>20. CASE k = l
  <2>0. l \in 0 .. l /\ Aligned(d, l) /\ b \in Units(d, l)
    BY <1>8, <1>17, <1>20
  <2>1. b <= d
    BY <1>8, <1>11, <1>14, <2>0, Overlap
  <2>2. d <= b
    BY <1>11, <1>17, Power DEF Units
  <2>3. <<b, l>> \in F
    BY <1>11, <1>16, <1>17, <1>20, <2>1, <2>2
  <2>4. <<v, l>> \in F /\ <<v + pow2[l], l>> \in F
    BY <1>7, <1>9, <2>3
  <2>5. l \in 0 .. n - 1
    BY <1>2, <1>8
  <2> QED BY <1>9, <2>4, <2>5 DEF PoolInv, NoBuddies
<1> QED BY <1>8, <1>17, <1>18, <1>19, <1>20

-----------------------------------------------------------------------------
\* The invariant of the pool and its callers.
BuddyIInv == PoolInv(mp, POOL_ORDER, allocated)

\* The pool and its callers keep the invariant.
LEMMA PoolInvariant == BuddySpec => []BuddyIInv
<1>1. POOL_ORDER \in Nat /\ MIN_ORDER <= POOL_ORDER /\ MIN_ORDER \in Nat
  BY OrderAssumption, BlockAssumption
<1>2. BuddyInit => BuddyIInv
  BY <1>1, NewPool DEF BuddyInit, BuddyIInv
<1>3. BuddyIInv /\ [BuddyNext]_buddy_vars => BuddyIInv'
  <2> SUFFICES ASSUME BuddyIInv, [BuddyNext]_buddy_vars PROVE BuddyIInv'
    OBVIOUS
  <2>1. ASSUME NEW order \in 0 .. POOL_ORDER, Alloc(order) PROVE BuddyIInv'
    <3> DEFINE r == buddy_alloc(mp, order)
               o == fixup(order)
    <3>1. o <= POOL_ORDER
      BY <1>1 DEF fixup
    <3>2. r = buddy_alloc(mp, order) /\ o = fixup(order)
      OBVIOUS
    <3>3. mp' = r.pool /\ allocated' = IF r.block = NULL THEN allocated ELSE allocated \cup {<<r.block, o>>}
      BY <2>1 DEF Alloc
    <3> HIDE DEF r, o
    <3>4. \/ r.block = NULL /\ r.pool = mp
          \/ r.block \in Nat /\ PoolInv(r.pool, POOL_ORDER, allocated \cup {<<r.block, o>>})
      BY Zenon, <1>1, <3>1, <3>2, AllocInv DEF BuddyIInv
    <3> QED BY <3>3, <3>4, BlockAssumption DEF BuddyIInv
  <2>2. ASSUME NEW b \in allocated, Free(b) PROVE BuddyIInv'
    <3> DEFINE p == buddy_free(mp, b[1], b[2])
    <3>1. b = <<b[1], b[2]>>
      BY DEF BuddyIInv, PoolInv
    <3>2. mp' = p /\ allocated' = allocated \ {<<b[1], b[2]>>} /\ p = buddy_free(mp, b[1], b[2])
      BY <2>2, <3>1 DEF Free
    <3> HIDE DEF p
    <3>3. PoolInv(p, POOL_ORDER, allocated \ {<<b[1], b[2]>>})
      BY <1>1, <3>1, <3>2, FreeInv DEF BuddyIInv
    <3> QED BY <3>2, <3>3 DEF BuddyIInv
  <2>3. CASE UNCHANGED buddy_vars
    BY <2>3 DEF buddy_vars, BuddyIInv
  <2> QED BY <2>1, <2>2, <2>3 DEF BuddyNext
<1> QED BY <1>2, <1>3, PTL DEF BuddySpec

\* The blocks on the free lists and those handed out are aligned, do not
\* overlap and make up the pool, however buddy_alloc and buddy_free are called.
THEOREM PoolPartitioned == BuddySpec => []Partition
<1>1. BuddyIInv => Partition
  <2> SUFFICES ASSUME BuddyIInv PROVE Partition
    OBVIOUS
  <2> DEFINE n == POOL_ORDER
             all == FreeBlocks \cup allocated
  <2>1. n \in Nat /\ MIN_ORDER <= n /\ MIN_ORDER \in Nat
    BY OrderAssumption, BlockAssumption
  <2>2. FreeBlocks = Listed(mp)
    BY DEF FreeBlocks, Listed
  <2>3. Tiling(all, n) /\ \A a \in all : a[2] >= MIN_ORDER /\ a = <<a[1], a[2]>>
    BY <2>2 DEF BuddyIInv, PoolInv, Tiling
  <2>4. /\ mp.pool_order = n /\ DOMAIN mp.avail = 0 .. n
        /\ mp.avail \in [0 .. n -> Seq(Nat)]
        /\ mp.tag_bits \subseteq Blocks(n)
        /\ mp.order \in [Blocks(n) -> (0 .. n) \cup {Unknown}]
        /\ \A k \in 0 .. n : IsList(mp.avail[k])
    BY DEF BuddyIInv, PoolInv, PoolTypeOK
  <2>5. \A a \in all : a[1] \in Blocks(n) /\ a[1] \in Nat /\ a[2] \in 0 .. n /\ Aligned(a[1], a[2])
    <3> TAKE a \in all
    <3>1. <<a[1], a[2]>> \in all /\ MIN_ORDER <= a[2]
      BY <2>1, <2>3 DEF Tiling
    <3> HIDE DEF all
    <3> QED BY <2>1, <2>3, <3>1, BlockStarts
  <2>6. ASSUME NEW k \in 0 .. n PROVE mp.avail[k] \in Seq(Blocks(n))
    <3>1. \A i \in 1 .. Len(mp.avail[k]) : mp.avail[k][i] \in Blocks(n)
      <4> TAKE i \in 1 .. Len(mp.avail[k])
      <4>1. mp.avail[k][i] \in Range(mp.avail[k])
        BY <2>4 DEF Range
      <4>2. <<mp.avail[k][i], k>> \in all
        BY Zenon, <2>1, <2>2, <2>4, <4>1, ListedIs
      <4> QED BY <2>5, <4>2
    <3>2. mp.avail[k] \in Seq(Nat)
      BY Zenon, <2>4
    <3> QED BY SMTT(20), Zenon, <3>1, <3>2
  <2>7. BuddyTypeOK
    <3>1. mp.avail \in [0 .. n -> Seq(Blocks(n))]
      BY Zenon, <2>4, <2>6
    <3>2. allocated \subseteq Blocks(n) \X (MIN_ORDER .. n)
      <4> SUFFICES ASSUME NEW a \in allocated PROVE a \in Blocks(n) \X (MIN_ORDER .. n)
        OBVIOUS
      <4>1. a[1] \in Blocks(n)
        BY <2>5
      <4>2. a \in Nat \X (MIN_ORDER .. n)
        BY DEF BuddyIInv, PoolInv
      <4> QED BY <4>1, <4>2
    <3> QED BY <2>4, <3>1, <3>2 DEF BuddyTypeOK
  <2>8. \A k \in DOMAIN mp.avail : IsInjective(mp.avail[k])
    BY <2>4 DEF IsList
  <2>9. FreeBlocks \cap allocated = {}
    BY <2>2 DEF BuddyIInv, PoolInv
  <2>10. \A a, b \in all : a # b => Units(a[1], a[2]) \cap Units(b[1], b[2]) = {}
    BY <2>3 DEF Tiling, In
  <2>11. \A a \in all : a[1] % pow2[a[2]] = 0
    BY <2>5, AlignedMod
  <2>12. UNION {Units(a[1], a[2]) : a \in all} = 0 .. pow2[n] - 1
    <3>1. \A u : u \in 0 .. pow2[n] - 1 <=> \E a \in all : u \in Units(a[1], a[2])
      BY <2>3 DEF Tiling, In
    <3> QED BY <3>1
  <2> QED BY <2>7, <2>8, <2>9, <2>10, <2>11, <2>12 DEF Partition
<1> QED BY <1>1, PoolInvariant, PTL

\* A caller can free a block it holds at any time: the BUG_ON of buddy_free does
\* not stop it and the order words it reads are those of free blocks.
THEOREM PoolFreeIsSafe == BuddySpec => []FreeIsSafe
<1>1. BuddyIInv => FreeIsSafe
  <2> SUFFICES ASSUME BuddyIInv, NEW b \in allocated
               PROVE  /\ ~ is_available(mp, b[1])
                      /\ \A k \in b[2] .. last_order(mp, b[1], b[2]) :
                            LET buddy == find_buddy(merged(b[1], k), k)
                            IN k < POOL_ORDER /\ is_available(mp, buddy) =>
                                  \E f \in FreeBlocks : f[1] = buddy
    BY DEF FreeIsSafe
  <2>1. POOL_ORDER \in Nat /\ b = <<b[1], b[2]>> /\ b[2] \in 0 .. POOL_ORDER
    BY OrderAssumption, BlockAssumption DEF BuddyIInv, PoolInv
  <2>2. ~ is_available(mp, b[1])
    BY DEF BuddyIInv, PoolInv, WordsOK, is_available
  <2>3. ASSUME NEW k \in b[2] .. last_order(mp, b[1], b[2]), k < POOL_ORDER,
               NEW buddy, buddy = find_buddy(merged(b[1], k), k), is_available(mp, buddy)
        PROVE  \E f \in FreeBlocks : f[1] = buddy
    <3>1. k \in b[2] .. POOL_ORDER - 1
      BY <2>1, <2>3
    <3>2. <<b[1], b[2]>> \in allocated /\ buddy \in mp.tag_bits
      BY <2>1, <2>3 DEF is_available
    <3>3. FreeBegins(mp, buddy, k)
      BY <2>1, <2>3, <3>1, <3>2, BuddyBlock DEF BuddyIInv
    <3>4. PICK l \in 0 .. k : <<buddy, l>> \in FreeBlocks
      BY <3>3 DEF FreeBegins, FreeBlocks, Listed
    <3> QED BY <3>4
  <2> QED BY <2>2, <2>3
<1> QED BY <1>1, PoolInvariant, PTL

\* buddy_alloc returns NULL only when every aligned block of the size overlaps
\* one that is handed out.
THEOREM PoolAllocFailsOnlyWhenFull == BuddySpec => []AllocFailsOnlyWhenFull
<1>1. BuddyIInv => AllocFailsOnlyWhenFull
  <2> SUFFICES ASSUME BuddyIInv, NEW order \in MIN_ORDER .. POOL_ORDER,
                      buddy_alloc(mp, order).block = NULL,
                      NEW addr \in {a \in Blocks(POOL_ORDER) : a % pow2[order] = 0}
               PROVE  \E b \in allocated : Units(addr, order) \cap Units(b[1], b[2]) # {}
    BY DEF AllocFailsOnlyWhenFull
  <2>1. POOL_ORDER \in Nat /\ order \in 0 .. POOL_ORDER /\ fixup(order) = order /\ order <= POOL_ORDER /\ order \in Nat
    BY SMTT(20), Zenon, OrderAssumption, BlockAssumption DEF fixup
  <2>2. candidates(mp, order) = {}
    <3> DEFINE r == buddy_alloc(mp, order)
    <3>1. r = buddy_alloc(mp, order) /\ order = fixup(order) /\ r.block \notin Nat
      BY <2>1, BlockAssumption
    <3> HIDE DEF r
    <3> QED BY Zenon, <2>1, <3>1, AllocInv DEF BuddyIInv
  <2>3. addr \in 0 .. pow2[POOL_ORDER] - 1 /\ addr \in Nat /\ Aligned(addr, order)
    <3>1. addr \in 0 .. pow2[POOL_ORDER] - 1 /\ addr \in Nat /\ addr % pow2[order] = 0
      BY DEF Blocks
    <3> QED BY <2>1, <3>1, AlignedMod
  <2>4. PICK b \in allocated : \E u : In(u, b) /\ In(u, <<addr, order>>)
    BY <2>1, <2>2, <2>3, Full DEF BuddyIInv
  <2> QED BY <2>4 DEF In
<1> QED BY <1>1, PoolInvariant, PTL

\* buddy_alloc and buddy_free are steps of AbstractAllocator.
THEOREM PoolRefinesAllocator == BuddySpec => Refinement
<1>1. Abstract!pow2 = pow2
  BY DEF Abstract!pow2, pow2
<1>2. BuddyInit => Abstract!Init
  BY DEF BuddyInit, Abstract!Init
<1>3. BuddyIInv /\ [BuddyNext]_buddy_vars => [Abstract!Next]_allocated
  <2> SUFFICES ASSUME BuddyIInv, [BuddyNext]_buddy_vars PROVE Abstract!Next \/ UNCHANGED allocated
    OBVIOUS
  <2>0. POOL_ORDER \in Nat /\ MIN_ORDER <= POOL_ORDER /\ MIN_ORDER \in Nat
    BY OrderAssumption, BlockAssumption
  <2>1. ASSUME NEW order \in 0 .. POOL_ORDER, Alloc(order)
        PROVE  Abstract!Next \/ UNCHANGED allocated
    <3> DEFINE r == buddy_alloc(mp, order)
               o == fixup(order)
               n == POOL_ORDER
               S == Listed(r.pool) \cup (allocated \cup {<<r.block, o>>})
    <3>1. o <= POOL_ORDER /\ o \in MIN_ORDER .. POOL_ORDER /\ o \in Nat
      BY <2>0 DEF fixup
    <3>2. r = buddy_alloc(mp, order) /\ o = fixup(order)
      OBVIOUS
    <3>3. allocated' = IF r.block = NULL THEN allocated ELSE allocated \cup {<<r.block, o>>}
      BY <2>1 DEF Alloc
    <3> HIDE DEF r, o
    <3>4. \/ r.block = NULL
          \/ /\ r.block \in Nat /\ <<r.block, o>> \notin allocated
             /\ PoolInv(r.pool, POOL_ORDER, allocated \cup {<<r.block, o>>})
      BY <2>0, <3>1, <3>2, AllocInv DEF BuddyIInv
    <3>5. CASE r.block = NULL
      BY <3>3, <3>5
    <3>6. CASE r.block # NULL
      <4>1. r.block \in Nat /\ <<r.block, o>> \notin allocated /\ Tiling(S, n) /\ <<r.block, o>> \in S
        BY <3>4, <3>6 DEF PoolInv
      <4>2. In(r.block, <<r.block, o>>) /\ Aligned(r.block, o)
        BY <3>1, <4>1, FirstUnit DEF Tiling, In
      <4>3. r.block \in 0 .. pow2[n] - 1
        BY <4>1, <4>2 DEF Tiling
      <4>4. r.block % pow2[o] = 0
        BY <3>1, <4>1, <4>2, AlignedMod
      <4>5. \A b \in allocated : Units(r.block, o) \cap Units(b[1], b[2]) = {}
        <5> TAKE b \in allocated
        <5>1. b \in S /\ b # <<r.block, o>>
          BY <4>1
        <5>2. ASSUME NEW u, u \in Units(r.block, o), u \in Units(b[1], b[2]) PROVE FALSE
          <6>1. In(u, b) /\ In(u, <<r.block, o>>)
            BY <5>2 DEF In
          <6> HIDE DEF S
          <6> QED BY <4>1, <5>1, <6>1, SameBlock
        <5> QED BY <5>2
      <4>6. \A a, k : Abstract!Units(a, k) = Units(a, k)
        BY <1>1 DEF Abstract!Units, Units
      <4>7. r.block \in Abstract!Available(o)
        BY <1>1, <4>3, <4>4, <4>5, <4>6 DEF Abstract!Available
      <4>8. Abstract!Alloc(o)
        BY <3>3, <3>6, <4>7 DEF Abstract!Alloc
      <4> QED BY <3>1, <4>8 DEF Abstract!Next
    <3> QED BY <3>5, <3>6
  <2>2. ASSUME NEW b \in allocated, Free(b) PROVE Abstract!Next
    BY <2>2 DEF Free, Abstract!Next, Abstract!Free
  <2>3. CASE UNCHANGED buddy_vars
    BY <2>3 DEF buddy_vars
  <2> QED BY <2>1, <2>2, <2>3 DEF BuddyNext
<1> QED BY <1>2, <1>3, PoolInvariant, PTL DEF BuddySpec, Refinement, Abstract!Spec

-----------------------------------------------------------------------------
\* The list of pools, virtual_memory/main.c.  fls finds the highest bit of a
\* number of pages.
LEMMA HighestOrder ==
    ASSUME NEW n \in Nat \ {0}
    PROVE  /\ highest_order(n) \in Nat
           /\ pow2[highest_order(n)] \in 1 .. n
<1> DEFINE Is(m, b) == pow2[b] <= m /\ m < pow2[b + 1]
           Has == {m \in Nat : m # 0 => \E b \in 0 .. m : Is(m, b)}
<1>1. 0 \in Has
  OBVIOUS
<1>2. ASSUME NEW m \in Nat, m \in Has PROVE m + 1 \in Has
  <2>1. CASE m = 0
    <3>1. pow2[0] = 1 /\ pow2[0 + 1] = pow2[0] + pow2[0]
      BY Power
    <3>2. Is(m + 1, 0) /\ 0 \in 0 .. m + 1
      BY <2>1, <3>1
    <3> QED BY <3>2
  <2>2. CASE m # 0
    <3>1. PICK b \in 0 .. m : Is(m, b)
      BY <1>2, <2>2
    <3>2. /\ b \in Nat /\ b + 1 \in Nat /\ pow2[b] \in Nat /\ pow2[b + 1] \in Nat \ {0}
          /\ pow2[(b + 1) + 1] = pow2[b + 1] + pow2[b + 1]
      BY Power
    <3>3. CASE m + 1 < pow2[b + 1]
      <4>1. Is(m + 1, b) /\ b \in 0 .. m + 1
        BY <3>1, <3>2, <3>3
      <4> QED BY <4>1
    <3>4. CASE ~ (m + 1 < pow2[b + 1])
      <4>1. Is(m + 1, b + 1) /\ b + 1 \in 0 .. m + 1
        BY <3>1, <3>2, <3>4
      <4> QED BY <4>1
    <3> QED BY <3>3, <3>4
  <2> QED BY <2>1, <2>2
<1>3. Nat \subseteq Has
  <2> HIDE DEF Has
  <2> QED BY <1>1, <1>2, NatIn
<1>4. \E b \in 0 .. n : pow2[b] <= n /\ n < pow2[b + 1]
  BY <1>3
<1>5. highest_order(n) \in 0 .. n /\ pow2[highest_order(n)] <= n
  BY <1>4, Zenon DEF highest_order
<1>6. highest_order(n) \in Nat
  BY <1>5
<1> QED BY <1>5, <1>6, Power

\* A pool of the list that has the 2^n frames from frame on: its memory is
\* mapped from PAGE_OFFSET on, and its callers hold the blocks A.
PoolAt(pool, n, frame, A) ==
    /\ n \in Nat /\ frame \in Nat \ {0}
    /\ PoolInv(pool.mp, n, A)
    /\ pool.base_addr = frame + PAGE_OFFSET
    /\ frame + pow2[n] <= ADDRESSES - PAGE_OFFSET

IsPool(pool) ==
    /\ pool = [base_addr |-> pool.base_addr, mp |-> pool.mp]
    /\ \E n, frame, A : PoolAt(pool, n, frame, A)

\* What the callers do not hold is free.
LEMMA FreeUnits ==
    ASSUME NEW n \in Nat, NEW pool, NEW A, PoolInv(pool, n, A), NEW u
    PROVE  (\E b \in Listed(pool) : In(u, b)) <=> u \in 0 .. pow2[n] - 1 /\ ~ \E b \in A : In(u, b)
<1> DEFINE F == Listed(pool)
<1>1. /\ F \cap A = {}
      /\ \A b, c \in F \cup A : In(u, b) /\ In(u, c) => b = c
      /\ u \in 0 .. pow2[n] - 1 <=> \E b \in F \cup A : In(u, b)
  BY Zenon DEF PoolInv, Tiling
<1> HIDE DEF F
<1> QED BY <1>1, Zenon DEF F

\* Addresses that need no masking, and one below 0.
LEMMA Masked ==
    ASSUME NEW d \in Nat \ {0}, NEW r \in 0 .. d - 1
    PROVE  r % d = r /\ (r - d) % d = r
<1>1. r % d = r
  <2>1. 0 \in Nat /\ r = 0 * d + r
    OBVIOUS
  <2> QED BY <2>1, QuotientAndRest
<1>2. (r - d) % d = r
  <2> DEFINE x == r - d
             q == x \div d
             m == x % d
  <2>1. x \in Int /\ q \in Int /\ m \in 0 .. d - 1 /\ x = d * q + m
    OBVIOUS
  <2> HIDE DEF q, m
  <2>2. q = -1
    <3>1. CASE q >= 0
      <4>1. d * q >= 0
        BY <2>1, <3>1
      <4> QED BY <2>1, <4>1
    <3>2. CASE q <= -2
      <4>1. d * q <= d * (-2)
        BY <2>1, <3>2
      <4> QED BY <2>1, <4>1
    <3> QED BY <2>1, <3>1, <3>2
  <2>3. m = r
    BY <2>1, <2>2
  <2> QED BY <2>3 DEF m
<1> QED BY <1>1, <1>2

\* The frames of a pool, and those of them that are free.
LEMMA PoolFacts ==
    ASSUME NEW pool, NEW n, NEW frame, NEW A, PoolAt(pool, n, frame, A)
    PROVE  /\ __pa(pool.base_addr) = frame
           /\ \A x : x \in PoolFrames(pool) <=> x \in Int /\ x - frame \in 0 .. pow2[n] - 1
           /\ \A x : x \in FreeFrames(pool) <=>
                 x \in Int /\ x - frame \in 0 .. pow2[n] - 1 /\ ~ \E b \in A : In(x - frame, b)
<1>1. /\ n \in Nat /\ frame \in Nat \ {0}
      /\ PoolInv(pool.mp, n, A) /\ pool.base_addr = frame + PAGE_OFFSET
      /\ frame + pow2[n] <= ADDRESSES - PAGE_OFFSET
  BY Zenon DEF PoolAt
<1>2. pow2[n] \in Nat \ {0} /\ PAGE_OFFSET \in Nat /\ ADDRESSES \in Nat \ {0}
  BY <1>1, Power, LayoutAssumption
<1>3. __pa(pool.base_addr) = frame
  <2>1. pool.base_addr - PAGE_OFFSET = frame /\ frame \in 0 .. ADDRESSES - 1
    BY <1>1, <1>2
  <2> QED BY <1>2, <2>1, Masked DEF __pa
<1>4. /\ pool.mp.pool_order = n /\ DOMAIN pool.mp.avail = 0 .. n
      /\ \A k \in 0 .. n : IsList(pool.mp.avail[k])
  BY <1>1 DEF PoolInv, PoolTypeOK
<1>5. \A x : x \in PoolFrames(pool) <=> x \in Int /\ x - frame \in 0 .. pow2[n] - 1
  BY <1>1, <1>2, <1>3, <1>4 DEF PoolFrames, Frames
<1>6. ASSUME NEW x
      PROVE  x \in FreeFrames(pool) <=> x \in Int /\ \E b \in Listed(pool.mp) : In(x - frame, b)
  <2>1. /\ Listed(pool.mp) \subseteq Nat \X (0 .. n)
        /\ \A b, k : <<b, k>> \in Listed(pool.mp) <=> k \in 0 .. n /\ b \in Range(pool.mp.avail[k])
    BY <1>1, <1>4, ListedIs
  <2>2. x \in FreeFrames(pool) <=>
           \E k \in 0 .. n : \E b \in Range(pool.mp.avail[k]) : x \in Units(frame + b, k)
    BY <1>3, <1>4 DEF FreeFrames
  <2>3. ASSUME NEW k \in 0 .. n, NEW b \in Nat
        PROVE  x \in Units(frame + b, k) <=> x \in Int /\ x - frame \in Units(b, k)
    <3>1. pow2[k] \in Nat /\ frame \in Nat
      BY <1>1, Power
    <3> QED BY <3>1 DEF Units
  <2>4. x \in FreeFrames(pool) <=> \E b \in Listed(pool.mp) : x \in Units(frame + b[1], b[2])
    <3>1. ASSUME NEW b \in Listed(pool.mp), x \in Units(frame + b[1], b[2])
          PROVE  x \in FreeFrames(pool)
      <4>1. b = <<b[1], b[2]>>
        BY <2>1
      <4>2. b[2] \in 0 .. n /\ b[1] \in Range(pool.mp.avail[b[2]])
        BY <2>1, <4>1, Zenon
      <4> QED BY <2>2, <3>1, <4>2, Zenon
    <3>2. ASSUME NEW k \in 0 .. n, NEW b \in Range(pool.mp.avail[k]), x \in Units(frame + b, k)
          PROVE  \E c \in Listed(pool.mp) : x \in Units(frame + c[1], c[2])
      <4>1. <<b, k>> \in Listed(pool.mp) /\ <<b, k>>[1] = b /\ <<b, k>>[2] = k
        BY <2>1
      <4> QED BY <3>2, <4>1, Zenon
    <3> QED BY <2>2, <3>1, <3>2, Zenon
  <2>5. \A b \in Listed(pool.mp) :
           x \in Units(frame + b[1], b[2]) <=> x \in Int /\ x - frame \in Units(b[1], b[2])
    BY <2>1, <2>3
  <2> QED BY <2>4, <2>5 DEF In
<1>7. \A x : x \in FreeFrames(pool) <=>
         x \in Int /\ x - frame \in 0 .. pow2[n] - 1 /\ ~ \E b \in A : In(x - frame, b)
  <2> TAKE x
  <2>1. (\E b \in Listed(pool.mp) : In(x - frame, b))
           <=> x - frame \in 0 .. pow2[n] - 1 /\ ~ \E b \in A : In(x - frame, b)
    BY <1>1, FreeUnits
  <2> QED BY <1>6, <2>1
<1> QED BY <1>3, <1>5, <1>7, Zenon

\* petmem_alloc_pages asks a pool for a page: the pool has none, or gives a
\* frame that was free.
LEMMA PoolAlloc ==
    ASSUME NEW pool, IsPool(pool), NEW q, q = [pool EXCEPT !.mp = buddy_alloc(@, 0).pool]
    PROVE  \/ paddr(pool) = ADDRESSES - PAGE_OFFSET /\ q = pool
           \/ /\ IsPool(q) /\ paddr(pool) \in FreeFrames(pool)
              /\ PoolFrames(q) = PoolFrames(pool)
              /\ FreeFrames(q) \subseteq FreeFrames(pool) \ {paddr(pool)}
<1> DEFINE r == buddy_alloc(pool.mp, 0)
<1>0. PICK n, frame, A : PoolAt(pool, n, frame, A)
  BY Zenon DEF IsPool
<1>1. /\ n \in Nat /\ frame \in Nat \ {0}
      /\ PoolInv(pool.mp, n, A) /\ pool.base_addr = frame + PAGE_OFFSET
      /\ frame + pow2[n] <= ADDRESSES - PAGE_OFFSET
      /\ \A x : x \in PoolFrames(pool) <=> x \in Int /\ x - frame \in 0 .. pow2[n] - 1
      /\ \A x : x \in FreeFrames(pool) <=>
            x \in Int /\ x - frame \in 0 .. pow2[n] - 1 /\ ~ \E b \in A : In(x - frame, b)
  BY <1>0, PoolFacts, Zenon DEF PoolAt
<1>2. /\ pow2[n] \in Nat \ {0} /\ pow2[0] = 1 /\ PAGE_OFFSET \in Nat \ {0} /\ ADDRESSES \in Nat \ {0}
      /\ PAGE_OFFSET < ADDRESSES
      /\ 0 \in 0 .. n /\ fixup(0) = 0 /\ 0 <= n /\ NULL \notin Nat
  BY <1>1, Power, LayoutAssumption, BlockAssumption DEF fixup
<1>3. pool = [base_addr |-> pool.base_addr, mp |-> pool.mp] /\ q = [base_addr |-> pool.base_addr, mp |-> r.pool]
  <2>1. pool = [base_addr |-> pool.base_addr, mp |-> pool.mp]
    BY DEF IsPool
  <2> QED BY <2>1
<1>4. paddr(pool) = __pa(IF r.block = NULL THEN 0 ELSE r.block + pool.base_addr)
  BY DEF paddr
<1>5. \/ r.block = NULL /\ r.pool = pool.mp
      \/ /\ r.block \in Nat /\ <<r.block, 0>> \notin A
         /\ PoolInv(r.pool, n, A \cup {<<r.block, 0>>})
  BY <1>1, <1>2, AllocInv
<1> HIDE DEF r
<1>6. CASE r.block = NULL /\ r.pool = pool.mp
  <2>1. 0 - PAGE_OFFSET = (ADDRESSES - PAGE_OFFSET) - ADDRESSES /\ ADDRESSES - PAGE_OFFSET \in 0 .. ADDRESSES - 1
    BY <1>2
  <2>2. __pa(0) = ADDRESSES - PAGE_OFFSET
    BY <1>2, <2>1, Masked DEF __pa
  <2> QED BY <1>3, <1>4, <1>6, <2>2
<1>7. CASE /\ r.block \in Nat /\ <<r.block, 0>> \notin A
           /\ PoolInv(r.pool, n, A \cup {<<r.block, 0>>})
  <2> DEFINE B == A \cup {<<r.block, 0>>}
  <2>1. q.base_addr = pool.base_addr /\ q.mp = r.pool /\ q = [base_addr |-> q.base_addr, mp |-> q.mp]
    BY <1>3
  <2>a. PoolAt(q, n, frame, B)
    BY <1>1, <1>7, <2>1, Zenon DEF PoolAt
  <2>2. IsPool(q)
    BY <2>1, <2>a, Zenon DEF IsPool
  <2>3. In(r.block, <<r.block, 0>>)
    BY <1>2, <1>7 DEF In, Units
  <2>4. r.block \in 0 .. pow2[n] - 1 /\ ~ \E b \in A : In(r.block, b)
    <3>1. /\ \A b, c \in Listed(r.pool) \cup B : \A u : In(u, b) /\ In(u, c) => b = c
          /\ \A u : u \in 0 .. pow2[n] - 1 <=> \E b \in Listed(r.pool) \cup B : In(u, b)
      BY <1>7, Zenon DEF PoolInv, Tiling
    <3> QED BY <1>7, <2>3, <3>1, Zenon
  <2>5. paddr(pool) = frame + r.block
    <3>1. r.block # NULL /\ (r.block + pool.base_addr) - PAGE_OFFSET = frame + r.block
          /\ frame + r.block \in 0 .. ADDRESSES - 1
      BY <1>1, <1>2, <1>7, <2>4
    <3> QED BY <1>2, <1>4, <3>1, Masked DEF __pa
  <2>6. paddr(pool) \in FreeFrames(pool)
    <3>1. (frame + r.block) - frame = r.block /\ frame + r.block \in Int
      BY <1>1, <1>7
    <3> QED BY <1>1, <2>4, <2>5, <3>1
  <2>7. /\ \A x : x \in PoolFrames(q) <=> x \in Int /\ x - frame \in 0 .. pow2[n] - 1
        /\ \A x : x \in FreeFrames(q) =>
              x \in Int /\ x - frame \in 0 .. pow2[n] - 1 /\ ~ \E b \in B : In(x - frame, b)
    BY <2>a, PoolFacts, Zenon
  <2>8. PoolFrames(q) = PoolFrames(pool)
    BY <1>1, <2>7
  <2>9. FreeFrames(q) \subseteq FreeFrames(pool) \ {paddr(pool)}
    <3> SUFFICES ASSUME NEW x \in FreeFrames(q) PROVE x \in FreeFrames(pool) /\ x # paddr(pool)
      OBVIOUS
    <3>1. x \in FreeFrames(pool)
      BY <1>1, <2>7
    <3>2. ~ In(x - frame, <<r.block, 0>>) /\ x \in Int
      BY <2>7
    <3>3. x # frame + r.block
      BY <1>1, <1>7, <2>3, <3>2
    <3> QED BY <2>5, <3>1, <3>3
  <2> QED BY <2>2, <2>6, <2>8, <2>9
<1> QED BY <1>5, <1>6, <1>7

-----------------------------------------------------------------------------
\* A list of pools that do not overlap and together have the frames F.
PoolsOf(list, F) ==
    /\ \E S : list \in Seq(S)
    /\ \A k \in 1 .. Len(list) : IsPool(list[k])
    /\ \A j, k \in 1 .. Len(list) : \A x :
          x \in PoolFrames(list[j]) /\ x \in PoolFrames(list[k]) => j = k
    /\ \A x : x \in F <=> \E k \in 1 .. Len(list) : x \in PoolFrames(list[k])

FreeIn(list) == UNION {FreeFrames(list[k]) : k \in DOMAIN list}

\* One pool, as a list.
LEMMA OnePool ==
    ASSUME NEW pool, IsPool(pool)
    PROVE  PoolsOf(<<pool>>, PoolFrames(pool))
<1>1. <<pool>> \in Seq({pool}) /\ Len(<<pool>>) = 1 /\ <<pool>>[1] = pool
  OBVIOUS
<1>2. \A k \in 1 .. Len(<<pool>>) : k = 1
  BY <1>1
<1> DEFINE list == <<pool>>
<1> HIDE DEF list
<1> SUFFICES PoolsOf(list, PoolFrames(pool))
  BY DEF list
<1>3. list \in Seq({pool}) /\ Len(list) = 1 /\ list[1] = pool /\ (\A k \in 1 .. Len(list) : k = 1) /\ 1 \in 1 .. Len(list)
  BY <1>1, <1>2 DEF list
<1> QED BY <1>3, Zenon DEF PoolsOf

\* list_add and the loop of ADD_MEMORY: two lists of pools in one.
LEMMA JoinPools ==
    ASSUME NEW s, NEW F, PoolsOf(s, F), NEW t, NEW G, PoolsOf(t, G), F \cap G = {}
    PROVE  PoolsOf(s \o t, F \cup G) /\ FreeIn(s \o t) \subseteq FreeIn(s) \cup FreeIn(t)
<1> DEFINE st == s \o t
<1>1. PICK S, T : s \in Seq(S) /\ t \in Seq(T)
  BY Zenon DEF PoolsOf
<1>2. s \in Seq(S \cup T) /\ t \in Seq(S \cup T) /\ Len(s) \in Nat /\ Len(t) \in Nat
  BY <1>1
<1>3. /\ st \in Seq(S \cup T) /\ Len(st) = Len(s) + Len(t)
      /\ \A k \in 1 .. Len(s) : st[k] = s[k]
      /\ \A k \in Len(s) + 1 .. Len(s) + Len(t) : st[k] = t[k - Len(s)]
  BY <1>2
<1> HIDE DEF st
<1>4. ASSUME NEW k \in 1 .. Len(st)
      PROVE  \/ k \in 1 .. Len(s) /\ st[k] = s[k]
             \/ k - Len(s) \in 1 .. Len(t) /\ st[k] = t[k - Len(s)] /\ k \in Int
  BY <1>2, <1>3
<1>5. \A k \in 1 .. Len(st) : IsPool(st[k])
  BY <1>4, Zenon DEF PoolsOf
<1>6. ASSUME NEW j \in 1 .. Len(st), NEW k \in 1 .. Len(st), NEW x,
             x \in PoolFrames(st[j]), x \in PoolFrames(st[k])
      PROVE  j = k
  <2>1. /\ \A i \in 1 .. Len(s) : x \in PoolFrames(s[i]) => x \in F
        /\ \A i \in 1 .. Len(t) : x \in PoolFrames(t[i]) => x \in G
        /\ ~ (x \in F /\ x \in G)
    BY Zenon DEF PoolsOf
  <2>2. CASE j \in 1 .. Len(s) /\ k \in 1 .. Len(s)
    BY <1>3, <1>6, <2>2, Zenon DEF PoolsOf
  <2>3. CASE /\ j - Len(s) \in 1 .. Len(t) /\ st[j] = t[j - Len(s)]
             /\ k - Len(s) \in 1 .. Len(t) /\ st[k] = t[k - Len(s)]
    <3>1. j - Len(s) = k - Len(s)
      BY <1>6, <2>3, Zenon DEF PoolsOf
    <3> QED BY <1>2, <1>3, <3>1
  <2> QED BY <1>4, <1>6, <2>1, <2>2, <2>3, Zenon
<1>7. ASSUME NEW x PROVE x \in F \cup G <=> \E k \in 1 .. Len(st) : x \in PoolFrames(st[k])
  <2>1. ASSUME NEW k \in 1 .. Len(st), x \in PoolFrames(st[k]) PROVE x \in F \cup G
    BY <1>4, <2>1, Zenon DEF PoolsOf
  <2>2. CASE x \in F
    <3>1. PICK k \in 1 .. Len(s) : x \in PoolFrames(s[k])
      BY <2>2, Zenon DEF PoolsOf
    <3>2. k \in 1 .. Len(st) /\ st[k] = s[k]
      BY <1>2, <1>3
    <3> QED BY <2>2, <3>1, <3>2
  <2>3. CASE x \in G
    <3>1. PICK k \in 1 .. Len(t) : x \in PoolFrames(t[k])
      BY <2>3, Zenon DEF PoolsOf
    <3>2. k + Len(s) \in 1 .. Len(st) /\ st[k + Len(s)] = t[k]
      <4>1. k + Len(s) \in Len(s) + 1 .. Len(s) + Len(t) /\ (k + Len(s)) - Len(s) = k
        BY <1>2
      <4>2. st[k + Len(s)] = t[(k + Len(s)) - Len(s)]
        BY <1>3, <4>1, Zenon
      <4> QED BY <1>2, <1>3, <4>1, <4>2
    <3> QED BY <2>3, <3>1, <3>2
  <2> QED BY <2>1, <2>2, <2>3
<1>8. PoolsOf(st, F \cup G)
  BY <1>3, <1>5, <1>6, <1>7, Zenon DEF PoolsOf
<1>9. FreeIn(st) \subseteq FreeIn(s) \cup FreeIn(t)
  <2>1. DOMAIN s = 1 .. Len(s) /\ DOMAIN t = 1 .. Len(t) /\ DOMAIN st = 1 .. Len(st)
    BY <1>2, <1>3
  <2> QED BY <1>4, <2>1 DEF FreeIn
<1> QED BY <1>8, <1>9 DEF st

\* The loop of ADD_MEMORY, as a recursive function: it exists.
LEMMA LoopDef ==
    ASSUME NEW base, NEW num_pages \in Nat
    PROVE  \E loop :
              /\ new_pools(base, num_pages) = loop[num_pages]
              /\ loop = [rest \in 0 .. num_pages |->
                            IF rest = 0 THEN <<>>
                            ELSE Append(loop[rest - pow2[highest_order(rest)]],
                                        new_pool(base, num_pages, rest))]
<1> DEFINE less(rest) == rest - pow2[highest_order(rest)]
           pool(rest) == new_pool(base, num_pages, rest)
           Step(f, n) == [rest \in 0 .. n |->
                             IF rest = 0 THEN <<>> ELSE Append(f[less(rest)], pool(rest))]
           Is == {n \in Nat : \E f : f = Step(f, n)}
<1>0. \A rest \in Nat \ {0} : less(rest) \in 0 .. rest - 1
  <2> TAKE rest \in Nat \ {0}
  <2>1. pow2[highest_order(rest)] \in 1 .. rest
    BY HighestOrder
  <2> QED BY <2>1
<1> HIDE DEF less, pool
<1>1. 0 \in Is
  <2> DEFINE f == [rest \in 0 .. 0 |-> <<>>]
  <2>1. f = Step(f, 0)
    OBVIOUS
  <2> QED BY <2>1, Zenon
<1>2. ASSUME NEW n \in Nat, n \in Is PROVE n + 1 \in Is
  <2>0. n + 1 \in Nat
    OBVIOUS
  <2> SUFFICES \E f : f = Step(f, n + 1)
    BY <2>0, Zenon
  <2>1. PICK f : f = Step(f, n)
    BY <1>2
  <2> DEFINE g == [rest \in 0 .. n + 1 |->
                      IF rest = n + 1 THEN Append(f[less(n + 1)], pool(n + 1)) ELSE f[rest]]
  <2>2. ASSUME NEW rest \in 0 .. n + 1
        PROVE  g[rest] = IF rest = 0 THEN <<>> ELSE Append(g[less(rest)], pool(rest))
    <3>1. rest # 0 => less(rest) \in 0 .. n + 1 /\ less(rest) # n + 1
      BY <1>0
    <3>2. rest # 0 => g[less(rest)] = f[less(rest)]
      BY <3>1
    <3>3. CASE rest = n + 1
      <4>1. g[rest] = Append(f[less(n + 1)], pool(n + 1)) /\ rest # 0
        BY <3>3
      <4> QED BY <3>2, <3>3, <4>1, Zenon
    <3>4. CASE rest # n + 1
      <4>1. rest \in 0 .. n /\ g[rest] = f[rest]
        BY <3>4
      <4>2. f[rest] = IF rest = 0 THEN <<>> ELSE Append(f[less(rest)], pool(rest))
        BY <2>1, <4>1
      <4> QED BY <3>2, <4>1, <4>2
    <3> QED BY <3>3, <3>4
  <2>3. g = Step(g, n + 1)
    BY <2>2
  <2> QED BY <2>3, Zenon
<1>3. Nat \subseteq Is
  <2> HIDE DEF Is
  <2> QED BY <1>1, <1>2, NatIn
<1>4. \E f : f = Step(f, num_pages)
  BY <1>3
<1> DEFINE loop == CHOOSE f : f = Step(f, num_pages)
<1>5. loop = Step(loop, num_pages)
  BY <1>4, Zenon
<1>6. new_pools(base, num_pages) = loop[num_pages]
  BY DEF new_pools, less, pool
<1> HIDE DEF loop
<1> QED BY <1>5, <1>6 DEF less, pool

\* ADD_MEMORY cuts the frames of a region into pools.
LEMMA NewPools ==
    ASSUME NEW base \in Nat, NEW num_pages \in Nat,
           Frames(base, num_pages) \subseteq 1 .. ADDRESSES - PAGE_OFFSET - 1
    PROVE  PoolsOf(new_pools(base, num_pages), Frames(base, num_pages))
<1> DEFINE start(rest) == base + (num_pages - rest)
<1>1. PICK loop :
         /\ new_pools(base, num_pages) = loop[num_pages]
         /\ loop = [rest \in 0 .. num_pages |->
                       IF rest = 0 THEN <<>>
                       ELSE Append(loop[rest - pow2[highest_order(rest)]],
                                   new_pool(base, num_pages, rest))]
  BY LoopDef
<1>2. /\ loop[0] = <<>>
      /\ \A rest \in 1 .. num_pages :
            loop[rest] = Append(loop[rest - pow2[highest_order(rest)]],
                                new_pool(base, num_pages, rest))
  <2>1. 0 \in 0 .. num_pages /\ \A rest \in 1 .. num_pages : rest \in 0 .. num_pages /\ rest # 0
    OBVIOUS
  <2>2. \A rest \in 0 .. num_pages :
           loop[rest] = IF rest = 0 THEN <<>>
                        ELSE Append(loop[rest - pow2[highest_order(rest)]],
                                    new_pool(base, num_pages, rest))
    BY <1>1, Zenon
  <2> QED BY <2>1, <2>2, Zenon
<1> DEFINE Done == {n \in Nat : \A rest \in 0 .. n :
                       rest <= num_pages => PoolsOf(loop[rest], Frames(start(rest), rest))}
<1>3. 0 \in Done
  <2>1. PoolsOf(<<>>, {})
    BY DEF PoolsOf
  <2>2. Frames(start(0), 0) = {}
    BY DEF Frames
  <2>3. \A rest \in 0 .. 0 : rest = 0
    OBVIOUS
  <2> QED BY <1>2, <2>1, <2>2, <2>3, Zenon
<1>4. ASSUME NEW n \in Nat, n \in Done PROVE n + 1 \in Done
  <2> SUFFICES ASSUME n + 1 <= num_pages PROVE PoolsOf(loop[n + 1], Frames(start(n + 1), n + 1))
    BY <1>4
  <2> DEFINE rest == n + 1
             o == highest_order(rest)
             less == rest - pow2[o]
             pool == new_pool(base, num_pages, rest)
  <2>1. rest \in Nat \ {0} /\ o \in Nat /\ pow2[o] \in 1 .. rest /\ rest \in 1 .. num_pages
    BY HighestOrder
  <2>2. less \in 0 .. n /\ less <= num_pages /\ loop[rest] = Append(loop[less], pool)
    BY <1>2, <2>1
  <2>3. PoolsOf(loop[less], Frames(start(less), less))
    BY <1>4, <2>2
  <2>4. /\ start(rest) \in Nat /\ start(less) = start(rest) + pow2[o]
        /\ start(rest) + rest = base + num_pages
    BY <2>1
  <2>5. /\ PAGE_OFFSET \in Nat /\ ADDRESSES \in Nat \ {0} /\ start(rest) \in Nat \ {0}
        /\ start(rest) + pow2[o] <= ADDRESSES - PAGE_OFFSET
    <3>1. start(rest) \in 1 .. ADDRESSES - PAGE_OFFSET - 1
          /\ (base + num_pages) - 1 \in 1 .. ADDRESSES - PAGE_OFFSET - 1
      BY <2>1 DEF Frames
    <3> QED BY <2>1, <2>4, <3>1, LayoutAssumption
  <2>6. PoolAt(pool, o, start(rest), {}) /\ IsPool(pool)
    <3> DEFINE mem == buddy_free(buddy_init(o), 0, o)
    <3>1. PoolInv(mem, o, {})
      BY <2>1, NewPool, LayoutAssumption
    <3>2. pool = [base_addr |-> __va(start(rest)), mp |-> mem]
      BY DEF new_pool
    <3>3. __va(start(rest)) = start(rest) + PAGE_OFFSET
      <4>1. start(rest) + PAGE_OFFSET \in 0 .. ADDRESSES - 1
        BY <2>1, <2>5
      <4> QED BY <2>5, <4>1, Masked DEF __va
    <3> HIDE DEF mem, pool, o, start
    <3>4. pool.base_addr = start(rest) + PAGE_OFFSET /\ pool.mp = mem /\ pool = [base_addr |-> pool.base_addr, mp |-> pool.mp]
      BY <3>2, <3>3
    <3>5. PoolAt(pool, o, start(rest), {})
      BY <2>1, <2>5, <3>1, <3>4 DEF PoolAt
    <3> QED BY <3>4, <3>5, Zenon DEF IsPool
  <2> HIDE DEF pool, o, less
  <2>7. \A x : x \in PoolFrames(pool) <=> x \in Int /\ x - start(rest) \in 0 .. pow2[o] - 1
    BY <2>6, PoolFacts, Zenon
  <2>8. /\ Frames(start(less), less) \cap PoolFrames(pool) = {}
        /\ Frames(start(less), less) \cup PoolFrames(pool) = Frames(start(rest), rest)
    <3> DEFINE a == start(rest)
               c == pow2[o]
    <3>1. a \in Nat /\ c \in 1 .. rest /\ rest \in Nat /\ less = rest - c /\ start(less) = a + c
      BY <2>1, <2>4 DEF less
    <3>2. \A x : x \in PoolFrames(pool) <=> x \in Int /\ x - a \in 0 .. c - 1
      BY <2>7
    <3> HIDE DEF a, c, rest, start
    <3>3. \A x : x \in PoolFrames(pool) <=> x \in a .. a + c - 1
      BY <3>1, <3>2
    <3>4. \A x : x \in Frames(start(less), less) <=> x \in a + c .. a + rest - 1
      BY <3>1 DEF Frames
    <3>5. \A x : x \in Frames(start(rest), rest) <=> x \in a .. a + rest - 1
      BY DEF Frames, a
    <3>6. \A x : /\ ~ (x \in a .. a + c - 1 /\ x \in a + c .. a + rest - 1)
                 /\ x \in a .. a + rest - 1 <=> x \in a .. a + c - 1 \/ x \in a + c .. a + rest - 1
      BY <3>1
    <3> QED BY <3>3, <3>4, <3>5, <3>6, Zenon
  <2>9. PoolsOf(loop[less] \o <<pool>>, Frames(start(less), less) \cup PoolFrames(pool))
    BY <2>3, <2>6, <2>8, OnePool, JoinPools
  <2>10. loop[less] \o <<pool>> = Append(loop[less], pool)
    <3>1. PICK S : loop[less] \in Seq(S)
      BY <2>3, Zenon DEF PoolsOf
    <3> QED BY <3>1
  <2> QED BY <2>2, <2>8, <2>9, <2>10
<1>5. num_pages \in Done
  <2> HIDE DEF Done
  <2> QED BY <1>3, <1>4, NatIn
<1>6. PoolsOf(loop[num_pages], Frames(start(num_pages), num_pages)) /\ start(num_pages) = base
  BY <1>5
<1> QED BY <1>1, <1>6

\* All memory of the pools, and what is free of it.
LEMMA FramesOfPools ==
    ASSUME NEW list, NEW F, PoolsOf(list, F)
    PROVE  /\ \A k \in 1 .. Len(list) : FreeFrames(list[k]) \subseteq PoolFrames(list[k])
           /\ \A x : x \in FreeIn(list) <=> \E k \in 1 .. Len(list) : x \in FreeFrames(list[k])
           /\ FreeIn(list) \subseteq F /\ F \subseteq 1 .. ADDRESSES - PAGE_OFFSET - 1
<1>1. DOMAIN list = 1 .. Len(list)
  BY DEF PoolsOf
<1>2. \A k \in 1 .. Len(list) :
         /\ FreeFrames(list[k]) \subseteq PoolFrames(list[k])
         /\ PoolFrames(list[k]) \subseteq 1 .. ADDRESSES - PAGE_OFFSET - 1
  <2> TAKE k \in 1 .. Len(list)
  <2>1. PICK n, frame, A : PoolAt(list[k], n, frame, A)
    BY Zenon DEF PoolsOf, IsPool
  <2>2. n \in Nat /\ frame \in Nat \ {0} /\ frame + pow2[n] <= ADDRESSES - PAGE_OFFSET /\ pow2[n] \in Nat
    BY <2>1, Power DEF PoolAt
  <2>3. /\ \A x : x \in PoolFrames(list[k]) <=> x \in Int /\ x - frame \in 0 .. pow2[n] - 1
        /\ \A x : x \in FreeFrames(list[k]) => x \in Int /\ x - frame \in 0 .. pow2[n] - 1
    BY <2>1, PoolFacts, Zenon
  <2>4. ADDRESSES - PAGE_OFFSET \in Int
    BY LayoutAssumption
  <2> QED BY <2>2, <2>3, <2>4
<1>3. \A x : x \in FreeIn(list) <=> \E k \in 1 .. Len(list) : x \in FreeFrames(list[k])
  BY <1>1 DEF FreeIn
<1>4. FreeIn(list) \subseteq F /\ F \subseteq 1 .. ADDRESSES - PAGE_OFFSET - 1
  BY <1>2, <1>3, Zenon DEF PoolsOf
<1> QED BY <1>2, <1>3, <1>4, Zenon

\* petmem_alloc_pages: a page that is given out was free and is not any more.
\* Without memory the page is 0, and what __pa makes of NULL when a pool is
\* exhausted: neither is in a pool.
LEMMA AllocPages ==
    ASSUME NEW list, NEW F, PoolsOf(list, F), NEW t, t = petmem_alloc_pages(list)
    PROVE  /\ PoolsOf(t.list, F) /\ FreeIn(t.list) \subseteq FreeIn(list)
           /\ t.page \notin FreeIn(t.list)
           /\ \/ t.page \in {0, ADDRESSES - PAGE_OFFSET}
              \/ t.page \in F /\ t.page \in FreeIn(list)
<1>0. PICK S : list \in Seq(S)
  BY Zenon DEF PoolsOf
<1>1. Len(list) \in Nat /\ DOMAIN list = 1 .. Len(list) /\ list = [k \in 1 .. Len(list) |-> list[k]]
  BY <1>0
<1>2. \A k \in 1 .. Len(list) : FreeFrames(list[k]) \subseteq PoolFrames(list[k])
  BY FramesOfPools, Zenon
<1>3. \A x : x \in FreeIn(list) <=> \E k \in 1 .. Len(list) : x \in FreeFrames(list[k])
  BY FramesOfPools, Zenon
<1>4. FreeIn(list) \subseteq 1 .. ADDRESSES - PAGE_OFFSET - 1
  BY FramesOfPools, Zenon
<1>5. 0 \notin 1 .. ADDRESSES - PAGE_OFFSET - 1 /\ ADDRESSES - PAGE_OFFSET \notin 1 .. ADDRESSES - PAGE_OFFSET - 1
  BY LayoutAssumption
<1> DEFINE serve == {k \in DOMAIN list : paddr(list[k]) # 0}
           m == Min(serve)
<1>6. CASE serve = {}
  <2>1. t.page = 0 /\ t.list = list
    BY <1>6 DEF petmem_alloc_pages
  <2> QED BY <1>4, <1>5, <2>1
<1>7. CASE serve # {}
  <2>1. m \in 1 .. Len(list)
    <3>1. serve \subseteq Nat /\ serve \subseteq 1 .. Len(list)
      BY <1>1
    <3> HIDE DEF serve
    <3> QED BY <1>7, <3>1, MinIs
  <2> DEFINE q == [list[m] EXCEPT !.mp = buddy_alloc(@, 0).pool]
  <2>2. t.page = paddr(list[m]) /\ t.list = [list EXCEPT ![m] = q]
    BY <1>7 DEF petmem_alloc_pages
  <2> HIDE DEF m
  <2>3. \/ paddr(list[m]) = ADDRESSES - PAGE_OFFSET /\ q = list[m]
        \/ /\ IsPool(q) /\ paddr(list[m]) \in FreeFrames(list[m])
           /\ PoolFrames(q) = PoolFrames(list[m])
           /\ FreeFrames(q) \subseteq FreeFrames(list[m]) \ {paddr(list[m])}
    <3>1. IsPool(list[m])
      BY <2>1, Zenon DEF PoolsOf
    <3> QED BY <3>1, PoolAlloc
  <2> HIDE DEF q
  <2>4. CASE paddr(list[m]) = ADDRESSES - PAGE_OFFSET /\ q = list[m]
    <3>1. t.list = list
      BY <1>1, <2>1, <2>2, <2>4
    <3> QED BY <1>4, <1>5, <2>2, <2>4, <3>1
  <2>5. CASE /\ IsPool(q) /\ paddr(list[m]) \in FreeFrames(list[m])
             /\ PoolFrames(q) = PoolFrames(list[m])
             /\ FreeFrames(q) \subseteq FreeFrames(list[m]) \ {paddr(list[m])}
    <3> DEFINE l == t.list
    <3>1. /\ l \in Seq(S \cup {q}) /\ Len(l) = Len(list) /\ l[m] = q
          /\ \A k \in 1 .. Len(list) : k # m => l[k] = list[k]
      BY <1>0, <1>1, <2>1, <2>2
    <3> HIDE DEF l
    <3>2. \A k \in 1 .. Len(l) : IsPool(l[k]) /\ PoolFrames(l[k]) = PoolFrames(list[k])
      BY <2>5, <3>1, Zenon DEF PoolsOf
    <3>3. PoolsOf(l, F)
      BY <3>1, <3>2, Zenon DEF PoolsOf
    <3>4. \A x : x \in FreeIn(l) <=> \E k \in 1 .. Len(list) : x \in FreeFrames(l[k])
      BY <3>1 DEF FreeIn
    <3>5. FreeIn(l) \subseteq FreeIn(list)
      BY <1>3, <2>5, <3>1, <3>4
    <3>6. paddr(list[m]) \in FreeIn(list) /\ paddr(list[m]) \in PoolFrames(list[m])
      BY <1>2, <1>3, <2>1, <2>5
    <3>7. paddr(list[m]) \in F
      BY <2>1, <3>6, Zenon DEF PoolsOf
    <3>8. paddr(list[m]) \notin FreeIn(l)
      <4> SUFFICES ASSUME NEW k \in 1 .. Len(list), paddr(list[m]) \in FreeFrames(l[k]) PROVE FALSE
        BY <3>4
      <4>1. k # m
        BY <2>5, <3>1
      <4>2. paddr(list[m]) \in PoolFrames(list[k])
        BY <1>2, <3>1, <4>1
      <4> QED BY <2>1, <3>6, <4>1, <4>2, Zenon DEF PoolsOf
    <3> QED BY <2>2, <3>3, <3>5, <3>6, <3>7, <3>8 DEF l
  <2> QED BY <2>3, <2>4, <2>5
<1> QED BY <1>6, <1>7

\* petmem_free_pages takes the address of a frame for a virtual one and finds
\* no pool for it.
LEMMA NoPoolFound ==
    ASSUME NEW list, NEW F, PoolsOf(list, F), NEW page \in Nat, page < PAGE_OFFSET
    PROVE  petmem_free_pages(list, page) = list
<1>1. \A k \in DOMAIN list : ~ (page >= list[k].base_addr)
  <2> TAKE k \in DOMAIN list
  <2>1. k \in 1 .. Len(list)
    BY DEF PoolsOf
  <2>2. PICK n, frame, A : PoolAt(list[k], n, frame, A)
    BY <2>1, Zenon DEF PoolsOf, IsPool
  <2> QED BY <2>2, LayoutAssumption DEF PoolAt
<1>2. {k \in DOMAIN list : /\ page >= list[k].base_addr
                           /\ page < list[k].base_addr + pow2[list[k].mp.pool_order]} = {}
  BY <1>1
<1> QED BY <1>2, Zenon DEF petmem_free_pages
=============================================================================
