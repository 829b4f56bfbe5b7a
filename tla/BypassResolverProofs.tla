------------------------- MODULE BypassResolverProofs -------------------------
(***************************************************************************)
(* What a result of BypassResolver says, for addresses of any width, any      *)
(* lists and any answers in which no network has host bits set: the routes    *)
(* have the addresses that are included and not excluded, each under the      *)
(* label of a network the first source to name it names it under, and no two  *)
(* of one label overlap or could be one.                                      *)
(***************************************************************************)
EXTENDS BypassResolver, FiniteSetTheorems, WellFoundedInduction, TLAPS

-----------------------------------------------------------------------------
(* Powers of two and rounding down to a multiple of one *)

(* A map that is one-to-one and onto counts. *)
LEMMA IsBijection ==
  ASSUME NEW S, NEW T, NEW f \in [S -> T], \A x, y \in S : f[x] = f[y] => x = y,
         \A y \in T : \E x \in S : f[x] = y
  PROVE  f \in Bijection(S, T)
<1>1. DOMAIN f = S
  OBVIOUS
<1>2. QED
  BY <1>1 DEF Bijection, Injection, Surjection, IsInjective

(* 2^n is what one more bit doubles: the library has it as the number of subsets *)
(* of n.                                                                         *)
LEMMA Doubled ==
  ASSUME NEW n \in Nat
  PROVE  2^n \in Nat /\ 2^(n + 1) = 2 * 2^n
<1> DEFINE A == SUBSET (1..n)
           B == {s \cup {n + 1} : s \in A}
           grow == [s \in A |-> s \cup {n + 1}]
<1>1. IsFiniteSet(1..n) /\ Cardinality(1..n) = n
  BY FS_Interval
<1>2. IsFiniteSet(1..n + 1) /\ Cardinality(1..n + 1) = n + 1
  BY FS_Interval
<1>3. IsFiniteSet(A) /\ Cardinality(A) = 2^n
  BY <1>1, FS_SUBSET
<1>4. Cardinality(SUBSET (1..n + 1)) = 2^(n + 1)
  BY <1>2, FS_SUBSET
<1>5. grow \in Bijection(A, B)
  <2>1. n + 1 \notin 1..n
    OBVIOUS
  <2>2. \A s, t \in A : grow[s] = grow[t] => s = t
    BY <2>1
  <2>3. grow \in [A -> B] /\ \A t \in B : \E s \in A : grow[s] = t
    OBVIOUS
  <2>4. QED
    BY <2>2, <2>3, IsBijection
<1>6. IsFiniteSet(B) /\ Cardinality(B) = 2^n
  BY <1>3, <1>5, FS_Bijection DEF ExistsBijection
<1>7. A \cap B = {}
  <2>1. n + 1 \notin 1..n
    OBVIOUS
  <2>2. QED
    BY <2>1
<1>8. SUBSET (1..n + 1) = A \cup B
  <2>1. \A j : j \in 1..n + 1 <=> j \in 1..n \/ j = n + 1
    OBVIOUS
  <2>2. ASSUME NEW s \in SUBSET (1..n + 1)
        PROVE  s \in A \cup B
    <3>1. s \ {n + 1} \in A
      BY <2>1
    <3>2. CASE n + 1 \in s
      <4>1. s = (s \ {n + 1}) \cup {n + 1}
        BY <3>2
      <4>2. QED
        BY <3>1, <4>1
    <3>3. CASE n + 1 \notin s
      BY <3>1, <3>3
    <3>4. QED
      BY <3>2, <3>3
  <2>3. QED
    BY <2>1, <2>2
<1>9. Cardinality(A) \in Nat
  BY <1>3, FS_CardinalityType
<1> HIDE DEF A, B
<1>10. Cardinality(A \cup B) = Cardinality(A) + Cardinality(B)
  <2>1. Cardinality(A \cup B) = Cardinality(A) + Cardinality(B) - Cardinality(A \cap B)
    BY <1>3, <1>6, FS_Union
  <2>2. Cardinality(A \cap B) = 0
    BY <1>7, FS_EmptySet
  <2>3. QED
    BY <1>3, <1>6, <1>9, <2>1, <2>2
<1>11. 2^(n + 1) = Cardinality(A \cup B)
  BY <1>4, <1>8, Zenon
<1>12. 2^(n + 1) = 2^n + 2^n /\ 2^n \in Nat
  BY <1>3, <1>6, <1>9, <1>10, <1>11
<1>13. QED
  BY <1>12

(* Of no bits there is one value. *)
LEMMA One == 2^0 = 1
<1>1. IsFiniteSet({}) /\ Cardinality({}) = 0
  BY FS_EmptySet
<1>2. Cardinality(SUBSET {}) = 2^0
  BY <1>1, FS_SUBSET
<1>3. SUBSET {} = {{}}
  OBVIOUS
<1>4. QED
  BY <1>2, <1>3, FS_Singleton

(* Numbers have a least one. *)
LEMMA Least ==
  ASSUME NEW S, S \subseteq Nat, S # {}
  PROVE  \E n \in S : \A m \in S : n <= m
<1>1. PICK n \in S : \A m \in S : ~(<<m, n>> \in OpToRel(<, Nat))
  BY WFMin, NatLessThanWellFounded
<1>2. \A m \in S : ~(m < n)
  BY <1>1 DEF OpToRel
<1>3. QED
  BY <1>2

(* Induction, for the set of numbers of which something holds. *)
LEMMA Induction ==
  ASSUME NEW S, 0 \in S, \A n \in Nat : n \in S => n + 1 \in S
  PROVE  Nat \subseteq S
<1> SUFFICES ASSUME Nat \ S # {} PROVE FALSE
  OBVIOUS
<1>1. PICK n \in Nat \ S : \A m \in Nat \ S : n <= m
  BY Least
<1>2. n # 0 /\ n - 1 \in Nat
  OBVIOUS
<1>3. n - 1 \in S /\ n - 1 + 1 = n
  BY <1>1, <1>2
<1>4. QED
  BY <1>2, <1>3

(* A power of two divides the greater ones. *)
LEMMA Power ==
  ASSUME NEW n \in Nat, NEW d \in Nat
  PROVE  /\ 2^n \in Nat /\ 2^n > 0
         /\ \E m \in Nat : m > 0 /\ 2^(n + d) = m * 2^n
<1> DEFINE S == {k \in Nat : 2^k > 0}
<1>1. \A k \in Nat : k \in S => k + 1 \in S
  BY Doubled
<1>2. 0 \in S
  BY One
<1> HIDE DEF S
<1>3. Nat \subseteq S
  BY <1>1, <1>2, Induction
<1>4. 2^n \in Nat /\ 2^n > 0
  BY <1>3, Doubled DEF S
<1> DEFINE Multiple(k) == \E m \in Nat : m > 0 /\ 2^(n + k) = m * 2^n
           T == {k \in Nat : Multiple(k)}
<1>5. 0 \in T
  <2>1. n + 0 = n /\ 2^n = 1 * 2^n
    BY <1>4
  <2>2. QED
    BY <2>1
<1>6. ASSUME NEW k \in Nat, k \in T
      PROVE  k + 1 \in T
  <2>1. PICK m \in Nat : m > 0 /\ 2^(n + k) = m * 2^n
    BY <1>6
  <2>2. 2^(n + k + 1) = 2 * 2^(n + k) /\ n + (k + 1) = n + k + 1
    BY Doubled
  <2>3. 2 * m \in Nat /\ 2 * m > 0 /\ 2 * (m * 2^n) = (2 * m) * 2^n
    BY <1>4, <2>1
  <2>4. 2^(n + (k + 1)) = (2 * m) * 2^n
    BY <2>1, <2>2, <2>3
  <2>5. Multiple(k + 1)
    BY <2>3, <2>4
  <2> HIDE DEF Multiple
  <2>6. QED
    BY <2>5
<1> HIDE DEF T
<1>7. Nat \subseteq T
  BY <1>5, <1>6, Induction
<1>8. QED
  BY <1>4, <1>7 DEF T

(* Quotient and remainder are unique ... *)
LEMMA Division ==
  ASSUME NEW s \in Nat, s > 0, NEW q \in Nat, NEW r \in Nat, r < s
  PROVE  (s * q + r) % s = r /\ (s * q + r) \div s = q
OBVIOUS

(* ... and there are some. *)
LEMMA Divided ==
  ASSUME NEW s \in Nat, s > 0, NEW x \in Nat
  PROVE  /\ x % s \in Nat /\ x % s < s /\ x \div s \in Nat
         /\ x = s * (x \div s) + (x % s)
OBVIOUS

(* Rounding down to a multiple of s, and then of m * s. *)
LEMMA RoundedTwice ==
  ASSUME NEW s \in Nat, s > 0, NEW m \in Nat, m > 0, NEW x \in Nat
  PROVE  /\ m * s \in Nat /\ m * s > 0 /\ x - (x % s) \in Nat
         /\ (x - (x % s)) - ((x - (x % s)) % (m * s)) = x - (x % (m * s))
<1> DEFINE w == m * s
           q == x \div w
           r == x % w
           t == r \div s
           u == r % s
<1>1. w \in Nat /\ w > 0
  OBVIOUS
<1>2. q \in Nat /\ r \in Nat /\ r < w /\ x = w * q + r
  BY <1>1, Divided
<1>3. t \in Nat /\ u \in Nat /\ u < s /\ r = s * t + u
  BY <1>2, Divided
<1> HIDE DEF q, r, t, u
<1>4. w * q = s * (m * q) /\ m * q \in Nat /\ m * q + t \in Nat
  BY <1>2, <1>3
<1>5. x = s * (m * q + t) + u
  BY <1>2, <1>3, <1>4
<1>6. x % s = u
  BY <1>3, <1>4, <1>5, Division
<1>7. x - u = w * q + s * t /\ s * t \in Nat /\ s * t < w
  BY <1>2, <1>3, <1>1
<1>8. (x - u) % w = s * t
  BY <1>1, <1>2, <1>7, Division
<1>9. (x - u) - ((x - u) % w) = w * q /\ x - r = w * q /\ x - u \in Nat
  BY <1>1, <1>2, <1>3, <1>7, <1>8
<1>10. QED
  BY <1>1, <1>6, <1>9 DEF r

(* Halving a block of 2 * s. *)
LEMMA Halved ==
  ASSUME NEW s \in Nat, s > 0, NEW x \in Nat
  PROVE  x - (x % s) \in {x - (x % (2 * s)), (x - (x % (2 * s))) + s}
<1> DEFINE w == 2 * s
           q == x \div w
           r == x % w
<1>1. w \in Nat /\ w > 0
  OBVIOUS
<1>2. q \in Nat /\ r \in Nat /\ r < w /\ x = w * q + r
  BY <1>1, Divided
<1> HIDE DEF q, r
<1>3. CASE r < s
  <2>1. x = s * (2 * q) + r /\ 2 * q \in Nat
    BY <1>2
  <2>2. x % s = r
    BY <1>2, <1>3, <2>1, Division
  <2>3. QED
    BY <2>2 DEF r
<1>4. CASE ~(r < s)
  <2>1. x = s * (2 * q + 1) + (r - s) /\ 2 * q + 1 \in Nat /\ r - s \in Nat /\ r - s < s
    BY <1>2, <1>4
  <2>2. x % s = r - s
    BY <2>1, Division
  <2>3. QED
    BY <1>2, <2>2 DEF r
<1>5. QED
  BY <1>3, <1>4

(* A number and its block. *)
LEMMA Rounded ==
  ASSUME NEW s \in Nat, s > 0, NEW a \in Nat, a % s = 0, NEW x \in Nat
  PROVE  x - (x % s) = a <=> x \in a..(a + s - 1)
<1> DEFINE q == a \div s
<1>1. q \in Nat /\ a = s * q
  BY Divided
<1> HIDE DEF q
<1>2. ASSUME x \in a..(a + s - 1)
      PROVE  x - (x % s) = a
  <2>1. PICK r \in Nat : r < s /\ x = a + r
    <3>1. x - a \in Nat /\ x - a < s /\ x = a + (x - a)
      BY <1>2
    <3>2. QED
      BY <3>1
  <2>2. (s * q + r) % s = r
    BY <1>1, <2>1, Division
  <2>3. QED
    BY <1>1, <2>1, <2>2
<1>3. ASSUME x - (x % s) = a
      PROVE  x \in a..(a + s - 1)
  BY <1>3, Divided
<1>4. QED
  BY <1>2, <1>3

-----------------------------------------------------------------------------
(* Addresses and their blocks *)

(* Sizes are powers of two, so the greater ones are multiples of the smaller. *)
LEMMA Sizes ==
  ASSUME NEW len \in 0..Width
  PROVE  /\ Size(len) \in Nat /\ Size(len) > 0
         /\ len < Width => Size(len) = 2 * Size(len + 1)
         /\ \E m \in Nat : m > 0 /\ 2^Width = m * Size(len)
         /\ \A l \in 0..len : \E m \in Nat : m > 0 /\ Size(l) = m * Size(len)
<1>1. Width \in Nat
  BY BoundAssumption
<1>2. Size(len) \in Nat /\ Size(len) > 0
  BY <1>1, Power DEF Size
<1>3. ASSUME len < Width
      PROVE  Size(len) = 2 * Size(len + 1)
  <2>1. Width - (len + 1) \in Nat /\ Width - (len + 1) + 1 = Width - len
    BY <1>1, <1>3
  <2>2. QED
    BY <2>1, Doubled DEF Size
<1>4. ASSUME NEW l \in 0..len
      PROVE  \E m \in Nat : m > 0 /\ Size(l) = m * Size(len)
  <2>1. Width - len \in Nat /\ len - l \in Nat /\ (Width - len) + (len - l) = Width - l
    BY <1>1
  <2>2. \E m \in Nat : m > 0 /\ 2^((Width - len) + (len - l)) = m * 2^(Width - len)
    BY <2>1, Power
  <2>3. QED
    BY <2>1, <2>2 DEF Size
<1>5. Size(0) = 2^Width
  BY <1>1 DEF Size
<1>6. \E m \in Nat : m > 0 /\ 2^Width = m * Size(len)
  <2>1. 0 \in 0..len
    OBVIOUS
  <2>2. QED
    BY <1>4, <1>5, <2>1
<1>7. QED
  BY <1>2, <1>3, <1>4, <1>6

(* The block of an address at some length is that of its block at a greater one. *)
LEMMA Blocks ==
  ASSUME NEW x \in Address, NEW k \in 0..Width, NEW l \in 0..k
  PROVE  /\ NetworkAddr(x, k) \in Address
         /\ NetworkAddr(NetworkAddr(x, k), l) = NetworkAddr(x, l)
<1>1. Width \in Nat /\ 2^Width \in Nat /\ x \in Nat /\ x < 2^Width /\ l \in 0..Width
  BY BoundAssumption, Power DEF Address
<1>2. Size(k) \in Nat /\ Size(k) > 0
  BY Sizes
<1>3. PICK m \in Nat : m > 0 /\ Size(l) = m * Size(k)
  BY Sizes
<1>4. x - (x % Size(k)) \in Nat /\ x - (x % Size(k)) <= x
  BY <1>1, <1>2, Divided
<1>5. NetworkAddr(x, k) \in Address
  BY <1>1, <1>4 DEF NetworkAddr, Address
<1>6. NetworkAddr(NetworkAddr(x, k), l) = NetworkAddr(x, l)
  BY <1>1, <1>2, <1>3, RoundedTwice DEF NetworkAddr
<1>7. QED
  BY <1>5, <1>6

(* The two halves of a block. *)
LEMMA TwoHalves ==
  ASSUME NEW x \in Address, NEW l \in 0..Width, l < Width
  PROVE  LET p == NetworkAddr(x, l)
             u == p + Size(l + 1)
         IN  /\ NetworkAddr(x, l + 1) \in {p, u} /\ p \in Address /\ u \in Address /\ u # p
             /\ NetworkAddr(p, l) = p /\ NetworkAddr(u, l) = p
             /\ NetworkAddr(p, l + 1) = p /\ NetworkAddr(u, l + 1) = u
             /\ u % 2^Width = u
<1> DEFINE s == Size(l + 1)
           p == NetworkAddr(x, l)
           u == p + s
<1>1. Width \in Nat /\ 2^Width \in Nat /\ x \in Nat /\ x < 2^Width /\ l + 1 \in 0..Width
  BY BoundAssumption, Power DEF Address
<1>2. s \in Nat /\ s > 0 /\ Size(l) = 2 * s
  BY <1>1, Sizes
<1>3. NetworkAddr(x, l + 1) \in {p, u}
  BY <1>1, <1>2, Halved DEF NetworkAddr
<1>4. p \in Nat /\ p < 2^Width /\ p \in Address
  BY <1>1, Blocks DEF Address
<1> DEFINE q == x \div (2 * s)
<1>5. q \in Nat /\ p = (2 * s) * q
  <2>1. 2 * s \in Nat /\ 2 * s > 0
    BY <1>2
  <2>2. q \in Nat /\ x = (2 * s) * q + (x % (2 * s)) /\ x % (2 * s) \in Nat
    BY <1>1, <2>1, Divided
  <2>3. p = x - (x % (2 * s))
    BY <1>2 DEF NetworkAddr
  <2> HIDE DEF p, q, s
  <2>4. QED
    BY <1>1, <1>2, <2>2, <2>3
<1>6. PICK m \in Nat : 2^Width = m * (2 * s)
  BY <1>2, Sizes
<1> HIDE DEF p, q, s
<1>7. u < 2^Width
  <2>1. q < m
    BY <1>2, <1>4, <1>5, <1>6
  <2>2. (q + 1) * (2 * s) <= m * (2 * s)
    BY <1>2, <1>5, <2>1
  <2>3. QED
    BY <1>2, <1>5, <1>6, <2>2
<1>8. p % (2 * s) = 0 /\ p % s = 0 /\ u % (2 * s) = s /\ u % s = 0
  <2>1. p = (2 * s) * q + 0 /\ u = (2 * s) * q + s /\ p = s * (2 * q) + 0
        /\ u = s * (2 * q + 1) + 0 /\ 2 * q \in Nat /\ 2 * q + 1 \in Nat /\ 2 * s \in Nat
        /\ 2 * s > 0 /\ s < 2 * s
    BY <1>2, <1>5
  <2>2. ((2 * s) * q + 0) % (2 * s) = 0 /\ ((2 * s) * q + s) % (2 * s) = s
    BY <1>2, <1>5, <2>1, Division
  <2>3. (s * (2 * q) + 0) % s = 0 /\ (s * (2 * q + 1) + 0) % s = 0
    BY <1>2, <1>5, <2>1, Division
  <2>4. QED
    BY <2>1, <2>2, <2>3
<1>9. u \in Address /\ u # p /\ u % 2^Width = u
  <2>1. u \in Nat /\ u # p
    BY <1>2, <1>4
  <2>2. u % 2^Width = u
    BY <1>1, <1>7, <2>1
  <2>3. QED
    BY <1>1, <1>7, <2>1, <2>2 DEF Address
<1>10. NetworkAddr(p, l) = p /\ NetworkAddr(u, l) = p
  BY <1>2, <1>4, <1>8 DEF NetworkAddr
<1>11. NetworkAddr(p, l + 1) = p /\ NetworkAddr(u, l + 1) = u
  <2>1. u \in Nat
    BY <1>2, <1>4
  <2>2. p - (p % s) = p /\ u - (u % s) = u
    BY <1>4, <1>8, <2>1
  <2> HIDE DEF u
  <2>3. QED
    BY <2>2 DEF NetworkAddr, s
<1>12. QED
  BY <1>3, <1>4, <1>9, <1>10, <1>11 DEF p, s

(* Its addresses are those it is the block of. *)
LEMMA Within ==
  ASSUME NEW n, Canonical(n), NEW x
  PROVE  x \in Addresses(n) <=> x \in Address /\ NetworkAddr(x, n[2]) = n[1]
<1> DEFINE s == Size(n[2])
<1>1. n[1] \in Address /\ n[2] \in 0..Width /\ Width \in Nat /\ 2^Width \in Nat
  BY BoundAssumption, Power DEF Canonical, Net
<1>2. s \in Nat /\ s > 0 /\ n[1] \in Nat /\ n[1] < 2^Width
  BY <1>1, Sizes DEF Address
<1>3. n[1] % s = 0
  <2>1. n[1] % s \in Nat /\ n[1] - (n[1] % s) = n[1]
    BY <1>2, Divided DEF Canonical, NetworkAddr
  <2> DEFINE r == n[1] % s
  <2>2. r \in Nat /\ n[1] - r = n[1]
    BY <2>1
  <2> HIDE DEF r
  <2>3. r = 0
    BY <1>2, <2>2
  <2>4. QED
    BY <2>3 DEF r
<1>4. Addresses(n) = n[1]..(n[1] + s - 1)
  BY DEF Addresses, Canonical
<1>5. n[1] + s <= 2^Width
  <2>1. PICK m \in Nat : 2^Width = m * s
    BY <1>1, Sizes
  <2> DEFINE q == n[1] \div s
  <2>2. q \in Nat /\ n[1] = s * q + 0
    BY <1>2, <1>3, Divided
  <2> HIDE DEF q, s
  <2>3. q < m
    BY <1>2, <2>1, <2>2
  <2>4. (q + 1) * s <= m * s
    BY <1>2, <2>2, <2>3
  <2>5. QED
    BY <1>2, <2>1, <2>2, <2>4
<1>6. ASSUME NEW y \in Nat
      PROVE  y \in Addresses(n) <=> NetworkAddr(y, n[2]) = n[1]
  BY <1>2, <1>3, <1>4, Rounded DEF NetworkAddr
<1>7. x \in Addresses(n) => x \in Nat /\ x \in Address
  BY <1>1, <1>2, <1>4, <1>5 DEF Address
<1>8. x \in Address => x \in Nat
  BY DEF Address
<1>9. QED
  BY <1>6, <1>7, <1>8

(* What it is to be such a network. *)
LEMMA Shape ==
  ASSUME NEW n, Canonical(n)
  PROVE  /\ n = <<n[1], n[2]>> /\ n[1] \in Address /\ n[2] \in 0..Width
         /\ n[1] \in Addresses(n) /\ Width \in Nat /\ n[2] \in Nat
<1>1. n = <<n[1], n[2]>> /\ n[1] \in Address /\ n[2] \in 0..Width
  BY DEF Canonical, Net
<1>2. n[1] \in Addresses(n)
  BY <1>1, Within DEF Canonical
<1>3. QED
  BY <1>1, <1>2, BoundAssumption

(* An address is in its block of any length. *)
LEMMA Block ==
  ASSUME NEW x \in Address, NEW k \in 0..Width
  PROVE  Canonical(<<NetworkAddr(x, k), k>>) /\ x \in Addresses(<<NetworkAddr(x, k), k>>)
<1> DEFINE n == <<NetworkAddr(x, k), k>>
<1>1. k \in 0..k /\ NetworkAddr(x, k) \in Address
      /\ NetworkAddr(NetworkAddr(x, k), k) = NetworkAddr(x, k)
  BY Blocks
<1>2. Canonical(n)
  BY <1>1 DEF Canonical, Net
<1>3. QED
  BY <1>2, Within

(* Containing is having the addresses ... *)
LEMMA Contained ==
  ASSUME NEW n, NEW m, Canonical(n), Canonical(m), NetContains(n, m)
  PROVE  Addresses(m) \subseteq Addresses(n) /\ (n[2] = m[2] => n = m)
<1>1. n[2] \in 0..m[2] /\ NetworkAddr(m[1], n[2]) = n[1]
  BY Shape DEF NetContains
<1>2. ASSUME NEW x \in Addresses(m)
      PROVE  x \in Addresses(n)
  <2>1. x \in Address /\ NetworkAddr(x, m[2]) = m[1]
    BY Within
  <2>2. NetworkAddr(NetworkAddr(x, m[2]), n[2]) = NetworkAddr(x, n[2])
    BY <1>1, <2>1, Shape, Blocks
  <2>3. QED
    BY <1>1, <2>1, <2>2, Within
<1>3. n[2] = m[2] => n = m
  BY <1>1, Shape DEF Canonical
<1>4. QED
  BY <1>2, <1>3

(* ... or one: two networks are nested or have no address in common. *)
LEMMA Nested ==
  ASSUME NEW n, NEW m, Canonical(n), Canonical(m), n[2] <= m[2],
         NEW x, x \in Addresses(n), x \in Addresses(m)
  PROVE  NetContains(n, m)
<1>1. n[2] \in 0..m[2] /\ m[2] \in 0..Width
  BY Shape
<1>2. x \in Address /\ NetworkAddr(x, n[2]) = n[1] /\ NetworkAddr(x, m[2]) = m[1]
  BY Within
<1>3. NetworkAddr(NetworkAddr(x, m[2]), n[2]) = NetworkAddr(x, n[2])
  BY <1>1, <1>2, Blocks
<1>4. QED
  BY <1>2, <1>3 DEF NetContains

(* What a network is a half of. *)
Parent(n) == <<NetworkAddr(n[1], n[2] - 1), n[2] - 1>>

(* A lower half, its upper one, and what they are together. *)
LEMMA LowerHalf ==
  ASSUME NEW n, Canonical(n), IsLower(n)
  PROVE  /\ Canonical(Upper(n)) /\ Upper(n) # n /\ ~IsLower(Upper(n))
         /\ Canonical(<<n[1], n[2] - 1>>) /\ Parent(n) = <<n[1], n[2] - 1>>
         /\ Parent(Upper(n)) = Parent(n)
         /\ Addresses(<<n[1], n[2] - 1>>) = Addresses(n) \cup Addresses(Upper(n))
<1> DEFINE l == n[2] - 1
           p == <<n[1], l>>
           u == n[1] + Size(n[2])
<1>1. /\ n = <<n[1], n[2]>> /\ n[1] \in Address /\ n[2] \in 0..Width /\ Width \in Nat
      /\ l \in 0..Width /\ l < Width /\ l + 1 = n[2]
  BY Shape DEF IsLower
<1>2. NetworkAddr(n[1], l) = n[1]
  BY DEF IsLower
<1>3. /\ u \in Address /\ u # n[1] /\ NetworkAddr(u, l) = n[1] /\ NetworkAddr(u, n[2]) = u
  BY <1>1, <1>2, TwoHalves
<1> HIDE DEF u
<1>4. Upper(n) = <<u, n[2]>>
  BY DEF Upper, u
<1>5. Canonical(Upper(n)) /\ Canonical(p)
  BY <1>1, <1>2, <1>3, <1>4 DEF Canonical, Net
<1>6. ~IsLower(Upper(n)) /\ Upper(n) # n
  BY <1>1, <1>3, <1>4 DEF IsLower
<1>7. ASSUME NEW x \in Address
      PROVE  x \in Addresses(p) <=> x \in Addresses(n) \/ x \in Addresses(Upper(n))
  <2>1. /\ x \in Addresses(p) <=> NetworkAddr(x, l) = n[1]
        /\ x \in Addresses(n) <=> NetworkAddr(x, n[2]) = n[1]
        /\ x \in Addresses(Upper(n)) <=> NetworkAddr(x, n[2]) = u
    BY <1>4, <1>5, Within
  <2>2. NetworkAddr(x, l) = n[1] => NetworkAddr(x, n[2]) \in {n[1], u}
    BY <1>1, TwoHalves DEF u
  <2>3. NetworkAddr(NetworkAddr(x, n[2]), l) = NetworkAddr(x, l)
    BY <1>1, Blocks
  <2>4. QED
    BY <1>2, <1>3, <2>1, <2>2, <2>3
<1>8. Addresses(p) = Addresses(n) \cup Addresses(Upper(n))
  <2>1. \A x : x \in Addresses(p) \/ x \in Addresses(n) \/ x \in Addresses(Upper(n)) => x \in Address
    BY <1>5, Within
  <2> HIDE DEF p
  <2>2. QED
    BY <1>7, <2>1
<1>9. Parent(n) = p /\ Parent(Upper(n)) = p
  BY <1>2, <1>3, <1>4 DEF Parent
<1>10. QED
  BY <1>5, <1>6, <1>8, <1>9

(* Two that have one parent are its halves. *)
LEMMA OfOneParent ==
  ASSUME NEW n, NEW m, Canonical(n), Canonical(m), n # m, n[2] = m[2], n[2] > 0,
         Parent(n) = Parent(m)
  PROVE  \/ IsLower(n) /\ m = Upper(n)
         \/ IsLower(m) /\ n = Upper(m)
<1> DEFINE l == n[2] - 1
           p == NetworkAddr(n[1], l)
<1>1. /\ n = <<n[1], n[2]>> /\ m = <<m[1], n[2]>> /\ n[1] \in Address /\ m[1] \in Address
      /\ n[2] \in 0..Width /\ Width \in Nat /\ l \in 0..Width /\ l < Width /\ l + 1 = n[2]
  BY Shape
<1>2. NetworkAddr(m[1], l) = p
  BY DEF Parent
<1>3. n[1] \in {p, p + Size(n[2])} /\ m[1] \in {p, p + Size(n[2])}
  <2>1. NetworkAddr(n[1], l + 1) \in {p, p + Size(l + 1)}
    BY <1>1, TwoHalves
  <2>2. NetworkAddr(m[1], l + 1) \in {p, p + Size(l + 1)}
    BY <1>1, <1>2, TwoHalves
  <2>3. QED
    BY <1>1, <2>1, <2>2 DEF Canonical
<1>4. n[1] = p => IsLower(n)
  BY DEF IsLower
<1>5. m[1] = p => IsLower(m)
  BY <1>2 DEF IsLower
<1> HIDE DEF p
<1>6. QED
  BY <1>1, <1>3, <1>4, <1>5 DEF Upper

-----------------------------------------------------------------------------
(* Sets of networks, and collapsing them *)

(* Networks without host bits; their addresses; having none in common; and having *)
(* no two of one parent that are longer than k.                                   *)
AllCanonical(nets) == \A n \in nets : Canonical(n)
Cover(nets) == UNION {Addresses(n) : n \in nets}
Apart(nets) == \A n, m \in nets : n # m => Addresses(n) \cap Addresses(m) = {}
SiblingsUpTo(nets, k) ==
  \A n, m \in nets : n # m /\ n[2] = m[2] /\ n[2] > 0 /\ Parent(n) = Parent(m) => n[2] <= k

(* Being covered. *)
LEMMA InCover ==
  ASSUME NEW nets, NEW x
  PROVE  x \in Cover(nets) <=> \E n \in nets : x \in Addresses(n)
BY DEF Cover

(* Dropping what others contain leaves networks apart, which cover the same. *)
LEMMA Subsuming ==
  ASSUME NEW nets, AllCanonical(nets)
  PROVE  LET left == nets \ Subsumed(nets)
         IN  AllCanonical(left) /\ Cover(left) = Cover(nets) /\ Apart(left)
             /\ SiblingsUpTo(left, Width)
<1> DEFINE left == nets \ Subsumed(nets)
<1>1. AllCanonical(left)
  BY DEF AllCanonical
<1>2. ASSUME NEW x \in Cover(nets)
      PROVE  x \in Cover(left)
  <2> DEFINE S == {n[2] : n \in {m \in nets : x \in Addresses(m)}}
  <2>1. S \subseteq Nat /\ S # {}
    BY <1>2, InCover, Shape DEF AllCanonical
  <2>2. PICK l \in S : \A k \in S : l <= k
    <3> HIDE DEF S
    <3>1. QED
      BY <2>1, Least
  <2>3. PICK n \in nets : x \in Addresses(n) /\ n[2] = l
    OBVIOUS
  <2>4. ASSUME NEW o \in nets, o[2] < n[2], NetContains(o, n)
        PROVE  FALSE
    <3>1. x \in Addresses(o)
      BY <2>3, <2>4, Contained DEF AllCanonical
    <3>2. o[2] \in S /\ l \in Nat /\ o[2] \in Nat
      BY <2>1, <3>1
    <3>3. QED
      BY <2>2, <2>3, <2>4, <3>2
  <2>5. n \in left
    BY <2>4 DEF Subsumed
  <2>6. QED
    BY <2>3, <2>5, InCover
<1>3. Cover(left) = Cover(nets)
  BY <1>2 DEF Cover
<1>4. ASSUME NEW n \in left, NEW m \in left, NEW x \in Addresses(n) \cap Addresses(m),
             n[2] <= m[2]
      PROVE  n = m
  <2>1. Canonical(n) /\ Canonical(m)
    BY <1>1 DEF AllCanonical
  <2>2. NetContains(n, m)
    BY <1>4, <2>1, Nested
  <2>3. ~(n[2] < m[2])
    BY <2>2 DEF Subsumed
  <2>4. n[2] = m[2]
    BY <1>4, <2>1, <2>3, Shape
  <2>5. QED
    BY <2>1, <2>2, <2>4, Contained
<1>5. Apart(left)
  <2> SUFFICES ASSUME NEW n \in left, NEW m \in left, NEW x \in Addresses(n) \cap Addresses(m)
               PROVE  n = m
    BY DEF Apart
  <2>1. n[2] \in Nat /\ m[2] \in Nat
    BY <1>1, Shape DEF AllCanonical
  <2>2. n[2] <= m[2] \/ m[2] <= n[2]
    BY <2>1
  <2> HIDE DEF left
  <2>3. QED
    BY <1>4, <2>2
<1>6. SiblingsUpTo(left, Width)
  BY <1>1, Shape DEF SiblingsUpTo, AllCanonical
<1>7. QED
  BY <1>1, <1>3, <1>5, <1>6

(* A round of merging. *)
Lower(nets) == {n \in nets : IsLower(n) /\ Upper(n) \in nets}
Kept(nets) == nets \ (Lower(nets) \cup {Upper(n) : n \in Lower(nets)})
Merger(n) == <<n[1], n[2] - 1>>

(* The members after a round of merging, and where those from before it went. *)
LEMMA Merging ==
  ASSUME NEW nets, NEW m
  PROVE  /\ m \in MergeSiblings(nets) <=> m \in Kept(nets) \/ \E n \in Lower(nets) : m = Merger(n)
         /\ \A n \in nets : \/ n \in Kept(nets)
                            \/ n \in Lower(nets)
                            \/ \E o \in Lower(nets) : n = Upper(o)
         /\ \A n \in Lower(nets) : n \in nets /\ Upper(n) \in nets /\ IsLower(n)
                                   /\ n \notin Kept(nets) /\ Upper(n) \notin Kept(nets)
         /\ Kept(nets) \subseteq nets
BY DEF MergeSiblings, Kept, Lower, Merger

(* A round covers what was covered ... *)
LEMMA MergeKeeps ==
  ASSUME NEW nets, AllCanonical(nets)
  PROVE  AllCanonical(MergeSiblings(nets)) /\ Cover(MergeSiblings(nets)) = Cover(nets)
<1> DEFINE merged == MergeSiblings(nets)
<1>1. \A n \in nets : Canonical(n)
  BY DEF AllCanonical
<1>2. \A n \in Lower(nets) :
        /\ Canonical(Merger(n))
        /\ Addresses(Merger(n)) = Addresses(n) \cup Addresses(Upper(n))
  BY <1>1, Merging, LowerHalf DEF Merger
<1>3. AllCanonical(merged)
  BY <1>1, <1>2, Merging DEF AllCanonical
<1>4. ASSUME NEW x \in Cover(nets)
      PROVE  x \in Cover(merged)
  <2>1. PICK n \in nets : x \in Addresses(n)
    BY <1>4, InCover
  <2>2. CASE n \in Kept(nets)
    <3>1. n \in merged
      BY <2>2, Merging
    <3>2. QED
      BY <2>1, <3>1, InCover
  <2>3. CASE \E o \in Lower(nets) : n = o \/ n = Upper(o)
    <3>1. PICK o \in Lower(nets) : n = o \/ n = Upper(o)
      BY <2>3
    <3>2. x \in Addresses(Merger(o)) /\ Merger(o) \in merged
      BY <1>2, <2>1, <3>1, Merging
    <3>3. QED
      BY <3>2, InCover
  <2>4. QED
    BY <2>2, <2>3, Merging
<1>5. ASSUME NEW x \in Cover(merged)
      PROVE  x \in Cover(nets)
  <2>1. PICK m \in merged : x \in Addresses(m)
    BY <1>5, InCover
  <2>2. CASE m \in Kept(nets)
    BY <2>1, <2>2, Merging, InCover
  <2>3. CASE \E n \in Lower(nets) : m = Merger(n)
    <3>1. PICK n \in Lower(nets) : m = Merger(n)
      BY <2>3
    <3>2. x \in Addresses(n) \/ x \in Addresses(Upper(n))
      BY <1>2, <2>1, <3>1
    <3>3. n \in nets /\ Upper(n) \in nets
      BY Merging
    <3>4. QED
      BY <3>2, <3>3, InCover
  <2>4. QED
    BY <2>2, <2>3, Merging
<1>6. QED
  BY <1>3, <1>4, <1>5

(* Networks that have no address in common have none once merged. *)
LEMMA MergeApart ==
  ASSUME NEW nets, AllCanonical(nets), Apart(nets)
  PROVE  Apart(MergeSiblings(nets))
<1> DEFINE merged == MergeSiblings(nets)
           From(m, n) == \/ n = m /\ n \in Kept(nets)
                         \/ \E o \in Lower(nets) : m = Merger(o) /\ (n = o \/ n = Upper(o))
<1>1. \A n \in nets : Canonical(n)
  BY DEF AllCanonical
<1>2. ASSUME NEW m \in merged, NEW x \in Addresses(m)
      PROVE  \E n \in nets : x \in Addresses(n) /\ From(m, n)
  <2>1. CASE m \in Kept(nets)
    BY <2>1, Merging
  <2>2. CASE \E o \in Lower(nets) : m = Merger(o)
    <3>1. PICK o \in Lower(nets) : m = Merger(o)
      BY <2>2
    <3>2. o \in nets /\ Upper(o) \in nets /\ IsLower(o)
      BY Merging
    <3>3. x \in Addresses(o) \/ x \in Addresses(Upper(o))
      BY <1>1, <3>1, <3>2, LowerHalf DEF Merger
    <3>4. QED
      BY <3>1, <3>2, <3>3
  <2>3. QED
    BY <2>1, <2>2, Merging
<1>3. ASSUME NEW n \in nets, NEW m, NEW k, From(m, n), From(k, n)
      PROVE  m = k
  <2>1. \A o \in Lower(nets) :
          /\ o \in nets /\ IsLower(o) /\ ~IsLower(Upper(o)) /\ Parent(o) = Merger(o)
          /\ Parent(Upper(o)) = Parent(o) /\ o \notin Kept(nets) /\ Upper(o) \notin Kept(nets)
    BY <1>1, Merging, LowerHalf DEF Merger
  <2>2. CASE n \in Kept(nets)
    BY <1>3, <2>1, <2>2
  <2>3. CASE n \notin Kept(nets)
    BY <1>3, <2>1, <2>3
  <2>4. QED
    BY <2>2, <2>3
<1>4. ASSUME NEW m \in merged, NEW k \in merged, NEW x, x \in Addresses(m), x \in Addresses(k)
      PROVE  m = k
  <2>1. PICK n \in nets : x \in Addresses(n) /\ From(m, n)
    BY <1>2, <1>4
  <2>2. PICK o \in nets : x \in Addresses(o) /\ From(k, o)
    BY <1>2, <1>4
  <2>3. n = o
    BY <2>1, <2>2 DEF Apart
  <2> HIDE DEF From
  <2>4. QED
    BY <1>3, <2>1, <2>2, <2>3
<1>5. QED
  BY <1>4 DEF Apart

(* Siblings that are there after a round were made by it, of longer siblings. *)
LEMMA MergeShortens ==
  ASSUME NEW nets, AllCanonical(nets), NEW k \in Nat, SiblingsUpTo(nets, k + 1)
  PROVE  SiblingsUpTo(MergeSiblings(nets), k)
<1>1. \A n \in nets : Canonical(n)
  BY DEF AllCanonical
<1>2. ASSUME NEW n \in Lower(nets)
      PROVE  n[2] - 1 <= k
  <2>1. n \in nets /\ Upper(n) \in nets /\ IsLower(n)
    BY Merging
  <2>2. Upper(n) # n /\ Parent(n) = Parent(Upper(n)) /\ Upper(n)[2] = n[2] /\ n[2] > 0
    BY <1>1, <2>1, LowerHalf DEF Upper, IsLower
  <2>3. n[2] <= k + 1 /\ n[2] \in Nat
    BY <1>1, <2>1, <2>2, Shape DEF SiblingsUpTo
  <2>4. QED
    BY <2>3
<1>3. ASSUME NEW n \in Kept(nets), NEW m \in Kept(nets), n # m, n[2] = m[2], n[2] > 0,
             Parent(n) = Parent(m)
      PROVE  FALSE
  <2>1. n \in nets /\ m \in nets
    BY Merging
  <2>2. \/ IsLower(n) /\ m = Upper(n)
        \/ IsLower(m) /\ n = Upper(m)
    BY <1>1, <1>3, <2>1, OfOneParent
  <2>3. n \in Lower(nets) \/ m \in Lower(nets)
    BY <2>1, <2>2 DEF Lower
  <2>4. QED
    BY <2>3, Merging
<1>4. QED
  <2> SUFFICES ASSUME NEW n \in MergeSiblings(nets), NEW m \in MergeSiblings(nets),
                      n # m, n[2] = m[2], n[2] > 0, Parent(n) = Parent(m)
               PROVE  n[2] <= k
    BY DEF SiblingsUpTo
  <2>1. CASE n \in Kept(nets) /\ m \in Kept(nets)
    BY <1>3, <2>1
  <2>2. CASE \E o \in Lower(nets) : n = Merger(o)
    BY <1>2, <2>2 DEF Merger
  <2>3. CASE \E o \in Lower(nets) : m = Merger(o)
    BY <1>2, <2>3 DEF Merger
  <2>4. QED
    BY <2>1, <2>2, <2>3, Merging

(* A recursive function over an interval exists. *)
Recurses(f, D, b, G, lo, hi) ==
  f \in [lo..hi -> D] /\ f[lo] = b /\ \A i \in (lo + 1)..hi : f[i] = G[<<i, f[i - 1]>>]

(* It does, when its values stay in a set. *)
LEMMA Recursion ==
  ASSUME NEW D, NEW b \in D, NEW G \in [Nat \X D -> D],
         NEW lo \in Nat, NEW hi \in Nat, lo <= hi
  PROVE  \E f : Recurses(f, D, b, G, lo, hi)
<1> DEFINE Upto(k) == \E f \in [lo..(lo + k) -> D] :
                        f[lo] = b /\ \A i \in (lo + 1)..(lo + k) : f[i] = G[<<i, f[i - 1]>>]
           S == {k \in Nat : Upto(k)}
<1>1. Upto(0)
  <2> DEFINE f == [i \in lo..lo |-> b]
  <2>1. f \in [lo..(lo + 0) -> D] /\ f[lo] = b /\ \A i \in (lo + 1)..(lo + 0) : FALSE
    OBVIOUS
  <2>2. QED
    BY <2>1
<1>2. ASSUME NEW k \in Nat, Upto(k)
      PROVE  Upto(k + 1)
  <2>1. PICK f \in [lo..(lo + k) -> D] :
          f[lo] = b /\ \A i \in (lo + 1)..(lo + k) : f[i] = G[<<i, f[i - 1]>>]
    BY <1>2
  <2> DEFINE h == lo + (k + 1)
             g == [i \in lo..h |-> IF i = h THEN G[<<h, f[h - 1]>>] ELSE f[i]]
  <2>2. h \in Nat /\ h - 1 \in lo..(lo + k) /\ h # lo
    OBVIOUS
  <2>3. f[h - 1] \in D /\ G[<<h, f[h - 1]>>] \in D
    BY <2>2
  <2>4. \A i \in lo..h : i = h \/ i \in lo..(lo + k)
    OBVIOUS
  <2>5. g \in [lo..h -> D] /\ g[lo] = b
    BY <2>1, <2>2, <2>3, <2>4
  <2>6. ASSUME NEW i \in (lo + 1)..h
        PROVE  g[i] = G[<<i, g[i - 1]>>]
    <3>1. i \in lo..h /\ i - 1 \in lo..h /\ i - 1 # h /\ g[i - 1] = f[i - 1]
      OBVIOUS
    <3>2. CASE i = h
      BY <3>1, <3>2
    <3>3. CASE i # h
      <4>1. i \in (lo + 1)..(lo + k) /\ g[i] = f[i]
        BY <3>3
      <4>2. QED
        BY <2>1, <3>1, <4>1
    <3>4. QED
      BY <3>2, <3>3
  <2> HIDE DEF g
  <2>7. QED
    BY <2>5, <2>6
<1> HIDE DEF Upto
<1>3. 0 \in S /\ \A k \in Nat : k \in S => k + 1 \in S
  BY <1>1, <1>2
<1> HIDE DEF S
<1>4. Nat \subseteq S
  BY <1>3, Induction
<1>5. hi - lo \in Nat /\ lo + (hi - lo) = hi
  OBVIOUS
<1>6. Upto(hi - lo)
  BY <1>4, <1>5 DEF S
<1>7. QED
  BY <1>5, <1>6 DEF Upto, Recurses

(* The i-th round, from those before. *)
Round(nets, r, i) == IF i = 0 THEN nets \ Subsumed(nets) ELSE MergeSiblings(r[i - 1])

(* A round makes networks of networks. *)
LEMMA MergedSet ==
  ASSUME NEW nets, AllCanonical(nets)
  PROVE  MergeSiblings(nets) \in SUBSET Net
BY MergeKeeps DEF AllCanonical, Canonical

(* Collapse is the last of its rounds. *)
LEMMA Rounds ==
  ASSUME NEW nets, AllCanonical(nets)
  PROVE  \E r : /\ r[0] = nets \ Subsumed(nets)
                /\ \A i \in 1..Width : r[i] = MergeSiblings(r[i - 1])
                /\ Collapse(nets) = r[Width]
<1> DEFINE D == {s \in SUBSET Net : AllCanonical(s)}
           G == [x \in Nat \X D |-> MergeSiblings(x[2])]
           b == nets \ Subsumed(nets)
<1>1. b \in D
  BY DEF AllCanonical, Canonical
<1>2. \A s \in D : MergeSiblings(s) \in D
  BY MergeKeeps, MergedSet
<1>3. G \in [Nat \X D -> D]
  BY <1>2
<1>4. \A i \in Nat : \A s \in D : G[<<i, s>>] = MergeSiblings(s)
  OBVIOUS
<1>5. Width \in Nat /\ 0 \in Nat /\ 0 <= Width
  BY BoundAssumption
<1> HIDE DEF D, G, b
<1>6. PICK r : Recurses(r, D, b, G, 0, Width)
  BY <1>1, <1>3, <1>5, Recursion
<1>7. \A i \in 1..Width : i - 1 \in 0..Width /\ i # 0 /\ i \in Nat
  BY <1>5
<1>8. \A i \in 0..Width : r[i] = Round(nets, r, i)
  <2> SUFFICES ASSUME NEW i \in 0..Width
               PROVE  r[i] = Round(nets, r, i)
    OBVIOUS
  <2>1. CASE i = 0
    BY <1>6, <2>1 DEF Recurses, Round, b
  <2>2. CASE i # 0
    <3>1. i \in Nat /\ i - 1 \in 0..Width /\ i \in (0 + 1)..Width
      BY <1>5, <2>2
    <3>2. r[i - 1] \in D /\ r[i] = G[<<i, r[i - 1]>>]
      BY <1>6, <3>1 DEF Recurses
    <3>3. QED
      BY <1>4, <2>2, <3>1, <3>2 DEF Round
  <2>3. QED
    BY <2>1, <2>2
<1>9. r = [i \in 0..Width |-> Round(nets, r, i)]
  BY <1>5, <1>6, <1>8 DEF Recurses
<1>10. PICK f : f = [i \in 0..Width |-> Round(nets, f, i)] /\ Collapse(nets) = f[Width]
  BY <1>9 DEF Collapse, Round
<1>11. \A i \in 0..Width : f[i] = Round(nets, f, i)
  BY <1>10
<1>12. f[0] = nets \ Subsumed(nets)
  BY <1>5, <1>11 DEF Round
<1>13. \A i \in 1..Width : f[i] = MergeSiblings(f[i - 1])
  BY <1>5, <1>7, <1>11 DEF Round
<1>14. QED
  BY <1>10, <1>12, <1>13

(* Collapsing covers the same, with networks that neither overlap nor can be merged. *)
LEMMA Collapsing ==
  ASSUME NEW nets, AllCanonical(nets)
  PROVE  /\ AllCanonical(Collapse(nets)) /\ Cover(Collapse(nets)) = Cover(nets)
         /\ Apart(Collapse(nets)) /\ SiblingsUpTo(Collapse(nets), 0)
<1>0. Width \in Nat
  BY BoundAssumption
<1>1. PICK r : /\ r[0] = nets \ Subsumed(nets)
               /\ \A i \in 1..Width : r[i] = MergeSiblings(r[i - 1])
               /\ Collapse(nets) = r[Width]
  BY Rounds
<1> DEFINE Right(i) == /\ AllCanonical(r[i]) /\ Cover(r[i]) = Cover(nets)
                       /\ Apart(r[i]) /\ SiblingsUpTo(r[i], Width - i)
           S == {i \in Nat : i <= Width => Right(i)}
<1>2. Right(0)
  <2>1. Width - 0 = Width
    BY <1>0
  <2>2. QED
    BY <1>1, <2>1, Subsuming
<1>3. ASSUME NEW i \in Nat, i <= Width => Right(i)
      PROVE  i + 1 <= Width => Right(i + 1)
  <2> SUFFICES ASSUME i + 1 <= Width
               PROVE  Right(i + 1)
    OBVIOUS
  <2>1. Right(i)
    BY <1>0, <1>3
  <2>2. r[i + 1] = MergeSiblings(r[i])
    <3>1. i + 1 \in 1..Width /\ (i + 1) - 1 = i
      BY <1>0
    <3>2. QED
      BY <1>1, <3>1
  <2>3. Width - (i + 1) \in Nat /\ (Width - (i + 1)) + 1 = Width - i
    BY <1>0
  <2>4. SiblingsUpTo(r[i + 1], Width - (i + 1))
    BY <2>1, <2>2, <2>3, MergeShortens
  <2>5. QED
    BY <2>1, <2>2, <2>4, MergeKeeps, MergeApart
<1> HIDE DEF Right
<1>4. 0 \in S /\ \A i \in Nat : i \in S => i + 1 \in S
  BY <1>2, <1>3
<1> HIDE DEF S
<1>5. Right(Width)
  <2>1. Width \in S
    BY <1>0, <1>4, Induction
  <2>2. QED
    BY <1>0, <2>1 DEF S
<1>6. Width - Width = 0
  BY <1>0
<1>7. QED
  BY <1>1, <1>5, <1>6 DEF Right

-----------------------------------------------------------------------------
(* What is left around an excluded network *)

(* The half of a block of length k - 1 that an address of the block is not in. *)
Sibling(x, k) ==
  LET p == NetworkAddr(x, k - 1)
  IN  IF NetworkAddr(x, k) = p THEN <<p + Size(k), k>> ELSE <<p, k>>

(* It is that half, and has the addresses that part with this one at bit k. *)
LEMMA SiblingIs ==
  ASSUME NEW x \in Address, NEW k \in 1..Width
  PROVE  /\ Canonical(Sibling(x, k)) /\ Sibling(x, k)[2] = k
         /\ \A y : y \in Addresses(Sibling(x, k))
                     <=> /\ y \in Address /\ NetworkAddr(y, k - 1) = NetworkAddr(x, k - 1)
                         /\ NetworkAddr(y, k) # NetworkAddr(x, k)
<1> DEFINE l == k - 1
           p == NetworkAddr(x, l)
           u == p + Size(k)
<1>1. l \in 0..Width /\ l < Width /\ l + 1 = k /\ k \in 0..Width /\ l \in 0..k
  BY BoundAssumption
<1>2. /\ NetworkAddr(x, k) \in {p, u} /\ p \in Address /\ u \in Address /\ u # p
      /\ NetworkAddr(p, l) = p /\ NetworkAddr(u, l) = p
      /\ NetworkAddr(p, k) = p /\ NetworkAddr(u, k) = u
  BY <1>1, TwoHalves
<1>3. \A y \in Address : NetworkAddr(y, l) = p => NetworkAddr(y, k) \in {p, u}
  <2> SUFFICES ASSUME NEW y \in Address, NetworkAddr(y, l) = p
               PROVE  NetworkAddr(y, k) \in {p, u}
    OBVIOUS
  <2>1. NetworkAddr(y, l + 1) \in {NetworkAddr(y, l), NetworkAddr(y, l) + Size(l + 1)}
    BY <1>1, TwoHalves
  <2>2. QED
    BY <1>1, <2>1
<1>4. \A y \in Address : NetworkAddr(NetworkAddr(y, k), l) = NetworkAddr(y, l)
  BY <1>1, Blocks
<1> DEFINE s == Sibling(x, k)
<1>5. s = IF NetworkAddr(x, k) = p THEN <<u, k>> ELSE <<p, k>>
  BY DEF Sibling
<1> HIDE DEF p, u, s, l
<1>6. Canonical(<<u, k>>) /\ Canonical(<<p, k>>)
  BY <1>1, <1>2 DEF Canonical, Net
<1>7. Canonical(s) /\ s[2] = k
  BY <1>5, <1>6
<1>8. ASSUME NEW y
      PROVE  y \in Addresses(s) <=> /\ y \in Address /\ NetworkAddr(y, l) = p
                                    /\ NetworkAddr(y, k) # NetworkAddr(x, k)
  <2>1. y \in Addresses(s) <=> y \in Address /\ NetworkAddr(y, k) = s[1]
    BY <1>7, Within
  <2>2. s[1] = IF NetworkAddr(x, k) = p THEN u ELSE p
    BY <1>5
  <2>3. QED
    BY <1>2, <1>3, <1>4, <2>1, <2>2
<1>9. QED
  BY <1>7, <1>8 DEF l, p, s

(* A step of AddressExclude, and its function. *)
LeftStep(exclude, last, len) ==
  LET half == Halves(last.at[1], len)
  IN  IF NetContains(half.lower, exclude)
      THEN [at |-> half.lower, out |-> last.out \cup {half.upper}]
      ELSE [at |-> half.upper, out |-> last.out \cup {half.lower}]
LeftAround(net, exclude, f, len) ==
  IF len = net[2] THEN [at |-> net, out |-> {}] ELSE LeftStep(exclude, f[len - 1], len)

(* The siblings on the way to an address, and what is left when at some length of *)
(* it.                                                                            *)
Siblings(x, lo, hi) == {Sibling(x, k) : k \in (lo + 1)..hi}
LeftAt(net, exclude, len) ==
  [at |-> <<NetworkAddr(exclude[1], len), len>>, out |-> Siblings(exclude[1], net[2], len)]

(* A step takes the half the excluded network is in, and puts out its sibling. *)
LEMMA LeftStepIs ==
  ASSUME NEW net, NEW exclude, Canonical(net), Canonical(exclude),
         NEW len \in (net[2] + 1)..exclude[2]
  PROVE  LeftStep(exclude, LeftAt(net, exclude, len - 1), len) = LeftAt(net, exclude, len)
<1> DEFINE x == exclude[1]
           l == len - 1
           p == NetworkAddr(x, l)
           u == p + Size(len)
           out == Siblings(x, net[2], l)
           half == Halves(p, len)
<1>1. /\ x \in Address /\ net[2] \in 0..Width /\ exclude[2] \in 0..Width
      /\ Width \in Nat /\ len \in 0..Width /\ l \in 0..Width /\ l < Width /\ l + 1 = len
      /\ exclude[2] >= len /\ l >= net[2]
  BY Shape
<1>2. NetworkAddr(x, len) \in {p, u} /\ u # p /\ u % 2^Width = u
  BY <1>1, TwoHalves
<1>3. half = [lower |-> <<p, len>>, upper |-> <<u, len>>]
  BY <1>2 DEF Halves
<1>4. Siblings(x, net[2], len) = out \cup {Sibling(x, len)}
  <2>1. \A k : k \in (net[2] + 1)..len <=> k \in (net[2] + 1)..l \/ k = len
    BY <1>1
  <2>2. QED
    BY <2>1 DEF Siblings
<1>5. LeftAt(net, exclude, l).at[1] = p /\ LeftAt(net, exclude, l).out = out
  BY DEF LeftAt
<1> HIDE DEF p, u, half, out
<1>6. LeftStep(exclude, LeftAt(net, exclude, l), len)
        = IF NetContains(<<p, len>>, exclude) THEN [at |-> <<p, len>>, out |-> out \cup {<<u, len>>}]
          ELSE [at |-> <<u, len>>, out |-> out \cup {<<p, len>>}]
  <2> DEFINE last == LeftAt(net, exclude, l)
  <2>1. /\ Halves(last.at[1], len).lower = <<p, len>>
        /\ Halves(last.at[1], len).upper = <<u, len>>
    BY <1>3, <1>5 DEF half
  <2>2. last.out = out
    BY <1>5
  <2> HIDE DEF last
  <2>3. LeftStep(exclude, last, len)
          = IF NetContains(<<p, len>>, exclude)
            THEN [at |-> <<p, len>>, out |-> out \cup {<<u, len>>}]
            ELSE [at |-> <<u, len>>, out |-> out \cup {<<p, len>>}]
    BY <2>1, <2>2 DEF LeftStep
  <2>4. QED
    BY <2>3 DEF last
<1>7. NetContains(<<p, len>>, exclude) <=> NetworkAddr(x, len) = p
  BY <1>1 DEF NetContains
<1>8. Sibling(x, len) = IF NetworkAddr(x, len) = p THEN <<u, len>> ELSE <<p, len>>
  BY DEF Sibling, p, u
<1>9. QED
  BY <1>2, <1>4, <1>6, <1>7, <1>8 DEF LeftAt

(* So what is put out are the siblings, one of every length. *)
LEMMA Excluded ==
  ASSUME NEW net, NEW exclude, Canonical(net), Canonical(exclude), NetContains(net, exclude)
  PROVE  AddressExclude(net, exclude) = Siblings(exclude[1], net[2], exclude[2])
<1> DEFINE lo == net[2]
           hi == exclude[2]
           Closed(len) == LeftAt(net, exclude, len)
<1>1. lo \in Nat /\ hi \in Nat /\ lo <= hi /\ net = <<net[1], lo>>
  BY Shape DEF NetContains
<1>2. Closed(lo) = [at |-> net, out |-> {}]
  <2>1. NetworkAddr(exclude[1], lo) = net[1]
    BY DEF NetContains
  <2>2. (lo + 1)..lo = {}
    BY <1>1
  <2>3. Siblings(exclude[1], lo, lo) = {}
    BY <2>2 DEF Siblings
  <2>4. QED
    BY <1>1, <2>1, <2>3 DEF LeftAt
<1>3. \A len \in (lo + 1)..hi : Closed(len) = LeftStep(exclude, Closed(len - 1), len)
  BY LeftStepIs
<1> HIDE DEF Closed, lo, hi
<1> DEFINE g == [len \in lo..hi |-> Closed(len)]
<1>4. ASSUME NEW len \in lo..hi
      PROVE  g[len] = LeftAround(net, exclude, g, len)
  <2>1. CASE len = lo
    BY <1>2, <2>1 DEF LeftAround, lo
  <2>2. CASE len # lo
    <3>1. len \in (lo + 1)..hi /\ len - 1 \in lo..hi
      BY <1>1, <2>2
    <3>2. g[len - 1] = Closed(len - 1) /\ g[len] = Closed(len)
      BY <3>1
    <3>3. g[len] = LeftStep(exclude, g[len - 1], len)
      BY <1>3, <3>1, <3>2
    <3> HIDE DEF g
    <3>4. QED
      BY <2>2, <3>3 DEF LeftAround, lo
  <2>3. QED
    BY <2>1, <2>2
<1>5. g = [len \in lo..hi |-> LeftAround(net, exclude, g, len)]
  BY <1>4
<1> HIDE DEF g
<1>6. PICK f : /\ f = [len \in lo..hi |-> LeftAround(net, exclude, f, len)]
               /\ AddressExclude(net, exclude) = f[hi].out
  BY <1>5 DEF AddressExclude, LeftAround, LeftStep, lo, hi
<1>7. \A len \in lo..hi : f[len] = LeftAround(net, exclude, f, len)
  BY <1>6
<1> DEFINE S == {d \in Nat : lo + d <= hi => f[lo + d] = Closed(lo + d)}
<1>8. 0 \in S
  <2>1. lo \in lo..hi /\ lo + 0 = lo
    BY <1>1
  <2>2. f[lo] = LeftAround(net, exclude, f, lo)
    BY <1>7, <2>1
  <2>3. f[lo] = Closed(lo)
    BY <1>2, <2>2 DEF LeftAround, lo
  <2>4. QED
    BY <2>1, <2>3
<1>9. ASSUME NEW d \in Nat, d \in S
      PROVE  d + 1 \in S
  <2> SUFFICES ASSUME lo + (d + 1) <= hi
               PROVE  f[lo + (d + 1)] = Closed(lo + (d + 1))
    OBVIOUS
  <2> DEFINE len == lo + (d + 1)
  <2>1. /\ len \in lo..hi /\ len # lo /\ len - 1 = lo + d /\ lo + d <= hi
        /\ len \in (lo + 1)..hi
    BY <1>1
  <2>2. f[len - 1] = Closed(len - 1)
    BY <1>9, <2>1
  <2> HIDE DEF len
  <2>3. f[len] = LeftStep(exclude, f[len - 1], len)
    BY <1>7, <2>1 DEF LeftAround, lo
  <2>4. f[len] = Closed(len)
    BY <1>3, <2>1, <2>2, <2>3
  <2>5. QED
    BY <2>4 DEF len
<1> HIDE DEF S
<1>10. hi - lo \in S /\ lo + (hi - lo) = hi
  BY <1>1, <1>8, <1>9, Induction
<1>11. f[hi] = Closed(hi)
  BY <1>1, <1>10 DEF S
<1>12. QED
  BY <1>6, <1>11 DEF Closed, LeftAt, lo, hi

(* There is something of X beside it, in the block it is a half of. *)
Pierced(n, X) == n[2] > 0 /\ \E x \in X : x \in Addresses(Parent(n)) /\ x \notin Addresses(n)

(* They are all of the network but what is excluded, and each has some of that *)
(* beside it.                                                                  *)
LEMMA SiblingsAround ==
  ASSUME NEW net, NEW exclude, Canonical(net), Canonical(exclude), NetContains(net, exclude)
  PROVE  LET out == Siblings(exclude[1], net[2], exclude[2])
         IN  /\ AllCanonical(out) /\ Apart(out)
             /\ Cover(out) = Addresses(net) \ Addresses(exclude)
             /\ \A n \in out : Pierced(n, Addresses(exclude))
<1> DEFINE lo == net[2]
           hi == exclude[2]
           x == exclude[1]
           out == Siblings(x, lo, hi)
           B(y, k) == NetworkAddr(y, k)
<1>1. /\ x \in Address /\ lo \in 0..Width /\ hi \in 0..Width /\ Width \in Nat /\ lo <= hi
      /\ x \in Addresses(exclude) /\ B(x, hi) = x
  BY Shape DEF NetContains, Canonical
<1>2. B(x, lo) = net[1]
  BY DEF NetContains
<1>3. \A k \in (lo + 1)..hi : k \in 1..Width /\ k - 1 \in 0..Width /\ lo <= k - 1 /\ k <= hi
                              /\ k \in 0..Width /\ hi \in 0..Width
  BY <1>1
<1>4. \A k \in (lo + 1)..hi :
        /\ Canonical(Sibling(x, k)) /\ Sibling(x, k)[2] = k
        /\ \A y : y \in Addresses(Sibling(x, k))
                    <=> y \in Address /\ B(y, k - 1) = B(x, k - 1) /\ B(y, k) # B(x, k)
  BY <1>1, <1>3, SiblingIs
<1>5. AllCanonical(out)
  BY <1>4 DEF AllCanonical, Siblings
<1>6. \A y \in Address : \A k \in 0..Width : \A l \in 0..k : B(B(y, k), l) = B(y, l)
  BY Blocks
<1> HIDE DEF B, lo, hi, x
<1>7. Apart(out)
  <2> SUFFICES ASSUME NEW k \in (lo + 1)..hi, NEW j \in (lo + 1)..hi, k < j,
                      NEW y, y \in Addresses(Sibling(x, k)), y \in Addresses(Sibling(x, j))
               PROVE  FALSE
    <3>1. \A k, j \in (lo + 1)..hi : k = j \/ k < j \/ j < k
      BY <1>1
    <3>2. QED
      BY <3>1 DEF Apart, Siblings
  <2>1. /\ y \in Address /\ B(y, j - 1) = B(x, j - 1) /\ B(y, k) # B(x, k)
    BY <1>4
  <2>2. k \in 0..(j - 1) /\ j - 1 \in 0..Width
    BY <1>1
  <2>3. B(B(y, j - 1), k) = B(y, k) /\ B(B(x, j - 1), k) = B(x, k)
    BY <1>1, <1>6, <2>1, <2>2
  <2>4. QED
    BY <2>1, <2>3
<1>8. \A y : y \in Addresses(net) <=> y \in Address /\ B(y, lo) = B(x, lo)
  BY <1>2, Within DEF B, lo
<1>9. \A y : y \in Addresses(exclude) <=> y \in Address /\ B(y, hi) = B(x, hi)
  BY <1>1, Within DEF B, hi, x
<1>10. ASSUME NEW y \in Cover(out)
       PROVE  y \in Addresses(net) \ Addresses(exclude)
  <2>1. PICK k \in (lo + 1)..hi : y \in Addresses(Sibling(x, k))
    BY <1>10, InCover DEF Siblings
  <2>2. y \in Address /\ B(y, k - 1) = B(x, k - 1) /\ B(y, k) # B(x, k)
    BY <1>4, <2>1
  <2>3. k - 1 \in 0..Width /\ lo \in 0..(k - 1) /\ k \in 0..hi
    BY <1>1
  <2>4. B(B(y, k - 1), lo) = B(y, lo) /\ B(B(x, k - 1), lo) = B(x, lo)
    BY <1>1, <1>6, <2>2, <2>3
  <2>5. B(B(y, hi), k) = B(y, k) /\ B(B(x, hi), k) = B(x, k)
    BY <1>1, <1>6, <2>2, <2>3
  <2>6. QED
    BY <1>8, <1>9, <2>2, <2>4, <2>5
<1>11. ASSUME NEW y \in Addresses(net), y \notin Addresses(exclude)
       PROVE  y \in Cover(out)
  <2> DEFINE K == {k \in (lo + 1)..hi : B(y, k) # B(x, k)}
  <2>1. y \in Address /\ B(y, lo) = B(x, lo) /\ B(y, hi) # B(x, hi)
    BY <1>8, <1>9, <1>11
  <2>2. hi \in K
    BY <1>1, <2>1
  <2>3. K \subseteq Nat
    BY <1>1
  <2>4. PICK k \in K : \A j \in K : k <= j
    <3> HIDE DEF K
    <3>1. QED
      BY <2>2, <2>3, Least
  <2>5. B(y, k - 1) = B(x, k - 1)
    <3>1. CASE k - 1 = lo
      BY <2>1, <3>1
    <3>2. CASE k - 1 # lo
      <4>1. k - 1 \in (lo + 1)..hi /\ ~(k <= k - 1)
        BY <1>1, <3>2
      <4>2. k - 1 \notin K
        BY <2>4, <4>1
      <4>3. QED
        BY <4>1, <4>2
    <3>3. QED
      BY <3>1, <3>2
  <2>6. y \in Addresses(Sibling(x, k)) /\ Sibling(x, k) \in out
    BY <1>4, <2>1, <2>5 DEF Siblings
  <2>7. QED
    BY <2>6, InCover
<1>12. ASSUME NEW n \in out
       PROVE  Pierced(n, Addresses(exclude))
  <2>1. PICK k \in (lo + 1)..hi : n = Sibling(x, k)
    BY DEF Siblings
  <2>2. Canonical(n) /\ n[2] = k /\ k > 0 /\ k - 1 \in 0..Width
    BY <1>1, <1>4, <2>1
  <2>3. n[1] \in Addresses(n)
    BY <2>2, Shape
  <2>4. B(n[1], k - 1) = B(x, k - 1)
    BY <1>4, <2>1, <2>3
  <2>5. x \notin Addresses(n)
    BY <1>4, <2>1
  <2>6. Parent(n) = <<B(x, k - 1), k - 1>>
    BY <2>2, <2>4 DEF Parent, B
  <2>7. x \in Addresses(Parent(n))
    BY <1>1, <2>2, <2>6, Block DEF B
  <2>8. QED
    BY <1>1, <2>2, <2>5, <2>7 DEF Pierced
<1>13. Cover(out) = Addresses(net) \ Addresses(exclude)
  BY <1>10, <1>11
<1>14. QED
  BY <1>5, <1>7, <1>12, <1>13 DEF x, lo, hi

-----------------------------------------------------------------------------
(* Punching out every exclusion *)

(* One exclusion takes its addresses, and leaves networks or parts beside it. *)
LEMMA Punching ==
  ASSUME NEW nets, NEW exclude, AllCanonical(nets), Apart(nets), Canonical(exclude)
  PROVE  LET left == Punch(nets, exclude)
         IN  /\ AllCanonical(left) /\ Apart(left)
             /\ Cover(left) = Cover(nets) \ Addresses(exclude)
             /\ \A n \in left : n \in nets \/ Pierced(n, Addresses(exclude))
<1> DEFINE Left(n) == IF NetContains(n, exclude)
                      THEN Siblings(exclude[1], n[2], exclude[2]) ELSE {n}
           kept == {n \in nets : ~NetContains(exclude, n)}
           left == Punch(nets, exclude)
<1>1. \A n \in nets : Canonical(n)
  BY DEF AllCanonical
<1>2. \A h : h \in left <=> \E n \in kept : h \in Left(n)
  <2>1. \A n \in kept : NetContains(n, exclude) =>
          AddressExclude(n, exclude) = Siblings(exclude[1], n[2], exclude[2])
    BY <1>1, Excluded
  <2> HIDE DEF kept
  <2>2. UNION {IF NetContains(n, exclude) THEN AddressExclude(n, exclude) ELSE {n} : n \in kept}
          = UNION {Left(n) : n \in kept}
    BY <2>1
  <2>3. left = UNION {Left(n) : n \in kept}
    BY <2>2 DEF Punch, kept
  <2>4. QED
    BY <2>3
<1>3. ASSUME NEW n \in kept
      PROVE  /\ AllCanonical(Left(n)) /\ Apart(Left(n))
             /\ Cover(Left(n)) = Addresses(n) \ Addresses(exclude)
             /\ \A h \in Left(n) : h = n \/ Pierced(h, Addresses(exclude))
  <2>1. CASE NetContains(n, exclude)
    BY <1>1, <2>1, SiblingsAround
  <2>2. CASE ~NetContains(n, exclude)
    <3>1. Addresses(n) \cap Addresses(exclude) = {}
      <4> SUFFICES ASSUME NEW x \in Addresses(n), x \in Addresses(exclude)
                   PROVE  FALSE
        OBVIOUS
      <4>1. n[2] <= exclude[2] \/ exclude[2] <= n[2]
        BY <1>1, Shape
      <4>2. QED
        BY <1>1, <2>2, <4>1, Nested
    <3>2. Left(n) = {n}
      BY <2>2
    <3> HIDE DEF Left
    <3>3. Cover(Left(n)) = Addresses(n)
      BY <3>2 DEF Cover
    <3>4. QED
      BY <1>1, <3>1, <3>2, <3>3 DEF AllCanonical, Apart
  <2>3. QED
    BY <2>1, <2>2
<1>4. ASSUME NEW n \in nets, n \notin kept
      PROVE  Addresses(n) \subseteq Addresses(exclude)
  BY <1>1, <1>4, Contained
<1>5. kept \subseteq nets
  OBVIOUS
<1> HIDE DEF Left, kept, left
<1>6. AllCanonical(left)
  BY <1>2, <1>3 DEF AllCanonical
<1>7. \A h \in left : h \in nets \/ Pierced(h, Addresses(exclude))
  BY <1>2, <1>3, <1>5
<1>8. ASSUME NEW x
      PROVE  x \in Cover(left) <=> x \in Cover(nets) /\ x \notin Addresses(exclude)
  <2>1. x \in Cover(left) <=> \E n \in kept : x \in Cover(Left(n))
    BY <1>2, InCover
  <2>2. \A n \in kept : x \in Cover(Left(n)) <=> x \in Addresses(n) /\ x \notin Addresses(exclude)
    BY <1>3
  <2>3. QED
    BY <1>4, <1>5, <2>1, <2>2, InCover
<1>9. Apart(left)
  <2> SUFFICES ASSUME NEW h \in left, NEW g \in left, NEW x \in Addresses(h), x \in Addresses(g)
               PROVE  h = g
    BY DEF Apart
  <2>1. PICK n \in kept : h \in Left(n)
    BY <1>2
  <2>2. PICK m \in kept : g \in Left(m)
    BY <1>2
  <2>3. x \in Addresses(n) /\ x \in Addresses(m)
    BY <1>3, <2>1, <2>2, InCover
  <2>4. n = m
    BY <1>5, <2>3 DEF Apart
  <2>5. QED
    BY <1>3, <2>1, <2>2, <2>4 DEF Apart
<1>10. QED
  BY <1>6, <1>7, <1>8, <1>9 DEF left

(* How many turns there are, and what is left after i of them, by what was left *)
(* before.                                                                      *)
Slots == 2^Width * (Width + 1)
Punched(nets, excludes, f, i) ==
  IF i = 0 THEN nets
  ELSE IF Nth(i) \in excludes THEN Punch(f[i - 1], Nth(i)) ELSE f[i - 1]

(* There are that many turns. *)
LEMMA SlotsType == Slots \in Nat
<1>1. Width + 1 \in Nat /\ 2^Width \in Nat
  BY BoundAssumption, Power
<1>2. QED
  BY <1>1 DEF Slots

(* Every network has its turn. *)
LEMMA EveryNth ==
  ASSUME NEW n \in Net
  PROVE  \E i \in 1..Slots : Nth(i) = n
<1> DEFINE w == Width + 1
           i == w * n[1] + n[2] + 1
<1>1. /\ w \in Nat /\ w > 0 /\ 2^Width \in Nat /\ n[1] \in Nat /\ n[1] + 1 <= 2^Width
      /\ n[2] \in Nat /\ n[2] < w /\ n = <<n[1], n[2]>>
  BY BoundAssumption, Power DEF Net, Address
<1> HIDE DEF w
<1>2. w * n[1] \in Nat /\ i \in Nat /\ i > 0 /\ i - 1 = w * n[1] + n[2]
  BY <1>1
<1>3. i <= 2^Width * w
  <2>1. (n[1] + 1) * w <= 2^Width * w
    BY <1>1
  <2>2. i <= (n[1] + 1) * w
    BY <1>1
  <2>3. 2^Width * w \in Nat /\ (n[1] + 1) * w \in Nat
    BY <1>1
  <2>4. QED
    BY <1>2, <2>1, <2>2, <2>3
<1>4. (i - 1) \div w = n[1] /\ (i - 1) % w = n[2]
  BY <1>1, <1>2, Division
<1>5. Nth(i) = n
  BY <1>1, <1>4 DEF Nth, w
<1>6. i \in 1..Slots
  BY <1>2, <1>3, SlotsType DEF Slots, w
<1>7. QED
  BY <1>5, <1>6

(* The turns of PunchAll, one by one. *)
Punches(f, nets, excludes) ==
  /\ f[0] = nets /\ PunchAll(nets, excludes) = f[Slots]
  /\ \A i \in 1..Slots :
       f[i] = IF Nth(i) \in excludes THEN Punch(f[i - 1], Nth(i)) ELSE f[i - 1]

(* The function that punches one exclusion after another. *)
LEMMA PunchesExist ==
  ASSUME NEW nets, NEW excludes, AllCanonical(nets), Apart(nets), AllCanonical(excludes)
  PROVE  \E f : Punches(f, nets, excludes)
<1> DEFINE D == {s \in SUBSET Net : AllCanonical(s) /\ Apart(s)}
           Next1(i, s) == IF Nth(i) \in excludes THEN Punch(s, Nth(i)) ELSE s
           G == [x \in Nat \X D |-> Next1(x[1], x[2])]
<1>1. nets \in D
  BY DEF AllCanonical, Canonical
<1>2. ASSUME NEW i \in Nat, NEW s \in D
      PROVE  Next1(i, s) \in D
  <2>1. CASE Nth(i) \in excludes
    <3>1. Canonical(Nth(i))
      BY <2>1 DEF AllCanonical
    <3>2. AllCanonical(Punch(s, Nth(i))) /\ Apart(Punch(s, Nth(i)))
      BY <3>1, Punching
    <3>3. Punch(s, Nth(i)) \in SUBSET Net
      BY <3>2 DEF AllCanonical, Canonical
    <3>4. QED
      BY <2>1, <3>2, <3>3
  <2>2. CASE Nth(i) \notin excludes
    BY <2>2
  <2>3. QED
    BY <2>1, <2>2
<1> HIDE DEF D, Next1
<1>3. G \in [Nat \X D -> D] /\ \A i \in Nat : \A s \in D : G[<<i, s>>] = Next1(i, s)
  BY <1>2
<1>4. Slots \in Nat /\ 0 \in Nat /\ 0 <= Slots
  BY SlotsType
<1> HIDE DEF G
<1>5. PICK r : Recurses(r, D, nets, G, 0, Slots)
  BY <1>1, <1>3, <1>4, Recursion
<1>6. ASSUME NEW i \in 0..Slots
      PROVE  r[i] = Punched(nets, excludes, r, i)
  <2>1. CASE i = 0
    BY <1>5, <2>1 DEF Recurses, Punched
  <2>2. CASE i # 0
    <3>1. i \in Nat /\ i - 1 \in 0..Slots /\ i \in (0 + 1)..Slots
      BY <1>4, <2>2
    <3>2. r[i - 1] \in D /\ r[i] = G[<<i, r[i - 1]>>]
      BY <1>5, <3>1 DEF Recurses
    <3>3. QED
      BY <1>3, <2>2, <3>1, <3>2 DEF Punched, Next1
  <2>3. QED
    BY <2>1, <2>2
<1>7. r = [i \in 0..Slots |-> Punched(nets, excludes, r, i)]
  BY <1>5, <1>6 DEF Recurses
<1>8. PICK f : f = [i \in 0..Slots |-> Punched(nets, excludes, f, i)]
               /\ PunchAll(nets, excludes) = f[Slots]
  BY <1>7 DEF PunchAll, Punched, Slots
<1>9. \A i \in 0..Slots : f[i] = Punched(nets, excludes, f, i)
  BY <1>8
<1>10. f[0] = nets
  BY <1>4, <1>9 DEF Punched
<1>11. \A i \in 1..Slots : i \in 0..Slots /\ i # 0
  BY <1>4
<1>12. QED
  BY <1>8, <1>9, <1>10, <1>11 DEF Punched, Punches

(* What is left of a network when everything is punched out of it. *)
LEMMA Punched1 ==
  ASSUME NEW n, Canonical(n), NEW excludes, AllCanonical(excludes)
  PROVE  LET left == PunchAll({n}, excludes)
         IN  /\ AllCanonical(left) /\ Apart(left)
             /\ Cover(left) = Addresses(n) \ Cover(excludes)
             /\ \A h \in left : h = n \/ Pierced(h, Cover(excludes))
<1>1. AllCanonical({n}) /\ Apart({n})
  BY DEF AllCanonical, Apart
<1>2. PICK f : Punches(f, {n}, excludes)
  BY <1>1, PunchesExist
<1>3. Slots \in Nat
  BY SlotsType
<1> DEFINE Done(i) == {e \in excludes : \E j \in 1..i : e = Nth(j)}
           Right(i) == /\ AllCanonical(f[i]) /\ Apart(f[i])
                       /\ Cover(f[i]) = Addresses(n) \ Cover(Done(i))
                       /\ \A h \in f[i] : h = n \/ Pierced(h, Cover(excludes))
           S == {i \in Nat : i <= Slots => Right(i)}
<1>4. Right(0)
  <2>1. f[0] = {n}
    BY <1>2 DEF Punches
  <2>2. Cover({n}) = Addresses(n)
    BY DEF Cover
  <2>3. \A x : x \notin Cover(Done(0))
    <3>1. \A j \in 1..0 : FALSE
      OBVIOUS
    <3>2. QED
      BY <3>1, InCover
  <2> HIDE DEF Done
  <2>4. QED
    BY <1>1, <2>1, <2>2, <2>3
<1>5. ASSUME NEW i \in Nat, i <= Slots => Right(i), i + 1 <= Slots
      PROVE  Right(i + 1)
  <2>1. Right(i)
    BY <1>3, <1>5
  <2>2. f[i + 1] = IF Nth(i + 1) \in excludes THEN Punch(f[i], Nth(i + 1)) ELSE f[i]
    <3>1. i + 1 \in 1..Slots /\ (i + 1) - 1 = i
      BY <1>3, <1>5
    <3>2. QED
      BY <1>2, <3>1 DEF Punches
  <2>3. \A j : j \in 1..(i + 1) <=> j \in 1..i \/ j = i + 1
    OBVIOUS
  <2>4. CASE Nth(i + 1) \in excludes
    <3> DEFINE e == Nth(i + 1)
    <3>1. Canonical(e)
      BY <2>4 DEF AllCanonical
    <3> HIDE DEF e
    <3>2. f[i + 1] = Punch(f[i], e)
      BY <2>2, <2>4 DEF e
    <3>3. /\ AllCanonical(f[i + 1]) /\ Apart(f[i + 1])
          /\ Cover(f[i + 1]) = Cover(f[i]) \ Addresses(e)
          /\ \A h \in f[i + 1] : h \in f[i] \/ Pierced(h, Addresses(e))
      BY <2>1, <3>1, <3>2, Punching
    <3>4. \A g : g \in Done(i + 1) <=> g \in Done(i) \/ g = e
      BY <2>3, <2>4 DEF e
    <3>5. \A x : x \in Cover(Done(i + 1)) <=> x \in Cover(Done(i)) \/ x \in Addresses(e)
      <4> HIDE DEF Done
      <4>1. QED
        BY <3>4, InCover
    <3>6. \A h : Pierced(h, Addresses(e)) => Pierced(h, Cover(excludes))
      BY <2>4, InCover DEF Pierced, e
    <3> HIDE DEF Done
    <3>7. QED
      BY <2>1, <3>3, <3>5, <3>6
  <2>5. CASE Nth(i + 1) \notin excludes
    <3>1. f[i + 1] = f[i]
      BY <2>2, <2>5
    <3>2. Done(i + 1) = Done(i)
      BY <2>3, <2>5
    <3> HIDE DEF Done
    <3>3. QED
      BY <2>1, <3>1, <3>2
  <2>6. QED
    BY <2>4, <2>5
<1>6. Done(Slots) = excludes
  <2>1. \A e \in excludes : \E i \in 1..Slots : e = Nth(i)
    BY EveryNth DEF AllCanonical, Canonical
  <2>2. QED
    BY <2>1
<1> HIDE DEF Right, Done
<1>7. 0 \in S /\ \A i \in Nat : i \in S => i + 1 \in S
  BY <1>4, <1>5
<1> HIDE DEF S
<1>8. Slots \in S
  BY <1>3, <1>7, Induction
<1>9. Right(Slots)
  BY <1>3, <1>8 DEF S
<1>10. f[Slots] = PunchAll({n}, excludes)
  BY <1>2 DEF Punches
<1>11. QED
  BY <1>6, <1>9, <1>10 DEF Right

-----------------------------------------------------------------------------
(* What a call makes of the entries of its lists *)

(* Entries as they come from the sources: their networks have no host bits set. *)
IsEntries(entries) ==
  /\ \E n \in Nat : DOMAIN entries = 1..n
  /\ \A i \in DOMAIN entries : entries[i][1] \in Net => Canonical(entries[i][1])

(* The first entry of each network, the networks, and those that have a label *)
(* from it.                                                                   *)
First(entries) ==
  {i \in DOMAIN entries :
     entries[i][1] \in Net /\ \A j \in 1..(i - 1) : entries[j][1] # entries[i][1]}
NetsIn(entries) == {entries[i][1] : i \in DOMAIN entries} \cap Net
NetsOf(entries, l) == {entries[i][1] : i \in {k \in First(entries) : entries[k][2] = l}}

(* The labels as the properties say them: by the first entry of each network. *)
LEMMA FirstIs ==
  ASSUME NEW entries, IsEntries(entries)
  PROVE  First(entries)
           = {i \in DOMAIN entries :
                entries[i][1] \in Net
                /\ \A j \in DOMAIN entries : entries[j][1] = entries[i][1] => i <= j}
<1>1. PICK n \in Nat : DOMAIN entries = 1..n
  BY DEF IsEntries
<1>2. ASSUME NEW i \in 1..n
      PROVE  (\A j \in 1..(i - 1) : entries[j][1] # entries[i][1])
               <=> \A j \in 1..n : entries[j][1] = entries[i][1] => i <= j
  <2>1. \A j : j \in 1..(i - 1) <=> j \in 1..n /\ ~(i <= j)
    OBVIOUS
  <2>2. QED
    BY <2>1
<1>3. QED
  BY <1>1, <1>2 DEF First

(* Every network of the entries has a first one. *)
LEMMA FirstOf ==
  ASSUME NEW entries, IsEntries(entries), NEW i \in DOMAIN entries, entries[i][1] \in Net
  PROVE  \E j \in First(entries) : entries[j][1] = entries[i][1]
<1>1. PICK n \in Nat : DOMAIN entries = 1..n
  BY DEF IsEntries
<1> DEFINE S == {j \in DOMAIN entries : entries[j][1] = entries[i][1]}
<1>2. S \subseteq Nat /\ S # {}
  BY <1>1
<1>3. PICK j \in S : \A k \in S : j <= k
  <2> HIDE DEF S
  <2>1. QED
    BY <1>2, Least
<1>4. j \in First(entries)
  BY <1>3, FirstIs
<1>5. QED
  BY <1>3, <1>4

(* Of the networks, each label has those it was the first to name. *)
LEMMA Aggregated ==
  ASSUME NEW entries, IsEntries(entries)
  PROVE  /\ \A r : r \in Aggregate(entries)
                     <=> \E n, l : r = <<n, l>> /\ n \in Collapse(NetsOf(entries, l))
                                   /\ \E i \in First(entries) : entries[i][2] = l
         /\ \A l : AllCanonical(NetsOf(entries, l))
         /\ \A x : x \in Cover(NetsIn(entries))
                     <=> \E i \in First(entries) : x \in Addresses(entries[i][1])
<1> DEFINE labels == {entries[i][2] : i \in First(entries)}
<1>1. Aggregate(entries) = UNION {Collapse(NetsOf(entries, l)) \X {l} : l \in labels}
  BY DEF Aggregate, First, NetsOf
<1>2. \A r : r \in Aggregate(entries)
               <=> \E l \in labels : r \in Collapse(NetsOf(entries, l)) \X {l}
  BY <1>1
<1>3. ASSUME NEW r
      PROVE  r \in Aggregate(entries)
               <=> \E n, l : r = <<n, l>> /\ n \in Collapse(NetsOf(entries, l))
                             /\ \E i \in First(entries) : entries[i][2] = l
  BY <1>2
<1>4. \A i \in First(entries) : i \in DOMAIN entries /\ entries[i][1] \in Net
                                /\ Canonical(entries[i][1])
  BY DEF First, IsEntries
<1>5. \A l : AllCanonical(NetsOf(entries, l))
  BY <1>4 DEF AllCanonical, NetsOf
<1>6. ASSUME NEW x
      PROVE  x \in Cover(NetsIn(entries)) <=> \E i \in First(entries) : x \in Addresses(entries[i][1])
  <2>1. x \in Cover(NetsIn(entries)) <=> \E n \in NetsIn(entries) : x \in Addresses(n)
    BY InCover
  <2>2. \A n : n \in NetsIn(entries) <=> \E i \in First(entries) : n = entries[i][1]
    BY <1>4, FirstOf DEF NetsIn
  <2>3. QED
    BY <2>1, <2>2
<1>7. QED
  BY <1>3, <1>5, <1>6

(* What a label has covers what the entries it was the first of have. *)
ANames(entries, l, x) == \E n : <<n, l>> \in Aggregate(entries) /\ x \in Addresses(n)
Names(entries, l, x) ==
  \E i \in First(entries) : entries[i][2] = l /\ x \in Addresses(entries[i][1])

(* It is the same, as collapsing covers the same. *)
LEMMA OfLabel ==
  ASSUME NEW entries, IsEntries(entries), NEW l, NEW x
  PROVE  ANames(entries, l, x) <=> Names(entries, l, x)
<1>1. \A n : <<n, l>> \in Aggregate(entries)
               <=> /\ n \in Collapse(NetsOf(entries, l))
                   /\ \E i \in First(entries) : entries[i][2] = l
  BY Aggregated
<1>2. x \in Cover(Collapse(NetsOf(entries, l))) <=> x \in Cover(NetsOf(entries, l))
  BY Aggregated, Collapsing
<1>3. x \in Cover(Collapse(NetsOf(entries, l)))
        <=> \E n \in Collapse(NetsOf(entries, l)) : x \in Addresses(n)
  BY InCover
<1>4. x \in Cover(NetsOf(entries, l))
        <=> \E i \in First(entries) : entries[i][2] = l /\ x \in Addresses(entries[i][1])
  BY InCover DEF NetsOf
<1>5. QED
  BY <1>1, <1>2, <1>3, <1>4 DEF ANames, Names

(* What is punched out. *)
Excluding(entries) == Collapse({n[1] : n \in Aggregate(entries)})

(* What is excluded covers what the exclude list says. *)
LEMMA ExcludingIs ==
  ASSUME NEW entries, IsEntries(entries)
  PROVE  AllCanonical(Excluding(entries)) /\ Cover(Excluding(entries)) = Cover(NetsIn(entries))
<1> DEFINE nets == {n[1] : n \in Aggregate(entries)}
<1>1. \A n : n \in nets <=> \E l : <<n, l>> \in Aggregate(entries)
  <2>1. \A r \in Aggregate(entries) : r = <<r[1], r[2]>>
    BY Aggregated
  <2>2. ASSUME NEW n \in nets
        PROVE  \E l : <<n, l>> \in Aggregate(entries)
    <3>1. PICK r \in Aggregate(entries) : n = r[1]
      BY <2>2
    <3>2. <<n, r[2]>> \in Aggregate(entries)
      BY <2>1, <3>1
    <3>3. QED
      BY <3>2
  <2>3. ASSUME NEW n, NEW l, <<n, l>> \in Aggregate(entries)
        PROVE  n \in nets
    <3>1. <<n, l>>[1] = n
      OBVIOUS
    <3>2. QED
      BY <2>3, <3>1
  <2> HIDE DEF nets
  <2>4. QED
    BY <2>2, <2>3
<1> HIDE DEF nets
<1>2. AllCanonical(nets)
  <2> SUFFICES ASSUME NEW n, NEW l, <<n, l>> \in Aggregate(entries)
               PROVE  Canonical(n)
    BY <1>1 DEF AllCanonical
  <2>1. n \in Collapse(NetsOf(entries, l)) /\ AllCanonical(NetsOf(entries, l))
    BY Aggregated
  <2>2. QED
    BY <2>1, Collapsing DEF AllCanonical
<1>3. ASSUME NEW x
      PROVE  x \in Cover(nets) <=> x \in Cover(NetsIn(entries))
  <2>1. x \in Cover(nets) <=> \E l : ANames(entries, l, x)
    BY <1>1, InCover DEF ANames
  <2>2. x \in Cover(nets) <=> \E l : Names(entries, l, x)
    BY <2>1, OfLabel
  <2>3. QED
    BY <2>2, Aggregated DEF Names
<1>4. QED
  BY <1>2, <1>3, Collapsing DEF Excluding, nets

(* What a call yields. *)
Resolved(entries, excluding) ==
  UNION {PunchAll({n[1]}, excluding) \X {n[2]} : n \in Aggregate(entries)}

(* A route is some network after punching, with the label of that network. *)
FromNet(entries, X, r) ==
  \E n, h, l : <<n, l>> \in Aggregate(entries) /\ h \in PunchAll({n}, X) /\ r = <<h, l>>

(* The routes are those ... *)
LEMMA RouteFrom ==
  ASSUME NEW entries, NEW X, IsEntries(entries)
  PROVE  \A r : r \in Resolved(entries, X) <=> FromNet(entries, X, r)
<1>1. \A r \in Aggregate(entries) : r = <<r[1], r[2]>>
  BY Aggregated
<1>2. \A r : r \in Resolved(entries, X)
               <=> \E p \in Aggregate(entries) : r \in PunchAll({p[1]}, X) \X {p[2]}
  BY DEF Resolved
<1>3. ASSUME NEW r, NEW p \in Aggregate(entries), r \in PunchAll({p[1]}, X) \X {p[2]}
      PROVE  FromNet(entries, X, r)
  <2>1. <<p[1], p[2]>> \in Aggregate(entries)
    BY <1>1
  <2>2. r[1] \in PunchAll({p[1]}, X) /\ r = <<r[1], p[2]>>
    BY <1>3
  <2>3. QED
    BY <2>1, <2>2 DEF FromNet
<1>4. ASSUME NEW r, FromNet(entries, X, r)
      PROVE  \E p \in Aggregate(entries) : r \in PunchAll({p[1]}, X) \X {p[2]}
  <2>1. PICK n, h, l : <<n, l>> \in Aggregate(entries) /\ h \in PunchAll({n}, X) /\ r = <<h, l>>
    BY <1>4 DEF FromNet
  <2>2. <<n, l>>[1] = n /\ <<n, l>>[2] = l
    OBVIOUS
  <2>3. r \in PunchAll({<<n, l>>[1]}, X) \X {<<n, l>>[2]}
    BY <2>1, <2>2
  <2>4. QED
    BY <2>1, <2>3
<1>5. QED
  BY <1>2, <1>3, <1>4

(* ... and all of those. *)
LEMMA RouteTo ==
  ASSUME NEW entries, NEW X, IsEntries(entries),
         NEW n, NEW l, <<n, l>> \in Aggregate(entries), NEW h \in PunchAll({n}, X)
  PROVE  <<h, l>> \in Resolved(entries, X)
<1>1. FromNet(entries, X, <<h, l>>)
  BY DEF FromNet
<1>2. QED
  BY <1>1, RouteFrom

(* They are within their network, and one that is not the whole of it has *)
(* excluded addresses beside it.                                          *)
LEMMA RouteWithin ==
  ASSUME NEW entries, IsEntries(entries), NEW X, AllCanonical(X),
         NEW n, NEW l, <<n, l>> \in Aggregate(entries)
  PROVE  /\ Canonical(n) /\ Apart(PunchAll({n}, X))
         /\ Cover(PunchAll({n}, X)) = Addresses(n) \ Cover(X)
         /\ \A h \in PunchAll({n}, X) :
              /\ Canonical(h) /\ (h = n \/ Pierced(h, Cover(X)))
              /\ Addresses(h) \subseteq Addresses(n) \ Cover(X)
<1> DEFINE left == PunchAll({n}, X)
<1>1. n \in Collapse(NetsOf(entries, l)) /\ AllCanonical(NetsOf(entries, l))
  BY Aggregated
<1>2. Canonical(n)
  BY <1>1, Collapsing DEF AllCanonical
<1>3. /\ AllCanonical(left) /\ Apart(left)
      /\ Cover(left) = Addresses(n) \ Cover(X)
      /\ \A h \in left : h = n \/ Pierced(h, Cover(X))
  BY <1>2, Punched1
<1> HIDE DEF left
<1>4. \A h \in left : Addresses(h) \subseteq Cover(left)
  BY InCover
<1>5. \A h \in left : Canonical(h) /\ (h = n \/ Pierced(h, Cover(X)))
                    /\ Addresses(h) \subseteq Addresses(n) \ Cover(X)
  BY <1>3, <1>4 DEF AllCanonical
<1>6. QED
  BY <1>2, <1>3, <1>5 DEF left

(* An address has a label among the routes exactly if it is not excluded and the *)
(* first entry of one of the networks it is in has that label.                   *)
LEMMA Labelled ==
  ASSUME NEW entries, IsEntries(entries), NEW X, AllCanonical(X), NEW l, NEW x
  PROVE  (\E r \in Resolved(entries, X) : r[2] = l /\ x \in Addresses(r[1]))
           <=> /\ x \notin Cover(X)
               /\ \E i \in First(entries) : entries[i][2] = l /\ x \in Addresses(entries[i][1])
<1>1. ASSUME NEW r \in Resolved(entries, X), r[2] = l, x \in Addresses(r[1])
      PROVE  x \notin Cover(X) /\ \E n : <<n, l>> \in Aggregate(entries) /\ x \in Addresses(n)
  <2>0. FromNet(entries, X, r)
    BY RouteFrom
  <2>1. PICK n, h, k : /\ <<n, k>> \in Aggregate(entries)
                       /\ h \in PunchAll({n}, X) /\ r = <<h, k>>
    BY <2>0 DEF FromNet
  <2>2. k = l /\ x \in Addresses(h)
    BY <1>1, <2>1
  <2>3. Cover(PunchAll({n}, X)) = Addresses(n) \ Cover(X)
    BY <2>1, RouteWithin
  <2>4. x \in Cover(PunchAll({n}, X))
    BY <2>1, <2>2, InCover
  <2>5. QED
    BY <2>1, <2>2, <2>3, <2>4
<1>2. ASSUME x \notin Cover(X), NEW n, <<n, l>> \in Aggregate(entries), x \in Addresses(n)
      PROVE  \E r \in Resolved(entries, X) : r[2] = l /\ x \in Addresses(r[1])
  <2>1. Cover(PunchAll({n}, X)) = Addresses(n) \ Cover(X)
    BY <1>2, RouteWithin
  <2>2. PICK h \in PunchAll({n}, X) : x \in Addresses(h)
    BY <1>2, <2>1, InCover
  <2>3. <<h, l>> \in Resolved(entries, X)
    BY <1>2, <2>2, RouteTo
  <2>4. <<h, l>>[1] = h /\ <<h, l>>[2] = l
    OBVIOUS
  <2>5. QED
    BY <2>2, <2>3, <2>4
<1>3. ANames(entries, l, x) <=> Names(entries, l, x)
  BY OfLabel
<1>4. QED
  BY <1>1, <1>2, <1>3 DEF ANames, Names

(* The routes have what is included and not excluded. *)
LEMMA Difference ==
  ASSUME NEW entries, IsEntries(entries), NEW X, AllCanonical(X)
  PROVE  UNION {Addresses(r[1]) : r \in Resolved(entries, X)} = Cover(NetsIn(entries)) \ Cover(X)
<1>1. ASSUME NEW x
      PROVE  x \in UNION {Addresses(r[1]) : r \in Resolved(entries, X)}
               <=> \E r \in Resolved(entries, X) : x \in Addresses(r[1])
  OBVIOUS
<1>2. ASSUME NEW x
      PROVE  (\E r \in Resolved(entries, X) : x \in Addresses(r[1]))
               <=> x \notin Cover(X) /\ \E i \in First(entries) : x \in Addresses(entries[i][1])
  <2>1. ASSUME NEW l
        PROVE  (\E r \in Resolved(entries, X) : r[2] = l /\ x \in Addresses(r[1]))
                 <=> /\ x \notin Cover(X)
                     /\ \E i \in First(entries) : entries[i][2] = l /\ x \in Addresses(entries[i][1])
    BY Labelled
  <2>2. QED
    BY <2>1
<1>3. \A x : x \in Cover(NetsIn(entries)) <=> \E i \in First(entries) : x \in Addresses(entries[i][1])
  BY Aggregated
<1>4. QED
  BY <1>1, <1>2, <1>3

(* Two networks of one parent make it up. *)
LEMMA TwoOfOneParent ==
  ASSUME NEW n, NEW m, Canonical(n), Canonical(m), n # m, n[2] = m[2], n[2] > 0,
         Parent(n) = Parent(m)
  PROVE  Addresses(Parent(n)) = Addresses(n) \cup Addresses(m)
<1>1. CASE IsLower(n) /\ m = Upper(n)
  BY <1>1, LowerHalf
<1>2. CASE IsLower(m) /\ n = Upper(m)
  BY <1>2, LowerHalf
<1>3. QED
  BY <1>1, <1>2, OfOneParent

(* Routes of one label are apart, and no two of them make up a shorter one: two that *)
(* are as they were collapsed do not, and the other half of one that was punched out *)
(* is at least in part excluded.                                                     *)
LEMMA Unmergeable ==
  ASSUME NEW entries, IsEntries(entries), NEW X, AllCanonical(X),
         NEW r \in Resolved(entries, X), NEW s \in Resolved(entries, X), r # s, r[2] = s[2]
  PROVE  /\ Canonical(r[1]) /\ Canonical(s[1])
         /\ Addresses(r[1]) \cap Addresses(s[1]) = {}
         /\ ~(r[1][2] = s[1][2] /\ r[1][2] > 0 /\ Parent(r[1]) = Parent(s[1]))
<1>0. FromNet(entries, X, r) /\ FromNet(entries, X, s)
  BY RouteFrom
<1>1. PICK n, h, l : /\ <<n, l>> \in Aggregate(entries)
                     /\ h \in PunchAll({n}, X) /\ r = <<h, l>>
  BY <1>0 DEF FromNet
<1>2. PICK m, g, k : /\ <<m, k>> \in Aggregate(entries)
                     /\ g \in PunchAll({m}, X) /\ s = <<g, k>>
  BY <1>0 DEF FromNet
<1>3. k = l /\ h # g /\ r[1] = h /\ s[1] = g
  BY <1>1, <1>2
<1> DEFINE nets == Collapse(NetsOf(entries, l))
<1>4. n \in nets /\ m \in nets
  BY <1>1, <1>2, <1>3, Aggregated
<1>5. Apart(nets) /\ SiblingsUpTo(nets, 0)
  BY Aggregated, Collapsing
<1> HIDE DEF nets
<1>6. /\ Canonical(h) /\ (h = n \/ Pierced(h, Cover(X)))
      /\ Addresses(h) \subseteq Addresses(n) \ Cover(X)
      /\ Apart(PunchAll({n}, X))
  BY <1>1, RouteWithin
<1>7. /\ Canonical(g) /\ (g = m \/ Pierced(g, Cover(X)))
      /\ Addresses(g) \subseteq Addresses(m) \ Cover(X)
  BY <1>2, RouteWithin
<1>8. Addresses(h) \cap Addresses(g) = {}
  <2>1. CASE n = m
    BY <1>1, <1>2, <1>3, <1>6, <2>1 DEF Apart
  <2>2. CASE n # m
    BY <1>4, <1>5, <1>6, <1>7, <2>2 DEF Apart
  <2>3. QED
    BY <2>1, <2>2
<1>9. ASSUME h[2] = g[2], h[2] > 0, Parent(h) = Parent(g)
      PROVE  FALSE
  <2>1. /\ Addresses(Parent(h)) = Addresses(h) \cup Addresses(g)
        /\ Addresses(Parent(g)) = Addresses(h) \cup Addresses(g)
    BY <1>3, <1>6, <1>7, <1>9, TwoOfOneParent
  <2>2. ~Pierced(h, Cover(X)) /\ ~Pierced(g, Cover(X))
    BY <1>6, <1>7, <2>1 DEF Pierced
  <2>3. h = n /\ g = m
    BY <1>6, <1>7, <2>2
  <2>4. h[2] <= 0
    BY <1>3, <1>4, <1>5, <1>9, <2>3 DEF SiblingsUpTo
  <2>5. h[2] \in Nat
    BY <1>6, Shape
  <2>6. QED
    BY <1>9, <2>4, <2>5
<1>10. QED
  BY <1>3, <1>6, <1>7, <1>8, <1>9

-----------------------------------------------------------------------------
(* The entries of a list, of its sources and their answers *)

(* Sequences, and the function of FlattenSeq. *)
IsSeq(s) == s \in Seq(Range(s))
Flattens(seqs, f) ==
  f = [i \in 1..Len(seqs) |-> IF i = 1 THEN seqs[i] ELSE f[i - 1] \o seqs[i]]

(* Sequences put together are made of what they were made of. *)
LEMMA Flattened ==
  ASSUME NEW seqs, NEW S, seqs \in Seq(Seq(S))
  PROVE  FlattenSeq(seqs) \in Seq(S)
<1>1. CASE Len(seqs) = 0
  <2>1. seqs = <<>>
    BY <1>1
  <2>2. QED
    BY <1>1, <2>1 DEF FlattenSeq
<1>2. CASE Len(seqs) # 0
  <2> DEFINE n == Len(seqs)
             Next1(i, s) == IF i \in 1..n THEN s \o seqs[i] ELSE s
             D == Seq(S)
             G == [x \in Nat \X D |-> Next1(x[1], x[2])]
  <2>1. n \in Nat /\ 1 \in Nat /\ 1 <= n /\ \A i \in 1..n : seqs[i] \in D
    BY <1>2
  <2>2. ASSUME NEW i \in Nat, NEW s \in D
        PROVE  Next1(i, s) \in D
    BY <2>1
  <2>3. seqs[1] \in D
    BY <2>1
  <2> HIDE DEF D, Next1
  <2>4. G \in [Nat \X D -> D] /\ \A i \in Nat : \A s \in D : G[<<i, s>>] = Next1(i, s)
    BY <2>2
  <2> HIDE DEF G, n
  <2>5. PICK r : Recurses(r, D, seqs[1], G, 1, n)
    BY <2>1, <2>3, <2>4, Recursion
  <2>6. ASSUME NEW i \in 1..n
        PROVE  r[i] = IF i = 1 THEN seqs[i] ELSE r[i - 1] \o seqs[i]
    <3>1. CASE i = 1
      BY <2>5, <3>1 DEF Recurses
    <3>2. CASE i # 1
      <4>1. i \in Nat /\ i - 1 \in 1..n /\ i \in (1 + 1)..n
        BY <2>1, <3>2
      <4>2. r[i - 1] \in D /\ r[i] = G[<<i, r[i - 1]>>]
        BY <2>5, <4>1 DEF Recurses
      <4>3. QED
        BY <2>4, <3>2, <4>1, <4>2 DEF Next1
    <3>3. QED
      BY <3>1, <3>2
  <2>7. Flattens(seqs, r)
    BY <2>5, <2>6 DEF Recurses, Flattens, n
  <2>8. PICK f : Flattens(seqs, f) /\ FlattenSeq(seqs) = f[n]
    BY <1>2, <2>7 DEF FlattenSeq, Flattens, n
  <2> DEFINE Upto(i) == i + 1 \in 1..n => f[i + 1] \in D
             T == {i \in Nat : Upto(i)}
  <2>9. \A i \in 1..n : f[i] = IF i = 1 THEN seqs[i] ELSE f[i - 1] \o seqs[i]
    BY <2>8 DEF Flattens, n
  <2>10. Upto(0)
    BY <2>1, <2>9
  <2>11. ASSUME NEW i \in Nat, Upto(i)
         PROVE  Upto(i + 1)
    <3> SUFFICES ASSUME i + 2 \in 1..n
                 PROVE  f[i + 2] \in D
      OBVIOUS
    <3>1. i + 1 \in 1..n /\ i + 2 # 1 /\ (i + 2) - 1 = i + 1
      BY <2>1
    <3>2. f[i + 1] \in D
      BY <2>11, <3>1
    <3>3. f[i + 2] = f[i + 1] \o seqs[i + 2]
      BY <2>9, <3>1
    <3>4. seqs[i + 2] \in D
      BY <2>1
    <3>5. QED
      BY <3>2, <3>3, <3>4 DEF D
  <2> HIDE DEF Upto
  <2>12. 0 \in T /\ \A i \in Nat : i \in T => i + 1 \in T
    BY <2>10, <2>11
  <2> HIDE DEF T
  <2>13. Nat \subseteq T
    BY <2>12, Induction
  <2>14. n - 1 \in T
    BY <2>1, <2>13
  <2>15. f[n] \in D
    BY <2>1, <2>14 DEF T, Upto
  <2>16. QED
    BY <2>8, <2>15 DEF D
<1>3. QED
  BY <1>1, <1>2

(* The same, by the elements. *)
LEMMA FlattenedOf ==
  ASSUME NEW seqs, IsSeq(seqs), \A i \in DOMAIN seqs : IsSeq(seqs[i])
  PROVE  LET flat == FlattenSeq(seqs)
         IN  /\ IsSeq(flat)
             /\ \A k \in DOMAIN flat : \E i \in DOMAIN seqs : \E j \in DOMAIN seqs[i] :
                  flat[k] = seqs[i][j]
<1> DEFINE S == UNION {Range(seqs[i]) : i \in DOMAIN seqs}
           flat == FlattenSeq(seqs)
<1>1. \A x : x \in S <=> \E i \in DOMAIN seqs : \E j \in DOMAIN seqs[i] : x = seqs[i][j]
  BY DEF Range
<1>2. PICK n \in Nat : DOMAIN seqs = 1..n
  BY DEF IsSeq
<1>3. ASSUME NEW i \in DOMAIN seqs
      PROVE  seqs[i] \in Seq(S)
  <2>1. seqs[i] \in Seq(Range(seqs[i]))
    BY DEF IsSeq
  <2>2. \A j \in DOMAIN seqs[i] : seqs[i][j] \in S
    BY <1>1
  <2> HIDE DEF S
  <2>3. QED
    BY <2>1, <2>2
<1> HIDE DEF S
<1>4. seqs \in Seq(Seq(S))
  BY <1>2, <1>3 DEF IsSeq
<1>5. flat \in Seq(S)
  BY <1>4, Flattened
<1> HIDE DEF flat
<1>6. \A k \in DOMAIN flat : flat[k] \in S /\ flat[k] \in Range(flat)
  BY <1>5 DEF Range
<1>7. IsSeq(flat)
  BY <1>5, <1>6 DEF IsSeq
<1>8. \A k \in DOMAIN flat : \E i \in DOMAIN seqs : \E j \in DOMAIN seqs[i] : flat[k] = seqs[i][j]
  BY <1>1, <1>6
<1>9. QED
  BY <1>7, <1>8 DEF flat

Lists == {"include", "exclude"}

(* Every question of a list has one of the possible answers. *)
HasAnswers(list) ==
  \A q \in Questions(cfg[list]) : <<list, q>> \in DOMAIN answers /\ answers[<<list, q>>] \in Answers

(* The lists of a block are sequences, as are what is in their sources. *)
LEMMA ListIs ==
  ASSUME cfg \in Configs, NEW list \in Lists
  PROVE  /\ cfg[list] \in {cfg.include, cfg.exclude} /\ IsSeq(cfg[list])
         /\ \A i \in DOMAIN cfg[list] :
              /\ cfg[list][i] \in Range(cfg[list])
              /\ cfg[list][i].kind = "literal" => IsSeq(cfg[list][i].prefixes)
              /\ cfg[list][i].kind # "literal" => IsSeq(cfg[list][i].asks)
<1>1. cfg[list] \in {cfg.include, cfg.exclude}
  BY DEF Lists
<1>2. \A i \in DOMAIN cfg[list] : cfg[list][i] \in Range(cfg[list])
  BY DEF Range
<1>3. QED
  BY <1>1, <1>2, ListAssumption DEF IsSeq

(* A function on the domain of a sequence is one. *)
LEMMA MadeSeq ==
  ASSUME NEW s, NEW f, IsSeq(s), f = [i \in DOMAIN s |-> f[i]]
  PROVE  IsSeq(f)
<1>1. PICK n \in Nat : DOMAIN s = 1..n
  BY DEF IsSeq
<1>2. f = [i \in 1..n |-> f[i]] /\ \A i \in 1..n : f[i] \in Range(f)
  BY <1>1 DEF Range
<1>3. f \in [1..n -> Range(f)]
  BY <1>2
<1>4. QED
  BY <1>3 DEF IsSeq

(* What a source yields. *)
LEMMA CollectedIs ==
  ASSUME HostBitsClear(Configs, Answers), cfg \in Configs, NEW list \in Lists, HasAnswers(list),
         NEW i \in DOMAIN cfg[list]
  PROVE  /\ IsSeq(Collected(list, i))
         /\ \A k \in DOMAIN Collected(list, i) :
              Collected(list, i)[k][1] \in Net => Canonical(Collected(list, i)[k][1])
<1> DEFINE source == cfg[list][i]
           said(j) == answers[<<list, <<i, j>>>>]
<1>1. /\ cfg[list] \in {cfg.include, cfg.exclude} /\ source \in Range(cfg[list])
      /\ source.kind = "literal" => IsSeq(source.prefixes)
      /\ source.kind # "literal" => IsSeq(source.asks)
  BY ListIs
<1>2. CASE source.kind = "literal"
  <2> DEFINE entry(j) == <<source.prefixes[j].net,
                           IF source.prefixes[j].label = NoLabel THEN "" ELSE source.prefixes[j].label>>
             all == [j \in DOMAIN source.prefixes |-> entry(j)]
  <2>1. Collected(list, i) = all
    BY <1>2 DEF Collected
  <2>2. ASSUME NEW j \in DOMAIN source.prefixes, entry(j)[1] \in Net
        PROVE  Canonical(entry(j)[1])
    <3>1. source.prefixes[j] \in Range(source.prefixes)
      BY DEF Range
    <3>2. \A p \in Range(source.prefixes) : p.net \in Net => Canonical(p.net)
      BY <1>1, <1>2 DEF HostBitsClear
    <3>3. entry(j)[1] = source.prefixes[j].net
      OBVIOUS
    <3> HIDE DEF entry, source
    <3>4. QED
      BY <2>2, <3>1, <3>2, <3>3
  <2>3. IsSeq(source.prefixes)
    BY <1>1, <1>2
  <2> HIDE DEF entry, source
  <2>4. IsSeq(all)
    BY <2>3, MadeSeq
  <2>5. QED
    BY <2>1, <2>2, <2>4
<1>3. CASE source.kind # "literal"
  <2> DEFINE entry(j, k) == <<said(j)[k], LabelOf(source)>>
             part(j) == [k \in DOMAIN said(j) |-> entry(j, k)]
             parts == [j \in DOMAIN source.asks |-> part(j)]
  <2>1. Collected(list, i) = FlattenSeq(parts)
    BY <1>3 DEF Collected
  <2>2. ASSUME NEW j \in DOMAIN source.asks
        PROVE  said(j) \in Answers
    <3>1. j \in DOMAIN Asks(cfg[list][i])
      BY <1>3 DEF Asks
    <3>2. <<i, j>> \in Questions(cfg[list])
      BY <3>1 DEF Questions
    <3>3. QED
      BY <3>2 DEF HasAnswers
  <2>3. ASSUME NEW j \in DOMAIN source.asks
        PROVE  IsSeq(part(j))
               /\ \A k \in DOMAIN part(j) : part(j)[k][1] \in Net => Canonical(part(j)[k][1])
    <3>1. IsSeq(said(j)) /\ \A n \in Range(said(j)) : n \in Net => Canonical(n)
      BY <2>2, ListAssumption DEF IsSeq, HostBitsClear
    <3>2. \A k \in DOMAIN said(j) : said(j)[k] \in Range(said(j)) /\ entry(j, k)[1] = said(j)[k]
      BY DEF Range
    <3> HIDE DEF said, entry
    <3>3. \A k \in DOMAIN part(j) : part(j)[k][1] \in Net => Canonical(part(j)[k][1])
      BY <3>1, <3>2
    <3>4. IsSeq(part(j))
      BY <3>1, MadeSeq
    <3>5. QED
      BY <3>3, <3>4
  <2>4. IsSeq(source.asks)
    BY <1>1, <1>3
  <2> HIDE DEF part, source
  <2>5. IsSeq(parts) /\ \A j \in DOMAIN parts : j \in DOMAIN source.asks /\ parts[j] = part(j)
    BY <2>4, MadeSeq
  <2> HIDE DEF parts
  <2>6. /\ IsSeq(FlattenSeq(parts))
        /\ \A k \in DOMAIN FlattenSeq(parts) : \E j \in DOMAIN parts : \E m \in DOMAIN parts[j] :
             FlattenSeq(parts)[k] = parts[j][m]
    BY <2>3, <2>5, FlattenedOf
  <2>7. QED
    BY <2>1, <2>3, <2>5, <2>6
<1>4. QED
  BY <1>2, <1>3

(* What a list yields. *)
LEMMA EntriesAre ==
  ASSUME HostBitsClear(Configs, Answers), cfg \in Configs, NEW list \in Lists, HasAnswers(list)
  PROVE  IsEntries(Entries(list)) /\ Told(list) = Entries(list)
<1> DEFINE parts == [i \in DOMAIN cfg[list] |-> Collected(list, i)]
<1>1. Entries(list) = FlattenSeq(parts) /\ Told(list) = FlattenSeq(parts)
  BY DEF Entries, Told
<1>2. \A i \in DOMAIN parts : i \in DOMAIN cfg[list] /\ parts[i] = Collected(list, i)
  OBVIOUS
<1>3. IsSeq(parts)
  BY ListIs, MadeSeq
<1> HIDE DEF parts
<1>4. /\ IsSeq(FlattenSeq(parts))
      /\ \A k \in DOMAIN FlattenSeq(parts) : \E i \in DOMAIN parts : \E j \in DOMAIN parts[i] :
           FlattenSeq(parts)[k] = parts[i][j]
  BY <1>2, <1>3, CollectedIs, FlattenedOf
<1>5. \A k \in DOMAIN FlattenSeq(parts) :
        FlattenSeq(parts)[k][1] \in Net => Canonical(FlattenSeq(parts)[k][1])
  BY <1>2, <1>4, CollectedIs
<1>6. \E n \in Nat : DOMAIN FlattenSeq(parts) = 1..n
  BY <1>4 DEF IsSeq
<1>7. QED
  BY <1>1, <1>5, <1>6 DEF IsEntries

-----------------------------------------------------------------------------
(* The calls *)

(* A list whose answers stay yields what it yielded. *)
LEMMA SameEntries ==
  ASSUME cfg' = cfg, NEW list \in Lists, HasAnswers(list),
         \A q \in Questions(cfg[list]) :
           <<list, q>> \in DOMAIN answers' /\ answers'[<<list, q>>] = answers[<<list, q>>]
  PROVE  HasAnswers(list)' /\ Entries(list)' = Entries(list)
<1>1. HasAnswers(list)'
  BY DEF HasAnswers
<1>2. ASSUME NEW i \in DOMAIN cfg[list]
      PROVE  Collected(list, i)' = Collected(list, i)
  <2> DEFINE source == cfg[list][i]
             part(j) == [k \in DOMAIN answers[<<list, <<i, j>>>>]
                           |-> <<answers[<<list, <<i, j>>>>][k], LabelOf(source)>>]
             part2(j) == [k \in DOMAIN answers'[<<list, <<i, j>>>>]
                           |-> <<answers'[<<list, <<i, j>>>>][k], LabelOf(source)>>]
  <2>1. CASE source.kind = "literal"
    BY <2>1 DEF Collected
  <2>2. CASE source.kind # "literal"
    <3>1. Collected(list, i) = FlattenSeq([j \in DOMAIN source.asks |-> part(j)])
      BY <2>2 DEF Collected
    <3>2. Collected(list, i)' = FlattenSeq([j \in DOMAIN source.asks |-> part2(j)])
      BY <2>2 DEF Collected, LabelOf
    <3>3. ASSUME NEW j \in DOMAIN source.asks
          PROVE  part(j) = part2(j)
      <4>1. j \in DOMAIN Asks(cfg[list][i])
        BY <2>2 DEF Asks
      <4>2. <<i, j>> \in Questions(cfg[list])
        BY <4>1 DEF Questions
      <4>3. answers'[<<list, <<i, j>>>>] = answers[<<list, <<i, j>>>>]
        BY <4>2
      <4>4. QED
        BY <4>3
    <3> HIDE DEF part, part2
    <3>4. [j \in DOMAIN source.asks |-> part(j)] = [j \in DOMAIN source.asks |-> part2(j)]
      BY <3>3
    <3>5. QED
      BY <3>1, <3>2, <3>4
  <2>3. QED
    BY <2>1, <2>2
<1>3. Entries(list)' = FlattenSeq([i \in DOMAIN cfg[list] |-> Collected(list, i)'])
  BY DEF Entries
<1>4. [i \in DOMAIN cfg[list] |-> Collected(list, i)'] = [i \in DOMAIN cfg[list] |-> Collected(list, i)]
  BY <1>2
<1>5. QED
  BY <1>1, <1>3, <1>4 DEF Entries

(* What a call knows on its way: the include list stays resolved as its answers say, *)
(* and a result is what both lists' answers make of it.                              *)
CallInv ==
  /\ cfg \in Configs /\ phase \in {"idle"} \cup Lists
  /\ \A k \in DOMAIN answers : answers[k] \in Answers
  /\ phase = "exclude" => HasAnswers("include") /\ included = Aggregate(Entries("include"))
  /\ phase # "idle" => result = None
  /\ result # None =>
       /\ HasAnswers("include") /\ HasAnswers("exclude")
       /\ result = Resolved(Entries("include"), Excluding(Entries("exclude")))

(* It holds before the first call. *)
LEMMA CallInvInit == Init => CallInv
BY DEF Init, CallInv, Lists

(* Every step keeps it ... *)
LEMMA CallInvNext == CallInv /\ [Next]_vars => CallInv'
<1> SUFFICES ASSUME CallInv, [Next]_vars
             PROVE  CallInv'
  OBVIOUS
<1>1. \A list \in Lists : cfg' = cfg /\ answers' = answers /\ HasAnswers(list)
                            => HasAnswers(list)' /\ Entries(list)' = Entries(list)
  BY SameEntries DEF HasAnswers
<1>2. "include" \in Lists /\ "exclude" \in Lists /\ "idle" \notin Lists
  BY DEF Lists
<1>3. ASSUME Start
      PROVE  CallInv'
  <2>1. phase' = "include" /\ result' = None /\ cfg' = cfg /\ answers' = <<>>
    BY <1>3 DEF Start
  <2>2. DOMAIN answers' = {}
    BY <2>1
  <2>3. QED
    BY <1>2, <2>1, <2>2 DEF CallInv
<1>4. ASSUME Fail
      PROVE  CallInv'
  BY <1>4 DEF Fail, CallInv
<1>5. ASSUME NEW q, Ask(q), phase # "idle"
      PROVE  CallInv'
  <2>1. UNCHANGED <<cfg, phase, answers, included, result>>
    BY <1>5 DEF Ask
  <2>2. QED
    BY <1>1, <1>2, <1>5, <2>1 DEF CallInv
<1>6. ASSUME NEW q, Answer(q), phase # "idle"
      PROVE  CallInv'
  <2>1. UNCHANGED <<cfg, phase, included, result>>
    BY <1>6 DEF Answer
  <2>2. PICK a \in Answers :
          answers' = [k \in DOMAIN answers \cup {<<phase, q>>} |->
                        IF k = <<phase, q>> THEN a ELSE answers[k]]
    BY <1>6 DEF Answer
  <2>3. \A k \in DOMAIN answers' : answers'[k] \in Answers
    BY <2>2 DEF CallInv
  <2>4. ASSUME phase = "exclude"
        PROVE  HasAnswers("include")' /\ Entries("include")' = Entries("include")
    <3>1. HasAnswers("include")
      BY <2>4 DEF CallInv
    <3>2. \A p \in Questions(cfg["include"]) : <<"include", p>> # <<phase, q>>
      BY <2>4
    <3>3. \A p \in Questions(cfg["include"]) :
            <<"include", p>> \in DOMAIN answers'
            /\ answers'[<<"include", p>>] = answers[<<"include", p>>]
      BY <2>2, <3>1, <3>2 DEF HasAnswers
    <3>4. QED
      BY <1>2, <2>1, <3>1, <3>3, SameEntries
  <2>5. result' = None
    BY <1>6, <2>1 DEF CallInv
  <2>6. QED
    BY <2>1, <2>3, <2>4, <2>5 DEF CallInv
<1>7. ASSUME AllAnswered, phase \in Lists
      PROVE  HasAnswers(phase)
  BY <1>7 DEF AllAnswered, Answered, HasAnswers, CallInv
<1>8. ASSUME IncludeResolved
      PROVE  CallInv'
  <2>1. phase = "include" /\ HasAnswers("include")
    BY <1>2, <1>7, <1>8 DEF IncludeResolved
  <2>2. CASE Aggregate(Entries("include")) = {}
    BY <1>4, <1>8, <2>2 DEF IncludeResolved
  <2>3. CASE Aggregate(Entries("include")) # {}
    <3>1. /\ phase' = "exclude" /\ included' = Aggregate(Entries("include"))
          /\ UNCHANGED <<cfg, answers, result>>
      BY <1>8, <2>3 DEF IncludeResolved
    <3>2. result' = None
      BY <2>1, <3>1 DEF CallInv
    <3>3. QED
      BY <1>1, <1>2, <2>1, <3>1, <3>2 DEF CallInv
  <2>4. QED
    BY <2>2, <2>3
<1>9. ASSUME ExcludeResolved
      PROVE  CallInv'
  <2>1. phase = "exclude" /\ HasAnswers("exclude")
    BY <1>2, <1>7, <1>9 DEF ExcludeResolved
  <2>2. HasAnswers("include") /\ included = Aggregate(Entries("include"))
    BY <2>1 DEF CallInv
  <2>3. result' = Resolved(Entries("include"), Excluding(Entries("exclude")))
    BY <1>9, <2>2 DEF ExcludeResolved, Resolved, Excluding
  <2>4. phase' = "idle" /\ UNCHANGED <<cfg, answers>>
    BY <1>9 DEF ExcludeResolved
  <2>5. /\ HasAnswers("include")' /\ HasAnswers("exclude")'
        /\ Entries("include")' = Entries("include") /\ Entries("exclude")' = Entries("exclude")
    BY <1>1, <1>2, <2>1, <2>2, <2>4
  <2>6. result' = Resolved(Entries("include"), Excluding(Entries("exclude")))'
    BY <2>3, <2>5 DEF Resolved, Excluding
  <2>7. QED
    BY <1>2, <2>4, <2>5, <2>6 DEF CallInv
<1>10. CASE UNCHANGED vars
  <2>1. UNCHANGED <<cfg, phase, answers, included, result>>
    BY <1>10 DEF vars
  <2>2. QED
    BY <1>1, <1>2, <2>1 DEF CallInv, Resolved, Excluding
<1>11. QED
  BY <1>3, <1>4, <1>5, <1>6, <1>8, <1>9, <1>10 DEF Next, TotalTimeout, RequestFails

(* ... so it always holds. *)
LEMMA CallInvAlways == Spec => []CallInv
<1>1. QED
  BY CallInvInit, CallInvNext, PTL DEF Spec

(* What a result is made of, in the words of the properties. *)
LEMMA ResultIs ==
  ASSUME HostBitsClear(Configs, Answers), CallInv, result # None
  PROVE  LET inc == Entries("include")
             exc == Entries("exclude")
         IN  /\ IsEntries(inc) /\ IsEntries(exc) /\ Told("include") = inc /\ Told("exclude") = exc
             /\ result = Resolved(inc, Excluding(exc))
             /\ AllCanonical(Excluding(exc))
             /\ Cover(Excluding(exc)) = Covered("exclude") /\ Cover(NetsIn(inc)) = Covered("include")
<1>1. "include" \in Lists /\ "exclude" \in Lists
  BY DEF Lists
<1>2. /\ IsEntries(Entries("include")) /\ Told("include") = Entries("include")
      /\ IsEntries(Entries("exclude")) /\ Told("exclude") = Entries("exclude")
  BY <1>1, EntriesAre DEF CallInv
<1>3. result = Resolved(Entries("include"), Excluding(Entries("exclude")))
  BY DEF CallInv
<1>4. AllCanonical(Excluding(Entries("exclude")))
      /\ Cover(Excluding(Entries("exclude"))) = Cover(NetsIn(Entries("exclude")))
  BY <1>2, ExcludingIs
<1>5. /\ Cover(NetsIn(Entries("exclude"))) = Covered("exclude")
      /\ Cover(NetsIn(Entries("include"))) = Covered("include")
  BY <1>2 DEF Cover, Covered, NetsIn, ToldNets
<1>6. QED
  BY <1>2, <1>3, <1>4, <1>5

(* A result has the addresses that are included and not excluded, no one less and *)
(* none more: however the networks are split, merged and punched by the code of    *)
(* resolver.rs and cidr.rs.                                                         *)
THEOREM RoutesAreTheDifference ==
  ASSUME HostBitsClear(Configs, Answers)
  PROVE  Spec => []RoutesAreDifference
<1>1. CallInv => RoutesAreDifference
  <2> SUFFICES ASSUME CallInv, result # None
               PROVE  Routed = Covered("include") \ Covered("exclude")
    BY DEF RoutesAreDifference
  <2>1. Routed = Cover(NetsIn(Entries("include"))) \ Cover(Excluding(Entries("exclude")))
    BY ResultIs, Difference DEF Routed
  <2>2. QED
    BY <2>1, ResultIs
<1>2. QED
  BY <1>1, CallInvAlways, PTL

(* An address is routed under the labels of the networks the config's first source *)
(* to name them names them under, in whatever order the answers come.               *)
THEOREM RoutesLabelledAsListed ==
  ASSUME HostBitsClear(Configs, Answers)
  PROVE  Spec => []LabelsAsListed
<1>1. CallInv => LabelsAsListed
  <2> SUFFICES ASSUME CallInv, result # None
               PROVE  LabelsAsListed
    BY DEF LabelsAsListed
  <2> DEFINE told == Told("include")
             exc == Excluding(Entries("exclude"))
  <2>1. IsEntries(told) /\ AllCanonical(exc) /\ result = Resolved(told, exc)
    BY ResultIs
  <2>2. First(told) = {i \in DOMAIN told : told[i][1] \in Net
                         /\ \A j \in DOMAIN told : told[j][1] = told[i][1] => i <= j}
    BY <2>1, FirstIs
  <2> HIDE DEF told, exc
  <2>3. ASSUME NEW a \in Routed
        PROVE  {r[2] : r \in {s \in result : a \in Addresses(s[1])}}
                 = {told[i][2] : i \in {j \in First(told) : a \in Addresses(told[j][1])}}
    <3>1. \A l : (\E r \in result : r[2] = l /\ a \in Addresses(r[1]))
                   <=> /\ a \notin Cover(exc)
                       /\ \E i \in First(told) : told[i][2] = l /\ a \in Addresses(told[i][1])
      BY <2>1, Labelled
    <3>2. \E r \in result : a \in Addresses(r[1])
      BY DEF Routed
    <3>3. a \notin Cover(exc)
      BY <3>1, <3>2
    <3>4. QED
      BY <3>1, <3>3
  <2>4. QED
    BY <2>2, <2>3 DEF LabelsAsListed, told
<1>2. QED
  BY <1>1, CallInvAlways, PTL

(* No two routes of one label overlap or make up a shorter one: a half is beside     *)
(* nothing but what is excluded, or what its label was never given.                 *)
THEOREM NothingLeftToMerge ==
  ASSUME HostBitsClear(Configs, Answers)
  PROVE  Spec => []NothingToMerge
<1>1. CallInv => NothingToMerge
  <2> SUFFICES ASSUME CallInv, result # None,
                      NEW r \in result, NEW s \in result, r # s, r[2] = s[2]
               PROVE  /\ Addresses(r[1]) \cap Addresses(s[1]) = {}
                      /\ r[1][2] = s[1][2] /\ r[1][2] > 0 =>
                           NetworkAddr(r[1][1], r[1][2] - 1) # NetworkAddr(s[1][1], s[1][2] - 1)
    BY DEF NothingToMerge
  <2> DEFINE inc == Entries("include")
             exc == Excluding(Entries("exclude"))
  <2>1. IsEntries(inc) /\ AllCanonical(exc) /\ result = Resolved(inc, exc)
    BY ResultIs
  <2> HIDE DEF inc, exc
  <2>2. /\ Addresses(r[1]) \cap Addresses(s[1]) = {}
        /\ ~(r[1][2] = s[1][2] /\ r[1][2] > 0 /\ Parent(r[1]) = Parent(s[1]))
    BY <2>1, Unmergeable
  <2>3. QED
    BY <2>2 DEF Parent
<1>2. QED
  BY <1>1, CallInvAlways, PTL

=============================================================================
