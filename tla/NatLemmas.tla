----------------------------- MODULE NatLemmas ------------------------------
(* Facts about natural numbers the proofs share. *)
EXTENDS Integers, WellFoundedInduction, TLAPS

\* A nonempty set of naturals has a least element.
LEMMA LeastExists ==
  ASSUME NEW S, S \subseteq Nat, S # {}
  PROVE  \E x \in S : \A y \in S : x <= y
<1>1. PICK x \in S : \A y \in S : ~(<<y, x>> \in OpToRel(<, Nat))
  BY NatLessThanWellFounded, WFMin
<1>2. \A y \in S : ~(y < x)
  BY <1>1 DEF OpToRel
<1> QED
  BY <1>2

\* A nonempty set of naturals up to a bound has a greatest element.
LEMMA GreatestExists ==
  ASSUME NEW S, NEW n \in Nat, S \subseteq 0 .. n, S # {}
  PROVE  \E x \in S : \A y \in S : x >= y
<1> DEFINE D == {d \in 0 .. n : n - d \in S}
<1>1. D \subseteq Nat
  OBVIOUS
<1>2. \A x \in S : n - x \in D /\ n - (n - x) = x
  OBVIOUS
<1>3. D # {}
  BY <1>2
<1>4. PICK d \in D : \A c \in D : d <= c
  BY <1>1, <1>3, LeastExists
<1>5. n - d \in S /\ d \in 0 .. n
  OBVIOUS
<1>6. \A y \in S : n - d >= y
  <2> SUFFICES ASSUME NEW y \in S PROVE n - d >= y
    OBVIOUS
  <2>1. d <= n - y /\ y \in 0 .. n
    BY <1>2, <1>4
  <2> QED
    BY <1>5, <2>1
<1> QED
  BY <1>5, <1>6

-----------------------------------------------------------------------------
(* Remainders *)

\* A remainder is the only number below the divisor that a multiple completes.
LEMMA ModUnique ==
  ASSUME NEW n \in Nat \ {0}, NEW q \in Nat, NEW r \in 0 .. n - 1
  PROVE  (n * q + r) % n = r
  OBVIOUS

\* A number is its quotient times the divisor plus its remainder.
LEMMA DivMod ==
  ASSUME NEW d \in Nat \ {0}, NEW h \in Nat
  PROVE  h \div d \in Nat /\ h % d \in 0 .. d - 1 /\ h = d * (h \div d) + (h % d)
<1>1. h % d \in 0 .. d - 1
  OBVIOUS
<1>2. h = d * (h \div d) + (h % d)
  OBVIOUS
<1>3. h \div d \in Nat
  OBVIOUS
<1> QED
  BY <1>1, <1>2, <1>3

\* Doubling the divisor keeps the remainder or adds the old divisor to it: an
\* entry of bucket i of a table that doubles goes to bucket i or i + old size.
LEMMA ModDoubled ==
  ASSUME NEW n \in Nat \ {0}, NEW h \in Nat
  PROVE  /\ h % n \in 0 .. n - 1
         /\ h % (2 * n) = h % n \/ h % (2 * n) = (h % n) + n
<1> DEFINE q == h \div (2 * n)
           r == h % (2 * n)
<1>1. 2 * n \in Nat \ {0}
  OBVIOUS
<1>2. q \in Nat /\ r \in 0 .. 2 * n - 1 /\ h = (2 * n) * q + r
  BY <1>1, DivMod
<1> HIDE DEF q, r
<1>3. CASE r < n
  <2>1. h = n * (2 * q) + r /\ 2 * q \in Nat /\ r \in 0 .. n - 1
    BY <1>2, <1>3
  <2> QED
    BY <2>1, ModUnique DEF r
<1>4. CASE r >= n
  <2>1. h = n * (2 * q + 1) + (r - n) /\ 2 * q + 1 \in Nat /\ r - n \in 0 .. n - 1
    BY <1>2, <1>4
  <2>2. h % n = r - n
    BY <2>1, ModUnique
  <2> QED
    BY <1>2, <2>1, <2>2 DEF r
<1> QED
  BY <1>2, <1>3, <1>4
=============================================================================
