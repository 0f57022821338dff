------------------------------ MODULE Modular ------------------------------
(***************************************************************************)
(* Arithmetic of rings that are indexed by unsigned counters, as pipe.c    *)
(* and console.c have them: a counter wraps at u, its place in the ring is *)
(* the counter modulo the size s, and s divides u.                         *)
(***************************************************************************)
EXTENDS Integers, Sequences, TLAPS

(* Division with remainder.                                                  *)
LEMMA Division ==
  ASSUME NEW x \in Nat, NEW s \in Nat \ {0}
  PROVE  x % s \in 0..(s - 1) /\ x \div s \in Nat /\ x = s * (x \div s) + (x % s)
OBVIOUS

(* A quotient with remainder is unique.                                      *)
LEMMA Unique ==
  ASSUME NEW s \in Nat \ {0}, NEW q \in Nat, NEW r \in Nat,
         NEW a \in 0..(s - 1), NEW b \in 0..(s - 1), s * q + a = s * r + b
  PROVE  q = r /\ a = b
<1>1. ASSUME NEW i \in Nat, NEW j \in Nat, i > j PROVE s * i >= s * j + s
  <2>1. i - j \in Nat /\ i - j >= 1
    BY <1>1
  <2>2. s * (i - j) >= s
    BY <2>1
  <2>3. s * i = s * j + s * (i - j)
    OBVIOUS
  <2> QED
    BY <2>2, <2>3
<1>2. ~(q > r)
  BY <1>1
<1>3. ~(r > q)
  BY <1>1
<1>4. q = r
  BY <1>2, <1>3
<1> QED
  BY <1>4

(* What modulo does below the size and within twice the size.                *)
LEMMA Modulo ==
  ASSUME NEW x \in Nat, NEW s \in Nat \ {0}
  PROVE  /\ x < s => x % s = x
         /\ s <= x /\ x < 2 * s => x % s = x - s
OBVIOUS

(* A counter that wraps keeps its place in the ring.                         *)
LEMMA Wrap ==
  ASSUME NEW s \in Nat \ {0}, NEW u \in Nat \ {0}, u % s = 0, NEW y \in Nat
  PROVE  (y + u) % s = y % s
<1> DEFINE x == y + u
           q == y \div s
           v == u \div s
           r == x \div s
           a == x % s
           b == y % s
<1>1. x \in Nat
  OBVIOUS
<1>2. y = s * q + b /\ q \in Nat /\ b \in 0..(s - 1)
  BY Division
<1>3. u = s * v + (u % s) /\ v \in Nat
  BY Division
<1>4. x = s * r + a /\ r \in Nat /\ a \in 0..(s - 1)
  <2> HIDE DEF x
  <2> QED
    BY <1>1, Division
<1>5. x = y + u
  OBVIOUS
<1> HIDE DEF x, q, v, r, a, b
<1>6. s * (q + v) = s * q + s * v
  BY <1>2, <1>3
<1>7. s * r + a = s * (q + v) + b
  BY <1>2, <1>3, <1>4, <1>5, <1>6
<1> DEFINE t == q + v
<1>8. t \in Nat /\ s * r + a = s * t + b
  BY <1>2, <1>3, <1>7
<1> HIDE DEF t
<1>9. a = b
  BY <1>2, <1>4, <1>8, Unique
<1> QED
  BY <1>9 DEF a, b, x

(* Entries less than s apart have different places.                          *)
LEMMA Apart ==
  ASSUME NEW s \in Nat \ {0}, NEW x \in Nat, NEW y \in Nat, x < y, y < x + s
  PROVE  x % s # y % s
<1> DEFINE q == x \div s
           r == y \div s
           a == x % s
           d == y - x
<1>1. x = s * q + a /\ q \in Nat /\ a \in 0..(s - 1)
  BY Division
<1>2. y = s * r + (y % s) /\ r \in Nat
  BY Division
<1> SUFFICES ASSUME x % s = y % s PROVE FALSE
  OBVIOUS
<1>3. d \in 1..(s - 1) /\ s * r + 0 = s * q + d
  BY <1>1, <1>2
<1> HIDE DEF q, r, d
<1>4. 0 \in 0..(s - 1) /\ d \in 0..(s - 1) /\ q \in Nat /\ r \in Nat
  BY <1>1, <1>2, <1>3
<1>5. 0 = d
  BY <1>3, <1>4, Unique
<1> QED
  BY <1>3, <1>5

(* The place of the n-th entry after counter i, whether or not it wraps.     *)
LEMMA Place ==
  ASSUME NEW s \in Nat \ {0}, NEW u \in Nat \ {0}, u % s = 0,
         NEW x \in Nat, x < 2 * u
  PROVE  (x % u) % s = x % s
<1>1. CASE x < u
  <2>1. x % u = x
    BY <1>1, Modulo
  <2> QED
    BY <2>1
<1>2. CASE x >= u
  <2> DEFINE y == x - u
  <2>1. y \in Nat /\ x = y + u
    BY <1>2
  <2>2. x % u = x - u
    BY <1>2, Modulo
  <2>3. x % u = y
    BY <2>2
  <2> HIDE DEF y
  <2>4. (y + u) % s = y % s
    BY <2>1, Wrap
  <2> QED
    BY <2>1, <2>3, <2>4
<1> QED
  BY <1>1, <1>2

(* A counter moved on by n. *)
LEMMA Advance ==
  ASSUME NEW u \in Nat \ {0}, NEW i \in 0..(u - 1), NEW n \in 0..u
  PROVE  (i + n) % u = IF i + n < u THEN i + n ELSE i + n - u
<1> DEFINE x == i + n
<1>1. x \in Nat /\ x < 2 * u
  OBVIOUS
<1>2. (x < u => x % u = x) /\ (u <= x => x % u = x - u)
  <2> HIDE DEF x
  <2> QED
    BY <1>1, Modulo
<1> QED
  BY <1>1, <1>2

(* A counter moved back by n, or the distance of counter i from counter n.   *)
LEMMA Back ==
  ASSUME NEW u \in Nat \ {0}, NEW i \in 0..(u - 1), NEW n \in 0..u
  PROVE  (i - n) % u = IF i >= n THEN i - n ELSE i + u - n
<1> DEFINE x == i - n
<1>1. x \in Int /\ -u <= x /\ x < u
  OBVIOUS
<1>2. (x >= 0 => x % u = x) /\ (x < 0 => x % u = x + u)
  <2> HIDE DEF x
  <2> QED
    BY <1>1
<1> QED
  BY <1>1, <1>2

(* Sequences are functions. *)
LEMMA Extensional ==
  ASSUME NEW V, NEW t \in Seq(V), NEW n \in Nat, Len(t) = n,
         NEW f, f = [i \in 1..n |-> f[i]], \A i \in 1..n : f[i] = t[i]
  PROVE  f = t
<1>1. t = [i \in 1..n |-> t[i]]
  OBVIOUS
<1> QED
  BY <1>1
=============================================================================
