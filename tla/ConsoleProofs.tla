--------------------------- MODULE ConsoleProofs ---------------------------
(***************************************************************************)
(* Proofs about the input ring of console.c, for every size of the ring,   *)
(* every width of its indices and any keys: the ring is the queue of       *)
(* edited lines, and reader and typist never wait for each other.          *)
(***************************************************************************)
EXTENDS Console, Modular, TLAPS

Chars == Keys \cup {"0"}
Index == 0..(UINT - 1)
Room == 0..(INPUT_BUF - 1)

RingType ==
  /\ input \in [buf : [Room -> Chars], r : Index, w : Index, e : Index]
  /\ ready \in Seq(Chars) /\ edited \in Seq(Chars)

(* The inductive invariant of the ring.  From r on it holds the lines that   *)
(* are ready and then the line being edited, at the places their characters  *)
(* would have if the indices did not wrap.  All of it fits; the line being   *)
(* edited has no line end, so that the kill-line key takes all of it back;   *)
(* and the keys that fill the ring have been announced.                      *)
Typed == Len(ready) + Len(edited)

RingInv ==
  /\ RingType
  /\ Typed <= INPUT_BUF
  /\ input.w = Plus(input.r, Len(ready))
  /\ input.e = Plus(input.r, Typed)
  /\ \A k \in 1..Len(ready) : ready[k] = input.buf[(input.r + k - 1) % INPUT_BUF]
  /\ \A k \in 1..Len(edited) :
       /\ edited[k] = input.buf[(input.r + Len(ready) + k - 1) % INPUT_BUF]
       /\ edited[k] # "\n"
  /\ Typed = INPUT_BUF => Len(edited) = 0

-----------------------------------------------------------------------------
(* The constants, as the arithmetic needs them.                              *)
LEMMA Sizes ==
  /\ INPUT_BUF \in Nat \ {0} /\ UINT \in Nat \ {0}
  /\ UINT % INPUT_BUF = 0 /\ INPUT_BUF < UINT
BY ConsoleAssumption

(* The n-th character after index i is where it would be without wrapping.   *)
LEMMA SlotPlus ==
  ASSUME NEW i \in Index, NEW n \in 0..UINT
  PROVE  Slot(Plus(i, n)) = (i + n) % INPUT_BUF /\ Slot(i) = i % INPUT_BUF
<1>1. i + n \in Nat /\ i + n < 2 * UINT
  BY Sizes DEF Index
<1>2. ((i + n) % UINT) % INPUT_BUF = (i + n) % INPUT_BUF
  <2> DEFINE x == i + n
  <2>1. x \in Nat /\ x < 2 * UINT
    BY <1>1, Zenon
  <2> HIDE DEF x
  <2>2. (x % UINT) % INPUT_BUF = x % INPUT_BUF
    BY <2>1, Sizes, Place, Zenon
  <2> QED
    BY <2>2, Zenon DEF x
<1> QED
  BY <1>2, Zenon DEF Slot, Plus

(* The places of the ring. *)
LEMMA InRoom ==
  ASSUME NEW x \in Nat
  PROVE  x % INPUT_BUF \in Room
BY Sizes, Division, Zenon DEF Room

(* Moving an index on wraps with the unsigned counter.                       *)
LEMMA PlusIs ==
  ASSUME NEW i \in Index, NEW n \in 0..UINT
  PROVE  Plus(i, n) \in Index /\ Plus(i, n) = IF i + n < UINT THEN i + n ELSE i + n - UINT
<1>1. (i + n) % UINT = IF i + n < UINT THEN i + n ELSE i + n - UINT
  BY Sizes, Advance, Zenon DEF Index
<1> QED
  BY <1>1, Sizes DEF Plus, Index

(* Moving an index back, as consoleintr does to erase, wraps below zero.     *)
LEMMA MinusIs ==
  ASSUME NEW i \in Index, NEW n \in 0..UINT
  PROVE  Minus(i, n) \in Index /\ Minus(i, n) = IF i >= n THEN i - n ELSE i + UINT - n
<1>1. (i - n) % UINT = IF i >= n THEN i - n ELSE i + UINT - n
  BY Sizes, Back DEF Index
<1> QED
  BY <1>1, Sizes DEF Minus, Index

(* Moving on twice. *)
LEMMA PlusPlus ==
  ASSUME NEW i \in Index, NEW a \in Nat, NEW b \in Nat, a + b <= UINT
  PROVE  Plus(Plus(i, a), b) = Plus(i, a + b) /\ Minus(Plus(i, a + b), b) = Plus(i, a)
<1>1. a \in 0..UINT /\ b \in 0..UINT /\ a + b \in 0..UINT
  BY Sizes
<1>2. /\ Plus(i, a) \in Index
      /\ Plus(i, a) = IF i + a < UINT THEN i + a ELSE i + a - UINT
  BY <1>1, PlusIs, Zenon
<1>3. /\ Plus(i, a + b) \in Index
      /\ Plus(i, a + b) = IF i + (a + b) < UINT THEN i + (a + b) ELSE i + (a + b) - UINT
  BY <1>1, PlusIs, Zenon
<1> DEFINE j == Plus(i, a)
           l == Plus(i, a + b)
<1> HIDE DEF j, l
<1>4. Plus(j, b) = IF j + b < UINT THEN j + b ELSE j + b - UINT
  BY <1>1, <1>2, PlusIs, Zenon DEF j
<1>5. Minus(l, b) = IF l >= b THEN l - b ELSE l + UINT - b
  BY <1>1, <1>3, MinusIs, Zenon DEF l
<1>6. Plus(j, b) = l
  BY <1>2, <1>3, <1>4, Sizes DEF Index, j, l
<1>7. Minus(l, b) = j
  BY <1>2, <1>3, <1>5, Sizes DEF Index, j, l
<1> QED
  BY <1>6, <1>7, Zenon DEF j, l

(* The place of a character k after an index that may have wrapped.          *)
LEMMA Shift ==
  ASSUME NEW i \in Index, NEW n \in 0..UINT, NEW k \in Nat
  PROVE  (Plus(i, n) + k) % INPUT_BUF = (i + n + k) % INPUT_BUF
<1> DEFINE y == Plus(i, n) + k
<1>1. y \in Nat /\ (i + n + k = y \/ i + n + k = y + UINT)
  <2>1. /\ Plus(i, n) \in Index
        /\ Plus(i, n) = IF i + n < UINT THEN i + n ELSE i + n - UINT
    BY PlusIs, Zenon
  <2> QED
    BY <2>1, Sizes DEF Index
<1> HIDE DEF y
<1>2. (y + UINT) % INPUT_BUF = y % INPUT_BUF
  BY <1>1, Sizes, Wrap, Zenon
<1> QED
  BY <1>1, <1>2, Zenon DEF y

-----------------------------------------------------------------------------
(* What the indices say about the line discipline.                           *)
LEMMA Indices ==
  ASSUME RingInv
  PROVE  /\ Len(ready) \in Nat /\ Len(edited) \in Nat /\ Typed \in 0..UINT
         /\ input.r \in Index /\ input.w \in Index /\ input.e \in Index
         /\ Minus(input.w, input.r) = Len(ready)
         /\ Minus(input.e, input.w) = Len(edited)
         /\ Minus(input.e, input.r) = Typed
         /\ input.r = input.w <=> Len(ready) = 0
         /\ input.e = input.w <=> Len(edited) = 0
<1> DEFINE r == input.r
           w == input.w
           e == input.e
           n == Len(ready)
           m == Len(edited)
<1>1. /\ r \in Index /\ w \in Index /\ e \in Index /\ n \in Nat /\ m \in Nat
      /\ n + m <= INPUT_BUF /\ w = Plus(r, n) /\ e = Plus(r, n + m) /\ Typed = n + m
  BY DEF RingInv, RingType, Typed
<1> HIDE DEF r, w, e, n, m
<1>2. n \in 0..UINT /\ n + m \in 0..UINT /\ r \in 0..UINT /\ w \in 0..UINT
  BY <1>1, Sizes DEF Index
<1>3. /\ w = IF r + n < UINT THEN r + n ELSE r + n - UINT
      /\ e = IF r + (n + m) < UINT THEN r + (n + m) ELSE r + (n + m) - UINT
  BY <1>1, <1>2, PlusIs, Zenon
<1>4. /\ Minus(w, r) = IF w >= r THEN w - r ELSE w + UINT - r
      /\ Minus(e, w) = IF e >= w THEN e - w ELSE e + UINT - w
      /\ Minus(e, r) = IF e >= r THEN e - r ELSE e + UINT - r
  BY <1>1, <1>2, MinusIs, Zenon
<1>5. Minus(w, r) = n /\ Minus(e, w) = m /\ Minus(e, r) = n + m
  <2>1. /\ r \in Nat /\ r < UINT /\ n \in Nat /\ m \in Nat /\ n + m < UINT
        /\ w \in Nat /\ e \in Nat /\ UINT \in Nat
    BY <1>1, Sizes DEF Index
  <2>2. Minus(w, r) = n
    BY <1>3, <1>4, <2>1
  <2>3. Minus(e, w) = m
    BY <1>3, <1>4, <2>1
  <2>4. Minus(e, r) = n + m
    BY <1>3, <1>4, <2>1
  <2> QED
    BY <2>2, <2>3, <2>4, Zenon
<1>6. (r = w <=> n = 0) /\ (e = w <=> m = 0)
  BY <1>1, <1>3, Sizes DEF Index
<1> QED
  BY <1>1, <1>2, <1>5, <1>6, Zenon DEF r, w, e, n, m

(* The invariant implies what the ring is for.                               *)
LEMMA Queue ==
  ASSUME RingInv
  PROVE  RingIsQueue /\ RingNeverStuck
<1> USE Indices
<1>1. /\ input.buf \in [Room -> Chars] /\ ready \in Seq(Chars) /\ edited \in Seq(Chars)
      /\ Typed <= INPUT_BUF /\ Typed = Len(ready) + Len(edited)
  BY Zenon DEF RingInv, RingType, Typed
<1>2. Ring(input.r, input.w) = ready
  <2>1. Ring(input.r, input.w) = [k \in 1..Len(ready) |-> input.buf[Slot(Plus(input.r, k - 1))]]
    BY Zenon DEF Ring
  <2>2. ASSUME NEW k \in 1..Len(ready)
        PROVE  input.buf[Slot(Plus(input.r, k - 1))] = ready[k]
    <3>1. k - 1 \in 0..UINT /\ input.r + (k - 1) = input.r + k - 1
      BY <1>1, Sizes DEF Index
    <3>2. Slot(Plus(input.r, k - 1)) = (input.r + (k - 1)) % INPUT_BUF
      BY <3>1, SlotPlus, Zenon
    <3> QED
      BY <3>1, <3>2, Zenon DEF RingInv
  <2>3. Ring(input.r, input.w) = [k \in 1..Len(ready) |-> ready[k]]
    BY <2>1, <2>2, Zenon
  <2> QED
    BY <1>1, <2>3
<1>3. Ring(input.w, input.e) = edited
  <2>1. Ring(input.w, input.e) = [k \in 1..Len(edited) |-> input.buf[Slot(Plus(input.w, k - 1))]]
    BY Zenon DEF Ring
  <2>2. ASSUME NEW k \in 1..Len(edited)
        PROVE  input.buf[Slot(Plus(input.w, k - 1))] = edited[k]
    <3>1. k - 1 \in 0..UINT /\ k - 1 \in Nat /\ Len(ready) \in 0..UINT
          /\ input.r + Len(ready) + (k - 1) = input.r + Len(ready) + k - 1
      BY <1>1, Sizes DEF Index
    <3>2. Slot(Plus(input.w, k - 1)) = (input.w + (k - 1)) % INPUT_BUF
      BY <3>1, SlotPlus, Zenon
    <3>3. (Plus(input.r, Len(ready)) + (k - 1)) % INPUT_BUF
            = (input.r + Len(ready) + (k - 1)) % INPUT_BUF
      BY <3>1, Shift, Zenon
    <3>4. input.w = Plus(input.r, Len(ready))
      BY Zenon DEF RingInv
    <3>5. edited[k] = input.buf[(input.r + Len(ready) + k - 1) % INPUT_BUF]
      BY Zenon DEF RingInv
    <3> QED
      BY <3>1, <3>2, <3>3, <3>4, <3>5, Zenon
  <2>3. Ring(input.w, input.e) = [k \in 1..Len(edited) |-> edited[k]]
    BY <2>1, <2>2, Zenon
  <2> QED
    BY <1>1, <2>3
<1>4. RingNeverStuck
  <2>1. Typed = INPUT_BUF => Len(edited) = 0
    BY Zenon DEF RingInv
  <2> QED
    BY <1>1, <2>1, Sizes DEF RingNeverStuck, Full
<1> QED
  BY <1>2, <1>3, <1>4, Zenon DEF RingIsQueue

-----------------------------------------------------------------------------
(* consoleread takes a character: the ring loses the first one that is ready. *)
LEMMA ReadStep ==
  ASSUME RingInv, input.r # input.w, input' = [input EXCEPT !.r = Plus(@, 1)],
         ready' = Tail(ready), edited' = edited
  PROVE  RingInv'
<1> DEFINE r == input.r
           s == Plus(r, 1)
           n == Len(ready)
           m == Len(edited)
<1>1. /\ input'.r = s /\ input'.w = input.w /\ input'.e = input.e
      /\ input'.buf = input.buf
      /\ s \in Index => input' \in [buf : [Room -> Chars], r : Index, w : Index, e : Index]
  BY Zenon DEF RingInv, RingType
<1>2. /\ r \in Index /\ n \in Nat /\ n # 0 /\ m \in Nat /\ n + m <= INPUT_BUF
      /\ INPUT_BUF < UINT /\ UINT \in Nat /\ INPUT_BUF \in Nat /\ 1 \in 0..UINT
      /\ ready \in Seq(Chars) /\ edited \in Seq(Chars)
  BY Indices, Sizes DEF RingInv, RingType, Typed
<1>3. s \in Index /\ r \in Nat /\ s \in Nat
  <2>1. s \in Index
    BY <1>2, PlusIs, Zenon
  <2> QED
    BY <1>2, <2>1 DEF Index
<1>4. /\ ready' \in Seq(Chars) /\ Len(ready') = n - 1
      /\ \A k \in 1..(n - 1) : ready'[k] = ready[k + 1]
  BY <1>2
<1>5. RingType'
  BY <1>1, <1>2, <1>3, <1>4, Zenon DEF RingType
<1>6. Typed' = n + m - 1 /\ Typed = n + m
  BY <1>2, <1>4 DEF Typed
<1>7. /\ input.w = Plus(r, n) /\ input.e = Plus(r, n + m)
      /\ \A k \in 1..n : ready[k] = input.buf[(r + k - 1) % INPUT_BUF]
      /\ \A k \in 1..m : /\ edited[k] = input.buf[(r + n + k - 1) % INPUT_BUF]
                         /\ edited[k] # "\n"
  BY <1>6, Zenon DEF RingInv
<1>8. ASSUME NEW k \in Nat PROVE (s + k) % INPUT_BUF = (r + 1 + k) % INPUT_BUF
  BY <1>2, Shift, Zenon
<1>9. ASSUME NEW k \in Nat, k <= n + m, k # 0 PROVE Plus(s, k - 1) = Plus(r, k)
  <2> DEFINE j == k - 1
  <2>1. j \in Nat /\ 1 \in Nat /\ 1 + j = k /\ 1 + j <= UINT
    BY <1>2, <1>9
  <2> HIDE DEF j, r, n, m
  <2>2. Plus(Plus(r, 1), j) = Plus(r, 1 + j)
    <3>1. r \in Index
      BY <1>2, Zenon
    <3> QED
      BY <3>1, <2>1, PlusPlus, Zenon
  <2> QED
    BY <2>1, <2>2, Zenon DEF j
<1> HIDE DEF r, s, n, m
<1>10. input'.w = Plus(s, n - 1) /\ input'.e = Plus(s, n + m - 1)
  <2>1. n <= n + m /\ n + m <= n + m /\ n + m \in Nat /\ n + m # 0
    BY <1>2
  <2>2. Plus(s, n - 1) = Plus(r, n)
    BY <1>2, <1>9, <2>1, Zenon
  <2>3. Plus(s, n + m - 1) = Plus(r, n + m)
    <3> DEFINE t == n + m
    <3>1. t \in Nat /\ t <= n + m /\ t # 0 /\ t - 1 = n + m - 1
      BY <1>2, <2>1
    <3> HIDE DEF t
    <3>2. Plus(s, t - 1) = Plus(r, t)
      BY <1>9, <3>1, Zenon
    <3> QED
      BY <3>1, <3>2, Zenon DEF t
  <2> QED
    BY <1>1, <1>7, <2>2, <2>3, Zenon
<1>11. ASSUME NEW k \in 1..(n - 1)
       PROVE  ready'[k] = input'.buf[(s + k - 1) % INPUT_BUF]
  <2>1. k - 1 \in Nat /\ k + 1 \in 1..n /\ s + (k - 1) = s + k - 1
    BY <1>2, <1>3
  <2>2. r + 1 + (k - 1) = r + (k + 1) - 1
    BY <1>3
  <2>3. (s + (k - 1)) % INPUT_BUF = (r + 1 + (k - 1)) % INPUT_BUF
    BY <1>8, <2>1, Zenon
  <2>4. ready[k + 1] = input.buf[(r + (k + 1) - 1) % INPUT_BUF]
    BY <1>7, <2>1, Zenon
  <2> QED
    BY <1>1, <1>4, <2>1, <2>2, <2>3, <2>4, Zenon
<1>12. ASSUME NEW k \in 1..m
       PROVE  /\ edited[k] = input'.buf[(s + (n - 1) + k - 1) % INPUT_BUF]
              /\ edited[k] # "\n"
  <2> DEFINE j == n - 1 + k - 1
  <2>1. j \in Nat
    BY <1>2
  <2>2. s + j = s + (n - 1) + k - 1 /\ r + 1 + j = r + n + k - 1
    BY <1>2, <1>3
  <2> HIDE DEF j
  <2>3. (s + j) % INPUT_BUF = (r + 1 + j) % INPUT_BUF
    BY <1>8, <2>1, Zenon
  <2> QED
    BY <1>1, <1>7, <2>2, <2>3, Zenon
<1>13. Typed' # INPUT_BUF /\ Typed' <= INPUT_BUF
  BY <1>2, <1>6
<1> QED
  BY <1>1, <1>4, <1>5, <1>6, <1>10, <1>11, <1>12, <1>13 DEF RingInv, m

(* A key that takes characters back: the line being edited loses its last d  *)
(* characters.                                                               *)
LEMMA EraseStep ==
  ASSUME RingInv, NEW d \in 0..Len(edited),
         input' = [input EXCEPT !.e = Minus(@, d)], ready' = ready,
         edited' \in Seq(Chars), Len(edited') = Len(edited) - d,
         \A k \in 1..(Len(edited) - d) : edited'[k] = edited[k]
  PROVE  RingInv'
<1> DEFINE r == input.r
           n == Len(ready)
           m == Len(edited)
<1>1. /\ input'.r = r /\ input'.w = input.w /\ input'.e = Minus(input.e, d)
      /\ input'.buf = input.buf
      /\ Minus(input.e, d) \in Index => input' \in [buf : [Room -> Chars], r : Index, w : Index, e : Index]
  BY Zenon DEF RingInv, RingType
<1>2. /\ r \in Index /\ input.e \in Index /\ n \in Nat /\ m \in Nat /\ n + m <= INPUT_BUF
      /\ INPUT_BUF < UINT /\ UINT \in Nat /\ INPUT_BUF \in Nat
      /\ ready \in Seq(Chars) /\ d \in 0..m
  BY Indices, Sizes, Zenon DEF RingInv, RingType, Typed
<1>3. Minus(input.e, d) = Plus(r, n + m - d) /\ Minus(input.e, d) \in Index
  <2>1. n + m - d \in Nat /\ (n + m - d) + d = n + m /\ d \in Nat /\ d \in 0..UINT
    BY <1>2
  <2>2. Minus(Plus(r, (n + m - d) + d), d) = Plus(r, n + m - d)
    BY <1>2, <2>1, PlusPlus
  <2>3. input.e = Plus(r, n + m)
    BY Zenon DEF RingInv, Typed
  <2> QED
    BY <1>2, <2>1, <2>2, <2>3, MinusIs, Zenon
<1>4. RingType'
  BY <1>1, <1>2, <1>3, Zenon DEF RingType
<1>5. Typed' = n + m - d /\ Typed = n + m
  BY <1>2, Zenon DEF Typed
<1>6. n + m = INPUT_BUF => m = 0
  BY <1>5, Zenon DEF RingInv
<1>7. Typed' <= INPUT_BUF /\ (Typed' = INPUT_BUF => m - d = 0)
  <2> HIDE DEF n, m
  <2> QED
    BY <1>2, <1>5, <1>6
<1>8. \A k \in 1..(m - d) : k \in 1..m
  BY <1>2
<1> QED
  BY <1>1, <1>3, <1>4, <1>5, <1>7, <1>8, Zenon DEF RingInv

(* The kill-line key takes the whole line being edited back: consoleintr     *)
(* stops at w, for there is no line end after it.                            *)
LEMMA KillLine ==
  ASSUME RingInv
  PROVE  LineLength = Len(edited)
<1> DEFINE r == input.r
           n == Len(ready)
           m == Len(edited)
           last(j) == input.buf[Slot(Minus(input.e, j + 1))]
<1>1. /\ r \in Index /\ n \in Nat /\ m \in Nat /\ n + m <= INPUT_BUF /\ INPUT_BUF < UINT
      /\ UINT \in Nat /\ INPUT_BUF \in Nat /\ input.e = Plus(r, n + m)
      /\ Minus(input.e, input.w) = m
  BY Indices, Sizes, Zenon DEF RingInv, Typed
<1>2. \A k \in 1..m : /\ edited[k] = input.buf[(r + n + k - 1) % INPUT_BUF]
                      /\ edited[k] # "\n"
  BY Zenon DEF RingInv
<1>3. ASSUME NEW j \in 0..(m - 1) PROVE last(j) # "\n"
  <2> DEFINE a == n + m - (j + 1)
             b == j + 1
             k == m - j
  <2>1. /\ a \in Nat /\ b \in Nat /\ a + b = n + m /\ a + b <= UINT /\ a \in 0..UINT
        /\ k \in 1..m
    <3> HIDE DEF n, m
    <3> QED
      BY <1>1
  <2>2. r + a = r + n + k - 1
    <3>1. r \in Nat
      BY <1>1 DEF Index
    <3> HIDE DEF r, n, m
    <3> QED
      BY <1>1, <3>1
  <2> HIDE DEF a, b, k, r, n, m
  <2>3. Minus(Plus(r, a + b), b) = Plus(r, a)
    <3>1. r \in Index
      BY <1>1, Zenon
    <3> QED
      BY <3>1, <2>1, PlusPlus, Zenon
  <2>4. Slot(Plus(r, a)) = (r + a) % INPUT_BUF
    <3>1. r \in Index
      BY <1>1, Zenon
    <3> QED
      BY <3>1, <2>1, SlotPlus, Zenon
  <2>5. Minus(input.e, j + 1) = Plus(r, a)
    BY <1>1, <2>1, <2>3, Zenon DEF b
  <2> QED
    BY <1>2, <2>1, <2>2, <2>4, <2>5, Zenon
<1> HIDE DEF last, m
<1>4. LineLength = CHOOSE k \in 0..m : /\ k = m \/ last(k) = "\n"
                                      /\ \A j \in 0..(k - 1) : last(j) # "\n"
  BY <1>1, Zenon DEF LineLength, last
<1>5. \A k \in 0..m : (/\ k = m \/ last(k) = "\n"
                       /\ \A j \in 0..(k - 1) : last(j) # "\n") <=> k = m
  <2>1. ASSUME NEW k \in 0..m, last(k) = "\n" PROVE k = m
    <3>1. k \notin 0..(m - 1)
      BY <1>3, <2>1, Zenon
    <3> QED
      BY <1>1, <3>1
  <2> QED
    BY <1>3, <2>1, Zenon
<1>6. m \in 0..m
  BY <1>1
<1> QED
  BY <1>4, <1>5, <1>6, Zenon DEF m

(* The ring's buffer once consoleintr has put a key into it.                 *)
With(k) == [input.buf EXCEPT ![Slot(input.e)] = k]

(* A key is stored behind everything typed, and overwrites nothing of it.    *)
LEMMA Stored ==
  ASSUME RingInv, ~Full, NEW k \in Chars
  PROVE  /\ Typed < INPUT_BUF
         /\ With(k) \in [Room -> Chars]
         /\ With(k)[(input.r + Typed) % INPUT_BUF] = k
         /\ \A i \in 0..(Typed - 1) :
              With(k)[(input.r + i) % INPUT_BUF] = input.buf[(input.r + i) % INPUT_BUF]
<1> DEFINE r == input.r
           t == Typed
<1>1. /\ r \in Index /\ t \in Nat /\ t <= INPUT_BUF /\ t # INPUT_BUF /\ input.e = Plus(r, t)
      /\ input.buf \in [Room -> Chars] /\ t \in 0..UINT /\ INPUT_BUF \in Nat \ {0}
  BY Indices, Sizes DEF RingInv, RingType, Full
<1>2. r \in Nat /\ t < INPUT_BUF
  BY <1>1 DEF Index
<1> HIDE DEF r, t
<1>3. Slot(input.e) = (r + t) % INPUT_BUF
  BY <1>1, SlotPlus, Zenon
<1>4. ASSUME NEW i \in Nat PROVE (r + i) % INPUT_BUF \in Room
  <2> DEFINE x == r + i
  <2>1. x \in Nat
    BY <1>2
  <2> HIDE DEF x
  <2>2. x % INPUT_BUF \in Room
    BY <2>1, InRoom, Zenon
  <2> QED
    BY <2>2, Zenon DEF x
<1>5. ASSUME NEW i \in 0..(t - 1)
      PROVE  (r + i) % INPUT_BUF # (r + t) % INPUT_BUF
  <2> DEFINE x == r + i
             y == r + t
  <2>1. x \in Nat /\ y \in Nat /\ x < y /\ y < x + INPUT_BUF
    BY <1>1, <1>2
  <2> HIDE DEF x, y
  <2>2. x % INPUT_BUF # y % INPUT_BUF
    BY <1>1, <2>1, Apart, Zenon
  <2> QED
    BY <2>2, Zenon DEF x, y
<1>6. With(k) \in [Room -> Chars] /\ With(k)[(r + t) % INPUT_BUF] = k
  BY <1>1, <1>3, <1>4, Zenon DEF With
<1>7. ASSUME NEW i \in 0..(t - 1)
      PROVE  With(k)[(r + i) % INPUT_BUF] = input.buf[(r + i) % INPUT_BUF]
  <2>1. i \in Nat
    BY <1>1
  <2> QED
    BY <1>1, <1>3, <1>4, <1>5, <2>1, Zenon DEF With
<1> QED
  BY <1>2, <1>6, <1>7, Zenon DEF r, t

(* Storing a key: it ends the line being edited, or all of that line becomes *)
(* ready, at the end of a line or of the ring.                               *)
LEMMA StoreStep ==
  ASSUME RingInv, NEW c, NEW k \in Chars, store(c, k)
  PROVE  RingInv'
<1> DEFINE r == input.r
           n == Len(ready)
           m == Len(edited)
           next == Plus(input.e, 1)
           done == Announced(next = Plus(r, INPUT_BUF), k)
           buf == With(k)
<1>1. /\ r \in Index /\ n \in Nat /\ m \in Nat /\ n + m <= INPUT_BUF /\ INPUT_BUF < UINT
      /\ UINT \in Nat /\ INPUT_BUF \in Nat /\ input.e = Plus(r, n + m) /\ Typed = n + m
      /\ ready \in Seq(Chars) /\ edited \in Seq(Chars) /\ input.w \in Index
      /\ input.w = Plus(r, n)
  BY Indices, Sizes, Zenon DEF RingInv, RingType, Typed
<1>2. /\ n + m < INPUT_BUF
      /\ buf \in [Room -> Chars]
      /\ buf[(r + (n + m)) % INPUT_BUF] = k
      /\ \A i \in 0..(n + m - 1) : buf[(r + i) % INPUT_BUF] = input.buf[(r + i) % INPUT_BUF]
  <2>1. ~Full
    BY Zenon DEF store
  <2>2. /\ Typed < INPUT_BUF
        /\ buf \in [Room -> Chars]
        /\ buf[(input.r + Typed) % INPUT_BUF] = k
        /\ \A i \in 0..(Typed - 1) :
             buf[(input.r + i) % INPUT_BUF] = input.buf[(input.r + i) % INPUT_BUF]
    BY <2>1, Stored, Zenon
  <2> QED
    BY <1>1, <2>2
<1>3. next = Plus(r, n + m + 1) /\ next \in Index
  <2> DEFINE t == n + m
  <2>1. t \in Nat /\ 1 \in Nat /\ t + 1 <= UINT /\ t + 1 \in 0..UINT
    BY <1>1, <1>2
  <2> HIDE DEF t, r
  <2>2. Plus(Plus(r, t), 1) = Plus(r, t + 1)
    <3>1. r \in Index
      BY <1>1, Zenon
    <3> QED
      BY <3>1, <2>1, PlusPlus, Zenon
  <2>3. Plus(r, t + 1) \in Index
    BY <1>1, <2>1, PlusIs, Zenon
  <2> QED
    BY <1>1, <2>2, <2>3, Zenon DEF t
<1>4. n + m + 1 = INPUT_BUF => done
  BY <1>3, Zenon DEF Announced
<1>5. /\ input'.buf = buf /\ input'.r = r /\ input'.e = next
      /\ input'.w = IF done THEN next ELSE input.w
      /\ input' \in [buf : [Room -> Chars], r : Index, w : Index, e : Index]
  <2>1. input' = [input EXCEPT !.buf[Slot(input.e)] = k, !.e = next,
                               !.w = IF done THEN next ELSE @]
    BY Zenon DEF store
  <2>2. input \in [buf : [Room -> Chars], r : Index, w : Index, e : Index]
    BY Zenon DEF RingInv, RingType
  <2>3. /\ input'.buf = buf /\ input'.r = r /\ input'.e = next
        /\ input'.w = IF done THEN next ELSE input.w
    <3> HIDE DEF done, next
    <3> QED
      BY <2>1, <2>2, Zenon DEF With
  <2>4. (IF done THEN next ELSE input.w) \in Index
    BY <1>1, <1>3, Zenon
  <2>5. input' = [buf |-> input'.buf, r |-> input'.r, w |-> input'.w, e |-> input'.e]
    <3> HIDE DEF done, next
    <3> QED
      BY <2>1, <2>2, Zenon
  <2> QED
    BY <1>1, <1>2, <1>3, <2>3, <2>4, <2>5, Zenon
<1>6. /\ \A i \in 1..n : ready[i] = input.buf[(r + i - 1) % INPUT_BUF]
      /\ \A i \in 1..m : /\ edited[i] = input.buf[(r + n + i - 1) % INPUT_BUF]
                         /\ edited[i] # "\n"
  BY Zenon DEF RingInv
<1>7. r \in Nat
  BY <1>1 DEF Index
<1>8. /\ done => ready' = ready \o Append(edited, k) /\ edited' = <<>>
      /\ ~done => edited' = Append(edited, k) /\ ready' = ready /\ k # "\n"
  BY Zenon DEF store, Announced
<1> HIDE DEF r, n, m, next, done, buf
<1>9. ASSUME NEW i \in 1..n PROVE ready[i] = buf[(r + i - 1) % INPUT_BUF]
  <2>1. i - 1 \in 0..(n + m - 1) /\ r + (i - 1) = r + i - 1
    BY <1>1, <1>7
  <2> QED
    BY <1>2, <1>6, <2>1, Zenon
<1>10. ASSUME NEW i \in 1..(m + 1)
       PROVE  Append(edited, k)[i] = buf[(r + n + i - 1) % INPUT_BUF]
  <2>1. CASE i = m + 1
    <3>1. r + n + i - 1 = r + (n + m)
      BY <1>1, <1>7, <2>1
    <3>2. Append(edited, k)[i] = k
      BY <1>1, <2>1 DEF m
    <3> QED
      BY <1>2, <3>1, <3>2, Zenon
  <2>2. CASE i # m + 1
    <3> DEFINE j == n + i - 1
    <3>1. i \in 1..m /\ j \in 0..(n + m - 1) /\ r + j = r + n + i - 1
      BY <1>1, <1>7, <2>2
    <3>2. Append(edited, k)[i] = edited[i]
      BY <1>1, <3>1 DEF m
    <3> HIDE DEF j
    <3> QED
      BY <1>2, <1>6, <3>1, <3>2, Zenon
  <2> QED
    BY <2>1, <2>2, Zenon
<1>11. Append(edited, k) \in Seq(Chars) /\ Len(Append(edited, k)) = m + 1
  BY <1>1 DEF m
<1>12. CASE ~done
  <2>1. /\ ready' = ready /\ edited' = Append(edited, k) /\ Len(ready') = n
        /\ Len(edited') = m + 1 /\ Typed' = n + m + 1
    BY <1>1, <1>8, <1>11, <1>12 DEF Typed, n
  <2>2. RingType'
    BY <1>1, <1>5, <1>11, <2>1, Zenon DEF RingType
  <2>3. ASSUME NEW i \in 1..(m + 1) PROVE Append(edited, k)[i] # "\n"
    <3>1. CASE i = m + 1
      BY <1>1, <1>8, <1>12, <3>1 DEF m
    <3>2. CASE i # m + 1
      <4>1. i \in 1..m
        BY <1>1, <3>2
      <4> QED
        BY <1>1, <1>6, <4>1 DEF m
    <3> QED
      BY <3>1, <3>2, Zenon
  <2>4. Typed' <= INPUT_BUF /\ Typed' # INPUT_BUF
    BY <1>1, <1>2, <1>4, <1>12, <2>1
  <2>5. input'.w = Plus(input'.r, Len(ready')) /\ input'.e = Plus(input'.r, Typed')
    BY <1>1, <1>3, <1>5, <1>12, <2>1, Zenon
  <2>6. \A i \in 1..Len(ready') : ready'[i] = input'.buf[(input'.r + i - 1) % INPUT_BUF]
    BY <1>5, <1>9, <2>1, Zenon
  <2>7. \A i \in 1..Len(edited') :
          /\ edited'[i] = input'.buf[(input'.r + Len(ready') + i - 1) % INPUT_BUF]
          /\ edited'[i] # "\n"
    BY <1>5, <1>10, <2>1, <2>3, Zenon
  <2> QED
    BY <2>2, <2>4, <2>5, <2>6, <2>7, Zenon DEF RingInv
<1>13. CASE done
  <2> DEFINE a == Append(edited, k)
  <2>1. /\ a \in Seq(Chars) /\ Len(a) = m + 1
        /\ \A i \in 1..(m + 1) : a[i] = buf[(r + n + i - 1) % INPUT_BUF]
    BY <1>10, <1>11, Zenon
  <2> HIDE DEF a
  <2>2. ready' = ready \o a /\ edited' = <<>>
    BY <1>8, <1>13, Zenon DEF a
  <2>3. /\ ready' \in Seq(Chars) /\ edited' \in Seq(Chars) /\ Len(edited') = 0
        /\ Len(ready') = n + (m + 1)
    BY <1>1, <2>1, <2>2 DEF n
  <2>4. Typed' = n + m + 1 /\ Len(ready') = n + m + 1
    BY <1>1, <2>3 DEF Typed
  <2>5. ASSUME NEW i \in 1..(n + m + 1)
        PROVE  (ready \o a)[i] = buf[(r + i - 1) % INPUT_BUF]
    <3>1. CASE i <= n
      <4>1. i \in 1..n
        BY <1>1, <3>1
      <4>2. (ready \o a)[i] = ready[i]
        BY <1>1, <2>1, <4>1 DEF n
      <4> QED
        BY <1>9, <4>1, <4>2, Zenon
    <3>2. CASE i > n
      <4> DEFINE j == i - n
      <4>1. j \in 1..(m + 1) /\ r + n + j - 1 = r + i - 1
        BY <1>1, <1>7, <3>2
      <4>2. (ready \o a)[i] = a[j]
        BY <1>1, <2>1, <3>2 DEF n
      <4> HIDE DEF j
      <4> QED
        BY <2>1, <4>1, <4>2, Zenon
    <3>3. i <= n \/ i > n
      BY <1>1
    <3> QED
      BY <3>1, <3>2, <3>3, Zenon
  <2>6. RingType'
    BY <1>5, <2>3, Zenon DEF RingType
  <2>7. input'.w = Plus(input'.r, Len(ready')) /\ input'.e = Plus(input'.r, Typed')
    BY <1>3, <1>5, <1>13, <2>4, Zenon
  <2>8. \A i \in 1..Len(ready') : ready'[i] = input'.buf[(input'.r + i - 1) % INPUT_BUF]
    BY <1>5, <2>2, <2>4, <2>5, Zenon
  <2>9. Typed' <= INPUT_BUF
    BY <1>1, <1>2, <2>4
  <2> QED
    BY <2>3, <2>6, <2>7, <2>8, <2>9 DEF RingInv
<1> QED
  BY <1>12, <1>13, Zenon

-----------------------------------------------------------------------------
(* Dropping the last element of a sequence. *)
LEMMA ButLast ==
  ASSUME NEW V, NEW t \in Seq(V), Len(t) # 0
  PROVE  /\ SubSeq(t, 1, Len(t) - 1) \in Seq(V)
         /\ Len(SubSeq(t, 1, Len(t) - 1)) = Len(t) - 1
         /\ \A i \in 1..(Len(t) - 1) : SubSeq(t, 1, Len(t) - 1)[i] = t[i]
<1> DEFINE n == Len(t) - 1
           s == SubSeq(t, 1, n)
<1>1. n \in Nat /\ \A i \in 1..n : t[i] \in V
  OBVIOUS
<1> HIDE DEF n
<1>2. s \in Seq(V)
  BY <1>1
<1>3. Len(s) = n
  BY <1>1
<1>4. \A i \in 1..n : s[i] = t[i]
  BY <1>1
<1> QED
  BY <1>2, <1>3, <1>4, Zenon DEF n

(* A key that consoleintr gets.                                              *)
LEMMA KeyStep ==
  ASSUME RingInv, NEW c, getc(c)
  PROVE  RingInv'
<1>1. PICK k \in Keys \cap work.keys :
        \/ erase(c, k)
        \/ store(c, k)
        \/ UNCHANGED <<input, ready, edited>>
  BY Zenon DEF getc
<1>2. CASE erase(c, k)
  <2> DEFINE m == Len(edited)
  <2>1. /\ input' = [input EXCEPT !.e = Minus(@, Erases(k))] /\ ready' = ready
        /\ edited' = IF k = "^U" THEN <<>> ELSE SubSeq(edited, 1, m - 1)
        /\ k \in {"^U", "^H"}
    BY <1>2, Zenon DEF erase
  <2>2. edited \in Seq(Chars) /\ m \in Nat
    BY DEF RingInv, RingType
  <2>3. CASE k = "^U"
    <3>1. Erases(k) = m
      BY <2>3, KillLine, Zenon DEF Erases
    <3>2. edited' = <<>> /\ m \in 0..m
      BY <2>1, <2>2, <2>3
    <3>3. /\ edited' \in Seq(Chars) /\ Len(edited') = m - m
          /\ \A i \in 1..(m - m) : edited'[i] = edited[i]
      BY <2>2, <3>2
    <3> QED
      BY <2>1, <3>1, <3>2, <3>3, EraseStep, Zenon
  <2>4. CASE k # "^U" /\ m = 0
    <3>1. Erases(k) = 0
      BY <2>1, <2>4, Indices, Zenon DEF Erases
    <3>2. edited' = <<>> /\ 0 \in 0..m
      BY <2>1, <2>2, <2>4
    <3> QED
      BY <2>1, <2>4, <3>1, <3>2, EraseStep
  <2>5. CASE k # "^U" /\ m # 0
    <3>1. Erases(k) = 1
      BY <2>1, <2>5, Indices, Zenon DEF Erases
    <3>2. edited' = SubSeq(edited, 1, m - 1) /\ 1 \in 0..m
      BY <2>1, <2>2, <2>5
    <3>3. /\ edited' \in Seq(Chars) /\ Len(edited') = m - 1
          /\ \A i \in 1..(m - 1) : edited'[i] = edited[i]
      BY <2>2, <2>5, <3>2, ButLast, Zenon
    <3> QED
      BY <2>1, <3>1, <3>2, <3>3, EraseStep, Zenon
  <2> QED
    BY <2>3, <2>4, <2>5, Zenon
<1>3. CASE store(c, k)
  BY <1>3, StoreStep, Zenon DEF Chars
<1>4. CASE UNCHANGED <<input, ready, edited>>
  BY <1>4, Zenon DEF RingInv, RingType, Typed
<1> QED
  BY <1>1, <1>2, <1>3, <1>4, Zenon

(* No other step than those of consoleintr and consoleread touches the ring. *)
LEMMA RingStep ==
  ASSUME RingInv, [Next]_vars
  PROVE  RingInv'
<1> DEFINE Same == UNCHANGED <<input, ready, edited>>
<1>1. ASSUME Same PROVE RingInv'
  BY <1>1, Zenon DEF RingInv, RingType, Typed
<1>2. ASSUME NEW c \in CPUs, spin(c) /\ UNCHANGED consVars PROVE Same
  BY <1>2, Zenon DEF consVars
<1>3. ASSUME NEW c \in CPUs, trap(c) \/ syscall(c) PROVE Same
  BY <1>3, Zenon DEF trap, syscall, lineVars
<1>4. ASSUME NEW c \in CPUs, handler(c) PROVE RingInv'
  <2>1. CASE trap_end(c) \/ iret(c) \/ getc_end(c)
    BY <1>1, <2>1, Zenon DEF trap_end, iret, getc_end, consVars
  <2>2. CASE kill(c) \/ tick(c) \/ sleep_check(c) \/ read_wait(c)
    BY <1>1, <2>2, Zenon DEF kill, tick, sleep_check, read_wait, lineVars
  <2>3. CASE putc(c)
    BY <1>1, <2>3, Zenon DEF putc
  <2>4. CASE getc(c)
    BY <2>4, KeyStep, Zenon
  <2>5. CASE read_char(c)
    BY <2>5, ReadStep, Zenon DEF read_char
  <2>6. CASE read_eof(c)
    BY <1>1, <2>6, ReadStep, Zenon DEF read_eof
  <2> QED
    BY <1>4, <2>1, <2>2, <2>3, <2>4, <2>5, <2>6, Zenon DEF handler
<1>5. CASE UNCHANGED vars
  BY <1>1, <1>5, Zenon DEF vars, consVars
<1> QED
  BY <1>1, <1>2, <1>3, <1>4, <1>5, Zenon DEF Next

(* The empty ring. *)
LEMMA RingInit ==
  ASSUME Init
  PROVE  RingInv
<1>1. /\ input = [buf |-> [i \in Room |-> "0"], r |-> 0, w |-> 0, e |-> 0]
      /\ ready = <<>> /\ edited = <<>>
  BY Zenon DEF Init, Room
<1>2. 0 \in Index /\ 0 \in 0..UINT /\ INPUT_BUF \in Nat \ {0} /\ Chars = Chars \cup {"0"}
  BY Sizes DEF Index, Chars
<1>3. Plus(0, 0) = 0
  BY <1>2, PlusIs, Sizes
<1>4. RingType
  BY <1>1, <1>2 DEF RingType
<1>5. Len(ready) = 0 /\ Len(edited) = 0 /\ Typed = 0
  BY <1>1 DEF Typed
<1> QED
  BY <1>1, <1>2, <1>3, <1>4, <1>5 DEF RingInv

(* The ring's inductive invariant holds in every reachable state, whatever   *)
(* keys are typed and however readers and interrupts interleave.             *)
THEOREM RingInvariant == Spec => []RingInv
<1>1. Init => RingInv
  BY RingInit, Zenon
<1>2. RingInv /\ [Next]_vars => RingInv'
  BY RingStep, Zenon
<1> QED
  BY <1>1, <1>2, PTL DEF Spec

(* The ring with its three wrapping indices is the line discipline:          *)
(* consoleread gets the characters of finished lines, edited, in the order   *)
(* they were typed, and consoleintr overwrites nothing that was not read.    *)
THEOREM RingQueue == Spec => []RingIsQueue
<1>1. RingInv => RingIsQueue
  BY Queue, Zenon
<1> QED
  BY <1>1, RingInvariant, PTL

(* Reader and typist never wait for each other: consoleintr announces what   *)
(* fills the ring.                                                           *)
THEOREM NeverStuck == Spec => []RingNeverStuck
<1>1. RingInv => RingNeverStuck
  BY Queue, Zenon
<1> QED
  BY <1>1, RingInvariant, PTL
=============================================================================
